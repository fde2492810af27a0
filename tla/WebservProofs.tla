--------------------------- MODULE WebservProofs ----------------------------
(***************************************************************************)
(* Proofs about Webserv, for any number of connections, descriptors and    *)
(* processes and any two timeouts of which the processes' is the shorter.  *)
(***************************************************************************)
EXTENDS Webserv, TLAPS

(***************************************************************************)
(* The inductive invariant: who may own which knote, and which objects a   *)
(* knote or a CGI can still lead to.                                       *)
(***************************************************************************)

\* READ and WRITE knotes name the live connection that has the descriptor.
Sockets ==
  \A f \in Fd : \A h \in {kq.read[f], kq.write[f]} \ {None} :
    Live(h) /\ http[h].fd = f

\* The TIMER knote of a descriptor is that of the connection that has it, or
\* one left by a connection that a reply deleted.
FdTimers ==
  \A f \in Fd : Armed(kq, f) =>
    LET h == kq.timer[f].owner IN
    /\ h \in Http
    /\ \/ Live(h) /\ http[h].fd = f
       \/ http[h].life = "reply"

\* The TIMER and PROC knotes of a process come and go together, except that
\* a process that timed out keeps its PROC knote (and the step that stops the
\* server may be half done).
CgiKnotes ==
  \A c \in Cgi :
    /\ Armed(kq, c) => /\ kq.timer[c].owner = c
                       /\ kq.timer[c].left <= CGI_TIMEOUT
                       /\ CgiLive(c)
                       /\ c \in kq.proc
    /\ c \in kq.proc => \/ CgiLive(c) /\ (Armed(kq, c) \/ Stopped)
                        \/ cgi[c].life = "timedout"

\* A live CGI refers to an object that existed, and that was not ended by the
\* 408 if the process is still watched.
CgiHttp ==
  \A c \in Cgi : CgiLive(c) =>
    /\ cgi[c].http \in Http
    /\ http[cgi[c].http].life # "unborn"
    /\ c \in kq.proc => http[cgi[c].http].life # "timeout"

\* The listening socket's event is pending only with a connection waiting.
AcceptPending == kq.accept => backlog > 0

IInv ==
  /\ TypeOK
  /\ AcceptPending
  /\ Sockets
  /\ Registered
  /\ FdTimers
  /\ CgiKnotes
  /\ CgiHttp
  /\ CgiDeadlineFirst
  /\ MethodKnown
  /\ CompleteHasWorker
  /\ AbortHasCause

-----------------------------------------------------------------------------
(* The operators on the queue, field by field *)

LEMMA EvReadFields ==
  ASSUME NEW q \in KqType, NEW f \in Fd, NEW o \in Http \cup {None}
  PROVE  /\ EvRead(q, f, o) \in KqType
         /\ EvRead(q, f, o).accept = q.accept
         /\ EvRead(q, f, o).read = [q.read EXCEPT ![f] = o]
         /\ EvRead(q, f, o).write = q.write
         /\ EvRead(q, f, o).timer = q.timer
         /\ EvRead(q, f, o).proc = q.proc
  BY DEF KqType, EvRead

LEMMA EvWriteFields ==
  ASSUME NEW q \in KqType, NEW f \in Fd, NEW o \in Http \cup {None}
  PROVE  /\ EvWrite(q, f, o) \in KqType
         /\ EvWrite(q, f, o).accept = q.accept
         /\ EvWrite(q, f, o).read = q.read
         /\ EvWrite(q, f, o).write = [q.write EXCEPT ![f] = o]
         /\ EvWrite(q, f, o).timer = q.timer
         /\ EvWrite(q, f, o).proc = q.proc
  BY DEF KqType, EvWrite

LEMMA EvTimerFields ==
  ASSUME NEW q \in KqType, NEW i \in Ident, NEW o \in Http \cup Cgi,
         NEW seconds \in Nat
  PROVE  /\ EvTimer(q, i, o, seconds) \in KqType
         /\ EvTimer(q, i, o, seconds).accept = q.accept
         /\ EvTimer(q, i, o, seconds).read = q.read
         /\ EvTimer(q, i, o, seconds).write = q.write
         /\ EvTimer(q, i, o, seconds).timer =
              [q.timer EXCEPT ![i] = [owner |-> o, left |-> seconds]]
         /\ EvTimer(q, i, o, seconds).proc = q.proc
  BY DEF KqType, EvTimer, Timer

LEMMA EvTimerDeleteFields ==
  ASSUME NEW q \in KqType, NEW i \in Ident
  PROVE  /\ EvTimerDelete(q, i) \in KqType
         /\ EvTimerDelete(q, i).accept = q.accept
         /\ EvTimerDelete(q, i).read = q.read
         /\ EvTimerDelete(q, i).write = q.write
         /\ EvTimerDelete(q, i).timer = [q.timer EXCEPT ![i] = NoTimer]
         /\ EvTimerDelete(q, i).proc = q.proc
  BY DEF KqType, EvTimerDelete, Timer, NoTimer

LEMMA CloseFields ==
  ASSUME NEW q \in KqType, NEW f \in Fd
  PROVE  /\ Close(q, f) \in KqType
         /\ Close(q, f).accept = q.accept
         /\ Close(q, f).read = [q.read EXCEPT ![f] = None]
         /\ Close(q, f).write = [q.write EXCEPT ![f] = None]
         /\ Close(q, f).timer = q.timer
         /\ Close(q, f).proc = q.proc
  BY DEF KqType, Close

LEMMA ElapseFields ==
  ASSUME NEW q \in KqType, Due(q) = {}
  PROVE  /\ Elapse(q) \in KqType
         /\ Elapse(q).accept = q.accept
         /\ Elapse(q).read = q.read
         /\ Elapse(q).write = q.write
         /\ Elapse(q).proc = q.proc
         /\ \A i \in Ident : Elapse(q).timer[i].owner = q.timer[i].owner
         /\ \A i \in Ident : Armed(q, i) =>
              Elapse(q).timer[i].left = q.timer[i].left - 1
         /\ \A i \in Ident : Armed(q, i) => q.timer[i].left > 0
<1> USE DEF KqType, Elapse, Armed, Due, Timer
<1> DEFINE t == [i \in Ident |-> IF Armed(q, i)
                                THEN [q.timer[i] EXCEPT !.left = @ - 1]
                                ELSE q.timer[i]]
<1>1. Elapse(q) = [q EXCEPT !.timer = t]
  BY DEF Elapse
<1>2. \A i \in Ident : q.timer[i] \in Timer
  OBVIOUS
<1>3. \A i \in Ident : Armed(q, i) => q.timer[i].left > 0
  BY <1>2
<1>4. \A i \in Ident : t[i] \in Timer
  BY <1>2, <1>3
<1>5. t \in [Ident -> Timer]
  BY <1>4
<1>6. \A i \in Ident : /\ t[i].owner = q.timer[i].owner
                       /\ Armed(q, i) => t[i].left = q.timer[i].left - 1
  BY <1>2
<1>7. /\ Elapse(q) \in KqType
      /\ Elapse(q).accept = q.accept
      /\ Elapse(q).read = q.read
      /\ Elapse(q).write = q.write
      /\ Elapse(q).proc = q.proc
      /\ Elapse(q).timer = t
  <2> HIDE DEF t
  <2> QED BY <1>1, <1>5
<1> QED BY <1>3, <1>6, <1>7

-----------------------------------------------------------------------------
(* Parsing *)

\* What x, made from r by parse(), still has in common with it.
ParsedFrom(r, x) ==
  /\ x \in HttpType
  /\ x.life = r.life
  /\ x.fd = r.fd
  /\ x.state \notin {PENDING_START_LINE, BAD_REQUEST} => x.method # None

\* The parser states are different numbers; which ones does not matter below.
LEMMA StatesDiffer ==
  /\ PENDING_START_LINE \notin {PENDING_HEADERS, PENDING_BODY, COMPLETE,
                                BAD_REQUEST, SPINNING}
  /\ PENDING_HEADERS \notin {PENDING_BODY, COMPLETE, BAD_REQUEST, SPINNING}
  /\ PENDING_BODY \notin {COMPLETE, BAD_REQUEST, SPINNING}
  /\ COMPLETE \notin {BAD_REQUEST, SPINNING}
  /\ BAD_REQUEST # SPINNING
  BY DEF PENDING_START_LINE, PENDING_HEADERS, PENDING_BODY, COMPLETE,
         BAD_REQUEST, SPINNING

LEMMA OrParsedKeeps ==
  ASSUME NEW r, NEW R, \A x \in R : ParsedFrom(r, x)
  PROVE  \A y \in OrParsed(R) : ParsedFrom(r, y)
<1> SUFFICES ASSUME NEW x, ParsedFrom(r, x), NEW y \in Parse(x)
             PROVE  ParsedFrom(r, y)
  BY DEF OrParsed
<1> USE StatesDiffer DEF ParsedFrom, HttpType, ParserState
<1>1. CASE y \in StartLine(x)
  <2>1. ASSUME NEW m \in Method,
               y = [x EXCEPT !.state = PENDING_HEADERS, !.method = m]
        PROVE  ParsedFrom(r, y)
    <3>1. y \in HttpType
      BY <2>1
    <3>2. y.method # None
      BY <2>1, MethodAssumption
    <3> QED BY <2>1, <3>1, <3>2
  <2>2. CASE \E m \in Method \cup {None} :
               y = [x EXCEPT !.state = BAD_REQUEST, !.method = m]
    BY <2>2
  <2> QED BY <1>1, <2>1, <2>2 DEF StartLine
<1>2. CASE x.state = PENDING_HEADERS /\ y \in FieldLine(x)
  BY <1>2 DEF FieldLine, ConnHeader
<1>3. CASE x.state = PENDING_BODY /\ y \in Body(x)
  BY <1>3 DEF Body
<1> QED BY <1>1, <1>2, <1>3 DEF Parse

\* Whatever a segment holds, recv_request() never loses the identity of the
\* object, and knows the method of every request past its start line.
LEMMA ParseLoopKeeps ==
  ASSUME NEW r \in HttpType,
         r.state # PENDING_START_LINE => r.method # None
  PROVE  \A x \in ParseLoop(r) : ParsedFrom(r, x)
<1>1. ParsedFrom(r, r)
  BY DEF ParsedFrom
<1> QED BY <1>1, OrParsedKeeps DEF ParseLoop

-----------------------------------------------------------------------------
(* One lemma per step *)

LEMMA IdentFacts ==
  /\ \A f \in Fd : f \in Ident /\ f \notin Cgi /\ f # None
  /\ \A c \in Cgi : c \in Ident /\ c \notin Fd /\ c \notin Http /\ c # None
  /\ \A h \in Http : h # None /\ h \notin Cgi
  BY IdentAssumption DEF Ident

\* A process stays watched as long as its knotes and its object stay.
LEMMA WatchKept ==
  ASSUME TypeOK, NEW x \in Http, Watched(x),
         \A d \in kq.proc : CgiLive(d) /\ cgi[d].http = x =>
           d \in kq'.proc /\ cgi'[d] = cgi[d] /\ kq'.timer[d].owner = kq.timer[d].owner
  PROVE  Watched(x)'
<1>1. PICK d \in kq.proc : CgiLive(d) /\ cgi[d].http = x /\ Armed(kq, d)
  BY DEF Watched
<1>2. /\ d \in kq'.proc /\ cgi'[d] = cgi[d]
      /\ kq'.timer[d].owner = kq.timer[d].owner
  BY <1>1
<1> QED BY <1>1, <1>2 DEF Watched, CgiLive, Armed

LEMMA InitOK == Init => IInv
<1> SUFFICES ASSUME Init PROVE IInv
  OBVIOUS
<1> USE IdentFacts DEF Init, Unborn, UnbornCgi, EmptyKq, NoTimer, Armed, Live, CgiLive
<1>1. TypeOK
  BY DEF TypeOK, LoopStatus, HttpType, ParserState, PeerStatus, KqType, CgiType,
         ChildStatus, Timer
<1>2. AcceptPending /\ Sockets /\ Registered /\ FdTimers /\ CgiKnotes /\ CgiHttp
  BY DEF AcceptPending, Sockets, Registered, FdTimers, CgiKnotes, CgiHttp, Ident
<1>3. CgiDeadlineFirst /\ MethodKnown /\ CompleteHasWorker /\ AbortHasCause
  BY DEF CgiDeadlineFirst, MethodKnown, CompleteHasWorker, Watched, GivenUp, Armed, AbortHasCause, Ident
<1> QED BY <1>1, <1>2, <1>3 DEF IInv

LEMMA ConnectOK == IInv /\ Connect => IInv'
<1> SUFFICES ASSUME IInv, Connect PROVE IInv'
  OBVIOUS
<1> USE DEF IInv, Connect
<1>1. kq \in KqType /\ kq' = [kq EXCEPT !.accept = TRUE]
  BY DEF TypeOK
<1>2. /\ kq' \in KqType
      /\ kq'.read = kq.read
      /\ kq'.write = kq.write
      /\ kq'.timer = kq.timer
      /\ kq'.proc = kq.proc
  BY <1>1 DEF KqType
<1>3. TypeOK' /\ AcceptPending'
  BY <1>2 DEF TypeOK, AcceptPending
<1>4. (Sockets /\ Registered /\ FdTimers /\ CgiKnotes /\ CgiHttp)'
  BY <1>2 DEF Sockets, Registered, FdTimers, CgiKnotes, CgiHttp, Live, CgiLive, Armed, Stopped
<1>5. (CgiDeadlineFirst /\ MethodKnown /\ CompleteHasWorker /\ AbortHasCause)'
  BY <1>2 DEF CgiDeadlineFirst, MethodKnown, CompleteHasWorker, Watched, GivenUp, Armed, AbortHasCause, Live, CgiLive, Armed
<1> QED BY <1>3, <1>4, <1>5 DEF IInv

LEMMA TickOK == IInv /\ Tick => IInv'
<1> SUFFICES ASSUME IInv, Tick PROVE IInv'
  OBVIOUS
<1> USE DEF IInv, Tick
<1>1. /\ kq' = Elapse(kq) /\ kq \in KqType
      /\ UNCHANGED <<loop, http, peer, cgi, child, backlog>>
  BY DEF TypeOK
<1>2. /\ kq' \in KqType
      /\ kq'.accept = kq.accept
      /\ kq'.read = kq.read
      /\ kq'.write = kq.write
      /\ kq'.proc = kq.proc
      /\ \A i \in Ident : kq'.timer[i].owner = kq.timer[i].owner
      /\ \A i \in Ident : Armed(kq, i) => kq'.timer[i].left = kq.timer[i].left - 1
      /\ \A i \in Ident : Armed(kq, i) => kq.timer[i].left > 0
  BY <1>1, ElapseFields
<1>3. \A i \in Ident : kq.timer[i].left \in Nat
  BY <1>1 DEF KqType, Timer
<1>4. TypeOK' /\ AcceptPending'
  BY <1>1, <1>2 DEF TypeOK, AcceptPending
<1>5. (Sockets /\ Registered /\ FdTimers /\ CgiKnotes /\ CgiHttp)'
  BY <1>1, <1>2, <1>3, IdentFacts, TimeoutAssumption DEF Sockets, Registered, FdTimers, CgiKnotes, CgiHttp, Live, CgiLive, Armed, Stopped
<1>6. CgiDeadlineFirst'
  <2> SUFFICES ASSUME NEW c \in Cgi, Armed(kq', c), Live(cgi[c].http)
               PROVE  kq'.timer[c].left < kq'.timer[http[cgi[c].http].fd].left
    BY <1>1 DEF CgiDeadlineFirst, Live
  <2>1. Armed(kq, c) /\ c \in Ident
    BY <1>2, IdentFacts DEF Armed
  <2>2. cgi[c].http \in Http
    BY <2>1 DEF CgiKnotes, CgiHttp
  <2>3. http[cgi[c].http].fd \in Ident /\ Armed(kq, http[cgi[c].http].fd)
    BY <2>2, IdentFacts DEF Registered, Armed
  <2>4. kq.timer[c].left < kq.timer[http[cgi[c].http].fd].left
    BY <2>1 DEF CgiDeadlineFirst
  <2> QED BY <1>2, <1>3, <2>1, <2>3, <2>4
<1>7. CompleteHasWorker'
  <2>1. ASSUME NEW x \in Http, Watched(x) PROVE Watched(x)'
    <3>1. kq.proc \subseteq Ident
      BY <1>1, IdentFacts DEF KqType
    <3> QED BY <1>1, <1>2, <2>1, <3>1, WatchKept
  <2>2. \A x \in Http : GivenUp(x) <=> GivenUp(x)'
    BY <1>1, <1>2 DEF GivenUp
  <2> QED BY <1>1, <2>1, <2>2 DEF CompleteHasWorker, Live
<1>8. (MethodKnown /\ AbortHasCause)'
  BY <1>1, <1>2 DEF MethodKnown, AbortHasCause, Live, CgiLive
<1> QED BY <1>4, <1>5, <1>6, <1>7, <1>8 DEF IInv

LEMMA HttpEofOK ==
  ASSUME IInv, NEW f \in Fd, HttpEof(f), UNCHANGED <<cgi, child, backlog>>
  PROVE  IInv'
<1> DEFINE h == kq.read[f]
<1>1. /\ h \in Http /\ Live(h) /\ http[h].fd = f
  BY DEF IInv, HttpEof, Sockets, TypeOK, KqType
<1>2. /\ kq' \in KqType
      /\ kq'.accept = kq.accept
      /\ kq'.read = [kq.read EXCEPT ![f] = None]
      /\ kq'.write = [kq.write EXCEPT ![f] = None]
      /\ kq'.timer = [kq.timer EXCEPT ![f] = NoTimer]
      /\ kq'.proc = kq.proc
  <2> DEFINE q == EvRead(kq, f, None)
  <2>1. q \in KqType /\ q.accept = kq.accept
        /\ q.read = [kq.read EXCEPT ![f] = None]
        /\ q.write = kq.write /\ q.timer = kq.timer /\ q.proc = kq.proc
    <3>1. kq \in KqType
      BY DEF IInv, TypeOK
    <3> QED BY <3>1, EvReadFields
  <2>2. kq' = Close(EvTimerDelete(q, f), f)
    BY DEF HttpEof
  <2> HIDE DEF q
  <2> QED BY <2>1, <2>2, EvTimerDeleteFields, CloseFields, IdentFacts DEF KqType
<1>3. /\ http' = [http EXCEPT ![h] = Ended("eof")]
      /\ UNCHANGED <<loop, peer, cgi, child, backlog>>
  BY DEF HttpEof
<1>4. Ended("eof") \in HttpType /\ Ended("eof").life = "eof" /\ Ended("eof").state \in ParserState
  BY DEF HttpType, Ended, Unborn, Ending, ParserState
<1> HIDE DEF h
<1> USE DEF IInv
<1>5. TypeOK' /\ AcceptPending'
  BY <1>1, <1>2, <1>3, <1>4 DEF TypeOK, AcceptPending
<1>6. Sockets' 
  BY <1>1, <1>2, <1>3, <1>4, IdentFacts DEF TypeOK, KqType, Sockets, Live
<1>7. Registered' 
  BY <1>1, <1>2, <1>3, <1>4, IdentFacts DEF TypeOK, KqType, Registered, Live
<1>8. FdTimers' 
  BY <1>1, <1>2, <1>3, <1>4, IdentFacts DEF TypeOK, KqType, FdTimers, Live, Armed, NoTimer
<1>9. CgiKnotes' 
  BY <1>1, <1>2, <1>3, <1>4, IdentFacts DEF TypeOK, KqType, CgiKnotes, CgiLive, Armed, Stopped
<1>10. CgiHttp' 
  BY <1>1, <1>2, <1>3, <1>4, IdentFacts DEF TypeOK, KqType, CgiHttp, CgiLive, Live
<1>11. CgiDeadlineFirst' 
  BY <1>1, <1>2, <1>3, <1>4, IdentFacts DEF TypeOK, KqType, CgiDeadlineFirst, CgiHttp, CgiKnotes, CgiLive, Live, Armed, Registered
<1>12. (MethodKnown /\ CompleteHasWorker /\ AbortHasCause)'
  BY <1>1, <1>2, <1>3, <1>4, IdentFacts DEF TypeOK, KqType, MethodKnown, CompleteHasWorker, Watched, GivenUp, Armed, AbortHasCause, Live, CgiLive, HttpEof, Registered
<1> QED BY <1>5, <1>6, <1>7, <1>8, <1>9, <1>10, <1>11, <1>12

\* A step that leaves the objects and the queue alone.
LEMMA FrameOK ==
  ASSUME IInv, UNCHANGED <<http, kq, cgi, backlog>>,
         loop' = loop \/ (loop = "running" /\ loop' \in LoopStatus),
         loop' = "aborted" => loop = "aborted" \/ AbortHasCause',
         child' \in [Cgi -> ChildStatus], peer' \in [Http -> PeerStatus]
  PROVE  IInv'
<1> USE DEF IInv
<1>1. TypeOK' /\ AcceptPending'
  BY DEF TypeOK, AcceptPending, LoopStatus
<1>2. (Sockets /\ Registered /\ FdTimers /\ CgiKnotes /\ CgiHttp)'
  BY DEF Sockets, Registered, FdTimers, CgiKnotes, CgiHttp, Live, CgiLive,
         Armed, Stopped
<1>3. (CgiDeadlineFirst /\ MethodKnown /\ CompleteHasWorker /\ AbortHasCause)'
  BY DEF CgiDeadlineFirst, MethodKnown, CompleteHasWorker, Watched, GivenUp, Armed, AbortHasCause,
         Live, CgiLive, Armed
<1> QED BY <1>1, <1>2, <1>3

LEMMA EnvironmentOK ==
  ASSUME IInv,
         \/ \E h \in Http : ClientClose(h)
         \/ \E c \in Cgi : ChildExit(c) /\ UNCHANGED backlog
  PROVE  IInv'
<1>1. CASE \E h \in Http : ClientClose(h)
  BY <1>1, FrameOK DEF ClientClose, IInv, TypeOK, PeerStatus
<1>2. CASE \E c \in Cgi : ChildExit(c) /\ UNCHANGED backlog
  BY <1>2, FrameOK DEF ChildExit, IInv, TypeOK, ChildStatus
<1> QED BY <1>1, <1>2

\* Only what AbortHasCause names can be freed and still be in the queue.
LEMMA StaleEventOK == IInv /\ StaleEvent => IInv'
<1> SUFFICES ASSUME IInv, StaleEvent PROVE IInv'
  OBVIOUS
<1> USE DEF IInv
<1>1. \/ \E h \in Http : http[h].life = "reply"
      \/ \E c \in Cgi : cgi[c].life = "timedout"
  <2>1. CASE \E i \in Due(kq) : Freed(kq.timer[i].owner)
    <3>1. PICK i \in Ident : Armed(kq, i) /\ Freed(kq.timer[i].owner)
      BY <2>1 DEF Due
    <3>2. CASE i \in Fd
      BY <3>1, <3>2, IdentFacts DEF FdTimers, Freed, Live, Ending
    <3>3. CASE i \in Cgi
      BY <3>1, <3>3, IdentFacts DEF CgiKnotes, Freed, CgiLive
    <3> QED BY <3>2, <3>3 DEF Ident
  <2>2. CASE \E c \in kq.proc : child[c] = "exited" /\ Freed(c)
    BY <2>2, IdentFacts DEF CgiKnotes, Freed, CgiLive, TypeOK, KqType, StaleEvent, Stopped
  <2> QED BY <2>1, <2>2 DEF StaleEvent
<1>2. AbortHasCause'
  BY <1>1 DEF StaleEvent, Abort, AbortHasCause
<1> QED BY <1>2, FrameOK DEF StaleEvent, Abort, TypeOK, LoopStatus

LEMMA AcceptOK == IInv /\ Accept => IInv'
<1> SUFFICES ASSUME IInv, Accept PROVE IInv'
  OBVIOUS
<1> DEFINE q == [kq EXCEPT !.accept = FALSE]
<1> USE DEF IInv
<1>1. /\ q \in KqType /\ kq \in KqType
      /\ q.accept = FALSE
      /\ q.read = kq.read
      /\ q.write = kq.write
      /\ q.timer = kq.timer
      /\ q.proc = kq.proc
  BY DEF TypeOK, KqType
<1>2. UNCHANGED <<loop, cgi, child>> /\ kq.accept
  BY DEF Accept
<1>3. CASE kq' = q /\ UNCHANGED <<http, peer, backlog>>
  <2> HIDE DEF q
  <2>1. TypeOK' /\ AcceptPending'
    BY <1>1, <1>2, <1>3 DEF TypeOK, AcceptPending
  <2>2. (Sockets /\ Registered /\ FdTimers /\ CgiKnotes /\ CgiHttp)'
    BY <1>1, <1>2, <1>3 DEF Sockets, Registered, FdTimers, CgiKnotes, CgiHttp,
       Live, CgiLive, Armed, Stopped
  <2>3. (CgiDeadlineFirst /\ MethodKnown /\ CompleteHasWorker /\ AbortHasCause)'
    BY <1>1, <1>2, <1>3 DEF CgiDeadlineFirst, MethodKnown, CompleteHasWorker, Watched, GivenUp, Armed,
       AbortHasCause, Live, CgiLive, Armed
  <2> QED BY <2>1, <2>2, <2>3
<1>4. ASSUME NEW f \in FreeFd, NEW h \in UnbornHttp,
             backlog' = backlog - 1,
             http' = [http EXCEPT ![h] = Accepted(f)],
             peer' = [peer EXCEPT ![h] = "open"],
             kq' = Register(q, f, h)
      PROVE  IInv'
  <2> HIDE DEF q
  <2>1. /\ f \in Fd
        /\ \A x \in Http : Live(x) => http[x].fd # f
        /\ h \in Http
        /\ http[h].life = "unborn"
    BY <1>4 DEF FreeFd, UnbornHttp
  <2>2. /\ kq' \in KqType
        /\ kq'.accept = FALSE
        /\ kq'.read = [kq.read EXCEPT ![f] = h]
        /\ kq'.write = kq.write
        /\ kq'.timer = [kq.timer EXCEPT ![f] = [owner |-> h, left |-> REQ_TIMEOUT]]
        /\ kq'.proc = kq.proc
    <3> DEFINE p == EvRead(q, f, h)
    <3>1. /\ p \in KqType /\ p.accept = q.accept
          /\ p.read = [q.read EXCEPT ![f] = h]
          /\ p.write = q.write /\ p.timer = q.timer /\ p.proc = q.proc
      BY <1>1, <2>1, EvReadFields
    <3>2. kq' = EvTimer(p, f, h, REQ_TIMEOUT)
      BY <1>4 DEF Register
    <3>3. REQ_TIMEOUT \in Nat
      BY TimeoutAssumption
    <3> HIDE DEF p
    <3> QED BY <1>1, <2>1, <3>1, <3>2, <3>3, EvTimerFields, IdentFacts
  <2>3. /\ Accepted(f) \in HttpType
        /\ Accepted(f).life = "live"
        /\ Accepted(f).fd = f
        /\ Accepted(f).state = PENDING_START_LINE
    BY <2>1 DEF Accepted, Unborn, HttpType, ParserState
  <2> USE <1>2, <1>4, <2>1, <2>2, <2>3, IdentFacts DEF TypeOK, KqType
  <2>4. TypeOK' /\ AcceptPending'
    BY DEF AcceptPending, ParserState, PeerStatus
  <2>5. Sockets'
    BY DEF Sockets, Live
  <2>6. Registered'
    BY DEF Registered, Live
  <2>7. FdTimers'
    BY DEF FdTimers, Live, Armed
  <2>8. CgiKnotes'
    BY DEF CgiKnotes, CgiLive, Armed, Stopped
  <2>9. CgiHttp'
    BY DEF CgiHttp, CgiLive
  <2>10. CgiDeadlineFirst'
    BY DEF CgiDeadlineFirst, CgiKnotes, CgiHttp, CgiLive, Armed, Live, Registered
  <2>11. MethodKnown' /\ CompleteHasWorker' /\ AbortHasCause'
    BY StatesDiffer DEF MethodKnown, CompleteHasWorker, Watched, GivenUp, Armed, AbortHasCause, Live, CgiLive, CgiHttp
  <2> QED BY <2>4, <2>5, <2>6, <2>7, <2>8, <2>9, <2>10, <2>11
<1> QED BY <1>3, <1>4 DEF Accept

LEMMA RestartFields ==
  ASSUME NEW q \in KqType, NEW f \in Fd, NEW h \in Http
  PROVE  /\ Restart(q, f, h) \in KqType
         /\ Restart(q, f, h).accept = q.accept
         /\ Restart(q, f, h).read = q.read
         /\ Restart(q, f, h).write = q.write
         /\ Restart(q, f, h).timer =
              [q.timer EXCEPT ![f] = [owner |-> h, left |-> REQ_TIMEOUT]]
         /\ Restart(q, f, h).proc = q.proc
<1> DEFINE p == EvTimerDelete(q, f)
<1>1. /\ p \in KqType /\ p.accept = q.accept /\ p.read = q.read
      /\ p.write = q.write /\ p.proc = q.proc
      /\ p.timer = [q.timer EXCEPT ![f] = NoTimer]
  BY EvTimerDeleteFields, IdentFacts
<1>2. REQ_TIMEOUT \in Nat
  BY TimeoutAssumption
<1>3. Restart(q, f, h) = EvTimer(p, f, h, REQ_TIMEOUT)
  BY DEF Restart
<1> HIDE DEF p
<1> QED BY <1>1, <1>2, <1>3, EvTimerFields, IdentFacts DEF KqType

\* What Cleared and Ended leave of an object.
LEMMA ClearedFields ==
  ASSUME NEW r \in HttpType
  PROVE  /\ Cleared(r) \in HttpType
         /\ Cleared(r).life = r.life
         /\ Cleared(r).fd = r.fd
         /\ Cleared(r).state = PENDING_START_LINE
  BY DEF Cleared, HttpType, ParserState

LEMMA EndedFields ==
  ASSUME NEW why \in Ending
  PROVE  /\ Ended(why) \in HttpType
         /\ Ended(why).life = why
         /\ Ended(why).state = PENDING_START_LINE
  BY DEF Ended, Unborn, HttpType, ParserState

LEMMA LostFields ==
  ASSUME NEW r \in HttpType, NEW how \in {"gone", "unread"}
  PROVE  /\ Lost(r, how) \in HttpType
         /\ Lost(r, how).life = r.life
         /\ Lost(r, how).fd = r.fd
         /\ Lost(r, how).state = r.state
         /\ Lost(r, how).method = r.method
         /\ Lost(r, how).conn = r.conn
         /\ how \in Lost(r, how).lost
  BY DEF Lost, HttpType

\* A step that moves only the object h keeps CompleteHasWorker if h has a
\* worker after it and no other loses its own.
LEMMA OthersWaitOn ==
  ASSUME CompleteHasWorker, NEW h \in Http,
         \A x \in Http : x # h => http'[x] = http[x],
         \A x \in Http : x # h /\ Live(x) => kq'.write[http[x].fd] = kq.write[http[x].fd],
         \A x \in Http : x # h /\ Watched(x) => Watched(x)',
         \/ http'[h].life # "live"
         \/ http'[h].state # COMPLETE
         \/ Watched(h)'
         \/ "unread" \in http'[h].lost /\ kq'.write[http'[h].fd] = h
         \/ "gone" \in http'[h].lost
  PROVE  CompleteHasWorker'
<1> SUFFICES ASSUME NEW x \in Http, http'[x].life = "live", http'[x].state = COMPLETE
             PROVE  Watched(x)' \/ GivenUp(x)' \/ "gone" \in http'[x].lost
  BY DEF CompleteHasWorker, Live
<1>1. CASE x = h
  BY <1>1 DEF GivenUp
<1>2. CASE x # h
  <2>1. http'[x] = http[x] /\ Live(x) /\ http[x].state = COMPLETE
    BY <1>2 DEF Live
  <2>2. GivenUp(x) => GivenUp(x)'
    BY <1>2, <2>1 DEF GivenUp
  <2> QED BY <1>2, <2>1, <2>2 DEF CompleteHasWorker
<1> QED BY <1>1, <1>2

LEMMA EndingFacts ==
  /\ {"eof", "reply", "timeout"} = Ending
  /\ "live" \notin Ending /\ "unborn" \notin Ending
  BY DEF Ending

\* A segment that leaves the request of h incomplete.
LEMMA ReceiveOK ==
  ASSUME IInv, NEW h \in Http, Live(h), NEW r, ParsedFrom(http[h], r),
         r.state \in {PENDING_START_LINE, PENDING_HEADERS, PENDING_BODY},
         Receive(h, r), UNCHANGED backlog
  PROVE  IInv'
<1> USE StatesDiffer DEF IInv, Receive, ParsedFrom
<1>1. TypeOK' /\ AcceptPending'
  BY DEF TypeOK, AcceptPending, ParserState
<1> USE DEF TypeOK
<1>2. Sockets' /\ Registered'
  BY DEF Sockets, Registered, Live
<1>3. FdTimers' /\ CgiKnotes' /\ CgiHttp'
  BY DEF FdTimers, CgiKnotes, CgiHttp, Live, CgiLive, Armed, Stopped
<1>4. CgiDeadlineFirst'
  BY DEF CgiDeadlineFirst, CgiKnotes, CgiHttp, CgiLive, Live, Armed
<1>5. MethodKnown' /\ CompleteHasWorker' /\ AbortHasCause'
  BY DEF MethodKnown, CompleteHasWorker, Watched, GivenUp, Armed, AbortHasCause, Live, CgiLive, CgiHttp
<1> QED BY <1>1, <1>2, <1>3, <1>4, <1>5

\* A reply to the request of h: any reply but the 408 and those of a CGI.
LEMMA ReplyOK ==
  ASSUME IInv, loop = "running", NEW h \in Http, Live(h), NEW f, f = http[h].fd,
         NEW r, ParsedFrom(http[h], r),
         NEW q \in KqType, q.accept = kq.accept, q.read = kq.read,
         q.proc = kq.proc,
         \/ q.write = kq.write
         \/ q.write = [kq.write EXCEPT ![f] = None],
         \/ q.timer = kq.timer
         \/ q.timer = [kq.timer EXCEPT ![f] = [owner |-> h, left |-> REQ_TIMEOUT]],
         SendResponse(h, r, q, "absent", "reply"),
         UNCHANGED <<peer, cgi, child, backlog>>
  PROVE  IInv'
<1> USE DEF IInv
<1>1. f \in Fd /\ kq.read[f] = h /\ kq.timer[f].owner = h
  BY DEF Registered
<1>2. r \in HttpType /\ r.fd = f /\ r.life = "live"
  BY DEF ParsedFrom, Live
<1>3. loop' \in {"running", "killed"}
  BY DEF SendResponse, AfterSend
<1>4. CASE Closes(r, "absent")
  <2>1. http' = [http EXCEPT ![h] = Ended("reply")] /\ kq' = Close(q, f)
    BY <1>2, <1>4 DEF SendResponse
  <2>2. /\ kq' \in KqType
        /\ kq'.accept = kq.accept
        /\ kq'.read = [kq.read EXCEPT ![f] = None]
        /\ kq'.write = [kq.write EXCEPT ![f] = None]
        /\ kq'.timer = q.timer
        /\ kq'.proc = kq.proc
    <3>1. /\ Close(q, f).read = [q.read EXCEPT ![f] = None]
          /\ Close(q, f).write = [q.write EXCEPT ![f] = None]
          /\ Close(q, f).timer = q.timer
          /\ Close(q, f).proc = q.proc
          /\ Close(q, f).accept = q.accept
          /\ Close(q, f) \in KqType
      BY <1>1, CloseFields
    <3>2. [q.write EXCEPT ![f] = None] = [kq.write EXCEPT ![f] = None]
      BY <1>1 DEF TypeOK, KqType
    <3> QED BY <2>1, <3>1, <3>2
  <2>3. /\ Ended("reply") \in HttpType
        /\ Ended("reply").life = "reply"
        /\ Ended("reply").state = PENDING_START_LINE
    BY EndedFields, EndingFacts
  <2>4. TypeOK' /\ AcceptPending'
    BY <1>3, <2>1, <2>2, <2>3 DEF TypeOK, AcceptPending, LoopStatus, ParserState
  <2> USE <1>1, <1>3, <2>1, <2>2, <2>3, IdentFacts DEF TypeOK, KqType
  <2>5. Sockets'
    BY DEF Sockets, Live
  <2>6. Registered'
    BY DEF Registered, Live
  <2>7. FdTimers'
    BY DEF FdTimers, Live, Armed
  <2>8. CgiKnotes'
    BY DEF CgiKnotes, CgiLive, Armed, Stopped
  <2>9. CgiHttp'
    BY DEF CgiHttp, CgiLive
  <2>10. CgiDeadlineFirst'
    BY DEF CgiDeadlineFirst, CgiKnotes, CgiHttp, CgiLive, Armed, Live, Registered
  <2>11. MethodKnown' /\ CompleteHasWorker' /\ AbortHasCause'
    BY DEF MethodKnown, CompleteHasWorker, Watched, GivenUp, Armed, AbortHasCause, Live, CgiLive, Registered
  <2> QED BY <2>4, <2>5, <2>6, <2>7, <2>8, <2>9, <2>10, <2>11
<1>5. CASE ~Closes(r, "absent")
  <2>1. http' = [http EXCEPT ![h] = Cleared(r)] /\ kq' = q
    BY <1>5 DEF SendResponse
  <2>2. /\ Cleared(r) \in HttpType
        /\ Cleared(r).life = "live"
        /\ Cleared(r).fd = f
        /\ Cleared(r).state = PENDING_START_LINE
    BY <1>2, ClearedFields
  <2>3. TypeOK' /\ AcceptPending'
    BY <1>3, <2>1, <2>2 DEF TypeOK, AcceptPending, LoopStatus, ParserState
  <2> USE <1>1, <1>3, <2>1, <2>2, IdentFacts, StatesDiffer DEF TypeOK, KqType
  <2>4. Sockets'
    BY DEF Sockets, Live
  <2>5. Registered'
    BY DEF Registered, Live
  <2>6. FdTimers'
    BY DEF FdTimers, Live, Armed
  <2>7. CgiKnotes'
    BY DEF CgiKnotes, CgiLive, Armed, Stopped
  <2>8. CgiHttp'
    BY DEF CgiHttp, CgiLive, Live
  <2>9. CgiDeadlineFirst'
    <3> USE TimeoutAssumption DEF CgiDeadlineFirst, CgiKnotes, CgiHttp, CgiLive,
            Armed, Live, Registered
    <3>1. CASE q.timer = kq.timer
      BY <3>1
    <3>2. CASE q.timer = [kq.timer EXCEPT ![f] = [owner |-> h, left |-> REQ_TIMEOUT]]
      <4>1. \A c \in Cgi : kq.timer[c].left \in Nat
        BY DEF Timer
      <4>2. \A c \in Cgi : Armed(kq, c) => kq.timer[c].left < REQ_TIMEOUT
        BY <4>1
      <4> QED BY <3>2, <4>2
    <3> QED BY <3>1, <3>2
  <2>10. MethodKnown' /\ CompleteHasWorker' /\ AbortHasCause'
    BY DEF MethodKnown, CompleteHasWorker, Watched, GivenUp, Armed, AbortHasCause, Live, CgiLive, Registered
  <2> QED BY <2>3, <2>4, <2>5, <2>6, <2>7, <2>8, <2>9, <2>10
<1> QED BY <1>4, <1>5

\* The request of h is handed to a process, on a timer just restarted.
LEMMA ExecuteOK ==
  ASSUME IInv, loop = "running", NEW h \in Http, Live(h), NEW f, f = http[h].fd,
         NEW r, ParsedFrom(http[h], r), r.state = COMPLETE,
         Execute(h, r, Restart(kq, f, h)), UNCHANGED backlog
  PROVE  IInv'
<1> DEFINE q == Restart(kq, f, h)
<1> USE DEF IInv
<1>1. f \in Fd /\ kq.read[f] = h /\ kq.timer[f].owner = h /\ kq \in KqType
  BY DEF Registered, TypeOK
<1>2. r \in HttpType /\ r.fd = f /\ r.life = "live" /\ r.method # None
  BY StatesDiffer DEF ParsedFrom, Live
<1>3. /\ q \in KqType
      /\ q.accept = kq.accept
      /\ q.read = kq.read
      /\ q.write = kq.write
      /\ q.timer = [kq.timer EXCEPT ![f] = [owner |-> h, left |-> REQ_TIMEOUT]]
      /\ q.proc = kq.proc
  BY <1>1, RestartFields
<1>4. UNCHANGED <<loop, peer, backlog>>
  BY DEF Execute
<1>7. Execute(h, r, q)
  OBVIOUS
<1> HIDE DEF q
<1>5. ASSUME NEW c \in Cgi, cgi[c].life = "unborn",
             cgi' = [cgi EXCEPT ![c] = [life |-> "live", http |-> h]],
             child' = [child EXCEPT ![c] = "running"],
             http' = [http EXCEPT ![h] = r], kq' = RegisterProcess(q, c)
      PROVE  IInv'
  <2>1. /\ kq' \in KqType
        /\ kq'.accept = kq.accept
        /\ kq'.read = kq.read
        /\ kq'.write = kq.write
        /\ kq'.timer = [q.timer EXCEPT ![c] = [owner |-> c, left |-> CGI_TIMEOUT]]
        /\ kq'.proc = kq.proc \cup {c}
    <3> DEFINE p == [q EXCEPT !.proc = @ \cup {c}]
    <3>1. /\ p \in KqType /\ p.accept = q.accept /\ p.read = q.read
          /\ p.write = q.write /\ p.timer = q.timer
          /\ p.proc = q.proc \cup {c}
      BY <1>3 DEF KqType
    <3>2. kq' = EvTimer(p, c, c, CGI_TIMEOUT)
      BY <1>5 DEF RegisterProcess
    <3> HIDE DEF p
    <3> QED BY <1>3, <3>1, <3>2, EvTimerFields, IdentFacts, TimeoutAssumption
  <2>2. ~Armed(kq, c) /\ c \notin kq.proc
    BY <1>5 DEF CgiKnotes, CgiLive, Stopped
  <2>3. /\ child' \in [Cgi -> ChildStatus]
        /\ [life |-> "live", http |-> h] \in CgiType
    BY <1>5 DEF TypeOK, ChildStatus, CgiType
  <2>4. \A i \in Ident :
          kq'.timer[i] = IF i = f THEN [owner |-> h, left |-> REQ_TIMEOUT]
                         ELSE IF i = c THEN [owner |-> c, left |-> CGI_TIMEOUT]
                         ELSE kq.timer[i]
    BY <1>1, <1>3, <2>1, IdentFacts DEF KqType
  <2>5. TypeOK' /\ AcceptPending'
    BY <1>2, <1>4, <1>5, <2>1, <2>3, StatesDiffer DEF TypeOK, AcceptPending, ParserState
  <2> USE <1>1, <1>2, <1>4, <1>5, <2>1, <2>2, <2>3, <2>4, IdentFacts DEF TypeOK
  <2>6. Sockets' /\ Registered'
    BY DEF Sockets, Registered, Live
  <2>7. FdTimers'
    BY DEF FdTimers, Live, Armed
  <2>8. CgiKnotes'
    BY TimeoutAssumption DEF CgiKnotes, CgiLive, Armed, Stopped
  <2>9. CgiHttp'
    BY DEF CgiHttp, CgiLive, Live
  <2>10. CgiDeadlineFirst'
    <3> SUFFICES ASSUME NEW d \in Cgi, Armed(kq', d),
                        http'[cgi'[d].http].life = "live"
                 PROVE  kq'.timer[d].left < kq'.timer[http'[cgi'[d].http].fd].left
      BY DEF CgiDeadlineFirst, Live
    <3>1. kq'.timer[d].left <= CGI_TIMEOUT /\ kq'.timer[d].left \in Nat
      BY <2>8 DEF CgiKnotes, KqType, Timer
    <3>2. CASE cgi'[d].http = h
      BY <3>1, <3>2, TimeoutAssumption
    <3>3. CASE cgi'[d].http # h
      <4>1. d # c /\ Armed(kq, d) /\ cgi'[d] = cgi[d]
        BY <3>3 DEF Armed
      <4>2. cgi[d].http \in Http /\ Live(cgi[d].http) /\ http[cgi[d].http].fd # f
        BY <3>3, <4>1 DEF CgiKnotes, CgiHttp, Live, Registered
      <4> QED BY <3>3, <4>1, <4>2 DEF CgiDeadlineFirst, Registered
    <3> QED BY <3>2, <3>3
  <2>11. MethodKnown'
    BY DEF MethodKnown, Live
  <2>12. CompleteHasWorker'
    <3>1. Watched(h)'
      BY DEF Watched, CgiLive, Armed
    <3>2. ASSUME NEW x \in Http, x # h, Watched(x) PROVE Watched(x)'
      <4>1. \A d \in kq.proc : d \in Cgi /\ d # c /\ d # f /\ d \in Ident
        BY <1>1 DEF KqType
      <4>2. \A d \in kq.proc : /\ d \in kq'.proc /\ cgi'[d] = cgi[d]
                              /\ kq'.timer[d] = kq.timer[d]
        BY <4>1
      <4> QED BY <3>2, <4>2, WatchKept
    <3> QED BY <3>1, <3>2, OthersWaitOn
  <2>13. AbortHasCause'
    BY DEF AbortHasCause
  <2> QED BY <2>5, <2>6, <2>7, <2>8, <2>9, <2>10, <2>11, <2>12, <2>13
<1>6. CASE /\ http' = [http EXCEPT ![h] = Lost(r, "gone")]
           /\ kq' = q /\ UNCHANGED <<cgi, child>>
  <2> DEFINE s == Lost(r, "gone")
  <2>1. /\ s \in HttpType /\ s.life = "live" /\ s.fd = f
        /\ s.state = COMPLETE /\ s.method # None /\ "gone" \in s.lost
    BY <1>2, LostFields
  <2>2. TypeOK' /\ AcceptPending'
    BY <1>3, <1>4, <1>6, <2>1, StatesDiffer DEF TypeOK, AcceptPending, ParserState
  <2>12. /\ http' = [http EXCEPT ![h] = s]
         /\ kq' \in KqType /\ kq'.read = kq.read /\ kq'.write = kq.write
         /\ kq'.proc = kq.proc /\ UNCHANGED <<cgi, child>>
         /\ kq'.timer = [kq.timer EXCEPT ![f] = [owner |-> h, left |-> REQ_TIMEOUT]]
    BY <1>3, <1>6
  <2> HIDE DEF s
  <2> USE <1>1, <1>4, <2>1, <2>12, IdentFacts DEF TypeOK
  <2>3. \A i \in Ident :
          kq'.timer[i] = IF i = f THEN [owner |-> h, left |-> REQ_TIMEOUT]
                         ELSE kq.timer[i]
    BY DEF KqType
  <2>4. Sockets' /\ Registered'
    BY DEF Sockets, Registered, Live
  <2>5. FdTimers'
    BY <2>3 DEF FdTimers, Live, Armed
  <2>6. CgiKnotes'
    BY <2>3 DEF CgiKnotes, CgiLive, Armed, Stopped
  <2>7. CgiHttp'
    BY DEF CgiHttp, CgiLive, Live
  <2>8. CgiDeadlineFirst'
    <3> SUFFICES ASSUME NEW d \in Cgi, Armed(kq', d),
                        http'[cgi[d].http].life = "live"
                 PROVE  kq'.timer[d].left < kq'.timer[http'[cgi[d].http].fd].left
      BY DEF CgiDeadlineFirst, Live
    <3>1. kq'.timer[d].left <= CGI_TIMEOUT /\ kq'.timer[d].left \in Nat
      BY <2>2, <2>3, <2>6 DEF CgiKnotes, KqType, Timer
    <3>2. CASE cgi[d].http = h
      BY <2>3, <3>1, <3>2, TimeoutAssumption
    <3>3. CASE cgi[d].http # h
      <4>1. Armed(kq, d)
        BY <2>3 DEF Armed
      <4>2. cgi[d].http \in Http /\ Live(cgi[d].http) /\ http[cgi[d].http].fd # f
        BY <3>3, <4>1 DEF CgiKnotes, CgiHttp, Live, Registered
      <4> QED BY <2>3, <3>3, <4>1, <4>2 DEF CgiDeadlineFirst, Registered
    <3> QED BY <3>2, <3>3
  <2>9. MethodKnown'
    BY DEF MethodKnown, Live
  <2>10. CompleteHasWorker'
    <3>1. ASSUME NEW x \in Http, x # h, Watched(x) PROVE Watched(x)'
      <4>1. \A d \in kq.proc : d \in Cgi /\ d # f /\ d \in Ident
        BY <1>1 DEF KqType
      <4>2. \A d \in kq.proc : d \in kq'.proc /\ kq'.timer[d] = kq.timer[d]
        BY <2>3, <4>1
      <4> QED BY <3>1, <4>2, WatchKept
    <3> QED BY <3>1, OthersWaitOn
  <2>11. AbortHasCause'
    BY DEF AbortHasCause
  <2> QED BY <2>2, <2>4, <2>5, <2>6, <2>7, <2>8, <2>9, <2>10, <2>11
<1> QED BY <1>5, <1>6, <1>7 DEF Execute

LEMMA RecvRequestOK ==
  ASSUME IInv, NEW f \in Fd, RecvRequest(f)
  PROVE  IInv'
<1> DEFINE h == kq.read[f]
<1>1. /\ h \in Http /\ Live(h) /\ http[h].fd = f /\ loop = "running"
      /\ http[h] \in HttpType /\ kq \in KqType
  BY DEF IInv, RecvRequest, Sockets, TypeOK, KqType
<1>2. PICK r \in ParseLoop(http[h]) :
       \/ /\ r.state \in {PENDING_START_LINE, PENDING_HEADERS, PENDING_BODY}
          /\ Receive(h, r)
       \/ /\ r.state = SPINNING
          /\ loop' = "hung"
          /\ UNCHANGED <<http, peer, kq, cgi, child>>
       \/ /\ r.state = BAD_REQUEST
          /\ SendResponse(h, r, kq, "absent", "reply")
          /\ UNCHANGED <<peer, cgi, child>>
       \/ /\ r.state = COMPLETE
          /\ ComputeResponse(h, r, Restart(kq, r.fd, h))
  BY DEF RecvRequest
<1>3. UNCHANGED backlog
  BY DEF RecvRequest
<1>4. ParsedFrom(http[h], r)
  BY <1>1, <1>2, ParseLoopKeeps DEF IInv, MethodKnown
<1> HIDE DEF h
<1>5. CASE r.state \in {PENDING_START_LINE, PENDING_HEADERS, PENDING_BODY}
           /\ Receive(h, r)
  BY <1>1, <1>3, <1>4, <1>5, ReceiveOK
<1>6. CASE loop' = "hung" /\ UNCHANGED <<http, peer, kq, cgi, child>>
  BY <1>1, <1>3, <1>6, FrameOK DEF IInv, TypeOK, LoopStatus
<1>7. CASE SendResponse(h, r, kq, "absent", "reply")
           /\ UNCHANGED <<peer, cgi, child>>
  BY <1>1, <1>3, <1>4, <1>7, ReplyOK
<1>8. CASE r.state = COMPLETE /\ ComputeResponse(h, r, Restart(kq, r.fd, h))
  <2>1. r.fd = f
    BY <1>1, <1>4 DEF ParsedFrom
  <2>2. CASE Execute(h, r, Restart(kq, f, h))
    BY <1>1, <1>3, <1>4, <1>8, <2>2, ExecuteOK
  <2>3. CASE SendResponse(h, r, Restart(kq, f, h), "absent", "reply")
             /\ UNCHANGED <<peer, cgi, child>>
    <3> DEFINE q == Restart(kq, f, h)
    <3>1. /\ q \in KqType /\ q.accept = kq.accept /\ q.read = kq.read
          /\ q.write = kq.write /\ q.proc = kq.proc
          /\ q.timer = [kq.timer EXCEPT ![f] = [owner |-> h, left |-> REQ_TIMEOUT]]
      BY <1>1, RestartFields
    <3>2. SendResponse(h, r, q, "absent", "reply")
      BY <2>3
    <3> HIDE DEF q
    <3> QED BY <1>1, <1>3, <1>4, <2>3, <3>1, <3>2, ReplyOK
  <2> QED BY <1>8, <2>1, <2>2, <2>3 DEF ComputeResponse
<1> QED BY <1>2, <1>5, <1>6, <1>7, <1>8

LEMMA HttpWriteOK ==
  ASSUME IInv, NEW f \in Fd, HttpWrite(f), UNCHANGED <<cgi, child, backlog>>
  PROVE  IInv'
<1> DEFINE h == kq.write[f]
           q == EvWrite(kq, f, None)
<1>1. /\ h \in Http /\ Live(h) /\ http[h].fd = f /\ loop = "running"
      /\ http[h] \in HttpType /\ kq \in KqType
      /\ http[h].state \in ParserState
  BY DEF IInv, HttpWrite, Sockets, TypeOK, KqType
<1>2. ParsedFrom(http[h], http[h])
  BY <1>1 DEF ParsedFrom, IInv, MethodKnown
<1>3. /\ q \in KqType /\ q.accept = kq.accept /\ q.read = kq.read
      /\ q.write = [kq.write EXCEPT ![f] = None]
      /\ q.timer = kq.timer /\ q.proc = kq.proc
  BY <1>1, EvWriteFields
<1>4. SendResponse(h, http[h], q, "absent", "reply") /\ UNCHANGED peer
  BY DEF HttpWrite
<1> HIDE DEF h, q
<1> QED BY <1>1, <1>2, <1>3, <1>4, ReplyOK

\* The 408: it never ends a connection a watched process works for.
LEMMA HttpTimerOK ==
  ASSUME IInv, NEW f \in Fd, HttpTimer(f), UNCHANGED <<cgi, child, backlog>>
  PROVE  IInv'
<1> DEFINE h == kq.timer[f].owner
           q == EvTimerDelete(EvRead(kq, f, None), f)
<1> USE DEF IInv
<1>1. /\ h \in Http /\ Live(h) /\ http[h].fd = f /\ loop = "running"
      /\ kq \in KqType /\ kq.timer[f].left = 0 /\ kq.read[f] = h
  BY EndingFacts DEF HttpTimer, Due, FdTimers, TypeOK, Live, Registered
<1>2. /\ q \in KqType /\ q.accept = kq.accept /\ q.write = kq.write
      /\ q.read = [kq.read EXCEPT ![f] = None]
      /\ q.timer = [kq.timer EXCEPT ![f] = NoTimer]
      /\ q.proc = kq.proc
  <2> DEFINE p == EvRead(kq, f, None)
  <2>1. /\ p \in KqType /\ p.accept = kq.accept /\ p.write = kq.write
        /\ p.read = [kq.read EXCEPT ![f] = None]
        /\ p.timer = kq.timer /\ p.proc = kq.proc
    BY <1>1, EvReadFields
  <2>2. q = EvTimerDelete(p, f)
    OBVIOUS
  <2> HIDE DEF p, q
  <2> QED BY <2>1, <2>2, EvTimerDeleteFields, IdentFacts
<1>3. /\ http' = [http EXCEPT ![h] = Ended("timeout")]
      /\ kq' = Close(q, f)
      /\ loop' \in {"running", "killed"}
      /\ UNCHANGED peer
  BY <1>1 DEF HttpTimer, SendResponse, Closes, AfterSend
<1> HIDE DEF h, q
<1>4. /\ kq' \in KqType
      /\ kq'.accept = kq.accept
      /\ kq'.read = [kq.read EXCEPT ![f] = None]
      /\ kq'.write = [kq.write EXCEPT ![f] = None]
      /\ kq'.timer = [kq.timer EXCEPT ![f] = NoTimer]
      /\ kq'.proc = kq.proc
  BY <1>1, <1>2, <1>3, CloseFields DEF KqType
<1>5. /\ Ended("timeout") \in HttpType
      /\ Ended("timeout").life = "timeout"
      /\ Ended("timeout").state = PENDING_START_LINE
  BY EndedFields, EndingFacts
<1>6. \A c \in Cgi : CgiLive(c) /\ cgi[c].http = h => c \notin kq.proc
  <2> SUFFICES ASSUME NEW c \in Cgi, CgiLive(c), cgi[c].http = h, c \in kq.proc
               PROVE  FALSE
    OBVIOUS
  <2>1. Armed(kq, c)
    BY <1>1 DEF CgiKnotes, CgiLive, Stopped
  <2>2. kq.timer[c].left < 0
    BY <1>1, <2>1 DEF CgiDeadlineFirst
  <2>3. kq.timer[c].left \in Nat
    BY <1>1, IdentFacts DEF KqType, Timer
  <2> QED BY <2>2, <2>3
<1>7. TypeOK' /\ AcceptPending'
  BY <1>1, <1>3, <1>4, <1>5 DEF TypeOK, AcceptPending, LoopStatus, ParserState
<1> USE <1>1, <1>3, <1>4, <1>5, IdentFacts DEF TypeOK, KqType
<1>8. Sockets'
  BY DEF Sockets, Live
<1>9. Registered'
  BY DEF Registered, Live
<1>10. FdTimers'
  BY DEF FdTimers, Live, Armed, NoTimer
<1>11. CgiKnotes'
  BY DEF CgiKnotes, CgiLive, Armed, Stopped
<1>12. CgiHttp'
  BY <1>6 DEF CgiHttp, CgiLive
<1>13. CgiDeadlineFirst'
  BY DEF CgiDeadlineFirst, CgiKnotes, CgiHttp, CgiLive, Armed, Live, Registered
<1>14. MethodKnown' /\ CompleteHasWorker' /\ AbortHasCause'
  BY DEF MethodKnown, CompleteHasWorker, Watched, GivenUp, Armed, AbortHasCause, Live, CgiLive, Registered
<1> QED BY <1>7, <1>8, <1>9, <1>10, <1>11, <1>12, <1>13, <1>14

\* The process c exits: c is dispatched, and has not replied before.
LEMMA CgiProcOK ==
  ASSUME IInv, NEW c \in Cgi, CgiProc(c), UNCHANGED backlog
  PROVE  IInv'
<1> DEFINE h == cgi[c].http
           q == EvTimerDelete([kq EXCEPT !.proc = @ \ {c}], c)
<1> USE DEF IInv
<1>1. /\ loop = "running" /\ c \in kq.proc /\ CgiLive(c) /\ kq \in KqType
      /\ h \in Http
      /\ http[h].life \in {"live", "eof", "reply"}
      /\ cgi[c] \in CgiType
  <2>1. loop = "running" /\ c \in kq.proc /\ CgiLive(c) /\ kq \in KqType
        /\ cgi[c] \in CgiType
    BY DEF CgiProc, TypeOK
  <2>2. h \in Http /\ http[h].life \notin {"unborn", "timeout"}
    BY <2>1 DEF CgiHttp
  <2>3. http[h].life \in {"unborn", "live", "eof", "reply", "timeout"}
    BY <2>2 DEF TypeOK, HttpType, Ending
  <2> QED BY <2>1, <2>2, <2>3
<1>2. /\ q \in KqType /\ q.accept = kq.accept /\ q.write = kq.write
      /\ q.read = kq.read
      /\ q.timer = [kq.timer EXCEPT ![c] = NoTimer]
      /\ q.proc = kq.proc \ {c}
  <2> DEFINE p == [kq EXCEPT !.proc = @ \ {c}]
  <2>1. /\ p \in KqType /\ p.accept = kq.accept /\ p.write = kq.write
        /\ p.read = kq.read /\ p.timer = kq.timer /\ p.proc = kq.proc \ {c}
    BY <1>1 DEF KqType
  <2>2. q = EvTimerDelete(p, c)
    OBVIOUS
  <2> HIDE DEF p, q
  <2> QED BY <2>1, <2>2, EvTimerDeleteFields, IdentFacts
<1>3. CASE ~Live(h)
  <2>1. http[h].life \in {"eof", "reply"}
    BY <1>1, <1>3 DEF Live
  <2>2. Abort /\ UNCHANGED backlog
    BY <1>3 DEF CgiProc
  <2>3. AbortHasCause'
    BY <1>1, <2>1, <2>2 DEF AbortHasCause, Abort, CgiLive
  <2> QED BY <1>1, <2>2, <2>3, FrameOK DEF Abort, TypeOK, LoopStatus
<1>4. CASE Live(h)
  <2> DEFINE f == http[h].fd
  <2>1. f \in Fd /\ kq.read[f] = h /\ kq.timer[f].owner = h
    BY <1>1, <1>4 DEF Registered
  <2>2. /\ cgi' = [cgi EXCEPT ![c].life = "done"]
        /\ UNCHANGED <<peer, child, backlog>>
        /\ \/ \E respConn \in CgiConn :
                SendResponse(h, http[h], q, respConn, "reply")
           \/ /\ kq' = EvWrite(q, f, h) /\ UNCHANGED loop
              /\ http' = [http EXCEPT ![h] = Lost(http[h], "unread")]
    BY <1>4 DEF CgiProc, TypeOK
  <2>3. /\ cgi'[c].life = "done" /\ cgi'[c].http = h
        /\ cgi' \in [Cgi -> CgiType]
        /\ \A d \in Cgi : d # c => cgi'[d] = cgi[d]
    BY <1>1, <2>2 DEF TypeOK, CgiType
  <2>4. http[h] \in HttpType /\ http[h].life = "live" /\ http[h].state \in ParserState
    BY <1>1, <1>4 DEF TypeOK, Live
  <2> HIDE DEF h, f, q
  <2>5. CASE http' = [http EXCEPT ![h] = Ended("reply")] /\ kq' = Close(q, f)
             /\ loop' \in {"running", "killed"}
    <3>1. /\ kq' \in KqType /\ kq'.accept = kq.accept
          /\ kq'.read = [kq.read EXCEPT ![f] = None]
          /\ kq'.write = [kq.write EXCEPT ![f] = None]
          /\ kq'.timer = [kq.timer EXCEPT ![c] = NoTimer]
          /\ kq'.proc = kq.proc \ {c}
      BY <1>2, <2>1, <2>5, CloseFields
    <3>2. /\ Ended("reply") \in HttpType
          /\ Ended("reply").life = "reply"
          /\ Ended("reply").state = PENDING_START_LINE
      BY EndedFields, EndingFacts
    <3> USE <1>1, <2>1, <2>2, <2>3, <2>4, <2>5, <3>1, <3>2, IdentFacts
            DEF TypeOK, KqType, f
    <3>3. TypeOK' /\ AcceptPending'
      BY DEF AcceptPending, LoopStatus, ParserState
    <3>4. Sockets' /\ Registered'
      BY DEF Sockets, Registered, Live
    <3>5. FdTimers'
      BY DEF FdTimers, Live, Armed, NoTimer
    <3>6. CgiKnotes'
      BY DEF CgiKnotes, CgiLive, Armed, NoTimer, Stopped
    <3>7. CgiHttp'
      BY DEF CgiHttp, CgiLive, Live
    <3>8. CgiDeadlineFirst'
      BY DEF CgiDeadlineFirst, CgiKnotes, CgiHttp, CgiLive, Armed, NoTimer,
             Live, Registered
    <3>9. MethodKnown' /\ CompleteHasWorker'
      BY DEF MethodKnown, CompleteHasWorker, Watched, GivenUp, Armed, Live, CgiLive, Registered
    <3>10. AbortHasCause'
      BY DEF AbortHasCause
    <3> QED BY <3>3, <3>4, <3>5, <3>6, <3>7, <3>8, <3>9, <3>10
  <2>6. CASE http' = [http EXCEPT ![h] = Cleared(http[h])] /\ kq' = q
             /\ loop' \in {"running", "killed"}
    <3>1. /\ Cleared(http[h]) \in HttpType
          /\ Cleared(http[h]).life = "live"
          /\ Cleared(http[h]).fd = f
          /\ Cleared(http[h]).state = PENDING_START_LINE
      BY <2>4, ClearedFields DEF f
    <3> USE <1>1, <1>2, <2>1, <2>2, <2>3, <2>4, <2>6, <3>1, IdentFacts,
            StatesDiffer DEF TypeOK, KqType, f
    <3>3. TypeOK' /\ AcceptPending'
      BY DEF AcceptPending, LoopStatus, ParserState
    <3>4. Sockets' /\ Registered'
      BY DEF Sockets, Registered, Live
    <3>5. FdTimers'
      BY DEF FdTimers, Live, Armed, NoTimer
    <3>6. CgiKnotes'
      BY DEF CgiKnotes, CgiLive, Armed, NoTimer, Stopped
    <3>7. CgiHttp'
      BY DEF CgiHttp, CgiLive, Live
    <3>8. CgiDeadlineFirst'
      BY DEF CgiDeadlineFirst, CgiKnotes, CgiHttp, CgiLive, Armed, NoTimer,
             Live, Registered
    <3>9. MethodKnown' /\ CompleteHasWorker'
      BY DEF MethodKnown, CompleteHasWorker, Watched, GivenUp, Armed, Live, CgiLive, Registered
    <3>10. AbortHasCause'
      BY DEF AbortHasCause
    <3> QED BY <3>3, <3>4, <3>5, <3>6, <3>7, <3>8, <3>9, <3>10
  <2>7. CASE /\ kq' = EvWrite(q, f, h) /\ UNCHANGED loop
             /\ http' = [http EXCEPT ![h] = Lost(http[h], "unread")]
    <3> DEFINE s == Lost(http[h], "unread")
    <3>2. /\ s \in HttpType /\ s.life = "live" /\ s.fd = f
          /\ s.state = http[h].state /\ s.method = http[h].method
          /\ "unread" \in s.lost
      BY <2>4, LostFields DEF f
    <3>12. http' = [http EXCEPT ![h] = s] /\ UNCHANGED loop
      BY <2>7
    <3> HIDE DEF s
    <3>1. /\ kq' \in KqType /\ kq'.accept = kq.accept /\ kq'.read = kq.read
          /\ kq'.write = [kq.write EXCEPT ![f] = h]
          /\ kq'.timer = [kq.timer EXCEPT ![c] = NoTimer]
          /\ kq'.proc = kq.proc \ {c}
      BY <1>1, <1>2, <2>1, <2>7, EvWriteFields
    <3> USE <1>1, <2>1, <2>2, <2>3, <2>4, <3>1, <3>2, <3>12, IdentFacts
            DEF TypeOK, KqType, f
    <3>3. TypeOK' /\ AcceptPending'
      BY DEF AcceptPending, LoopStatus, ParserState
    <3>4. Sockets' /\ Registered'
      BY DEF Sockets, Registered, Live
    <3>5. FdTimers'
      BY DEF FdTimers, Live, Armed, NoTimer
    <3>6. CgiKnotes'
      BY DEF CgiKnotes, CgiLive, Armed, NoTimer, Stopped
    <3>7. CgiHttp'
      BY DEF CgiHttp, CgiLive, Live
    <3>8. CgiDeadlineFirst'
      BY DEF CgiDeadlineFirst, CgiKnotes, CgiHttp, CgiLive, Armed, NoTimer,
             Live, Registered
    <3>9. MethodKnown'
      BY DEF MethodKnown, Live
    <3>11. CompleteHasWorker'
      <4>1. "unread" \in http'[h].lost /\ kq'.write[http'[h].fd] = h
        OBVIOUS
      <4>2. ASSUME NEW y \in Http, y # h, Watched(y) PROVE Watched(y)'
        <5>1. \A d \in kq.proc : d \in Ident /\ (cgi[d].http = y => d # c)
          BY <4>2 DEF h
        <5>2. \A d \in kq.proc : d # c => /\ d \in kq'.proc /\ cgi'[d] = cgi[d]
                                         /\ kq'.timer[d] = kq.timer[d]
          BY <5>1
        <5> QED BY <4>2, <5>1, <5>2, WatchKept
      <4> QED BY <4>1, <4>2, OthersWaitOn DEF Registered
    <3>10. AbortHasCause'
      BY DEF AbortHasCause
    <3> QED BY <3>3, <3>4, <3>5, <3>6, <3>7, <3>8, <3>9, <3>10, <3>11
  <2> QED
    BY <2>2, <2>5, <2>6, <2>7 DEF SendResponse, AfterSend, f
<1> QED BY <1>3, <1>4

\* The process c is too slow: 504, and a WRITE event nothing waits for.
LEMMA CgiTimerOK ==
  ASSUME IInv, NEW c \in Cgi, CgiTimer(c), UNCHANGED backlog
  PROVE  IInv'
<1> DEFINE h == cgi[c].http
           f == http[h].fd
           q == EvTimerDelete(kq, c)
<1> USE DEF IInv
<1>1. /\ loop = "running" /\ c \in kq.proc /\ CgiLive(c) /\ kq \in KqType
      /\ h \in Http
      /\ http[h].life \in {"live", "eof", "reply"}
      /\ cgi[c] \in CgiType
  <2>1. loop = "running" /\ c \in kq.proc /\ CgiLive(c) /\ kq \in KqType
        /\ cgi[c] \in CgiType
    BY DEF CgiTimer, TypeOK, Due, CgiKnotes
  <2>2. h \in Http /\ http[h].life \notin {"unborn", "timeout"}
    BY <2>1 DEF CgiHttp
  <2>3. http[h].life \in {"unborn", "live", "eof", "reply", "timeout"}
    BY <2>2 DEF TypeOK, HttpType, Ending
  <2> QED BY <2>1, <2>2, <2>3
<1>2. /\ q \in KqType /\ q.accept = kq.accept /\ q.write = kq.write
      /\ q.read = kq.read
      /\ q.timer = [kq.timer EXCEPT ![c] = NoTimer]
      /\ q.proc = kq.proc
  BY <1>1, EvTimerDeleteFields, IdentFacts
<1>3. CASE ~Live(h)
  <2>1. http[h].life \in {"eof", "reply"}
    BY <1>1, <1>3 DEF Live
  <2>2. Abort /\ UNCHANGED backlog
    BY <1>3 DEF CgiTimer
  <2>3. AbortHasCause'
    BY <1>1, <2>1, <2>2 DEF AbortHasCause, Abort, CgiLive
  <2> QED BY <1>1, <2>2, <2>3, FrameOK DEF Abort, TypeOK, LoopStatus
<1>4. CASE Live(h)
  <2>1. f \in Fd /\ kq.read[f] = h /\ kq.timer[f].owner = h
    BY <1>1, <1>4 DEF Registered
  <2>2. http[h] \in HttpType /\ http[h].life = "live" /\ http[h].state \in ParserState
    BY <1>1, <1>4 DEF TypeOK, Live
  <2>3. CASE Closes(http[h], "absent")
    <3>1. /\ http' = [http EXCEPT ![h] = Ended("reply")]
          /\ kq' = Close(q, f)
          /\ loop' \in {"killed", "aborted"}
          /\ UNCHANGED <<peer, cgi, child, backlog>>
      BY <1>4, <2>3 DEF CgiTimer, AfterSend
    <3> HIDE DEF h, f, q
    <3>2. /\ kq' \in KqType /\ kq'.accept = kq.accept
          /\ kq'.read = [kq.read EXCEPT ![f] = None]
          /\ kq'.write = [kq.write EXCEPT ![f] = None]
          /\ kq'.timer = [kq.timer EXCEPT ![c] = NoTimer]
          /\ kq'.proc = kq.proc
      <4>1. f \in Fd /\ q \in KqType /\ kq' = Close(q, f)
        BY <1>2, <2>1, <3>1
      <4> QED BY <1>2, <4>1, CloseFields
    <3>3. /\ Ended("reply") \in HttpType
          /\ Ended("reply").life = "reply"
          /\ Ended("reply").state = PENDING_START_LINE
      BY EndedFields, EndingFacts
    <3> USE <1>1, <2>1, <2>2, <3>1, <3>2, <3>3, IdentFacts
            DEF TypeOK, KqType, f
    <3>13. TypeOK' /\ AcceptPending'
      BY DEF AcceptPending, LoopStatus, ParserState
    <3>14. Sockets' /\ Registered'
      BY DEF Sockets, Registered, Live
    <3>15. FdTimers'
      BY DEF FdTimers, Live, Armed, NoTimer
    <3>16. CgiKnotes'
      BY DEF CgiKnotes, CgiLive, Armed, NoTimer, Stopped
    <3>17. CgiHttp'
      BY DEF CgiHttp, CgiLive, Live
    <3>18. CgiDeadlineFirst'
      BY DEF CgiDeadlineFirst, CgiKnotes, CgiHttp, CgiLive, Armed, NoTimer,
             Live, Registered
    <3>19. MethodKnown'
      BY DEF MethodKnown, Live
    <3>21. CompleteHasWorker'
      <4>1. ASSUME NEW y \in Http, y # h, Watched(y) PROVE Watched(y)'
        <5>1. \A d \in kq.proc : d \in Ident /\ (cgi[d].http = y => d # c)
          BY <4>1 DEF h
        <5>2. \A d \in kq.proc : d # c => /\ d \in kq'.proc /\ cgi'[d] = cgi[d]
                                         /\ kq'.timer[d] = kq.timer[d]
          BY <5>1
        <5> QED BY <4>1, <5>1, <5>2, WatchKept
      <4> QED BY <4>1, OthersWaitOn, EndingFacts DEF Registered
    <3>20. AbortHasCause'
      BY DEF AbortHasCause
    <3> QED BY <3>13, <3>14, <3>15, <3>16, <3>17, <3>18, <3>19, <3>20, <3>21
  <2>4. CASE ~Closes(http[h], "absent")
    <3> DEFINE p == EvWrite(q, f, h)
    <3>1. /\ SendResponse(h, http[h], p, "absent", "reply")
          /\ cgi' = [cgi EXCEPT ![c].life = "timedout"]
          /\ UNCHANGED <<peer, child, backlog>>
      BY <1>4, <2>4 DEF CgiTimer
    <3>2. /\ http' = [http EXCEPT ![h] = Cleared(http[h])]
          /\ kq' = EvWrite(q, f, h)
          /\ loop' \in {"running", "killed"}
      BY <2>4, <3>1 DEF SendResponse, AfterSend
    <3>5. /\ cgi'[c].life = "timedout" /\ cgi'[c].http = h
          /\ cgi' \in [Cgi -> CgiType]
          /\ \A d \in Cgi : d # c => cgi'[d] = cgi[d]
      BY <1>1, <3>1 DEF TypeOK, CgiType
    <3> HIDE DEF h, f, q, p
    <3>6. /\ kq' \in KqType /\ kq'.accept = kq.accept /\ kq'.read = kq.read
          /\ kq'.write = [kq.write EXCEPT ![f] = h]
          /\ kq'.timer = [kq.timer EXCEPT ![c] = NoTimer]
          /\ kq'.proc = kq.proc
      BY <1>1, <1>2, <2>1, <3>2, EvWriteFields
    <3>7. /\ Cleared(http[h]) \in HttpType
          /\ Cleared(http[h]).life = "live"
          /\ Cleared(http[h]).fd = f
          /\ Cleared(http[h]).state = PENDING_START_LINE
      BY <2>2, ClearedFields DEF f
    <3> USE <1>1, <2>1, <2>2, <3>1, <3>2, <3>5, <3>6, <3>7, IdentFacts,
            StatesDiffer DEF TypeOK, KqType, f
    <3>13. TypeOK' /\ AcceptPending'
      BY DEF AcceptPending, LoopStatus, ParserState
    <3>14. Sockets' /\ Registered'
      BY DEF Sockets, Registered, Live
    <3>15. FdTimers'
      BY DEF FdTimers, Live, Armed, NoTimer
    <3>16. CgiKnotes'
      BY DEF CgiKnotes, CgiLive, Armed, NoTimer, Stopped
    <3>17. CgiHttp'
      BY DEF CgiHttp, CgiLive, Live
    <3>18. CgiDeadlineFirst'
      BY DEF CgiDeadlineFirst, CgiKnotes, CgiHttp, CgiLive, Armed, NoTimer,
             Live, Registered
    <3>19. MethodKnown'
      BY DEF MethodKnown, Live
    <3>21. CompleteHasWorker'
      <4>1. ASSUME NEW y \in Http, y # h, Watched(y) PROVE Watched(y)'
        <5>1. \A d \in kq.proc : d \in Ident /\ (cgi[d].http = y => d # c)
          BY <4>1 DEF h
        <5>2. \A d \in kq.proc : d # c => /\ d \in kq'.proc /\ cgi'[d] = cgi[d]
                                         /\ kq'.timer[d] = kq.timer[d]
          BY <5>1
        <5> QED BY <4>1, <5>1, <5>2, WatchKept
      <4> QED BY <4>1, OthersWaitOn DEF Registered
    <3>20. AbortHasCause'
      BY DEF AbortHasCause
    <3> QED BY <3>13, <3>14, <3>15, <3>16, <3>17, <3>18, <3>19, <3>20, <3>21
  <2> QED BY <2>3, <2>4
<1> QED BY <1>3, <1>4

-----------------------------------------------------------------------------
(* The theorems *)

\* No step of the server or of its environment leaves the invariant.
LEMMA StepOK == IInv /\ [Next]_vars => IInv'
<1> SUFFICES ASSUME IInv, [Next]_vars PROVE IInv'
  OBVIOUS
<1>1. CASE Connect
  BY <1>1, ConnectOK
<1>2. CASE \/ \E h \in Http : ClientClose(h)
           \/ \E c \in Cgi : ChildExit(c) /\ UNCHANGED backlog
  BY <1>2, EnvironmentOK
<1>3. CASE Tick
  BY <1>3, TickOK
<1>4. CASE Accept
  BY <1>4, AcceptOK
<1>5. ASSUME NEW f \in Fd, Event(f) PROVE IInv'
  BY <1>5, RecvRequestOK, HttpEofOK, HttpWriteOK, HttpTimerOK DEF Event
<1>6. ASSUME NEW c \in Cgi, ProcessEvent(c) PROVE IInv'
  BY <1>6, CgiProcOK, CgiTimerOK DEF ProcessEvent
<1>7. CASE StaleEvent
  BY <1>7, StaleEventOK
<1>8. CASE UNCHANGED vars
  BY <1>8, FrameOK DEF vars, IInv, TypeOK
<1> QED
  BY <1>1, <1>2, <1>3, <1>4, <1>5, <1>6, <1>7, <1>8 DEF Next

THEOREM Inductive == Spec => []IInv
  BY InitOK, StepOK, PTL DEF Spec

\* The server keeps its types, whatever the sets of connections, descriptors
\* and processes: in particular no object rests in BAD_REQUEST or in a
\* spinning parser between two events.
THEOREM TypeCorrect == Spec => []TypeOK
  BY Inductive, PTL DEF IInv

\* A served connection owns the knotes of its descriptor, also after reuse.
THEOREM RegisteredAlways == Spec => []Registered
  BY Inductive, PTL DEF IInv

\* The method of a request is known wherever HTTP_response.cpp dereferences it.
THEOREM MethodKnownAlways == Spec => []MethodKnown
  BY Inductive, PTL DEF IInv

\* A process is given up before the connection it works for, for any
\* CGI_TIMEOUT below REQ_TIMEOUT and any pattern of requests.
THEOREM DeadlinesOrdered == Spec => []CgiDeadlineFirst
  BY Inductive, PTL DEF IInv

\* A complete request has a process that is watched, a WRITE event that is
\* going to clear it because an output could not be read, or had a process that
\* was gone before it was registered: for any number of connections and
\* processes (CGI.cpp:61, 121-127, 200).
THEOREM WorkerAlways == Spec => []CompleteHasWorker
  BY Inductive, PTL DEF IInv

\* Freed memory is used only for the causes AbortHasCause lists.
THEOREM AbortsExplained == Spec => []AbortHasCause
  BY Inductive, PTL DEF IInv

\* Deleted objects leave nothing in the queue but what Leftovers allows.
THEOREM LeftoversBounded == Spec => []Leftovers
<1>1. IInv => Leftovers
  <2> SUFFICES ASSUME IInv PROVE Leftovers
    OBVIOUS
  <2> USE IdentFacts DEF IInv
  <2>1. \A f \in Fd : \A h \in {kq.read[f], kq.write[f]} \ {None} : Live(h)
    BY DEF Sockets
  <2>2. ASSUME NEW h \in Http, http[h].life \in {"eof", "timeout"}, NEW i \in Ident,
               kq.timer[i].owner = h
        PROVE  FALSE
    <3>1. CASE i \in Fd
      BY <2>2, <3>1 DEF FdTimers, Armed, Live
    <3>2. CASE i \in Cgi
      BY <2>2, <3>2 DEF CgiKnotes, Armed
    <3> QED BY <3>1, <3>2 DEF Ident
  <2>3. ASSUME NEW c \in Cgi, cgi[c].life = "done"
        PROVE  ~Armed(kq, c)
    BY <2>3 DEF CgiKnotes, CgiLive
  <2>4. ASSUME NEW c \in Cgi, cgi[c].life = "done"
        PROVE  c \notin kq.proc
    BY <2>4 DEF CgiKnotes, CgiLive, Stopped
  <2> QED BY <2>1, <2>2, <2>3, <2>4 DEF Leftovers
<1> QED BY <1>1, Inductive, PTL

-----------------------------------------------------------------------------
(* The deadline of a request that is being received *)

\* What DeadlineKept says of one step and one connection.
Kept(h) ==
  Live(h) /\ Live(h)' /\ http'[h].state \in {PENDING_HEADERS, PENDING_BODY}
    => kq'.timer[http[h].fd].left <= kq.timer[http[h].fd].left

\* It is enough that a step leaves the timer of the connection alone, or that
\* the object is no longer receiving after it.
LEMMA SameTimer ==
  ASSUME IInv, NEW h \in Http,
         \/ Live(h) => kq'.timer[http[h].fd] = kq.timer[http[h].fd]
         \/ http'[h].state \in {PENDING_START_LINE, COMPLETE}
  PROVE  Kept(h)
<1> USE StatesDiffer DEF Kept
<1>1. CASE Live(h) => kq'.timer[http[h].fd] = kq.timer[http[h].fd]
  <2>1. Live(h) => kq.timer[http[h].fd].left \in Nat
    BY IdentFacts DEF IInv, TypeOK, Registered, KqType, Timer
  <2> QED BY <1>1, <2>1
<1>2. CASE http'[h].state \in {PENDING_START_LINE, COMPLETE}
  BY <1>2
<1> QED BY <1>1, <1>2

LEMMA OthersKept ==
  ASSUME IInv, NEW h \in Http, NEW x \in Http, x # h, Live(h), Live(x)
  PROVE  http[x].fd # http[h].fd
  BY DEF IInv, Registered

\* The effect of any reply on the timers of descriptors and on the state.
LEMMA SendKept ==
  ASSUME IInv, NEW h \in Http, Live(h), NEW r, NEW q \in KqType, NEW resp,
         NEW why, SendResponse(h, r, q, resp, why), r \in HttpType,
         r.fd = http[h].fd, why \in Ending,
         \A g \in Fd \ {http[h].fd} : q.timer[g] = kq.timer[g],
         NEW x \in Http
  PROVE  Kept(x)
<1> USE DEF IInv, TypeOK
<1>1. CASE x = h
  <2>1. http'[h].state = PENDING_START_LINE
    BY ClearedFields, EndedFields DEF SendResponse
  <2> QED BY <1>1, <2>1, SameTimer
<1>2. CASE x # h
  <2>1. kq'.timer = q.timer
    BY CloseFields DEF SendResponse, Registered
  <2>2. Live(x) => http[x].fd \in Fd \ {http[h].fd}
    BY <1>2, OthersKept DEF Registered
  <2> QED BY <2>1, <2>2, SameTimer
<1> QED BY <1>1, <1>2

LEMMA DeadlineStep ==
  ASSUME IInv, Next, NEW x \in Http
  PROVE  Kept(x)
<1> USE DEF IInv
<1>1. kq \in KqType /\ http \in [Http -> HttpType]
  BY DEF TypeOK
<1>2. CASE Connect
  <2>1. kq'.timer = kq.timer
    BY <1>1, <1>2 DEF Connect, KqType
  <2> QED BY <2>1, SameTimer
<1>3. CASE UNCHANGED kq
  BY <1>3, SameTimer
<1>4. CASE Tick
  <2>1. CASE Live(x)
    <3>1. http[x].fd \in Ident /\ Armed(kq, http[x].fd)
      BY <2>1, IdentFacts DEF Registered, Armed
    <3>2. kq.timer[http[x].fd].left \in Nat
      BY <1>1, <3>1 DEF KqType, Timer
    <3> QED BY <1>1, <1>4, <3>1, <3>2, ElapseFields DEF Tick, Kept
  <2> QED BY <2>1 DEF Kept
<1>5. CASE Accept
  <2> DEFINE q == [kq EXCEPT !.accept = FALSE]
  <2>1. q \in KqType /\ q.timer = kq.timer
    BY <1>1 DEF KqType
  <2>2. CASE kq' = q
    BY <2>1, <2>2, SameTimer
  <2>3. ASSUME NEW f \in FreeFd, NEW h \in UnbornHttp, kq' = Register(q, f, h)
        PROVE  Kept(x)
    <3> DEFINE p == EvRead(q, f, h)
    <3> HIDE DEF q
    <3>1. f \in Fd /\ (Live(x) => http[x].fd # f) /\ h \in Http
      BY DEF FreeFd, UnbornHttp
    <3>2. p \in KqType /\ p.timer = q.timer
      BY <2>1, <3>1, EvReadFields
    <3>3. kq' = EvTimer(p, f, h, REQ_TIMEOUT)
      BY <2>3 DEF Register
    <3>4. REQ_TIMEOUT \in Nat
      BY TimeoutAssumption
    <3> HIDE DEF p
    <3>5. kq'.timer = [kq.timer EXCEPT ![f] = [owner |-> h, left |-> REQ_TIMEOUT]]
      BY <2>1, <3>1, <3>2, <3>3, <3>4, EvTimerFields, IdentFacts
    <3>6. Live(x) => kq'.timer[http[x].fd] = kq.timer[http[x].fd]
      BY <1>1, <3>1, <3>5 DEF Registered, KqType
    <3> QED BY <3>6, SameTimer
  <2> QED BY <1>5, <2>2, <2>3 DEF Accept
<1>6. ASSUME NEW f \in Fd, RecvRequest(f) PROVE Kept(x)
  <2> DEFINE h == kq.read[f]
             q == Restart(kq, f, h)
  <2>1. /\ h \in Http /\ Live(h) /\ http[h].fd = f /\ http[h] \in HttpType
    BY <1>1, <1>6 DEF RecvRequest, Sockets, KqType
  <2>2. PICK r \in ParseLoop(http[h]) :
          \/ UNCHANGED kq
          \/ SendResponse(h, r, kq, "absent", "reply")
          \/ /\ r.state = COMPLETE
             /\ ComputeResponse(h, r, Restart(kq, r.fd, h))
    BY <1>6 DEF RecvRequest, Receive
  <2>3. ParsedFrom(http[h], r)
    BY <2>1, <2>2, ParseLoopKeeps DEF MethodKnown
  <2>4. r \in HttpType /\ r.fd = f
    BY <2>1, <2>3 DEF ParsedFrom
  <2>5. q \in KqType /\ \A g \in Fd \ {f} : q.timer[g] = kq.timer[g]
    <3>1. /\ q \in KqType
          /\ q.timer = [kq.timer EXCEPT ![f] = [owner |-> h, left |-> REQ_TIMEOUT]]
      BY <1>1, <2>1, RestartFields
    <3> HIDE DEF q, h
    <3> QED BY <1>1, <3>1, IdentFacts DEF KqType
  <2> HIDE DEF h, q
  <2>6. CASE UNCHANGED kq
    BY <2>6, SameTimer
  <2>7. CASE SendResponse(h, r, kq, "absent", "reply")
    BY <1>1, <2>1, <2>4, <2>7, SendKept, EndingFacts
  <2>8. CASE SendResponse(h, r, q, "absent", "reply")
    BY <2>1, <2>4, <2>5, <2>8, SendKept, EndingFacts
  <2>9. CASE r.state = COMPLETE /\ Execute(h, r, q)
    <3>1. http'[h].state = COMPLETE
      BY <1>1, <2>1, <2>4, <2>9, LostFields DEF Execute
    <3>2. \A g \in Fd \ {f} : kq'.timer[g] = kq.timer[g]
      <4>1. CASE kq' = q
        BY <2>5, <4>1
      <4>2. ASSUME NEW c \in Cgi, kq' = RegisterProcess(q, c)
            PROVE  \A g \in Fd \ {f} : kq'.timer[g] = kq.timer[g]
        <5> DEFINE p == [q EXCEPT !.proc = @ \cup {c}]
        <5>1. p \in KqType /\ p.timer = q.timer
          BY <2>5 DEF KqType
        <5>2. kq' = EvTimer(p, c, c, CGI_TIMEOUT)
          BY <4>2 DEF RegisterProcess
        <5> HIDE DEF p
        <5>3. kq'.timer = [q.timer EXCEPT ![c] = [owner |-> c, left |-> CGI_TIMEOUT]]
          BY <5>1, <5>2, EvTimerFields, TimeoutAssumption, IdentFacts
        <5> QED BY <2>5, <5>1, <5>3, IdentFacts DEF KqType
      <4> QED BY <2>9, <4>1, <4>2 DEF Execute
    <3>5. CASE x = h
      BY <3>1, <3>5, SameTimer
    <3>6. CASE x # h
      BY <2>1, <3>2, <3>6, OthersKept, SameTimer DEF Registered
    <3> QED BY <3>5, <3>6
  <2> QED
    BY <2>2, <2>4, <2>6, <2>7, <2>8, <2>9 DEF ComputeResponse, q
<1>7. ASSUME NEW f \in Fd, HttpEof(f) \/ HttpWrite(f) \/ HttpTimer(f) PROVE Kept(x)
  <2> DEFINE e == EvRead(kq, f, None)
             q == EvTimerDelete(e, f)
             w == EvWrite(kq, f, None)
  <2>1. e \in KqType /\ e.timer = kq.timer
    BY <1>1, EvReadFields
  <2>2. q \in KqType /\ \A g \in Fd \ {f} : q.timer[g] = kq.timer[g]
    <3> HIDE DEF e
    <3>1. q \in KqType /\ q.timer = [e.timer EXCEPT ![f] = NoTimer]
      BY <2>1, EvTimerDeleteFields, IdentFacts
    <3> HIDE DEF q
    <3> QED BY <1>1, <2>1, <3>1, IdentFacts DEF KqType
  <2>3. w \in KqType /\ w.timer = kq.timer
    BY <1>1, EvWriteFields
  <2>4. CASE HttpEof(f)
    <3> DEFINE h == kq.read[f]
    <3>1. h \in Http /\ Live(h) /\ http[h].fd = f
      BY <1>1, <2>4 DEF HttpEof, Sockets, KqType
    <3>2. kq' = Close(q, f) /\ http' = [http EXCEPT ![h] = Ended("eof")]
      BY <2>4 DEF HttpEof
    <3> HIDE DEF q, h
    <3>3. \A g \in Fd \ {f} : kq'.timer[g] = kq.timer[g]
      BY <2>2, <3>2, CloseFields
    <3>4. CASE x = h
      BY <1>1, <3>1, <3>2, <3>4, EndedFields, EndingFacts, SameTimer
    <3>5. CASE x # h
      BY <3>1, <3>3, <3>5, OthersKept, SameTimer DEF Registered
    <3> QED BY <3>4, <3>5
  <2>5. CASE HttpWrite(f)
    <3> DEFINE h == kq.write[f]
    <3>1. h \in Http /\ Live(h) /\ http[h].fd = f /\ http[h] \in HttpType
      BY <1>1, <2>5 DEF HttpWrite, Sockets, KqType
    <3>2. SendResponse(h, http[h], w, "absent", "reply")
      BY <2>5 DEF HttpWrite
    <3> HIDE DEF w, h
    <3> QED BY <2>3, <3>1, <3>2, SendKept, EndingFacts
  <2>6. CASE HttpTimer(f)
    <3> DEFINE h == kq.timer[f].owner
    <3>1. h \in Http /\ Live(h) /\ http[h].fd = f /\ http[h] \in HttpType
      BY <1>1, <2>6, EndingFacts DEF HttpTimer, Due, FdTimers, Live
    <3>2. SendResponse(h, http[h], q, "close", "timeout")
      BY <2>6 DEF HttpTimer
    <3> HIDE DEF q, h
    <3> QED BY <2>2, <3>1, <3>2, SendKept, EndingFacts
  <2> QED BY <1>7, <2>4, <2>5, <2>6
<1>8. ASSUME NEW c \in Cgi, CgiProc(c) \/ CgiTimer(c) PROVE Kept(x)
  <2> DEFINE h == cgi[c].http
             p == [kq EXCEPT !.proc = @ \ {c}]
             q == EvTimerDelete(p, c)
             d == EvTimerDelete(kq, c)
  <2>1. p \in KqType /\ p.timer = kq.timer
    BY <1>1 DEF KqType
  <2>2. q \in KqType /\ \A g \in Fd : q.timer[g] = kq.timer[g]
    <3> HIDE DEF p
    <3>1. q \in KqType /\ q.timer = [p.timer EXCEPT ![c] = NoTimer]
      BY <2>1, EvTimerDeleteFields, IdentFacts
    <3> HIDE DEF q
    <3> QED BY <1>1, <2>1, <3>1, IdentFacts DEF KqType
  <2>3. d \in KqType /\ \A g \in Fd : d.timer[g] = kq.timer[g]
    <3>1. d \in KqType /\ d.timer = [kq.timer EXCEPT ![c] = NoTimer]
      BY <1>1, EvTimerDeleteFields, IdentFacts
    <3> HIDE DEF d
    <3> QED BY <1>1, <3>1, IdentFacts DEF KqType
  <2>4. CgiLive(c) /\ (UNCHANGED kq \/ Live(h))
    BY <1>8 DEF CgiProc, CgiTimer, Abort
  <2>5. CASE UNCHANGED kq
    BY <2>5, SameTimer
  <2>6. CASE Live(h)
    <3>1. h \in Http /\ http[h].fd \in Fd /\ http[h] \in HttpType
      BY <1>1, <2>4, <2>6 DEF CgiHttp, Registered
    <3> DEFINE f == http[h].fd
               v == EvWrite(q, f, h)
               w == EvWrite(d, f, h)
    <3>2. v.timer = q.timer
      <4> HIDE DEF q, h, f
      <4> QED BY <2>2, <3>1, EvWriteFields DEF f
    <3>3. w \in KqType /\ w.timer = d.timer
      <4> HIDE DEF d, h
      <4> QED BY <2>3, <3>1, EvWriteFields
    <3>4. CASE CgiProc(c)
      <4>1. \/ \E respConn \in CgiConn :
                 SendResponse(h, http[h], q, respConn, "reply")
            \/ kq' = v
        BY <2>6, <3>4 DEF CgiProc
      <4>2. CASE kq' = v
        <5>1. \A g \in Fd : kq'.timer[g] = kq.timer[g]
          BY <2>2, <3>2, <4>2
        <5> QED BY <5>1, SameTimer DEF Registered
      <4> HIDE DEF q, h, v
      <4>3. ASSUME NEW respConn \in CgiConn,
                   SendResponse(h, http[h], q, respConn, "reply")
            PROVE  Kept(x)
        BY <2>2, <2>6, <3>1, <4>3, SendKept, EndingFacts
      <4> QED BY <4>1, <4>2, <4>3
    <3>5. CASE CgiTimer(c)
      <4>1. \/ kq' = Close(d, f)
            \/ SendResponse(h, http[h], w, "absent", "reply")
        BY <2>6, <3>5 DEF CgiTimer
      <4>2. CASE kq' = Close(d, f)
        <5> HIDE DEF d, h
        <5>1. kq'.timer = d.timer
          BY <2>3, <3>1, <4>2, CloseFields
        <5> QED BY <2>3, <5>1, SameTimer DEF Registered
      <4> HIDE DEF d, h, w
      <4>3. CASE SendResponse(h, http[h], w, "absent", "reply")
        BY <2>3, <2>6, <3>1, <3>3, <4>3, SendKept, EndingFacts
      <4> QED BY <4>1, <4>2, <4>3
    <3> QED BY <1>8, <3>4, <3>5
  <2> QED BY <2>4, <2>5, <2>6
<1> QED
  BY <1>2, <1>3, <1>4, <1>5, <1>6, <1>7, <1>8
     DEF Next, Event, ProcessEvent, ClientClose, ChildExit, StaleEvent, Abort

\* No segment of a request pushes back the deadline of that request.
THEOREM DeadlineNeverMoves == Spec => DeadlineKept
<1>1. IInv /\ [Next]_vars =>
        [\A h \in Http :
           Live(h) /\ Live(h)' /\ http'[h].state \in {PENDING_HEADERS, PENDING_BODY}
             => kq'.timer[http[h].fd].left <= kq.timer[http[h].fd].left]_vars
  BY DeadlineStep DEF Kept
<1> QED BY <1>1, Inductive, PTL DEF DeadlineKept, Spec
=============================================================================
