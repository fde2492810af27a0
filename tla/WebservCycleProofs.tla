------------------------- MODULE WebservCycleProofs -------------------------
(***************************************************************************)
(* Proof that Webserv implements RequestCycle, for any number of           *)
(* connections, descriptors and processes: each step of the event loop     *)
(* moves at most one connection, the one whose descriptor or reference the *)
(* event names, which the invariants of WebservProofs show to be alive.    *)
(* And about Descriptors, for any connections, CGI objects and limits:     *)
(* what is open is accounted for, and reading a pipe comes to an end.      *)
(***************************************************************************)
EXTENDS WebservCycle, Descriptors, WebservProofs

\* The stages of the live objects are those of RequestCycle that are served.
LEMMA StageFacts ==
  ASSUME NEW r \in HttpType
  PROVE  /\ r.life = "unborn" => StageOf(r) = "none"
         /\ r.life \in Ending => StageOf(r) = "closed"
         /\ r.life = "live" =>
              /\ r.state = PENDING_START_LINE => StageOf(r) = "idle"
              /\ r.state = COMPLETE => StageOf(r) = "answering"
              /\ r.state \in {PENDING_HEADERS, PENDING_BODY} => StageOf(r) = "receiving"
  BY StatesDiffer DEF StageOf, Ending, HttpType

LEMMA LiveServed ==
  ASSUME IInv, NEW h \in Http, Live(h)
  PROVE  /\ http[h].state \in {PENDING_START_LINE, PENDING_HEADERS, PENDING_BODY, COMPLETE}
         /\ StageOf(http[h]) \in {"idle", "receiving", "answering"}
  BY StageFacts DEF IInv, TypeOK, ParserState, Live

\* A step that leaves the objects and the READ knotes alone.
LEMMA StutterMaps ==
  ASSUME UNCHANGED <<loop, http>>, kq'.read = kq.read
  PROVE  UNCHANGED RC!vars
  BY DEF RC!vars

LEMMA CloseMaps ==
  ASSUME IInv, loop = "running", NEW h \in Http, Live(h), NEW why \in Ending,
         http' = [http EXCEPT ![h] = Ended(why)],
         kq'.read = [kq.read EXCEPT ![http[h].fd] = None]
  PROVE  RC!Next
<1> USE DEF IInv, TypeOK
<1>1. StageOf(Ended(why)) = "closed"
  BY EndedFields, StageFacts
<1>2. [x \in Http |-> StageOf(http'[x])]
        = [[x \in Http |-> StageOf(http[x])] EXCEPT ![h] = "closed"]
  BY <1>1
<1>3. kq.read \in [Fd -> Http \cup {None}] /\ h # None
  BY IdentFacts DEF KqType
<1>4. \A g \in Fd : kq.read[g] = h <=> g = http[h].fd
  BY <1>3 DEF Sockets, Registered
<1>5. kq'.read = [g \in Fd |-> IF kq.read[g] = h THEN None ELSE kq.read[g]]
  BY <1>3, <1>4
<1>6. RC!Close(h)
  BY <1>2, <1>5, LiveServed DEF RC!Close, RC!Serving
<1> QED BY <1>6 DEF RC!Next

LEMMA ClearMaps ==
  ASSUME IInv, loop = "running", NEW h \in Http, Live(h),
         NEW r \in HttpType, r.life = "live",
         http' = [http EXCEPT ![h] = Cleared(r)], kq'.read = kq.read
  PROVE  RC!Next
<1> USE DEF IInv, TypeOK
<1>1. StageOf(Cleared(r)) = "idle"
  BY ClearedFields, StageFacts
<1>2. [x \in Http |-> StageOf(http'[x])]
        = [[x \in Http |-> StageOf(http[x])] EXCEPT ![h] = "idle"]
  BY <1>1
<1>3. RC!Reply(h)
  BY <1>2, LiveServed DEF RC!Reply, RC!Serving
<1> QED BY <1>3 DEF RC!Next

\* A reply, on whatever the parser has made of the object and whatever was
\* done to the queue before it.
LEMMA ReplyMaps ==
  ASSUME IInv, loop = "running", NEW h \in Http, Live(h),
         NEW r, ParsedFrom(http[h], r), NEW q \in KqType,
         NEW resp, NEW why \in Ending, SendResponse(h, r, q, resp, why),
         \/ q.read = kq.read
         \/ Closes(r, resp) /\ q.read = [kq.read EXCEPT ![http[h].fd] = None]
  PROVE  RC!Next
<1>1. r \in HttpType /\ r.life = "live" /\ r.fd = http[h].fd
  BY DEF ParsedFrom, Live
<1>2. http[h].fd \in Fd /\ kq.read \in [Fd -> Http \cup {None}]
  BY DEF IInv, TypeOK, Registered, KqType
<1>3. CASE Closes(r, resp)
  <2>1. http' = [http EXCEPT ![h] = Ended(why)] /\ kq' = Close(q, http[h].fd)
    BY <1>1, <1>3 DEF SendResponse
  <2>2. Close(q, http[h].fd).read = [q.read EXCEPT ![http[h].fd] = None]
    BY <1>2, CloseFields
  <2>3. kq'.read = [kq.read EXCEPT ![http[h].fd] = None]
    BY <1>2, <2>1, <2>2
  <2> QED BY <2>1, <2>3, CloseMaps
<1>4. CASE ~Closes(r, resp)
  <2>1. http' = [http EXCEPT ![h] = Cleared(r)] /\ kq'.read = kq.read
    BY <1>4 DEF SendResponse
  <2> QED BY <1>1, <2>1, ClearMaps
<1> QED BY <1>3, <1>4

-----------------------------------------------------------------------------
(* One lemma per step that is more than a stutter *)

LEMMA AcceptMaps == IInv /\ Accept => RC!Next \/ UNCHANGED RC!vars
<1> SUFFICES ASSUME IInv, Accept PROVE RC!Next \/ UNCHANGED RC!vars
  OBVIOUS
<1> DEFINE q == [kq EXCEPT !.accept = FALSE]
<1> USE DEF IInv, TypeOK
<1>1. q \in KqType /\ q.read = kq.read
  BY DEF KqType
<1>2. CASE kq' = q /\ UNCHANGED http
  <2>1. kq'.read = kq.read
    BY <1>1, <1>2
  <2> QED BY <1>2, <2>1, StutterMaps DEF Accept
<1>3. ASSUME NEW f \in FreeFd, NEW h \in UnbornHttp,
             http' = [http EXCEPT ![h] = Accepted(f)], kq' = Register(q, f, h)
      PROVE  RC!Next
  <2>1. f \in Fd /\ h \in Http /\ http[h].life = "unborn"
    BY <1>3 DEF FreeFd, UnbornHttp
  <2>2. kq.read[f] = None
    <3>1. kq.read[f] \in Http \cup {None}
      BY <2>1 DEF KqType
    <3>2. ASSUME kq.read[f] # None PROVE FALSE
      <4>1. kq.read[f] \in Http /\ Live(kq.read[f]) /\ http[kq.read[f]].fd = f
        BY <2>1, <3>1, <3>2 DEF Sockets
      <4> QED BY <1>3, <4>1 DEF FreeFd
    <3> QED BY <3>2
  <2>3. kq'.read = [kq.read EXCEPT ![f] = h]
    <3> DEFINE p == EvRead(q, f, h)
    <3> HIDE DEF q
    <3>1. p \in KqType /\ p.read = [q.read EXCEPT ![f] = h]
      BY <1>1, <2>1, EvReadFields
    <3>2. kq' = EvTimer(p, f, h, REQ_TIMEOUT)
      BY <1>3 DEF Register
    <3> HIDE DEF p
    <3>3. EvTimer(p, f, h, REQ_TIMEOUT).read = p.read
      BY <3>1 DEF EvTimer, KqType
    <3> QED BY <1>1, <3>1, <3>2, <3>3
  <2>4. StageOf(http[h]) = "none"
    BY <2>1 DEF StageOf
  <2>5. StageOf(Accepted(f)) = "idle"
    BY DEF StageOf, Accepted, Unborn
  <2>6. [x \in Http |-> StageOf(http'[x])]
          = [[x \in Http |-> StageOf(http[x])] EXCEPT ![h] = "idle"]
    BY <1>3, <2>1, <2>5
  <2>7. RC!Open(h)
    BY <2>1, <2>2, <2>3, <2>4, <2>6 DEF RC!Open, Accept
  <2> QED BY <2>1, <2>7 DEF RC!Next, Accept
<1> QED BY <1>2, <1>3 DEF Accept

\* The object takes a segment: it is read in part, or complete and handed to
\* a process.
LEMMA SegmentMaps ==
  ASSUME IInv, loop = "running", loop' = loop, NEW h \in Http, Live(h), NEW r \in HttpType,
         r.life = "live", http[h].state = COMPLETE => r.state = COMPLETE,
         r.state \in {PENDING_START_LINE, PENDING_HEADERS, PENDING_BODY, COMPLETE},
         r.state = PENDING_START_LINE => http[h].state = PENDING_START_LINE,
         http' = [http EXCEPT ![h] = r], kq'.read = kq.read
  PROVE  RC!Next \/ UNCHANGED RC!vars
<1> USE DEF IInv, TypeOK
<1>1. [x \in Http |-> StageOf(http'[x])]
        = [[x \in Http |-> StageOf(http[x])] EXCEPT ![h] = StageOf(r)]
  OBVIOUS
<1>2. CASE StageOf(r) = StageOf(http[h])
  BY <1>1, <1>2 DEF RC!vars
<1>3. CASE r.state = COMPLETE
  <2>1. RC!Complete(h)
    BY <1>1, <1>3, LiveServed, StageFacts DEF RC!Complete, RC!Serving
  <2> QED BY <2>1 DEF RC!Next
<1>4. CASE r.state \in {PENDING_HEADERS, PENDING_BODY}
  <2>1. http[h].state # COMPLETE
    BY <1>4, StatesDiffer
  <2>2. StageOf(http[h]) \in {"idle", "receiving"}
    BY <2>1, LiveServed, StageFacts DEF Live
  <2>3. RC!Receive(h)
    BY <1>1, <1>4, <2>2, StageFacts DEF RC!Receive
  <2> QED BY <2>3 DEF RC!Next
<1>5. CASE r.state = PENDING_START_LINE
  <2>1. StageOf(r) = StageOf(http[h])
    BY <1>5, StageFacts DEF Live
  <2> QED BY <1>2, <2>1
<1> QED BY <1>3, <1>4, <1>5

\* No call of parse() takes a request back to its start line.
LEMMA OrParsedMovesOn ==
  ASSUME NEW R, \A x \in R : x \in HttpType /\ x.state # PENDING_START_LINE
  PROVE  \A y \in OrParsed(R) : y \in HttpType /\ y.state # PENDING_START_LINE
<1> SUFFICES ASSUME NEW x \in HttpType, x.state # PENDING_START_LINE, NEW y \in Parse(x)
             PROVE  y \in HttpType /\ y.state # PENDING_START_LINE
  BY DEF OrParsed
<1> USE StatesDiffer DEF HttpType, ParserState
<1>1. CASE x.state = PENDING_HEADERS /\ y \in FieldLine(x)
  BY <1>1 DEF FieldLine, ConnHeader
<1>2. CASE x.state = PENDING_BODY /\ y \in Body(x)
  BY <1>2 DEF Body
<1> QED BY <1>1, <1>2 DEF Parse

LEMMA ParseLoopMovesOn ==
  ASSUME NEW r \in HttpType, NEW x \in ParseLoop(r), x.state = PENDING_START_LINE
  PROVE  r.state = PENDING_START_LINE
<1> SUFFICES ASSUME r.state # PENDING_START_LINE PROVE FALSE
  OBVIOUS
<1>1. \A y \in {r} : y \in HttpType /\ y.state # PENDING_START_LINE
  OBVIOUS
<1>2. \A y \in OrParsed({r}) : y \in HttpType /\ y.state # PENDING_START_LINE
  BY <1>1, OrParsedMovesOn
<1>3. \A y \in OrParsed(OrParsed({r})) : y \in HttpType /\ y.state # PENDING_START_LINE
  BY <1>2, OrParsedMovesOn
<1>4. \A y \in OrParsed(OrParsed(OrParsed({r}))) : y \in HttpType /\ y.state # PENDING_START_LINE
  BY <1>3, OrParsedMovesOn
<1>5. \A y \in OrParsed(OrParsed(OrParsed(OrParsed({r})))) :
        y \in HttpType /\ y.state # PENDING_START_LINE
  BY <1>4, OrParsedMovesOn
<1> QED BY <1>1, <1>5 DEF ParseLoop

LEMMA RecvRequestMaps ==
  ASSUME IInv, NEW f \in Fd, RecvRequest(f)
  PROVE  RC!Next \/ UNCHANGED RC!vars
<1> DEFINE h == kq.read[f]
<1>1. /\ h \in Http /\ Live(h) /\ http[h].fd = f /\ loop = "running"
      /\ http[h] \in HttpType /\ kq \in KqType /\ http \in [Http -> HttpType]
  BY DEF IInv, RecvRequest, Sockets, TypeOK, KqType
<1>2. PICK r \in ParseLoop(http[h]) :
       \/ /\ r.state \in {PENDING_START_LINE, PENDING_HEADERS, PENDING_BODY}
          /\ Receive(h, r)
       \/ /\ r.state = SPINNING
          /\ loop' = "hung"
          /\ UNCHANGED <<http, peer, kq, cgi, child>>
       \/ /\ r.state = BAD_REQUEST
          /\ SendResponse(h, r, kq, "absent", "reply")
          /\ UNCHANGED <<peer, cgi, child>>
       \/ /\ r.state = COMPLETE
          /\ ComputeResponse(h, r, Restart(kq, r.fd, h))
  BY DEF RecvRequest
<1>3. ParsedFrom(http[h], r)
  BY <1>1, <1>2, ParseLoopKeeps DEF IInv, MethodKnown
<1>4. http[h].state = COMPLETE => r = http[h]
  BY <1>2 DEF ParseLoop
<1>5. r.state = PENDING_START_LINE => http[h].state = PENDING_START_LINE
  BY <1>1, <1>2, ParseLoopMovesOn
<1>6. r \in HttpType /\ r.life = "live" /\ r.fd = f
  BY <1>1, <1>3 DEF ParsedFrom, Live
<1> HIDE DEF h
<1>7. CASE r.state \in {PENDING_START_LINE, PENDING_HEADERS, PENDING_BODY}
           /\ Receive(h, r)
  <2>1. http' = [http EXCEPT ![h] = r] /\ loop' = loop /\ kq'.read = kq.read
    BY <1>7 DEF Receive
  <2> QED BY <1>1, <1>4, <1>5, <1>6, <1>7, <2>1, SegmentMaps
<1>8. CASE loop' = "hung" /\ UNCHANGED <<http, peer, kq, cgi, child>>
  <2>1. RC!Stop
    BY <1>8 DEF RC!Stop
  <2> QED BY <1>1, <2>1 DEF RC!Next
<1>9. CASE SendResponse(h, r, kq, "absent", "reply")
  BY <1>1, <1>3, <1>9, ReplyMaps, EndingFacts
<1>10. CASE r.state = COMPLETE /\ ComputeResponse(h, r, Restart(kq, f, h))
  <2> DEFINE q == Restart(kq, f, h)
  <2>1. q \in KqType /\ q.read = kq.read
    BY <1>1, RestartFields
  <2>2. CASE Execute(h, r, q)
    <3>1. loop' = loop
      BY <2>2 DEF Execute
    <3>2. ASSUME NEW c \in Cgi, kq' = RegisterProcess(q, c) PROVE kq'.read = kq.read
      <4> DEFINE p == [q EXCEPT !.proc = @ \cup {c}]
      <4> HIDE DEF q
      <4>1. p \in KqType /\ p.read = q.read
        BY <2>1 DEF KqType
      <4>2. kq' = EvTimer(p, c, c, CGI_TIMEOUT)
        BY <3>2 DEF RegisterProcess
      <4> HIDE DEF p
      <4>3. EvTimer(p, c, c, CGI_TIMEOUT).read = p.read
        BY <4>1 DEF EvTimer, KqType
      <4> QED BY <2>1, <4>1, <4>2, <4>3
    <3>3. kq'.read = kq.read
      <4> HIDE DEF q
      <4> QED BY <2>1, <2>2, <3>2 DEF Execute
    <3>4. CASE http' = [http EXCEPT ![h] = r]
      BY <1>1, <1>5, <1>6, <1>10, <3>1, <3>3, <3>4, SegmentMaps
    <3>5. CASE http' = [http EXCEPT ![h] = Lost(r, "gone")]
      <4> DEFINE s == Lost(r, "gone")
      <4>1. s \in HttpType /\ s.life = "live" /\ s.state = COMPLETE
        BY <1>6, <1>10, LostFields
      <4>2. http' = [http EXCEPT ![h] = s]
        BY <3>5
      <4> HIDE DEF s
      <4> QED BY <1>1, <3>1, <3>3, <4>1, <4>2, SegmentMaps, StatesDiffer
    <3> QED BY <2>2, <3>4, <3>5 DEF Execute
  <2>3. CASE SendResponse(h, r, q, "absent", "reply")
    <3> HIDE DEF q
    <3> QED BY <1>1, <1>3, <2>1, <2>3, ReplyMaps, EndingFacts
  <2> QED BY <1>10, <2>2, <2>3 DEF ComputeResponse
<1> QED BY <1>2, <1>6, <1>7, <1>8, <1>9, <1>10

LEMMA LiveParsed ==
  ASSUME IInv, NEW h \in Http, Live(h)
  PROVE  ParsedFrom(http[h], http[h])
  BY DEF ParsedFrom, IInv, TypeOK, MethodKnown, ParserState

LEMMA HttpEofMaps ==
  ASSUME IInv, NEW f \in Fd, HttpEof(f)
  PROVE  RC!Next
<1> DEFINE h == kq.read[f]
           p == EvRead(kq, f, None)
           q == EvTimerDelete(p, f)
<1>1. /\ h \in Http /\ Live(h) /\ http[h].fd = f /\ loop = "running" /\ kq \in KqType
      /\ http' = [http EXCEPT ![h] = Ended("eof")]
      /\ kq' = Close(q, f)
  BY DEF IInv, HttpEof, Sockets, TypeOK, KqType
<1>2. p \in KqType /\ p.read = [kq.read EXCEPT ![f] = None]
  BY <1>1, EvReadFields
<1> HIDE DEF p
<1>3. q \in KqType /\ q.read = p.read
  BY <1>2, EvTimerDeleteFields, IdentFacts
<1> HIDE DEF q
<1>4. kq'.read = [q.read EXCEPT ![f] = None]
  BY <1>1, <1>3, CloseFields
<1>5. kq'.read = [kq.read EXCEPT ![f] = None]
  BY <1>1, <1>2, <1>3, <1>4 DEF KqType
<1> HIDE DEF h
<1> QED BY <1>1, <1>5, CloseMaps, EndingFacts

LEMMA HttpWriteMaps ==
  ASSUME IInv, NEW f \in Fd, HttpWrite(f)
  PROVE  RC!Next
<1> DEFINE h == kq.write[f]
           q == EvWrite(kq, f, None)
<1>1. /\ h \in Http /\ Live(h) /\ loop = "running" /\ kq \in KqType
      /\ SendResponse(h, http[h], q, "absent", "reply")
  BY DEF IInv, HttpWrite, Sockets, TypeOK, KqType
<1>2. q \in KqType /\ q.read = kq.read
  BY <1>1, EvWriteFields
<1> HIDE DEF h, q
<1> QED BY <1>1, <1>2, LiveParsed, ReplyMaps, EndingFacts

LEMMA HttpTimerMaps ==
  ASSUME IInv, NEW f \in Fd, HttpTimer(f)
  PROVE  RC!Next
<1> DEFINE h == kq.timer[f].owner
           p == EvRead(kq, f, None)
           q == EvTimerDelete(p, f)
<1>1. /\ h \in Http /\ Live(h) /\ http[h].fd = f /\ loop = "running" /\ kq \in KqType
      /\ SendResponse(h, http[h], q, "close", "timeout")
  BY EndingFacts DEF IInv, HttpTimer, Due, FdTimers, TypeOK, Live
<1>2. p \in KqType /\ p.read = [kq.read EXCEPT ![f] = None]
  BY <1>1, EvReadFields
<1> HIDE DEF p
<1>3. q \in KqType /\ q.read = p.read
  BY <1>2, EvTimerDeleteFields, IdentFacts
<1>4. Closes(http[h], "close")
  BY DEF Closes
<1> HIDE DEF h, q
<1> QED BY <1>1, <1>2, <1>3, <1>4, LiveParsed, ReplyMaps, EndingFacts

\* A process' step finds its object by a reference; if that is dangling the
\* server stops.
LEMMA AbortMaps == loop = "running" /\ Abort => RC!Next
<1> SUFFICES ASSUME loop = "running", Abort PROVE RC!Next
  OBVIOUS
<1>1. RC!Stop
  BY DEF Abort, RC!Stop
<1> QED BY <1>1 DEF RC!Next

LEMMA CgiProcMaps ==
  ASSUME IInv, NEW c \in Cgi, CgiProc(c)
  PROVE  RC!Next \/ UNCHANGED RC!vars
<1> DEFINE h == cgi[c].http
           p == [kq EXCEPT !.proc = @ \ {c}]
           q == EvTimerDelete(p, c)
<1>1. h \in Http /\ loop = "running" /\ kq \in KqType
  BY DEF IInv, CgiProc, CgiHttp, TypeOK
<1>2. p \in KqType /\ p.read = kq.read
  BY <1>1 DEF KqType
<1>3. CASE ~Live(h)
  BY <1>1, <1>3, AbortMaps DEF CgiProc
<1>4. CASE Live(h)
  <2>1. \/ \E respConn \in CgiConn : SendResponse(h, http[h], q, respConn, "reply")
        \/ /\ kq' = EvWrite(q, http[h].fd, h) /\ UNCHANGED loop
           /\ http' = [http EXCEPT ![h] = Lost(http[h], "unread")]
    BY <1>1, <1>4 DEF CgiProc, IInv, TypeOK
  <2> HIDE DEF p
  <2>2. q \in KqType /\ q.read = kq.read
    BY <1>2, EvTimerDeleteFields, IdentFacts
  <2> HIDE DEF h, q
  <2>3. CASE \E respConn \in CgiConn : SendResponse(h, http[h], q, respConn, "reply")
    BY <1>1, <1>4, <2>2, <2>3, LiveParsed, ReplyMaps, EndingFacts
  <2>4. CASE /\ kq' = EvWrite(q, http[h].fd, h) /\ UNCHANGED loop
             /\ http' = [http EXCEPT ![h] = Lost(http[h], "unread")]
    <3>1. http[h].fd \in Fd
      BY <1>1, <1>4 DEF IInv, Registered
    <3>2. kq'.read = kq.read
      BY <1>1, <2>2, <2>4, <3>1, EvWriteFields
    <3>3. /\ http[h] \in HttpType
          /\ http[h].state \in {PENDING_START_LINE, PENDING_HEADERS, PENDING_BODY, COMPLETE}
      BY <1>1, <1>4, LiveServed DEF IInv, TypeOK
    <3> DEFINE s == Lost(http[h], "unread")
    <3>4. s \in HttpType /\ s.life = "live" /\ s.state = http[h].state
      BY <1>4, <3>3, LostFields DEF Live
    <3>5. http' = [http EXCEPT ![h] = s]
      BY <2>4
    <3> HIDE DEF s
    <3> QED BY <1>1, <1>4, <2>4, <3>2, <3>3, <3>4, <3>5, SegmentMaps
  <2> QED BY <2>1, <2>3, <2>4
<1> QED BY <1>3, <1>4

LEMMA CgiTimerMaps ==
  ASSUME IInv, NEW c \in Cgi, CgiTimer(c)
  PROVE  RC!Next
<1> DEFINE h == cgi[c].http
           q == EvTimerDelete(kq, c)
<1>1. h \in Http /\ loop = "running" /\ kq \in KqType
  BY DEF IInv, CgiTimer, CgiHttp, TypeOK
<1>2. q \in KqType /\ q.read = kq.read
  BY <1>1, EvTimerDeleteFields, IdentFacts
<1>3. CASE ~Live(h)
  BY <1>1, <1>3, AbortMaps DEF CgiTimer
<1>4. CASE Live(h) /\ Closes(http[h], "absent")
  <2>1. http' = [http EXCEPT ![h] = Ended("reply")] /\ kq' = Close(q, http[h].fd)
    BY <1>4 DEF CgiTimer
  <2>2. http[h].fd \in Fd
    BY <1>1, <1>4 DEF IInv, Registered
  <2> HIDE DEF h, q
  <2>3. Close(q, http[h].fd).read = [q.read EXCEPT ![http[h].fd] = None]
    BY <1>2, <2>2, CloseFields
  <2>4. kq'.read = [kq.read EXCEPT ![http[h].fd] = None]
    BY <1>2, <2>1, <2>3
  <2> QED BY <1>1, <1>4, <2>1, <2>4, CloseMaps, EndingFacts
<1>5. CASE Live(h) /\ ~Closes(http[h], "absent")
  <2> DEFINE w == EvWrite(q, http[h].fd, h)
  <2>1. SendResponse(h, http[h], w, "absent", "reply")
    BY <1>5 DEF CgiTimer
  <2>2. http[h].fd \in Fd
    BY <1>1, <1>5 DEF IInv, Registered
  <2> HIDE DEF h, q
  <2>3. w \in KqType /\ w.read = kq.read
    BY <1>1, <1>2, <2>2, EvWriteFields
  <2> HIDE DEF w
  <2> QED BY <1>1, <1>5, <2>1, <2>3, LiveParsed, ReplyMaps, EndingFacts
<1> QED BY <1>3, <1>4, <1>5

LEMMA StepMaps == IInv /\ [Next]_vars => [RC!Next]_RC!vars
<1> SUFFICES ASSUME IInv, [Next]_vars PROVE RC!Next \/ UNCHANGED RC!vars
  OBVIOUS
<1>1. kq \in KqType
  BY DEF IInv, TypeOK
<1>2. CASE Connect
  <2>1. kq'.read = kq.read
    BY <1>1, <1>2 DEF Connect, KqType
  <2> QED BY <1>2, <2>1, StutterMaps DEF Connect
<1>3. CASE UNCHANGED <<loop, http, kq>>
  BY <1>3, StutterMaps
<1>4. CASE Tick
  <2>1. kq'.read = kq.read
    BY <1>1, <1>4, ElapseFields DEF Tick
  <2> QED BY <1>4, <2>1, StutterMaps DEF Tick
<1>5. CASE Accept
  BY <1>5, AcceptMaps
<1>6. ASSUME NEW f \in Fd, Event(f) PROVE RC!Next \/ UNCHANGED RC!vars
  BY <1>6, RecvRequestMaps, HttpEofMaps, HttpWriteMaps, HttpTimerMaps DEF Event
<1>7. ASSUME NEW c \in Cgi, ProcessEvent(c) PROVE RC!Next \/ UNCHANGED RC!vars
  BY <1>7, CgiProcMaps, CgiTimerMaps DEF ProcessEvent
<1>8. CASE StaleEvent
  BY <1>8, AbortMaps DEF StaleEvent
<1> QED
  BY <1>2, <1>3, <1>4, <1>5, <1>6, <1>7, <1>8 DEF Next, ClientClose, ChildExit, vars

LEMMA InitMaps == Init => RC!Init
<1> SUFFICES ASSUME Init PROVE RC!Init
  OBVIOUS
<1>1. StageOf(Unborn) = "none"
  BY DEF StageOf, Unborn
<1> QED BY <1>1 DEF Init, RC!Init, EmptyKq

\* The event loop implements the cycle of requests, for any number of
\* connections, descriptors and processes.
THEOREM ImplementsCycle == Spec => CycleImplemented
  BY InitMaps, StepMaps, Inductive, PTL DEF Spec, CycleImplemented, RC!Spec

-----------------------------------------------------------------------------
(* Descriptors.                                                              *)

\* The end of a pipe that is written to is held by its own process only, if
\* the process was forked: the server closes it before it forks another one.
OwnWriteEnd ==
  \A c, d \in Script : WriteEnd(c) \in held[d] => c = d \/ script[c] = "nofork"

DescriptorsInv == DescriptorsTypeOK /\ Accounted /\ OwnWriteEnd

-----------------------------------------------------------------------------
\* Descriptors of different objects, or for different uses, are different.
LEMMA Different ==
  /\ \A h, k : Sock(h) = Sock(k) => h = k
  /\ \A c, d : FileOf(c) = FileOf(d) => c = d
  /\ \A c, d : ReadEnd(c) = ReadEnd(d) => c = d
  /\ \A c, d : WriteEnd(c) = WriteEnd(d) => c = d
  /\ \A h, c : Sock(h) # FileOf(c) /\ Sock(h) # ReadEnd(c) /\ Sock(h) # WriteEnd(c)
  /\ \A c, d : FileOf(c) # ReadEnd(d) /\ FileOf(c) # WriteEnd(d) /\ ReadEnd(c) # WriteEnd(d)
  BY DEF Sock, FileOf, ReadEnd, WriteEnd

\* Accounted, one kind of descriptor at a time.
OpenAsHeld ==
  /\ \A h \in Client : Sock(h) \in open <=> conn[h] = "open"
  /\ \A c \in Script : FileOf(c) \in open <=> script[c] \notin {"unborn", "nofile"}
  /\ \A c \in Script : ReadEnd(c) \in open <=> script[c] \in {"nofork", "live", "unread", "timedout"}
  /\ \A c \in Script : WriteEnd(c) \in open <=> script[c] = "nofork"

LEMMA AccountedByKind == open \subseteq Descriptor => (Accounted <=> OpenAsHeld)
<1>1. ASSUME Accounted PROVE OpenAsHeld
  BY <1>1, Different DEF Accounted, OpenAsHeld
<1>2. ASSUME OpenAsHeld, open \subseteq Descriptor PROVE Accounted
  <2> DEFINE Socks == {Sock(h) : h \in {k \in Client : conn[k] = "open"}}
             Files == {FileOf(c) : c \in {k \in Script : script[k] \notin {"unborn", "nofile"}}}
             Reads == {ReadEnd(c) : c \in {k \in Script :
                         script[k] \in {"nofork", "live", "unread", "timedout"}}}
             Writes == {WriteEnd(c) : c \in {k \in Script : script[k] = "nofork"}}
  <2>1. ASSUME NEW x \in open PROVE x \in Socks \cup Files \cup Reads \cup Writes
    BY <1>2, <2>1 DEF OpenAsHeld, Descriptor
  <2>2. Socks \subseteq open /\ Files \subseteq open /\ Reads \subseteq open /\ Writes \subseteq open
    BY <1>2 DEF OpenAsHeld
  <2>3. open = Socks \cup Files \cup Reads \cup Writes
    BY <2>1, <2>2
  <2>4. QED
    BY <2>3 DEF Accounted
<1>3. QED
  BY <1>1, <1>2

\* The same, after a step.
LEMMA ByKindInv == DescriptorsTypeOK' /\ OpenAsHeld' => Accounted'
<1>1. DescriptorsTypeOK /\ OpenAsHeld => Accounted
  BY AccountedByKind DEF DescriptorsTypeOK
<1>2. QED
  BY <1>1, PTL

-----------------------------------------------------------------------------
\* The server starts with nothing open.
LEMMA DescriptorsInitInv == DescriptorsInit => DescriptorsInv
<1> SUFFICES ASSUME DescriptorsInit PROVE DescriptorsInv
  OBVIOUS
<1>1. DescriptorsTypeOK /\ OwnWriteEnd
  BY DEF DescriptorsInit, DescriptorsTypeOK, OwnWriteEnd, ScriptLife
<1>2. OpenAsHeld
  BY DEF DescriptorsInit, OpenAsHeld
<1>3. QED
  BY <1>1, <1>2, AccountedByKind DEF DescriptorsInv, DescriptorsTypeOK

\* The two actions on connections.
LEMMA ConnectionsOK ==
  ASSUME DescriptorsInv, NEW h \in Client, AcceptSocket(h) \/ CloseConnection(h)
  PROVE  DescriptorsInv'
<1>1. DescriptorsTypeOK /\ OwnWriteEnd /\ OpenAsHeld
  BY AccountedByKind DEF DescriptorsInv, DescriptorsTypeOK
<1>2. DescriptorsTypeOK'
  BY <1>1 DEF DescriptorsTypeOK, AcceptSocket, CloseConnection, ClosedWith, Descriptor
<1>3. OwnWriteEnd'
  BY <1>1 DEF OwnWriteEnd, AcceptSocket, CloseConnection
<1>4. OpenAsHeld'
  <2>1. CASE AcceptSocket(h)
    BY <1>1, <2>1, Different DEF OpenAsHeld, DescriptorsTypeOK, AcceptSocket
  <2>2. CASE CloseConnection(h)
    BY <1>1, <2>2, Different DEF OpenAsHeld, DescriptorsTypeOK, CloseConnection, ClosedWith
  <2>3. QED
    BY <2>1, <2>2
<1>5. QED
  BY <1>2, <1>3, <1>4, ByKindInv DEF DescriptorsInv

\* The calls of execute() that fail, and the events of a process.
LEMMA NoProcessOK ==
  ASSUME DescriptorsInv, NEW c \in Script,
         NoFile(c) \/ NoPipe(c) \/ NoFork(c) \/ ScriptOutput(c) \/ ScriptTimer(c)
  PROVE  DescriptorsInv'
<1>1. DescriptorsTypeOK /\ OwnWriteEnd /\ OpenAsHeld
  BY AccountedByKind DEF DescriptorsInv, DescriptorsTypeOK
<1>2. DescriptorsTypeOK'
  BY <1>1 DEF DescriptorsTypeOK, NoFile, NoPipe, NoFork, ScriptOutput, ScriptTimer, Starts, ClosedAtEnd,
              Descriptor, ScriptLife
<1>3. OwnWriteEnd'
  BY <1>1 DEF DescriptorsTypeOK, OwnWriteEnd, NoFile, NoPipe, NoFork, ScriptOutput, ScriptTimer, Starts
<1>4. OpenAsHeld'
  <2>1. CASE NoFile(c) \/ ScriptTimer(c)
    BY <1>1, <2>1, Different DEF OpenAsHeld, DescriptorsTypeOK, NoFile, ScriptTimer, Starts
  <2>2. CASE NoPipe(c)
    BY <1>1, <2>2, Different DEF OpenAsHeld, DescriptorsTypeOK, NoPipe, Starts
  <2>3. CASE NoFork(c)
    BY <1>1, <2>3, Different DEF OpenAsHeld, DescriptorsTypeOK, NoFork, Starts
  <2>4. CASE ScriptOutput(c)
    BY <1>1, <2>4, Different DEF OpenAsHeld, DescriptorsTypeOK, ScriptOutput, ClosedAtEnd
  <2>5. QED
    BY <2>1, <2>2, <2>3, <2>4
<1>5. QED
  BY <1>2, <1>3, <1>4, ByKindInv DEF DescriptorsInv

\* A process that is forked.
LEMMA ForkOK ==
  ASSUME DescriptorsInv, NEW c \in Script, Fork(c)
  PROVE  DescriptorsInv'
<1>1. DescriptorsTypeOK /\ OwnWriteEnd /\ OpenAsHeld
  BY AccountedByKind DEF DescriptorsInv, DescriptorsTypeOK
<1>2. DescriptorsTypeOK'
  BY <1>1 DEF DescriptorsTypeOK, Fork, Starts, AfterFork, Descriptor, ScriptLife
\* What the process inherits has no write end but its own and those that a
\* fork() that failed has left.
<1>3. OwnWriteEnd'
  <2> SUFFICES ASSUME NEW b \in Script, NEW d \in Script, WriteEnd(b) \in held'[d]
               PROVE  b = d \/ script'[b] = "nofork"
    BY DEF OwnWriteEnd
  <2>1. script[b] = "nofork" => script'[b] = "nofork"
    BY <1>1 DEF Fork, Starts, DescriptorsTypeOK
  <2>2. CASE d = c
    <3>1. WriteEnd(b) \in open \cup {FileOf(c), WriteEnd(c)}
      BY <1>1, <2>2 DEF Fork, DescriptorsTypeOK
    <3>2. QED
      BY <1>1, <2>1, <2>2, <3>1, Different DEF OpenAsHeld
  <2>3. CASE d # c
    <3>1. WriteEnd(b) \in held[d]
      BY <1>1, <2>3 DEF Fork, DescriptorsTypeOK
    <3>2. QED
      BY <1>1, <2>1, <3>1 DEF OwnWriteEnd
  <2>4. QED
    BY <2>2, <2>3
<1>4. OpenAsHeld'
  BY <1>1, Different DEF OpenAsHeld, DescriptorsTypeOK, Fork, Starts, AfterFork
<1>5. QED
  BY <1>2, <1>3, <1>4, ByKindInv DEF DescriptorsInv

\* A process that ends.
LEMMA ProcessExitOK ==
  ASSUME DescriptorsInv, NEW c \in Script, ProcessExit(c)
  PROVE  DescriptorsInv'
<1>1. DescriptorsTypeOK /\ OwnWriteEnd /\ Accounted
  BY DEF DescriptorsInv
<1>2. DescriptorsTypeOK'
  BY <1>1 DEF DescriptorsTypeOK, ProcessExit
<1>3. OwnWriteEnd'
  BY <1>1 DEF DescriptorsTypeOK, OwnWriteEnd, ProcessExit
<1>4. Accounted'
  BY <1>1 DEF Accounted, ProcessExit
<1>5. QED
  BY <1>2, <1>3, <1>4 DEF DescriptorsInv

\* Every step keeps the invariant.
LEMMA DescriptorsNextInv == DescriptorsInv /\ [DescriptorsNext]_descriptors => DescriptorsInv'
<1> SUFFICES ASSUME DescriptorsInv, [DescriptorsNext]_descriptors PROVE DescriptorsInv'
  OBVIOUS
<1>1. CASE UNCHANGED descriptors
  BY <1>1 DEF descriptors, DescriptorsInv, DescriptorsTypeOK, Accounted, OwnWriteEnd
<1>2. CASE DescriptorsNext
  BY <1>2, ConnectionsOK, NoProcessOK, ForkOK, ProcessExitOK DEF DescriptorsNext, ExecuteScript
<1>3. QED
  BY <1>1, <1>2

\* The invariant of Descriptors.
LEMMA DescriptorsInvAlways == DescriptorsSpec => []DescriptorsInv
  BY DescriptorsInitInv, DescriptorsNextInv, PTL DEF DescriptorsSpec

-----------------------------------------------------------------------------
\* When a process has ended nobody can write to its pipe, so that the read()
\* of CGI::dispatch() comes to an end (CGI.cpp:110-118).
THEOREM OutputAlwaysEnds == DescriptorsSpec => []OutputEnds
<1>1. DescriptorsInv => OutputEnds
  <2> SUFFICES ASSUME DescriptorsInv, NEW c \in Script, script[c] = "live", process[c] = "exited"
               PROVE  /\ WriteEnd(c) \notin open
                      /\ \A d \in Script : WriteEnd(c) \notin held[d]
    BY DEF OutputEnds
  <2>1. WriteEnd(c) \notin open
    BY AccountedByKind DEF DescriptorsInv, DescriptorsTypeOK, OpenAsHeld
  <2>2. held[c] = {}
    BY DEF DescriptorsInv, DescriptorsTypeOK
  <2>3. QED
    BY <2>1, <2>2 DEF DescriptorsInv, OwnWriteEnd
<1>2. QED
  BY DescriptorsInvAlways, <1>1, PTL

\* What the server has open belongs to a connection that lives, or is what
\* execute() and the events of processes leave behind; and a connection that
\* was closed looks open to its client only while a process runs that was
\* forked while it was open (CGI.cpp:121-196, HTTP.cpp:37).
THEOREM HoldersAlwaysKnown == DescriptorsSpec => []HoldersKnown
<1>1. DescriptorsInv => HoldersKnown
  <2> SUFFICES ASSUME DescriptorsInv, NEW h \in Client, conn[h] = "closed"
               PROVE  /\ Sock(h) \notin open
                      /\ \A c \in Script : Sock(h) \in held[c] => process[c] = "running"
    BY DEF DescriptorsInv, HoldersKnown, LingersInProcesses
  <2>1. Sock(h) \notin open
    BY AccountedByKind DEF DescriptorsInv, DescriptorsTypeOK, OpenAsHeld
  <2>2. \A c \in Script : Sock(h) \in held[c] => process[c] = "running"
    BY DEF DescriptorsInv, DescriptorsTypeOK
  <2>3. QED
    BY <2>1, <2>2
<1>2. QED
  BY DescriptorsInvAlways, <1>1, PTL

=============================================================================
