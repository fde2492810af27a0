------------------------------ MODULE Webserv -------------------------------
(***************************************************************************)
(* The whole event loop: Router::listen() takes one event at a time from   *)
(* the queue and dispatches it to the object the knote names.  The Router  *)
(* accepts connections, HTTP objects receive requests and reply, CGI       *)
(* objects wait for their process.  Clients, child processes and the clock *)
(* are the environment.                                                    *)
(***************************************************************************)
EXTENDS CgiProcess

VARIABLE backlog     \* connections the kernel holds for accept()

vars == <<loop, http, peer, kq, cgi, child, backlog>>

UnbornHttp == {h \in Http : http[h].life = "unborn"}

-----------------------------------------------------------------------------
(* The environment *)

\* A client connects: one more connection to accept, and the listening
\* socket's knote is pending (again).  Bound: every connection that arrives
\* has an HTTP object left to represent it.
Connect ==
  /\ loop = "running"
  /\ backlog < Cardinality(UnbornHttp)
  /\ backlog' = backlog + 1
  /\ kq' = [kq EXCEPT !.accept = TRUE]
  /\ UNCHANGED <<loop, http, peer, cgi, child>>

ClientClose(h) ==
  /\ loop = "running"
  /\ Live(h)
  /\ peer[h] = "open"
  /\ peer' = [peer EXCEPT ![h] = "closed"]
  /\ UNCHANGED <<loop, http, kq, cgi, child, backlog>>

\* One second.  The loop is taken to dispatch an expired timer within the
\* second it expires in; nothing bounds how other events are delayed.
Tick ==
  /\ loop = "running"
  /\ Due(kq) = {}
  /\ kq' = Elapse(kq)
  /\ UNCHANGED <<loop, http, peer, cgi, child, backlog>>

-----------------------------------------------------------------------------
(* Router::dispatch and the constructor of HTTP.  EV_CLEAR resets the event *)
(* when it is retrieved and one connection is accepted per event.  With no  *)
(* descriptor left accept() fails, and the connection stays where it is.    *)
FreeFd == Fd \ {http[h].fd : h \in {x \in Http : Live(x)}}

\* register_recv().  Mutation: the call of register_timer() is forgotten.
RegisterNoTimer(q, f, h) == EvRead(q, f, h)
Register(q, f, h) == EvTimer(EvRead(q, f, h), f, h, REQ_TIMEOUT)

Accept ==
  LET q == [kq EXCEPT !.accept = FALSE] IN
  /\ loop = "running"
  /\ kq.accept
  /\ \/ /\ FreeFd = {}
        /\ kq' = q
        /\ UNCHANGED <<http, peer, backlog>>
     \/ \E f \in FreeFd, h \in UnbornHttp :
          /\ backlog' = backlog - 1
          /\ http' = [http EXCEPT ![h] = Accepted(f)]
          /\ peer' = [peer EXCEPT ![h] = "open"]
          /\ kq' = Register(q, f, h)
  /\ UNCHANGED <<loop, cgi, child>>

\* compute_response() on a complete request: a CGI takes over, or a reply is
\* composed (405, a redirection, a method's, or that of a CGI that failed
\* to start).  The reply 413 of recv_request() is this one too.
ComputeResponse(h, r, q) ==
  \/ Execute(h, r, q)
  \/ /\ SendResponse(h, r, q, "absent", "reply")
     /\ UNCHANGED <<peer, cgi, child>>

\* The timer of a connection starts again when its request is complete.
\* Mutations: it does not; it is deleted and not registered again.
RestartForgotten(q, f, h) == q
RestartHalfDone(q, f, h) == EvTimerDelete(q, f)
Restart(q, f, h) == EvTimer(EvTimerDelete(q, f), f, h, REQ_TIMEOUT)

\* recv_request() on a segment that leaves the request incomplete.
\* Mutation: every segment restarts the timer.
ReceiveAndRestart(h, r) ==
  /\ http' = [http EXCEPT ![h] = r]
  /\ kq' = Restart(kq, r.fd, h)
  /\ UNCHANGED <<loop, peer, cgi, child>>
Receive(h, r) ==
  /\ http' = [http EXCEPT ![h] = r]
  /\ UNCHANGED <<loop, peer, kq, cgi, child>>

\* recv_request(): EVFILT_READ with data.  Any segment may arrive, in any
\* state, also while a CGI still works on the connection's request: it then
\* finds COMPLETE and computes the response to that request once more.
RecvRequest(f) ==
  LET h == kq.read[f] IN
  /\ loop = "running"
  /\ h # None
  /\ Live(h)
  /\ peer[h] = "open"
  /\ \E r \in ParseLoop(http[h]) :
       \/ /\ r.state \in {PENDING_START_LINE, PENDING_HEADERS, PENDING_BODY}
          /\ Receive(h, r)
       \/ /\ r.state = SPINNING
          /\ loop' = "hung"
          /\ UNCHANGED <<http, peer, kq, cgi, child>>
       \/ /\ r.state = BAD_REQUEST
          /\ SendResponse(h, r, kq, "absent", "reply")
          /\ UNCHANGED <<peer, cgi, child>>
       \/ /\ r.state = COMPLETE
          /\ ComputeResponse(h, r, Restart(kq, r.fd, h))
  /\ UNCHANGED backlog

Freed(o) == \/ o \in Http /\ http[o].life \in Ending
            \/ o \in Cgi /\ cgi[o].life \in {"done", "timedout"}

\* A pending event whose udata is an object already deleted: dispatch() is
\* called through freed memory.
StaleEvent ==
  /\ loop = "running"
  /\ \/ \E i \in Due(kq) : Freed(kq.timer[i].owner)
     \/ \E c \in kq.proc : child[c] = "exited" /\ Freed(c)
  /\ Abort
  /\ UNCHANGED backlog

-----------------------------------------------------------------------------
Init ==
  /\ loop = "running"
  /\ http = [h \in Http |-> Unborn]
  /\ peer = [h \in Http |-> "none"]
  /\ kq = EmptyKq
  /\ cgi = [c \in Cgi |-> UnbornCgi]
  /\ child = [c \in Cgi |-> "none"]
  /\ backlog = 0

Event(f) ==
  \/ RecvRequest(f)
  \/ HttpEof(f) /\ UNCHANGED <<cgi, child, backlog>>
  \/ HttpWrite(f) /\ UNCHANGED <<cgi, child, backlog>>
  \/ HttpTimer(f) /\ UNCHANGED <<cgi, child, backlog>>

ProcessEvent(c) == (CgiProc(c) \/ CgiTimer(c)) /\ UNCHANGED backlog

Next ==
  \/ Connect
  \/ \E h \in Http : ClientClose(h)
  \/ Tick
  \/ Accept
  \/ \E f \in Fd : Event(f)
  \/ \E c \in Cgi : ProcessEvent(c)
  \/ \E c \in Cgi : ChildExit(c) /\ UNCHANGED backlog
  \/ StaleEvent

Spec == Init /\ [][Next]_vars

\* The kernel reports every pending event in turn and the clock advances;
\* clients and child processes owe nothing: a client may stop sending, a
\* process may never end.
Fairness ==
  /\ WF_vars(Tick)
  /\ WF_vars(Accept)
  /\ WF_vars(StaleEvent)
  /\ \A f \in Fd :
       /\ WF_vars(HttpEof(f) /\ UNCHANGED <<cgi, child, backlog>>)
       /\ WF_vars(HttpWrite(f) /\ UNCHANGED <<cgi, child, backlog>>)
       /\ WF_vars(HttpTimer(f) /\ UNCHANGED <<cgi, child, backlog>>)
  /\ \A c \in Cgi :
       /\ WF_vars(CgiProc(c) /\ UNCHANGED backlog)
       /\ WF_vars(CgiTimer(c) /\ UNCHANGED backlog)

FairSpec == Spec /\ Fairness

-----------------------------------------------------------------------------
(* Properties *)

\* Every variable has its type, and what an object is in the middle of
\* between two events is a state recv_request() leaves it in.
TypeOK ==
  /\ loop \in LoopStatus
  /\ http \in [Http -> HttpType]
  /\ \A h \in Http : http[h].state \in ParserState
  /\ peer \in [Http -> PeerStatus]
  /\ kq \in KqType
  /\ cgi \in [Cgi -> CgiType]
  /\ child \in [Cgi -> ChildStatus]
  /\ backlog \in Nat

\* A connection being served owns the READ and TIMER knotes of its
\* descriptor, also when the descriptor belonged before to a connection that
\* send_response() deleted with its TIMER still armed (HTTP_response.cpp:75).
Registered ==
  \A h \in Http : Live(h) =>
    /\ http[h].fd \in Fd
    /\ kq.read[http[h].fd] = h
    /\ kq.timer[http[h].fd].owner = h

\* What a deleted object may leave in the queue: never a READ or WRITE knote;
\* a TIMER knote only if send_response() deleted it on an ordinary reply, not
\* after EV_EOF or the 408; a CGI that replied, nothing (the PROC knote that
\* one leaves behind is that of a CGI that timed out).
Leftovers ==
  /\ \A f \in Fd : \A h \in {kq.read[f], kq.write[f]} \ {None} : Live(h)
  /\ \A h \in Http : http[h].life \in {"eof", "timeout"} =>
       \A i \in Ident : kq.timer[i].owner # h
  /\ \A c \in Cgi : cgi[c].life = "done" =>
       c \notin kq.proc /\ ~Armed(kq, c)

\* The 408 of a connection never pre-empts the 504 of the process that works
\* on its request: the process' timer runs out first.  The code relies on it:
\* no ~HTTP tells the CGI that its HTTP object is gone.
CgiDeadlineFirst ==
  \A c \in Cgi : LET h == cgi[c].http IN
    Armed(kq, c) /\ Live(h) =>
      kq.timer[c].left < kq.timer[http[h].fd].left

\* HTTP_response.cpp:8-9, "There is no need to check if this->_request.method
\* is NULL": past the start line the method is known, whatever replies (of
\* earlier processes, of stray WRITE events) cleared the request meanwhile.
MethodKnown ==
  \A h \in Http :
    Live(h) /\ http[h].state # PENDING_START_LINE => http[h].method # None

\* A process that is going to answer the request of h, or to give 504 for it:
\* both its PROC and its TIMER knote are in the queue.
Watched(h) ==
  \E c \in kq.proc : CgiLive(c) /\ cgi[c].http = h /\ Armed(kq, c)

\* A WRITE event that is going to clear the request of h, with no reply.
GivenUp(h) == "unread" \in http[h].lost /\ kq.write[http[h].fd] = h

\* A request that is complete is left without anything that will answer it
\* in two cases only: the output of a process could not be read, and the
\* WRITE event that clears the request is on its way (CGI.cpp:121-127); or a
\* process was gone before it was registered (CGI.cpp:61, 200).
CompleteHasWorker ==
  \A h \in Http : Live(h) /\ http[h].state = COMPLETE =>
    Watched(h) \/ GivenUp(h) \/ "gone" \in http[h].lost

\* The only ways to use freed memory: the TIMER a closing reply leaves, the
\* PROC knote a timed out process leaves, and the reference a CGI holds to a
\* connection deleted while the process ran.
AbortHasCause ==
  loop = "aborted" =>
    \/ \E h \in Http : http[h].life = "reply"
    \/ \E c \in Cgi : cgi[c].life = "timedout"
    \/ \E c \in Cgi : CgiLive(c) /\ http[cgi[c].http].life = "eof"

\* While a request is being received its deadline only comes closer: no
\* segment that leaves it incomplete restarts the timer of register_timer().
DeadlineKept ==
  [][\A h \in Http :
       Live(h) /\ Live(h)' /\ http'[h].state \in {PENDING_HEADERS, PENDING_BODY}
         => kq'.timer[http[h].fd].left <= kq.timer[http[h].fd].left]_vars

Stopped == loop # "running"

\* Router.hpp:70, "Once a connection is received, routes it to its
\* corresponding server": no connection is left waiting for accept().
EveryoneAccepted == backlog > 0 ~> backlog = 0 \/ Stopped
=============================================================================
