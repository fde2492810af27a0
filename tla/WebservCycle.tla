---------------------------- MODULE WebservCycle ----------------------------
(* Webserv as an implementation of RequestCycle: the descriptor's holder is   *)
(* the object its READ knote names, the stage what its parser waits for.      *)
EXTENDS Webserv

StageOf(r) ==
  IF r.life = "unborn" THEN "none"
  ELSE IF r.life # "live" THEN "closed"
  ELSE IF r.state = PENDING_START_LINE THEN "idle"
  ELSE IF r.state = COMPLETE THEN "answering"
  ELSE "receiving"

RC == INSTANCE RequestCycle WITH
        Conn   <- Http,
        stage  <- [h \in Http |-> StageOf(http[h])],
        holder <- kq.read,
        up     <- (loop = "running")

\* Every step of the event loop, for whatever object its event was meant, is
\* a step of RequestCycle of one connection: no knote or reference that is
\* left over moves a connection that it does not belong to, and a descriptor
\* is given up exactly when its connection is closed.
CycleImplemented == RC!Spec

Unanswered(h) == Live(h) /\ http[h].state = COMPLETE

\* The deadline of the connection is moved: more bytes came to a request that
\* is complete (HTTP_request.cpp:45-48).
Postponed(h) ==
  Unanswered(h) /\ kq'.timer[http[h].fd].left > kq.timer[http[h].fd].left

\* Unless the server stops: a request that is received in part is completed
\* or given up, whatever its client sends; so is one that a watched process
\* works on or a WRITE event waits for answered, or given up; any other
\* complete request only if its client stops sending, for each of its
\* segments starts the 30 seconds again (HTTP_events.cpp:25-34,
\* CGI.cpp:104-145, HTTP_request.cpp:31, 45-48, HTTP_response.cpp:67-89).
CycleProgresses ==
  /\ RC!Progress
  /\ \A h \in Http :
       Unanswered(h) /\ (Watched(h) \/ GivenUp(h)) ~> ~Unanswered(h) \/ Stopped
  /\ \A h \in Http :
       <>[][~Postponed(h)]_vars => (Unanswered(h) ~> ~Unanswered(h) \/ Stopped)
=============================================================================
