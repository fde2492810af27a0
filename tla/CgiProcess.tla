----------------------------- MODULE CgiProcess -----------------------------
(***************************************************************************)
(* The CGI class: a forked process, its PROC and TIMER knotes, and the     *)
(* reply given on behalf of the HTTP object it holds a reference to        *)
(* (CGI.cpp).  The reference is never invalidated: ~HTTP does not tell the *)
(* CGI, and CGI::kill() has no caller.                                     *)
(***************************************************************************)
EXTENDS Connection

VARIABLES
  cgi,     \* the CGI objects
  child    \* the processes they forked

\* Only an object whose process is watched is told from the others: those that
\* a failed execute() or register_process() leaves behind are in no knote.
CgiType == [life : {"unborn", "live", "done", "timedout"},
            http : Http \cup {None}]

ChildStatus == {"none", "running", "exited"}

UnbornCgi == [life |-> "unborn", http |-> None]
CgiLive(c) == cgi[c].life = "live"

\* The PROC and TIMER knotes of the process.
RegisterProcess(q, c) ==
  EvTimer([q EXCEPT !.proc = @ \cup {c}], c, c, CGI_TIMEOUT)

\* The connection header parse_headers() may find in what a process writes.
CgiConn == {"absent", "close"}

\* execute() with a successful fork, and register_process().  A child that is
\* gone before EVFILT_PROC is added makes kevent fail with ESRCH;
\* register_process() then returns before the timer, and execute() ignores
\* it: nothing will ever be heard of that process, however many there are.
Execute(h, r, q) ==
  /\ \/ \E c \in Cgi :
          /\ cgi[c].life = "unborn"
          /\ cgi' = [cgi EXCEPT ![c] = [life |-> "live", http |-> h]]
          /\ child' = [child EXCEPT ![c] = "running"]
          /\ http' = [http EXCEPT ![h] = r]
          /\ kq' = RegisterProcess(q, c)
     \/ /\ http' = [http EXCEPT ![h] = Lost(r, "gone")]
        /\ kq' = q
        /\ UNCHANGED <<cgi, child>>
  /\ UNCHANGED <<loop, peer>>

\* The process ends.  It need not: tests/while.c never does, nor does a
\* process that fills the pipe, which is read only after NOTE_EXIT.
ChildExit(c) ==
  /\ child[c] = "running"
  /\ child' = [child EXCEPT ![c] = "exited"]
  /\ UNCHANGED <<loop, http, peer, kq, cgi>>

Abort ==
  /\ loop' = "aborted"
  /\ UNCHANGED <<http, peer, kq, cgi, child>>

\* CGI::dispatch, EVFILT_PROC (one-shot).
CgiProc(c) ==
  LET h == cgi[c].http
      q == EvTimerDelete([kq EXCEPT !.proc = @ \ {c}], c)
  IN
  /\ loop = "running"
  /\ c \in kq.proc
  /\ child[c] = "exited"
  /\ CgiLive(c)
  /\ IF ~Live(h) THEN Abort
     ELSE /\ cgi' = [cgi EXCEPT ![c].life = "done"]
          /\ \/ \E respConn \in CgiConn :
                  SendResponse(h, http[h], q, respConn, "reply")
             \/ \* read() failed: 502 is set but never composed
                /\ kq' = EvWrite(q, http[h].fd, h)
                /\ http' = [http EXCEPT ![h] = Lost(@, "unread")]
                /\ UNCHANGED loop
          /\ UNCHANGED <<peer, child>>

\* CGI::dispatch, EVFILT_TIMER: 504, and register_send() on an object that
\* compose_response() may just have deleted.  The PROC knote stays.
CgiTimer(c) ==
  LET h == cgi[c].http
      q == EvTimerDelete(kq, c)
  IN
  /\ loop = "running"
  /\ c \in Due(kq)
  /\ CgiLive(c)
  /\ IF ~Live(h) THEN Abort
     ELSE IF Closes(http[h], "absent")
     THEN /\ http' = [http EXCEPT ![h] = Ended("reply")]
          /\ kq' = Close(q, http[h].fd)
          /\ loop' \in (AfterSend(h) \ {"running"}) \cup {"aborted"}
          /\ UNCHANGED <<peer, cgi, child>>
     ELSE /\ SendResponse(h, http[h], EvWrite(q, http[h].fd, h), "absent", "reply")
          /\ cgi' = [cgi EXCEPT ![c].life = "timedout"]
          /\ UNCHANGED <<peer, child>>
=============================================================================
