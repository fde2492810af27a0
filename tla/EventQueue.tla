----------------------------- MODULE EventQueue -----------------------------
(***************************************************************************)
(* The kernel event queue behind IEvent::kq, as the EV_SET/kevent calls of *)
(* the server use it.  A knote is identified by its filter and its ident   *)
(* (a descriptor, or a pid) and carries the C++ object to dispatch to as   *)
(* udata.  Registering an existing knote again replaces its udata and      *)
(* restarts it; closing a descriptor drops its READ and WRITE knotes but   *)
(* NOT its TIMER knote, whose ident is only a number to the kernel.        *)
(*                                                                         *)
(* An HTTP or CGI object is an element of Http or Cgi.  The server is      *)
(* built with AddressSanitizer (Makefile), whose quarantine keeps a freed  *)
(* address from being handed out again, so an identity is used once.  The  *)
(* server never waits for its children, so a pid is never used again       *)
(* either: the pid of the process a CGI object forks is named by the CGI   *)
(* object itself.                                                          *)
(***************************************************************************)
EXTENDS Naturals, FiniteSets

CONSTANTS
  Http,         \* HTTP objects, one per accepted connection
  Cgi,          \* CGI objects, and the pid each one forks
  Fd,           \* descriptors accept() can return
  None,         \* no object, no descriptor, a NULL pointer
  REQ_TIMEOUT,  \* seconds (ticks) of the TIMER of a connection
  CGI_TIMEOUT   \* seconds (ticks) of the TIMER of a CGI process

\* EVFILT_TIMER knotes of descriptors and of pids share one name space.  The
\* model takes the numbers in use to be different; the code does not ensure it.
ASSUME IdentAssumption ==
  /\ None \notin Http \cup Cgi \cup Fd
  /\ Http \cap Cgi = {}
  /\ Fd \cap Cgi = {}

\* What include/define.hpp:45-46 fixes as 8 and 30 seconds.
ASSUME TimeoutAssumption ==
  /\ CGI_TIMEOUT \in Nat \ {0}
  /\ REQ_TIMEOUT \in Nat
  /\ CGI_TIMEOUT < REQ_TIMEOUT

Ident == Fd \cup Cgi
Timer == [owner : Http \cup Cgi \cup {None}, left : Nat]
NoTimer == [owner |-> None, left |-> 0]

KqType ==
  [ accept : BOOLEAN,                       \* listening socket: event pending
    read   : [Fd -> Http \cup {None}],
    write  : [Fd -> Http \cup {None}],
    timer  : [Ident -> Timer],
    proc   : SUBSET Cgi ]                   \* pids with a PROC knote

EmptyKq ==
  [ accept |-> FALSE,
    read   |-> [f \in Fd |-> None],
    write  |-> [f \in Fd |-> None],
    timer  |-> [i \in Ident |-> NoTimer],
    proc   |-> {} ]

\* EV_ADD with udata o, or EV_DELETE when o is None.  Mutation: the WRITE
\* knote of register_send() is never added.
EvWriteForgotten(q, f, o) == q
EvRead(q, f, o)  == [q EXCEPT !.read[f] = o]
EvWrite(q, f, o) == [q EXCEPT !.write[f] = o]
EvTimer(q, i, o, seconds) ==
  [q EXCEPT !.timer[i] = [owner |-> o, left |-> seconds]]
EvTimerDelete(q, i) == [q EXCEPT !.timer[i] = NoTimer]

\* close(2).  Mutation: the descriptor is never closed.
CloseForgotten(q, f) == q
Close(q, f) == [q EXCEPT !.read[f] = None, !.write[f] = None]

Armed(q, i) == q.timer[i].owner # None
Due(q) == {i \in Ident : Armed(q, i) /\ q.timer[i].left = 0}

\* One second passes for every armed timer.
Elapse(q) ==
  [q EXCEPT !.timer = [i \in Ident |->
     IF Armed(q, i) THEN [q.timer[i] EXCEPT !.left = @ - 1] ELSE q.timer[i]]]
=============================================================================
