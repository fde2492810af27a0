----------------------------- MODULE Connection -----------------------------
(***************************************************************************)
(* The HTTP class: one object per accepted connection, its parser state,   *)
(* the reply path and the object's lifetime (HTTP*.cpp).                   *)
(***************************************************************************)
EXTENDS EventQueue

CONSTANT Method                 \* the entries of HTTP::methods

ASSUME MethodAssumption == None \notin Method

VARIABLES
  loop,    \* the event loop: "running", or how it stopped
  http,    \* the HTTP objects
  peer,    \* the client's end of each connection
  kq       \* the kernel event queue

\* Parser states, Parse and ParseLoop.
INSTANCE Request

\* How the loop can stop: a freed object was used (AddressSanitizer aborts),
\* SIGPIPE killed the process, parse() spins for ever.
LoopStatus == {"running", "aborted", "killed", "hung"}

\* "live", or deleted: after EV_EOF, by send_response(), or by send_response()
\* of the 408 the request timer sends.
Ending == {"eof", "reply", "timeout"}

\* "lost" is a history: what became of processes that worked on the request
\* and will not answer it; not a field of the class.
HttpType ==
  [ life   : {"unborn", "live"} \cup Ending,
    fd     : Fd \cup {None},
    state  : ParserState \cup {BAD_REQUEST, SPINNING},
    method : Method \cup {None},
    conn   : ConnHeader \cup {"absent"},
    lost   : SUBSET {"gone", "unread"} ]

Unborn == [life |-> "unborn", fd |-> None, state |-> PENDING_START_LINE,
           method |-> None, conn |-> "absent", lost |-> {}]
Accepted(f) == [Unborn EXCEPT !.life = "live", !.fd = f]
Ended(why)  == [Unborn EXCEPT !.life = why]

\* clear_request() and the state reset at the end of send_response().
\* Mutation: the state is not reset.
ClearedKeepsState(r) == [r EXCEPT !.method = None, !.conn = "absent", !.lost = {}]
Cleared(r) ==
  [r EXCEPT !.state = PENDING_START_LINE, !.method = None, !.conn = "absent", !.lost = {}]

Lost(r, how) == [r EXCEPT !.lost = @ \cup {how}]

PeerStatus == {"none", "open", "closed"}

Live(h) == http[h].life = "live"

-----------------------------------------------------------------------------
(* Replying *)

\* send_response() deletes the object when the request carries a connection
\* header other than keep-alive, or the response says "close".
Closes(r, respConn) == r.conn = "close" \/ respConn = "close"

\* send() on a socket whose client has gone may raise SIGPIPE, which nothing
\* in the server handles.
AfterSend(h) == IF peer[h] = "open" THEN {"running"} ELSE {"running", "killed"}

\* compose_response() down to the end of send_response(), on object h with
\* contents r and the knotes of q.
SendResponse(h, r, q, respConn, why) ==
  /\ loop' \in AfterSend(h)
  /\ http' = [http EXCEPT ![h] =
                IF Closes(r, respConn) THEN Ended(why) ELSE Cleared(r)]
  /\ kq' = IF Closes(r, respConn) THEN Close(q, r.fd) ELSE q

-----------------------------------------------------------------------------
(* HTTP::dispatch; recv_request() is in Webserv, for it can start a CGI. *)

\* EVFILT_READ with EV_EOF: the client has closed.  Mutation: the object is
\* deleted without deregister_recv().
HttpEofOnlyDeletes(f) ==
  LET h == kq.read[f] IN
  /\ loop = "running"
  /\ h # None
  /\ Live(h)
  /\ peer[h] = "closed"
  /\ kq' = Close(kq, f)
  /\ http' = [http EXCEPT ![h] = Ended("eof")]
  /\ UNCHANGED <<loop, peer>>
HttpEof(f) ==
  LET h == kq.read[f] IN
  /\ loop = "running"
  /\ h # None
  /\ Live(h)
  /\ peer[h] = "closed"
  /\ kq' = Close(EvTimerDelete(EvRead(kq, f, None), f), f)
  /\ http' = [http EXCEPT ![h] = Ended("eof")]
  /\ UNCHANGED <<loop, peer>>

\* EVFILT_WRITE, one-shot: _buffer_send is empty by now, nothing is sent, but
\* the request is cleared and the connection may be closed.
HttpWrite(f) ==
  LET h == kq.write[f] IN
  /\ loop = "running"
  /\ h # None
  /\ Live(h)
  /\ SendResponse(h, http[h], EvWrite(kq, f, None), "absent", "reply")
  /\ UNCHANGED peer

\* EVFILT_TIMER: 408, connection: close.  Mutation: without deregister_recv().
HttpTimerKeepsKnotes(f) ==
  LET h == kq.timer[f].owner IN
  /\ loop = "running"
  /\ f \in Due(kq)
  /\ Live(h)
  /\ SendResponse(h, http[h], kq, "close", "timeout")
  /\ UNCHANGED peer
HttpTimer(f) ==
  LET h == kq.timer[f].owner IN
  /\ loop = "running"
  /\ f \in Due(kq)
  /\ Live(h)
  /\ SendResponse(h, http[h], EvTimerDelete(EvRead(kq, f, None), f),
                  "close", "timeout")
  /\ UNCHANGED peer
=============================================================================
