------------------------------- MODULE Replies ------------------------------
(***************************************************************************)
(* What the client of one connection gets for the requests it sends, one   *)
(* after the other: which reply has what of which request in it.  A        *)
(* request, whose body has a length or comes in chunks, arrives in one     *)
(* segment or in two; some are answered at once and some by a process,     *)
(* whose end, timeout or failed read comes in any order with the next      *)
(* segments and with the WRITE event.  The first segment has the start     *)
(* line at least; without it nothing is parsed.  Webserv has the knotes    *)
(* and the lifetime of the objects, HttpParser requests that share a       *)
(* segment and the cuts at which the parser hangs; here the connection is  *)
(* kept, and what ends it or the server is left out.                       *)
(***************************************************************************)
EXTENDS Naturals, Sequences, FiniteSets

CONSTANTS
  Worker,        \* the CGI objects whose process is watched
  Kinds,         \* the requests, see Kind
  Nothing,       \* a request that was cleared, a length not told, no process
  MaxRequests,   \* bound: requests the client sends
  MaxReplies     \* bound: with so many replies the client does not press on

Framing == {"none", "length", "chunks"}

\* A body has a length, which is not 0, or comes in chunks, if there is one.
Kind == [head : BOOLEAN, body : Framing, cgi : BOOLEAN]
Request == [n : Nat, head : BOOLEAN, body : Framing, cgi : BOOLEAN]

ASSUME RepliesAssumption ==
  /\ Kinds \subseteq Kind
  /\ Nothing \notin Request \cup Nat
  /\ MaxRequests \in Nat

VARIABLES
  count,       \* requests the client has begun
  owes,        \* what the client still has to send of a request: "nothing",
               \* "lines", or what is left of a "body" with a length
  stage,       \* _state: "start", "partial" for the ones between, "complete"
  buffer,      \* _buffer_recv: "empty", or see Stray
  request,     \* _request, and its number; Nothing when cleared
  response,    \* _response: status and body, each part with its request
  unsent,      \* _buffer_send
  write,       \* a WRITE event is registered
  worksFor,    \* the request each CGI object was made for
  wire,        \* history: the replies sent
  upset        \* history: what has happened, see Upset

repliesVars ==
  <<count, owes, stage, buffer, request, response, unsent, write, worksFor, wire, upset>>

\* Bytes in the buffer that begin no request: without a line feed, and with one.
Stray == {"rest", "lines"}

\* "impatient": the client sent something while its request was complete;
\* "unread": an output could not be read; "gone": a process was, before it was
\* registered; "cleared": the WRITE event cleared a request in the making;
\* "split": a body with a length was in two segments; "truncated": a request
\* with chunks was complete with the first of two segments; "swallowed": the
\* end of a request was left in the buffer.
Upset == {"impatient", "unread", "gone", "cleared", "split", "truncated", "swallowed"}

OK == 200
BAD_REQUEST_400 == 400     \* BAD_REQUEST is also a state of the parser
NOT_FOUND == 404
CONTENT_TOO_LARGE == 413
UNPROCESSABLE_CONTENT == 422
NOT_IMPLEMENTED == 501
BAD_GATEWAY == 502
GATEWAY_TIMEOUT == 504

\* The statuses the configuration has a page for.
Paged == {BAD_REQUEST_400, NOT_FOUND, CONTENT_TOO_LARGE}

\* A part of a reply: what it is, whose it is and, of an output, who wrote it.
Part(what, n, c) == [what |-> what, of |-> n, from |-> c]
Unset == [code |-> 0, of |-> 0]
Empty == [status |-> Unset, body |-> <<>>]

RepliesInit ==
  /\ count = 0
  /\ owes = "nothing"
  /\ stage = "start"
  /\ buffer = "empty"
  /\ request = Nothing
  /\ response = Empty
  /\ unsent = <<>>
  /\ write = FALSE
  /\ worksFor = [c \in Worker |-> 0]
  /\ wire = <<>>
  /\ upset = {}

-----------------------------------------------------------------------------
(* compose_response() and send_response() *)

\* A page needs a method that is known and not HEAD.
BodyOf(r, rq) ==
  IF r.status.code \in Paged /\ rq # Nothing /\ ~rq.head
  THEN <<Part("page", r.status.of, Nothing)>> ELSE r.body

\* The length is told except to HEAD.  Mutation: that of the body before the
\* page.
LengthBefore(r, rq) == IF rq # Nothing /\ rq.head THEN Nothing ELSE Len(r.body)
Length(r, rq) == IF rq # Nothing /\ rq.head THEN Nothing ELSE Len(BodyOf(r, rq))

Composed(r, rq) ==
  [status |-> r.status, length |-> Length(r, rq), body |-> BodyOf(r, rq),
   head |-> rq # Nothing /\ rq.head, to |-> IF rq = Nothing THEN 0 ELSE rq.n]

\* clear_response().  Mutation: only the status is cleared.
ResponseKept(r) == [r EXCEPT !.status = Unset]
ResponseAfter(r) == Empty

SendAll(replies, r) ==
  /\ wire' = wire \o replies
  /\ unsent' = <<>>
  /\ request' = Nothing
  /\ response' = ResponseAfter(r)
  /\ stage' = "start"

Reply(r, rq) == SendAll(Append(unsent, Composed(r, rq)), r) /\ buffer' = "empty"

-----------------------------------------------------------------------------
(* recv_request() of a complete request, for the first time or once more *)

Numbered(k, n) == [n |-> n, head |-> k.head, body |-> k.body, cgi |-> k.cgi]

\* The data of chunks go to the response, and leave the buffer; a body with a
\* length stays there.
Chunks(rq) == IF rq.body = "chunks" THEN <<Part("chunks", rq.n, Nothing)>> ELSE <<>>
Left(rq) == IF rq.body = "length" THEN Stray ELSE {"empty"}

With(r, code, n) == [r EXCEPT !.status = [code |-> code, of |-> n]]
Add(r, part) == [r EXCEPT !.body = Append(@, part)]

\* The process is watched, or gone before it could be: that goes unnoticed.
Forks(rq, r, left, cause) ==
  /\ \/ /\ \E c \in Worker : worksFor[c] = 0 /\ worksFor' = [worksFor EXCEPT ![c] = rq.n]
        /\ upset' = upset \cup cause
     \/ /\ upset' = upset \cup cause \cup {"gone"}
        /\ UNCHANGED worksFor
  /\ request' = rq
  /\ response' = r
  /\ stage' = "complete"
  /\ buffer' \in left
  /\ UNCHANGED <<unsent, wire>>

\* What is said at once; execute() may fail before it forks, and sets a status
\* then or none.
Said(rq, r) ==
  {With(r, NOT_FOUND, rq.n)}
  \cup (IF rq.body = "length" THEN {With(r, CONTENT_TOO_LARGE, rq.n)} ELSE {})
  \cup (IF rq.cgi THEN {r, With(r, BAD_GATEWAY, rq.n)}
        ELSE IF rq.head THEN {With(r, OK, rq.n)}
        ELSE {Add(With(r, OK, rq.n), Part("content", rq.n, Nothing))})

Compute(rq, r, left, cause) ==
  \/ rq.cgi /\ Forks(rq, r, left, cause)
  \/ /\ \E s \in Said(rq, r) : Reply(s, rq)
     /\ upset' = upset \cup cause
     /\ UNCHANGED worksFor

-----------------------------------------------------------------------------
(* Segments *)

\* Bytes that begin no request are rejected with the first line feed, and the
\* rest of the segment with them.
Rejected ==
  /\ \E code \in {BAD_REQUEST_400, NOT_IMPLEMENTED} :
       Reply(With(response, code, count'), Nothing)
  /\ UNCHANGED <<worksFor, upset>>

Begins ==
  /\ stage = "start"
  /\ owes = "nothing"
  /\ count < MaxRequests
  /\ count' = count + 1
  /\ UNCHANGED write

\* A request in one segment; the parser sets the status anew.
Whole(k) ==
  LET rq == Numbered(k, count + 1)
      r == [status |-> Unset, body |-> response.body \o Chunks(rq)] IN
  /\ Begins
  /\ IF buffer = "empty" THEN Compute(rq, r, Left(rq), {}) ELSE Rejected
  /\ UNCHANGED owes

\* The first of two segments, which ends before the end of the header, or
\* behind it in a body or before one.  The beginning of a body with a length
\* is taken, and stays in the buffer; chunks are taken to end where the segment
\* does.
FirstHalf(k) ==
  LET rq == Numbered(k, count + 1)
      r == [response EXCEPT !.status = Unset] IN
  /\ Begins
  /\ owes' \in {"lines"} \cup (IF k.body = "length" THEN {"body"} ELSE {})
  /\ \/ buffer # "empty" /\ Rejected
     \/ /\ buffer = "empty"
        /\ stage' = "partial"
        /\ request' = rq
        /\ response' = r
        /\ \/ UNCHANGED <<buffer, upset>>
           \/ owes' = "body" /\ buffer' \in Stray /\ upset' = upset \cup {"split"}
        /\ UNCHANGED <<unsent, worksFor, wire>>
     \/ /\ buffer = "empty"
        /\ k.body = "chunks"
        /\ \E parts \in {<<>>, Chunks(rq)} :
             Compute(rq, [r EXCEPT !.body = @ \o parts], {"empty"}, {"truncated"})

\* The second one.  A body with a length is taken again with what was left of
\* it in the buffer, which is too long.  If the first segment was answered or
\* cleared this is no request: without a line feed it waits for one.
SecondHalf ==
  /\ owes # "nothing"
  /\ owes' = "nothing"
  /\ UNCHANGED <<count, write>>
  /\ \/ /\ stage = "partial"
        /\ buffer = "empty"
        /\ Compute(request, [response EXCEPT !.body = @ \o Chunks(request)], Left(request), {})
     \/ /\ stage = "partial"
        /\ buffer # "empty"
        /\ Reply(IF response.status = Unset THEN With(response, BAD_REQUEST_400, request.n)
                 ELSE response, request)
        /\ UNCHANGED <<worksFor, upset>>
     \/ stage = "complete" /\ Compute(request, response, {"lines"}, {})
     \/ stage = "start" /\ Rejected
     \/ /\ stage = "start"
        /\ owes = "body"
        /\ buffer # "lines"
        /\ buffer' = "rest"
        /\ upset' = upset \cup {"swallowed"}
        /\ UNCHANGED <<stage, request, response, unsent, worksFor, wire>>

\* More, which begins no request, while one is complete: that is computed once
\* more.
More ==
  /\ stage = "complete"
  /\ owes = "nothing"
  /\ Len(wire) < MaxReplies
  /\ Compute(request, response, IF buffer = "lines" THEN {"lines"} ELSE Stray, {"impatient"})
  /\ UNCHANGED <<count, owes, write>>

-----------------------------------------------------------------------------
(* CGI::dispatch() and the WRITE event *)

Ends(c) == worksFor[c] # 0 /\ worksFor' = [worksFor EXCEPT ![c] = 0]

\* The output is added; a status is set only if it is no valid one.
OutputRead(c) ==
  LET n == worksFor[c]
      r == Add(response, Part("output", n, c)) IN
  /\ Ends(c)
  /\ \E s \in {r, With(r, UNPROCESSABLE_CONTENT, n)} : Reply(s, request)
  /\ UNCHANGED <<count, owes, write, upset>>

\* The pipe can not be read: nothing is composed.
OutputUnread(c) ==
  /\ Ends(c)
  /\ response' = With(response, BAD_GATEWAY, worksFor[c])
  /\ write' = TRUE
  /\ upset' = upset \cup {"unread"}
  /\ UNCHANGED <<count, owes, stage, buffer, request, unsent, wire>>

\* Mutation: the reply is left to the WRITE event.
WorkerTimeoutLater(c) ==
  /\ Ends(c)
  /\ response' = With(response, GATEWAY_TIMEOUT, worksFor[c])
  /\ write' = TRUE
  /\ UNCHANGED <<count, owes, stage, buffer, request, unsent, wire, upset>>

WorkerTimeout(c) ==
  /\ Ends(c)
  /\ Reply(With(response, GATEWAY_TIMEOUT, worksFor[c]), request)
  /\ write' = TRUE
  /\ UNCHANGED <<count, owes, upset>>

\* send_response(), once; the bytes received stay.
WriteEvent ==
  /\ write
  /\ write' = FALSE
  /\ SendAll(unsent, response)
  /\ upset' = IF stage = "start" THEN upset ELSE upset \cup {"cleared"}
  /\ UNCHANGED <<count, owes, buffer, worksFor>>

RepliesNext ==
  \/ \E k \in Kinds : Whole(k) \/ FirstHalf(k)
  \/ SecondHalf
  \/ More
  \/ \E c \in Worker : OutputRead(c) \/ OutputUnread(c) \/ WorkerTimeout(c)
  \/ WriteEvent

RepliesSpec == RepliesInit /\ [][RepliesNext]_repliesVars

-----------------------------------------------------------------------------
(* Properties *)

Pieces == UNION {{<<i, j>> : j \in 1 .. Len(wire[i].body)} : i \in 1 .. Len(wire)}
Of(i) == {wire[i].body[j].of : j \in 1 .. Len(wire[i].body)}
           \cup (IF wire[i].status = Unset THEN {} ELSE {wire[i].status.of})

\* Every variable has its type; a WRITE event finds nothing to send, and what is
\* still to come of a request that is complete is more of its chunks.
RepliesTypeOK ==
  /\ count \in 0 .. MaxRequests
  /\ owes \in {"nothing", "lines", "body"}
  /\ stage \in {"start", "partial", "complete"}
  /\ buffer \in {"empty"} \cup Stray
  /\ request = Nothing <=> stage = "start"
  /\ stage = "partial" => owes # "nothing"
  /\ stage = "complete" /\ owes # "nothing" => request.body = "chunks" /\ "truncated" \in upset
  /\ unsent = <<>>
  /\ write \in BOOLEAN
  /\ worksFor \in [Worker -> 0 .. count]
  /\ upset \subseteq Upset

\* No part of a reply is sent twice, in a late reply or by the WRITE event
\* after a 504.
NothingSentTwice ==
  \A p, q \in Pieces :
    wire[p[1]].body[p[2]] = wire[q[1]].body[q[2]] => p = q

\* A reply that tells a length has that length, page or not.  One that tells
\* none is for a HEAD, and then nothing follows but what chunks or a process
\* have brought, which the client does not expect.
LengthTold ==
  \A i \in 1 .. Len(wire) :
    IF wire[i].length # Nothing THEN wire[i].length = Len(wire[i].body)
    ELSE /\ wire[i].head
         /\ \A j \in 1 .. Len(wire[i].body) : wire[i].body[j].what \in {"chunks", "output"}

\* Whatever the order of events, the client can tell where each reply ends and
\* reads nothing twice (HTTP_response.cpp:45-61, 84-87).
RepliesFramed == NothingSentTwice /\ LengthTold

\* A reply has parts of two requests, or has those of one while another one
\* waits, only if the client sent something while one waited, so that a second
\* process was started for it, if a WRITE event has cleared one, or if chunks
\* came in two segments.  As long as none of that happened a request that is
\* well formed is rejected only if a body with a length came in two; processes
\* that vanish and reads that fail are not enough (HTTP_request.cpp:31,
\* HTTP_parse.cpp:252-257, 268-275, CGI.cpp:125, 141, 200).
MixedCause ==
  upset \cap {"impatient", "cleared", "truncated"} = {} =>
    \A i \in 1 .. Len(wire) :
      /\ Cardinality(Of(i) \cup ({wire[i].to} \ {0})) <= 1
      /\ wire[i].status.code \in {BAD_REQUEST_400, NOT_IMPLEMENTED} => "split" \in upset

\* A client that waits for each reply, and is not cut off inside of chunks, gets
\* one for every request, in order and with parts of that request alone, if
\* only the one that rejects a body in two segments; timeouts of processes
\* included, as long as every output can be read.  Behind a process that was
\* gone too early it waits.
ServedInOrder ==
  upset \subseteq {"split", "gone"} =>
    /\ Len(wire) = IF stage = "start" /\ owes = "nothing" THEN count ELSE count - 1
    /\ \A i \in 1 .. Len(wire) : Of(i) \subseteq {i} /\ wire[i].to = i

\* When nothing is under way any more the client has a reply for each request
\* or more, whatever was cut, cleared and mixed up meanwhile, but for three
\* causes: an output that could not be read, a process gone too early, and the
\* end of a request that was cleared, if it waits for a line feed.
NoneUnanswered ==
  /\ stage = "start" /\ owes = "nothing"
  /\ \A c \in Worker : worksFor[c] = 0
  /\ upset \cap {"unread", "gone", "swallowed"} = {}
  => Len(wire) >= count

\* A client that waits is served in order, and one that does not is left
\* without a reply only for the causes of NoneUnanswered (HTTP_response.cpp:14-89,
\* HTTP_parse.cpp:23-25, CGI.cpp:121-127, 200).
InStep == RepliesTypeOK /\ ServedInOrder /\ NoneUnanswered
=============================================================================
