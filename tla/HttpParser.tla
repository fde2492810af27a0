----------------------------- MODULE HttpParser -----------------------------
(***************************************************************************)
(* Receiving requests on a connection: recv_request() appends a segment to *)
(* _buffer_recv and calls parse() until it fails or the request is         *)
(* complete or bad; the reply clears the buffer, and what comes then is    *)
(* the next request.  A complete request may be left to a process: until   *)
(* that ends the request stays, and whatever comes meanwhile is put behind *)
(* it and lets it be computed once more.  The client's bytes are tokens: a *)
(* start line, field lines, chunk sizes, single bytes of the body, and     *)
(* EOL, the CR LF that ends lines and chunks.  The stream may be cut into  *)
(* segments between any two tokens.  A step is one call of parse(), one    *)
(* turn of the loop in handle_chunk() or one event; nothing can happen     *)
(* between the calls.  What comes after a WRITE event that cleared a       *)
(* request in the making is left to Replies, and so is what the replies    *)
(* of several processes say.                                               *)
(***************************************************************************)
EXTENDS StdString

CONSTANTS
  Method,      \* the entries of HTTP::methods
  None,        \* a NULL method
  Streams,     \* the requests clients send, see Stream
  MaxSegments  \* bound: segments in which a stream arrives

INSTANCE Request

EOL == [kind |-> "eol"]
Start(m, ok) == [kind |-> "start", method |-> m, ok |-> ok]
Field(name, value) == [kind |-> "field", name |-> name, value |-> value]
Size(n) == [kind |-> "size", n |-> n]
Byte(b) == [kind |-> "byte", b |-> b]

\* What a client sends: lines (each followed by EOL), the empty line, and the
\* content, framed by Content-Length, by chunks, or not at all.
Lines(head) == FlattenSeq([i \in 1 .. Len(head) |-> <<head[i], EOL>>]) \o <<EOL>>
Bytes(content) == [i \in 1 .. Len(content) |-> Byte(content[i])]
Chunk(content) == <<Size(Len(content)), EOL>> \o Bytes(content) \o <<EOL>>
Chunks(cs) == FlattenSeq([i \in 1 .. Len(cs) |-> Chunk(cs[i])]) \o Chunk(<<>>)

\* next: what is sent after the request, without waiting for the reply.
Stream(head, body, content, next) ==
  [head |-> Lines(head), body |-> body, content |-> content, next |-> next]

\* Such are the streams.  A head is a start line, field lines and the empty
\* line.
Named(h, name) == {i \in 1 .. Len(h) : h[i].kind = "field" /\ h[i].name = name}
IsFirst(h, name, i) == i \in Named(h, name) /\ \A j \in Named(h, name) : i <= j
IsSeq(t) == t \in Seq({t[i] : i \in 1 .. Len(t)})

IsHead(h) ==
  /\ IsSeq(h)
  /\ Len(h) > 2
  /\ h[1] \in [kind : {"start"}, method : Method \cup {None}, ok : BOOLEAN]
  /\ h[1].ok => h[1].method \in Method
  /\ h[2] = EOL
  /\ \A i \in 3 .. Len(h) :
       /\ h[i].kind # "start"
       /\ h[i - 1] = EOL => \/ (i = Len(h) /\ h[i] = EOL)
                             \/ (i + 1 < Len(h) /\ h[i].kind = "field" /\ h[i + 1] = EOL)
  /\ \A i \in Named(h, "connection") : h[i].value \in ConnHeader

\* before: how much of the content comes before the chunk at each size.
Chunking(octets, content) ==
  {before \in [{p \in 1 .. Len(octets) : octets[p].kind = "size"} -> 0 .. Len(content)] :
     /\ 1 \in DOMAIN before /\ before[1] = 0
     /\ \A p \in DOMAIN before :
          LET n == octets[p].n IN
          /\ n \in Nat
          /\ p + n + 2 <= Len(octets)
          /\ octets[p + 1] = EOL
          /\ before[p] + n <= Len(content)
          /\ \A i \in 1 .. n : octets[p + 1 + i] = Byte(content[before[p] + i])
          /\ octets[p + n + 2] = EOL
          /\ IF n = 0 THEN p + 2 = Len(octets) /\ before[p] = Len(content)
             ELSE p + n + 3 \in DOMAIN before /\ before[p + n + 3] = before[p] + n}

\* Of several fields of a name the first one tells how the body is framed.
ASSUME StreamsAssumption ==
  \A s \in Streams :
    /\ IsHead(s.head) /\ IsSeq(s.body) /\ IsSeq(s.content)
    /\ \A i \in 1 .. Len(s.body) : s.body[i].kind # "start"
    /\ \A i \in 1 .. Len(s.head) :
         IsFirst(s.head, "transfer-encoding", i) /\ s.head[i].value = "chunked" =>
           Chunking(s.body, s.content) # {}
    /\ \A i \in 1 .. Len(s.head) :
         IsFirst(s.head, "content-length", i) /\ Named(s.head, "transfer-encoding") = {} =>
           s.head[i].value = Len(s.content) /\ s.body = Bytes(s.content)
    /\ s.next = <<>> \/ (IsHead(s.next) /\ Named(s.next, "transfer-encoding") = {})

VARIABLES
  req,       \* what the client sends
  sent,      \* how many of its tokens have arrived
  cuts,      \* where the segments ended
  buffer,    \* _buffer_recv
  r,         \* state and method of the HTTP object, connection header
  fields,    \* _request.headers, those that decide about the body
  body,      \* _request.body
  rbody,     \* _response.body
  phase,     \* "recv": the loop of recv_request() has ended for now;
             \* "parse": it runs; "closed" after a reply; "hung": it will
             \* never end; "cleared": a WRITE event has cleared a request
  replies,   \* the replies so far: the method of the request that was there,
             \* if it was complete, and how many tokens had arrived
  working,   \* how many processes will end
  write,     \* a WRITE event is registered
  hasty      \* history: a segment came while a request was complete

workers == <<working, write, hasty>>
vars == <<req, sent, cuts, buffer, r, fields, body, rbody, phase, replies, workers>>

First == Len(req.head) + Len(req.body)
Tokens == req.head \o req.body \o req.next

\* _buffer_recv.find( LF ), as an index from 1; 0 is npos.
Eol(b) == SelectInSeq(b, LAMBDA t : t = EOL)

\* A new object, and one that clear_request() has cleared.
Fresh == [state |-> PENDING_START_LINE, method |-> None, conn |-> "absent"]
NoFields == [name \in {} |-> None]

Init ==
  /\ req \in Streams
  /\ sent = 0
  /\ cuts = {}
  /\ buffer = <<>>
  /\ r = Fresh
  /\ fields = NoFields
  /\ body = <<>>
  /\ rbody = <<>>
  /\ phase = "recv"
  /\ replies = <<>>
  /\ working = 0
  /\ write = FALSE
  /\ hasty = FALSE

\* A segment arrives and is appended; if the request is complete the loop has
\* nothing to do.
Recv ==
  /\ phase = "recv"
  /\ Cardinality(cuts) < MaxSegments
  /\ \E n \in sent + 1 .. Len(Tokens) :
       /\ buffer' = buffer \o SubSeq(Tokens, sent + 1, n)
       /\ sent' = n
       /\ cuts' = cuts \cup {n}
  /\ phase' = "parse"
  /\ hasty' = (hasty \/ r.state = COMPLETE)
  /\ UNCHANGED <<req, r, fields, body, rbody, replies, working, write>>

\* parse() fails before it consumes anything: the loop waits for more.
Wait ==
  /\ phase' = "recv"
  /\ UNCHANGED <<req, sent, cuts, buffer, r, fields, body, rbody, replies, workers>>

\* A line without its end.
NeedLine ==
  /\ phase = "parse"
  /\ r.state \in {PENDING_START_LINE, PENDING_HEADERS}
  /\ Eol(buffer) = 0
  /\ Wait

\* parse_start_line(): the method is set as soon as it is recognised; a line
\* that is none has no method.  Mutation: it is set if the line is accepted.
MethodOfAccepted(line) == IF line.ok THEN line.method ELSE None
MethodOf(line) == line.method

ParseStartLine ==
  LET line == IF buffer[1].kind = "start" THEN buffer[1] ELSE Start(None, FALSE) IN
  /\ phase = "parse"
  /\ r.state = PENDING_START_LINE
  /\ Eol(buffer) # 0
  /\ buffer' = Erase(buffer, Eol(buffer))
  /\ r' = [r EXCEPT !.state = IF line.ok THEN PENDING_HEADERS ELSE BAD_REQUEST,
                    !.method = MethodOf(line)]
  /\ UNCHANGED <<req, sent, cuts, fields, body, rbody, phase, replies, workers>>

\* A field line, of which the first of its name counts (map::insert), or the
\* empty line.  Mutation: the last one counts.
InsertLast(f, name, value) ==
  [x \in DOMAIN f \cup {name} |-> IF x = name THEN value ELSE f[x]]
Insert(f, name, value) ==
  [x \in DOMAIN f \cup {name} |-> IF x \in DOMAIN f THEN f[x] ELSE value]

ParseFieldLine ==
  LET line == buffer[1] IN
  /\ phase = "parse"
  /\ r.state = PENDING_HEADERS
  /\ Eol(buffer) # 0
  /\ buffer' = Erase(buffer, Eol(buffer))
  /\ IF line = EOL
     THEN /\ r' = [r EXCEPT !.state = PENDING_BODY]
          /\ UNCHANGED fields
     ELSE /\ fields' = Insert(fields, line.name, line.value)
          /\ r' = [r EXCEPT !.conn = IF "connection" \in DOMAIN fields'
                                     THEN fields'["connection"] ELSE "absent"]
  /\ UNCHANGED <<req, sent, cuts, body, rbody, phase, replies, workers>>

-----------------------------------------------------------------------------
(* parse_body() *)

Encoding == "transfer-encoding" \in DOMAIN fields
Chunked == Encoding /\ fields["transfer-encoding"] = "chunked"

InBody == phase = "parse" /\ r.state = PENDING_BODY

Become(state) == r' = [r EXCEPT !.state = state]

\* EXIT_SUCCESS with nothing consumed and the state as it was: a coding other
\* than chunked, or a chunk whose size line has not arrived in full.
Spin ==
  /\ InBody
  /\ \/ Encoding /\ ~Chunked
     \/ Chunked /\ buffer # <<>> /\ Eol(buffer) = 0
  /\ phase' = "hung"
  /\ Become(SPINNING)
  /\ UNCHANGED <<req, sent, cuts, buffer, fields, body, rbody, replies, workers>>

\* One turn of handle_chunk(): what a substr() or an erase() asks for beyond
\* the end of the buffer is not missed.  The data go to the response's body.
\* An empty buffer ends the loop as the last chunk does.  Mutation: the CR LF
\* after the data is taken for data.
ChunkDataWithEol(b, n) == Substr(b, n + 1)
ChunkData(b, n) == Substr(b, n)

HandleChunk ==
  LET n == buffer[1].n
      rest == Erase(buffer, Eol(buffer))
  IN
  /\ InBody
  /\ Chunked
  /\ \/ /\ buffer = <<>>
        /\ Become(COMPLETE)
        /\ UNCHANGED <<buffer, rbody, replies>>
     \/ /\ Eol(buffer) # 0
        /\ buffer' = Erase(rest, n + 1)
        /\ rbody' = rbody \o ChunkData(rest, n)
        /\ IF n = 0 THEN Become(COMPLETE) ELSE UNCHANGED r
  /\ UNCHANGED <<req, sent, cuts, fields, body, phase, replies, workers>>

\* Content-Length: the whole buffer is appended, and stays in the buffer.
\* Mutation: a body that has grown too long is not rejected.
LengthOutcomeLax(len, n) == IF len = n THEN COMPLETE ELSE PENDING_BODY
LengthOutcome(len, n) ==
  IF len = n THEN COMPLETE ELSE IF len > n THEN BAD_REQUEST ELSE PENDING_BODY

\* A short body makes parse() fail, so that the loop ends.  Mutations: it does
\* not; a long one ends it as if more were to come.
LengthPhaseFails(outcome) == IF outcome = COMPLETE THEN "parse" ELSE "recv"
LengthPhaseSuccess(outcome) == IF outcome = PENDING_BODY THEN "hung" ELSE "parse"
LengthPhase(outcome) == IF outcome = PENDING_BODY THEN "recv" ELSE "parse"

TakeLength ==
  LET outcome == LengthOutcome(Len(body) + Len(buffer), fields["content-length"]) IN
  /\ InBody
  /\ ~Encoding
  /\ "content-length" \in DOMAIN fields
  /\ body' = body \o buffer
  /\ Become(outcome)
  /\ phase' = LengthPhase(outcome)
  /\ UNCHANGED <<req, sent, cuts, buffer, fields, rbody, replies, workers>>

NoBody ==
  /\ InBody
  /\ ~Encoding
  /\ "content-length" \notin DOMAIN fields
  /\ Become(COMPLETE)
  /\ UNCHANGED <<req, sent, cuts, buffer, fields, body, rbody, phase, replies, workers>>

ParseBody == Spin \/ HandleChunk \/ TakeLength \/ NoBody

-----------------------------------------------------------------------------
(* Replies *)

\* compose_response() drops what is left in the buffer, and send_response()
\* closes the connection or clears the request.  Mutation: what is left stays.
RestKept(b) == b
Rest(b) == <<>>

ClearRequest ==
  /\ r' = Fresh
  /\ fields' = NoFields
  /\ body' = <<>>
  /\ rbody' = <<>>

\* closes: the reply says so itself.
Answer(closes) ==
  /\ replies' = Append(replies, [method |-> r.method, ok |-> r.state = COMPLETE, at |-> sent])
  /\ phase' = IF closes \/ r.conn = "close" THEN "closed" ELSE "recv"
  /\ buffer' = Rest(buffer)
  /\ ClearRequest
  /\ UNCHANGED <<req, sent, cuts, hasty>>

\* The loop ends and the request is answered, for the first time or not.
Reply ==
  /\ phase = "parse"
  /\ r.state \in {COMPLETE, BAD_REQUEST}
  /\ Answer(FALSE)
  /\ UNCHANGED <<working, write>>

\* Or it is left to a process, which is watched, or was gone before it could
\* be; the request stays complete.
Execute ==
  /\ phase = "parse"
  /\ r.state = COMPLETE
  /\ phase' = "recv"
  /\ working' \in {working, working + 1}
  /\ UNCHANGED <<req, sent, cuts, buffer, r, fields, body, rbody, replies, write, hasty>>

\* CGI::dispatch() and CGI_TIMEOUT: a process ends or takes too long, and what
\* is there then is answered.
Dispatch ==
  /\ phase = "recv"
  /\ working > 0
  /\ working' = working - 1
  /\ write' \in {write, TRUE}
  /\ \E closes \in BOOLEAN : Answer(closes)

\* Its output can not be read: the reply is left to the WRITE event.
Unread ==
  /\ phase = "recv"
  /\ working > 0
  /\ working' = working - 1
  /\ write' = TRUE
  /\ UNCHANGED <<req, sent, cuts, buffer, r, fields, body, rbody, phase, replies, hasty>>

\* send_response() without anything to send; the buffer stays.
WriteEvent ==
  /\ phase = "recv"
  /\ write
  /\ write' = FALSE
  /\ phase' = IF r.state = PENDING_START_LINE THEN "recv"
              ELSE IF r.conn = "close" THEN "closed" ELSE "cleared"
  /\ ClearRequest
  /\ UNCHANGED <<req, sent, cuts, buffer, replies, working, hasty>>

Loop == NeedLine \/ ParseStartLine \/ ParseFieldLine \/ ParseBody \/ Reply \/ Execute

Next == Recv \/ Loop \/ Dispatch \/ Unread \/ WriteEvent

Spec == Init /\ [][Next]_vars

\* The loop of recv_request() runs on by itself.
FairSpec == Spec /\ WF_vars(Loop)

-----------------------------------------------------------------------------
(* Properties *)

\* Every variable has its type; the buffer and the two bodies hold tokens of
\* the stream, and between two segments the state is one an HTTP object may be
\* in between two events.
TypeOK ==
  /\ sent \in 0 .. Len(Tokens)
  /\ cuts \subseteq 1 .. sent
  /\ {buffer[i] : i \in 1 .. Len(buffer)} \subseteq {Tokens[i] : i \in 1 .. sent}
  /\ r \in [state : ParserState \cup {BAD_REQUEST, SPINNING},
            method : Method \cup {None}, conn : ConnHeader \cup {"absent"}]
  /\ phase \in {"recv", "parse", "closed", "hung", "cleared"}
  /\ phase = "recv" => r.state \in {PENDING_START_LINE, PENDING_HEADERS, PENDING_BODY, COMPLETE}
  /\ r.state = PENDING_START_LINE => r = Fresh /\ fields = NoFields
  /\ working \in Nat /\ write \in BOOLEAN /\ hasty \in BOOLEAN

\* What Webserv takes parse() to be is what it does: every call that changes
\* the object's state, method or connection header changes it in one of the
\* ways of Request, until a reply or a WRITE event clears it; and between two
\* segments nothing but an event of a process or the WRITE event does.
StepsAreParses ==
  [][r' # r => \/ phase = "parse" /\ r' \in Parse(r)
               \/ phase = "parse" /\ r.state \in {COMPLETE, BAD_REQUEST} /\ r' = Fresh
               \/ phase = "recv" /\ <<working, write>>' # <<working, write>> /\ r' = Fresh]_vars

\* Segments that ended inside the body.
BodyCuts == {n \in cuts : Len(req.head) < n /\ n < First}

\* A request that is accepted has the body its client sent, as long as the
\* body came in one piece: with the end of the header, if it is chunked; with
\* it or after it, if it has a length; and keeps it while a process works for
\* it, whatever comes meanwhile (HTTP_parse.cpp:240-282, 348-371).
WholeBodyIntact ==
  r.state = COMPLETE /\ replies = <<>> /\ BodyCuts = {} =>
    /\ ~Encoding /\ "content-length" \in DOMAIN fields => body = Bytes(req.content)
    /\ Chunked /\ Len(req.head) \notin cuts => rbody = Bytes(req.content)

\* A request that was sent without waiting for the reply to the one before is
\* answered as what it is only if a reply was made when all of the first one
\* and nothing of it had arrived: in whatever other way the stream was cut, and
\* whatever processes were at work, compose_response() has dropped its
\* beginning, it was taken for a part of what came before, or it only let the
\* one before be computed once more (HTTP_request.cpp:31, HTTP_response.cpp:62).
AnsweredAlone ==
  \A i \in 1 .. Len(replies) :
    replies[i].ok /\ i > 1 =>
      /\ First \in cuts /\ \E j \in 1 .. i - 1 : replies[j].at = First
      /\ replies[i].method = req.next[1].method

\* If each request came in a segment of its own, and none while the one before
\* was complete and not yet answered, none is answered twice, and each reply is
\* about the request that had just come, the malformed ones included.
OneReplyEach ==
  cuts \subseteq {First, Len(Tokens)} /\ (sent > First => First \in cuts) /\ ~hasty =>
    /\ Len(replies) <= Cardinality(cuts)
    /\ \A i \in 1 .. Len(replies) :
         replies[i].method = IF i = 1 THEN req.head[1].method ELSE req.next[1].method

\* HTTP_request.cpp:31, HTTP_response.cpp:62: a request sent without waiting is
\* answered as what it is only if the one before was answered before anything
\* of it came, and then none is answered twice.
AnsweredApart == AnsweredAlone /\ OneReplyEach

\* The loop of recv_request() never ends only for a coding that is not
\* chunked, or for a segment that ended between a chunk's size and its CR LF
\* (HTTP_parse.cpp:254-263).
HungCause ==
  phase = "hung" =>
    /\ Encoding
    /\ Chunked => \E n \in cuts : Tokens[n].kind = "size"

\* However the stream was cut, when all of it has arrived something was
\* answered and nothing is left half received (or it hangs the server, or a
\* WRITE event has cleared it), or it is complete and left to a process:
\* recv_request() does not wait for more in the middle of a request.
EverythingDecided ==
  sent = Len(Tokens) ~>
    \/ phase \in {"closed", "hung", "cleared"}
    \/ phase = "recv" /\ r = Fresh /\ Eol(buffer) = 0 /\ replies # <<>>
    \/ phase = "recv" /\ r.state = COMPLETE
=============================================================================
