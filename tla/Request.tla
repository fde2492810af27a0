------------------------------- MODULE Request ------------------------------
(***************************************************************************)
(* HTTP::parse() and the loop around it in recv_request(), abstracted to   *)
(* what the life of a connection depends on: how far a segment takes the   *)
(* parser, whether the method is known and what the client's connection    *)
(* header says.  HttpParser has the detail, and is checked against this.   *)
(***************************************************************************)
EXTENDS Naturals

CONSTANTS
  Method,     \* the entries of HTTP::methods
  None        \* a NULL method

PENDING_START_LINE == 0
PENDING_HEADERS    == 1
PENDING_BODY       == 2
COMPLETE           == 3
BAD_REQUEST        == 400
\* parse() returns EXIT_SUCCESS without consuming anything or leaving
\* PENDING_BODY: the while loop of recv_request() never ends.
SPINNING           == 500

\* The states an object can be in between two events.
ParserState == {PENDING_START_LINE, PENDING_HEADERS, PENDING_BODY, COMPLETE}

\* Value of the request's connection header; any value other than
\* "keep-alive" behaves as "close" does.
ConnHeader == {"keep-alive", "close"}

-----------------------------------------------------------------------------
\* What one call of parse() can make of the object r when the buffer holds
\* what the current state is waiting for.
StartLine(r) ==
  {[r EXCEPT !.state = PENDING_HEADERS, !.method = m] : m \in Method}
  \cup {[r EXCEPT !.state = BAD_REQUEST, !.method = m] : m \in Method \cup {None}}

\* A field line, of which only the connection header matters (the first one
\* counts, the map does not replace it), or the empty line.
FieldLine(r) ==
  {[r EXCEPT !.conn = v] : v \in IF r.conn = "absent" THEN ConnHeader ELSE {}}
  \cup {[r EXCEPT !.state = PENDING_BODY]}

Body(r) == {[r EXCEPT !.state = s] : s \in {COMPLETE, BAD_REQUEST, SPINNING}}

Parse(r) ==
  IF r.state = PENDING_START_LINE THEN StartLine(r)
  ELSE IF r.state = PENDING_HEADERS THEN FieldLine(r)
  ELSE IF r.state = PENDING_BODY THEN Body(r)
  ELSE {}

OrParsed(R) == R \cup UNION {Parse(r) : r \in R}

\* The while loop of recv_request(): parse() is called until the request is
\* complete or bad or the buffer is exhausted.  Four calls that change
\* something lead from the start line to the end of the body.
ParseLoop(r) ==
  IF r.state = COMPLETE THEN {r}
  ELSE OrParsed(OrParsed(OrParsed(OrParsed({r}))))
=============================================================================
