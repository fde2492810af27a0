------------------------------ MODULE MCParser ------------------------------
(***************************************************************************)
(* The parser, in three parts of which one takes all steps of a behaviour; *)
(* the others stay as they were.  HttpParser: one request of every framing *)
(* parse_body() distinguishes, alone or followed by another one, in up to  *)
(* four segments, each of which may be left to a process once more.        *)
(* MessageHead: targets of up to five units, request lines of up to five   *)
(* characters that need not be well formed, pairs of field lines.          *)
(* ChunkLoop: every body of up to four bytes, and of up to four pieces of  *)
(* some kinds; data of three bytes, which may look like sizes, in chunks.  *)
(***************************************************************************)
EXTENDS HttpParser, MessageHead, ChunkLoop

CONSTANTS
  Parts,       \* the parts that may take steps: "stream", "head", "chunks"
  m1, m2       \* methods

VARIABLE part

-----------------------------------------------------------------------------
(* HttpParser *)

Get == Start(m1, TRUE)
Close == Field("connection", "close")
KeepAlive == Field("connection", "keep-alive")
LengthField(n) == Field("content-length", n)
Coding(c) == Field("transfer-encoding", c)
Abc == <<"a", "b", "c">>

Alone(lines, octets, content) == Stream(lines, octets, content, <<>>)
Followed(lines, octets, content) ==
  Stream(lines, octets, content, Lines(<<Start(m2, TRUE), KeepAlive>>))

MCStreams ==
  { Alone(<<Get>>, <<>>, <<>>),
    Alone(<<Get, KeepAlive, Close>>, <<>>, <<>>),
    Followed(<<Get>>, <<>>, <<>>),
    Followed(<<Get, Close>>, <<>>, <<>>),
    Alone(<<Start(None, FALSE)>>, <<>>, <<>>),
    Followed(<<Start(m1, FALSE), Close>>, <<>>, <<>>),
    Alone(<<Get, LengthField(0)>>, <<>>, <<>>),
    Alone(<<Get, LengthField(3), LengthField(2)>>, Bytes(Abc), Abc),
    Alone(<<Get, Close, LengthField(2)>>, Bytes(<<"a", "b">>), <<"a", "b">>),
    Followed(<<Get, LengthField(2)>>, Bytes(<<"a", "b">>), <<"a", "b">>),
    Followed(<<Get, Coding("chunked")>>, Chunks(<<>>), <<>>),
    Alone(<<Get, Coding("chunked")>>, Chunks(<<<<"a", "b">>, <<"c">>>>), Abc),
    Alone(<<Get, LengthField(1), Coding("chunked")>>, Chunks(<<Abc>>), Abc),
    Alone(<<Get, Coding("gzip"), LengthField(3)>>, Bytes(Abc), Abc) }

-----------------------------------------------------------------------------
(* MessageHead *)

MCLower == [A |-> "a"]

Units == {<<"/">>, <<"x">>, <<"2">>, <<"?">>, <<"#">>, <<"%">>,
          <<"%", "2", "5">>, <<"%", "2", "F">>}
\* Two characters, the second of which need not be a digit.
HexDigit == {"2", "5", "F"}
MCOctetOf ==
  [p \in HexDigit \X (HexDigit \cup {"/", "x", "?", "#", "%"}) |->
     IF p = <<"2", "F">> THEN "/" ELSE IF p = <<"2", "5">> THEN "%"
     ELSE IF p[2] \in HexDigit THEN p[1] \o p[2] ELSE "0" \o p[1]]

Versions == {"HTTP/1.1", "HTTP/1.0", "HTTP/2", SP, CR}
FieldLines == {l \o <<CR>> : l \in BoundedSeq({"A", "a", ":", SP}, 3) \ {<<>>}}

MCHeads ==
  {Built("GET", <<<<"/">>>> \o u, "HTTP/1.1", <<>>) : u \in BoundedSeq(Units, 4)}
  \cup {Built("BREW", <<<<"/">>>>, "HTTP/1.1", <<>>)}
  \cup {Written(l) : l \in BoundedSeq({"GET", SP, "/", "HTTP/1.1", CR}, 5)}
  \cup {Written(<<"GET", SP, "/", SP>> \o l) : l \in BoundedSeq(Versions, 3)}
  \cup {Built("GET", <<<<"/">>>>, "HTTP/1.1", <<f, g>>) : f \in FieldLines, g \in FieldLines}

-----------------------------------------------------------------------------
(* ChunkLoop *)

MCDigitValue == ("0" :> 0) @@ ("1" :> 1) @@ ("2" :> 2)

Octets == {"1", "2", "-", "x", CR, LF}

Ch(n, data) == <<n, CR, LF>> \o data \o <<CR, LF>>
Last1 == Ch("0", <<>>)

Pieces ==
  { <<"-", "1", CR, LF>>, <<"-", "2", CR, LF>>, <<"1", CR, LF>>, <<"0", "x", "1", CR, LF>>,
    <<"2", CR, LF>>, <<"1", "2", CR, LF>>, <<CR, LF>>, <<"x">>, <<"2">> }

Unframed(bytes) == ChunkedBody(bytes, [p \in {} |-> 0], <<>>)

MCBodies ==
  {Unframed(b) : b \in BoundedSeq(Octets, 4)}
  \cup {Unframed(FlattenSeq(p)) : p \in BoundedSeq(Pieces, 4)}
  \cup {ChunkedBody(Ch("1", a) \o Ch("2", b) \o Last1 \o f, (1 :> 0) @@ (7 :> 1) @@ (14 :> 3), a \o b) :
          a \in [1 .. 1 -> Octets], b \in [1 .. 2 -> Octets], f \in {<<>>, <<"x">>}}
  \cup {ChunkedBody(Last1, (1 :> 0), <<>>)}

-----------------------------------------------------------------------------
\* A part that takes no steps has one state.
StreamRests == req = Alone(<<Get>>, <<>>, <<>>) /\ Init
HeadRests == head = Written(<<"GET">>) /\ HeadInit
ChunksRest == chunks = Unframed(<<>>) /\ ChunksInit

PartsInit ==
  \/ part \in Parts \cap {"stream"} /\ HeadRests /\ ChunksRest /\ Init
  \/ part \in Parts \cap {"head"} /\ StreamRests /\ ChunksRest /\ HeadInit
  \/ part \in Parts \cap {"chunks"} /\ StreamRests /\ HeadRests /\ ChunksInit

StreamLoop == part = "stream" /\ Loop /\ UNCHANGED <<part, headVars, chunkVars>>
StreamPart == part = "stream" /\ Next /\ UNCHANGED <<part, headVars, chunkVars>>
HeadPart == part = "head" /\ HeadNext /\ UNCHANGED <<part, vars, chunkVars>>
ChunksPart == part = "chunks" /\ ChunksNext /\ UNCHANGED <<part, vars, headVars>>

PartsVars == <<part, vars, headVars, chunkVars>>
PartsNext == StreamPart \/ HeadPart \/ ChunksPart

\* The fairness of HttpParser and of ChunkLoop.
PartsSpec ==
  /\ PartsInit /\ [][PartsNext]_PartsVars
  /\ WF_PartsVars(StreamLoop) /\ WF_PartsVars(ChunksPart)

-----------------------------------------------------------------------------
(* The properties of the parts *)

\* HTTP_parse.cpp:11-372: every variable of every part has its type.
PartsTypeOK ==
  TypeOK /\ HeadTypeOK /\ ChunksTypeOK

\* HTTP_request.cpp:31-35, HTTP_parse.cpp:348-372: the loops end: everything
\* that has arrived in full is decided, however it was cut, or hangs the server
\* for the reasons in HungCause; and handle_chunk() comes back from every body,
\* however its sizes wrap.
LoopsEnd == EverythingDecided /\ (part = "chunks" => LoopEnds)
=============================================================================
