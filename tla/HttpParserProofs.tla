-------------------------- MODULE HttpParserProofs --------------------------
(***************************************************************************)
(* Proofs about HttpParser, for requests with any fields and with bodies   *)
(* and chunks of any length, cut into segments anywhere: every call is one *)
(* Request allows, a body that came in one piece is kept intact, the loop  *)
(* hangs only for the causes HungCause names, and, whatever processes the  *)
(* requests are left to, the replies are about what AnsweredApart says.    *)
(***************************************************************************)
EXTENDS HttpParser, StringProofs

TheHead == req.head
TheBody == req.body
TheNext == req.next
TheContent == req.content

\* The arrived tokens from the k-th on are in the buffer.
At(k) == k \in 0 .. sent /\ buffer = SubSeq(Tokens, k + 1, sent)

\* What a request line that begins with the token t says of the method.
MethodAt(t) == IF t.kind = "start" THEN t.method ELSE None

\* The head of the request that begins after b tokens, if one does.
HeadAt(b) == IF b = 0 THEN TheHead ELSE TheNext

\* Its fields, after p tokens.
FieldsUpto(f, h, p) ==
  /\ DOMAIN f = {h[i].name : i \in {j \in 1 .. p : h[j].kind = "field"}}
  /\ \A x \in DOMAIN f :
       \E i \in 1 .. p : /\ h[i].kind = "field" /\ h[i].name = x /\ f[x] = h[i].value
                         /\ \A j \in 1 .. p : h[j].kind = "field" /\ h[j].name = x => i <= j

\* All of the body arrived with the end of the header.
Whole == BodyCuts = {} /\ Len(TheHead) \notin cuts

InStart(b) == At(b) /\ r = Fresh /\ fields = NoFields /\ body = <<>> /\ rbody = <<>>

InHeaders(b) ==
  \E p \in 2 .. Len(HeadAt(b)) - 1 :
    /\ HeadAt(b)[p] = EOL
    /\ At(b + p)
    /\ FieldsUpto(fields, HeadAt(b), p)
    /\ body = <<>> /\ rbody = <<>>

InLength(b) ==
  /\ At(b + Len(HeadAt(b)))
  /\ b = 0 /\ BodyCuts = {} => body = <<>> /\ (phase = "recv" => buffer = <<>>)

InChunks ==
  /\ replies = <<>>
  /\ phase # "recv"
  /\ \/ buffer = <<>> /\ ~Whole
     \/ \E before \in Chunking(TheBody, TheContent) :
          \E p \in DOMAIN before :
            /\ At(Len(TheHead) + p - 1)
            /\ Whole => rbody = SubSeq(Bytes(TheContent), 1, before[p])

InTheBody(b) ==
  /\ FieldsUpto(fields, HeadAt(b), Len(HeadAt(b)))
  /\ ~Encoding => InLength(b)
  /\ Chunked => InChunks
  /\ Encoding => b = 0

\* A reply was made when b tokens had arrived.
Behind(b) == b # 0 => \E j \in 1 .. Len(replies) : replies[j].at = b

\* Where the request that is being received began, and how far it is.
Begun(b) ==
  /\ b = 0 <=> replies = <<>>
  /\ Behind(b)
  /\ r.state = PENDING_START_LINE => InStart(b)
  /\ r.state # PENDING_START_LINE => b < sent /\ r.method = MethodAt(Tokens[b + 1])
  /\ r.state \notin {PENDING_START_LINE, BAD_REQUEST} =>
       Tokens[b + 1].kind = "start" /\ Tokens[b + 1].ok /\ b \in {0, First}
  /\ r.state = PENDING_HEADERS => InHeaders(b)
  /\ r.state = PENDING_BODY => InTheBody(b)

Gone == {"closed", "cleared"}

Received == phase \notin Gone => \E b \in cuts \cup {0} : Begun(b)

ConnTold ==
  r.conn = IF "connection" \in DOMAIN fields THEN fields["connection"] ELSE "absent"

Phases ==
  /\ phase = "recv" => r.state \in {PENDING_START_LINE, PENDING_HEADERS, PENDING_BODY, COMPLETE}
  /\ phase \in Gone => r = Fresh /\ fields = NoFields
  /\ phase = "hung" <=> r.state = SPINNING

Answers == [method : Method \cup {None}, ok : BOOLEAN, at : Nat]

Shapes ==
  /\ req \in Streams
  /\ sent \in 0 .. Len(Tokens)
  /\ cuts \subseteq 1 .. sent
  /\ sent > 0 => sent \in cuts
  /\ \E k \in 0 .. sent : At(k)
  /\ r \in [state : ParserState \cup {BAD_REQUEST, SPINNING},
            method : Method \cup {None}, conn : ConnHeader \cup {"absent"}]
  /\ phase \in {"recv", "parse", "closed", "hung", "cleared"}
  /\ replies \in Seq(Answers)

\* A client that waits has one process at work, for the request that is there.
Patient ==
  /\ working \in Nat /\ write \in BOOLEAN /\ hasty \in BOOLEAN
  /\ working > 0 => sent > 0
  /\ ~hasty /\ working > 0 /\ phase \notin Gone =>
       working = 1 /\ r.state = COMPLETE /\ phase = "recv"

\* It gets no more replies than it has sent segments.
Counted ==
  ~hasty => /\ Len(replies) <= Cardinality(cuts)
            /\ phase = "parse" \/ r.state = COMPLETE => Len(replies) < Cardinality(cuts)

\* What the i-th reply was for, if for a request: the line that begins after k
\* tokens, where another reply was made.
For(i) ==
  \E k \in cuts \cup {0} :
    /\ k < sent
    /\ k = 0 <=> i = 1
    /\ k # 0 => \E j \in 1 .. i - 1 : replies[j].at = k
    /\ replies[i].method = MethodAt(Tokens[k + 1])
    /\ replies[i].ok => Tokens[k + 1].kind = "start"

About == \A i \in 1 .. Len(replies) : replies[i].ok \/ ~hasty => For(i)

Answered == Patient /\ Counted /\ About

IInv == Shapes /\ Phases /\ ConnTold /\ Received /\ Answered /\ WholeBodyIntact /\ HungCause

-----------------------------------------------------------------------------
(* Sequences and lines                                                       *)

\* Where the first line ends, if one does.
LEMMA EolIs ==
  ASSUME NEW b, Len(b) \in Nat
  PROVE  \/ Eol(b) = 0 /\ \A i \in 1 .. Len(b) : b[i] # EOL
         \/ Eol(b) \in 1 .. Len(b) /\ b[Eol(b)] = EOL
            /\ \A i \in 1 .. Len(b) : b[i] = EOL => Eol(b) <= i
<1> DEFINE I == {i \in 1 .. Len(b) : b[i] = EOL}
<1>1. Eol(b) = IF I # {} THEN Min(I) ELSE 0
  BY DEF Eol, SelectInSeq
<1>2. CASE I = {}
  BY <1>1, <1>2
<1>3. CASE I # {}
  <2> HIDE DEF I
  <2>1. \E x \in I : \A y \in I : x <= y
    <3>1. I \in SUBSET Nat
      BY DEF I
    <3>2. QED
      BY <1>3, <3>1, LeastNat
  <2>2. Min(I) \in I /\ \A y \in I : Min(I) <= y
    BY <2>1 DEF Min
  <2>3. QED
    BY <1>1, <1>3, <2>2 DEF I
<1>4. QED
  BY <1>2, <1>3

-----------------------------------------------------------------------------
(* Streams                                                                   *)

Elements(t) == {t[i] : i \in 1 .. Len(t)}
Toks == Elements(TheHead) \cup Elements(TheBody) \cup Elements(TheNext)

LEMMA HeadHasStart ==
  ASSUME NEW h, IsHead(h)
  PROVE  /\ h \in Seq(Elements(h)) /\ Len(h) \in Nat /\ Len(h) > 2
         /\ h[1].kind = "start" /\ h[1].method \in Method \cup {None} /\ h[1].ok \in BOOLEAN
         /\ h[1].ok => h[1].method \in Method
         /\ h[2] = EOL
         /\ \A i \in 1 .. Len(h) : h[i].kind = "start" => i = 1
<1>1. h \in Seq(Elements(h)) /\ Len(h) \in Nat /\ Len(h) > 2
  BY DEF IsHead, IsSeq, Elements
<1>2. h[1] \in [kind : {"start"}, method : Method \cup {None}, ok : BOOLEAN]
  BY DEF IsHead
<1>3. h[2] = EOL /\ h[2].kind # "start"
  BY DEF IsHead, EOL
<1>4. \A i \in 3 .. Len(h) : h[i].kind # "start"
  BY DEF IsHead
<1>5. h[1].ok => h[1].method \in Method
  BY DEF IsHead
<1>6. \A i \in 1 .. Len(h) : i = 1 \/ i = 2 \/ i \in 3 .. Len(h)
  BY <1>1
<1>7. QED
  BY <1>1, <1>2, <1>3, <1>4, <1>5, <1>6

LEMMA StreamIs ==
  ASSUME req \in Streams
  PROVE  /\ Tokens \in Seq(Toks) /\ Len(Tokens) \in Nat
         /\ Len(TheHead) \in Nat /\ Len(TheBody) \in Nat /\ Len(TheNext) \in Nat
         /\ First = Len(TheHead) + Len(TheBody) /\ First \in Nat
         /\ Len(Tokens) = First + Len(TheNext)
         /\ IsHead(TheHead) /\ Len(TheHead) > 2
         /\ TheNext # <<>> => IsHead(TheNext)
         /\ \A i \in 1 .. Len(TheHead) : Tokens[i] = TheHead[i]
         /\ \A i \in 1 .. Len(TheBody) : Tokens[Len(TheHead) + i] = TheBody[i]
         /\ \A i \in 1 .. Len(TheNext) : Tokens[First + i] = TheNext[i]
<1>1. /\ IsHead(TheHead) /\ IsSeq(TheBody)
      /\ TheNext = <<>> \/ (IsHead(TheNext) /\ Named(TheNext, "transfer-encoding") = {})
  BY StreamsAssumption DEF TheHead, TheBody, TheNext
<1>2. TheHead \in Seq(Elements(TheHead)) /\ Len(TheHead) > 2
  BY <1>1, HeadHasStart
<1>3. TheBody \in Seq(Elements(TheBody))
  BY <1>1 DEF IsSeq, Elements
<1>4. TheNext \in Seq(Elements(TheNext))
  <2>1. CASE TheNext = <<>>
    BY <2>1, EmptySeq
  <2>2. CASE IsHead(TheNext)
    BY <2>2, HeadHasStart
  <2>3. QED
    BY <1>1, <2>1, <2>2
<1>5. TheHead \in Seq(Toks) /\ TheBody \in Seq(Toks) /\ TheNext \in Seq(Toks)
  <2>1. /\ Elements(TheHead) \subseteq Toks /\ Elements(TheBody) \subseteq Toks
        /\ Elements(TheNext) \subseteq Toks
    BY DEF Toks
  <2>2. QED
    BY <1>2, <1>3, <1>4, <2>1, SeqMonotonic
<1> DEFINE T == Toks
<1>6. TheHead \in Seq(T) /\ TheBody \in Seq(T) /\ TheNext \in Seq(T)
  BY <1>5
<1> HIDE DEF T
<1> DEFINE hb == TheHead \o TheBody
<1>7. /\ hb \in Seq(T) /\ Len(hb) = Len(TheHead) + Len(TheBody)
      /\ \A i \in 1 .. Len(TheHead) + Len(TheBody) :
           hb[i] = IF i <= Len(TheHead) THEN TheHead[i] ELSE TheBody[i - Len(TheHead)]
  BY <1>6, ConcatProperties
<1> HIDE DEF hb
<1>8. /\ hb \o TheNext \in Seq(T) /\ Len(hb \o TheNext) = Len(hb) + Len(TheNext)
      /\ \A i \in 1 .. Len(hb) + Len(TheNext) :
           (hb \o TheNext)[i] = IF i <= Len(hb) THEN hb[i] ELSE TheNext[i - Len(hb)]
  <2>1. hb \in Seq(T) /\ TheNext \in Seq(T)
    BY <1>6, <1>7
  <2>2. QED
    BY <2>1, ConcatProperties
<1>9. Tokens = hb \o TheNext
  BY DEF Tokens, hb, TheHead, TheBody, TheNext
<1>10. Len(TheHead) \in Nat /\ Len(TheBody) \in Nat /\ Len(TheNext) \in Nat /\ First = Len(hb)
  BY <1>6, <1>7 DEF First, TheHead, TheBody
<1>11. \A i \in 1 .. Len(TheHead) : Tokens[i] = TheHead[i]
  BY <1>7, <1>8, <1>9, <1>10
<1>12. \A i \in 1 .. Len(TheBody) : Tokens[Len(TheHead) + i] = TheBody[i]
  BY <1>7, <1>8, <1>9, <1>10
<1>13. \A i \in 1 .. Len(TheNext) : Tokens[First + i] = TheNext[i]
  BY <1>8, <1>9, <1>10
<1>14. Tokens \in Seq(Toks) /\ Len(Tokens) = First + Len(TheNext)
  BY <1>8, <1>9, <1>10 DEF T
<1>15. First \in Nat /\ First = Len(TheHead) + Len(TheBody)
  BY <1>7, <1>10
<1>16. Len(Tokens) \in Nat
  BY <1>10, <1>14, <1>15
<1>17. QED
  BY <1>1, <1>2, <1>10, <1>11, <1>12, <1>13, <1>14, <1>15, <1>16

\* Requests begin with the stream and after the first one, nowhere else.
LEMMA StartsAt ==
  ASSUME req \in Streams, NEW i \in 1 .. Len(Tokens), Tokens[i].kind = "start"
  PROVE  i = 1 \/ i = First + 1
<1>1. CASE i <= Len(TheHead)
  <2>1. TheHead[i].kind = "start" /\ i \in 1 .. Len(TheHead)
    BY <1>1, StreamIs
  <2>2. QED
    BY <2>1, StreamIs, HeadHasStart
<1>2. CASE Len(TheHead) < i /\ i <= First
  <2>1. i - Len(TheHead) \in 1 .. Len(TheBody) /\ i = Len(TheHead) + (i - Len(TheHead))
    BY <1>2, StreamIs
  <2>2. TheBody[i - Len(TheHead)].kind = "start"
    BY <2>1, StreamIs
  <2>3. QED
    BY <2>1, <2>2, StreamsAssumption DEF TheBody
<1>3. CASE First < i
  <2>1. i - First \in 1 .. Len(TheNext) /\ i = First + (i - First)
    BY <1>3, StreamIs
  <2>2. TheNext[i - First].kind = "start" /\ TheNext # <<>>
    BY <2>1, StreamIs
  <2>3. i - First = 1
    BY <2>1, <2>2, StreamIs, HeadHasStart
  <2>4. QED
    BY <2>1, <2>3, StreamIs
<1>4. QED
  BY <1>1, <1>2, <1>3, StreamIs

\* The head of the request that begins after b tokens.
LEMMA HeadIs ==
  ASSUME req \in Streams, NEW b \in {0, First}, b < Len(Tokens)
  PROVE  /\ IsHead(HeadAt(b)) /\ Len(HeadAt(b)) \in Nat /\ Len(HeadAt(b)) > 2
         /\ b + Len(HeadAt(b)) <= Len(Tokens)
         /\ \A i \in 1 .. Len(HeadAt(b)) : Tokens[b + i] = HeadAt(b)[i]
<1>1. CASE b = 0
  BY <1>1, StreamIs DEF HeadAt, TheHead
<1>2. CASE b # 0
  <2>1. b = First /\ TheNext # <<>> /\ HeadAt(b) = TheNext
    BY <1>2, StreamIs DEF HeadAt, TheNext
  <2>2. IsHead(TheNext) /\ Len(TheNext) > 2
    BY <2>1, StreamIs, HeadHasStart
  <2>3. QED
    BY <2>1, <2>2, StreamIs
<1>3. QED
  BY <1>1, <1>2

\* Nothing changes the stream.
LEMMA Steady ==
  ASSUME req' = req
  PROVE  /\ Tokens' = Tokens /\ First' = First
         /\ TheHead' = TheHead /\ TheBody' = TheBody /\ TheContent' = TheContent
         /\ \A b : HeadAt(b)' = HeadAt(b)
  BY DEF Tokens, First, TheHead, TheBody, TheNext, TheContent, HeadAt

LEMMA Typed ==
  ASSUME IInv
  PROVE  /\ req \in Streams
         /\ sent \in Nat /\ sent \in 0 .. Len(Tokens)
         /\ cuts \subseteq 1 .. sent /\ (sent > 0 => sent \in cuts)
         /\ IsFiniteSet(cuts) /\ Cardinality(cuts) \in Nat
         /\ Tokens \in Seq(Toks) /\ Len(Tokens) \in Nat
         /\ buffer \in Seq(Toks) /\ Len(buffer) \in Nat
         /\ r \in [state : ParserState \cup {BAD_REQUEST, SPINNING},
                   method : Method \cup {None}, conn : ConnHeader \cup {"absent"}]
         /\ phase \in {"recv", "parse", "closed", "hung", "cleared"}
         /\ replies \in Seq(Answers)
<1>1. /\ req \in Streams /\ sent \in 0 .. Len(Tokens) /\ cuts \subseteq 1 .. sent
      /\ sent > 0 => sent \in cuts
      /\ r \in [state : ParserState \cup {BAD_REQUEST, SPINNING},
                method : Method \cup {None}, conn : ConnHeader \cup {"absent"}]
      /\ phase \in {"recv", "parse", "closed", "hung", "cleared"}
      /\ replies \in Seq(Answers)
  BY Zenon DEF IInv, Shapes
<1>2. Tokens \in Seq(Toks) /\ Len(Tokens) \in Nat
  BY <1>1, StreamIs
<1>3. sent \in Nat /\ sent \in Int /\ 1 \in Int
  BY <1>1, <1>2
<1>4. IsFiniteSet(1 .. sent)
  BY <1>3, FS_Interval
<1>5. IsFiniteSet(cuts) /\ Cardinality(cuts) \in Nat
  BY <1>1, <1>4, FS_Subset, FS_CardinalityType
<1>6. PICK k \in 0 .. sent : At(k)
  BY DEF IInv, Shapes
<1>7. buffer \in Seq(Toks)
  BY <1>1, <1>2, <1>6, SuffixIs DEF At
<1>8. QED
  BY <1>1, <1>2, <1>3, <1>5, <1>7

LEMMA BufferIs ==
  ASSUME IInv, NEW k \in Nat, At(k)
  PROVE  /\ k \in 0 .. sent /\ Len(buffer) = sent - k
         /\ \A i \in 1 .. sent - k : buffer[i] = Tokens[k + i]
         /\ k = sent => buffer = <<>>
         /\ \A n \in Nat : Erase(buffer, n) = SubSeq(Tokens, (IF k + n <= sent THEN k + n ELSE sent) + 1, sent)
<1>1. k \in 0 .. sent /\ buffer = SubSeq(Tokens, k + 1, sent)
  BY DEF At
<1>2. /\ Len(buffer) = sent - k
      /\ \A i \in 1 .. sent - k : buffer[i] = Tokens[k + i]
      /\ k = sent => buffer = <<>>
  <2>1. sent \in 0 .. Len(Tokens) /\ Tokens \in Seq(Toks)
    BY Typed
  <2>2. /\ Len(SubSeq(Tokens, k + 1, sent)) = sent - k
        /\ \A i \in 1 .. sent - k : SubSeq(Tokens, k + 1, sent)[i] = Tokens[k + i]
        /\ k = sent => SubSeq(Tokens, k + 1, sent) = <<>>
    BY <1>1, <2>1, SuffixIs
  <2>3. QED
    BY <1>1, <2>2
<1>3. ASSUME NEW n \in Nat
      PROVE  Erase(buffer, n) = SubSeq(Tokens, (IF k + n <= sent THEN k + n ELSE sent) + 1, sent)
  BY <1>1, Typed, SuffixErase
<1>4. QED
  BY <1>1, <1>2, <1>3

\* What is erased has been arrived.
LEMMA AtErased ==
  ASSUME IInv, NEW k \in Nat, At(k), NEW n \in Nat, buffer' = Erase(buffer, n),
         UNCHANGED <<req, sent>>
  PROVE  /\ k + n <= sent => At(k + n)'
         /\ k + n > sent => At(sent)' /\ buffer' = <<>>
         /\ \E m \in 0 .. sent : At(m)'
<1>1. Tokens' = Tokens /\ sent' = sent /\ sent \in Nat
  BY Steady, Typed
<1>2. /\ k \in 0 .. sent
      /\ buffer' = SubSeq(Tokens, (IF k + n <= sent THEN k + n ELSE sent) + 1, sent)
  BY BufferIs
<1>3. CASE k + n <= sent
  <2>1. k + n \in 0 .. sent /\ buffer' = SubSeq(Tokens, (k + n) + 1, sent)
    BY <1>1, <1>2, <1>3
  <2>2. At(k + n)'
    BY <1>1, <2>1 DEF At
  <2>3. QED
    BY <1>1, <1>2, <1>3, <2>1, <2>2
<1>4. CASE ~ (k + n <= sent)
  <2>1. buffer' = SubSeq(Tokens, sent + 1, sent)
    BY <1>2, <1>4
  <2>2. At(sent)'
    BY <1>1, <2>1 DEF At
  <2>3. sent + 1 \in Int /\ sent \in Int /\ sent < sent + 1
    BY <1>1
  <2>4. buffer' = <<>>
    BY <2>1, <2>3, SubSeqEmpty
  <2>5. QED
    BY <1>1, <1>2, <1>4, <2>2, <2>4
<1>5. QED
  BY <1>3, <1>4

-----------------------------------------------------------------------------
(* Fields                                                                    *)

LEMMA FieldsNone ==
  ASSUME NEW h, IsHead(h)
  PROVE  FieldsUpto(NoFields, h, 2)
<1>1. h[1].kind = "start" /\ h[2].kind = "eol"
  BY HeadHasStart DEF EOL
<1>2. {j \in 1 .. 2 : h[j].kind = "field"} = {}
  BY <1>1
<1>3. DOMAIN NoFields = {}
  BY DEF NoFields
<1>4. QED
  BY <1>2, <1>3 DEF FieldsUpto

LEMMA FieldsStay ==
  ASSUME NEW f, NEW h, NEW p \in Nat, FieldsUpto(f, h, p), h[p + 1] = EOL
  PROVE  FieldsUpto(f, h, p + 1)
<1>1. h[p + 1].kind # "field"
  BY DEF EOL
<1>2. \A j \in 1 .. p + 1 : j \in 1 .. p \/ j = p + 1
  OBVIOUS
<1>3. {j \in 1 .. p + 1 : h[j].kind = "field"} = {j \in 1 .. p : h[j].kind = "field"}
  BY <1>1, <1>2
<1>4. ASSUME NEW x \in DOMAIN f
      PROVE  \E i \in 1 .. p + 1 : /\ h[i].kind = "field" /\ h[i].name = x /\ f[x] = h[i].value
                                   /\ \A j \in 1 .. p + 1 : h[j].kind = "field" /\ h[j].name = x => i <= j
  <2>1. PICK i \in 1 .. p : /\ h[i].kind = "field" /\ h[i].name = x /\ f[x] = h[i].value
                            /\ \A j \in 1 .. p : h[j].kind = "field" /\ h[j].name = x => i <= j
    BY DEF FieldsUpto
  <2>2. \A j \in 1 .. p + 1 : h[j].kind = "field" /\ h[j].name = x => i <= j
    BY <1>1, <1>2, <2>1
  <2>3. i \in 1 .. p + 1
    OBVIOUS
  <2>4. QED
    BY <2>1, <2>2, <2>3
<1>5. QED
  BY <1>3, <1>4 DEF FieldsUpto

LEMMA FieldsGrow ==
  ASSUME NEW f, NEW h, NEW p \in Nat, FieldsUpto(f, h, p), h[p + 1].kind = "field"
  PROVE  FieldsUpto(Insert(f, h[p + 1].name, h[p + 1].value), h, p + 1)
<1> DEFINE name == h[p + 1].name
           g == Insert(f, name, h[p + 1].value)
<1>1. /\ DOMAIN g = DOMAIN f \cup {name}
      /\ \A x \in DOMAIN f \cup {name} : g[x] = IF x \in DOMAIN f THEN f[x] ELSE h[p + 1].value
  BY DEF Insert
<1>2. \A j \in 1 .. p + 1 : j \in 1 .. p \/ j = p + 1
  OBVIOUS
<1>3. p + 1 \in 1 .. p + 1 /\ \A j \in 1 .. p : j \in 1 .. p + 1
  OBVIOUS
<1> HIDE DEF g
<1>4. {j \in 1 .. p + 1 : h[j].kind = "field"} = {j \in 1 .. p : h[j].kind = "field"} \cup {p + 1}
  BY <1>2, <1>3
<1>5. DOMAIN f = {h[i].name : i \in {j \in 1 .. p : h[j].kind = "field"}}
  BY DEF FieldsUpto
<1>6. DOMAIN g = {h[i].name : i \in {j \in 1 .. p + 1 : h[j].kind = "field"}}
  BY <1>1, <1>4, <1>5
<1>7. ASSUME NEW x \in DOMAIN g
      PROVE  \E i \in 1 .. p + 1 : /\ h[i].kind = "field" /\ h[i].name = x /\ g[x] = h[i].value
                                   /\ \A j \in 1 .. p + 1 : h[j].kind = "field" /\ h[j].name = x => i <= j
  <2>1. CASE x \in DOMAIN f
    <3>1. PICK i \in 1 .. p : /\ h[i].kind = "field" /\ h[i].name = x /\ f[x] = h[i].value
                              /\ \A j \in 1 .. p : h[j].kind = "field" /\ h[j].name = x => i <= j
      BY <2>1 DEF FieldsUpto
    <3>2. \A j \in 1 .. p + 1 : h[j].kind = "field" /\ h[j].name = x => i <= j
      BY <1>2, <3>1
    <3>3. i \in 1 .. p + 1 /\ g[x] = f[x]
      BY <1>1, <2>1
    <3>4. QED
      BY <3>1, <3>2, <3>3
  <2>2. CASE x \notin DOMAIN f
    <3>1. x = name /\ g[x] = h[p + 1].value
      BY <1>1, <2>2
    <3>2. \A j \in 1 .. p : ~ (h[j].kind = "field" /\ h[j].name = x)
      BY <1>5, <2>2
    <3>3. \A j \in 1 .. p + 1 : h[j].kind = "field" /\ h[j].name = x => p + 1 <= j
      BY <1>2, <3>2
    <3>4. QED
      BY <1>3, <3>1, <3>3
  <2>3. QED
    BY <2>1, <2>2
<1>8. QED
  BY <1>6, <1>7 DEF FieldsUpto, g

-----------------------------------------------------------------------------
(* Steps                                                                     *)

\* What was answered stays answered.
LEMMA AnsweredStays ==
  ASSUME IInv, UNCHANGED <<req, sent, cuts, replies>>, UNCHANGED workers, phase = "parse"
  PROVE  Answered'
<1>1. /\ Tokens' = Tokens /\ sent' = sent /\ cuts' = cuts /\ replies' = replies
      /\ working' = working /\ write' = write /\ hasty' = hasty
  BY Steady DEF workers
<1>2. Patient /\ Counted /\ About
  BY DEF IInv, Answered
<1>3. Patient'
  BY <1>1, <1>2 DEF Patient, Gone
<1>4. Counted'
  BY <1>1, <1>2 DEF Counted
<1>5. About'
  BY <1>1, <1>2 DEF About, For
<1>6. QED
  BY <1>3, <1>4, <1>5 DEF Answered

\* The head that is being received, and where the request begins.
LEMMA Beginning ==
  ASSUME IInv, phase \notin Gone
  PROVE  \E b \in cuts \cup {0} : Begun(b) /\ b \in Nat /\ b <= sent
<1>1. PICK b \in cuts \cup {0} : Begun(b)
  BY DEF IInv, Received
<1>2. b \in Nat /\ b <= sent
  BY Typed
<1>3. QED
  BY <1>1, <1>2

LEMMA RecvStep ==
  ASSUME IInv, Recv
  PROVE  IInv'
<1>1. PICK n \in sent + 1 .. Len(Tokens) : /\ buffer' = buffer \o SubSeq(Tokens, sent + 1, n)
                                           /\ sent' = n
                                           /\ cuts' = cuts \cup {n}
  BY Zenon DEF Recv
<1>2. /\ phase = "recv" /\ phase' = "parse"
      /\ hasty' = (hasty \/ r.state = COMPLETE)
      /\ UNCHANGED <<req, r, fields, body, rbody, replies, working, write>>
  BY Zenon DEF Recv
<1>3. n \in Nat /\ sent < n /\ n <= Len(Tokens) /\ sent \in Nat
  BY Typed
<1>4. /\ Tokens' = Tokens /\ First' = First /\ TheHead' = TheHead
      /\ \A b : HeadAt(b)' = HeadAt(b)
  BY <1>2, Steady
<1>5. ASSUME NEW k \in Nat, At(k)
      PROVE  At(k)'
  <2>1. k \in 0 .. sent /\ buffer = SubSeq(Tokens, k + 1, sent)
    BY <1>5 DEF At
  <2>2. /\ k + 1 \in 1 .. Len(Tokens) + 1 /\ sent \in (k + 1) - 1 .. Len(Tokens)
        /\ n \in sent .. Len(Tokens) /\ Tokens \in Seq(Toks)
    BY <1>3, <2>1, Typed
  <2>3. SubSeq(Tokens, k + 1, sent) \o SubSeq(Tokens, sent + 1, n) = SubSeq(Tokens, k + 1, n)
    BY <2>2, ConcatAdjacentSubSeq
  <2>4. k \in 0 .. n
    BY <1>3, <2>1
  <2>5. QED
    BY <1>1, <1>4, <2>1, <2>3, <2>4 DEF At
<1>6. Shapes'
  <2>1. \E k \in 0 .. sent' : At(k)'
    <3>1. PICK k \in 0 .. sent : At(k)
      BY DEF IInv, Shapes
    <3>2. k \in Nat /\ k \in 0 .. n
      BY <1>3
    <3>3. QED
      BY <1>1, <1>5, <3>1, <3>2
  <2>2. cuts' \subseteq 1 .. sent' /\ sent' \in cuts' /\ sent' \in 0 .. Len(Tokens')
    BY <1>1, <1>3, <1>4, Typed
  <2>3. QED
    BY <1>1, <1>2, <2>1, <2>2, Typed DEF Shapes
<1>7. r.state \in {PENDING_START_LINE, PENDING_HEADERS, PENDING_BODY, COMPLETE}
  BY <1>2 DEF IInv, Phases
<1>8. Phases' /\ ConnTold'
  <2>1. r.state # SPINNING
    BY <1>7 DEF PENDING_START_LINE, PENDING_HEADERS, PENDING_BODY, SPINNING, COMPLETE
  <2>2. ConnTold
    BY DEF IInv
  <2>3. QED
    BY <1>2, <2>1, <2>2 DEF Phases, ConnTold, Gone
<1>9. Received'
  <2>1. PICK b \in cuts \cup {0} : Begun(b) /\ b \in Nat /\ b <= sent
    BY <1>2, Beginning DEF Gone
  <2>2. Begun(b)'
    <3>1. InStart(b) => InStart(b)'
      BY <1>2, <1>5, <2>1 DEF InStart
    <3>2. InHeaders(b) /\ b < sent /\ b \in {0, First} => InHeaders(b)'
      <4> SUFFICES ASSUME InHeaders(b), b < sent, b \in {0, First} PROVE InHeaders(b)'
        OBVIOUS
      <4>1. Len(HeadAt(b)) \in Nat
        BY <1>3, HeadIs, Typed
      <4>2. PICK p \in 2 .. Len(HeadAt(b)) - 1 :
               /\ HeadAt(b)[p] = EOL
               /\ At(b + p)
               /\ FieldsUpto(fields, HeadAt(b), p)
               /\ body = <<>> /\ rbody = <<>>
        BY DEF InHeaders
      <4>3. b + p \in Nat
        BY <2>1, <4>1
      <4>4. At(b + p)'
        BY <1>5, <4>2, <4>3
      <4>5. FieldsUpto(fields', HeadAt(b)', p) /\ HeadAt(b)'[p] = EOL
        BY <1>2, <1>4, <4>2
      <4>6. QED
        BY <1>2, <1>4, <4>2, <4>4, <4>5 DEF InHeaders
    <3>3. InTheBody(b) /\ b < sent /\ b \in {0, First} => InTheBody(b)'
      <4> SUFFICES ASSUME InTheBody(b), b < sent, b \in {0, First} PROVE InTheBody(b)'
        OBVIOUS
      <4>1. Len(HeadAt(b)) \in Nat
        BY <1>3, HeadIs, Typed
      <4>2. ~Chunked
        BY <1>2 DEF InTheBody, InChunks
      <4>3. (Encoding' <=> Encoding) /\ (Chunked' <=> Chunked)
        BY <1>2 DEF Encoding, Chunked
      <4>4. InLength(b) => InLength(b)'
        <5> SUFFICES ASSUME InLength(b) PROVE InLength(b)'
          OBVIOUS
        <5>1. PICK l \in Nat : l = b + Len(HeadAt(b))
          BY <2>1, <4>1
        <5>3. At(l)'
          BY <1>5, <5>1 DEF InLength
        <5>2. BodyCuts' = {} => BodyCuts = {}
          BY <1>1, <1>2, <1>4 DEF BodyCuts
        <5>4. QED
          BY <1>2, <1>4, <5>1, <5>2, <5>3 DEF InLength
      <4>5. QED
        BY <1>2, <1>4, <4>2, <4>3, <4>4 DEF InTheBody
    <3>4. QED
      BY <1>1, <1>2, <1>3, <1>4, <1>7, <2>1, <3>1, <3>2, <3>3
         DEF Begun, Behind, PENDING_START_LINE, PENDING_HEADERS, PENDING_BODY, BAD_REQUEST,
             COMPLETE
  <2>3. b \in cuts' \cup {0}
    BY <1>1
  <2>4. QED
    BY <2>2, <2>3 DEF Received
<1>10. Answered'
  <2>1. n \notin cuts
    BY <1>3, Typed
  <2>2. Cardinality(cuts') = Cardinality(cuts) + 1
    BY <1>1, <2>1, Typed, FS_AddElement
  <2>3. Len(replies) \in Nat
    BY DEF IInv, Shapes
  <2>4. Patient /\ Counted /\ About
    BY DEF IInv, Answered
  <2>5. Patient'
    <3>1. working' \in Nat /\ write' \in BOOLEAN /\ sent' > 0
      BY <1>1, <1>2, <1>3, <2>4 DEF Patient
    <3>2. hasty' \in BOOLEAN
      BY <1>2, <2>4, Zenon DEF Patient
    <3>3. ~hasty' => ~hasty /\ r.state # COMPLETE
      BY <1>2
    <3>4. ~hasty' => ~ (working' > 0)
      BY <1>2, <2>4, <3>3 DEF Patient, Gone
    <3>5. QED
      BY <3>1, <3>2, <3>4 DEF Patient
  <2>6. Counted'
    BY <1>1, <1>2, <2>2, <2>3, <2>4, Typed DEF Counted, Patient
  <2>7. ASSUME NEW i \in 1 .. Len(replies), replies[i].ok \/ ~hasty'
        PROVE  For(i)'
    <3>1. For(i)
      BY <1>2, <2>4, <2>7 DEF About, Patient
    <3>2. PICK k \in cuts \cup {0} :
            /\ k < sent
            /\ k = 0 <=> i = 1
            /\ k # 0 => \E j \in 1 .. i - 1 : replies[j].at = k
            /\ replies[i].method = MethodAt(Tokens[k + 1])
            /\ replies[i].ok => Tokens[k + 1].kind = "start"
      BY <3>1 DEF For
    <3>3. k \in cuts' \cup {0} /\ k < sent'
      BY <1>1, <1>3, Typed
    <3>4. QED
      BY <1>2, <1>4, <3>2, <3>3 DEF For
  <2>8. About'
    BY <1>2, <2>7 DEF About
  <2>9. QED
    BY <2>5, <2>6, <2>8 DEF Answered
<1>11. WholeBodyIntact' /\ HungCause'
  <2>1. BodyCuts \subseteq BodyCuts' /\ cuts \subseteq cuts'
    BY <1>1, <1>2, <1>4 DEF BodyCuts
  <2>2. (Encoding' <=> Encoding) /\ (Chunked' <=> Chunked)
    BY <1>2 DEF Encoding, Chunked
  <2>3. WholeBodyIntact
    BY DEF IInv
  <2>4. QED
    BY <1>2, <2>1, <2>2, <2>3 DEF WholeBodyIntact, HungCause
<1>12. QED
  BY <1>6, <1>8, <1>9, <1>10, <1>11 DEF IInv

LEMMA NeedLineStep ==
  ASSUME IInv, NeedLine
  PROVE  IInv'
<1>1. /\ phase = "parse" /\ phase' = "recv"
      /\ r.state \in {PENDING_START_LINE, PENDING_HEADERS}
      /\ UNCHANGED <<req, sent, cuts, buffer, r, fields, body, rbody, replies>>
      /\ UNCHANGED workers
  BY Zenon DEF NeedLine, Wait
<1>2. Tokens' = Tokens /\ First' = First /\ \A b : HeadAt(b)' = HeadAt(b)
  BY <1>1, Steady
<1>3. /\ r.state # PENDING_BODY /\ r.state # COMPLETE /\ r.state # SPINNING
      /\ r.state # BAD_REQUEST
  BY <1>1 DEF PENDING_START_LINE, PENDING_HEADERS, PENDING_BODY, COMPLETE, SPINNING, BAD_REQUEST
<1>4. \A k \in Nat : At(k) => At(k)'
  BY <1>1, <1>2 DEF At
<1>5. Shapes'
  <2>1. PICK k \in 0 .. sent : At(k)
    BY DEF IInv, Shapes
  <2>2. \E m \in 0 .. sent' : At(m)'
    BY <1>1, <1>4, <2>1
  <2>3. QED
    BY <1>1, <1>2, <2>2, Typed DEF Shapes
<1>6. Phases' /\ ConnTold'
  BY <1>1, <1>3 DEF IInv, Phases, Gone, ConnTold
<1>7. Received'
  <2>1. PICK b \in cuts \cup {0} : Begun(b) /\ b \in Nat /\ b <= sent
    BY <1>1, Beginning DEF Gone
  <2>2. InStart(b) => InStart(b)'
    BY <1>1, <1>4, <2>1 DEF InStart
  <2>3. InHeaders(b) /\ b < sent /\ b \in {0, First} => InHeaders(b)'
    <3> SUFFICES ASSUME InHeaders(b), b < sent, b \in {0, First} PROVE InHeaders(b)'
      OBVIOUS
    <3>1. Len(HeadAt(b)) \in Nat
      BY HeadIs, Typed
    <3>2. PICK p \in 2 .. Len(HeadAt(b)) - 1 :
             /\ HeadAt(b)[p] = EOL
             /\ At(b + p)
             /\ FieldsUpto(fields, HeadAt(b), p)
             /\ body = <<>> /\ rbody = <<>>
      BY DEF InHeaders
    <3>3. b + p \in Nat
      BY <2>1, <3>1
    <3>4. At(b + p)'
      BY <1>4, <3>2, <3>3
    <3>5. FieldsUpto(fields', HeadAt(b)', p) /\ HeadAt(b)'[p] = EOL
      BY <1>1, <1>2, <3>2
    <3>6. QED
      BY <1>1, <1>2, <3>2, <3>4, <3>5 DEF InHeaders
  <2>4. Begun(b)'
    BY <1>1, <1>2, <1>3, <2>1, <2>2, <2>3 DEF Begun, Behind, PENDING_START_LINE, PENDING_HEADERS
  <2>5. QED
    BY <1>1, <2>4 DEF Received
<1>8. Answered'
  BY <1>1, AnsweredStays
<1>9. WholeBodyIntact' /\ HungCause'
  BY <1>1, <1>3 DEF WholeBodyIntact, HungCause
<1>10. QED
  BY <1>5, <1>6, <1>7, <1>8, <1>9 DEF IInv

\* A line is taken from the buffer, and with it at least one token.
LEMMA LineTaken ==
  ASSUME IInv, NEW k \in Nat, At(k), Eol(buffer) # 0
  PROVE  /\ Eol(buffer) \in Nat /\ Eol(buffer) >= 1 /\ k + Eol(buffer) <= sent
         /\ buffer[1] = Tokens[k + 1] /\ k + 1 \in 1 .. Len(Tokens)
         /\ buffer[1] = EOL => Eol(buffer) = 1
         /\ buffer[1] # EOL => Eol(buffer) >= 2
         /\ buffer[1] # EOL /\ Tokens[k + 2] = EOL => Eol(buffer) = 2
<1>1. /\ Len(buffer) = sent - k /\ k \in 0 .. sent
      /\ \A i \in 1 .. sent - k : buffer[i] = Tokens[k + i]
  BY BufferIs
<1>2. sent \in Nat /\ sent <= Len(Tokens) /\ Len(buffer) \in Nat
  BY Typed
<1>3. /\ Eol(buffer) \in 1 .. Len(buffer) /\ buffer[Eol(buffer)] = EOL
      /\ \A i \in 1 .. Len(buffer) : buffer[i] = EOL => Eol(buffer) <= i
  BY <1>2, EolIs
<1> DEFINE e == Eol(buffer)
<1> HIDE DEF e
<1>4. e \in 1 .. sent - k /\ buffer[e] = EOL
      /\ \A i \in 1 .. sent - k : buffer[i] = EOL => e <= i
  BY <1>1, <1>3 DEF e
<1>5. e \in Nat /\ e >= 1 /\ k + e <= sent /\ 1 \in 1 .. sent - k
  BY <1>1, <1>2, <1>4
<1>6. buffer[1] = Tokens[k + 1] /\ k + 1 \in 1 .. Len(Tokens)
  BY <1>1, <1>2, <1>5
<1>7. buffer[1] = EOL => e = 1
  BY <1>4, <1>5
<1>8. buffer[1] # EOL => e >= 2
  BY <1>4, <1>5
<1>9. ASSUME buffer[1] # EOL, Tokens[k + 2] = EOL
      PROVE  e = 2
  <2>1. 2 \in 1 .. sent - k
    BY <1>1, <1>2, <1>4, <1>8, <1>9
  <2>2. buffer[2] = EOL
    BY <1>1, <1>9, <2>1
  <2>3. QED
    BY <1>4, <1>8, <1>9, <2>1, <2>2
<1>10. QED
  BY <1>5, <1>6, <1>7, <1>8, <1>9 DEF e

LEMMA ParseStartLineStep ==
  ASSUME IInv, ParseStartLine
  PROVE  IInv'
<1> DEFINE line == IF buffer[1].kind = "start" THEN buffer[1] ELSE Start(None, FALSE)
<1>1. /\ phase = "parse" /\ phase' = "parse" /\ r.state = PENDING_START_LINE
      /\ Eol(buffer) # 0 /\ buffer' = Erase(buffer, Eol(buffer))
      /\ r' = [r EXCEPT !.state = IF line.ok THEN PENDING_HEADERS ELSE BAD_REQUEST,
                        !.method = MethodOf(line)]
      /\ UNCHANGED <<req, sent, cuts, fields, body, rbody, replies>>
      /\ UNCHANGED workers
  BY Zenon DEF ParseStartLine
<1>2. Tokens' = Tokens /\ First' = First /\ \A b : HeadAt(b)' = HeadAt(b)
  BY <1>1, Steady
<1>3. PICK b \in cuts \cup {0} : Begun(b) /\ b \in Nat /\ b <= sent
  BY <1>1, Beginning DEF Gone
<1>4. At(b) /\ r = Fresh /\ fields = NoFields /\ body = <<>> /\ rbody = <<>>
  BY <1>1, <1>3 DEF Begun, InStart
<1>5. /\ Eol(buffer) \in Nat /\ Eol(buffer) >= 1 /\ b + Eol(buffer) <= sent
      /\ buffer[1] = Tokens[b + 1] /\ b + 1 \in 1 .. Len(Tokens)
      /\ buffer[1] # EOL /\ Tokens[b + 2] = EOL => Eol(buffer) = 2
  BY <1>1, <1>3, <1>4, LineTaken
<1>6. sent \in Nat /\ b < sent /\ b < Len(Tokens)
  BY <1>3, <1>5, Typed
<1>7. MethodOf(line) = MethodAt(Tokens[b + 1])
  BY <1>5 DEF MethodOf, MethodAt, Start
<1>8. ASSUME Tokens[b + 1].kind = "start"
      PROVE  /\ b \in {0, First} /\ line = Tokens[b + 1]
             /\ line.method \in Method \cup {None} /\ line.ok \in BOOLEAN
             /\ Tokens[b + 2] = EOL /\ buffer[1] # EOL
             /\ IsHead(HeadAt(b)) /\ Len(HeadAt(b)) \in Nat /\ Len(HeadAt(b)) > 2
  <2>1. b + 1 = 1 \/ b + 1 = First + 1
    BY <1>5, <1>8, StartsAt, Typed
  <2>2. b \in {0, First}
    <3>1. First \in Nat
      BY StreamIs, Typed
    <3>2. QED
      BY <1>3, <2>1, <3>1
  <2>3. /\ IsHead(HeadAt(b)) /\ Len(HeadAt(b)) \in Nat /\ Len(HeadAt(b)) > 2
        /\ Tokens[b + 1] = HeadAt(b)[1] /\ Tokens[b + 2] = HeadAt(b)[2]
    <3>1. /\ IsHead(HeadAt(b)) /\ Len(HeadAt(b)) \in Nat /\ Len(HeadAt(b)) > 2
          /\ \A i \in 1 .. Len(HeadAt(b)) : Tokens[b + i] = HeadAt(b)[i]
      BY <1>6, <2>2, HeadIs, Typed
    <3>2. 1 \in 1 .. Len(HeadAt(b)) /\ 2 \in 1 .. Len(HeadAt(b))
      BY <3>1
    <3>3. QED
      BY <3>1, <3>2
  <2>4. line = Tokens[b + 1] /\ buffer[1] # EOL
    BY <1>5, <1>8 DEF EOL
  <2>5. QED
    BY <2>2, <2>3, <2>4, HeadHasStart
<1>9. MethodOf(line) \in Method \cup {None} /\ line.ok \in BOOLEAN
  BY <1>5, <1>8 DEF MethodOf, Start
<1>10. line.ok => Tokens[b + 1].kind = "start" /\ Tokens[b + 1].ok
  BY <1>5 DEF Start
<1> HIDE DEF line
<1>11. /\ r' \in [state : ParserState \cup {BAD_REQUEST, SPINNING},
                  method : Method \cup {None}, conn : ConnHeader \cup {"absent"}]
       /\ r'.state = IF line.ok THEN PENDING_HEADERS ELSE BAD_REQUEST
       /\ r'.method = MethodOf(line) /\ r'.conn = r.conn
  BY <1>1, <1>9, Typed DEF ParserState
<1>12. Shapes'
  <2>1. \E m \in 0 .. sent : At(m)'
    BY <1>1, <1>3, <1>4, <1>5, AtErased
  <2>2. QED
    BY <1>1, <1>2, <1>11, <2>1, Typed DEF Shapes
<1>13. Phases' /\ ConnTold'
  BY <1>1, <1>11
     DEF IInv, Phases, Gone, ConnTold, PENDING_START_LINE, PENDING_HEADERS, BAD_REQUEST, SPINNING
<1>14. Begun(b)'
  <2>1. CASE line.ok
    <3>1. /\ b \in {0, First} /\ Tokens[b + 2] = EOL /\ buffer[1] # EOL
          /\ IsHead(HeadAt(b)) /\ Len(HeadAt(b)) \in Nat /\ Len(HeadAt(b)) > 2
      BY <1>8, <1>10, <2>1
    <3>2. PICK l \in Nat : l = b + 2
      BY <1>3
    <3>3. At(l)'
      BY <1>1, <1>3, <1>4, <1>5, <3>1, <3>2, AtErased
    <3>4. FieldsUpto(NoFields, HeadAt(b), 2) /\ HeadAt(b)[2] = EOL
      BY <3>1, FieldsNone, HeadHasStart
    <3>5. FieldsUpto(fields', HeadAt(b)', 2) /\ HeadAt(b)'[2] = EOL
          /\ 2 \in 2 .. Len(HeadAt(b)') - 1 /\ body' = <<>> /\ rbody' = <<>>
      BY <1>1, <1>2, <1>4, <3>1, <3>4
    <3>6. InHeaders(b)'
      BY <3>2, <3>3, <3>5 DEF InHeaders
    <3>7. (b = 0 <=> replies = <<>>) /\ Behind(b)
      BY <1>3 DEF Begun
    <3>8. QED
      BY <1>1, <1>2, <1>6, <1>7, <1>10, <1>11, <2>1, <3>1, <3>6, <3>7
         DEF Begun, Behind, PENDING_START_LINE, PENDING_HEADERS, PENDING_BODY, BAD_REQUEST
  <2>2. CASE ~line.ok
    <3>1. (b = 0 <=> replies = <<>>) /\ Behind(b)
      BY <1>3 DEF Begun
    <3>2. QED
      BY <1>1, <1>2, <1>6, <1>7, <1>11, <2>2, <3>1
         DEF Begun, Behind, PENDING_START_LINE, PENDING_HEADERS, PENDING_BODY, BAD_REQUEST
  <2>3. QED
    BY <2>1, <2>2
<1>15. Received'
  BY <1>1, <1>14 DEF Received
<1>16. Answered'
  BY <1>1, AnsweredStays
<1>17. WholeBodyIntact' /\ HungCause'
  BY <1>1, <1>11 DEF WholeBodyIntact, HungCause, PENDING_HEADERS, BAD_REQUEST, COMPLETE
<1>18. QED
  BY <1>12, <1>13, <1>15, <1>16, <1>17 DEF IInv

\* The header as a whole: of each field the first one counts.
LEMMA FieldsWhole ==
  ASSUME NEW f, NEW h, NEW n \in Nat, n = Len(h), FieldsUpto(f, h, n)
  PROVE  /\ \A x : x \in DOMAIN f <=> Named(h, x) # {}
         /\ \A x \in DOMAIN f : \E i \in 1 .. Len(h) : IsFirst(h, x, i) /\ f[x] = h[i].value
<1>1. DOMAIN f = {h[i].name : i \in {j \in 1 .. n : h[j].kind = "field"}}
  BY DEF FieldsUpto
<1>2. ASSUME NEW x
      PROVE  x \in DOMAIN f <=> Named(h, x) # {}
  BY <1>1 DEF Named
<1>3. ASSUME NEW x \in DOMAIN f
      PROVE  \E i \in 1 .. Len(h) : IsFirst(h, x, i) /\ f[x] = h[i].value
  <2>1. PICK i \in 1 .. n : /\ h[i].kind = "field" /\ h[i].name = x /\ f[x] = h[i].value
                            /\ \A j \in 1 .. n : h[j].kind = "field" /\ h[j].name = x => i <= j
    BY DEF FieldsUpto
  <2>2. QED
    BY <2>1 DEF IsFirst, Named
<1>4. QED
  BY <1>2, <1>3

\* What the field lines of a head may be.
LEMMA LineIs ==
  ASSUME NEW h, IsHead(h), NEW p \in 2 .. Len(h) - 1, h[p] = EOL
  PROVE  \/ p + 1 = Len(h) /\ h[p + 1] = EOL
         \/ p + 2 < Len(h) /\ h[p + 1].kind = "field" /\ h[p + 1] # EOL /\ h[p + 2] = EOL
<1> DEFINE n == Len(h)
<1>1. n \in Nat /\ n > 2
  BY HeadHasStart
<1>2. \A i \in 3 .. n :
        h[i - 1] = EOL => \/ (i = n /\ h[i] = EOL)
                          \/ (i + 1 < n /\ h[i].kind = "field" /\ h[i + 1] = EOL)
  BY DEF IsHead
<1> HIDE DEF n
<1>3. PICK i \in 3 .. n : i = p + 1 /\ i - 1 = p /\ i + 1 = p + 2
  BY <1>1 DEF n
<1>4. \/ (i = n /\ h[i] = EOL)
      \/ (i + 1 < n /\ h[i].kind = "field" /\ h[i + 1] = EOL)
  BY <1>2, <1>3
<1>5. h[i].kind = "field" => h[i] # EOL
  BY DEF EOL
<1>6. QED
  BY <1>3, <1>4, <1>5 DEF n

\* The first chunk begins with the body.
LEMMA FirstChunk ==
  ASSUME req \in Streams, NEW i \in 1 .. Len(TheHead),
         IsFirst(TheHead, "transfer-encoding", i), TheHead[i].value = "chunked"
  PROVE  \E before \in Chunking(TheBody, TheContent) : 1 \in DOMAIN before /\ before[1] = 0
<1>1. Chunking(TheBody, TheContent) # {}
  BY StreamsAssumption DEF TheHead, TheBody, TheContent
<1>2. \A before \in Chunking(TheBody, TheContent) : 1 \in DOMAIN before /\ before[1] = 0
  BY Zenon DEF Chunking
<1>3. QED
  BY <1>1, <1>2

LEMMA ParseFieldLineStep ==
  ASSUME IInv, ParseFieldLine
  PROVE  IInv'
<1> DEFINE line == buffer[1]
<1>1. /\ phase = "parse" /\ phase' = "parse" /\ r.state = PENDING_HEADERS
      /\ Eol(buffer) # 0 /\ buffer' = Erase(buffer, Eol(buffer))
      /\ line = EOL => r' = [r EXCEPT !.state = PENDING_BODY] /\ fields' = fields
      /\ line # EOL =>
           /\ fields' = Insert(fields, line.name, line.value)
           /\ r' = [r EXCEPT !.conn = IF "connection" \in DOMAIN fields'
                                      THEN fields'["connection"] ELSE "absent"]
      /\ UNCHANGED <<req, sent, cuts, body, rbody, phase, replies>>
      /\ UNCHANGED workers
  BY Zenon DEF ParseFieldLine
<1>2. /\ Tokens' = Tokens /\ First' = First /\ \A b : HeadAt(b)' = HeadAt(b)
      /\ TheHead' = TheHead /\ TheBody' = TheBody /\ TheContent' = TheContent
  BY <1>1, Steady
<1>3. PICK b \in cuts \cup {0} : Begun(b) /\ b \in Nat /\ b <= sent
  BY <1>1, Beginning DEF Gone
<1>4. /\ b < sent /\ r.method = MethodAt(Tokens[b + 1])
      /\ Tokens[b + 1].kind = "start" /\ Tokens[b + 1].ok /\ b \in {0, First}
      /\ InHeaders(b) /\ (b = 0 <=> replies = <<>>) /\ Behind(b)
  BY <1>1, <1>3 DEF Begun, PENDING_START_LINE, PENDING_HEADERS, BAD_REQUEST
<1> DEFINE h == HeadAt(b)
<1>5. /\ sent \in Nat /\ sent <= Len(Tokens) /\ b < Len(Tokens)
      /\ IsHead(h) /\ Len(h) \in Nat /\ Len(h) > 2
      /\ \A i \in 1 .. Len(h) : Tokens[b + i] = h[i]
  <2>1. sent \in Nat /\ sent <= Len(Tokens) /\ b < Len(Tokens)
    BY <1>3, <1>4, Typed
  <2>2. QED
    BY <1>4, <2>1, HeadIs, Typed
<1>6. h' = h
  BY <1>2
<1> HIDE DEF h
<1>7. PICK p \in 2 .. Len(h) - 1 : /\ h[p] = EOL /\ At(b + p) /\ FieldsUpto(fields, h, p)
                                   /\ body = <<>> /\ rbody = <<>>
  BY <1>4 DEF InHeaders, h
<1>8. PICK k \in Nat : k = b + p
  BY <1>3, <1>5, <1>7
<1>9. /\ Eol(buffer) \in Nat /\ k + Eol(buffer) <= sent /\ buffer[1] = Tokens[k + 1]
      /\ buffer[1] = EOL => Eol(buffer) = 1
      /\ buffer[1] # EOL /\ Tokens[k + 2] = EOL => Eol(buffer) = 2
  BY <1>1, <1>7, <1>8, LineTaken
<1>10. line = h[p + 1] /\ p \in Nat
  <2>1. p + 1 \in 1 .. Len(h) /\ k + 1 = b + (p + 1)
    BY <1>3, <1>5, <1>7, <1>8
  <2>2. QED
    BY <1>5, <1>7, <1>9, <2>1
<1>11. \A m \in Nat : k + Eol(buffer) = m => At(m)'
  BY <1>1, <1>7, <1>8, <1>9, AtErased
<1>12. \E m \in 0 .. sent : At(m)'
  BY <1>1, <1>7, <1>8, <1>9, AtErased
<1>13. CASE line = EOL
  <2>1. p + 1 = Len(h) /\ h[p + 1] = EOL
    BY <1>5, <1>7, <1>10, <1>13, LineIs
  <2>2. /\ r' = [r EXCEPT !.state = PENDING_BODY] /\ fields' = fields
        /\ r'.state = PENDING_BODY /\ r'.method = r.method /\ r'.conn = r.conn
    BY <1>1, <1>13, Typed
  <2>3. PICK l \in Nat : l = b + Len(h) /\ k + 1 = l
    <3>1. b \in Nat /\ Len(h) \in Nat /\ p \in Nat
      BY <1>3, <1>5, <1>10
    <3>2. b + Len(h) = k + 1
      BY <1>8, <2>1, <3>1
    <3>3. b + Len(h) \in Nat
      BY <3>1
    <3>4. QED
      BY <3>2, <3>3
  <2>4. At(l)'
    BY <1>9, <1>11, <1>13, <2>3
  <2>5. FieldsUpto(fields, h, Len(h))
    BY <1>7, <1>10, <2>1, FieldsStay
  <2> DEFINE te == "transfer-encoding"
  <2>6. te \in DOMAIN fields => b = 0
    <3>1. CASE b # 0
      <4>1. h = TheNext /\ TheNext # <<>>
        BY <1>4, <1>5, <3>1, StreamIs, Typed DEF h, HeadAt
      <4>2. Named(h, te) = {}
        BY <4>1, StreamsAssumption, Typed DEF TheNext
      <4>3. QED
        BY <1>5, <2>5, <4>2, FieldsWhole
    <3>2. QED
      BY <3>1
  <2>7. ASSUME te \in DOMAIN fields, fields[te] = "chunked"
        PROVE  InChunks'
    <3>1. b = 0 /\ h = TheHead
      BY <2>6, <2>7 DEF h, HeadAt
    <3>2. PICK i \in 1 .. Len(h) : IsFirst(h, te, i) /\ fields[te] = h[i].value
      BY <1>5, <2>5, <2>7, FieldsWhole
    <3>3. PICK before \in Chunking(TheBody, TheContent) : 1 \in DOMAIN before /\ before[1] = 0
      BY <2>7, <3>1, <3>2, FirstChunk, Typed
    <3>4. SubSeq(Bytes(TheContent), 1, before[1]) = <<>>
      BY <3>3, SubSeqEmpty
    <3>5. Len(TheHead) + 1 - 1 = l
      BY <1>5, <2>3, <3>1
    <3>6. PICK q \in DOMAIN before : q = 1
      BY <3>3
    <3>7. rbody' = SubSeq(Bytes(TheContent'), 1, before[q])
      BY <1>1, <1>2, <1>7, <3>4, <3>6
    <3>8. Len(TheHead') + q - 1 = l
      BY <1>2, <3>5, <3>6
    <3>9. before \in Chunking(TheBody', TheContent')
      BY <1>2, <3>3
    <3>10. replies' = <<>> /\ phase' # "recv"
      BY <1>1, <1>4, <3>1
    <3>11. QED
      BY <2>4, <3>6, <3>7, <3>8, <3>9, <3>10 DEF InChunks
  <2>8. InLength(b)'
    BY <1>1, <1>2, <1>6, <1>7, <2>3, <2>4 DEF InLength, h
  <2>9. InTheBody(b)'
    BY <1>2, <1>6, <2>2, <2>5, <2>6, <2>7, <2>8 DEF InTheBody, Encoding, Chunked, h
  <2>10. Begun(b)'
    BY <1>1, <1>2, <1>4, <2>2, <2>9
       DEF Begun, Behind, PENDING_START_LINE, PENDING_HEADERS, PENDING_BODY, BAD_REQUEST
  <2>11. Received'
    BY <1>1, <2>10 DEF Received
  <2>12. Shapes'
    <3>1. r' \in [state : ParserState \cup {BAD_REQUEST, SPINNING},
                  method : Method \cup {None}, conn : ConnHeader \cup {"absent"}]
      BY <2>2, Typed DEF ParserState
    <3>2. QED
      BY <1>1, <1>2, <1>12, <3>1, Typed DEF Shapes
  <2>13. Phases' /\ ConnTold'
    BY <1>1, <2>2 DEF IInv, Phases, Gone, ConnTold, PENDING_BODY, SPINNING
  <2>14. WholeBodyIntact' /\ HungCause'
    BY <1>1, <2>2 DEF WholeBodyIntact, HungCause, PENDING_BODY, COMPLETE
  <2>15. QED
    BY <1>1, <2>11, <2>12, <2>13, <2>14, AnsweredStays DEF IInv
<1>14. CASE line # EOL
  <2>1. p + 2 < Len(h) /\ h[p + 1].kind = "field" /\ h[p + 2] = EOL
    BY <1>5, <1>7, <1>10, <1>14, LineIs
  <2>2. Tokens[k + 2] = EOL
    <3>1. p + 2 \in 1 .. Len(h)
      BY <1>5, <1>10, <2>1
    <3>2. k + 2 = b + (p + 2)
      BY <1>3, <1>8, <1>10
    <3>3. QED
      BY <1>5, <2>1, <3>1, <3>2
  <2>3. PICK q \in 2 .. Len(h) - 1 : q = p + 2
    BY <1>5, <1>10, <2>1
  <2>4. PICK l \in Nat : l = b + q /\ k + 2 = l
    BY <1>3, <1>8, <1>10, <2>3
  <2>5. At(l)'
    BY <1>9, <1>11, <1>14, <2>2, <2>4
  <2>6. FieldsUpto(fields', h, q)
    <3>1. PICK o \in Nat : o = p + 1 /\ o + 1 = q /\ h[o + 1] = EOL
      BY <1>10, <2>1, <2>3
    <3>2. FieldsUpto(fields', h, o)
      BY <1>1, <1>7, <1>10, <1>14, <2>1, <3>1, FieldsGrow
    <3>3. QED
      BY <3>1, <3>2, FieldsStay
  <2>7. /\ r' = [r EXCEPT !.conn = IF "connection" \in DOMAIN fields'
                                   THEN fields'["connection"] ELSE "absent"]
        /\ r'.state = PENDING_HEADERS /\ r'.method = r.method
        /\ r'.conn = IF "connection" \in DOMAIN fields' THEN fields'["connection"] ELSE "absent"
    BY <1>1, <1>14, Typed
  <2>8. "connection" \in DOMAIN fields' => fields'["connection"] \in ConnHeader
    <3> DEFINE f == fields'
               c == "connection"
    <3> HIDE DEF f
    <3> SUFFICES ASSUME c \in DOMAIN f PROVE f[c] \in ConnHeader
      BY DEF f
    <3>1. PICK i \in 1 .. q : h[i].kind = "field" /\ h[i].name = c /\ f[c] = h[i].value
      BY <2>6 DEF FieldsUpto, f
    <3>2. i \in 1 .. Len(h)
      BY <1>5, <2>3
    <3>3. i \in Named(h, c)
      BY <3>1, <3>2 DEF Named
    <3>4. QED
      BY <1>5, <3>1, <3>3 DEF IsHead
  <2>9. InHeaders(b)'
    <3>1. FieldsUpto(fields', HeadAt(b)', q) /\ HeadAt(b)'[q] = EOL
      BY <1>6, <2>1, <2>3, <2>6 DEF h
    <3>2. q \in 2 .. Len(HeadAt(b)') - 1 /\ body' = <<>> /\ rbody' = <<>>
      BY <1>1, <1>6, <1>7, <2>3 DEF h
    <3>3. QED
      BY <2>4, <2>5, <3>1, <3>2 DEF InHeaders
  <2>10. Begun(b)'
    BY <1>1, <1>2, <1>4, <2>7, <2>9
       DEF Begun, Behind, PENDING_START_LINE, PENDING_HEADERS, PENDING_BODY, BAD_REQUEST
  <2>11. Received'
    BY <1>1, <2>10 DEF Received
  <2>12. Shapes'
    <3>1. r' \in [state : ParserState \cup {BAD_REQUEST, SPINNING},
                  method : Method \cup {None}, conn : ConnHeader \cup {"absent"}]
      BY <2>7, <2>8, Typed
    <3>2. QED
      BY <1>1, <1>2, <1>12, <3>1, Typed DEF Shapes
  <2>13. Phases' /\ ConnTold'
    BY <1>1, <2>7 DEF IInv, Phases, Gone, ConnTold, PENDING_HEADERS, SPINNING
  <2>14. WholeBodyIntact' /\ HungCause'
    BY <1>1, <2>7 DEF WholeBodyIntact, HungCause, PENDING_HEADERS, COMPLETE
  <2>15. QED
    BY <1>1, <2>11, <2>12, <2>13, <2>14, AnsweredStays DEF IInv
<1>15. QED
  BY <1>13, <1>14

-----------------------------------------------------------------------------
(* The body                                                                  *)

\* The content as tokens.
LEMMA BytesAre ==
  ASSUME req \in Streams
  PROVE  /\ Len(TheContent) \in Nat /\ Len(Bytes(TheContent)) = Len(TheContent)
         /\ Bytes(TheContent) \in Seq(Elements(Bytes(TheContent)))
         /\ \A i \in 1 .. Len(TheContent) : Bytes(TheContent)[i] = Byte(TheContent[i])
<1> DEFINE n == Len(TheContent)
           t == Bytes(TheContent)
           E == Elements(t)
<1>1. n \in Nat
  BY StreamsAssumption DEF TheContent, IsSeq
<1>2. t = [i \in 1 .. n |-> Byte(TheContent[i])]
  BY DEF Bytes
<1> HIDE DEF n, t
<1>3. Len(t) = n
  BY <1>1, <1>2, LenProperties
<1>4. \A i \in 1 .. n : t[i] \in E
  BY <1>3 DEF Elements
<1> HIDE DEF E
<1>5. t \in [1 .. n -> E]
  BY <1>2, <1>4
<1>6. t \in Seq(E)
  BY <1>1, <1>5
<1>7. \A i \in 1 .. n : t[i] = Byte(TheContent[i])
  BY <1>2
<1>8. QED
  BY <1>1, <1>3, <1>6, <1>7 DEF n, t, E

\* A chunk, where it stands in the body, and the next one.
LEMMA ChunkIs ==
  ASSUME req \in Streams, NEW before \in Chunking(TheBody, TheContent),
         NEW p \in DOMAIN before
  PROVE  /\ p \in Nat /\ p >= 1 /\ TheBody[p].kind = "size" /\ TheBody[p].n \in Nat
         /\ p + TheBody[p].n + 2 <= Len(TheBody)
         /\ TheBody[p + 1] = EOL
         /\ before[p] \in Nat /\ before[p] + TheBody[p].n <= Len(TheContent)
         /\ \A i \in 1 .. TheBody[p].n : TheBody[p + 1 + i] = Byte(TheContent[before[p] + i])
         /\ TheBody[p].n = 0 => before[p] = Len(TheContent)
         /\ TheBody[p].n # 0 => /\ p + TheBody[p].n + 3 \in DOMAIN before
                                /\ before[p + TheBody[p].n + 3] = before[p] + TheBody[p].n
<1> DEFINE n == TheBody[p].n
<1>1. /\ before \in [{i \in 1 .. Len(TheBody) : TheBody[i].kind = "size"} -> 0 .. Len(TheContent)]
      /\ n \in Nat
      /\ p + n + 2 <= Len(TheBody)
      /\ TheBody[p + 1] = EOL
      /\ before[p] + n <= Len(TheContent)
      /\ \A i \in 1 .. n : TheBody[p + 1 + i] = Byte(TheContent[before[p] + i])
      /\ IF n = 0 THEN p + 2 = Len(TheBody) /\ before[p] = Len(TheContent)
         ELSE p + n + 3 \in DOMAIN before /\ before[p + n + 3] = before[p] + n
  BY Zenon DEF Chunking
<1>2. p \in 1 .. Len(TheBody) /\ TheBody[p].kind = "size" /\ before[p] \in 0 .. Len(TheContent)
  BY <1>1
<1>3. Len(TheBody) \in Nat /\ Len(TheContent) \in Nat
  BY StreamIs, BytesAre
<1>4. p \in Nat /\ p >= 1 /\ before[p] \in Nat
  BY <1>2, <1>3
<1>5. QED
  BY <1>1, <1>2, <1>4

\* The request whose body is being received.
LEMMA BodyOfRequest ==
  ASSUME IInv, InBody
  PROVE  \E b \in cuts \cup {0} :
           /\ b \in Nat /\ b < sent /\ r.method = MethodAt(Tokens[b + 1])
           /\ Tokens[b + 1].kind = "start" /\ Tokens[b + 1].ok /\ b \in {0, First}
           /\ InTheBody(b) /\ (b = 0 <=> replies = <<>>) /\ Behind(b)
<1>1. PICK b \in cuts \cup {0} : Begun(b) /\ b \in Nat /\ b <= sent
  BY Beginning DEF Gone, InBody
<1>2. r.state = PENDING_BODY
  BY DEF InBody
<1>3. QED
  BY <1>1, <1>2 DEF Begun, PENDING_START_LINE, PENDING_BODY, BAD_REQUEST

\* What a call of parse_body() leaves to prove.
LEMMA BodyStep ==
  ASSUME IInv, InBody, NEW state \in {COMPLETE, BAD_REQUEST, SPINNING}, Become(state),
         UNCHANGED <<req, sent, cuts, fields, replies>>, UNCHANGED workers,
         \E k \in 0 .. sent : At(k)',
         IF state = SPINNING THEN phase' = "hung" ELSE phase' = "parse"
  PROVE  /\ Shapes' /\ Phases' /\ ConnTold' /\ Received' /\ Answered'
         /\ state # COMPLETE => WholeBodyIntact'
         /\ state # SPINNING => HungCause'
<1>1. /\ Tokens' = Tokens /\ First' = First /\ sent' = sent /\ cuts' = cuts
      /\ replies' = replies /\ fields' = fields /\ req' = req
  BY Steady
<1>2. PICK b \in cuts \cup {0} :
        /\ b \in Nat /\ b < sent /\ r.method = MethodAt(Tokens[b + 1])
        /\ Tokens[b + 1].kind = "start" /\ Tokens[b + 1].ok /\ b \in {0, First}
        /\ InTheBody(b) /\ (b = 0 <=> replies = <<>>) /\ Behind(b)
  BY BodyOfRequest
<1>3. phase = "parse"
  BY DEF InBody
<1>4. r' = [r EXCEPT !.state = state] /\ r'.state = state /\ r'.method = r.method /\ r'.conn = r.conn
  BY Typed DEF Become
<1>5. /\ r' \in [state : ParserState \cup {BAD_REQUEST, SPINNING},
                 method : Method \cup {None}, conn : ConnHeader \cup {"absent"}]
  BY <1>4, Typed DEF ParserState
<1>6. Shapes'
  <2>1. phase' \in {"recv", "parse", "closed", "hung", "cleared"}
    OBVIOUS
  <2>2. QED
    BY <1>1, <1>5, <2>1, Typed DEF Shapes
<1>7. Phases'
  BY <1>3, <1>4 DEF Phases, Gone, COMPLETE, BAD_REQUEST, SPINNING, PENDING_START_LINE
<1>8. ConnTold'
  BY <1>1, <1>4 DEF IInv, ConnTold
<1>9. Begun(b)'
  BY <1>1, <1>2, <1>4
     DEF Begun, Behind, COMPLETE, BAD_REQUEST, SPINNING, PENDING_START_LINE, PENDING_HEADERS, PENDING_BODY
<1>10. Received'
  BY <1>1, <1>9 DEF Received
<1>11. Answered'
  BY <1>1, <1>3, AnsweredStays
<1>12. state # COMPLETE => WholeBodyIntact'
  BY <1>4 DEF WholeBodyIntact
<1>13. state # SPINNING => HungCause'
  BY DEF HungCause
<1>14. QED
  BY <1>6, <1>7, <1>8, <1>10, <1>11, <1>12, <1>13

\* The chunk at the beginning of the buffer.
LEMMA ChunkAt ==
  ASSUME IInv, InBody, Chunked, buffer # <<>> \/ Whole
  PROVE  \E before \in Chunking(TheBody, TheContent) :
           \E p, n, k \in Nat :
             /\ p \in DOMAIN before /\ n = TheBody[p].n
             /\ k + 1 = Len(TheHead) + p /\ At(k)
             /\ Tokens[k + 1] = TheBody[p] /\ Tokens[k + 2] = EOL
             /\ k + n + 3 <= First
             /\ \A i \in 1 .. n : Tokens[k + 2 + i] = TheBody[p + 1 + i]
             /\ Whole => rbody = SubSeq(Bytes(TheContent), 1, before[p])
<1>1. InChunks
  BY BodyOfRequest DEF InTheBody
<1>2. PICK before \in Chunking(TheBody, TheContent) :
        \E p \in DOMAIN before :
          /\ At(Len(TheHead) + p - 1)
          /\ Whole => rbody = SubSeq(Bytes(TheContent), 1, before[p])
  BY <1>1 DEF InChunks
<1>3. PICK p \in Nat :
          /\ p \in DOMAIN before
          /\ At(Len(TheHead) + p - 1)
          /\ Whole => rbody = SubSeq(Bytes(TheContent), 1, before[p])
  BY <1>2, ChunkIs, Typed
<1>4. PICK n \in Nat : n = TheBody[p].n
  BY <1>3, ChunkIs, Typed
<1>5. p >= 1 /\ p + n + 2 <= Len(TheBody) /\ TheBody[p + 1] = EOL
  BY <1>3, <1>4, ChunkIs, Typed
<1>6. PICK h, d \in Nat : h = Len(TheHead) /\ d = Len(TheBody)
  BY StreamIs, Typed
<1>7. First = h + d /\ \A i \in 1 .. d : Tokens[h + i] = TheBody[i]
  BY <1>6, StreamIs, Typed
<1>8. PICK k \in Nat : k = h + p - 1
  BY <1>5
<1>9. Tokens[k + 1] = TheBody[p]
  <2>1. p \in 1 .. d /\ k + 1 = h + p
    BY <1>5, <1>6, <1>8
  <2>2. QED
    BY <1>7, <2>1
<1>10. Tokens[k + 2] = EOL
  <2>1. p + 1 \in 1 .. d /\ k + 2 = h + (p + 1)
    BY <1>5, <1>6, <1>8
  <2>2. QED
    BY <1>5, <1>7, <2>1
<1>11. ASSUME NEW i \in 1 .. n
       PROVE  Tokens[k + 2 + i] = TheBody[p + 1 + i]
  <2>1. p + 1 + i \in 1 .. d /\ k + 2 + i = h + (p + 1 + i)
    BY <1>5, <1>6, <1>8
  <2>2. QED
    BY <1>7, <2>1
<1>12. k + n + 3 <= First /\ k + 1 = Len(TheHead) + p
  BY <1>5, <1>6, <1>7, <1>8
<1>13. At(k)
  BY <1>3, <1>6, <1>8
<1>14. QED
  BY <1>3, <1>4, <1>9, <1>10, <1>11, <1>12, <1>13

LEMMA SpinStep ==
  ASSUME IInv, Spin
  PROVE  IInv'
<1>1. /\ InBody /\ Encoding /\ phase' = "hung" /\ Become(SPINNING)
      /\ Chunked => buffer # <<>> /\ Eol(buffer) = 0
      /\ UNCHANGED <<req, sent, cuts, buffer, fields, body, rbody, replies>>
      /\ UNCHANGED workers
  BY Zenon DEF Spin, Chunked
<1>2. Tokens' = Tokens
  BY <1>1, Steady
<1>3. \E k \in 0 .. sent : At(k)'
  <2>1. PICK k \in 0 .. sent : At(k)
    BY DEF IInv, Shapes
  <2>2. At(k)'
    BY <1>1, <1>2, <2>1 DEF At
  <2>3. QED
    BY <2>2
<1>4. /\ Shapes' /\ Phases' /\ ConnTold' /\ Received' /\ Answered' /\ WholeBodyIntact'
  <2>1. SPINNING \in {COMPLETE, BAD_REQUEST, SPINNING} /\ SPINNING # COMPLETE
    BY DEF SPINNING, COMPLETE
  <2>2. QED
    BY <1>1, <1>3, <2>1, BodyStep
<1>5. ASSUME Chunked
      PROVE  \E n \in cuts : Tokens[n].kind = "size"
  <2>1. buffer # <<>> /\ Eol(buffer) = 0
    BY <1>1, <1>5
  <2>2. PICK before \in Chunking(TheBody, TheContent) :
          \E p, n, k \in Nat : /\ p \in DOMAIN before /\ At(k)
                              /\ Tokens[k + 1] = TheBody[p] /\ Tokens[k + 2] = EOL
    BY <1>1, <1>5, <2>1, ChunkAt
  <2>3. PICK p, k \in Nat : /\ p \in DOMAIN before /\ At(k)
                            /\ Tokens[k + 1] = TheBody[p] /\ Tokens[k + 2] = EOL
    BY <2>2
  <2>4. /\ k \in 0 .. sent /\ Len(buffer) = sent - k
        /\ \A i \in 1 .. sent - k : buffer[i] = Tokens[k + i]
        /\ k = sent => buffer = <<>>
    BY <2>3, BufferIs
  <2>5. Len(buffer) \in Nat /\ sent \in Nat /\ (sent > 0 => sent \in cuts)
    BY Typed
  <2>6. \A i \in 1 .. sent - k : buffer[i] # EOL
    <3>1. \A i \in 1 .. Len(buffer) : buffer[i] # EOL
      BY <2>1, <2>5, EolIs
    <3>2. QED
      BY <2>4, <3>1
  <2>7. ~ (2 \in 1 .. sent - k)
    BY <2>3, <2>4, <2>6
  <2>8. sent = k + 1 /\ sent \in cuts
    BY <2>1, <2>4, <2>5, <2>7
  <2>9. Tokens[sent].kind = "size"
    BY <2>3, <2>8, ChunkIs, Typed
  <2>10. QED
    BY <2>8, <2>9
<1>6. HungCause'
  BY <1>1, <1>2, <1>5 DEF HungCause, Encoding, Chunked
<1>7. QED
  BY <1>4, <1>6 DEF IInv

LEMMA NoBodyStep ==
  ASSUME IInv, NoBody
  PROVE  IInv'
<1>1. /\ InBody /\ phase = "parse" /\ phase' = "parse" /\ Become(COMPLETE)
      /\ ~Encoding /\ "content-length" \notin DOMAIN fields
      /\ UNCHANGED <<req, sent, cuts, buffer, fields, body, rbody, replies>>
      /\ UNCHANGED workers
  BY Zenon DEF NoBody, InBody
<1>2. Tokens' = Tokens
  BY <1>1, Steady
<1>3. \E k \in 0 .. sent : At(k)'
  <2>1. PICK k \in 0 .. sent : At(k)
    BY DEF IInv, Shapes
  <2>2. At(k)'
    BY <1>1, <1>2, <2>1 DEF At
  <2>3. QED
    BY <2>2
<1>4. /\ Shapes' /\ Phases' /\ ConnTold' /\ Received' /\ Answered' /\ HungCause'
  <2>1. COMPLETE \in {COMPLETE, BAD_REQUEST, SPINNING} /\ SPINNING # COMPLETE
    BY DEF SPINNING, COMPLETE
  <2>2. QED
    BY <1>1, <1>3, <2>1, BodyStep
<1>5. WholeBodyIntact'
  BY <1>1 DEF WholeBodyIntact, Encoding, Chunked
<1>6. QED
  BY <1>4, <1>5 DEF IInv

\* What an answer leaves to prove: it is for the request that was there, if one
\* was.
LEMMA AnswerStep ==
  ASSUME IInv, NEW closes \in BOOLEAN, Answer(closes), phase \notin Gone, phase # "hung",
         sent > 0, r.state # PENDING_START_LINE \/ hasty
  PROVE  /\ Shapes' /\ Phases' /\ ConnTold' /\ Received' /\ About'
         /\ WholeBodyIntact' /\ HungCause'
         /\ phase' # "parse" /\ r'.state = PENDING_START_LINE
         /\ sent' = sent /\ cuts' = cuts /\ hasty' = hasty
         /\ Len(replies') = Len(replies) + 1
<1> DEFINE reply == [method |-> r.method, ok |-> r.state = COMPLETE, at |-> sent]
<1>1. /\ replies' = Append(replies, reply)
      /\ phase' = IF closes \/ r.conn = "close" THEN "closed" ELSE "recv"
      /\ buffer' = <<>> /\ r' = Fresh /\ fields' = NoFields /\ body' = <<>> /\ rbody' = <<>>
      /\ UNCHANGED <<req, sent, cuts, hasty>>
  BY Zenon DEF Answer, ClearRequest, Rest
<1>2. Tokens' = Tokens /\ sent' = sent /\ cuts' = cuts /\ hasty' = hasty
  BY <1>1, Steady
<1>3. PICK b \in cuts \cup {0} : Begun(b) /\ b \in Nat /\ b <= sent
  BY Beginning
<1>4. ASSUME r.state # PENDING_START_LINE
      PROVE  /\ b < sent /\ r.method = MethodAt(Tokens[b + 1]) /\ (b = 0 <=> replies = <<>>)
             /\ r.state = COMPLETE => Tokens[b + 1].kind = "start"
             /\ Behind(b)
  BY <1>3, <1>4 DEF Begun, COMPLETE, BAD_REQUEST, PENDING_START_LINE
<1>5. sent \in Nat /\ sent > 0 /\ sent \in cuts
  BY Typed
<1>6. reply \in Answers /\ reply.method = r.method /\ (reply.ok <=> r.state = COMPLETE)
      /\ reply.at = sent
  BY <1>5, Typed DEF Answers
<1> HIDE DEF reply
<1>7. replies \in Seq(Answers) /\ Len(replies) \in Nat
  BY Typed
<1>8. /\ replies' \in Seq(Answers) /\ replies' # <<>> /\ Len(replies') = Len(replies) + 1
      /\ \A i \in 1 .. Len(replies) : replies'[i] = replies[i]
      /\ replies'[Len(replies) + 1] = reply
  BY <1>1, <1>6, <1>7, AppendProperties
<1>9. At(sent)'
  <2>1. SubSeq(Tokens, sent + 1, sent) = <<>>
    BY <1>5, SubSeqEmpty
  <2>2. QED
    BY <1>1, <1>2, <1>5, <2>1 DEF At
<1>10. Shapes'
  <2>1. Fresh \in [state : ParserState \cup {BAD_REQUEST, SPINNING},
                   method : Method \cup {None}, conn : ConnHeader \cup {"absent"}]
    BY DEF Fresh, ParserState
  <2>2. \E k \in 0 .. sent' : At(k)'
    BY <1>2, <1>5, <1>9
  <2>3. phase' \in {"recv", "parse", "closed", "hung", "cleared"}
    BY <1>1
  <2>4. QED
    BY <1>1, <1>2, <1>8, <2>1, <2>2, <2>3, Typed DEF Shapes
<1>11. r'.state = PENDING_START_LINE /\ r'.conn = "absent"
  BY <1>1 DEF Fresh
<1>12. Phases' /\ ConnTold'
  BY <1>1, <1>11 DEF Phases, ConnTold, NoFields, PENDING_START_LINE, SPINNING
<1>13. InStart(sent)'
  BY <1>1, <1>9 DEF InStart
<1>14. Behind(sent)'
  <2>1. Len(replies) + 1 \in 1 .. Len(replies')
    BY <1>7, <1>8
  <2>2. replies'[Len(replies) + 1].at = sent
    BY <1>6, <1>8
  <2>3. QED
    BY <1>2, <2>1, <2>2 DEF Behind
<1>15. Begun(sent)'
  BY <1>2, <1>5, <1>8, <1>11, <1>13, <1>14
     DEF Begun, PENDING_START_LINE, PENDING_HEADERS, PENDING_BODY, BAD_REQUEST
<1>16. Received'
  BY <1>2, <1>5, <1>15 DEF Received
<1>17. ASSUME NEW i \in 1 .. Len(replies'), replies'[i].ok \/ ~hasty
       PROVE  For(i)'
  <2>1. CASE i <= Len(replies)
    <3>1. i \in 1 .. Len(replies) /\ replies'[i] = replies[i]
      BY <1>7, <1>8, <2>1
    <3>2. For(i)
      BY <1>17, <3>1 DEF IInv, Answered, About
    <3>3. PICK k \in cuts \cup {0} :
            /\ k < sent
            /\ k = 0 <=> i = 1
            /\ k # 0 => \E j \in 1 .. i - 1 : replies[j].at = k
            /\ replies[i].method = MethodAt(Tokens[k + 1])
            /\ replies[i].ok => Tokens[k + 1].kind = "start"
      BY <3>2 DEF For
    <3>4. \A j \in 1 .. i - 1 : replies'[j] = replies[j]
      BY <1>7, <1>8, <3>1
    <3>5. k # 0 => \E j \in 1 .. i - 1 : replies'[j].at = k
      BY <3>3, <3>4
    <3>6. QED
      BY <1>2, <3>1, <3>3, <3>5 DEF For
  <2>2. CASE ~ (i <= Len(replies))
    <3>1. i = Len(replies) + 1 /\ replies'[i] = reply
      BY <1>7, <1>8, <2>2
    <3>2. Len(replies) = 0 <=> replies = <<>>
      BY <1>7, EmptySeq
    <3>3. r.state # PENDING_START_LINE
      BY <1>6, <1>17, <3>1 DEF COMPLETE, PENDING_START_LINE
    <3>4. b = 0 <=> i = 1
      BY <1>4, <1>7, <3>1, <3>2, <3>3
    <3>5. b # 0 => \E j \in 1 .. i - 1 : replies'[j].at = b
      <4>1. b # 0 => \E j \in 1 .. Len(replies) : replies[j].at = b
        BY <1>4, <3>3 DEF Behind
      <4>2. i - 1 = Len(replies)
        BY <1>7, <3>1
      <4>3. QED
        BY <1>8, <4>1, <4>2
    <3>6. QED
      BY <1>2, <1>3, <1>4, <1>6, <3>1, <3>3, <3>4, <3>5 DEF For
  <2>3. QED
    BY <2>1, <2>2
<1>18. About'
  BY <1>2, <1>17 DEF About
<1>19. WholeBodyIntact' /\ HungCause'
  BY <1>1, <1>11 DEF WholeBodyIntact, HungCause, PENDING_START_LINE, COMPLETE
<1>20. phase' # "parse"
  BY <1>1
<1>21. QED
  BY <1>2, <1>8, <1>10, <1>11, <1>12, <1>16, <1>18, <1>19, <1>20

LEMMA ReplyStep ==
  ASSUME IInv, Reply
  PROVE  IInv'
<1>1. /\ phase = "parse" /\ r.state \in {COMPLETE, BAD_REQUEST} /\ Answer(FALSE)
      /\ UNCHANGED <<working, write>>
  BY Zenon DEF Reply
<1>2. r.state # PENDING_START_LINE
  BY <1>1 DEF COMPLETE, BAD_REQUEST, PENDING_START_LINE
<1>3. PICK b \in cuts \cup {0} : Begun(b) /\ b \in Nat /\ b <= sent
  BY <1>1, Beginning DEF Gone
<1>4. sent \in Nat /\ sent > 0
  BY <1>2, <1>3, Typed DEF Begun
<1>5. /\ Shapes' /\ Phases' /\ ConnTold' /\ Received' /\ About'
      /\ WholeBodyIntact' /\ HungCause'
      /\ phase' # "parse" /\ r'.state = PENDING_START_LINE
      /\ sent' = sent /\ cuts' = cuts /\ hasty' = hasty
      /\ Len(replies') = Len(replies) + 1
  <2>1. phase \notin Gone /\ phase # "hung" /\ FALSE \in BOOLEAN
    BY <1>1 DEF Gone
  <2>2. QED
    BY <1>1, <1>2, <1>4, <2>1, AnswerStep
<1>6. Patient /\ Counted /\ Len(replies) \in Nat
  BY Typed DEF IInv, Answered
<1>7. Patient'
  BY <1>1, <1>5, <1>6 DEF Patient, Gone
<1>8. Counted'
  BY <1>1, <1>5, <1>6, Typed DEF Counted, PENDING_START_LINE, COMPLETE
<1>9. QED
  BY <1>5, <1>7, <1>8 DEF IInv, Answered

LEMMA DispatchStep ==
  ASSUME IInv, Dispatch
  PROVE  IInv'
<1>1. /\ phase = "recv" /\ working > 0 /\ working' = working - 1 /\ write' \in {write, TRUE}
      /\ \E closes \in BOOLEAN : Answer(closes)
  BY Zenon DEF Dispatch
<1>2. Patient /\ Counted /\ Len(replies) \in Nat
  BY Typed DEF IInv, Answered
<1>3. /\ working \in Nat /\ write \in BOOLEAN /\ hasty \in BOOLEAN /\ sent > 0
      /\ ~hasty => working = 1 /\ r.state = COMPLETE
  BY <1>1, <1>2 DEF Patient, Gone
<1>4. /\ Shapes' /\ Phases' /\ ConnTold' /\ Received' /\ About'
      /\ WholeBodyIntact' /\ HungCause'
      /\ phase' # "parse" /\ r'.state = PENDING_START_LINE
      /\ sent' = sent /\ cuts' = cuts /\ hasty' = hasty
      /\ Len(replies') = Len(replies) + 1
  <2>1. PICK closes \in BOOLEAN : Answer(closes)
    BY <1>1
  <2>2. phase \notin Gone /\ phase # "hung"
    BY <1>1 DEF Gone
  <2>3. r.state # PENDING_START_LINE \/ hasty
    BY <1>3 DEF COMPLETE, PENDING_START_LINE
  <2>4. QED
    BY <1>3, <2>1, <2>2, <2>3, AnswerStep
<1>5. Patient'
  <2>1. working' \in Nat /\ write' \in BOOLEAN /\ hasty' \in BOOLEAN
    <3>1. working' \in Nat
      BY <1>1, <1>3
    <3>2. write' \in BOOLEAN /\ hasty' \in BOOLEAN
      BY <1>1, <1>3, <1>4, Zenon
    <3>3. QED
      BY <3>1, <3>2
  <2>2. ~hasty' => ~ (working' > 0)
    BY <1>1, <1>3, <1>4
  <2>3. QED
    BY <1>3, <1>4, <2>1, <2>2 DEF Patient, Gone
<1>6. Counted'
  BY <1>1, <1>2, <1>3, <1>4, Typed DEF Counted, PENDING_START_LINE, COMPLETE
<1>7. QED
  BY <1>4, <1>5, <1>6 DEF IInv, Answered


LEMMA InitIInv ==
  ASSUME Init
  PROVE  IInv
<1>1. /\ req \in Streams /\ sent = 0 /\ cuts = {} /\ buffer = <<>> /\ r = Fresh
      /\ fields = NoFields /\ body = <<>> /\ rbody = <<>> /\ phase = "recv" /\ replies = <<>>
      /\ working = 0 /\ write = FALSE /\ hasty = FALSE
  BY Zenon DEF Init
<1>2. Len(Tokens) \in Nat
  BY <1>1, StreamIs
<1>3. SubSeq(Tokens, 0 + 1, 0) = <<>>
  BY SubSeqEmpty
<1>4. At(0)
  BY <1>1, <1>3 DEF At
<1>5. Shapes
  <2>1. Fresh \in [state : ParserState \cup {BAD_REQUEST, SPINNING},
                   method : Method \cup {None}, conn : ConnHeader \cup {"absent"}]
    BY DEF Fresh, ParserState
  <2>2. \E k \in 0 .. sent : At(k)
    BY <1>1, <1>4
  <2>3. replies \in Seq(Answers)
    BY <1>1, EmptySeq
  <2>4. QED
    BY <1>1, <1>2, <2>1, <2>2, <2>3 DEF Shapes
<1>6. r.state = PENDING_START_LINE /\ r.conn = "absent" /\ r.state # SPINNING
      /\ r.state # COMPLETE /\ r.state # PENDING_HEADERS /\ r.state # PENDING_BODY
  BY <1>1 DEF Fresh, PENDING_START_LINE, SPINNING, COMPLETE, PENDING_HEADERS, PENDING_BODY
<1>7. Phases /\ ConnTold
  BY <1>1, <1>6 DEF Phases, ConnTold, NoFields, Gone
<1>8. Received
  <2>1. Begun(0)
    BY <1>1, <1>4, <1>6 DEF Begun, Behind, InStart
  <2>2. QED
    BY <2>1 DEF Received
<1>9. Answered
  <2>1. Len(replies) = 0 /\ Cardinality(cuts) = 0
    BY <1>1, EmptySeq, FS_EmptySet
  <2>2. QED
    <3>1. Patient
      <4>1. write \in BOOLEAN /\ hasty \in BOOLEAN
        BY <1>1, Zenon
      <4>2. working \in Nat /\ ~ (working > 0)
        BY <1>1
      <4>3. QED
        BY <4>1, <4>2 DEF Patient
    <3>2. Counted
      BY <1>1, <1>6, <2>1 DEF Counted
    <3>3. About
      BY <2>1 DEF About
    <3>4. QED
      BY <3>1, <3>2, <3>3 DEF Answered
<1>10. WholeBodyIntact /\ HungCause
  BY <1>1, <1>6 DEF WholeBodyIntact, HungCause
<1>11. QED
  BY <1>5, <1>7, <1>8, <1>9, <1>10 DEF IInv

\* A body that came with the end of the header came as a whole.
LEMMA WholeBodyCame ==
  ASSUME IInv, Whole
  PROVE  sent < Len(TheHead) \/ First <= sent
<1>1. /\ sent \in Nat /\ (sent > 0 => sent \in cuts)
      /\ Len(TheHead) \in Nat /\ First \in Nat /\ Len(TheHead) > 2
  BY Typed, StreamIs
<1>2. Len(TheHead) \notin cuts /\ \A n \in cuts : ~ (Len(TheHead) < n /\ n < First)
  BY DEF Whole, BodyCuts, TheHead
<1>3. QED
  BY <1>1, <1>2

LEMMA HandleChunkStep ==
  ASSUME IInv, HandleChunk
  PROVE  IInv'
<1>1. /\ InBody /\ Chunked /\ phase = "parse" /\ phase' = "parse" /\ r.state = PENDING_BODY
      /\ UNCHANGED <<req, sent, cuts, fields, body, replies>>
      /\ UNCHANGED workers
  BY Zenon DEF HandleChunk, InBody
<1>2. /\ Tokens' = Tokens /\ First' = First /\ TheHead' = TheHead /\ TheBody' = TheBody
      /\ TheContent' = TheContent /\ \A b : HeadAt(b)' = HeadAt(b)
  BY <1>1, Steady
<1>3. (Encoding' <=> Encoding) /\ (Chunked' <=> Chunked) /\ Encoding
      /\ (Whole' <=> Whole) /\ (BodyCuts' = BodyCuts)
  BY <1>1, <1>2 DEF Encoding, Chunked, Whole, BodyCuts
<1>4. sent \in 0 .. Len(Tokens) /\ sent \in Nat /\ Tokens \in Seq(Toks)
  BY Typed
<1>5. PICK h, f \in Nat : h = Len(TheHead) /\ f = First
  BY Typed, StreamIs
<1>6. CASE buffer = <<>> /\ Become(COMPLETE) /\ UNCHANGED <<buffer, rbody>>
  <2>1. ~Whole
    <3> SUFFICES ASSUME Whole PROVE FALSE
      OBVIOUS
    <3>1. PICK before \in Chunking(TheBody, TheContent) :
            \E p, n, k \in Nat : /\ p \in DOMAIN before /\ At(k)
                                 /\ k + 1 = Len(TheHead) + p /\ k + n + 3 <= First
      BY <1>1, ChunkAt
    <3>2. PICK p, n, k \in Nat : /\ p \in DOMAIN before /\ At(k)
                                 /\ k + 1 = Len(TheHead) + p /\ k + n + 3 <= First
      BY <3>1
    <3>3. p >= 1
      BY <3>2, ChunkIs, Typed
    <3>4. Len(buffer) = sent - k
      BY <3>2, BufferIs
    <3>5. Len(buffer) = 0
      BY <1>6, EmptySeq
    <3>6. k = sent
      BY <1>4, <3>4, <3>5
    <3>7. k >= h /\ k < f
      BY <1>5, <3>2, <3>3
    <3>8. sent < h \/ f <= sent
      BY <1>5, WholeBodyCame
    <3>9. QED
      BY <3>6, <3>7, <3>8
  <2>2. \E k \in 0 .. sent : At(k)'
    <3>1. PICK k \in 0 .. sent : At(k)
      BY DEF IInv, Shapes
    <3>2. At(k)'
      BY <1>1, <1>2, <1>6, <3>1 DEF At
    <3>3. QED
      BY <3>2
  <2>3. /\ Shapes' /\ Phases' /\ ConnTold' /\ Received' /\ Answered' /\ HungCause'
    <3>1. COMPLETE \in {COMPLETE, BAD_REQUEST, SPINNING} /\ SPINNING # COMPLETE
      BY DEF SPINNING, COMPLETE
    <3>2. QED
      BY <1>1, <1>6, <2>2, <3>1, BodyStep
  <2>4. WholeBodyIntact'
    BY <1>2, <1>3, <2>1 DEF WholeBodyIntact, Whole, TheHead
  <2>5. QED
    BY <2>3, <2>4 DEF IInv
<1>7. CASE /\ Eol(buffer) # 0
           /\ buffer' = Erase(Erase(buffer, Eol(buffer)), buffer[1].n + 1)
           /\ rbody' = rbody \o ChunkData(Erase(buffer, Eol(buffer)), buffer[1].n)
           /\ IF buffer[1].n = 0 THEN Become(COMPLETE) ELSE UNCHANGED r
  <2>1. buffer # <<>>
    BY <1>7, EolIs, EmptySeq
  <2>2. PICK before \in Chunking(TheBody, TheContent) :
           \E p, n, k \in Nat :
             /\ p \in DOMAIN before /\ n = TheBody[p].n
             /\ k + 1 = Len(TheHead) + p /\ At(k)
             /\ Tokens[k + 1] = TheBody[p] /\ Tokens[k + 2] = EOL
             /\ k + n + 3 <= First
             /\ \A i \in 1 .. n : Tokens[k + 2 + i] = TheBody[p + 1 + i]
             /\ Whole => rbody = SubSeq(Bytes(TheContent), 1, before[p])
    BY <1>1, <2>1, ChunkAt
  <2>3. PICK p, n, k \in Nat :
             /\ p \in DOMAIN before /\ n = TheBody[p].n
             /\ k + 1 = Len(TheHead) + p /\ At(k)
             /\ Tokens[k + 1] = TheBody[p] /\ Tokens[k + 2] = EOL
             /\ k + n + 3 <= First
             /\ \A i \in 1 .. n : Tokens[k + 2 + i] = TheBody[p + 1 + i]
             /\ Whole => rbody = SubSeq(Bytes(TheContent), 1, before[p])
    BY <2>2
  <2>4. /\ p >= 1 /\ TheBody[p].kind = "size"
        /\ before[p] \in Nat /\ before[p] + n <= Len(TheContent)
        /\ \A i \in 1 .. n : TheBody[p + 1 + i] = Byte(TheContent[before[p] + i])
        /\ n = 0 => before[p] = Len(TheContent)
        /\ n # 0 => p + n + 3 \in DOMAIN before /\ before[p + n + 3] = before[p] + n
    BY <2>3, ChunkIs, Typed
  <2>5. k + 1 = h + p /\ k + n + 3 <= f
    BY <1>5, <2>3
  <2>6. Eol(buffer) = 2 /\ k + 2 <= sent /\ buffer[1] = TheBody[p]
    <3>1. TheBody[p] # EOL
      BY <2>4 DEF EOL
    <3>2. QED
      BY <1>7, <2>3, <3>1, LineTaken
  <2>7. buffer[1].n = n
    BY <2>3, <2>6
  <2> DEFINE rest == Erase(buffer, 2)
  <2>8. /\ rest \in Seq(Toks) /\ Len(rest) = sent - (k + 2)
        /\ \A i \in 1 .. sent - (k + 2) : rest[i] = Tokens[k + 2 + i]
        /\ rest = SubSeq(Tokens, (k + 2) + 1, sent)
    <3>1. PICK j \in Nat : j = k + 2
      OBVIOUS
    <3>2. j <= sent /\ j \in 0 .. sent
      BY <1>4, <2>6, <3>1
    <3>3. rest = SubSeq(Tokens, j + 1, sent)
      BY <2>3, <3>1, <3>2, BufferIs
    <3>4. /\ SubSeq(Tokens, j + 1, sent) \in Seq(Toks)
          /\ Len(SubSeq(Tokens, j + 1, sent)) = sent - j
          /\ \A i \in 1 .. sent - j : SubSeq(Tokens, j + 1, sent)[i] = Tokens[j + i]
      BY <1>4, <3>2, SuffixIs
    <3>5. QED
      BY <3>1, <3>3, <3>4
  <2> HIDE DEF rest
  <2>9. buffer' = Erase(rest, n + 1) /\ rbody' = rbody \o ChunkData(rest, n)
    BY <1>7, <2>6, <2>7 DEF rest
  <2>10. buffer' = SubSeq(Tokens, (IF (k + 2) + (n + 1) <= sent THEN (k + 2) + (n + 1) ELSE sent) + 1, sent)
    <3>1. k + 2 \in 0 .. sent /\ n + 1 \in Nat
      BY <1>4, <2>4, <2>6
    <3>2. QED
      BY <1>4, <2>8, <2>9, <3>1, SuffixErase
  <2>11. PICK l \in Nat : l = k + n + 3
    OBVIOUS
  <2>12. l <= sent => At(l)'
    <3> SUFFICES ASSUME l <= sent PROVE At(l)'
      OBVIOUS
    <3>1. buffer' = SubSeq(Tokens, l + 1, sent)
      <4>1. (k + 2) + (n + 1) = l
        BY <2>11
      <4>2. QED
        BY <2>10, <4>1
    <3>2. QED
      BY <1>1, <1>2, <3>1, <1>4 DEF At
  <2>13. ASSUME l > sent
         PROVE  buffer' = <<>> /\ \A m \in Nat : m = sent => At(m)'
    <3>1. buffer' = SubSeq(Tokens, sent + 1, sent)
      <4>1. (k + 2) + (n + 1) = l /\ ~ (l <= sent)
        BY <1>4, <2>11, <2>13
      <4>2. QED
        BY <2>10, <4>1
    <3>2. sent + 1 \in Int /\ sent \in Int /\ sent < sent + 1
      BY <1>4
    <3>3. SubSeq(Tokens, sent + 1, sent) = <<>>
      BY <3>2, SubSeqEmpty
    <3>4. QED
      BY <1>1, <1>2, <1>4, <3>1, <3>3 DEF At
  <2>14. \E m \in 0 .. sent : At(m)'
    <3>1. CASE l <= sent
      BY <1>4, <2>12, <3>1
    <3>2. CASE l > sent
      <4>1. PICK m \in Nat : m = sent /\ m \in 0 .. sent
        BY <1>4
      <4>2. QED
        BY <2>13, <3>2, <4>1
    <3>3. QED
      BY <1>4, <3>1, <3>2
  <2>15. ASSUME Whole
         PROVE  l <= sent /\ rbody' = SubSeq(Bytes(TheContent), 1, before[p] + n)
    <3>1. f <= sent
      <4>1. sent < h \/ f <= sent
        BY <1>5, <2>15, WholeBodyCame
      <4>2. QED
        BY <1>4, <2>4, <2>5, <2>6, <4>1
    <3>2. l <= sent
      BY <1>4, <2>5, <2>11, <3>1
    <3>3. n \in 0 .. Len(rest)
      BY <1>4, <2>8, <2>11, <3>2
    <3> DEFINE u == ChunkData(rest, n)
    <3>4. u \in Seq(Toks) /\ Len(u) = n /\ \A i \in 1 .. n : u[i] = rest[i]
      BY <2>8, <3>3, SubstrIs DEF ChunkData
    <3> HIDE DEF u
    <3> DEFINE t == Bytes(TheContent)
               E == Elements(t)
    <3>5. /\ Len(TheContent) \in Nat /\ Len(t) = Len(TheContent) /\ t \in Seq(E)
          /\ \A i \in 1 .. Len(TheContent) : t[i] = Byte(TheContent[i])
      BY BytesAre, Typed
    <3> HIDE DEF t, E
    <3>6. PICK a \in Nat : a = before[p] /\ a + n <= Len(t)
      BY <2>4, <3>5
    <3>7. ASSUME NEW i \in 1 .. n
          PROVE  u[i] = t[a + i]
      <4>1. i \in 1 .. sent - (k + 2)
        BY <1>4, <2>11, <3>2
      <4>2. a + i \in 1 .. Len(TheContent)
        BY <3>5, <3>6
      <4>3. u[i] = Tokens[k + 2 + i]
        BY <2>8, <3>4, <4>1
      <4>4. Tokens[k + 2 + i] = TheBody[p + 1 + i]
        BY <2>3
      <4>5. TheBody[p + 1 + i] = Byte(TheContent[a + i])
        BY <2>4, <3>6
      <4>6. QED
        BY <3>5, <4>2, <4>3, <4>4, <4>5
    <3>8. SubSeq(t, 1, a) \o u = SubSeq(t, 1, a + n)
      BY <3>4, <3>5, <3>6, <3>7, Longer
    <3>9. rbody' = SubSeq(t, 1, a) \o u
      BY <2>3, <2>9, <2>15, <3>6 DEF t, u
    <3>10. QED
      BY <3>2, <3>6, <3>8, <3>9 DEF t
  <2>16. CASE n = 0
    <3>1. Become(COMPLETE)
      BY <1>7, <2>7, <2>16
    <3>2. /\ Shapes' /\ Phases' /\ ConnTold' /\ Received' /\ Answered' /\ HungCause'
      <4>1. COMPLETE \in {COMPLETE, BAD_REQUEST, SPINNING} /\ SPINNING # COMPLETE
        BY DEF SPINNING, COMPLETE
      <4>2. QED
        BY <1>1, <2>14, <3>1, <4>1, BodyStep
    <3>3. Whole => rbody' = Bytes(TheContent)
      <4> SUFFICES ASSUME Whole PROVE rbody' = Bytes(TheContent)
        OBVIOUS
      <4>1. before[p] + n = Len(TheContent)
        BY <2>4, <2>16
      <4>2. rbody' = SubSeq(Bytes(TheContent), 1, Len(TheContent))
        BY <2>15, <4>1
      <4>3. /\ Len(TheContent) = Len(Bytes(TheContent))
            /\ Bytes(TheContent) \in Seq(Elements(Bytes(TheContent)))
        BY BytesAre, Typed
      <4>4. QED
        BY <4>2, <4>3, SubSeqFull
    <3>4. WholeBodyIntact'
      BY <1>2, <1>3, <3>3 DEF WholeBodyIntact, Whole, TheHead, TheContent
    <3>5. QED
      BY <3>2, <3>4 DEF IInv
  <2>17. CASE n # 0
    <3>1. r' = r
      BY <1>7, <2>7, <2>17
    <3>2. PICK b \in cuts \cup {0} :
            /\ b \in Nat /\ b < sent /\ r.method = MethodAt(Tokens[b + 1])
            /\ Tokens[b + 1].kind = "start" /\ Tokens[b + 1].ok /\ b \in {0, First}
            /\ InTheBody(b) /\ (b = 0 <=> replies = <<>>) /\ Behind(b)
      BY <1>1, BodyOfRequest
    <3>3. b = 0 /\ replies = <<>>
      BY <1>3, <3>2 DEF InTheBody
    <3>4. InChunks'
      <4>1. CASE l <= sent
        <5>1. PICK q \in Nat : q = p + n + 3 /\ q \in DOMAIN before /\ before[q] = before[p] + n
          BY <2>4, <2>17
        <5>2. Len(TheHead') + q - 1 = l
          BY <1>2, <1>5, <2>5, <2>11, <5>1
        <5>3. Whole' => rbody' = SubSeq(Bytes(TheContent'), 1, before[q])
          BY <1>2, <1>3, <2>15, <5>1
        <5>4. before \in Chunking(TheBody', TheContent')
          BY <1>2
        <5>5. replies' = <<>> /\ phase' # "recv"
          BY <1>1, <3>3
        <5>6. QED
          BY <2>12, <4>1, <5>1, <5>2, <5>3, <5>4, <5>5 DEF InChunks
      <4>2. CASE ~ (l <= sent)
        <5>1. buffer' = <<>>
          BY <1>4, <2>11, <2>13, <4>2
        <5>2. ~Whole'
          BY <1>3, <2>15, <4>2
        <5>3. replies' = <<>> /\ phase' # "recv"
          BY <1>1, <3>3
        <5>4. QED
          BY <5>1, <5>2, <5>3 DEF InChunks
      <4>3. QED
        BY <4>1, <4>2
    <3>5. InTheBody(b)'
      BY <1>1, <1>2, <1>3, <3>2, <3>3, <3>4 DEF InTheBody
    <3>6. Begun(b)'
      BY <1>1, <1>2, <3>1, <3>2, <3>5
         DEF Begun, Behind, PENDING_START_LINE, PENDING_HEADERS, PENDING_BODY, BAD_REQUEST
    <3>7. Received'
      BY <1>1, <3>6 DEF Received
    <3>8. Shapes'
      <4>1. \E m \in 0 .. sent' : At(m)'
        BY <1>1, <2>14
      <4>2. QED
        BY <1>1, <1>2, <3>1, <4>1, Typed DEF Shapes
    <3>9. Phases' /\ ConnTold'
      BY <1>1, <3>1 DEF IInv, Phases, Gone, ConnTold
    <3>10. WholeBodyIntact' /\ HungCause'
      BY <1>1, <3>1 DEF WholeBodyIntact, HungCause, PENDING_BODY, COMPLETE
    <3>11. QED
      BY <1>1, <3>7, <3>8, <3>9, <3>10, AnsweredStays DEF IInv
  <2>18. QED
    BY <2>16, <2>17
<1>8. QED
  BY <1>6, <1>7, Zenon DEF HandleChunk

\* The body of the first request, if it has a length: the body that has come
\* is kept whole if it came at once, or after the header.
LEMMA LengthBody ==
  ASSUME IInv, InBody, ~Encoding, "content-length" \in DOMAIN fields, InTheBody(0),
         BodyCuts = {}
  PROVE  /\ body \o buffer = buffer /\ Len(body) + Len(buffer) = Len(buffer)
         /\ fields["content-length"] = Len(TheContent)
         /\ Len(buffer) = Len(TheContent) => buffer = Bytes(TheContent)
         /\ Len(buffer) < Len(TheContent) => buffer = <<>>
<1> DEFINE cl == "content-length"
           te == "transfer-encoding"
<1>1. /\ sent \in Nat /\ (sent > 0 => sent \in cuts) /\ buffer \in Seq(Toks) /\ Len(buffer) \in Nat
      /\ req \in Streams /\ sent \in 0 .. Len(Tokens) /\ Tokens \in Seq(Toks)
  BY Typed
<1>2. PICK h, d, n \in Nat : h = Len(TheHead) /\ d = Len(TheBody) /\ n = Len(TheContent)
  BY <1>1, StreamIs, BytesAre
<1>3. HeadAt(0) = TheHead
  BY DEF HeadAt
<1>4. FieldsUpto(fields, TheHead, h) /\ InLength(0)
  BY <1>2, <1>3 DEF InTheBody
<1>5. PICK i \in 1 .. Len(TheHead) : IsFirst(TheHead, cl, i) /\ fields[cl] = TheHead[i].value
  BY <1>2, <1>4, FieldsWhole
<1>6. Named(TheHead, te) = {}
  BY <1>2, <1>4, FieldsWhole DEF Encoding
<1>7. fields[cl] = Len(TheContent) /\ TheBody = Bytes(TheContent)
  BY <1>1, <1>5, <1>6, StreamsAssumption DEF TheHead, TheBody, TheContent
<1>8. d = n
  BY <1>1, <1>2, <1>7, BytesAre
<1>9. At(h) /\ body = <<>>
  <2>1. 0 + Len(HeadAt(0)) = h
    BY <1>2, <1>3
  <2>2. QED
    BY <1>4, <2>1 DEF InLength
<1>10. body \o buffer = buffer /\ Len(body) + Len(buffer) = Len(buffer)
  BY <1>1, <1>9, ConcatEmptySeq, EmptySeq
<1>11. /\ h <= sent /\ Len(buffer) = sent - h
       /\ \A j \in 1 .. sent - h : buffer[j] = Tokens[h + j]
       /\ h = sent => buffer = <<>>
  BY <1>9, BufferIs
<1>12. First = h + d /\ \A j \in 1 .. d : Tokens[h + j] = TheBody[j]
  BY <1>1, <1>2, StreamIs
<1>13. sent <= h \/ h + d <= sent
  <2>1. \A c \in cuts : ~ (h < c /\ c < First)
    BY <1>2 DEF BodyCuts, TheHead
  <2>2. QED
    BY <1>1, <1>12, <2>1
<1>14. ASSUME Len(buffer) = n
       PROVE  buffer = Bytes(TheContent)
  <2> DEFINE t == Bytes(TheContent)
             E == Elements(t)
             T == Toks \cup E
  <2>1. t \in Seq(E) /\ Len(t) = n
    BY <1>1, <1>2, BytesAre
  <2>2. E \subseteq T /\ Toks \subseteq T
    OBVIOUS
  <2>3. \A j \in 1 .. n : buffer[j] = t[j]
    BY <1>7, <1>8, <1>11, <1>12, <1>14
  <2> HIDE DEF t, E, T
  <2>4. t \in Seq(T) /\ buffer \in Seq(T)
    BY <1>1, <2>1, <2>2, SeqMonotonic
  <2>5. buffer = t
    BY <1>14, <2>1, <2>3, <2>4, SeqEqual
  <2>6. QED
    BY <2>5 DEF t
<1>15. Len(buffer) < n => buffer = <<>>
  BY <1>1, <1>8, <1>11, <1>13
<1>16. QED
  BY <1>2, <1>7, <1>10, <1>14, <1>15

LEMMA TakeLengthStep ==
  ASSUME IInv, TakeLength
  PROVE  IInv'
<1> DEFINE outcome == LengthOutcome(Len(body) + Len(buffer), fields["content-length"])
<1>1. /\ InBody /\ phase = "parse" /\ r.state = PENDING_BODY /\ ~Encoding
      /\ "content-length" \in DOMAIN fields
      /\ body' = body \o buffer /\ Become(outcome) /\ phase' = LengthPhase(outcome)
      /\ UNCHANGED <<req, sent, cuts, buffer, fields, rbody, replies>>
      /\ UNCHANGED workers
  BY Zenon DEF TakeLength, InBody
<1>2. /\ Tokens' = Tokens /\ First' = First /\ TheHead' = TheHead /\ TheContent' = TheContent
      /\ \A b : HeadAt(b)' = HeadAt(b)
  BY <1>1, Steady
<1>3. (Encoding' <=> Encoding) /\ ~Chunked /\ ~Chunked' /\ BodyCuts' = BodyCuts
  BY <1>1, <1>2 DEF Encoding, Chunked, BodyCuts
<1>4. PICK b \in cuts \cup {0} :
        /\ b \in Nat /\ b < sent /\ r.method = MethodAt(Tokens[b + 1])
        /\ Tokens[b + 1].kind = "start" /\ Tokens[b + 1].ok /\ b \in {0, First}
        /\ InTheBody(b) /\ (b = 0 <=> replies = <<>>) /\ Behind(b)
  BY <1>1, BodyOfRequest
<1>5. \A k \in Nat : At(k) => At(k)'
  BY <1>1, <1>2 DEF At
<1>6. \E k \in 0 .. sent : At(k)'
  <2>1. PICK k \in 0 .. sent : At(k)
    BY DEF IInv, Shapes
  <2>2. k \in Nat
    OBVIOUS
  <2>3. QED
    BY <1>5, <2>1, <2>2
<1>7. ASSUME b = 0, BodyCuts = {}
      PROVE  /\ body' = buffer
             /\ outcome = LengthOutcome(Len(buffer), Len(TheContent))
             /\ Len(buffer) = Len(TheContent) => buffer = Bytes(TheContent)
             /\ Len(buffer) < Len(TheContent) => buffer = <<>>
             /\ Len(buffer) \in Nat /\ Len(TheContent) \in Nat
  <2>1. /\ body \o buffer = buffer /\ Len(body) + Len(buffer) = Len(buffer)
        /\ fields["content-length"] = Len(TheContent)
        /\ Len(buffer) = Len(TheContent) => buffer = Bytes(TheContent)
        /\ Len(buffer) < Len(TheContent) => buffer = <<>>
    BY <1>1, <1>4, <1>7, LengthBody
  <2>2. Len(buffer) \in Nat /\ Len(TheContent) \in Nat
    BY Typed, BytesAre
  <2>3. QED
    BY <1>1, <2>1, <2>2
<1>8. outcome \in {COMPLETE, BAD_REQUEST, PENDING_BODY}
  BY DEF LengthOutcome
<1> HIDE DEF outcome
<1>9. CASE outcome = PENDING_BODY
  <2>1. phase' = "recv" /\ r' = r
    <3>1. r' = [r EXCEPT !.state = PENDING_BODY]
      BY <1>1, <1>9 DEF Become
    <3>2. [r EXCEPT !.state = PENDING_BODY] = r
      BY <1>1, Typed
    <3>3. QED
      BY <1>1, <1>9, <3>1, <3>2 DEF LengthPhase
  <2>2. InLength(b)'
    <3>1. PICK l \in Nat : l = b + Len(HeadAt(b))
      <4>1. Len(HeadAt(b)) \in Nat
        BY <1>4, HeadIs, Typed
      <4>2. QED
        BY <1>4, <4>1
    <3>2. At(l)'
      BY <1>3, <1>4, <1>5, <1>1, <3>1 DEF InTheBody, InLength
    <3>3. b = 0 /\ BodyCuts = {} => body' = <<>> /\ buffer' = <<>>
      <4> SUFFICES ASSUME b = 0, BodyCuts = {} PROVE body' = <<>> /\ buffer' = <<>>
        OBVIOUS
      <4>1. LengthOutcome(Len(buffer), Len(TheContent)) = PENDING_BODY
        BY <1>7, <1>9
      <4>2. Len(buffer) < Len(TheContent)
        BY <1>7, <4>1 DEF LengthOutcome, COMPLETE, BAD_REQUEST, PENDING_BODY
      <4>3. QED
        BY <1>1, <1>7, <4>2
    <3>4. QED
      BY <1>2, <1>3, <3>1, <3>2, <3>3 DEF InLength
  <2>3. InTheBody(b)'
    BY <1>1, <1>2, <1>3, <1>4, <2>2 DEF InTheBody
  <2>4. Begun(b)'
    BY <1>1, <1>2, <1>4, <2>1, <2>3
       DEF Begun, Behind, PENDING_START_LINE, PENDING_HEADERS, PENDING_BODY, BAD_REQUEST
  <2>5. Received'
    BY <1>1, <2>4 DEF Received
  <2>6. Shapes'
    <3>1. \E k \in 0 .. sent' : At(k)'
      BY <1>1, <1>6
    <3>2. QED
      BY <1>1, <1>2, <2>1, <3>1, Typed DEF Shapes
  <2>7. Phases' /\ ConnTold'
    BY <1>1, <2>1 DEF IInv, Phases, Gone, ConnTold, PENDING_BODY, SPINNING
  <2>8. WholeBodyIntact' /\ HungCause'
    BY <1>1, <2>1 DEF WholeBodyIntact, HungCause, PENDING_BODY, COMPLETE
  <2>9. QED
    BY <1>1, <2>5, <2>6, <2>7, <2>8, AnsweredStays DEF IInv
<1>10. CASE outcome # PENDING_BODY
  <2>1. /\ outcome \in {COMPLETE, BAD_REQUEST, SPINNING} /\ outcome # SPINNING
        /\ phase' = "parse"
    BY <1>1, <1>8, <1>10 DEF COMPLETE, BAD_REQUEST, SPINNING, LengthPhase
  <2>2. /\ Shapes' /\ Phases' /\ ConnTold' /\ Received' /\ Answered' /\ HungCause'
        /\ outcome # COMPLETE => WholeBodyIntact'
    BY <1>1, <1>6, <2>1, BodyStep
  <2>3. outcome = COMPLETE => WholeBodyIntact'
    <3> SUFFICES ASSUME outcome = COMPLETE, replies = <<>>, BodyCuts = {}
                 PROVE  body' = Bytes(TheContent)
      BY <1>1, <1>2, <1>3 DEF WholeBodyIntact, TheContent
    <3>1. b = 0
      BY <1>4
    <3>2. LengthOutcome(Len(buffer), Len(TheContent)) = COMPLETE
      BY <1>7, <3>1
    <3>3. Len(buffer) = Len(TheContent)
      BY <3>2 DEF LengthOutcome, COMPLETE, BAD_REQUEST, PENDING_BODY
    <3>4. QED
      BY <1>7, <3>1, <3>3
  <2>4. QED
    BY <2>2, <2>3 DEF IInv
<1>11. QED
  BY <1>9, <1>10

-----------------------------------------------------------------------------
(* Theorems                                                                  *)

\* Whatever leaves the request and the buffer alone; a process may take over a
\* complete request.
LEMMA RequestStays ==
  ASSUME IInv, UNCHANGED <<req, sent, cuts, buffer, r, fields>>,
         UNCHANGED <<body, rbody, replies, hasty>>,
         phase' = phase \/ (phase = "parse" /\ r.state = COMPLETE /\ phase' = "recv")
  PROVE  /\ Shapes' /\ Phases' /\ ConnTold' /\ Received' /\ Counted' /\ About'
         /\ WholeBodyIntact' /\ HungCause'
<1>1. /\ Tokens' = Tokens /\ First' = First /\ TheHead' = TheHead /\ TheBody' = TheBody
      /\ TheContent' = TheContent /\ BodyCuts' = BodyCuts /\ \A b : HeadAt(b)' = HeadAt(b)
  BY Steady DEF BodyCuts, TheHead
<1>2. (Encoding' <=> Encoding) /\ (Chunked' <=> Chunked) /\ (Whole' <=> Whole)
  BY <1>1 DEF Encoding, Chunked, Whole
<1>3. \A k : At(k) => At(k)'
  BY <1>1 DEF At
<1>4. Shapes /\ Phases /\ ConnTold /\ Counted /\ About /\ WholeBodyIntact /\ HungCause
  BY DEF IInv, Answered
<1>5. Phases' /\ ConnTold'
  BY <1>4 DEF Phases, ConnTold, Gone, COMPLETE, SPINNING
<1>6. Counted' /\ About'
  <2>1. Counted'
    BY <1>4 DEF Counted
  <2>2. About'
    BY <1>1, <1>4 DEF About, For
  <2>3. QED
    BY <2>1, <2>2
<1>7. Shapes'
  <2>1. PICK k \in 0 .. sent : At(k)
    BY <1>4 DEF Shapes
  <2>2. \E m \in 0 .. sent' : At(m)'
    BY <1>3, <2>1
  <2>3. QED
    BY <1>1, <1>4, <2>2 DEF Shapes
<1>8. WholeBodyIntact' /\ HungCause'
  <2>1. WholeBodyIntact'
    BY <1>1, <1>2, <1>4 DEF WholeBodyIntact
  <2>2. HungCause'
    BY <1>1, <1>2, <1>4 DEF HungCause
  <2>3. QED
    BY <2>1, <2>2
<1>9. Received'
  <2> SUFFICES ASSUME phase' \notin Gone PROVE \E b \in cuts' \cup {0} : Begun(b)'
    BY DEF Received
  <2>1. phase \notin Gone
    BY DEF Gone
  <2>2. PICK b \in cuts \cup {0} : Begun(b) /\ b \in Nat /\ b <= sent
    BY <2>1, Beginning
  <2>3. InStart(b) => InStart(b)'
    BY <1>3 DEF InStart
  <2>4. InHeaders(b) => InHeaders(b)'
    <3> SUFFICES ASSUME InHeaders(b) PROVE InHeaders(b)'
      OBVIOUS
    <3>1. PICK p \in 2 .. Len(HeadAt(b)) - 1 :
            /\ HeadAt(b)[p] = EOL
            /\ At(b + p)
            /\ FieldsUpto(fields, HeadAt(b), p)
            /\ body = <<>> /\ rbody = <<>>
      BY DEF InHeaders
    <3>2. At(b + p)'
      BY <1>3, <3>1
    <3>3. FieldsUpto(fields', HeadAt(b)', p) /\ HeadAt(b)'[p] = EOL
      BY <1>1, <3>1
    <3>4. QED
      BY <1>1, <3>1, <3>2, <3>3 DEF InHeaders
  <2>5. phase' = phase /\ InTheBody(b) => InTheBody(b)'
    <3> SUFFICES ASSUME phase' = phase, InTheBody(b) PROVE InTheBody(b)'
      OBVIOUS
    <3>1. InLength(b) => InLength(b)'
      BY <1>1 DEF InLength, At
    <3>2. InChunks => InChunks'
      BY <1>1, <1>2 DEF InChunks, At
    <3>3. QED
      BY <1>1, <1>2, <3>1, <3>2 DEF InTheBody
  <2>6. r.state = PENDING_BODY => phase' = phase
    BY DEF PENDING_BODY, COMPLETE
  <2>7. Behind(b)'
    BY <2>2 DEF Begun, Behind
  <2>8. Begun(b)'
    BY <1>1, <2>2, <2>3, <2>4, <2>5, <2>6, <2>7 DEF Begun
  <2>9. QED
    BY <2>8
<1>10. QED
  BY <1>5, <1>6, <1>7, <1>8, <1>9

LEMMA StutterStep ==
  ASSUME IInv, UNCHANGED vars
  PROVE  IInv'
<1>1. /\ UNCHANGED <<req, sent, cuts, buffer, r, fields>>
      /\ UNCHANGED <<body, rbody, replies, hasty>>
      /\ phase' = phase /\ working' = working /\ write' = write
  BY DEF vars, workers
<1>2. /\ Shapes' /\ Phases' /\ ConnTold' /\ Received' /\ Counted' /\ About'
      /\ WholeBodyIntact' /\ HungCause'
  BY <1>1, RequestStays
<1>3. Patient'
  BY <1>1 DEF IInv, Answered, Patient, Gone
<1>4. QED
  BY <1>2, <1>3 DEF IInv, Answered

LEMMA ExecuteStep ==
  ASSUME IInv, Execute
  PROVE  IInv'
<1>1. /\ phase = "parse" /\ r.state = COMPLETE /\ phase' = "recv"
      /\ working' \in {working, working + 1} /\ write' = write
      /\ UNCHANGED <<req, sent, cuts, buffer, r, fields>>
      /\ UNCHANGED <<body, rbody, replies, hasty>>
  BY Zenon DEF Execute
<1>2. /\ Shapes' /\ Phases' /\ ConnTold' /\ Received' /\ Counted' /\ About'
      /\ WholeBodyIntact' /\ HungCause'
  BY <1>1, RequestStays
<1>3. PICK b \in cuts \cup {0} : Begun(b) /\ b \in Nat /\ b <= sent
  BY <1>1, Beginning DEF Gone
<1>4. sent > 0
  BY <1>1, <1>3, Typed DEF Begun, COMPLETE, PENDING_START_LINE
<1>5. Patient
  BY DEF IInv, Answered
<1>6. Patient'
  <2>1. working \in Nat /\ (~hasty => working = 0)
    BY <1>1, <1>5 DEF Patient, Gone
  <2>2. QED
    BY <1>1, <1>4, <1>5, <2>1 DEF Patient, Gone
<1>7. QED
  BY <1>2, <1>6 DEF IInv, Answered

LEMMA UnreadStep ==
  ASSUME IInv, Unread
  PROVE  IInv'
<1>1. /\ phase = "recv" /\ working > 0 /\ working' = working - 1 /\ write' = TRUE
      /\ phase' = phase
      /\ UNCHANGED <<req, sent, cuts, buffer, r, fields>>
      /\ UNCHANGED <<body, rbody, replies, hasty>>
  BY Zenon DEF Unread
<1>2. /\ Shapes' /\ Phases' /\ ConnTold' /\ Received' /\ Counted' /\ About'
      /\ WholeBodyIntact' /\ HungCause'
  BY <1>1, RequestStays
<1>3. Patient
  BY DEF IInv, Answered
<1>4. Patient'
  BY <1>1, <1>3 DEF Patient, Gone
<1>5. QED
  BY <1>2, <1>4 DEF IInv, Answered

LEMMA WriteEventStep ==
  ASSUME IInv, WriteEvent
  PROVE  IInv'
<1>1. /\ phase = "recv" /\ write' = FALSE
      /\ phase' = IF r.state = PENDING_START_LINE THEN "recv"
                  ELSE IF r.conn = "close" THEN "closed" ELSE "cleared"
      /\ r' = Fresh /\ fields' = NoFields /\ body' = <<>> /\ rbody' = <<>>
      /\ UNCHANGED <<req, sent, cuts, buffer, replies, working, hasty>>
  BY Zenon DEF WriteEvent, ClearRequest
<1>2. Patient /\ Counted /\ About
  BY DEF IInv, Answered
<1>3. r'.state = PENDING_START_LINE /\ r'.conn = "absent"
  BY <1>1 DEF Fresh
<1>4. PICK b \in cuts \cup {0} : Begun(b) /\ b \in Nat /\ b <= sent
  BY <1>1, Beginning DEF Gone
<1>5. CASE r.state = PENDING_START_LINE
  <2>1. r = Fresh /\ fields = NoFields /\ body = <<>> /\ rbody = <<>>
    BY <1>4, <1>5 DEF Begun, InStart
  <2>2. /\ UNCHANGED <<req, sent, cuts, buffer, r, fields>>
        /\ UNCHANGED <<body, rbody, replies, hasty>>
        /\ phase' = phase
    BY <1>1, <1>5, <2>1
  <2>3. /\ Shapes' /\ Phases' /\ ConnTold' /\ Received' /\ Counted' /\ About'
        /\ WholeBodyIntact' /\ HungCause'
    BY <2>2, RequestStays
  <2>4. Patient'
    <3>1. working' \in Nat /\ write' \in BOOLEAN /\ hasty' \in BOOLEAN
      BY <1>1, <1>2, <2>2, Zenon DEF Patient
    <3>2. working' = working /\ sent' = sent /\ hasty' = hasty /\ r' = r /\ phase' = phase
      BY <1>1, <2>2
    <3>3. QED
      BY <1>2, <3>1, <3>2 DEF Patient, Gone
  <2>5. QED
    BY <2>3, <2>4 DEF IInv, Answered
<1>6. CASE r.state # PENDING_START_LINE
  <2>1. phase' \in Gone
    BY <1>1, <1>6 DEF Gone
  <2>2. Tokens' = Tokens
    BY <1>1, Steady
  <2>3. Shapes'
    <3>1. PICK k \in 0 .. sent : At(k)
      BY DEF IInv, Shapes
    <3>2. At(k)'
      BY <1>1, <2>2, <3>1 DEF At
    <3>3. \E m \in 0 .. sent' : At(m)'
      BY <1>1, <3>2
    <3>4. Fresh \in [state : ParserState \cup {BAD_REQUEST, SPINNING},
                     method : Method \cup {None}, conn : ConnHeader \cup {"absent"}]
      BY DEF Fresh, ParserState
    <3>5. QED
      BY <1>1, <2>1, <2>2, <3>3, <3>4, Typed DEF Shapes, Gone
  <2>4. Phases' /\ ConnTold'
    BY <1>1, <1>3, <2>1 DEF Phases, ConnTold, NoFields, Gone, PENDING_START_LINE, SPINNING
  <2>5. Received'
    BY <2>1 DEF Received
  <2>6. Patient' /\ Counted'
    <3>1. Patient'
      BY <1>1, <1>2, <2>1 DEF Patient
    <3>2. Counted'
      BY <1>1, <1>2, <1>3, <2>1 DEF Counted, Gone, PENDING_START_LINE, COMPLETE
    <3>3. QED
      BY <3>1, <3>2
  <2>7. About'
    BY <1>1, <1>2, <2>2 DEF About, For
  <2>8. WholeBodyIntact' /\ HungCause'
    BY <1>1, <1>3, <2>1 DEF WholeBodyIntact, HungCause, Gone, PENDING_START_LINE, COMPLETE
  <2>9. QED
    BY <2>3, <2>4, <2>5, <2>6, <2>7, <2>8 DEF IInv, Answered
<1>7. QED
  BY <1>5, <1>6

LEMMA NextIInv ==
  ASSUME IInv, [Next]_vars
  PROVE  IInv'
<1>1. CASE UNCHANGED vars
  BY <1>1, StutterStep
<1>2. CASE Recv
  BY <1>2, RecvStep
<1>3. CASE NeedLine
  BY <1>3, NeedLineStep
<1>4. CASE ParseStartLine
  BY <1>4, ParseStartLineStep
<1>5. CASE ParseFieldLine
  BY <1>5, ParseFieldLineStep
<1>6. CASE Spin
  BY <1>6, SpinStep
<1>7. CASE HandleChunk
  BY <1>7, HandleChunkStep
<1>8. CASE TakeLength
  BY <1>8, TakeLengthStep
<1>9. CASE NoBody
  BY <1>9, NoBodyStep
<1>10. CASE Reply
  BY <1>10, ReplyStep
<1>11. CASE Execute
  BY <1>11, ExecuteStep
<1>12. CASE Dispatch
  BY <1>12, DispatchStep
<1>13. CASE Unread
  BY <1>13, UnreadStep
<1>14. CASE WriteEvent
  BY <1>14, WriteEventStep
<1>15. QED
  BY <1>1, <1>2, <1>3, <1>4, <1>5, <1>6, <1>7, <1>8, <1>9, <1>10, <1>11, <1>12, <1>13, <1>14
     DEF Next, Loop, ParseBody

LEMMA AlwaysIInv == Spec => []IInv
<1>1. Init => IInv
  BY InitIInv
<1>2. IInv /\ [Next]_vars => IInv'
  BY NextIInv
<1>3. QED
  BY <1>1, <1>2, PTL DEF Spec

\* The HTTP object, the buffer and the phase of the loop keep their types, and
\* between two segments the object is in a state another segment may continue.
THEOREM ParserTypeCorrect == Spec => []TypeOK
<1>1. ASSUME IInv PROVE TypeOK
  <2>1. {buffer[i] : i \in 1 .. Len(buffer)} \subseteq {Tokens[i] : i \in 1 .. sent}
    <3>1. PICK k \in 0 .. sent : At(k)
      BY <1>1 DEF IInv, Shapes
    <3>2. sent \in Nat /\ k \in Nat
      BY <1>1, Typed
    <3>3. Len(buffer) = sent - k /\ \A i \in 1 .. sent - k : buffer[i] = Tokens[k + i]
      BY <1>1, <3>1, <3>2, BufferIs
    <3>4. \A i \in 1 .. sent - k : k + i \in 1 .. sent
      BY <3>2
    <3>5. QED
      BY <3>3, <3>4
  <2>2. r.state = PENDING_START_LINE => r = Fresh /\ fields = NoFields
    <3>1. CASE phase \in Gone
      BY <1>1, <3>1 DEF IInv, Phases
    <3>2. CASE phase \notin Gone
      BY <1>1, <3>2, Beginning DEF Begun, InStart
    <3>3. QED
      BY <3>1, <3>2
  <2>3. phase = "recv" => r.state \in {PENDING_START_LINE, PENDING_HEADERS, PENDING_BODY, COMPLETE}
    BY <1>1 DEF IInv, Phases
  <2>4. working \in Nat /\ write \in BOOLEAN /\ hasty \in BOOLEAN
    BY <1>1 DEF IInv, Answered, Patient
  <2>5. QED
    BY <1>1, <2>1, <2>2, <2>3, <2>4, Typed DEF TypeOK
<1>2. QED
  BY <1>1, AlwaysIInv, PTL

\* A request that is accepted has the body its client sent, however long, if
\* the body came in one piece (parse_body, handle_content_length and
\* handle_chunk).
THEOREM AlwaysWholeBodyIntact == Spec => []WholeBodyIntact
<1>1. IInv => WholeBodyIntact
  BY DEF IInv
<1>2. QED
  BY <1>1, AlwaysIInv, PTL

\* The loop of recv_request() hangs for nothing but a coding that is not
\* chunked, or a segment that ended right behind a chunk's size.
THEOREM AlwaysHungCause == Spec => []HungCause
<1>1. IInv => HungCause
  BY DEF IInv
<1>2. QED
  BY <1>1, AlwaysIInv, PTL

\* Where the second request begins, if a segment ended there.
LEMMA SecondIs ==
  ASSUME IInv, NEW k \in cuts, k < sent, Tokens[k + 1].kind = "start"
  PROVE  k = First /\ Tokens[k + 1] = TheNext[1]
<1>1. /\ k \in Nat /\ k >= 1 /\ sent \in Nat /\ sent <= Len(Tokens) /\ Len(Tokens) \in Nat
      /\ req \in Streams
  BY Typed
<1>2. PICK f, n \in Nat : f = First /\ n = Len(TheNext) /\ Len(Tokens) = f + n
  BY <1>1, StreamIs
<1>3. k + 1 = 1 \/ k + 1 = First + 1
  <2>1. k + 1 \in 1 .. Len(Tokens)
    BY <1>1
  <2>2. QED
    BY <1>1, <2>1, StartsAt
<1>4. k = f
  BY <1>1, <1>2, <1>3
<1>5. 1 \in 1 .. n
  BY <1>1, <1>2, <1>4
<1>6. QED
  BY <1>1, <1>2, <1>4, <1>5, StreamIs

\* Of two requests sent one behind the other the second is answered as what it
\* is only if a reply was made, by whatever process, when all of the first and
\* nothing of the second had arrived (HTTP_request.cpp:31, HTTP_response.cpp:62);
\* and if segments ended nowhere else, and none came while a request was
\* complete, none is answered twice.
THEOREM AlwaysAnsweredApart == Spec => []AnsweredApart
<1>1. ASSUME IInv PROVE AnsweredAlone
  <2> SUFFICES ASSUME NEW i \in 1 .. Len(replies), replies[i].ok, i > 1
               PROVE  /\ First \in cuts /\ \E j \in 1 .. i - 1 : replies[j].at = First
                      /\ replies[i].method = req.next[1].method
    BY DEF AnsweredAlone
  <2>1. PICK k \in cuts \cup {0} :
           /\ k < sent
           /\ k = 0 <=> i = 1
           /\ k # 0 => \E j \in 1 .. i - 1 : replies[j].at = k
           /\ replies[i].method = MethodAt(Tokens[k + 1])
           /\ replies[i].ok => Tokens[k + 1].kind = "start"
    BY <1>1 DEF IInv, Answered, About, For
  <2>2. Len(replies) \in Nat
    BY <1>1, Typed
  <2>3. k \in cuts /\ k # 0
    BY <2>1, <2>2
  <2>4. k = First /\ Tokens[k + 1] = TheNext[1]
    BY <1>1, <2>1, <2>3, SecondIs
  <2>5. QED
    BY <2>1, <2>3, <2>4 DEF MethodAt, TheNext
<1>2. ASSUME IInv PROVE OneReplyEach
  <2> SUFFICES ASSUME cuts \subseteq {First, Len(Tokens)}, ~hasty, NEW i \in 1 .. Len(replies)
               PROVE  replies[i].method = IF i = 1 THEN req.head[1].method ELSE req.next[1].method
    <3>1. ~hasty => Len(replies) <= Cardinality(cuts)
      BY <1>2 DEF IInv, Answered, Counted
    <3>2. QED
      BY <3>1 DEF OneReplyEach
  <2>1. PICK k \in cuts \cup {0} :
           /\ k < sent
           /\ k = 0 <=> i = 1
           /\ replies[i].method = MethodAt(Tokens[k + 1])
    BY <1>2 DEF IInv, Answered, About, For
  <2>2. /\ req \in Streams /\ sent \in Nat /\ sent <= Len(Tokens) /\ cuts \subseteq 1 .. sent
        /\ Len(Tokens) \in Nat
    BY <1>2, Typed
  <2>3. k \in Nat /\ k < Len(Tokens)
    BY <2>1, <2>2
  <2>4. k \in {0, First}
    BY <2>1, <2>2, <2>3
  <2>5. IsHead(HeadAt(k)) /\ Tokens[k + 1] = HeadAt(k)[1]
    <3>1. /\ IsHead(HeadAt(k)) /\ Len(HeadAt(k)) \in Nat /\ Len(HeadAt(k)) > 2
          /\ \A j \in 1 .. Len(HeadAt(k)) : Tokens[k + j] = HeadAt(k)[j]
      BY <2>2, <2>3, <2>4, HeadIs
    <3>2. 1 \in 1 .. Len(HeadAt(k))
      BY <3>1
    <3>3. QED
      BY <3>1, <3>2
  <2>6. Tokens[k + 1].kind = "start"
    BY <2>5, HeadHasStart
  <2>7. HeadAt(k) = IF i = 1 THEN TheHead ELSE TheNext
    BY <2>1 DEF HeadAt
  <2>8. QED
    BY <2>1, <2>5, <2>6, <2>7 DEF MethodAt, TheHead, TheNext
<1>3. IInv => AnsweredApart
  BY <1>1, <1>2 DEF AnsweredApart
<1>4. QED
  BY <1>3, AlwaysIInv, PTL

\* Every call of parse() changes the object's state, method and connection
\* header in one of the ways of Request's Parse, until a reply or a WRITE event
\* clears them: what Webserv takes a request to be is what the parser makes of
\* it, and between two segments nothing but an event clears it.
THEOREM AlwaysStepsAreParses == Spec => StepsAreParses
<1> DEFINE A == r' # r => \/ phase = "parse" /\ r' \in Parse(r)
                          \/ phase = "parse" /\ r.state \in {COMPLETE, BAD_REQUEST} /\ r' = Fresh
                          \/ phase = "recv" /\ <<working, write>>' # <<working, write>> /\ r' = Fresh
<1>1. ASSUME IInv, IInv', [Next]_vars PROVE [A]_vars
  <2> SUFFICES ASSUME r' # r
               PROVE  \/ phase = "parse" /\ r' \in Parse(r)
                      \/ phase = "parse" /\ r.state \in {COMPLETE, BAD_REQUEST} /\ r' = Fresh
                      \/ phase = "recv" /\ <<working, write>>' # <<working, write>> /\ r' = Fresh
    OBVIOUS
  <2>1. /\ r \in [state : ParserState \cup {BAD_REQUEST, SPINNING},
                  method : Method \cup {None}, conn : ConnHeader \cup {"absent"}]
        /\ r' \in [state : ParserState \cup {BAD_REQUEST, SPINNING},
                   method : Method \cup {None}, conn : ConnHeader \cup {"absent"}]
    <3>1. Shapes /\ Shapes'
      BY <1>1 DEF IInv
    <3>2. QED
      BY <3>1 DEF Shapes
  <2>2. CASE ParseStartLine
    <3> DEFINE line == IF buffer[1].kind = "start" THEN buffer[1] ELSE Start(None, FALSE)
    <3>1. /\ r.state = PENDING_START_LINE /\ phase = "parse"
          /\ Eol(buffer) # 0
          /\ r' = [r EXCEPT !.state = IF line.ok THEN PENDING_HEADERS ELSE BAD_REQUEST,
                            !.method = line.method]
      BY <2>2, Zenon DEF ParseStartLine, MethodOf
    <3>2. r'.method \in Method \cup {None} /\ r'.method = line.method
      BY <2>1, <3>1
    <3>3. line.ok => line.method \in Method
      <4>1. PICK b \in cuts \cup {0} : Begun(b) /\ b \in Nat /\ b <= sent
        BY <1>1, <3>1, Beginning DEF Gone
      <4>2. At(b)
        BY <3>1, <4>1 DEF Begun, InStart
      <4>3. /\ buffer[1] = Tokens[b + 1] /\ b + 1 \in 1 .. Len(Tokens)
            /\ sent \in Nat /\ sent <= Len(Tokens) /\ Len(Tokens) \in Nat /\ req \in Streams
        BY <1>1, <3>1, <4>1, <4>2, LineTaken, Typed
      <4>4. CASE buffer[1].kind = "start"
        <5>1. b + 1 = 1 \/ b + 1 = First + 1
          BY <4>3, <4>4, StartsAt
        <5>2. First \in Nat
          BY <4>3, StreamIs
        <5>3. b \in {0, First} /\ b < Len(Tokens)
          BY <4>1, <4>3, <5>1, <5>2
        <5>4. /\ IsHead(HeadAt(b)) /\ Len(HeadAt(b)) \in Nat /\ Len(HeadAt(b)) > 2
              /\ \A j \in 1 .. Len(HeadAt(b)) : Tokens[b + j] = HeadAt(b)[j]
          BY <4>3, <5>3, HeadIs
        <5>5. 1 \in 1 .. Len(HeadAt(b))
          BY <5>4
        <5>6. line = HeadAt(b)[1]
          BY <4>3, <4>4, <5>4, <5>5
        <5>7. QED
          BY <5>4, <5>6, HeadHasStart
      <4>5. CASE buffer[1].kind # "start"
        BY <4>5 DEF Start
      <4>6. QED
        BY <4>4, <4>5
    <3> HIDE DEF line
    <3>4. CASE line.ok
      <4>1. r' \in {[r EXCEPT !.state = PENDING_HEADERS, !.method = m] : m \in Method}
        BY <3>1, <3>3, <3>4
      <4>2. QED
        BY <3>1, <4>1 DEF Parse, StartLine
    <3>5. CASE ~line.ok
      <4>1. r' \in {[r EXCEPT !.state = BAD_REQUEST, !.method = m] : m \in Method \cup {None}}
        BY <3>1, <3>2, <3>5
      <4>2. QED
        BY <3>1, <4>1 DEF Parse, StartLine
    <3>6. QED
      BY <3>4, <3>5
  <2>3. CASE ParseFieldLine
    <3> DEFINE c == "connection"
               line == buffer[1]
    <3>1. /\ r.state = PENDING_HEADERS /\ phase = "parse"
          /\ line = EOL => r' = [r EXCEPT !.state = PENDING_BODY]
          /\ line # EOL =>
               /\ fields' = Insert(fields, line.name, line.value)
               /\ r' = [r EXCEPT !.conn = IF c \in DOMAIN fields' THEN fields'[c] ELSE "absent"]
      BY <2>3, Zenon DEF ParseFieldLine
    <3>2. CASE line = EOL
      BY <3>1, <3>2 DEF Parse, FieldLine, PENDING_START_LINE, PENDING_HEADERS
    <3>3. CASE line # EOL
      <4>1. /\ r' = [r EXCEPT !.conn = IF c \in DOMAIN fields' THEN fields'[c] ELSE "absent"]
            /\ fields' = Insert(fields, line.name, line.value)
        BY <3>1, <3>3
      <4>2. r'.conn = (IF c \in DOMAIN fields' THEN fields'[c] ELSE "absent")
            /\ r'.conn # r.conn
        BY <2>1, <4>1
      <4>3. r.conn = IF c \in DOMAIN fields THEN fields[c] ELSE "absent"
        BY <1>1 DEF IInv, ConnTold
      <4>4. c \in DOMAIN fields => c \in DOMAIN fields' /\ fields'[c] = fields[c]
        BY <4>1 DEF Insert
      <4>5. r.conn = "absent" /\ r'.conn \in ConnHeader
        BY <2>1, <4>2, <4>3, <4>4
      <4>6. r' = [r EXCEPT !.conn = r'.conn]
        BY <2>1, <4>1
      <4>7. QED
        BY <3>1, <4>5, <4>6 DEF Parse, FieldLine, PENDING_START_LINE, PENDING_HEADERS
    <3>4. QED
      BY <3>2, <3>3
  <2>4. ASSUME InBody, NEW s, Become(s), s \in {COMPLETE, BAD_REQUEST, SPINNING}
        PROVE  phase = "parse" /\ r' \in Parse(r)
    <3>1. r' \in Body(r)
      BY <2>4 DEF Become, Body
    <3>2. phase = "parse" /\ r.state = PENDING_BODY
      BY <2>4 DEF InBody
    <3>3. QED
      BY <3>1, <3>2 DEF Parse, PENDING_START_LINE, PENDING_HEADERS, PENDING_BODY
  <2>5. CASE Spin
    <3>1. InBody /\ Become(SPINNING)
      BY <2>5, Zenon DEF Spin
    <3>2. QED
      BY <2>4, <3>1
  <2>6. CASE HandleChunk
    <3>1. InBody /\ Become(COMPLETE)
      BY <2>6, Zenon DEF HandleChunk
    <3>2. QED
      BY <2>4, <3>1
  <2>7. CASE TakeLength
    <3> DEFINE outcome == LengthOutcome(Len(body) + Len(buffer), fields["content-length"])
    <3>1. InBody /\ Become(outcome)
      BY <2>7, Zenon DEF TakeLength
    <3>2. outcome \in {COMPLETE, BAD_REQUEST, PENDING_BODY}
      BY DEF LengthOutcome
    <3> HIDE DEF outcome
    <3>3. outcome # PENDING_BODY
      <4>1. r' = [r EXCEPT !.state = outcome] /\ r.state = PENDING_BODY
        BY <3>1 DEF InBody, Become
      <4>2. QED
        BY <2>1, <4>1
    <3>4. QED
      BY <2>4, <3>1, <3>2, <3>3
  <2>8. CASE NoBody
    <3>1. InBody /\ Become(COMPLETE)
      BY <2>8, Zenon DEF NoBody
    <3>2. QED
      BY <2>4, <3>1
  <2>9. CASE Reply
    <3>1. phase = "parse" /\ r.state \in {COMPLETE, BAD_REQUEST} /\ Answer(FALSE)
      BY <2>9, Zenon DEF Reply
    <3>2. QED
      BY <3>1 DEF Answer, ClearRequest
  <2>10. CASE Recv \/ NeedLine \/ Execute \/ Unread \/ UNCHANGED vars
    <3>1. r' = r
      BY <2>10 DEF Recv, NeedLine, Wait, Execute, Unread, vars
    <3>2. QED
      BY <3>1
  <2>11. CASE Dispatch
    <3>1. /\ phase = "recv" /\ working > 0 /\ working' = working - 1
          /\ \E closes \in BOOLEAN : Answer(closes)
      BY <2>11, Zenon DEF Dispatch
    <3>2. r' = Fresh
      BY <3>1 DEF Answer, ClearRequest
    <3>3. working \in Nat
      BY <1>1 DEF IInv, Answered, Patient
    <3>4. QED
      BY <3>1, <3>2, <3>3
  <2>12. CASE WriteEvent
    BY <2>12 DEF WriteEvent, ClearRequest
  <2>13. QED
    BY <1>1, <2>2, <2>3, <2>5, <2>6, <2>7, <2>8, <2>9, <2>10, <2>11, <2>12
       DEF Next, Loop, ParseBody
<1>2. QED
  BY <1>1, AlwaysIInv, PTL DEF Spec, StepsAreParses
=============================================================================
