---------------------------- MODULE RepliesProofs ---------------------------
(***************************************************************************)
(* Proofs about Replies, for any requests and any number of processes: no  *)
(* part of a reply is sent twice, two requests are mixed up only for the   *)
(* causes MixedCause names, and a client that waits is served in order.    *)
(***************************************************************************)
EXTENDS Replies, SequenceTheorems, FiniteSetTheorems, TLAPS

PartRec == [what : {"page", "chunks", "content", "output"}, of : Nat, from : Worker \cup {Nothing}]
Status == [code : Nat, of : Nat]
Sent == [status : Status, length : Nat \cup {Nothing}, body : Seq(PartRec), head : BOOLEAN, to : Nat]

Calm == upset \cap {"impatient", "cleared", "truncated"} = {}
Waits == upset \subseteq {"split", "gone"}
Steady == upset \cap {"unread", "gone", "swallowed"} = {}
Busy == {c \in Worker : worksFor[c] # 0}

\* A request that is under way is the last one begun; what chunks have brought
\* waits in the response, and a read that failed leaves its status there.
Shapes ==
  /\ RepliesTypeOK
  /\ wire \in Seq(Sent)
  /\ request # Nothing => request \in Request /\ request.n = count /\ count > 0
  /\ response \in [status : Status, body : Seq(PartRec)]
  /\ response.status = Unset \/ response.status \in [code : {BAD_GATEWAY}, of : 1 .. count]
  /\ response.body = <<>> \/ (stage = "complete" /\ response.body = Chunks(request))

\* What was sent is not of the request under way, and a process whose output
\* was sent does not work for that request again.
SpentPart(p) ==
  /\ p.of \in 1 .. count
  /\ request # Nothing => p.of < count
  /\ p.what = "output" => p.from \in Worker /\ worksFor[p.from] # p.of

Spent == \A i \in 1 .. Len(wire) : \A j \in 1 .. Len(wire[i].body) : SpentPart(wire[i].body[j])

\* As long as nobody was impatient, no request was cleared and no chunks were
\* cut, one process at most works, and for the request that is complete; and
\* what is in the buffer is of the request under way.
Pure(w, causes) ==
  /\ w.status.code \in {BAD_REQUEST_400, NOT_IMPLEMENTED} => "split" \in causes
  /\ \E n \in Nat : /\ w.to = n
                    /\ w.status = Unset \/ w.status.of = n
                    /\ \A j \in 1 .. Len(w.body) : w.body[j].of = n

InCalm ==
  Calm =>
    /\ owes # "nothing" <=> stage = "partial"
    /\ buffer # "empty" => stage = "complete" \/ (stage = "partial" /\ "split" \in upset)
    /\ \A c \in Worker : worksFor[c] # 0 => stage = "complete" /\ worksFor[c] = count
    /\ \A c, d \in Worker : worksFor[c] # 0 /\ worksFor[d] # 0 => c = d
    /\ response.status # Unset => response.status.of = count
    /\ \A i \in 1 .. Len(wire) : Pure(wire[i], upset)

\* A request without a reply is half sent or has a process.
Owed == IF owes = "nothing" THEN 0 ELSE 1
Counted ==
  /\ IsFiniteSet(Busy)
  /\ Steady => count <= Len(wire) + Cardinality(Busy) + Owed

\* The replies are those of the requests, in order.
InOrder ==
  Waits =>
    /\ Len(wire) = IF stage = "start" /\ owes = "nothing" THEN count ELSE count - 1
    /\ \A i \in 1 .. Len(wire) : wire[i].to = i

\* What the replies sent are, by themselves.
WireInv == wire \in Seq(Sent) /\ Spent /\ RepliesFramed

\* The inductive invariant.
IInv == Shapes /\ Spent /\ RepliesFramed /\ InCalm /\ InOrder /\ Counted

-----------------------------------------------------------------------------
(* Replies                                                                   *)

Framed(w) ==
  IF w.length # Nothing THEN w.length = Len(w.body)
  ELSE /\ w.head
       /\ \A j \in 1 .. Len(w.body) : w.body[j].what \in {"chunks", "output"}

AllDistinct(b) == \A j, k \in 1 .. Len(b) : b[j] = b[k] => j = k

\* The same without pairs.
PiecesOf(w) == UNION {{<<i, j>> : j \in 1 .. Len(w[i].body)} : i \in 1 .. Len(w)}
Distinct(w) ==
  \A i, k \in 1 .. Len(w) : \A j \in 1 .. Len(w[i].body) : \A l \in 1 .. Len(w[k].body) :
    w[i].body[j] = w[k].body[l] => i = k /\ j = l

LEMMA PiecesDiffer ==
  ASSUME NEW w
  PROVE  (\A p, q \in PiecesOf(w) : w[p[1]].body[p[2]] = w[q[1]].body[q[2]] => p = q)
         <=> Distinct(w)
<1>1. \A i \in 1 .. Len(w) : \A j \in 1 .. Len(w[i].body) : <<i, j>> \in PiecesOf(w)
  BY DEF PiecesOf
<1>2. \A p \in PiecesOf(w) : \E i \in 1 .. Len(w) : \E j \in 1 .. Len(w[i].body) : p = <<i, j>>
  BY DEF PiecesOf
<1>3. ASSUME \A p, q \in PiecesOf(w) : w[p[1]].body[p[2]] = w[q[1]].body[q[2]] => p = q,
             NEW i \in 1 .. Len(w), NEW k \in 1 .. Len(w),
             NEW j \in 1 .. Len(w[i].body), NEW l \in 1 .. Len(w[k].body),
             w[i].body[j] = w[k].body[l]
      PROVE  i = k /\ j = l
  <2>1. <<i, j>> \in PiecesOf(w) /\ <<k, l>> \in PiecesOf(w)
    BY <1>1
  <2>2. <<i, j>>[1] = i /\ <<i, j>>[2] = j /\ <<k, l>>[1] = k /\ <<k, l>>[2] = l
    OBVIOUS
  <2>3. <<i, j>> = <<k, l>>
    BY <1>3, <2>1, <2>2
  <2>4. QED
    BY <2>3
<1>4. ASSUME Distinct(w), NEW p \in PiecesOf(w), NEW q \in PiecesOf(w),
             w[p[1]].body[p[2]] = w[q[1]].body[q[2]]
      PROVE  p = q
  <2>1. PICK i \in 1 .. Len(w) : \E j \in 1 .. Len(w[i].body) : p = <<i, j>>
    BY <1>2
  <2>2. PICK j \in 1 .. Len(w[i].body) : p = <<i, j>>
    BY <2>1
  <2>3. PICK k \in 1 .. Len(w) : \E l \in 1 .. Len(w[k].body) : q = <<k, l>>
    BY <1>2
  <2>4. PICK l \in 1 .. Len(w[k].body) : q = <<k, l>>
    BY <2>3
  <2>5. w[i].body[j] = w[k].body[l]
    BY <1>4, <2>2, <2>4
  <2>6. QED
    BY <1>4, <2>2, <2>4, <2>5 DEF Distinct
<1>5. QED
  BY <1>3, <1>4 DEF Distinct

LEMMA SentTwice ==
  /\ NothingSentTwice <=> Distinct(wire)
  /\ NothingSentTwice' <=> Distinct(wire')
<1>1. NothingSentTwice <=> Distinct(wire)
  BY PiecesDiffer, Zenon DEF NothingSentTwice, Pieces, PiecesOf
<1>2. NothingSentTwice' <=> Distinct(wire')
  BY PiecesDiffer, Zenon DEF NothingSentTwice, Pieces, PiecesOf
<1>3. QED
  BY <1>1, <1>2

\* One more reply, with parts that are new.
LEMMA WireGrows ==
  ASSUME WireInv, NEW w \in Sent, wire' = Append(wire, w),
         count \in Nat, count' \in Nat, count <= count', request' = Nothing,
         worksFor \in [Worker -> Nat],
         \A c \in Worker : worksFor'[c] \in {worksFor[c], 0},
         Framed(w), AllDistinct(w.body),
         \A j \in 1 .. Len(w.body) :
           /\ w.body[j].of \in 1 .. count'
           /\ w.body[j].what = "output" =>
                w.body[j].from \in Worker /\ worksFor'[w.body[j].from] # w.body[j].of
           /\ \A i \in 1 .. Len(wire) : \A l \in 1 .. Len(wire[i].body) :
                wire[i].body[l] # w.body[j]
  PROVE  WireInv'
<1>1. /\ wire' \in Seq(Sent) /\ Len(wire') = Len(wire) + 1 /\ Len(wire) \in Nat
      /\ \A i \in 1 .. Len(wire) : wire'[i] = wire[i]
      /\ wire'[Len(wire) + 1] = w
  BY DEF WireInv
<1>2. \A i \in 1 .. Len(wire') : i \in 1 .. Len(wire) \/ i = Len(wire) + 1
  BY <1>1
<1>3. Spent'
  <2> SUFFICES ASSUME NEW i \in 1 .. Len(wire'), NEW j \in 1 .. Len(wire'[i].body)
               PROVE  SpentPart(wire[i].body[j])'
    BY DEF Spent
  <2>1. CASE i \in 1 .. Len(wire)
    <3>1. SpentPart(wire[i].body[j]) /\ wire'[i].body[j] = wire[i].body[j]
      BY <1>1, <2>1 DEF WireInv, Spent
    <3>2. QED
      BY <3>1 DEF SpentPart
  <2>2. CASE i = Len(wire) + 1
    BY <1>1, <2>2 DEF SpentPart
  <2>3. QED
    BY <1>2, <2>1, <2>2
<1>4. LengthTold'
  BY <1>1, <1>2 DEF WireInv, RepliesFramed, LengthTold, Framed
<1>5. NothingSentTwice'
  <2> SUFFICES ASSUME NEW i \in 1 .. Len(wire'), NEW k \in 1 .. Len(wire'),
                      NEW j \in 1 .. Len(wire'[i].body), NEW l \in 1 .. Len(wire'[k].body),
                      wire'[i].body[j] = wire'[k].body[l]
               PROVE  i = k /\ j = l
    BY SentTwice DEF Distinct
  <2>1. CASE i \in 1 .. Len(wire) /\ k \in 1 .. Len(wire)
    BY <1>1, <2>1, SentTwice DEF WireInv, RepliesFramed, Distinct
  <2>2. CASE i = Len(wire) + 1 /\ k = Len(wire) + 1
    BY <1>1, <2>2 DEF AllDistinct
  <2>3. CASE i = Len(wire) + 1 /\ k \in 1 .. Len(wire)
    BY <1>1, <2>3
  <2>4. CASE i \in 1 .. Len(wire) /\ k = Len(wire) + 1
    BY <1>1, <2>4
  <2>5. QED
    BY <1>2, <2>1, <2>2, <2>3, <2>4
<1>6. QED
  BY <1>1, <1>3, <1>4, <1>5 DEF WireInv, RepliesFramed

\* No reply: a process may be given the request under way.
LEMMA WireStays ==
  ASSUME WireInv, wire' = wire, count \in Nat, count' \in Nat, count <= count',
         request' # Nothing => count < count' \/ request # Nothing,
         worksFor \in [Worker -> Nat],
         \A c \in Worker : \/ worksFor'[c] \in {worksFor[c], 0}
                           \/ worksFor'[c] = count' /\ request' # Nothing
  PROVE  WireInv'
<1>1. Spent'
  <2> SUFFICES ASSUME NEW i \in 1 .. Len(wire), NEW j \in 1 .. Len(wire[i].body)
               PROVE  SpentPart(wire[i].body[j])'
    BY DEF Spent
  <2>1. SpentPart(wire[i].body[j])
    BY DEF WireInv, Spent
  <2>2. wire'[i].body[j] = wire[i].body[j]
    OBVIOUS
  <2>3. QED
    BY <2>1, <2>2 DEF SpentPart
<1>2. RepliesFramed'
  BY DEF WireInv, RepliesFramed, NothingSentTwice, LengthTold, Pieces
<1>3. QED
  BY <1>1, <1>2 DEF WireInv

-----------------------------------------------------------------------------
(* Answers                                                                   *)

Response == [status : Status, body : Seq(PartRec)]
OfRequest(n) == {Part("chunks", n, Nothing), Part("content", n, Nothing), Part("page", n, Nothing)}

LEMMA ChunksIs ==
  ASSUME NEW rq \in Request, NEW b \in {<<>>, Chunks(rq)}
  PROVE  /\ b \in Seq(PartRec)
         /\ Len(b) \in 0 .. 1
         /\ \A j \in 1 .. Len(b) : b[j] = Part("chunks", rq.n, Nothing)
<1>1. rq.n \in Nat
  BY DEF Request
<1>2. Part("chunks", rq.n, Nothing) \in PartRec
  BY <1>1 DEF Part, PartRec
<1> DEFINE p == Part("chunks", rq.n, Nothing)
<1>3. b = <<>> \/ b = <<p>>
  BY DEF Chunks
<1> HIDE DEF p
<1>4. CASE b = <<>>
  BY <1>4
<1>5. CASE b = <<p>>
  BY <1>2, <1>5 DEF p
<1>6. QED
  BY <1>3, <1>4, <1>5

LEMMA WithIs ==
  ASSUME NEW r \in Response, NEW code \in Nat, NEW n \in Nat
  PROVE  /\ With(r, code, n) \in Response
         /\ With(r, code, n).status = [code |-> code, of |-> n]
         /\ With(r, code, n).body = r.body
<1>1. r = [status |-> r.status, body |-> r.body] /\ r.body \in Seq(PartRec)
  BY DEF Response
<1>2. With(r, code, n) = [status |-> [code |-> code, of |-> n], body |-> r.body]
  BY <1>1 DEF With
<1>3. [code |-> code, of |-> n] \in Status
  BY DEF Status
<1>4. QED
  BY <1>1, <1>2, <1>3 DEF Response

LEMMA AddIs ==
  ASSUME NEW r \in Response, NEW part \in PartRec
  PROVE  /\ Add(r, part) \in Response
         /\ Add(r, part).status = r.status
         /\ Add(r, part).body = Append(r.body, part)
<1>1. r = [status |-> r.status, body |-> r.body] /\ r.body \in Seq(PartRec) /\ r.status \in Status
  BY DEF Response
<1>2. Add(r, part) = [r EXCEPT !.body = Append(r.body, part)]
  BY DEF Add
<1>3. Add(r, part) = [status |-> r.status, body |-> Append(r.body, part)]
  BY <1>1, <1>2
<1>4. Append(r.body, part) \in Seq(PartRec)
  BY <1>1
<1>5. QED
  BY <1>1, <1>3, <1>4 DEF Response

\* What is composed of a response: its body, or a page in its place.
LEMMA ComposedIs ==
  ASSUME NEW r \in Response, NEW rq \in Request \cup {Nothing},
         rq # Nothing /\ rq.head =>
           \A j \in 1 .. Len(r.body) : r.body[j].what \in {"chunks", "output"}
  PROVE  /\ Composed(r, rq) \in Sent
         /\ Framed(Composed(r, rq))
         /\ Composed(r, rq).status = r.status
         /\ Composed(r, rq).to = IF rq = Nothing THEN 0 ELSE rq.n
         /\ \/ Composed(r, rq).body = r.body
            \/ /\ Composed(r, rq).body = <<Part("page", r.status.of, Nothing)>>
               /\ r.status.code \in Paged
<1>1. r.status \in Status /\ r.body \in Seq(PartRec) /\ r.status.of \in Nat
  BY DEF Response, Status
<1>2. Part("page", r.status.of, Nothing) \in PartRec
  BY <1>1 DEF Part, PartRec
<1>3. BodyOf(r, rq) \in Seq(PartRec)
  BY <1>1, <1>2 DEF BodyOf
<1>4. Nothing \notin Nat /\ Nothing \notin Request
  BY RepliesAssumption
<1>5. rq # Nothing => rq.n \in Nat /\ rq.head \in BOOLEAN
  BY <1>4 DEF Request
<1>6. Len(BodyOf(r, rq)) \in Nat
  BY <1>3
<1>7. Length(r, rq) \in Nat \cup {Nothing}
  BY <1>6 DEF Length
<1>8. Composed(r, rq) \in Sent
  BY <1>1, <1>3, <1>5, <1>7 DEF Composed, Sent
<1>9. Framed(Composed(r, rq))
  <2>1. CASE rq # Nothing /\ rq.head
    <3>1. BodyOf(r, rq) = r.body /\ Length(r, rq) = Nothing
      BY <2>1 DEF BodyOf, Length
    <3>2. QED
      BY <2>1, <3>1 DEF Framed, Composed
  <2>2. CASE ~(rq # Nothing /\ rq.head)
    BY <2>2, <1>4, <1>6 DEF Framed, Composed, Length
  <2>3. QED
    BY <2>1, <2>2
<1>10. QED
  BY <1>8, <1>9 DEF Composed, BodyOf

\* A reply, and what is forgotten with it.
Replied(w) ==
  /\ wire' = Append(wire, w)
  /\ unsent' = <<>>
  /\ request' = Nothing
  /\ response' = Empty
  /\ stage' = "start"
  /\ buffer' = "empty"

LEMMA ReplyIs ==
  ASSUME unsent = <<>>, wire \in Seq(Sent), NEW r, NEW rq, Composed(r, rq) \in Sent, Reply(r, rq)
  PROVE  Replied(Composed(r, rq))
<1> DEFINE w == Composed(r, rq)
<1>1. Append(unsent, w) = <<w>>
  OBVIOUS
<1>2. wire' = wire \o Append(unsent, w)
  BY DEF Reply, SendAll
<1>3. w \in Sent
  OBVIOUS
<1> HIDE DEF w
<1>4. wire \o <<w>> = Append(wire, w)
  BY <1>3
<1>5. wire' = Append(wire, w)
  BY <1>1, <1>2, <1>4
<1>6. QED
  BY <1>5 DEF w, Reply, SendAll, ResponseAfter, Replied

LEMMA Codes ==
  /\ {OK, BAD_REQUEST_400, NOT_FOUND, CONTENT_TOO_LARGE, UNPROCESSABLE_CONTENT, NOT_IMPLEMENTED,
      BAD_GATEWAY, GATEWAY_TIMEOUT} \subseteq Nat
  /\ \A code \in {0, OK, UNPROCESSABLE_CONTENT, NOT_IMPLEMENTED, BAD_GATEWAY, GATEWAY_TIMEOUT} :
       code \notin Paged
  /\ \A code \in {0, OK, NOT_FOUND, CONTENT_TOO_LARGE, UNPROCESSABLE_CONTENT, BAD_GATEWAY,
                  GATEWAY_TIMEOUT} :
       code \notin {BAD_REQUEST_400, NOT_IMPLEMENTED}
  BY DEF OK, BAD_REQUEST_400, NOT_FOUND, CONTENT_TOO_LARGE, UNPROCESSABLE_CONTENT, NOT_IMPLEMENTED,
         BAD_GATEWAY, GATEWAY_TIMEOUT, Paged

\* What a request is answered with: chunks, content or a page, and a status.
Answer(w, rq, statuses) ==
  /\ w \in Sent
  /\ Framed(w)
  /\ AllDistinct(w.body)
  /\ w.to = rq.n
  /\ w.status \in statuses
  /\ \A j \in 1 .. Len(w.body) : w.body[j] \in OfRequest(rq.n)

\* A reply with no more of a body than chunks, or a page in its place.
LEMMA ReplyAnswers ==
  ASSUME unsent = <<>>, wire \in Seq(Sent), NEW rq \in Request, NEW s \in Response,
         s.body \in {<<>>, Chunks(rq)},
         s.status.code \in Paged => s.status.of = rq.n,
         Reply(s, rq)
  PROVE  \E w \in Sent : Answer(w, rq, {s.status}) /\ Replied(w)
<1> DEFINE w == Composed(s, rq)
<1>1. rq # Nothing
  BY RepliesAssumption
<1>2. /\ s.body \in Seq(PartRec)
      /\ Len(s.body) \in 0 .. 1
      /\ \A j \in 1 .. Len(s.body) : s.body[j] = Part("chunks", rq.n, Nothing)
  BY ChunksIs
<1>3. \A j \in 1 .. Len(s.body) : s.body[j].what \in {"chunks", "output"}
  BY <1>2 DEF Part
<1>4. /\ w \in Sent /\ Framed(w) /\ w.status = s.status /\ w.to = rq.n
      /\ \/ w.body = s.body
         \/ w.body = <<Part("page", s.status.of, Nothing)>> /\ s.status.code \in Paged
  BY <1>1, <1>3, ComposedIs
<1>5. Replied(w)
  BY <1>4, ReplyIs
<1> HIDE DEF w
<1>6. AllDistinct(w.body) /\ \A j \in 1 .. Len(w.body) : w.body[j] \in OfRequest(rq.n)
  <2>1. CASE w.body = s.body
    BY <1>2, <2>1 DEF AllDistinct, OfRequest
  <2>2. CASE w.body = <<Part("page", s.status.of, Nothing)>> /\ s.status.code \in Paged
    BY <2>2 DEF AllDistinct, OfRequest
  <2>3. QED
    BY <1>4, <2>1, <2>2
<1>7. Answer(w, rq, {s.status})
  BY <1>4, <1>6 DEF Answer
<1>8. QED
  BY <1>4, <1>5, <1>7

\* The reply with the content, behind chunks if there are some.
LEMMA ContentAnswers ==
  ASSUME unsent = <<>>, wire \in Seq(Sent), NEW rq \in Request, NEW s \in Response,
         s.body \in {<<>>, Chunks(rq)}, s.status = [code |-> OK, of |-> rq.n], ~rq.head,
         Reply(Add(s, Part("content", rq.n, Nothing)), rq)
  PROVE  \E w \in Sent : Answer(w, rq, {s.status}) /\ Replied(w)
<1> DEFINE content == Part("content", rq.n, Nothing)
           t == Add(s, content)
           w == Composed(t, rq)
           b == s.body
<1>1. /\ b \in Seq(PartRec)
      /\ Len(b) \in 0 .. 1
      /\ \A j \in 1 .. Len(b) : b[j] = Part("chunks", rq.n, Nothing)
  BY ChunksIs
<1>2. rq.n \in Nat /\ rq # Nothing
  BY RepliesAssumption DEF Request
<1>3. content \in PartRec
  BY <1>2 DEF Part, PartRec
<1>4. t \in Response /\ t.status = s.status /\ t.body = Append(b, content)
  BY <1>3, AddIs
<1>5. Reply(t, rq)
  OBVIOUS
<1> HIDE DEF t
<1>6. t.status.code \notin Paged
  BY <1>4, Codes
<1>7. /\ w \in Sent /\ Framed(w) /\ w.status = s.status /\ w.to = rq.n
      /\ w.body = Append(b, content)
  BY <1>2, <1>4, <1>6, ComposedIs
<1>8. Replied(w)
  BY <1>5, <1>7, ReplyIs
<1> HIDE DEF w
<1>9. /\ Len(w.body) = Len(b) + 1
      /\ \A j \in 1 .. Len(b) : w.body[j] = Part("chunks", rq.n, Nothing)
      /\ w.body[Len(b) + 1] = content
  BY <1>1, <1>3, <1>7
<1>10. Part("chunks", rq.n, Nothing) # content
  BY DEF Part
<1>11. AllDistinct(w.body)
  <2>1. CASE Len(b) = 0
    BY <1>9, <2>1 DEF AllDistinct
  <2>2. CASE Len(b) = 1
    BY <1>9, <1>10, <2>2 DEF AllDistinct
  <2>3. QED
    BY <1>1, <2>1, <2>2
<1>12. \A j \in 1 .. Len(w.body) : w.body[j] \in OfRequest(rq.n)
  BY <1>1, <1>9 DEF OfRequest
<1>13. Answer(w, rq, {s.status})
  BY <1>7, <1>11, <1>12 DEF Answer
<1>14. QED
  BY <1>7, <1>8, <1>13

Statuses(rq, r) ==
  {r.status} \cup [code : {NOT_FOUND, CONTENT_TOO_LARGE, BAD_GATEWAY, OK}, of : {rq.n}]

\* A request that is computed is answered, or a process is to answer it.
LEMMA ComputeIs ==
  ASSUME unsent = <<>>, wire \in Seq(Sent), NEW rq \in Request, NEW r \in Response,
         r.body \in {<<>>, Chunks(rq)}, r.status.code \notin Paged,
         NEW left, NEW cause, Compute(rq, r, left, cause)
  PROVE  \/ /\ \E w \in Sent : Answer(w, rq, Statuses(rq, r)) /\ Replied(w)
            /\ UNCHANGED worksFor
            /\ upset' = upset \cup cause
         \/ Forks(rq, r, left, cause)
<1>1. rq.n \in Nat
  BY DEF Request
<1>2. ASSUME NEW code \in {NOT_FOUND, CONTENT_TOO_LARGE, BAD_GATEWAY, OK}
      PROVE  /\ With(r, code, rq.n) \in Response
             /\ With(r, code, rq.n).status = [code |-> code, of |-> rq.n]
             /\ With(r, code, rq.n).body = r.body
  BY <1>1, Codes, WithIs
<1>3. ASSUME NEW s, s = r \/ \E code \in {NOT_FOUND, CONTENT_TOO_LARGE, BAD_GATEWAY, OK} :
                               s = With(r, code, rq.n),
             Reply(s, rq)
      PROVE  \E w \in Sent : Answer(w, rq, Statuses(rq, r)) /\ Replied(w)
  <2>1. /\ s \in Response /\ s.body \in {<<>>, Chunks(rq)}
        /\ s.status.code \in Paged => s.status.of = rq.n
        /\ s.status \in Statuses(rq, r)
    BY <1>2, <1>3 DEF Statuses
  <2>2. PICK w \in Sent : Answer(w, rq, {s.status}) /\ Replied(w)
    BY <1>3, <2>1, ReplyAnswers
  <2>3. Answer(w, rq, Statuses(rq, r))
    BY <2>1, <2>2 DEF Answer
  <2>4. QED
    BY <2>2, <2>3
<1>4. ASSUME ~rq.head, Reply(Add(With(r, OK, rq.n), Part("content", rq.n, Nothing)), rq)
      PROVE  \E w \in Sent : Answer(w, rq, Statuses(rq, r)) /\ Replied(w)
  <2> DEFINE s == With(r, OK, rq.n)
  <2>1. /\ s \in Response /\ s.body \in {<<>>, Chunks(rq)} /\ s.status = [code |-> OK, of |-> rq.n]
        /\ s.status \in Statuses(rq, r)
    BY <1>2 DEF Statuses
  <2>2. PICK w \in Sent : Answer(w, rq, {s.status}) /\ Replied(w)
    BY <1>4, <2>1, ContentAnswers
  <2>3. Answer(w, rq, Statuses(rq, r))
    BY <2>1, <2>2 DEF Answer
  <2>4. QED
    BY <2>2, <2>3
<1>5. CASE /\ \E s \in Said(rq, r) : Reply(s, rq)
           /\ upset' = upset \cup cause
           /\ UNCHANGED worksFor
  <2>1. PICK s \in Said(rq, r) : Reply(s, rq)
    BY <1>5
  <2>2. \/ s = r
        \/ \E code \in {NOT_FOUND, CONTENT_TOO_LARGE, BAD_GATEWAY, OK} : s = With(r, code, rq.n)
        \/ ~rq.head /\ s = Add(With(r, OK, rq.n), Part("content", rq.n, Nothing))
    BY Zenon DEF Said
  <2>3. \E w \in Sent : Answer(w, rq, Statuses(rq, r)) /\ Replied(w)
    BY <1>3, <1>4, <2>1, <2>2
  <2>4. QED
    BY <1>5, <2>3
<1>6. QED
  BY <1>5, Zenon DEF Compute

-----------------------------------------------------------------------------
(* Steps                                                                     *)

LEMMA Typed ==
  ASSUME IInv
  PROVE  /\ count \in Nat /\ count <= MaxRequests /\ MaxRequests \in Nat
         /\ owes \in {"nothing", "lines", "body"} /\ write \in BOOLEAN
         /\ stage \in {"start", "partial", "complete"}
         /\ buffer \in {"empty"} \cup Stray
         /\ request = Nothing <=> stage = "start"
         /\ stage = "partial" => owes # "nothing"
         /\ unsent = <<>>
         /\ worksFor \in [Worker -> 0 .. count] /\ worksFor \in [Worker -> Nat]
         /\ wire \in Seq(Sent) /\ Len(wire) \in Nat
         /\ response \in Response
         /\ upset \subseteq Upset
         /\ WireInv
<1>1. MaxRequests \in Nat
  BY RepliesAssumption
<1>2. RepliesTypeOK /\ wire \in Seq(Sent) /\ response \in Response
  BY Zenon DEF IInv, Shapes, Response
<1>3. WireInv
  BY <1>2 DEF IInv, WireInv
<1>4. count \in Nat /\ count <= MaxRequests
  BY <1>1, <1>2 DEF RepliesTypeOK
<1>5. worksFor \in [Worker -> Nat]
  BY <1>2, <1>4 DEF RepliesTypeOK
<1>6. QED
  BY <1>1, <1>2, <1>3, <1>4, <1>5 DEF RepliesTypeOK

LEMMA EmptyIs == Empty \in Response /\ Empty.status = Unset /\ Empty.body = <<>>
  BY DEF Empty, Response, Status, Unset

\* Nothing that has happened is forgotten.
LEMMA Grows ==
  ASSUME upset \subseteq upset'
  PROVE  /\ Calm' => Calm
         /\ Waits' => Waits
         /\ Steady' => Steady
         /\ Waits => Calm
         /\ Waits' => Calm'
  BY DEF Calm, Waits, Steady

\* The shape of things after a reply or a WRITE event.
LEMMA ClearedShapes ==
  ASSUME IInv, wire' \in Seq(Sent), stage' = "start", request' = Nothing, response' = Empty,
         unsent' = <<>>, owes' \in {"nothing", "lines", "body"}, write' \in BOOLEAN,
         buffer' \in {"empty"} \cup Stray,
         count' \in Nat, count <= count', count' <= MaxRequests,
         worksFor' = worksFor \/ \E c \in Worker : worksFor' = [worksFor EXCEPT ![c] = 0],
         upset' \subseteq Upset
  PROVE  Shapes'
<1>1. worksFor' \in [Worker -> 0 .. count']
  BY Typed
<1>2. RepliesTypeOK'
  BY <1>1, Typed DEF RepliesTypeOK
<1>3. /\ response' \in [status : Status, body : Seq(PartRec)]
      /\ response'.status = Unset /\ response'.body = <<>>
  BY EmptyIs DEF Response
<1>4. QED
  BY <1>2, <1>3 DEF Shapes

\* What a process that ends leaves of the busy ones.
LEMMA BusyEnds ==
  ASSUME IInv, NEW c \in Worker, Ends(c)
  PROVE  /\ Busy' = Busy \ {c} /\ c \in Busy
         /\ IsFiniteSet(Busy') /\ Cardinality(Busy) \in Nat /\ Cardinality(Busy') \in Nat
         /\ Cardinality(Busy') = Cardinality(Busy) - 1
         /\ worksFor' = [worksFor EXCEPT ![c] = 0]
         /\ \A d \in Worker : worksFor'[d] = IF d = c THEN 0 ELSE worksFor[d]
         /\ worksFor[c] \in 1 .. count
<1>1. worksFor \in [Worker -> 0 .. count] /\ worksFor[c] # 0 /\ worksFor' = [worksFor EXCEPT ![c] = 0]
  BY Typed DEF Ends
<1>2. \A d \in Worker : worksFor'[d] = IF d = c THEN 0 ELSE worksFor[d]
  BY <1>1
<1>3. Busy' = Busy \ {c} /\ c \in Busy
  BY <1>1, <1>2 DEF Busy
<1>4. IsFiniteSet(Busy)
  BY DEF IInv, Counted
<1>5. /\ IsFiniteSet(Busy')
      /\ Cardinality(Busy) \in Nat /\ Cardinality(Busy') \in Nat
      /\ Cardinality(Busy') = Cardinality(Busy) - 1
  BY <1>3, <1>4, FS_RemoveElement, FS_CardinalityType
<1>6. worksFor[c] \in 1 .. count
  BY <1>1, Typed
<1>7. QED
  BY <1>1, <1>2, <1>3, <1>5, <1>6

\* And one that starts.
LEMMA BusyStarts ==
  ASSUME IInv, NEW c \in Worker, NEW n \in Nat \ {0}, worksFor[c] = 0,
         worksFor' = [worksFor EXCEPT ![c] = n]
  PROVE  /\ IsFiniteSet(Busy') /\ Cardinality(Busy) \in Nat
         /\ Cardinality(Busy') = Cardinality(Busy) + 1
         /\ \A d \in Worker : worksFor'[d] = IF d = c THEN n ELSE worksFor[d]
<1>1. worksFor \in [Worker -> Nat]
  BY Typed
<1>2. \A d \in Worker : worksFor'[d] = IF d = c THEN n ELSE worksFor[d]
  BY <1>1
<1>3. Busy' = Busy \cup {c} /\ c \notin Busy
  BY <1>2 DEF Busy
<1>4. IsFiniteSet(Busy)
  BY DEF IInv, Counted
<1>5. /\ IsFiniteSet(Busy') /\ Cardinality(Busy) \in Nat
      /\ Cardinality(Busy') = Cardinality(Busy) + 1
  BY <1>3, <1>4, FS_AddElement, FS_CardinalityType
<1>6. QED
  BY <1>2, <1>5

LEMMA BusyStays ==
  ASSUME IInv, worksFor' = worksFor
  PROVE  Busy' = Busy /\ IsFiniteSet(Busy') /\ Cardinality(Busy) \in Nat
  BY FS_CardinalityType DEF IInv, Counted, Busy

\* A request that is answered: what it gets is of it, and new.
LEMMA AnswerSent ==
  ASSUME IInv, NEW rq \in Request, NEW statuses, NEW w \in Sent, Answer(w, rq, statuses), Replied(w),
         worksFor' = worksFor, count' \in Nat, count <= count', rq.n \in 1 .. count',
         count < rq.n \/ (request # Nothing /\ rq.n = count)
  PROVE  WireInv'
<1>1. \A j \in 1 .. Len(w.body) : w.body[j].of = rq.n /\ w.body[j].what # "output"
  BY DEF Answer, OfRequest, Part
<1>2. \A i \in 1 .. Len(wire) : \A l \in 1 .. Len(wire[i].body) : wire[i].body[l].of < rq.n
  BY Typed DEF IInv, Spent, SpentPart
<1>3. \A j \in 1 .. Len(w.body) : \A i \in 1 .. Len(wire) : \A l \in 1 .. Len(wire[i].body) :
        wire[i].body[l] # w.body[j]
  <2> SUFFICES ASSUME NEW j \in 1 .. Len(w.body), NEW i \in 1 .. Len(wire),
                      NEW l \in 1 .. Len(wire[i].body), wire[i].body[l] = w.body[j]
               PROVE  FALSE
    OBVIOUS
  <2>1. rq.n < rq.n
    BY <1>1, <1>2
  <2>2. QED
    BY <2>1
<1>4. Framed(w) /\ AllDistinct(w.body) /\ wire' = Append(wire, w) /\ request' = Nothing
  BY DEF Answer, Replied
<1>5. QED
  BY <1>1, <1>3, <1>4, Typed, WireGrows

\* A reply to one request, for a reason that has been named.
LEMMA PureStays ==
  ASSUME NEW w, NEW old, NEW new, old \subseteq new, Pure(w, old)
  PROVE  Pure(w, new)
  BY DEF Pure

\* The replies of a calm time are pure, and one more is.
LEMMA PureGrows ==
  ASSUME IInv, Calm', NEW w \in Sent, Pure(w, upset'), Replied(w), upset \subseteq upset'
  PROVE  (\A i \in 1 .. Len(wire) : Pure(wire[i], upset))'
<1>1. wire' = Append(wire, w) /\ wire \in Seq(Sent)
  BY Typed DEF Replied
<1>2. \A i \in 1 .. Len(wire) : Pure(wire[i], upset')
  BY Grows, PureStays DEF IInv, InCalm
<1>3. \A i \in 1 .. Len(wire') : wire'[i] = IF i = Len(wire) + 1 THEN w ELSE wire[i]
  BY <1>1
<1>4. \A i \in 1 .. Len(wire') : i = Len(wire) + 1 \/ i \in 1 .. Len(wire)
  BY <1>1
<1>5. \A i \in 1 .. Len(wire') : Pure(wire'[i], upset')
  BY <1>2, <1>3, <1>4
<1>6. QED
  BY <1>5 DEF Pure

LEMMA PureKept ==
  ASSUME IInv, Calm', wire' = wire, upset \subseteq upset'
  PROVE  (\A i \in 1 .. Len(wire) : Pure(wire[i], upset))'
<1>1. \A i \in 1 .. Len(wire') : Pure(wire'[i], upset')
  BY Grows, PureStays DEF IInv, InCalm
<1>2. QED
  BY <1>1 DEF Pure

LEMMA AnswerPure ==
  ASSUME NEW rq \in Request, NEW statuses, NEW w \in Sent, Answer(w, rq, statuses), NEW causes,
         w.status = Unset \/ w.status.of = rq.n,
         w.status.code \notin {BAD_REQUEST_400, NOT_IMPLEMENTED} \/ "split" \in causes
  PROVE  Pure(w, causes)
<1>1. rq.n \in Nat
  BY DEF Request
<1>2. \A j \in 1 .. Len(w.body) : w.body[j].of = rq.n
  BY DEF Answer, OfRequest, Part
<1>3. QED
  BY <1>1, <1>2 DEF Pure, Answer

\* The replies of a client that waits, one more.
LEMMA OrderGrows ==
  ASSUME IInv, NEW w \in Sent, Replied(w), w.to = Len(wire) + 1,
         \A i \in 1 .. Len(wire) : wire[i].to = i
  PROVE  Len(wire') = Len(wire) + 1 /\ \A i \in 1 .. Len(wire') : wire'[i].to = i
<1>1. wire' = Append(wire, w) /\ wire \in Seq(Sent)
  BY Typed DEF Replied
<1>2. QED
  BY <1>1

LEMMA NumberedIs ==
  ASSUME IInv, NEW k \in Kinds
  PROVE  /\ Numbered(k, count + 1) \in Request
         /\ Numbered(k, count + 1).n = count + 1
         /\ Numbered(k, count + 1) # Nothing
<1>1. k \in Kind
  BY RepliesAssumption
<1>2. Numbered(k, count + 1) \in Request
  BY <1>1, Typed DEF Kind, Request, Numbered
<1>3. QED
  BY <1>2, RepliesAssumption DEF Numbered

-----------------------------------------------------------------------------
(* A request that is computed                                                *)

\* It is a new one or the one under way, for which no process works, if the
\* client is served as it should be, and which has no reply.
Begun(rq) ==
  /\ rq \in Request /\ rq # Nothing
  /\ count' \in 1 .. MaxRequests /\ count <= count' /\ rq.n = count'
  /\ count < rq.n \/ (request # Nothing /\ rq.n = count)
  /\ owes' \in {"nothing", "lines", "body"} /\ write' \in BOOLEAN
  /\ upset \subseteq upset' /\ upset' \subseteq Upset
  /\ Calm' => \A c \in Worker : worksFor[c] = 0
  /\ Waits' => Len(wire) = count' - 1 /\ \A i \in 1 .. Len(wire) : wire[i].to = i
  /\ Steady' => count' <= Len(wire) + Cardinality(Busy) + 1

Due(rq) == Begun(rq) /\ (Calm' => owes' = "nothing")

LEMMA AnswerKeeps ==
  ASSUME IInv, NEW rq, Due(rq), NEW statuses, NEW w \in Sent, Answer(w, rq, statuses), Replied(w),
         worksFor' = worksFor, Calm' => Pure(w, upset')
  PROVE  IInv'
<1>1. /\ rq \in Request /\ count' \in Nat /\ count <= count' /\ count' <= MaxRequests
      /\ rq.n = count' /\ rq.n \in 1 .. count'
      /\ count < rq.n \/ (request # Nothing /\ rq.n = count)
      /\ owes' \in {"nothing", "lines", "body"} /\ write' \in BOOLEAN
      /\ upset \subseteq upset' /\ upset' \subseteq Upset
  BY Typed DEF Due, Begun
<1>2. WireInv'
  BY <1>1, AnswerSent
<1>3. /\ wire' \in Seq(Sent) /\ stage' = "start" /\ request' = Nothing /\ response' = Empty
      /\ unsent' = <<>> /\ buffer' = "empty"
  BY <1>2 DEF WireInv, Replied
<1>4. Shapes'
  BY <1>1, <1>3, ClearedShapes
<1>5. InCalm'
  <2> SUFFICES ASSUME Calm' PROVE InCalm'
    BY DEF InCalm
  <2>1. (\A i \in 1 .. Len(wire) : Pure(wire[i], upset))'
    BY <1>1, PureGrows
  <2>2. owes' = "nothing" /\ \A c \in Worker : worksFor'[c] = 0
    BY DEF Due, Begun
  <2>3. QED
    BY <1>3, <2>1, <2>2, EmptyIs DEF InCalm
<1>6. InOrder'
  <2> SUFFICES ASSUME Waits' PROVE InOrder'
    BY DEF InOrder
  <2>1. Len(wire) = count' - 1 /\ \A i \in 1 .. Len(wire) : wire[i].to = i
    BY DEF Due, Begun
  <2>2. Len(wire) + 1 = count'
    <3>1. Len(wire) = count' - 1
      BY <2>1
    <3>2. count' \in Nat
      BY <1>1
    <3>3. ASSUME NEW m, NEW n \in Nat, m = n - 1 PROVE m + 1 = n
      BY <3>3
    <3>4. QED
      BY <3>1, <3>2, <3>3, Zenon
  <2>3. w.to = Len(wire) + 1
    <3>1. w.to = rq.n /\ rq.n = count'
      BY <1>1 DEF Answer
    <3>2. QED
      BY <2>2, <3>1
  <2>4. Len(wire') = Len(wire) + 1 /\ \A i \in 1 .. Len(wire') : wire'[i].to = i
    BY <2>1, <2>3, OrderGrows
  <2>5. owes' = "nothing"
    BY <1>1, Grows DEF Due, Begun
  <2>6. QED
    BY <1>3, <2>2, <2>4, <2>5 DEF InOrder
<1>7. Counted'
  <2>1. Len(wire') = Len(wire) + 1 /\ Len(wire) \in Nat
    BY Typed DEF Replied
  <2>2. Busy' = Busy /\ IsFiniteSet(Busy') /\ Cardinality(Busy) \in Nat
    BY BusyStays
  <2>3. Owed' \in Nat
    BY DEF Owed
  <2>4. Steady' => count' <= Len(wire') + Cardinality(Busy')
    <3>1. Steady' => count' <= Len(wire) + Cardinality(Busy) + 1
      BY Zenon DEF Due, Begun
    <3>2. QED
      BY <1>1, <2>1, <2>2, <3>1
  <2>5. Steady' => count' <= Len(wire') + Cardinality(Busy') + Owed'
    BY <1>1, <2>1, <2>2, <2>3, <2>4
  <2>6. QED
    BY <2>2, <2>5 DEF Counted
<1>8. QED
  BY <1>2, <1>4, <1>5, <1>6, <1>7 DEF IInv, WireInv

LEMMA ForksKeeps ==
  ASSUME IInv, NEW rq, Due(rq), NEW r \in Response, r.body \in {<<>>, Chunks(rq)},
         r.status = Unset \/ r.status \in [code : {BAD_GATEWAY}, of : 1 .. count'],
         Calm' /\ r.status # Unset => r.status.of = count',
         NEW left, left \subseteq {"empty"} \cup Stray, NEW cause, Forks(rq, r, left, cause),
         owes' # "nothing" => rq.body = "chunks" /\ "truncated" \in upset'
  PROVE  IInv'
<1>1. /\ rq \in Request /\ rq # Nothing /\ count' \in Nat /\ count <= count' /\ count' <= MaxRequests
      /\ rq.n = count' /\ rq.n \in 1 .. count' /\ count' > 0 /\ rq.n \in Nat \ {0}
      /\ count < rq.n \/ (request # Nothing /\ rq.n = count)
      /\ owes' \in {"nothing", "lines", "body"} /\ write' \in BOOLEAN
      /\ upset \subseteq upset' /\ upset' \subseteq Upset
  BY Typed DEF Due, Begun
<1>2. /\ request' = rq /\ response' = r /\ stage' = "complete" /\ unsent' = unsent /\ wire' = wire
      /\ buffer' \in {"empty"} \cup Stray
  BY Zenon DEF Forks
<1>3. \/ \E c \in Worker : worksFor[c] = 0 /\ worksFor' = [worksFor EXCEPT ![c] = rq.n]
      \/ worksFor' = worksFor /\ "gone" \in upset'
  BY Zenon DEF Forks
<1>4. worksFor' \in [Worker -> 0 .. count']
      /\ \A c \in Worker : worksFor'[c] \in {worksFor[c], 0} \/ worksFor'[c] = count'
  BY <1>1, <1>3, Typed
<1>5. WireInv'
  <2>1. request' # Nothing => count < count' \/ request # Nothing
    BY <1>1
  <2>2. \A c \in Worker : worksFor'[c] \in {worksFor[c], 0} \/ (worksFor'[c] = count' /\ request' # Nothing)
    BY <1>1, <1>2, <1>4
  <2>3. QED
    BY <1>1, <1>2, <2>1, <2>2, Typed, WireStays
<1>6. Shapes'
  <2>1. RepliesTypeOK'
    BY <1>1, <1>2, <1>4, Typed DEF RepliesTypeOK
  <2>2. response' \in [status : Status, body : Seq(PartRec)]
        /\ (response'.body = <<>> \/ response'.body = Chunks(request'))
    BY <1>2 DEF Response
  <2>3. wire' \in Seq(Sent)
    BY <1>5 DEF WireInv
  <2>4. request' \in Request /\ request'.n = count' /\ count' > 0
    BY <1>1, <1>2
  <2>5. QED
    BY <1>2, <2>1, <2>2, <2>3, <2>4 DEF Shapes
<1>7. InCalm'
  <2> SUFFICES ASSUME Calm' PROVE InCalm'
    BY DEF InCalm
  <2>1. (\A i \in 1 .. Len(wire) : Pure(wire[i], upset))'
    BY <1>1, <1>2, PureKept
  <2>2. owes' = "nothing" /\ \A c \in Worker : worksFor[c] = 0
    BY DEF Due, Begun
  <2>3. /\ \A c \in Worker : worksFor'[c] # 0 => worksFor'[c] = count'
        /\ \A c, d \in Worker : worksFor'[c] # 0 /\ worksFor'[d] # 0 => c = d
    <3>1. CASE worksFor' = worksFor
      BY <2>2, <3>1
    <3>2. ASSUME NEW c \in Worker, worksFor' = [worksFor EXCEPT ![c] = rq.n]
          PROVE  <2>3!1 /\ <2>3!2
      BY <1>1, <2>2, <3>2, Typed
    <3>3. QED
      BY <1>3, <3>1, <3>2
  <2>4. response'.status # Unset => response'.status.of = count'
    BY <1>2
  <2>5. QED
    BY <1>2, <2>1, <2>2, <2>3, <2>4 DEF InCalm
<1>8. InOrder'
  <2> SUFFICES ASSUME Waits' PROVE InOrder'
    BY DEF InOrder
  <2>1. Len(wire) = count' - 1 /\ \A i \in 1 .. Len(wire) : wire[i].to = i
    BY DEF Due, Begun
  <2>2. QED
    BY <1>2, <2>1 DEF InOrder
<1>9. Counted'
  <2>1. Owed' \in Nat /\ Len(wire) \in Nat
    BY Typed DEF Owed
  <2>2. CASE worksFor' = worksFor /\ "gone" \in upset'
    BY <2>2, BusyStays DEF Counted, Steady
  <2>3. ASSUME NEW c \in Worker, worksFor[c] = 0, worksFor' = [worksFor EXCEPT ![c] = rq.n]
        PROVE  Counted'
    <3>1. /\ IsFiniteSet(Busy') /\ Cardinality(Busy) \in Nat
          /\ Cardinality(Busy') = Cardinality(Busy) + 1
      BY <1>1, <2>3, BusyStarts
    <3>2. Steady' => count' <= Len(wire) + Cardinality(Busy) + 1
      BY Zenon DEF Due, Begun
    <3>3. Steady' => count' <= Len(wire') + Cardinality(Busy') + Owed'
      BY <1>1, <1>2, <2>1, <3>1, <3>2
    <3>4. QED
      BY <3>1, <3>3 DEF Counted
  <2>4. QED
    BY <1>3, <2>2, <2>3
<1>10. QED
  BY <1>5, <1>6, <1>7, <1>8, <1>9 DEF IInv, WireInv

\* It is answered, or a process is to answer it.
LEMMA Computed ==
  ASSUME IInv, NEW rq, Due(rq), NEW r \in Response, r.body \in {<<>>, Chunks(rq)},
         r.status = Unset \/ r.status \in [code : {BAD_GATEWAY}, of : 1 .. count'],
         Calm' /\ r.status # Unset => r.status.of = count',
         NEW left, left \subseteq {"empty"} \cup Stray, NEW cause, Compute(rq, r, left, cause),
         owes' # "nothing" => rq.body = "chunks" /\ "truncated" \in upset'
  PROVE  IInv'
<1>1. rq \in Request
  BY DEF Due, Begun
<1>2. r.status.code \in {0, BAD_GATEWAY}
  BY DEF Unset
<1>3. r.status.code \notin Paged
  BY <1>2, Codes
<1>4. \/ /\ \E w \in Sent : Answer(w, rq, Statuses(rq, r)) /\ Replied(w)
         /\ UNCHANGED worksFor
      \/ Forks(rq, r, left, cause)
  BY <1>1, <1>3, Typed, ComputeIs
<1>5. ASSUME NEW w \in Sent, Answer(w, rq, Statuses(rq, r)), Replied(w), worksFor' = worksFor
      PROVE  IInv'
  <2>1. w.status = r.status \/ w.status \in [code : {NOT_FOUND, CONTENT_TOO_LARGE, BAD_GATEWAY, OK}, of : {rq.n}]
    BY <1>5 DEF Answer, Statuses
  <2>2. w.status.code \notin {BAD_REQUEST_400, NOT_IMPLEMENTED}
    BY <1>2, <2>1, Codes
  <2>3. Calm' => w.status = Unset \/ w.status.of = rq.n
    BY <2>1 DEF Due, Begun
  <2>4. Calm' => Pure(w, upset')
    BY <1>1, <1>5, <2>2, <2>3, AnswerPure
  <2>5. QED
    BY <1>5, <2>4, AnswerKeeps
<1>6. QED
  BY <1>4, <1>5, ForksKeeps

\* What has happened when a request has been computed.
LEMMA ComputeUpset ==
  ASSUME NEW rq, NEW r, NEW left, NEW cause, Compute(rq, r, left, cause)
  PROVE  upset \cup cause \subseteq upset' /\ upset' \subseteq upset \cup cause \cup {"gone"}
  BY DEF Compute, Forks

\* A segment that is rejected when a request was cleared or answered too early.
LEMMA RejectedKeeps ==
  ASSUME IInv, stage = "start", Rejected, count' \in 0 .. MaxRequests, count <= count',
         owes' \in {"nothing", "lines", "body"}, write' = write,
         ~Calm, Steady => count' <= Len(wire) + Cardinality(Busy) + 1
  PROVE  IInv'
<1>1. PICK code \in {BAD_REQUEST_400, NOT_IMPLEMENTED} : Reply(With(response, code, count'), Nothing)
  BY DEF Rejected
<1>2. worksFor' = worksFor /\ upset' = upset
  BY DEF Rejected
<1> DEFINE r == With(response, code, count')
           w == Composed(r, Nothing)
<1>3. response \in Response /\ response.body = <<>>
  BY Typed DEF IInv, Shapes
<1>4. code \in Nat /\ count' \in Nat
  BY Codes
<1>5. r \in Response /\ r.status = [code |-> code, of |-> count'] /\ r.body = <<>>
  BY <1>3, <1>4, WithIs
<1> HIDE DEF r
<1>6. /\ w \in Sent /\ Framed(w) /\ w.to = 0
      /\ w.body = r.body \/ w.body = <<Part("page", r.status.of, Nothing)>>
  BY <1>5, ComposedIs
<1>7. w.body = <<>>
  BY <1>5 DEF Composed, BodyOf
<1>8. Replied(w)
  BY <1>1, <1>6, Typed, ReplyIs DEF r
<1> HIDE DEF w
<1>9. WireInv'
  BY <1>2, <1>4, <1>6, <1>7, <1>8, Typed, WireGrows DEF Replied, AllDistinct
<1>10. Shapes'
  <2>1. /\ wire' \in Seq(Sent) /\ stage' = "start" /\ request' = Nothing /\ response' = Empty
        /\ unsent' = <<>> /\ buffer' = "empty"
    BY <1>8, <1>9 DEF WireInv, Replied
  <2>2. write' \in BOOLEAN /\ upset' \subseteq Upset /\ count' <= MaxRequests
    BY <1>2, Typed
  <2>3. QED
    BY <1>2, <1>4, <2>1, <2>2, ClearedShapes
<1>11. InCalm' /\ InOrder'
  <2>1. Calm' = Calm /\ Waits' = Waits
    BY <1>2 DEF Calm, Waits
  <2>2. ~Waits
    BY DEF Calm, Waits
  <2>3. QED
    BY <2>1, <2>2 DEF InCalm, InOrder
<1>12. Counted'
  <2>1. Len(wire') = Len(wire) + 1 /\ Len(wire) \in Nat
    BY <1>8, Typed DEF Replied
  <2>2. Busy' = Busy /\ IsFiniteSet(Busy') /\ Cardinality(Busy) \in Nat
    BY <1>2, BusyStays
  <2>3. Owed' \in Nat /\ Steady' = Steady
    BY <1>2 DEF Owed, Steady
  <2>4. Steady' => count' <= Len(wire') + Cardinality(Busy') + Owed'
    BY <1>4, <2>1, <2>2, <2>3
  <2>5. QED
    BY <2>2, <2>4 DEF Counted
<1>13. QED
  BY <1>9, <1>10, <1>11, <1>12 DEF IInv, WireInv

-----------------------------------------------------------------------------
(* The actions                                                               *)

\* Where nothing is under way and the client is served as it should be.
LEMMA AtRest ==
  ASSUME IInv, stage = "start", Calm
  PROVE  /\ buffer = "empty" /\ owes = "nothing"
         /\ \A c \in Worker : worksFor[c] = 0
  BY Typed DEF IInv, InCalm

\* A new request can be computed.
LEMMA BegunNew ==
  ASSUME IInv, NEW k \in Kinds, Begins, owes' \in {"nothing", "lines", "body"},
         upset \subseteq upset', upset' \subseteq Upset
  PROVE  Begun(Numbered(k, count + 1))
<1> DEFINE rq == Numbered(k, count + 1)
<1>1. rq \in Request /\ rq.n = count + 1 /\ rq # Nothing
  BY NumberedIs
<1> HIDE DEF rq
<1>2. /\ stage = "start" /\ owes = "nothing" /\ count < MaxRequests /\ count' = count + 1
      /\ write' = write
  BY DEF Begins
<1>3. count' \in 1 .. MaxRequests /\ count <= count' /\ count < rq.n /\ rq.n = count'
  BY <1>1, <1>2, Typed
<1>4. Calm' => \A c \in Worker : worksFor[c] = 0
  BY <1>2, AtRest, Grows
<1>5. Waits' => Len(wire) = count' - 1 /\ \A i \in 1 .. Len(wire) : wire[i].to = i
  <2>1. Waits' => Len(wire) = count /\ \A i \in 1 .. Len(wire) : wire[i].to = i
    BY <1>2, Grows DEF IInv, InOrder
  <2>2. count' - 1 = count
    BY <1>2, Typed
  <2>3. QED
    BY <2>1, <2>2
<1>6. Steady' => count' <= Len(wire) + Cardinality(Busy) + 1
  <2>1. Steady' => count <= Len(wire) + Cardinality(Busy) + 0
    BY <1>2, Grows DEF IInv, Counted, Owed
  <2>2. Cardinality(Busy) \in Nat
    BY FS_CardinalityType DEF IInv, Counted
  <2>3. QED
    BY <1>2, <2>1, <2>2, Typed
<1>7. Begun(rq)
  BY <1>1, <1>2, <1>3, <1>4, <1>5, <1>6, Typed DEF Begun
<1>8. QED
  BY <1>7 DEF rq

\* A segment that begins with what was left of a request.
LEMMA RejectedNew ==
  ASSUME IInv, Begins, buffer # "empty", Rejected, owes' \in {"nothing", "lines", "body"}
  PROVE  IInv'
<1>1. /\ stage = "start" /\ owes = "nothing" /\ count < MaxRequests /\ count' = count + 1
      /\ write' = write
  BY DEF Begins
<1>2. ~Calm
  BY <1>1, AtRest
<1>3. Cardinality(Busy) \in Nat
  BY FS_CardinalityType DEF IInv, Counted
<1>4. Steady => count <= Len(wire) + Cardinality(Busy) + 0
  BY <1>1 DEF IInv, Counted, Owed
<1>5. count' \in 1 .. MaxRequests /\ count <= count'
      /\ (Steady => count' <= Len(wire) + Cardinality(Busy) + 1)
  BY <1>1, <1>3, <1>4, Typed
<1>6. QED
  BY <1>1, <1>2, <1>5, RejectedKeeps

LEMMA LeftIs ==
  ASSUME NEW rq
  PROVE  Left(rq) \subseteq {"empty"} \cup Stray
  BY DEF Left

LEMMA WholeStep ==
  ASSUME IInv, NEW k \in Kinds, Whole(k)
  PROVE  IInv'
<1> DEFINE rq == Numbered(k, count + 1)
           r == [status |-> Unset, body |-> response.body \o Chunks(rq)]
<1>1. /\ Begins /\ owes' = owes
      /\ IF buffer = "empty" THEN Compute(rq, r, Left(rq), {}) ELSE Rejected
  BY Zenon DEF Whole
<1>2. stage = "start" /\ owes = "nothing"
  BY <1>1 DEF Begins
<1>3. CASE buffer # "empty"
  BY <1>1, <1>2, <1>3, RejectedNew
<1>4. CASE buffer = "empty"
  <2>1. rq \in Request
    BY NumberedIs
  <2>2. response.body = <<>>
    BY <1>2 DEF IInv, Shapes
  <2> HIDE DEF rq
  <2>3. Chunks(rq) \in Seq(PartRec)
    BY <2>1, ChunksIs
  <2>4. <<>> \o Chunks(rq) = Chunks(rq)
    BY <2>3
  <2>5. r \in Response /\ r.body = Chunks(rq) /\ r.status = Unset
    BY <2>2, <2>3, <2>4, EmptyIs DEF Response
  <2> HIDE DEF r
  <2>6. Compute(rq, r, Left(rq), {})
    BY <1>1, <1>4
  <2>7. upset \subseteq upset' /\ upset' \subseteq Upset
    BY <2>6, ComputeUpset, Typed DEF Upset
  <2>8. Due(rq)
    BY <1>1, <1>2, <2>7, BegunNew DEF rq, Due
  <2>9. QED
    BY <1>1, <1>2, <2>5, <2>6, <2>8, LeftIs, Computed
<1>5. QED
  BY <1>3, <1>4

\* The first segment is taken, and the second one is waited for.
LEMMA FirstHalfTaken ==
  ASSUME IInv, NEW rq, Begun(rq), count < count', stage = "start", owes = "nothing",
         owes' # "nothing", stage' = "partial", request' = rq,
         response' = [response EXCEPT !.status = Unset],
         \/ buffer' = "empty" /\ upset' = upset
         \/ buffer' \in Stray /\ upset' = upset \cup {"split"},
         UNCHANGED <<unsent, worksFor, wire>>,
         Calm => \A c \in Worker : worksFor[c] = 0
  PROVE  IInv'
<1>1. /\ rq \in Request /\ rq # Nothing /\ count' \in 1 .. MaxRequests /\ rq.n = count'
      /\ owes' \in {"nothing", "lines", "body"} /\ write' \in BOOLEAN
      /\ upset \subseteq upset' /\ upset' \subseteq Upset
  BY DEF Begun
<1>2. response' \in Response /\ response'.status = Unset /\ response'.body = <<>>
  <2>1. response \in Response /\ response.body = <<>>
    BY Typed DEF IInv, Shapes
  <2>2. response' = [status |-> Unset, body |-> <<>>]
    BY <2>1 DEF Response
  <2>3. QED
    BY <2>2, EmptyIs DEF Empty
<1>3. count' \in Nat /\ count <= count' /\ count' <= MaxRequests /\ count' > 0
  BY <1>1, Typed
<1>4. WireInv'
  BY <1>1, <1>3, Typed, WireStays
<1>5. Shapes'
  <2>1. worksFor' \in [Worker -> 0 .. count']
    BY <1>3, Typed
  <2>2. RepliesTypeOK'
    BY <1>1, <1>3, <2>1, Typed DEF RepliesTypeOK, Stray
  <2>3. wire' \in Seq(Sent)
    BY <1>4 DEF WireInv
  <2>4. request' \in Request /\ request'.n = count'
    BY <1>1
  <2>5. QED
    BY <1>2, <1>3, <2>2, <2>3, <2>4 DEF Shapes, Response
<1>6. InCalm'
  <2> SUFFICES ASSUME Calm' PROVE InCalm'
    BY DEF InCalm
  <2>1. (\A i \in 1 .. Len(wire) : Pure(wire[i], upset))'
    BY <1>1, PureKept
  <2>2. \A c \in Worker : worksFor'[c] = 0
    BY <1>1, Grows
  <2>3. buffer' # "empty" => "split" \in upset'
    OBVIOUS
  <2>4. QED
    BY <1>2, <2>1, <2>2, <2>3 DEF InCalm
<1>7. InOrder'
  BY DEF InOrder, Begun
<1>8. Counted'
  <2>1. Busy' = Busy /\ IsFiniteSet(Busy')
    BY BusyStays
  <2>2. Owed' = 1
    BY DEF Owed
  <2>3. Steady' => count' <= Len(wire') + Cardinality(Busy') + Owed'
    BY <2>1, <2>2 DEF Begun
  <2>4. QED
    BY <2>1, <2>3 DEF Counted
<1>9. QED
  BY <1>4, <1>5, <1>6, <1>7, <1>8 DEF IInv, WireInv

LEMMA FirstHalfStep ==
  ASSUME IInv, NEW k \in Kinds, FirstHalf(k)
  PROVE  IInv'
<1> DEFINE rq == Numbered(k, count + 1)
           r == [response EXCEPT !.status = Unset]
<1>1. /\ Begins
      /\ owes' \in {"lines", "body"}
      /\ \/ buffer # "empty" /\ Rejected
         \/ /\ buffer = "empty"
            /\ stage' = "partial"
            /\ request' = rq
            /\ response' = r
            /\ \/ UNCHANGED <<buffer, upset>>
               \/ buffer' \in Stray /\ upset' = upset \cup {"split"}
            /\ UNCHANGED <<unsent, worksFor, wire>>
         \/ /\ buffer = "empty"
            /\ k.body = "chunks"
            /\ \E parts \in {<<>>, Chunks(rq)} :
                 Compute(rq, [r EXCEPT !.body = @ \o parts], {"empty"}, {"truncated"})
  BY Zenon DEF FirstHalf
<1>2. /\ stage = "start" /\ owes = "nothing" /\ count' = count + 1
  BY <1>1 DEF Begins
<1>3. CASE buffer # "empty" /\ Rejected
  BY <1>1, <1>3, RejectedNew
<1>4. CASE /\ buffer = "empty"
           /\ stage' = "partial"
           /\ request' = rq
           /\ response' = r
           /\ \/ UNCHANGED <<buffer, upset>>
              \/ buffer' \in Stray /\ upset' = upset \cup {"split"}
           /\ UNCHANGED <<unsent, worksFor, wire>>
  <2>1. upset \subseteq upset' /\ upset' \subseteq Upset
    BY <1>4, Typed DEF Upset
  <2>2. Calm => \A c \in Worker : worksFor[c] = 0
    BY <1>2, AtRest
  <2>3. Begun(rq)
    BY <1>1, <2>1, BegunNew
  <2>4. count < count' /\ owes' # "nothing"
    BY <1>1, <1>2, Typed
  <2>5. /\ \/ buffer' = "empty" /\ upset' = upset
           \/ buffer' \in Stray /\ upset' = upset \cup {"split"}
        /\ stage' = "partial" /\ request' = rq /\ response' = [response EXCEPT !.status = Unset]
        /\ UNCHANGED <<unsent, worksFor, wire>>
    BY <1>4
  <2> HIDE DEF rq
  <2>6. QED
    BY <1>2, <2>2, <2>3, <2>4, <2>5, FirstHalfTaken
<1>5. ASSUME buffer = "empty", k.body = "chunks", NEW parts \in {<<>>, Chunks(rq)},
             Compute(rq, [r EXCEPT !.body = @ \o parts], {"empty"}, {"truncated"})
      PROVE  IInv'
  <2> DEFINE t == [r EXCEPT !.body = @ \o parts]
  <2>1. rq \in Request /\ rq.body = "chunks"
    BY <1>5, NumberedIs DEF Numbered
  <2>2. response \in Response /\ response.body = <<>>
    BY <1>2, Typed DEF IInv, Shapes
  <2>3. Compute(rq, t, {"empty"}, {"truncated"})
    BY <1>5
  <2> HIDE DEF rq
  <2>4. parts \in Seq(PartRec)
    BY <1>5, <2>1, ChunksIs
  <2>5. <<>> \o parts = parts
    BY <2>4
  <2>6. t = [status |-> Unset, body |-> parts]
    <3>1. r = [status |-> Unset, body |-> <<>>]
      BY <2>2 DEF Response
    <3> HIDE DEF r
    <3>2. t = [status |-> Unset, body |-> <<>> \o parts]
      BY <3>1
    <3>3. QED
      BY <2>5, <3>2
  <2> HIDE DEF t
  <2>7. t \in Response /\ t.body \in {<<>>, Chunks(rq)} /\ t.status = Unset
    BY <1>5, <2>4, <2>6, EmptyIs DEF Response
  <2>8. upset \subseteq upset' /\ upset' \subseteq Upset /\ "truncated" \in upset'
    BY <2>3, ComputeUpset, Typed DEF Upset
  <2>9. ~Calm'
    BY <2>8 DEF Calm
  <2>10. Due(rq)
    BY <1>1, <2>8, <2>9, BegunNew DEF rq, Due
  <2>11. QED
    BY <2>1, <2>3, <2>7, <2>8, <2>9, <2>10, Computed
<1>6. QED
  BY <1>1, <1>3, <1>4, <1>5

\* The request under way.
LEMMA UnderWay ==
  ASSUME IInv, request # Nothing
  PROVE  /\ request \in Request /\ request.n = count /\ count > 0
         /\ response.body \in {<<>>, Chunks(request)}
         /\ response.status = Unset \/ response.status \in [code : {BAD_GATEWAY}, of : 1 .. count]
         /\ Calm /\ response.status # Unset => response.status.of = count
<1>1. request \in Request /\ request.n = count /\ count > 0
  BY Zenon DEF IInv, Shapes
<1>2. /\ response.status = Unset \/ response.status \in [code : {BAD_GATEWAY}, of : 1 .. count]
      /\ response.body \in {<<>>, Chunks(request)}
  BY DEF IInv, Shapes
<1>3. Calm /\ response.status # Unset => response.status.of = count
  BY DEF IInv, InCalm
<1>4. QED
  BY <1>1, <1>2, <1>3

\* It can be computed once more.
LEMMA DueOld ==
  ASSUME IInv, request # Nothing, count' = count, owes' = "nothing", write' = write,
         upset \subseteq upset', upset' \subseteq Upset, Calm' => stage = "partial"
  PROVE  Due(request)
<1>1. request \in Request /\ request.n = count /\ count > 0 /\ count \in Nat /\ count <= MaxRequests
  BY UnderWay, Typed
<1>2. count' \in 1 .. MaxRequests /\ count <= count' /\ request.n = count'
  BY <1>1, Typed
<1>3. Calm' => \A c \in Worker : worksFor[c] = 0
  BY Grows DEF IInv, InCalm
<1>4. Waits' => Len(wire) = count' - 1 /\ \A i \in 1 .. Len(wire) : wire[i].to = i
  BY Grows DEF IInv, InOrder
<1>5. Steady' => count' <= Len(wire) + Cardinality(Busy) + 1
  <2>1. Steady' => count <= Len(wire) + Cardinality(Busy) + Owed
    BY Grows DEF IInv, Counted
  <2>2. Cardinality(Busy) \in Nat /\ Owed \in 0 .. 1
    BY FS_CardinalityType DEF IInv, Counted, Owed
  <2>3. QED
    BY <1>1, <2>1, <2>2, Typed
<1>6. write' \in BOOLEAN
  BY Typed
<1>7. QED
  BY <1>1, <1>2, <1>3, <1>4, <1>5, <1>6 DEF Due, Begun

LEMMA MoreStep ==
  ASSUME IInv, More
  PROVE  IInv'
<1> DEFINE left == IF buffer = "lines" THEN {"lines"} ELSE Stray
<1>1. /\ stage = "complete" /\ Compute(request, response, left, {"impatient"})
      /\ owes = "nothing" /\ UNCHANGED <<count, owes, write>>
  BY Zenon DEF More
<1>2. left \subseteq {"empty"} \cup Stray
  BY DEF Stray
<1> HIDE DEF left
<1>3. upset \subseteq upset' /\ upset' \subseteq Upset /\ "impatient" \in upset'
  BY <1>1, ComputeUpset, Typed DEF Upset
<1>4. ~Calm'
  BY <1>3 DEF Calm
<1>5. request # Nothing
  BY <1>1, Typed
<1>6. Due(request)
  BY <1>1, <1>3, <1>4, <1>5, DueOld
<1>7. /\ response \in Response
      /\ response.body \in {<<>>, Chunks(request)}
      /\ response.status = Unset \/ response.status \in [code : {BAD_GATEWAY}, of : 1 .. count']
  BY <1>1, <1>5, UnderWay, Typed
<1>8. QED
  BY <1>1, <1>2, <1>4, <1>6, <1>7, Computed

\* The second segment of a body that is too long now.
LEMMA SplitRejected ==
  ASSUME IInv, stage = "partial", buffer # "empty", owes' = "nothing",
         Reply(IF response.status = Unset THEN With(response, BAD_REQUEST_400, request.n)
               ELSE response, request),
         UNCHANGED <<count, write, worksFor, upset>>
  PROVE  IInv'
<1> DEFINE s == IF response.status = Unset THEN With(response, BAD_REQUEST_400, request.n)
                ELSE response
<1>1. request # Nothing /\ request \in Request /\ request.n = count /\ count \in Nat
  BY Typed, UnderWay
<1>2. response \in Response /\ response.body \in {<<>>, Chunks(request)}
  BY <1>1, UnderWay, Typed
<1>3. With(response, BAD_REQUEST_400, request.n) \in Response
      /\ With(response, BAD_REQUEST_400, request.n).status = [code |-> BAD_REQUEST_400, of |-> count]
      /\ With(response, BAD_REQUEST_400, request.n).body = response.body
  BY <1>1, <1>2, WithIs, Codes
<1>4. s \in Response /\ s.body \in {<<>>, Chunks(request)}
  BY <1>2, <1>3
<1>5. s.status = [code |-> BAD_REQUEST_400, of |-> count] \/ s.status = response.status
  BY <1>3
<1>6. Reply(s, request)
  OBVIOUS
<1> HIDE DEF s
<1>7. response.status.code \notin Paged
  BY <1>1, UnderWay, Codes DEF Unset
<1>8. PICK w \in Sent : Answer(w, request, {s.status}) /\ Replied(w)
  <2>1. s.status.code \in Paged => s.status.of = request.n
    BY <1>1, <1>5, <1>7
  <2>2. unsent = <<>> /\ wire \in Seq(Sent)
    BY Typed
  <2>3. QED
    BY <1>1, <1>4, <1>6, <2>1, <2>2, ReplyAnswers
<1>9. Due(request)
  BY <1>1, DueOld, Typed DEF Calm
<1>10. Calm' => Pure(w, upset')
  <2> SUFFICES ASSUME Calm' PROVE Pure(w, upset')
    OBVIOUS
  <2>1. Calm /\ "split" \in upset'
    BY DEF Calm, IInv, InCalm
  <2>2. s.status = Unset \/ s.status.of = request.n
    BY <1>1, <1>5, <2>1, UnderWay
  <2>3. QED
    BY <1>1, <1>8, <2>1, <2>2, AnswerPure DEF Answer
<1>11. QED
  BY <1>8, <1>9, <1>10, AnswerKeeps

\* The end of a request that was cleared, without a line feed.
LEMMA Swallowed ==
  ASSUME IInv, stage = "start", owes # "nothing", owes' = "nothing", buffer' = "rest",
         upset' = upset \cup {"swallowed"},
         UNCHANGED <<count, stage, request, response, unsent, write, worksFor, wire>>
  PROVE  IInv'
<1>1. count \in Nat /\ worksFor \in [Worker -> Nat] /\ WireInv
  BY Typed
<1>2. WireInv'
  BY <1>1, WireStays
<1>3. Shapes'
  <2>1. RepliesTypeOK'
    BY DEF IInv, Shapes, RepliesTypeOK, Stray, Upset
  <2>2. QED
    BY <2>1 DEF IInv, Shapes
<1>4. InCalm' /\ InOrder'
  <2>1. ~Calm
    BY DEF IInv, InCalm
  <2>2. ~Calm' /\ ~Waits'
    BY <2>1 DEF Calm, Waits
  <2>3. QED
    BY <2>2 DEF InCalm, InOrder
<1>5. Counted'
  BY BusyStays DEF Counted, Steady
<1>6. QED
  BY <1>2, <1>3, <1>4, <1>5 DEF IInv, WireInv

LEMMA SecondHalfStep ==
  ASSUME IInv, SecondHalf
  PROVE  IInv'
<1>1. owes # "nothing" /\ owes' = "nothing" /\ UNCHANGED <<count, write>>
  BY Zenon DEF SecondHalf
<1>2. \/ /\ stage = "partial"
         /\ buffer = "empty"
         /\ Compute(request, [response EXCEPT !.body = @ \o Chunks(request)], Left(request), {})
      \/ /\ stage = "partial"
         /\ buffer # "empty"
         /\ Reply(IF response.status = Unset THEN With(response, BAD_REQUEST_400, request.n)
                  ELSE response, request)
         /\ UNCHANGED <<worksFor, upset>>
      \/ stage = "complete" /\ Compute(request, response, {"lines"}, {})
      \/ stage = "start" /\ Rejected
      \/ /\ stage = "start"
         /\ buffer' = "rest"
         /\ upset' = upset \cup {"swallowed"}
         /\ UNCHANGED <<stage, request, response, unsent, worksFor, wire>>
  BY Zenon DEF SecondHalf
<1>3. CASE /\ stage = "partial"
           /\ Compute(request, [response EXCEPT !.body = @ \o Chunks(request)], Left(request), {})
  <2> DEFINE r == [response EXCEPT !.body = @ \o Chunks(request)]
  <2>1. Compute(request, r, Left(request), {})
    BY <1>3
  <2>2. request # Nothing /\ request \in Request
    BY <1>3, Typed, UnderWay
  <2>3. Chunks(request) \in Seq(PartRec)
    BY <2>2, ChunksIs
  <2>4. response.body = <<>> /\ response \in Response
    BY <1>3, Typed DEF IInv, Shapes
  <2>5. response.body \o Chunks(request) = Chunks(request)
    BY <2>3, <2>4
  <2>6. r = [response EXCEPT !.body = Chunks(request)]
    BY <2>5
  <2>7. r \in Response /\ r.status = response.status /\ r.body = Chunks(request)
    BY <2>3, <2>4, <2>6 DEF Response
  <2> HIDE DEF r
  <2>8. upset \subseteq upset' /\ upset' \subseteq Upset
    BY <2>1, ComputeUpset, Typed DEF Upset
  <2>9. Due(request)
    BY <1>1, <1>3, <2>2, <2>8, DueOld
  <2>10. /\ r.status = Unset \/ r.status \in [code : {BAD_GATEWAY}, of : 1 .. count']
         /\ Calm' /\ r.status # Unset => r.status.of = count'
    BY <1>1, <2>2, <2>7, <2>8, UnderWay, Grows
  <2>11. QED
    BY <1>1, <2>1, <2>7, <2>9, <2>10, LeftIs, Computed
<1>4. CASE /\ stage = "partial"
           /\ buffer # "empty"
           /\ Reply(IF response.status = Unset THEN With(response, BAD_REQUEST_400, request.n)
                    ELSE response, request)
           /\ UNCHANGED <<worksFor, upset>>
  BY <1>1, <1>4, SplitRejected
<1>5. CASE stage = "complete" /\ Compute(request, response, {"lines"}, {})
  <2>1. request # Nothing /\ ~Calm
    BY <1>1, <1>5, Typed DEF IInv, InCalm
  <2>2. upset \subseteq upset' /\ upset' \subseteq Upset
    BY <1>5, ComputeUpset, Typed DEF Upset
  <2>3. ~Calm'
    BY <2>1, <2>2, Grows
  <2>4. Due(request)
    BY <1>1, <2>1, <2>2, <2>3, DueOld
  <2>5. /\ response \in Response
        /\ response.body \in {<<>>, Chunks(request)}
        /\ response.status = Unset \/ response.status \in [code : {BAD_GATEWAY}, of : 1 .. count']
    BY <1>1, <2>1, UnderWay, Typed
  <2>6. {"lines"} \subseteq {"empty"} \cup Stray
    BY DEF Stray
  <2>7. QED
    BY <1>1, <1>5, <2>3, <2>4, <2>5, <2>6, Computed
<1>6. CASE stage = "start" /\ Rejected
  <2>1. ~Calm
    BY <1>1, <1>6 DEF IInv, InCalm
  <2>2. Cardinality(Busy) \in Nat /\ Owed = 1
    BY <1>1, FS_CardinalityType DEF IInv, Counted, Owed
  <2>3. Steady => count' <= Len(wire) + Cardinality(Busy) + 1
    BY <1>1, <2>2 DEF IInv, Counted
  <2>4. count' \in 0 .. MaxRequests /\ count <= count'
    BY <1>1, Typed
  <2>5. QED
    BY <1>1, <1>6, <2>1, <2>3, <2>4, RejectedKeeps
<1>7. CASE /\ stage = "start"
           /\ buffer' = "rest"
           /\ upset' = upset \cup {"swallowed"}
           /\ UNCHANGED <<stage, request, response, unsent, worksFor, wire>>
  BY <1>1, <1>7, Swallowed
<1>8. QED
  BY <1>2, <1>3, <1>4, <1>5, <1>6, <1>7

\* What a process that ends finds in the response: the chunks of the request
\* that is complete, if there is one.
LEMMA Waiting ==
  ASSUME IInv
  PROVE  /\ response.body \in Seq(PartRec)
         /\ Len(response.body) \in 0 .. 1
         /\ \A j \in 1 .. Len(response.body) :
              request # Nothing /\ response.body[j] = Part("chunks", count, Nothing)
         /\ response.status.code \in {0, BAD_GATEWAY}
         /\ request \in Request \cup {Nothing}
         /\ request # Nothing => request.n = count /\ count > 0
<1>1. request # Nothing => request \in Request /\ request.n = count /\ count > 0
  BY UnderWay
<1>2. response.status.code \in {0, BAD_GATEWAY}
  <2>1. response.status = Unset \/ response.status \in [code : {BAD_GATEWAY}, of : 1 .. count]
    BY Zenon DEF IInv, Shapes
  <2>2. QED
    BY <2>1 DEF Unset
<1>3. response.body = <<>> \/ (stage = "complete" /\ response.body = Chunks(request))
  BY Zenon DEF IInv, Shapes
<1>4. CASE stage = "complete" /\ response.body = Chunks(request)
  <2>1. request # Nothing
    BY <1>4, Typed
  <2>2. QED
    BY <1>1, <1>2, <1>4, <2>1, ChunksIs
<1>5. CASE response.body = <<>>
  BY <1>1, <1>2, <1>5
<1>6. QED
  BY <1>3, <1>4, <1>5

\* A reply by a process that ends.
LEMMA ProcessReplies ==
  ASSUME IInv, NEW c \in Worker, Ends(c), NEW w \in Sent, Replied(w), Framed(w),
         AllDistinct(w.body),
         w.to = IF request = Nothing THEN 0 ELSE request.n,
         \A j \in 1 .. Len(w.body) :
           \/ w.body[j] = Part("output", worksFor[c], c)
           \/ request # Nothing /\ w.body[j] = Part("chunks", count, Nothing),
         w.status = response.status \/ w.status.of = worksFor[c],
         w.status.code \notin {BAD_REQUEST_400, NOT_IMPLEMENTED},
         UNCHANGED <<count, owes, upset>>, write' \in BOOLEAN
  PROVE  IInv'
<1> DEFINE n == worksFor[c]
<1>1. /\ worksFor' = [worksFor EXCEPT ![c] = 0]
      /\ \A d \in Worker : worksFor'[d] = IF d = c THEN 0 ELSE worksFor[d]
      /\ n \in 1 .. count
      /\ IsFiniteSet(Busy') /\ Cardinality(Busy) \in Nat
      /\ Cardinality(Busy') = Cardinality(Busy) - 1
  BY BusyEnds
<1>2. count' = count /\ owes' = owes /\ upset' = upset
  OBVIOUS
<1>3. /\ wire' = Append(wire, w) /\ stage' = "start" /\ request' = Nothing /\ response' = Empty
      /\ unsent' = <<>> /\ buffer' = "empty"
  BY DEF Replied
<1>4. request # Nothing => request.n = count /\ count > 0
  BY Waiting
<1>5. WireInv'
  <2>1. \A i \in 1 .. Len(wire) : \A l \in 1 .. Len(wire[i].body) :
          /\ request # Nothing => wire[i].body[l].of < count
          /\ wire[i].body[l].what = "output" =>
               wire[i].body[l].from \in Worker /\ worksFor[wire[i].body[l].from] # wire[i].body[l].of
    BY Typed DEF IInv, Spent, SpentPart
  <2>2. ASSUME NEW j \in 1 .. Len(w.body)
        PROVE  /\ w.body[j].of \in 1 .. count
               /\ w.body[j].what = "output" =>
                    w.body[j].from \in Worker /\ worksFor'[w.body[j].from] # w.body[j].of
               /\ \A i \in 1 .. Len(wire) : \A l \in 1 .. Len(wire[i].body) :
                    wire[i].body[l] # w.body[j]
    <3>1. CASE w.body[j] = Part("output", n, c)
      <4>1. w.body[j].what = "output" /\ w.body[j].of = n /\ w.body[j].from = c
        BY <3>1 DEF Part
      <4>2. n \in 1 .. count /\ worksFor'[c] = 0 /\ 0 # n
        BY <1>1, Typed
      <4>3. ASSUME NEW i \in 1 .. Len(wire), NEW l \in 1 .. Len(wire[i].body),
                   wire[i].body[l] = w.body[j]
            PROVE  FALSE
        BY <2>1, <4>1, <4>3
      <4>4. QED
        BY <4>1, <4>2, <4>3
    <3>2. CASE request # Nothing /\ w.body[j] = Part("chunks", count, Nothing)
      <4>1. w.body[j].what = "chunks" /\ w.body[j].of = count
        BY <3>2 DEF Part
      <4>2. QED
        BY <1>4, <2>1, <3>2, <4>1, Typed
    <3>3. QED
      BY <3>1, <3>2
  <2>3. \A d \in Worker : worksFor'[d] \in {worksFor[d], 0}
    BY <1>1
  <2>4. WireInv /\ count \in Nat /\ count' = count /\ count <= count' /\ worksFor \in [Worker -> Nat]
    BY <1>2, Typed
  <2>5. QED
    BY <1>3, <2>2, <2>3, <2>4, WireGrows
<1>6. Shapes'
  <2>1. owes' \in {"nothing", "lines", "body"} /\ upset' \subseteq Upset
        /\ buffer' \in {"empty"} \cup Stray
    BY <1>2, <1>3, Typed
  <2>2. wire' \in Seq(Sent)
    BY <1>5 DEF WireInv
  <2>3. \E d \in Worker : worksFor' = [worksFor EXCEPT ![d] = 0]
    BY <1>1
  <2>4. count' \in Nat /\ count <= count' /\ count' <= MaxRequests
    BY <1>2, Typed
  <2>5. QED
    BY <1>3, <2>1, <2>2, <2>3, <2>4, ClearedShapes
\* Nobody was impatient: the process works for the request that is complete.
<1>7. Calm => /\ stage = "complete" /\ n = count /\ request # Nothing /\ owes = "nothing"
              /\ \A d \in Worker : d # c => worksFor[d] = 0
  <2> SUFFICES ASSUME Calm
               PROVE  /\ stage = "complete" /\ n = count /\ request # Nothing /\ owes = "nothing"
                      /\ \A d \in Worker : d # c => worksFor[d] = 0
    OBVIOUS
  <2>1. stage = "complete" /\ n = count
    BY <1>1 DEF IInv, InCalm
  <2>2. \A d \in Worker : d # c => worksFor[d] = 0
    BY <1>1 DEF IInv, InCalm
  <2>3. request # Nothing /\ owes = "nothing"
    BY <2>1, Typed DEF IInv, InCalm
  <2>4. QED
    BY <2>1, <2>2, <2>3
<1>8. InCalm'
  <2> SUFFICES ASSUME Calm' PROVE InCalm'
    BY DEF InCalm
  <2>1. Calm
    BY <1>2 DEF Calm
  <2>2. Pure(w, upset')
    <3>1. w.to = count /\ count \in Nat
      BY <1>4, <1>7, <2>1, Typed
    <3>2. \A j \in 1 .. Len(w.body) : w.body[j].of = count
      BY <1>7, <2>1 DEF Part
    <3>3. w.status = Unset \/ w.status.of = count
      BY <1>7, <2>1 DEF IInv, InCalm
    <3>4. QED
      BY <3>1, <3>2, <3>3 DEF Pure
  <2>4. (\A i \in 1 .. Len(wire) : Pure(wire[i], upset))'
    BY <1>2, <2>2, PureGrows
  <2>5. \A d \in Worker : worksFor'[d] = 0
    BY <1>1, <1>7, <2>1
  <2>6. QED
    BY <1>2, <1>3, <1>7, <2>1, <2>4, <2>5, EmptyIs DEF InCalm
<1>9. InOrder'
  <2> SUFFICES ASSUME Waits' PROVE InOrder'
    BY DEF InOrder
  <2>1. Calm /\ Waits
    BY <1>2 DEF Calm, Waits
  <2>2. Len(wire) = count - 1 /\ \A i \in 1 .. Len(wire) : wire[i].to = i
    BY <1>7, <2>1 DEF IInv, InOrder
  <2>3. w.to = Len(wire) + 1
    BY <1>4, <1>7, <2>1, <2>2, Typed
  <2>4. Len(wire') = count /\ \A i \in 1 .. Len(wire') : wire'[i].to = i
    BY <2>2, <2>3, Typed, OrderGrows
  <2>5. QED
    BY <1>2, <1>3, <1>7, <2>1, <2>4 DEF InOrder
<1>10. Counted'
  <2>1. Len(wire') = Len(wire) + 1
    BY <1>3, Typed
  <2>2. Owed' = Owed /\ Owed \in Nat /\ Steady' = Steady
    BY <1>2 DEF Owed, Steady
  <2>3. Steady => count <= Len(wire) + Cardinality(Busy) + Owed
    BY DEF IInv, Counted
  <2>4. Steady' => count' <= Len(wire') + Cardinality(Busy') + Owed'
    BY <1>1, <1>2, <2>1, <2>2, <2>3, Typed
  <2>5. QED
    BY <1>1, <2>4 DEF Counted
<1>11. QED
  BY <1>5, <1>6, <1>8, <1>9, <1>10 DEF IInv, WireInv

LEMMA OutputReadStep ==
  ASSUME IInv, NEW c \in Worker, OutputRead(c)
  PROVE  IInv'
<1> DEFINE n == worksFor[c]
           out == Part("output", n, c)
           r == Add(response, out)
<1>1. Ends(c) /\ UNCHANGED <<count, owes, write, upset>>
      /\ \E s \in {r, With(r, UNPROCESSABLE_CONTENT, n)} : Reply(s, request)
  BY Zenon DEF OutputRead
<1>2. n \in 1 .. count /\ n \in Nat
  BY <1>1, BusyEnds, Typed
<1>3. out \in PartRec
  BY <1>2 DEF Part, PartRec
<1>4. r \in Response /\ r.status = response.status /\ r.body = Append(response.body, out)
  BY <1>3, Typed, AddIs
<1>5. PICK s \in {r, With(r, UNPROCESSABLE_CONTENT, n)} : Reply(s, request)
  BY <1>1
<1>6. UNPROCESSABLE_CONTENT \in Nat
  BY Codes
<1> HIDE DEF r
<1>7. /\ s \in Response /\ s.body = Append(response.body, out)
      /\ s.status \in {response.status, [code |-> UNPROCESSABLE_CONTENT, of |-> n]}
  <2>1. CASE s = r
    BY <1>4, <2>1
  <2>2. CASE s = With(r, UNPROCESSABLE_CONTENT, n)
    <3>1. /\ s \in Response /\ s.body = r.body
          /\ s.status = [code |-> UNPROCESSABLE_CONTENT, of |-> n]
      BY <1>2, <1>4, <1>6, <2>2, WithIs
    <3>2. QED
      BY <1>4, <3>1
  <2>3. QED
    BY <1>5, <2>1, <2>2
<1>8. s.status.code \in {0, BAD_GATEWAY, UNPROCESSABLE_CONTENT}
      /\ s.status.code \notin Paged /\ s.status.code \notin {BAD_REQUEST_400, NOT_IMPLEMENTED}
  BY <1>7, Waiting, Codes
<1>9. /\ Len(s.body) = Len(response.body) + 1
      /\ \A j \in 1 .. Len(response.body) :
           request # Nothing /\ s.body[j] = Part("chunks", count, Nothing)
      /\ s.body[Len(response.body) + 1] = out
  BY <1>3, <1>7, Waiting
<1>10. \A j \in 1 .. Len(s.body) :
         \/ s.body[j] = out
         \/ request # Nothing /\ s.body[j] = Part("chunks", count, Nothing)
  BY <1>9, Waiting
<1>11. AllDistinct(s.body)
  <2>1. out # Part("chunks", count, Nothing)
    BY DEF Part
  <2>2. CASE Len(response.body) = 0
    BY <1>9, <2>2 DEF AllDistinct
  <2>3. CASE Len(response.body) = 1
    BY <1>9, <2>1, <2>3 DEF AllDistinct
  <2>4. QED
    BY <2>2, <2>3, Waiting
<1>12. \A j \in 1 .. Len(s.body) : s.body[j].what \in {"chunks", "output"}
  BY <1>10 DEF Part
<1> DEFINE w == Composed(s, request)
<1>13. /\ w \in Sent /\ Framed(w) /\ w.status = s.status /\ w.body = s.body
       /\ w.to = IF request = Nothing THEN 0 ELSE request.n
  BY <1>7, <1>8, <1>12, Waiting, ComposedIs
<1>14. Replied(w)
  BY <1>5, <1>13, Typed, ReplyIs
<1> HIDE DEF w
<1>15. /\ w.status = response.status \/ w.status.of = n
       /\ w.status.code \notin {BAD_REQUEST_400, NOT_IMPLEMENTED}
  BY <1>7, <1>8, <1>13
<1>16. write' \in BOOLEAN
  BY <1>1, Typed
<1>17. QED
  BY <1>1, <1>10, <1>11, <1>13, <1>14, <1>15, <1>16, ProcessReplies

LEMMA WorkerTimeoutStep ==
  ASSUME IInv, NEW c \in Worker, WorkerTimeout(c)
  PROVE  IInv'
<1> DEFINE n == worksFor[c]
           r == With(response, GATEWAY_TIMEOUT, n)
           w == Composed(r, request)
<1>1. Ends(c) /\ Reply(r, request) /\ write' = TRUE /\ UNCHANGED <<count, owes, upset>>
  BY Zenon DEF WorkerTimeout
<1>2. n \in 1 .. count /\ n \in Nat
  BY <1>1, BusyEnds, Typed
<1>3. /\ GATEWAY_TIMEOUT \in Nat /\ GATEWAY_TIMEOUT \notin Paged
      /\ GATEWAY_TIMEOUT \notin {BAD_REQUEST_400, NOT_IMPLEMENTED}
  BY Codes
<1>4. /\ r \in Response /\ r.body = response.body
      /\ r.status = [code |-> GATEWAY_TIMEOUT, of |-> n]
  BY <1>2, <1>3, Typed, WithIs
<1> HIDE DEF r
<1>5. \A j \in 1 .. Len(r.body) : request # Nothing /\ r.body[j] = Part("chunks", count, Nothing)
  BY <1>4, Waiting
<1>6. \A j \in 1 .. Len(r.body) : r.body[j].what \in {"chunks", "output"}
  BY <1>5 DEF Part
<1>7. AllDistinct(r.body)
  BY <1>4, Waiting DEF AllDistinct
<1>8. /\ w \in Sent /\ Framed(w) /\ w.status = r.status /\ w.body = r.body
      /\ w.to = IF request = Nothing THEN 0 ELSE request.n
  BY <1>3, <1>4, <1>6, Waiting, ComposedIs
<1>9. Replied(w)
  BY <1>1, <1>8, Typed, ReplyIs
<1> HIDE DEF w
<1>10. w.status.code \notin {BAD_REQUEST_400, NOT_IMPLEMENTED} /\ w.status.of = n
  BY <1>3, <1>4, <1>8
<1>11. write' \in BOOLEAN
  BY <1>1
<1>12. QED
  BY <1>1, <1>5, <1>7, <1>8, <1>9, <1>10, <1>11, ProcessReplies

LEMMA OutputUnreadStep ==
  ASSUME IInv, NEW c \in Worker, OutputUnread(c)
  PROVE  IInv'
<1> DEFINE n == worksFor[c]
<1>1. /\ Ends(c) /\ response' = With(response, BAD_GATEWAY, n) /\ write' = TRUE
      /\ upset' = upset \cup {"unread"}
      /\ UNCHANGED <<count, owes, stage, buffer, request, unsent, wire>>
  BY Zenon DEF OutputUnread
<1>2. /\ worksFor' = [worksFor EXCEPT ![c] = 0]
      /\ \A d \in Worker : worksFor'[d] = IF d = c THEN 0 ELSE worksFor[d]
      /\ n \in 1 .. count /\ n \in Nat
      /\ IsFiniteSet(Busy')
  BY <1>1, BusyEnds, Typed
<1>3. /\ response' \in Response /\ response'.body = response.body
      /\ response'.status = [code |-> BAD_GATEWAY, of |-> n]
  BY <1>1, <1>2, Typed, WithIs, Codes
<1>4. WireInv'
  BY <1>1, <1>2, Typed, WireStays
<1>5. Shapes'
  <2>1. RepliesTypeOK'
    <3>1. worksFor' \in [Worker -> 0 .. count']
      BY <1>1, <1>2, Typed
    <3>2. upset' \subseteq Upset /\ upset \subseteq upset'
      BY <1>1, Typed DEF Upset
    <3>3. QED
      BY <1>1, <3>1, <3>2 DEF IInv, Shapes, RepliesTypeOK
  <2>2. response'.status \in [code : {BAD_GATEWAY}, of : 1 .. count']
    BY <1>1, <1>2, <1>3
  <2>3. response'.body = <<>> \/ (stage' = "complete" /\ response'.body = Chunks(request'))
    BY <1>1, <1>3 DEF IInv, Shapes
  <2>4. request' # Nothing => request' \in Request /\ request'.n = count' /\ count' > 0
    BY <1>1, UnderWay
  <2>5. QED
    BY <1>1, <1>3, <1>4, <2>1, <2>2, <2>3, <2>4 DEF Shapes, Response, WireInv
<1>6. InCalm'
  <2> SUFFICES ASSUME Calm' PROVE InCalm'
    BY DEF InCalm
  <2>1. Calm /\ upset \subseteq upset'
    BY <1>1 DEF Calm
  <2>2. (\A i \in 1 .. Len(wire) : Pure(wire[i], upset))'
    BY <1>1, <2>1, PureKept
  <2>3. n = count
    BY <1>2, <2>1 DEF IInv, InCalm
  <2>4. /\ owes' # "nothing" <=> stage' = "partial"
        /\ buffer' # "empty" => stage' = "complete" \/ (stage' = "partial" /\ "split" \in upset')
    BY <1>1, <2>1 DEF IInv, InCalm
  <2>5. /\ \A d \in Worker : worksFor'[d] # 0 => stage' = "complete" /\ worksFor'[d] = count'
        /\ \A d, e \in Worker : worksFor'[d] # 0 /\ worksFor'[e] # 0 => d = e
    BY <1>1, <1>2, <2>1 DEF IInv, InCalm
  <2>6. response'.status # Unset => response'.status.of = count'
    BY <1>1, <1>3, <2>3
  <2>7. QED
    BY <2>2, <2>4, <2>5, <2>6 DEF InCalm
<1>7. InOrder' /\ Counted'
  BY <1>1, <1>2 DEF InOrder, Counted, Waits, Steady
<1>8. QED
  BY <1>4, <1>5, <1>6, <1>7 DEF IInv, WireInv

LEMMA WriteEventStep ==
  ASSUME IInv, WriteEvent
  PROVE  IInv'
<1>1. /\ write' = FALSE /\ SendAll(unsent, response)
      /\ upset' = IF stage = "start" THEN upset ELSE upset \cup {"cleared"}
      /\ UNCHANGED <<count, owes, buffer, worksFor>>
  BY Zenon DEF WriteEvent
<1>2. /\ stage' = "start" /\ request' = Nothing /\ response' = Empty /\ unsent' = <<>>
      /\ wire' = wire \o unsent
  BY <1>1, Zenon DEF SendAll, ResponseAfter
<1>3. wire' = wire
  <2>1. wire \in Seq(Sent) /\ unsent = <<>>
    BY Typed
  <2>2. wire \o <<>> = wire
    BY <2>1
  <2>3. QED
    BY <1>2, <2>1, <2>2
<1>4. WireInv'
  BY <1>1, <1>2, <1>3, Typed, WireStays
<1>5. Shapes'
  <2>1. /\ owes' \in {"nothing", "lines", "body"} /\ write' \in BOOLEAN /\ upset' \subseteq Upset
        /\ buffer' \in {"empty"} \cup Stray
    BY <1>1, Typed DEF Upset
  <2>2. QED
    BY <1>1, <1>2, <1>3, <2>1, Typed, ClearedShapes
<1>6. InCalm'
  <2> SUFFICES ASSUME Calm' PROVE InCalm'
    BY DEF InCalm
  <2>1. Calm /\ stage = "start"
    BY <1>1 DEF Calm
  <2>2. (\A i \in 1 .. Len(wire) : Pure(wire[i], upset))'
    BY <1>1, <1>3, PureKept
  <2>3. QED
    BY <1>1, <1>2, <2>1, <2>2, EmptyIs DEF IInv, InCalm
<1>7. InOrder'
  <2> SUFFICES ASSUME Waits' PROVE InOrder'
    BY DEF InOrder
  <2>1. stage = "start" /\ Waits
    BY <1>1 DEF Waits
  <2>2. QED
    BY <1>1, <1>2, <1>3, <2>1 DEF IInv, InOrder
<1>8. Counted'
  <2>1. Busy' = Busy /\ IsFiniteSet(Busy')
    BY <1>1, BusyStays
  <2>2. Owed' = Owed /\ (Steady' => Steady)
    BY <1>1 DEF Owed, Steady
  <2>3. QED
    BY <1>1, <1>3, <2>1, <2>2 DEF IInv, Counted
<1>9. QED
  BY <1>4, <1>5, <1>6, <1>7, <1>8 DEF IInv, WireInv

-----------------------------------------------------------------------------
(* The theorems                                                              *)

LEMMA InitIInv == RepliesInit => IInv
<1> SUFFICES ASSUME RepliesInit PROVE IInv
  OBVIOUS
<1>1. /\ count = 0 /\ owes = "nothing" /\ stage = "start" /\ buffer = "empty" /\ request = Nothing /\ response = Empty
      /\ unsent = <<>> /\ write = FALSE /\ worksFor = [c \in Worker |-> 0] /\ wire = <<>>
      /\ upset = {}
  BY DEF RepliesInit
<1>2. wire \in Seq(Sent) /\ Len(wire) = 0
  BY <1>1
<1>3. RepliesTypeOK
  <2>1. worksFor \in [Worker -> 0 .. count]
    BY <1>1
  <2>2. count \in 0 .. MaxRequests
    BY <1>1, RepliesAssumption
  <2>3. QED
    BY <1>1, <2>1, <2>2 DEF RepliesTypeOK
<1>4. Shapes
  BY <1>1, <1>2, <1>3, EmptyIs DEF Shapes, Response
<1>5. Spent /\ RepliesFramed
  BY <1>2, SentTwice DEF Spent, RepliesFramed, LengthTold, Distinct
<1>6. InCalm
  BY <1>1, <1>2, EmptyIs DEF InCalm
<1>7. InOrder
  BY <1>1, <1>2 DEF InOrder
<1>8. Counted
  <2>1. Busy = {}
    BY <1>1 DEF Busy
  <2>2. QED
    BY <1>1, <1>2, <2>1, FS_EmptySet DEF Counted, Owed
<1>9. QED
  BY <1>4, <1>5, <1>6, <1>7, <1>8 DEF IInv

LEMMA NextIInv == IInv /\ [RepliesNext]_repliesVars => IInv'
<1> SUFFICES ASSUME IInv, [RepliesNext]_repliesVars PROVE IInv'
  OBVIOUS
<1>1. ASSUME NEW k \in Kinds, Whole(k) PROVE IInv'
  BY <1>1, WholeStep
<1>2. ASSUME NEW k \in Kinds, FirstHalf(k) PROVE IInv'
  BY <1>2, FirstHalfStep
<1>3. CASE SecondHalf
  BY <1>3, SecondHalfStep
<1>4. CASE More
  BY <1>4, MoreStep
<1>5. ASSUME NEW c \in Worker, OutputRead(c) PROVE IInv'
  BY <1>5, OutputReadStep
<1>6. ASSUME NEW c \in Worker, OutputUnread(c) PROVE IInv'
  BY <1>6, OutputUnreadStep
<1>7. ASSUME NEW c \in Worker, WorkerTimeout(c) PROVE IInv'
  BY <1>7, WorkerTimeoutStep
<1>8. CASE WriteEvent
  BY <1>8, WriteEventStep
<1>9. CASE UNCHANGED repliesVars
  <2>1. UNCHANGED <<count, owes, stage, buffer, request, response, unsent, write, worksFor, wire, upset>>
    BY <1>9 DEF repliesVars
  <2>2. WireInv'
    BY <2>1, Typed, WireStays
  <2>3. Shapes' /\ InCalm' /\ InOrder' /\ Counted'
    <3>1. Shapes' /\ InOrder'
      BY <2>1 DEF IInv, Shapes, RepliesTypeOK, InOrder, Waits
    <3>2. InCalm'
      <4> SUFFICES ASSUME Calm' PROVE InCalm'
        BY DEF InCalm
      <4>1. (\A i \in 1 .. Len(wire) : Pure(wire[i], upset))'
        BY <2>1, PureKept
      <4>2. Calm
        BY <2>1 DEF Calm
      <4>3. QED
        BY <2>1, <4>1, <4>2 DEF IInv, InCalm
    <3>3. Counted'
      BY <2>1, BusyStays DEF IInv, Counted, Steady, Owed
    <3>4. QED
      BY <3>1, <3>2, <3>3
  <2>4. QED
    BY <2>2, <2>3 DEF IInv, WireInv
<1>10. QED
  BY <1>1, <1>2, <1>3, <1>4, <1>5, <1>6, <1>7, <1>8, <1>9, Zenon DEF RepliesNext

LEMMA AlwaysIInv == RepliesSpec => []IInv
  BY InitIInv, NextIInv, PTL DEF RepliesSpec

\* Every variable keeps its type, and a WRITE event finds nothing to send.
THEOREM RepliesTypeCorrect == RepliesSpec => []RepliesTypeOK
<1>1. IInv => RepliesTypeOK
  BY DEF IInv, Shapes
<1>2. QED
  BY <1>1, AlwaysIInv, PTL

\* However many processes there are and in whatever order they end, the client
\* can tell where each reply ends and gets no part of one twice.
THEOREM AlwaysFramed == RepliesSpec => []RepliesFramed
<1>1. IInv => RepliesFramed
  BY DEF IInv
<1>2. QED
  BY <1>1, AlwaysIInv, PTL

LEMMA PureOf ==
  ASSUME IInv, Calm, NEW i \in 1 .. Len(wire)
  PROVE  /\ wire[i].status.code \in {BAD_REQUEST_400, NOT_IMPLEMENTED} => "split" \in upset
         /\ Of(i) \subseteq {wire[i].to}
<1>1. Pure(wire[i], upset)
  BY Zenon DEF IInv, InCalm
<1>2. PICK n \in Nat : /\ wire[i].to = n
                       /\ wire[i].status = Unset \/ wire[i].status.of = n
                       /\ \A j \in 1 .. Len(wire[i].body) : wire[i].body[j].of = n
  BY <1>1, Zenon DEF Pure
<1>3. Of(i) \subseteq {n}
  BY <1>2 DEF Of
<1>4. QED
  BY <1>1, <1>2, <1>3 DEF Pure

\* Replies have parts of one request each, unless the client sent something while
\* one waited, a WRITE event cleared one or chunks came in two segments; and
\* without these a request is rejected only if a body with a length was cut.
THEOREM AlwaysMixedCause == RepliesSpec => []MixedCause
<1>1. IInv => MixedCause
  <2> SUFFICES ASSUME IInv, Calm, NEW i \in 1 .. Len(wire)
               PROVE  /\ Cardinality(Of(i) \cup ({wire[i].to} \ {0})) <= 1
                      /\ wire[i].status.code \in {BAD_REQUEST_400, NOT_IMPLEMENTED} => "split" \in upset
    BY DEF MixedCause, Calm
  <2> DEFINE S == Of(i) \cup ({wire[i].to} \ {0})
  <2>1. S \subseteq {wire[i].to}
    BY PureOf
  <2>2. IsFiniteSet({wire[i].to}) /\ Cardinality({wire[i].to}) = 1
    BY FS_Singleton
  <2> HIDE DEF S
  <2>3. Cardinality(S) <= 1
    BY <2>1, <2>2, FS_Subset
  <2>4. QED
    BY <2>3, PureOf DEF S
<1>2. QED
  BY <1>1, AlwaysIInv, PTL

\* A client that waits for its replies, and whose chunks come in one segment, gets
\* them in order, each with parts of its own request; and no request is left
\* without one but for an output that could not be read, a process that was gone
\* too early, or the end of a request that was cleared.
THEOREM AlwaysInStep == RepliesSpec => []InStep
<1>1. IInv => InStep
  <2> SUFFICES ASSUME IInv PROVE InStep
    OBVIOUS
  <2>1. ServedInOrder
    <3> SUFFICES ASSUME Waits PROVE ServedInOrder
      BY DEF ServedInOrder, Waits
    <3>1. Calm
      BY DEF Calm, Waits
    <3>2. /\ Len(wire) = IF stage = "start" /\ owes = "nothing" THEN count ELSE count - 1
          /\ \A i \in 1 .. Len(wire) : wire[i].to = i
      BY DEF IInv, InOrder
    <3>3. \A i \in 1 .. Len(wire) : Of(i) \subseteq {i}
      BY <3>1, <3>2, PureOf
    <3>4. QED
      BY <3>2, <3>3 DEF ServedInOrder
  <2>2. NoneUnanswered
    <3> SUFFICES ASSUME owes = "nothing", Steady, \A c \in Worker : worksFor[c] = 0
                 PROVE  Len(wire) >= count
      BY DEF NoneUnanswered, Steady
    <3>1. Busy = {}
      BY DEF Busy
    <3>2. Cardinality(Busy) = 0 /\ Owed = 0
      BY <3>1, FS_EmptySet DEF Owed
    <3>3. QED
      BY <3>2, Typed DEF IInv, Counted
  <2>3. QED
    BY <2>1, <2>2 DEF InStep, IInv, Shapes
<1>2. QED
  BY <1>1, AlwaysIInv, PTL
=============================================================================
