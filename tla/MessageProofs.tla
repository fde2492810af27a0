---------------------------- MODULE MessageProofs ---------------------------
(***************************************************************************)
(* Proofs about the parts of a request that is received and about the      *)
(* output that answers it: MessageHead, for any lines that are sent, of    *)
(* any length, and any reading of two characters as an octet; ChunkLoop,   *)
(* for any bodies of any length and a long of any width; and CgiOutput,    *)
(* for any output of a process: lines of any length, the last with its LF  *)
(* or not.                                                                 *)
(*                                                                         *)
(* A target that was built from units is followed through what cuts it,    *)
(* with the sequence of what its first units make: f[k] are the characters *)
(* of the first k.  The invariant of MessageHead says what each function   *)
(* has found in the line that was sent, and that the headers are what the  *)
(* lines taken say, the first of a name for all of them.                   *)
(*                                                                         *)
(* Of ChunkLoop: chunks that frame some data give that data, and no byte   *)
(* becomes data twice unless a size wraps.  Its invariant says how much of *)
(* what was sent has been taken out of the buffer, and of framed data      *)
(* where the loop is in them.                                              *)
(*                                                                         *)
(* An output is followed the same way, its lines being the units.  The     *)
(* invariant of CgiOutput says how many lines were taken, that what is not *)
(* parsed are the others, and that the headers are those of the lines      *)
(* taken, the last of a name for all of them.                              *)
(***************************************************************************)
EXTENDS MessageHead, ChunkLoop, CgiOutput, StringProofs

-----------------------------------------------------------------------------
(* Decoding                                                                  *)

Octets == {OctetOf[p] : p \in DOMAIN OctetOf} \cup {Invalid}

\* g is what urldecode() has made of s after each character.
Decodes(g, s, n, T) ==
  /\ n \in Nat /\ s \in Seq(T) /\ Len(s) = n
  /\ g \in [0 .. n -> [out : Seq(T \cup Octets), skip : 0 .. 2]]
  /\ g[0] = [out |-> <<>>, skip |-> 0]
  /\ \A i \in 1 .. n : g[i] = DecodeStep(s, g[i - 1], i)

LEMMA DecodeStepType ==
  ASSUME NEW T, NEW n \in Nat, NEW s \in Seq(T), Len(s) = n, NEW i \in 1 .. n,
         NEW acc \in [out : Seq(T \cup Octets), skip : 0 .. 2]
  PROVE  DecodeStep(s, acc, i) \in [out : Seq(T \cup Octets), skip : 0 .. 2]
<1>1. s[i] \in T \cup Octets
  OBVIOUS
<1>2. \A a, b : Decoded(a, b) \in T \cup Octets
  BY DEF Decoded, Octets
<1>3. PICK o \in Seq(T \cup Octets), k \in 0 .. 2 : acc = [out |-> o, skip |-> k]
  <2> HIDE DEF Octets
  <2>1. acc.out \in Seq(T \cup Octets) /\ acc.skip \in 0 .. 2 /\ acc = [out |-> acc.out, skip |-> acc.skip]
    OBVIOUS
  <2>2. QED
    BY <2>1
<1>4. Append(o, s[i]) \in Seq(T \cup Octets)
  BY <1>1, AppendProperties
<1>5. Append(o, Decoded(s[i + 1], s[i + 2])) \in Seq(T \cup Octets)
  BY <1>2, AppendProperties
<1>6. k > 0 => k - 1 \in 0 .. 2
  OBVIOUS
<1>7. k > 0 => DecodeStep(s, acc, i) = [out |-> o, skip |-> k - 1]
  BY <1>3 DEF DecodeStep
<1>8. ~(k > 0) => DecodeStep(s, acc, i) \in {[out |-> Append(o, Decoded(s[i + 1], s[i + 2])), skip |-> 2],
                                             [out |-> Append(o, s[i]), skip |-> k]}
  BY <1>3 DEF DecodeStep
<1>9. CASE k > 0
  <2>1. [out |-> o, skip |-> k - 1] \in [out : Seq(T \cup Octets), skip : 0 .. 2]
    BY <1>6, <1>9
  <2>2. QED
    BY <1>7, <1>9, <2>1
<1>10. CASE ~(k > 0)
  <2>1. /\ [out |-> Append(o, Decoded(s[i + 1], s[i + 2])), skip |-> 2] \in [out : Seq(T \cup Octets), skip : 0 .. 2]
        /\ [out |-> Append(o, s[i]), skip |-> k] \in [out : Seq(T \cup Octets), skip : 0 .. 2]
    BY <1>4, <1>5
  <2>2. QED
    BY <1>8, <1>10, <2>1
<1>11. QED
  BY <1>9, <1>10

LEMMA DecodeIs ==
  ASSUME NEW T, NEW s \in Seq(T)
  PROVE  \E g : Decodes(g, s, Len(s), T) /\ UrlDecode(s) = g[Len(s)].out
<1> DEFINE S == [out : Seq(T \cup Octets), skip : 0 .. 2]
           v == [out |-> <<>>, skip |-> 0]
<1>1. PICK n \in Nat : n = Len(s)
  BY LenIsNat
<1> DEFINE step == [i \in 1 .. n |-> [x \in S |-> DecodeStep(s, x, i)]]
           F(h) == [i \in 0 .. n |-> IF i = 0 THEN v ELSE DecodeStep(s, h[i - 1], i)]
           g == CHOOSE h : h = F(h)
<1>2. step \in [1 .. n -> [S -> S]]
  <2>1. \A i \in 1 .. n, x \in S : DecodeStep(s, x, i) \in S
    <3> HIDE DEF S
    <3>1. QED
      BY <1>1, DecodeStepType DEF S
  <2> HIDE DEF S
  <2>2. QED
    BY <2>1
<1>3. v \in S
  OBVIOUS
<1>4. PICK f \in [0 .. n -> S] : Steps(f, n, v, step)
  <2> HIDE DEF step, S, v
  <2>1. QED
    BY <1>2, <1>3, RecursionExists
<1>5. \A i \in 1 .. n : f[i] = DecodeStep(s, f[i - 1], i)
  <2>1. \A i \in 1 .. n : f[i - 1] \in S
    <3> HIDE DEF S
    <3>1. QED
      OBVIOUS
  <2>2. \A i \in 1 .. n : f[i] = step[i][f[i - 1]]
    BY <1>4 DEF Steps
  <2> HIDE DEF S
  <2>3. QED
    BY <2>1, <2>2
<1>6. f[0] = v
  BY <1>4 DEF Steps
<1>7. f = F(f)
  <2> HIDE DEF S, v
  <2>1. QED
    BY <1>5, <1>6
<1>8. g = F(g)
  <2> HIDE DEF F, S
  <2>1. QED
    BY <1>7
<1>9. UrlDecode(s) = g[n].out
  BY <1>1 DEF UrlDecode
<1>10. /\ g[0] = v
       /\ \A i \in 1 .. n : g[i] = DecodeStep(s, g[i - 1], i)
  <2> DEFINE G == F(g)
  <2>1. G[0] = v /\ \A i \in 1 .. n : G[i] = DecodeStep(s, g[i - 1], i)
    <3> HIDE DEF g, v
    <3>1. QED
      OBVIOUS
  <2>2. g = G
    BY <1>8
  <2> HIDE DEF G, g, v
  <2>3. QED
    BY <2>1, <2>2
<1>11. \A i \in 0 .. n : g[i] \in S
  <2> DEFINE P == {i \in 0 .. n : g[i] \in S}
  <2> HIDE DEF g, S, v
  <2>1. 0 \in P
    BY <1>3, <1>10
  <2>2. ASSUME NEW i \in 1 .. n, i - 1 \in P PROVE i \in P
    <3>1. g[i - 1] \in S
      BY <2>2
    <3>2. DecodeStep(s, g[i - 1], i) \in S
      BY <1>1, <3>1, DecodeStepType DEF S
    <3>3. QED
      BY <1>10, <3>2
  <2> HIDE DEF P
  <2>3. \A i \in 0 .. n : i \in P
    BY <2>1, <2>2, Along
  <2>4. QED
    BY <2>3 DEF P
<1>12. g \in [0 .. n -> S]
  <2>1. DOMAIN g = 0 .. n /\ g = [i \in 0 .. n |-> g[i]]
    <3> DEFINE G == F(g)
    <3>1. DOMAIN G = 0 .. n /\ G = [i \in 0 .. n |-> G[i]]
      <4> HIDE DEF g
      <4>1. QED
        OBVIOUS
    <3>2. g = G
      BY <1>8
    <3> HIDE DEF G, g
    <3>3. QED
      BY <3>1, <3>2
  <2> HIDE DEF g, S
  <2>2. QED
    BY <1>11, <2>1
<1> HIDE DEF g
<1>13. Decodes(g, s, n, T)
  BY <1>1, <1>10, <1>12 DEF Decodes
<1>14. QED
  BY <1>1, <1>9, <1>13

StateOf(x, T) == \E o \in Seq(T \cup Octets), k \in 0 .. 2 : x = [out |-> o, skip |-> k]

LEMMA DecodeState ==
  ASSUME NEW T, NEW n, NEW s, NEW g, Decodes(g, s, n, T)
  PROVE  \A i \in 1 .. n : StateOf(g[i - 1], T)
<1>0. SUFFICES ASSUME NEW i \in 1 .. n PROVE StateOf(g[i - 1], T)
  OBVIOUS
<1> DEFINE S == [out : Seq(T \cup Octets), skip : 0 .. 2]
<1>1. n \in Nat /\ g \in [0 .. n -> S]
  BY DEF Decodes
<1>2. i - 1 \in 0 .. n
  BY <1>1
<1>3. g[i - 1] \in S
  <2> HIDE DEF S
  <2>1. QED
    BY <1>1, <1>2
<1>4. PICK x \in S : x = g[i - 1]
  BY <1>3
<1>5. x.out \in Seq(T \cup Octets) /\ x.skip \in 0 .. 2 /\ x = [out |-> x.out, skip |-> x.skip]
  OBVIOUS
<1>6. QED
  BY <1>4, <1>5 DEF StateOf

\* What is decoded is not longer than what was written.
LEMMA DecodeLength ==
  ASSUME NEW T, NEW n, NEW s, NEW g, Decodes(g, s, n, T)
  PROVE  \A i \in 0 .. n : Len(g[i].out) \in Nat /\ Len(g[i].out) <= i
<1>0. n \in Nat /\ g \in [0 .. n -> [out : Seq(T \cup Octets), skip : 0 .. 2]]
  BY DEF Decodes
<1>1. \A i \in 0 .. n : Len(g[i].out) \in Nat
  BY <1>0
<1> DEFINE P == {i \in 0 .. n : Len(g[i].out) <= i}
<1>2. 0 \in P
  BY <1>0 DEF Decodes
<1>3. ASSUME NEW i \in 1 .. n, i - 1 \in P PROVE i \in P
  <2>1. PICK o \in Seq(T \cup Octets), k \in 0 .. 2 : g[i - 1] = [out |-> o, skip |-> k]
    <3>1. StateOf(g[i - 1], T)
      BY DecodeState
    <3>2. QED
      BY <3>1 DEF StateOf
  <2>2. PICK l \in Nat : l = Len(o) /\ l <= i - 1
    BY <1>3, <2>1
  <2>3. g[i] = DecodeStep(s, g[i - 1], i)
    BY DEF Decodes
  <2>4. \A x : Len(Append(o, x)) = l + 1
    BY <2>2, AppendProperties
  <2>5. g[i].out = o \/ \E x : g[i].out = Append(o, x)
    BY <2>1, <2>3 DEF DecodeStep
  <2>6. Len(g[i].out) = l \/ Len(g[i].out) = l + 1
    BY <2>2, <2>4, <2>5
  <2>7. QED
    BY <1>0, <2>2, <2>6
<1>4. \A i \in 0 .. n : i \in P
  <2> HIDE DEF P
  <2>1. QED
    BY <1>0, <1>2, <1>3, Along
<1>5. QED
  BY <1>1, <1>4

\* stoi() throws only for an escape it can make nothing of.
LEMMA DecodeThrows ==
  ASSUME NEW T, NEW n, NEW s, NEW g, Decodes(g, s, n, T),
         \A i \in 1 .. n : s[i] # Invalid,
         NEW q, q \in 1 .. Len(g[n].out), g[n].out[q] = Invalid
  PROVE  \E i \in 1 .. n - 2 : s[i] = "%" /\ <<s[i + 1], s[i + 2]>> \notin DOMAIN OctetOf
<1> DEFINE Bad == \E i \in 1 .. n - 2 : s[i] = "%" /\ <<s[i + 1], s[i + 2]>> \notin DOMAIN OctetOf
           P == {i \in 0 .. n : (\E p \in 1 .. Len(g[i].out) : g[i].out[p] = Invalid) => Bad}
<1>0. n \in Nat /\ s \in Seq(T) /\ Len(s) = n
       /\ g \in [0 .. n -> [out : Seq(T \cup Octets), skip : 0 .. 2]]
  BY DEF Decodes
<1>1. 0 \in P
  <2>1. g[0].out = <<>>
    BY DEF Decodes
  <2> HIDE DEF Bad
  <2>2. QED
    BY <1>0, <2>1
<1>2. ASSUME NEW i \in 1 .. n, i - 1 \in P PROVE i \in P
  <2>1. PICK o \in Seq(T \cup Octets), k \in 0 .. 2 : g[i - 1] = [out |-> o, skip |-> k]
    <3>1. StateOf(g[i - 1], T)
      BY DecodeState
    <3>2. QED
      BY <3>1 DEF StateOf
  <2>2. PICK l \in Nat : l = Len(o)
    BY LenIsNat
  <2>3. (\E p \in 1 .. l : o[p] = Invalid) => Bad
    <3> HIDE DEF Bad
    <3>1. QED
      BY <1>2, <2>1, <2>2
  <2>4. g[i] = DecodeStep(s, g[i - 1], i)
    BY DEF Decodes
  <2>5. \A x : /\ Len(Append(o, x)) = l + 1
               /\ \A p \in 1 .. l : Append(o, x)[p] = o[p]
               /\ Append(o, x)[l + 1] = x
    BY <2>2, AppendProperties
  <2>6. ASSUME NEW x, g[i].out = Append(o, x), x = Invalid => Bad PROVE i \in P
    <3> HIDE DEF Bad
    <3>1. ASSUME NEW p \in 1 .. Len(g[i].out), g[i].out[p] = Invalid PROVE Bad
      <4>1. p \in 1 .. l \/ p = l + 1
        BY <2>5, <2>6
      <4>2. QED
        BY <2>3, <2>5, <2>6, <3>1, <4>1
    <3>2. i \in 0 .. n
      BY <1>0
    <3>3. QED
      BY <3>1, <3>2
  <2>7. CASE k > 0
    <3>1. g[i].out = o
      BY <2>1, <2>4, <2>7 DEF DecodeStep
    <3> HIDE DEF Bad
    <3>2. QED
      BY <2>2, <2>3, <3>1
  <2>8. CASE ~(k > 0) /\ s[i] = "%" /\ i + 2 <= n
    <3>1. g[i].out = Append(o, Decoded(s[i + 1], s[i + 2]))
      BY <1>0, <2>1, <2>4, <2>8 DEF DecodeStep
    <3>2. i \in 1 .. n - 2
      BY <1>0, <2>8
    <3>3. Decoded(s[i + 1], s[i + 2]) = Invalid => Bad
      BY <2>8, <3>2, OctetAssumption DEF Decoded
    <3>4. QED
      BY <2>6, <3>1, <3>3
  <2>9. CASE ~(k > 0) /\ ~(s[i] = "%" /\ i + 2 <= n)
    <3>1. g[i].out = Append(o, s[i])
      BY <1>0, <2>1, <2>4, <2>9 DEF DecodeStep
    <3>2. QED
      BY <2>6, <3>1
  <2>10. QED
    BY <2>7, <2>8, <2>9
<1>3. \A i \in 0 .. n : i \in P
  <2> HIDE DEF P
  <2>1. QED
    BY <1>0, <1>1, <1>2, Along
<1>4. n \in 0 .. n
  BY <1>0
<1>5. n \in P
  <2> HIDE DEF P
  <2>1. QED
    BY <1>3, <1>4
<1>6. QED
  BY <1>5

-----------------------------------------------------------------------------
(* Targets that are built of units                                           *)

\* f has the characters of the first units of u.
IsBuilt(u, n, f) ==
  /\ IsFlat(f, u, n, STRING)
  /\ u \in Seq(Seq(STRING)) /\ Len(u) = n
  /\ \A i \in 1 .. n : UnitAllowed(u[i])

\* The k-th unit, in the characters of the first m.
UnitIn(f, u, k, m) ==
  /\ Len(f[k - 1]) \in Nat /\ Len(u[k]) \in Nat /\ Len(f[m]) \in Nat
  /\ Len(f[k]) = Len(f[k - 1]) + Len(u[k])
  /\ Len(f[k]) <= Len(f[m])
  /\ \A j \in 1 .. Len(u[k]) : f[m][Len(f[k - 1]) + j] = u[k][j]

LEMMA UnitsAre ==
  ASSUME NEW n, NEW u, NEW f, IsBuilt(u, n, f), NEW m \in 0 .. n, NEW k \in 1 .. m
  PROVE  UnitIn(f, u, k, m)
<1>0. /\ n \in Nat /\ f \in [0 .. n -> Seq(STRING)] /\ k \in 1 .. n /\ k \in 0 .. m
      /\ IsFlat(f, u, n, STRING)
  <2>1. n \in Nat /\ f \in [0 .. n -> Seq(STRING)] /\ IsFlat(f, u, n, STRING)
    BY DEF IsBuilt, IsFlat
  <2>2. QED
    BY <2>1
<1>1. PieceAt(f, u, k)
  BY <1>0, FlatLengths
<1>2. Begins(f, k, m)
  BY <1>0, FlatPrefixes
<1>3. PICK a \in Nat, b \in Nat, c \in Nat :
        /\ a = Len(f[k - 1]) /\ b = Len(u[k]) /\ c = Len(f[m]) /\ Len(f[k]) = a + b
        /\ \A j \in 1 .. b : f[k][a + j] = u[k][j]
  <2>1. Len(f[m]) \in Nat
    BY <1>0
  <2>2. QED
    BY <1>1, <2>1 DEF PieceAt
<1>4. a + b <= c /\ \A p \in 1 .. a + b : f[m][p] = f[k][p]
  BY <1>2, <1>3 DEF Begins
<1>5. \A j \in 1 .. b : a + j \in 1 .. a + b
  OBVIOUS
<1>6. \A j \in 1 .. b : f[m][a + j] = u[k][j]
  BY <1>3, <1>4, <1>5
<1>7. QED
  BY <1>3, <1>4, <1>6 DEF UnitIn

Marks == {SP, "?", "#", "/"}

\* A character that means something in a target is a unit of its own.
LEMMA MarkIsUnit ==
  ASSUME NEW v \in Seq(STRING), UnitAllowed(v), NEW j \in 1 .. Len(v), v[j] \in Marks
  PROVE  v[j] # SP /\ v = <<v[j]>> /\ j = 1
<1>1. CASE Len(v) = 1 /\ v[1] # SP
  <2>1. j = 1
    BY <1>1
  <2>2. \A i \in 1 .. Len(v) : v[i] = <<v[1]>>[i]
    BY <1>1
  <2>3. v = <<v[1]>>
    <3>1. PICK c \in STRING : c = v[1]
      <4>1. v[1] \in STRING
        BY <1>1, ElementOfSeq
      <4>2. QED
        BY <4>1
    <3>2. <<c>> \in Seq(STRING) /\ Len(<<c>>) = Len(v) /\ \A i \in 1 .. Len(v) : v[i] = <<c>>[i]
      BY <1>1, <2>2, <3>1
    <3>3. v = <<c>>
      BY <3>2, SeqEqual
    <3>4. QED
      BY <3>1, <3>3
  <2>4. QED
    BY <1>1, <2>1, <2>3
<1>2. CASE ~(Len(v) = 1 /\ v[1] # SP)
  <2>1. Len(v) = 3 /\ v[1] = "%" /\ v[2] \notin Marks /\ v[3] \notin Marks
    BY <1>2 DEF UnitAllowed, Marks
  <2>2. j = 1 \/ j = 2 \/ j = 3
    BY <2>1
  <2>3. "%" \notin Marks
    BY DEF Marks, SP
  <2>4. QED
    BY <2>1, <2>2, <2>3
<1>3. QED
  BY <1>1, <1>2

UnitAt(f, u, p, k, c) == u[k] = <<c>> /\ p = Len(f[k - 1]) + 1 /\ p = Len(f[k])

LEMMA MarkPlace ==
  ASSUME NEW n, NEW u, NEW f, IsBuilt(u, n, f), NEW m \in 0 .. n, NEW p \in 1 .. Len(f[m]),
         NEW c \in Marks, f[m][p] = c
  PROVE  c # SP /\ \E k \in 1 .. m : UnitAt(f, u, p, k, c)
<1>0. /\ n \in Nat /\ IsFlat(f, u, n, STRING) /\ u \in Seq(Seq(STRING)) /\ Len(u) = n
      /\ \A i \in 1 .. n : UnitAllowed(u[i])
  BY DEF IsBuilt, IsFlat
<1>1. Placed(f, u, p, m)
  BY <1>0, FlatPrefixes
<1>2. PICK k \in 1 .. m : \E j \in 1 .. Len(u[k]) : p = Len(f[k - 1]) + j
  BY <1>1 DEF Placed
<1>3. PICK j \in 1 .. Len(u[k]) : p = Len(f[k - 1]) + j
  BY <1>2
<1>4. UnitIn(f, u, k, m)
  BY UnitsAre
<1>5. u[k][j] = c
  BY <1>3, <1>4 DEF UnitIn
<1>6. k \in 1 .. n
  BY <1>0
<1>7. u[k] \in Seq(STRING) /\ UnitAllowed(u[k])
  BY <1>0, <1>6
<1>8. u[k][j] # SP /\ u[k] = <<u[k][j]>> /\ j = 1
  BY <1>5, <1>7, MarkIsUnit
<1>9. u[k] = <<c>>
  BY <1>5, <1>8
<1>10. Len(u[k]) = 1
  BY <1>9
<1>11. p = Len(f[k - 1]) + 1 /\ p = Len(f[k])
  BY <1>3, <1>4, <1>8, <1>10 DEF UnitIn
<1>12. c # SP
  BY <1>5, <1>8
<1>13. QED
  BY <1>9, <1>11, <1>12 DEF UnitAt

\* And the other way round.
HasPlace(f, k, m, c) ==
  /\ Len(f[k - 1]) \in Nat /\ Len(f[k]) = Len(f[k - 1]) + 1
  /\ Len(f[k]) \in 1 .. Len(f[m]) /\ f[m][Len(f[k])] = c

LEMMA UnitPlace ==
  ASSUME NEW n, NEW u, NEW f, IsBuilt(u, n, f), NEW m \in 0 .. n, NEW k \in 1 .. m,
         NEW c, u[k] = <<c>>
  PROVE  HasPlace(f, k, m, c)
<1>1. UnitIn(f, u, k, m)
  BY UnitsAre
<1>2. Len(u[k]) = 1 /\ u[k][1] = c
  OBVIOUS
<1>3. QED
  BY <1>1, <1>2 DEF UnitIn, HasPlace

\* The decoder is not within an escape.
AtRest(g, p, o) == g[p] = [out |-> o, skip |-> 0]

\* One character, and one escape.
LEMMA DecodePlain ==
  ASSUME NEW T, NEW n, NEW s, NEW g, Decodes(g, s, n, T), NEW p \in 0 .. n - 1, NEW o,
         AtRest(g, p, o), s[p + 1] # "%"
  PROVE  AtRest(g, p + 1, Append(o, s[p + 1]))
<1>1. n \in Nat
  BY DEF Decodes
<1>2. p + 1 \in 1 .. n /\ (p + 1) - 1 = p
  BY <1>1
<1>3. g[p + 1] = DecodeStep(s, g[p], p + 1)
  BY <1>2 DEF Decodes
<1>4. QED
  BY <1>3 DEF DecodeStep, AtRest

LEMMA DecodeEscape ==
  ASSUME NEW T, NEW n, NEW s, NEW g, Decodes(g, s, n, T), NEW p \in 0 .. n - 3, NEW o,
         AtRest(g, p, o), s[p + 1] = "%"
  PROVE  AtRest(g, p + 3, Append(o, Decoded(s[p + 2], s[p + 3])))
<1>1. n \in Nat /\ Len(s) = n
  BY DEF Decodes
<1>2. p + 1 \in 1 .. n /\ p + 2 \in 1 .. n /\ p + 3 \in 1 .. n
  BY <1>1
<1>3. (p + 1) - 1 = p /\ (p + 2) - 1 = p + 1 /\ (p + 3) - 1 = p + 2
  BY <1>1
<1>4. /\ g[p + 1] = DecodeStep(s, g[p], p + 1)
      /\ g[p + 2] = DecodeStep(s, g[p + 1], p + 2)
      /\ g[p + 3] = DecodeStep(s, g[p + 2], p + 3)
  BY <1>2, <1>3 DEF Decodes
<1>5. (p + 1) + 1 = p + 2 /\ (p + 1) + 2 = p + 3 /\ p + 3 <= n
  BY <1>1
<1> DEFINE d == Append(o, Decoded(s[p + 2], s[p + 3]))
<1>6. g[p + 1] = [out |-> d, skip |-> 2]
  <2>1. g[p + 1] = [out |-> Append(o, Decoded(s[(p + 1) + 1], s[(p + 1) + 2])), skip |-> 2]
    <3>1. (p + 1) + 2 <= Len(s)
      BY <1>1, <1>5
    <3>2. QED
      BY <1>4, <3>1 DEF DecodeStep, AtRest
  <2>2. QED
    BY <1>5, <2>1
<1> HIDE DEF d
<1>7. g[p + 2] = [out |-> d, skip |-> 1]
  <2>1. DecodeStep(s, [out |-> d, skip |-> 2], p + 2) = [out |-> d, skip |-> 2 - 1]
    BY DEF DecodeStep
  <2>2. QED
    BY <1>4, <1>6, <2>1
<1>8. g[p + 3] = [out |-> d, skip |-> 0]
  <2>1. DecodeStep(s, [out |-> d, skip |-> 1], p + 3) = [out |-> d, skip |-> 1 - 1]
    BY DEF DecodeStep
  <2>2. QED
    BY <1>4, <1>7, <2>1
<1>9. QED
  BY <1>8 DEF d, AtRest

\* What the first k units stand for.
Stands(u, k) == [i \in 1 .. k |-> Octet(u[i])]

LEMMA StandsGrows ==
  ASSUME NEW u, NEW n \in Nat, NEW k \in 1 .. n
  PROVE  Append(Stands(u, k - 1), Octet(u[k])) = Stands(u, k)
<1> DEFINE V == {Octet(u[i]) : i \in 1 .. n}
           a == Stands(u, k - 1)
           b == Stands(u, k)
           x == Octet(u[k])
<1>1. k - 1 \in Nat /\ k \in Nat /\ x \in V
  OBVIOUS
<1>2. a \in [1 .. k - 1 -> V] /\ b \in [1 .. k -> V] /\ (\A i \in 1 .. k - 1 : a[i] = b[i]) /\ b[k] = x
  BY DEF Stands
<1> HIDE DEF a, b, x, V
<1>3. a \in Seq(V) /\ Len(a) = k - 1 /\ b \in Seq(V) /\ Len(b) = k
  BY <1>1, <1>2, FunctionIsSeq
<1>4. /\ Append(a, x) \in Seq(V) /\ Len(Append(a, x)) = Len(a) + 1
      /\ (\A i \in 1 .. Len(a) : Append(a, x)[i] = a[i]) /\ Append(a, x)[Len(a) + 1] = x
  BY <1>1, <1>3, AppendProperties
<1>5. Len(Append(a, x)) = Len(b)
  BY <1>3, <1>4
<1>6. \A i \in 1 .. Len(b) : Append(a, x)[i] = b[i]
  <2>1. ASSUME NEW i \in 1 .. k PROVE Append(a, x)[i] = b[i]
    <3>1. CASE i = k
      BY <1>2, <1>3, <1>4, <3>1
    <3>2. CASE i # k
      <4>1. i \in 1 .. k - 1
        BY <3>2
      <4>2. QED
        BY <1>2, <1>3, <1>4, <4>1
    <3>3. QED
      BY <3>1, <3>2
  <2>2. QED
    BY <1>3, <2>1
<1>7. Append(a, x) = b
  BY <1>3, <1>4, <1>5, <1>6, SeqEqual
<1>8. QED
  BY <1>7 DEF a, b, x

\* Whole escapes are decoded one by one.
LEMMA DecodeUnits ==
  ASSUME NEW n, NEW u, NEW f, IsBuilt(u, n, f), NEW c \in 0 .. n,
         \A i \in 1 .. n : u[i] # <<"%">>
  PROVE  UrlDecode(f[c]) = Stands(u, c)
<1>0. /\ n \in Nat /\ f \in [0 .. n -> Seq(STRING)] /\ u \in Seq(Seq(STRING)) /\ Len(u) = n
      /\ IsFlat(f, u, n, STRING)
      /\ \A i \in 1 .. n : UnitAllowed(u[i])
  BY DEF IsBuilt, IsFlat
<1>1. PICK s \in Seq(STRING) : s = f[c]
  BY <1>0
<1>2. PICK l \in Nat : l = Len(s)
  BY LenIsNat
<1>3. PICK g : Decodes(g, s, l, STRING) /\ UrlDecode(s) = g[l].out
  BY <1>2, DecodeIs
<1> DEFINE At(k) == AtRest(g, Len(f[k]), Stands(u, k))
           P == {k \in 0 .. c : At(k)}
<1>4. 0 \in P
  <2>1. Len(f[0]) = 0
    BY <1>0, FlatLengths
  <2>2. Stands(u, 0) = <<>>
    BY DEF Stands
  <2>3. g[0] = [out |-> <<>>, skip |-> 0]
    BY <1>3 DEF Decodes
  <2>4. QED
    BY <2>1, <2>2, <2>3 DEF AtRest
<1>5. ASSUME NEW k \in 1 .. c, k - 1 \in P PROVE k \in P
  <2>1. UnitIn(f, u, k, c)
    BY UnitsAre
  <2>2. PICK a \in Nat, b \in Nat : /\ a = Len(f[k - 1]) /\ b = Len(u[k]) /\ Len(f[k]) = a + b
                                    /\ a + b <= l
                                    /\ \A j \in 1 .. b : s[a + j] = u[k][j]
    BY <1>1, <1>2, <2>1 DEF UnitIn
  <2>3. AtRest(g, a, Stands(u, k - 1))
    BY <1>5, <2>2
  <2>4. k \in 1 .. n
    BY <1>0
  <2>5. u[k] \in Seq(STRING) /\ UnitAllowed(u[k]) /\ u[k] # <<"%">>
    <3>1. k \in 1 .. Len(u)
      BY <1>0, <2>4
    <3>2. u[k] \in Seq(STRING)
      BY <1>0, <3>1, ElementOfSeq
    <3>3. UnitAllowed(u[k])
      BY <1>0, <2>4, Zenon
    <3>4. u[k] # <<"%">>
      BY <2>4, Zenon
    <3>5. QED
      BY <3>2, <3>3, <3>4
  <2>6. Append(Stands(u, k - 1), Octet(u[k])) = Stands(u, k)
    BY <1>0, <2>4, StandsGrows
  <2>7. CASE b = 1
    <3>1. s[a + 1] = u[k][1] /\ Octet(u[k]) = u[k][1]
      BY <2>2, <2>7 DEF Octet
    <3>2. u[k][1] # "%"
      <4>1. SUFFICES ASSUME u[k][1] = "%" PROVE FALSE
        OBVIOUS
      <4>2. PICK x \in STRING : x = u[k][1]
        <5>1. 1 \in 1 .. Len(u[k])
          BY <2>2, <2>7
        <5>2. u[k][1] \in STRING
          BY <2>5, <5>1, ElementOfSeq
        <5>3. QED
          BY <5>2
      <4>3. <<x>> \in Seq(STRING) /\ Len(<<x>>) = Len(u[k]) /\ \A i \in 1 .. Len(u[k]) : u[k][i] = <<x>>[i]
        BY <2>2, <2>7, <4>2
      <4>4. u[k] = <<x>>
        BY <2>5, <4>3, SeqEqual
      <4>5. QED
        BY <2>5, <4>1, <4>2, <4>4
    <3>3. a \in 0 .. l - 1 /\ s[a + 1] # "%"
      BY <2>2, <2>7, <3>1, <3>2
    <3>4. AtRest(g, a + 1, Append(Stands(u, k - 1), s[a + 1]))
      BY <1>3, <2>3, <3>3, DecodePlain
    <3>5. Len(f[k]) = a + 1
      BY <2>2, <2>7
    <3>6. At(k)
      BY <2>6, <3>1, <3>4, <3>5
    <3>7. QED
      BY <3>6
  <2>8. CASE b # 1
    <3>1. b = 3 /\ u[k][1] = "%" /\ <<u[k][2], u[k][3]>> \in DOMAIN OctetOf
      BY <2>2, <2>5, <2>8 DEF UnitAllowed
    <3>2. s[a + 1] = "%" /\ s[a + 2] = u[k][2] /\ s[a + 3] = u[k][3]
      <4>1. 1 \in 1 .. b /\ 2 \in 1 .. b /\ 3 \in 1 .. b
        BY <3>1
      <4>2. QED
        BY <2>2, <3>1, <4>1
    <3>3. Decoded(s[a + 2], s[a + 3]) = Octet(u[k])
      BY <2>2, <2>8, <3>1, <3>2 DEF Decoded, Octet
    <3>4. a \in 0 .. l - 3
      BY <2>2, <3>1
    <3>5. AtRest(g, a + 3, Append(Stands(u, k - 1), Decoded(s[a + 2], s[a + 3])))
      BY <1>3, <2>3, <3>2, <3>4, DecodeEscape
    <3>6. Len(f[k]) = a + 3
      BY <2>2, <3>1
    <3>7. At(k)
      BY <2>6, <3>3, <3>5, <3>6
    <3>8. QED
      BY <3>7
  <2>9. QED
    BY <2>7, <2>8
<1>6. c \in Nat /\ c \in 0 .. c
  BY <1>0
<1>7. \A k \in 0 .. c : k \in P
  <2> HIDE DEF P
  <2>1. QED
    BY <1>4, <1>5, <1>6, Along
<1>8. At(c)
  BY <1>6, <1>7
<1>9. QED
  BY <1>1, <1>2, <1>3, <1>8 DEF AtRest

-----------------------------------------------------------------------------
(* What is cut off a target                                                  *)

LEMMA QueryIs ==
  ASSUME NEW v \in Seq(STRING)
  PROVE  /\ ParseQuery(v) \in Seq(STRING) /\ Len(ParseQuery(v)) \in 0 .. Len(v)
         /\ Len(v) - Len(ParseQuery(v)) \in 0 .. Len(v)
<1> DEFINE pos == Find(v, "?")
           end == Find(v, "#")
<1>1. PICK l \in Nat : l = Len(v)
  BY LenIsNat
<1>2. pos \in 0 .. l /\ end \in 0 .. l
  BY <1>1, FindIs
<1>3. ParseQuery(v) = IF pos = 0 THEN <<>> ELSE IF end > pos THEN SubSeq(v, pos, end - 1) ELSE From(v, pos)
  BY DEF ParseQuery
<1> HIDE DEF pos, end
<1>4. SUFFICES ParseQuery(v) \in Seq(STRING) /\ Len(ParseQuery(v)) \in 0 .. l
  BY <1>1
<1>5. CASE pos = 0
  <2>1. <<>> \in Seq(STRING) /\ Len(<<>>) = 0
    OBVIOUS
  <2>2. QED
    BY <1>3, <1>5, <2>1
<1>6. CASE pos # 0 /\ end > pos
  <2>1. pos - 1 \in 0 .. end - 1 /\ end - 1 \in 0 .. Len(v) /\ (pos - 1) + 1 = pos
    BY <1>1, <1>2, <1>6
  <2>2. /\ SubSeq(v, (pos - 1) + 1, end - 1) \in Seq(STRING)
        /\ Len(SubSeq(v, (pos - 1) + 1, end - 1)) = (end - 1) - (pos - 1)
    BY <2>1, SuffixIs
  <2>3. (end - 1) - (pos - 1) \in 0 .. l
    BY <1>2, <1>6
  <2>4. QED
    BY <1>3, <1>6, <2>1, <2>2, <2>3
<1>7. CASE pos # 0 /\ ~(end > pos)
  <2>1. pos - 1 \in 0 .. Len(v) /\ (pos - 1) + 1 = pos
    BY <1>1, <1>2, <1>7
  <2>2. /\ From(v, (pos - 1) + 1) \in Seq(STRING)
        /\ Len(From(v, (pos - 1) + 1)) = Len(v) - (pos - 1)
    BY <2>1, FromIs
  <2>3. l - (pos - 1) \in 0 .. l
    BY <1>2, <1>7
  <2>4. QED
    BY <1>1, <1>3, <1>7, <2>1, <2>2, <2>3
<1>8. QED
  BY <1>5, <1>6, <1>7

\* Of the slashes at the end, all but the first are cut off.
SlashesFrom(v, q) ==
  /\ q \in 0 .. Len(v)
  /\ q # 0 => v[q] # "/"
  /\ \A i \in 1 .. Len(v) : i > q => v[i] = "/"

LEMMA OneSlashIs ==
  ASSUME NEW v \in Seq(STRING)
  PROVE  /\ \E q : SlashesFrom(v, q)
         /\ \A q : SlashesFrom(v, q) =>
              OneSlash(v) = Upto(v, IF q = Len(v) THEN q ELSE q + 1)
<1> DEFINE at == {i \in 1 .. Len(v) : v[i] # "/"}
           m == SelectLastInSeq(v, LAMBDA c : c # "/")
<1>1. PICK l \in Nat : l = Len(v)
  BY LenIsNat
<1>2. SlashesFrom(v, m) /\ \A q : SlashesFrom(v, q) => q = m
  <2>1. at \in SUBSET (1 .. l)
    BY <1>1
  <2>2. m = IF at # {} THEN Max(at) ELSE 0
    BY DEF SelectLastInSeq
  <2> HIDE DEF m
  <2>3. /\ m \in 0 .. l
        /\ m # 0 => m \in at
        /\ \A y \in at : y <= m
    <3> HIDE DEF at
    <3>1. QED
      BY <2>1, <2>2, LastPlace
  <2>4. SlashesFrom(v, m)
    <3>1. \A i \in 1 .. l : i > m => i \notin at
      BY <2>3
    <3>2. QED
      BY <1>1, <2>3, <3>1 DEF SlashesFrom
  <2>5. ASSUME NEW q, SlashesFrom(v, q) PROVE q = m
    <3>1. q \in 0 .. l /\ (q # 0 => q \in at) /\ \A i \in 1 .. l : i > q => i \notin at
      BY <1>1, <2>5 DEF SlashesFrom
    <3>2. q <= m
      <4>1. CASE q = 0
        BY <2>3, <4>1
      <4>2. CASE q # 0
        BY <2>3, <3>1, <4>2
      <4>3. QED
        BY <4>1, <4>2
    <3>3. m <= q
      <4>1. SUFFICES ASSUME m > q PROVE FALSE
        BY <2>3, <3>1
      <4>2. m \in at /\ m \in 1 .. l
        BY <2>3, <3>1, <4>1
      <4>3. QED
        BY <3>1, <4>1, <4>2
    <3>4. QED
      BY <2>3, <3>1, <3>2, <3>3
  <2>6. QED
    BY <2>4, <2>5
<1>3. SlashesOff(v) = Upto(v, m)
  BY DEF SlashesOff
<1> HIDE DEF m
<1>4. OneSlash(v) = Upto(v, IF m = Len(v) THEN m ELSE m + 1)
  <2>1. CASE m = l
    <3>1. ~(v # <<>> /\ v[Len(v)] = "/")
      BY <1>1, <1>2, <2>1 DEF SlashesFrom
    <3>2. OneSlash(v) = v
      BY <3>1 DEF OneSlash
    <3>3. QED
      BY <1>1, <2>1, <3>2, WholeIs
  <2>2. CASE m # l
    <3>1. m \in 0 .. l - 1 /\ v[l] = "/" /\ v[m + 1] = "/" /\ l # 0
      BY <1>1, <1>2, <2>2 DEF SlashesFrom
    <3>2. v # <<>>
      BY <1>1, <3>1
    <3>3. OneSlash(v) = Append(Upto(v, m), "/")
      BY <1>1, <1>3, <3>1, <3>2 DEF OneSlash
    <3>4. m + 1 \in 1 .. Len(v) /\ (m + 1) - 1 = m
      BY <1>1, <3>1
    <3>5. Append(Upto(v, (m + 1) - 1), v[m + 1]) = Upto(v, m + 1)
      BY <3>4, UptoGrows
    <3>6. QED
      BY <1>1, <2>2, <3>1, <3>3, <3>4, <3>5
  <2>3. QED
    BY <2>1, <2>2
<1>5. QED
  BY <1>2, <1>4

\* What is decoded of a target is a beginning of it, before the query.
LEMMA PathIs ==
  ASSUME NEW v \in Seq(STRING)
  PROVE  \E k \in 0 .. Len(v) - Len(ParseQuery(v)) :
           OneSlash(WithoutQuery(v)) = Upto(v, k) /\ OneSlash(WithoutQuery(v)) = Upto(WithoutQuery(v), k)
<1> DEFINE w == WithoutQuery(v)
<1>1. PICK b \in 0 .. Len(v) : b = Len(v) - Len(ParseQuery(v))
  BY QueryIs
<1>2. w = Upto(v, b)
  BY <1>1 DEF WithoutQuery
<1>3. w \in Seq(STRING) /\ Len(w) = b
  <2> HIDE DEF w
  <2>1. QED
    BY <1>2, UptoIs
<1> HIDE DEF w
<1>4. PICK q : SlashesFrom(w, q)
  BY <1>3, OneSlashIs
<1>5. OneSlash(w) = Upto(w, IF q = Len(w) THEN q ELSE q + 1)
  BY <1>3, <1>4, OneSlashIs
<1>6. PICK k \in 0 .. b : k = IF q = Len(w) THEN q ELSE q + 1
  <2>1. q \in 0 .. b
    BY <1>3, <1>4 DEF SlashesFrom
  <2>2. QED
    BY <1>1, <1>3, <2>1
<1>7. OneSlash(w) = Upto(w, k)
  BY <1>5, <1>6
<1>8. Upto(w, k) = Upto(v, k)
  BY <1>2, UptoUpto
<1>9. QED
  BY <1>1, <1>7, <1>8 DEF w

LEMMA UnitsUpto ==
  ASSUME NEW n, NEW u, NEW f, IsBuilt(u, n, f), NEW m \in 0 .. n, NEW k \in 0 .. m
  PROVE  /\ f[m] \in Seq(STRING) /\ f[k] \in Seq(STRING)
         /\ Len(f[k]) \in 0 .. Len(f[m])
         /\ f[k] = Upto(f[m], Len(f[k]))
<1>0. /\ n \in Nat /\ f \in [0 .. n -> Seq(STRING)] /\ IsFlat(f, u, n, STRING)
  BY DEF IsBuilt, IsFlat
<1>1. Begins(f, k, m)
  BY <1>0, FlatPrefixes
<1>2. k \in 0 .. n
  BY <1>0
<1>3. PICK s \in Seq(STRING), t \in Seq(STRING) : s = f[m] /\ t = f[k]
  BY <1>0, <1>2
<1>4. PICK c \in Nat : c = Len(t)
  BY LenIsNat
<1>5. c \in 0 .. Len(s) /\ \A i \in 1 .. c : s[i] = t[i]
  BY <1>1, <1>3, <1>4 DEF Begins
<1>6. Upto(s, c) \in Seq(STRING) /\ Len(Upto(s, c)) = c /\ \A i \in 1 .. c : Upto(s, c)[i] = s[i]
  BY <1>5, UptoIs
<1>7. Upto(s, c) = t
  BY <1>4, <1>5, <1>6, SeqEqual
<1>8. QED
  BY <1>3, <1>4, <1>5, <1>7

\* The path of a target ends before the unit that begins the query.
PathEndsAt(u, k) ==
  /\ k \in 0 .. Len(u)
  /\ \A i \in 1 .. k : u[i] # <<"?">>
  /\ k # Len(u) => u[k + 1] = <<"?">>

LEMMA NoUnitNoMark ==
  ASSUME NEW n, NEW u, NEW f, IsBuilt(u, n, f), NEW m \in 0 .. n, NEW c \in Marks,
         c # SP => \A i \in 1 .. m : u[i] # <<c>>
  PROVE  Find(f[m], c) = 0
<1>1. n \in Nat /\ f[m] \in Seq(STRING)
  BY DEF IsBuilt, IsFlat
<1>2. SUFFICES ASSUME Find(f[m], c) # 0 PROVE FALSE
  OBVIOUS
<1>3. PICK p \in 1 .. Len(f[m]) : f[m][p] = c
  <2>1. Find(f[m], c) \in 1 .. Len(f[m]) /\ f[m][Find(f[m], c)] = c
    BY <1>1, <1>2, FindIs
  <2>2. QED
    BY <2>1
<1>4. c # SP /\ \E k \in 1 .. m : UnitAt(f, u, p, k, c)
  BY <1>3, MarkPlace
<1>5. QED
  BY <1>4 DEF UnitAt

CutAt(f, n, k) == WithoutQuery(f[n]) = f[k] /\ f[k] \o ParseQuery(f[n]) = f[n]

LEMMA QueryOfUnits ==
  ASSUME NEW n, NEW u, NEW f, IsBuilt(u, n, f), \A i \in 1 .. n : u[i] # <<"#">>,
         NEW k, PathEndsAt(u, k)
  PROVE  CutAt(f, n, k)
<1>0. n \in Nat /\ f[n] \in Seq(STRING) /\ Len(u) = n /\ k \in 0 .. n /\ n \in 0 .. n
  BY DEF IsBuilt, IsFlat, PathEndsAt
<1>1. PICK v \in Seq(STRING) : v = f[n]
  BY <1>0
<1>2. PICK l \in Nat : l = Len(v)
  BY LenIsNat
<1>3. Find(v, "#") = 0
  <2>1. "#" \in Marks
    BY DEF Marks
  <2>2. Find(f[n], "#") = 0
    BY <1>0, <2>1, NoUnitNoMark
  <2>3. QED
    BY <1>1, <2>2
<1>4. CASE k = n
  <2>1. "?" \in Marks /\ \A i \in 1 .. n : u[i] # <<"?">>
    BY <1>4 DEF Marks, PathEndsAt
  <2>2. Find(f[n], "?") = 0
    BY <1>0, <2>1, NoUnitNoMark
  <2>3. ParseQuery(v) = <<>>
    BY <1>1, <2>2 DEF ParseQuery
  <2>4. Len(ParseQuery(v)) = 0 /\ l - 0 = l
    BY <2>3
  <2>5. WithoutQuery(v) = v
    BY <1>2, <2>4, WholeIs DEF WithoutQuery
  <2>6. v \o <<>> = v
    BY ConcatEmptySeq
  <2>7. QED
    BY <1>1, <1>4, <2>3, <2>5, <2>6 DEF CutAt
<1>5. CASE k # n
  <2>1. k + 1 \in 1 .. n /\ u[k + 1] = <<"?">> /\ (k + 1) - 1 = k
    BY <1>0, <1>5 DEF PathEndsAt
  <2>2. HasPlace(f, k + 1, n, "?")
    <3>1. PICK i \in 1 .. n : i = k + 1
      BY <2>1
    <3>2. u[i] = <<"?">>
      BY <2>1, <3>1
    <3>3. HasPlace(f, i, n, "?")
      BY <1>0, <3>2, UnitPlace
    <3>4. QED
      BY <3>1, <3>3
  <2>3. PICK a \in Nat : a = Len(f[k]) /\ Len(f[k + 1]) = a + 1 /\ a + 1 \in 1 .. l /\ v[a + 1] = "?"
    BY <1>1, <1>2, <2>1, <2>2 DEF HasPlace
  <2>4. PICK q \in 1 .. l : q = Find(v, "?") /\ v[q] = "?" /\ q <= a + 1
    <3>1. /\ Find(v, "?") \in 0 .. l
          /\ Find(v, "?") = 0 => \A i \in 1 .. l : v[i] # "?"
          /\ Find(v, "?") # 0 => v[Find(v, "?")] = "?" /\ \A i \in 1 .. Find(v, "?") - 1 : v[i] # "?"
      BY <1>2, FindIs
    <3>2. Find(v, "?") # 0
      BY <2>3, <3>1
    <3>3. Find(v, "?") <= a + 1
      <4>1. SUFFICES ASSUME ~(Find(v, "?") <= a + 1) PROVE FALSE
        OBVIOUS
      <4>2. a + 1 \in 1 .. Find(v, "?") - 1
        BY <3>1, <4>1
      <4>3. QED
        BY <2>3, <3>1, <3>2, <4>2
    <3>4. QED
      BY <3>1, <3>2, <3>3
  <2>5. q = a + 1
    <3>1. "?" \in Marks
      BY DEF Marks
    <3>2. q \in 1 .. Len(f[n]) /\ f[n][q] = "?"
      BY <1>1, <1>2, <2>4
    <3>3. PICK i \in 1 .. n : UnitAt(f, u, q, i, "?")
      BY <1>0, <3>1, <3>2, MarkPlace
    <3>4. u[i] = <<"?">> /\ q = Len(f[i])
      BY <3>3 DEF UnitAt
    <3>5. i \notin 1 .. k
      BY <3>4 DEF PathEndsAt
    <3>6. k + 1 \in 0 .. i
      BY <1>0, <3>5
    <3>7. Len(f[k + 1]) \in 0 .. Len(f[i])
      BY <3>6, UnitsUpto
    <3>8. QED
      BY <2>3, <2>4, <3>4, <3>7
  <2>6. ParseQuery(v) = From(v, a + 1)
    <3>1. Find(v, "?") # 0 /\ ~(Find(v, "#") > Find(v, "?"))
      BY <1>3, <2>4
    <3>2. QED
      BY <2>4, <2>5, <3>1 DEF ParseQuery
  <2>7. a \in 0 .. Len(v)
    BY <1>2, <2>3
  <2>8. Len(ParseQuery(v)) = l - a
    BY <1>2, <2>6, <2>7, FromIs
  <2>9. l - (l - a) = a
    BY <2>3
  <2>10. WithoutQuery(v) = Upto(v, a)
    BY <1>2, <2>8, <2>9 DEF WithoutQuery
  <2>11. f[k] = Upto(v, a)
    BY <1>0, <1>1, <2>3, UnitsUpto
  <2>12. Upto(v, a) \o From(v, a + 1) = v
    BY <2>7, SplitIs
  <2>13. QED
    BY <1>1, <2>6, <2>10, <2>11, <2>12 DEF CutAt
<1>6. QED
  BY <1>4, <1>5

\* The units up to the first of those at the end of the path that are slashes.
CollapsedAt(u, k, c) ==
  \E o \in 0 .. k : /\ o # 0 => u[o] # <<"/">>
                    /\ \A i \in 1 .. k : i > o => u[i] = <<"/">>
                    /\ c = IF o = k THEN o ELSE o + 1

Leaves(f, k, c) == c \in 0 .. k /\ OneSlash(f[k]) = f[c]

LEMMA SlashesOfUnits ==
  ASSUME NEW n, NEW u, NEW f, IsBuilt(u, n, f), NEW k \in 0 .. n, NEW c, CollapsedAt(u, k, c)
  PROVE  Leaves(f, k, c)
<1>0. /\ n \in Nat /\ f \in [0 .. n -> Seq(STRING)] /\ u \in Seq(Seq(STRING)) /\ Len(u) = n
      /\ IsFlat(f, u, n, STRING) /\ \A i \in 1 .. n : UnitAllowed(u[i])
  BY DEF IsBuilt, IsFlat
<1>1. PICK o \in 0 .. k : /\ o # 0 => u[o] # <<"/">>
                          /\ \A i \in 1 .. k : i > o => u[i] = <<"/">>
                          /\ c = IF o = k THEN o ELSE o + 1
  BY DEF CollapsedAt
<1>2. c \in 0 .. k
  BY <1>0, <1>1
<1>3. PICK v \in Seq(STRING) : v = f[k]
  BY <1>0
<1>4. PICK l \in Nat : l = Len(v)
  BY LenIsNat
<1>5. PICK q \in 0 .. l : q = Len(f[o])
  BY <1>1, <1>3, <1>4, UnitsUpto
<1>6. SlashesFrom(v, q)
  <2>1. ASSUME q # 0 PROVE v[q] # "/"
    <3>1. SUFFICES ASSUME v[q] = "/" PROVE FALSE
      OBVIOUS
    <3>2. "/" \in Marks /\ q \in 1 .. Len(f[k]) /\ f[k][q] = "/"
      BY <1>3, <1>4, <2>1, <3>1 DEF Marks
    <3>3. PICK i \in 1 .. k : UnitAt(f, u, q, i, "/")
      BY <3>2, MarkPlace
    <3>4. u[i] = <<"/">> /\ q = Len(f[i - 1]) + 1 /\ q = Len(f[i])
      BY <3>3 DEF UnitAt
    <3>5. CASE i = o
      BY <1>0, <1>1, <3>4, <3>5
    <3>6. CASE i < o
      <4>1. o \in 0 .. n /\ o \in 1 .. n /\ i \in 0 .. o - 1 /\ o - 1 \in 0 .. n /\ o \in 1 .. o
        BY <1>0, <3>6
      <4>2. UnitIn(f, u, o, o)
        BY <4>1, UnitsAre
      <4>3. PICK a \in Nat, d \in Nat : a = Len(f[o - 1]) /\ d = Len(f[i]) /\ d <= a
        <5>1. PICK r \in 0 .. n : r = o - 1 /\ i \in 0 .. r
          BY <4>1
        <5>2. Len(f[i]) \in 0 .. Len(f[r])
          BY <5>1, UnitsUpto
        <5>3. Len(f[r]) \in Nat
          BY <1>0
        <5>4. QED
          BY <5>1, <5>2, <5>3
      <4>4. Len(u[o]) = 1 \/ Len(u[o]) = 3
        BY <1>0, <4>1 DEF UnitAllowed
      <4>5. Len(f[o]) = Len(f[o - 1]) + Len(u[o]) /\ Len(f[o - 1]) \in Nat
        BY <4>2 DEF UnitIn
      <4>6. q = a + 1 \/ q = a + 3
        BY <1>5, <4>3, <4>4, <4>5
      <4>7. q = d
        BY <3>4, <4>3
      <4>8. QED
        BY <4>3, <4>6, <4>7
    <3>7. CASE i > o
      <4>1. o \in 0 .. i - 1 /\ i - 1 \in 0 .. n
        BY <1>0, <3>7
      <4>2. Len(f[o]) \in 0 .. Len(f[i - 1])
        BY <4>1, UnitsUpto
      <4>3. Len(f[i - 1]) \in Nat
        BY <1>0, <4>1
      <4>4. QED
        BY <1>5, <3>4, <4>2, <4>3
    <3>8. QED
      BY <1>0, <3>5, <3>6, <3>7
  <2>2. ASSUME NEW p \in 1 .. l, p > q PROVE v[p] = "/"
    <3>1. Placed(f, u, p, k)
      BY <1>0, <1>3, <1>4, FlatPrefixes
    <3>2. PICK i \in 1 .. k : \E j \in 1 .. Len(u[i]) : p = Len(f[i - 1]) + j
      BY <3>1 DEF Placed
    <3>3. PICK j \in 1 .. Len(u[i]) : p = Len(f[i - 1]) + j
      BY <3>2
    <3>4. UnitIn(f, u, i, k)
      BY UnitsAre
    <3>5. i > o
      <4>1. SUFFICES ASSUME ~(i > o) PROVE FALSE
        OBVIOUS
      <4>2. i \in 0 .. o /\ o \in 0 .. n
        BY <1>0, <4>1
      <4>3. PICK d \in 0 .. q : d = Len(f[i])
        BY <1>5, <4>2, UnitsUpto
      <4>4. PICK a \in Nat, b \in Nat : a = Len(f[i - 1]) /\ b = Len(u[i]) /\ d = a + b
        BY <3>4, <4>3 DEF UnitIn
      <4>5. p <= a + b
        BY <3>3, <4>4
      <4>6. p <= d
        BY <4>4, <4>5
      <4>7. QED
        BY <2>2, <4>6
    <3>6. u[i] = <<"/">>
      BY <1>1, <3>5
    <3>7. j = 1 /\ u[i][1] = "/"
      BY <3>6
    <3>8. v[p] = u[i][j]
      BY <1>3, <3>3, <3>4 DEF UnitIn
    <3>9. QED
      BY <3>7, <3>8
  <2>3. QED
    BY <1>4, <2>1, <2>2 DEF SlashesFrom
<1>7. OneSlash(v) = Upto(v, IF q = l THEN q ELSE q + 1)
  BY <1>4, <1>6, OneSlashIs
<1>8. (IF q = l THEN q ELSE q + 1) = Len(f[c])
  <2>1. CASE o = k
    BY <1>1, <1>3, <1>4, <1>5, <2>1
  <2>2. CASE o # k
    <3>1. o + 1 \in 1 .. k /\ c = o + 1 /\ (o + 1) - 1 = o
      BY <1>0, <1>1, <2>2
    <3>2. u[o + 1] = <<"/">>
      BY <1>1, <3>1
    <3>3. HasPlace(f, c, k, "/")
      BY <3>1, <3>2, UnitPlace
    <3>4. Len(f[c]) = q + 1 /\ q + 1 \in 1 .. l
      BY <1>3, <1>4, <1>5, <3>1, <3>3 DEF HasPlace
    <3>5. QED
      BY <1>5, <3>4
  <2>3. QED
    BY <2>1, <2>2
<1>9. f[c] = Upto(f[k], Len(f[c]))
  BY <1>2, UnitsUpto
<1>10. QED
  BY <1>2, <1>3, <1>7, <1>8, <1>9 DEF Leaves

LEMMA PathUnitsAre ==
  ASSUME head.units \in Seq(Seq(STRING))
  PROVE  \E k : PathEndsAt(head.units, k) /\ PathUnits = Upto(head.units, k)
<1>1. PICK u \in Seq(Seq(STRING)) : u = head.units
  OBVIOUS
<1>2. PICK l \in Nat : l = Len(u)
  BY LenIsNat
<1> DEFINE at == {i \in 1 .. Len(u) : u[i] = <<"?">>}
           pos == SelectInSeq(u, LAMBDA x : x = <<"?">>)
<1>3. pos = IF at # {} THEN Min(at) ELSE 0
  BY DEF SelectInSeq
<1>4. PathUnits = IF pos = 0 THEN u ELSE Upto(u, pos - 1)
  BY <1>1 DEF PathUnits, Upto
<1>5. CASE at = {}
  <2>1. pos = 0
    BY <1>3, <1>5
  <2>2. PathUnits = Upto(u, l)
    BY <1>2, <1>4, <2>1, WholeIs
  <2>3. PathEndsAt(u, l)
    <3>1. \A i \in 1 .. l : u[i] # <<"?">>
      <4>1. \A i \in 1 .. Len(u) : i \notin at
        BY <1>5
      <4>2. \A i \in 1 .. Len(u) : u[i] # <<"?">>
        BY <4>1
      <4>3. QED
        BY <1>2, <4>2
    <3>2. l \in 0 .. l
      OBVIOUS
    <3> HIDE DEF at
    <3>3. QED
      BY <1>2, <3>1, <3>2 DEF PathEndsAt
  <2>4. QED
    BY <1>1, <2>2, <2>3
<1>6. CASE at # {}
  <2>1. at \in SUBSET Nat
    OBVIOUS
  <2>2. Min(at) \in at /\ \A y \in at : Min(at) <= y
    <3> HIDE DEF at
    <3>1. QED
      BY <1>6, <2>1, MinIs
  <2>3. PICK x \in 1 .. l : x = pos /\ u[x] = <<"?">> /\ \A y \in at : x <= y
    <3> HIDE DEF pos
    <3>1. QED
      BY <1>2, <1>3, <1>6, <2>2
  <2> HIDE DEF pos
  <2>4. \A i \in 1 .. x - 1 : u[i] # <<"?">>
    <3>1. SUFFICES ASSUME NEW i \in 1 .. x - 1, u[i] = <<"?">> PROVE FALSE
      OBVIOUS
    <3>2. i \in 1 .. Len(u)
      BY <1>2, <2>3
    <3>3. i \in at
      BY <3>1, <3>2
    <3> HIDE DEF at
    <3>4. x <= i
      BY <2>3, <3>3
    <3>5. QED
      BY <2>3, <3>4
  <2>5. x - 1 \in 0 .. l /\ x - 1 # l /\ (x - 1) + 1 = x
    BY <2>3
  <2>6. PathEndsAt(u, x - 1)
    BY <1>2, <2>3, <2>4, <2>5 DEF PathEndsAt
  <2>7. PathUnits = Upto(u, x - 1)
    BY <1>4, <2>3
  <2>8. QED
    BY <1>1, <2>6, <2>7
<1>7. QED
  BY <1>5, <1>6

LEMMA CollapsedIs ==
  ASSUME NEW u \in Seq(Seq(STRING)), NEW k \in 0 .. Len(u)
  PROVE  \E c : CollapsedAt(u, k, c) /\ Collapsed(Upto(u, k)) = Upto(u, c)
<1> DEFINE w == Upto(u, k)
           at == {i \in 1 .. Len(w) : w[i] # <<"/">>}
           m == SelectLastInSeq(w, LAMBDA x : x # <<"/">>)
<1>1. k \in Nat /\ w \in Seq(Seq(STRING)) /\ Len(w) = k /\ \A i \in 1 .. k : w[i] = u[i]
  BY UptoIs
<1>2. m = IF at # {} THEN Max(at) ELSE 0
  BY DEF SelectLastInSeq
<1>3. Collapsed(w) = IF m = Len(w) THEN w ELSE Upto(w, m + 1)
  BY DEF Collapsed, Upto
<1> HIDE DEF w, m
<1>4. /\ m \in 0 .. k
      /\ m # 0 => m \in at
      /\ \A y \in at : y <= m
  <2>1. at \in SUBSET (1 .. k)
    BY <1>1
  <2> HIDE DEF at
  <2>2. QED
    BY <1>1, <1>2, <2>1, LastPlace
<1>5. \A i \in 1 .. k : i > m => i \notin at
  BY <1>4
<1> DEFINE c == IF m = k THEN m ELSE m + 1
<1>6. CollapsedAt(u, k, c)
  <2>1. m # 0 => u[m] # <<"/">>
    BY <1>1, <1>4
  <2>2. \A i \in 1 .. k : i > m => u[i] = <<"/">>
    BY <1>1, <1>5
  <2>3. QED
    BY <1>4, <2>1, <2>2 DEF CollapsedAt
<1>7. c \in 0 .. k
  BY <1>1, <1>4
<1>8. Upto(w, c) = Upto(u, c)
  <2> HIDE DEF c
  <2>1. QED
    BY <1>7, UptoUpto DEF w
<1>9. Collapsed(w) = Upto(w, c)
  BY <1>1, <1>3, WholeIs
<1>10. QED
  BY <1>6, <1>8, <1>9 DEF w

\* What becomes of a target that is made of units.
LEMMA TargetOfUnits ==
  ASSUME NEW n, NEW f, IsBuilt(head.units, n, f), ~HasUnit(<<"%">>), ~HasUnit(<<"#">>)
  PROVE  /\ TargetOf(f[n]) = [i \in 1 .. Len(Collapsed(PathUnits)) |-> Octet(Collapsed(PathUnits)[i])]
         /\ FlattenSeq(PathUnits) \o ParseQuery(f[n]) = FlattenSeq(head.units)
<1>1. PICK u : u = head.units
  OBVIOUS
<1>2. /\ n \in Nat /\ f \in [0 .. n -> Seq(STRING)] /\ u \in Seq(Seq(STRING)) /\ Len(u) = n
      /\ IsFlat(f, u, n, STRING) /\ IsBuilt(u, n, f)
  BY <1>1 DEF IsBuilt, IsFlat
<1>3. /\ \A i \in 1 .. n : u[i] # <<"%">>
      /\ \A i \in 1 .. n : u[i] # <<"#">>
  BY <1>1, <1>2 DEF HasUnit
<1>4. PICK k : PathEndsAt(u, k) /\ PathUnits = Upto(u, k)
  BY <1>1, <1>2, PathUnitsAre
<1>5. k \in 0 .. n /\ k \in 0 .. Len(u)
  BY <1>2, <1>4 DEF PathEndsAt
<1>6. PICK c : CollapsedAt(u, k, c) /\ Collapsed(PathUnits) = Upto(u, c)
  BY <1>2, <1>4, <1>5, CollapsedIs
<1>7. CutAt(f, n, k)
  BY <1>2, <1>3, <1>4, QueryOfUnits
<1>8. Leaves(f, k, c)
  BY <1>2, <1>5, <1>6, SlashesOfUnits
<1>9. c \in 0 .. n /\ c \in 0 .. Len(u)
  BY <1>2, <1>5, <1>8 DEF Leaves
<1>10. TargetOf(f[n]) = Stands(u, c)
  <2>1. UrlDecode(f[c]) = Stands(u, c)
    BY <1>2, <1>3, <1>9, DecodeUnits
  <2>2. QED
    BY <1>7, <1>8, <2>1 DEF TargetOf, CutAt, Leaves
<1>11. Stands(u, c) = [i \in 1 .. Len(Upto(u, c)) |-> Octet(Upto(u, c)[i])]
  <2>1. Len(Upto(u, c)) = c /\ \A i \in 1 .. c : Upto(u, c)[i] = u[i]
    BY <1>2, <1>9, UptoIs
  <2>2. QED
    BY <2>1 DEF Stands
<1>12. FlattenSeq(PathUnits) = f[k]
  <2>1. FlatUpto(f, u, k)
    BY <1>2, <1>5, FlattenPart
  <2>2. QED
    BY <1>4, <2>1 DEF FlatUpto
<1>13. FlattenSeq(u) = f[n]
  <2>1. n = 0 => u = <<>>
    BY <1>2
  <2>2. QED
    BY <1>2, <2>1, FlattenIs
<1>14. QED
  BY <1>1, <1>6, <1>7, <1>10, <1>11, <1>12, <1>13 DEF CutAt

-----------------------------------------------------------------------------
(* The request line                                                          *)

IsEnd(s, t) == t \in Seq(STRING) /\ Len(t) \in 0 .. Len(s) /\ t = From(s, Len(s) - Len(t) + 1)

LEMMA WordIs ==
  ASSUME NEW l \in Seq(STRING)
  PROVE  /\ Word(l) \in Seq(STRING) /\ Len(Word(l)) \in 0 .. Len(l)
         /\ \A i \in 1 .. Len(Word(l)) : Word(l)[i] = l[i]
         /\ Holds(l, SP) => /\ Len(Word(l)) = Find(l, SP) - 1
                            /\ l[Len(Word(l)) + 1] = SP
<1>1. PICK n \in Nat : n = Len(l)
  BY LenIsNat
<1>2. PICK a \in 0 .. n : a = Find(l, SP) /\ (a # 0 => l[a] = SP)
  BY <1>1, FindIs
<1> DEFINE w == IF a # 0 THEN a - 1 ELSE n
<1>3. w \in 0 .. Len(l) /\ (a # 0 => w = a - 1 /\ w + 1 = a)
  BY <1>1, <1>2
<1>4. Word(l) = Upto(l, w)
  BY <1>1, <1>2, WholeIs DEF Word, Holds
<1>5. Upto(l, w) \in Seq(STRING) /\ Len(Upto(l, w)) = w /\ \A i \in 1 .. w : Upto(l, w)[i] = l[i]
  <2> HIDE DEF w
  <2>1. QED
    BY <1>3, UptoIs
<1> HIDE DEF w
<1>6. QED
  BY <1>2, <1>3, <1>4, <1>5 DEF Holds

LEMMA AfterWordIs ==
  ASSUME NEW l \in Seq(STRING)
  PROVE  /\ AfterWord(l) \in Seq(STRING)
         /\ Find(l, SP) \in 0 .. Len(l)
         /\ Len(AfterWord(l)) = Len(l) - Find(l, SP)
         /\ \A i \in 1 .. Len(l) - Find(l, SP) : AfterWord(l)[i] = l[Find(l, SP) + i]
<1>1. Find(l, SP) \in 0 .. Len(l)
  BY FindIs
<1>2. QED
  BY <1>1, FromIs DEF AfterWord

LEMMA EndOfEnd ==
  ASSUME NEW s \in Seq(STRING), NEW t, IsEnd(s, t)
  PROVE  IsEnd(s, AfterWord(t))
<1>1. PICK n \in Nat : n = Len(s)
  BY LenIsNat
<1>2. PICK m \in 0 .. n : m = Len(t) /\ t \in Seq(STRING) /\ t = From(s, (n - m) + 1)
  BY <1>1 DEF IsEnd
<1>3. PICK a \in 0 .. m : a = Find(t, SP) /\ AfterWord(t) \in Seq(STRING) /\ Len(AfterWord(t)) = m - a
  BY <1>2, AfterWordIs
<1>4. AfterWord(t) = From(t, a + 1)
  BY <1>3 DEF AfterWord
<1>5. n - m \in 0 .. Len(s) /\ a \in 0 .. Len(s) - (n - m)
  BY <1>1
<1>6. From(From(s, (n - m) + 1), a + 1) = From(s, (n - m) + a + 1)
  BY <1>5, FromFrom
<1>7. (n - m) + a + 1 = n - (m - a) + 1 /\ m - a \in 0 .. n
  BY <1>1
<1>8. QED
  BY <1>1, <1>2, <1>3, <1>4, <1>6, <1>7 DEF IsEnd

\* A target that was built is what is taken for the target.
TargetIsBuilt(h, n, f) ==
  /\ IsBuilt(h.units, n, f)
  /\ f[n] \in Seq(STRING)
  /\ FlattenSeq(h.units) = f[n]
  /\ Word(AfterWord(h.line)) = f[n]

LEMMA LineOfUnits ==
  ASSUME NEW h \in Heads, h.units # <<>>
  PROVE  \E n, f : TargetIsBuilt(h, n, f)
<1>1. PICK L \in Seq(STRING) : L = h.line
  BY HeadsAssumption
<1>2. PICK u \in Seq(Seq(STRING)) : u = h.units /\ \A i \in 1 .. Len(u) : UnitAllowed(u[i])
  BY HeadsAssumption
<1>3. PICK m \in STRING, v \in STRING : m # SP /\ L = RequestLine(m, u, v)
  <2>1. \E m, v \in {h.line[i] : i \in 1 .. Len(h.line)} : m # SP /\ h.line = RequestLine(m, h.units, v)
    BY HeadsAssumption
  <2>2. PICK m, v \in {L[i] : i \in 1 .. Len(L)} : m # SP /\ L = RequestLine(m, u, v)
    BY <1>1, <1>2, <2>1
  <2>3. m \in STRING /\ v \in STRING
    BY <2>2, ElementOfSeq
  <2>4. QED
    BY <2>2, <2>3
<1>4. PICK n \in Nat : n = Len(u)
  BY LenIsNat
<1>5. \A i \in 1 .. n : u[i] \in Seq(STRING)
  BY <1>4, ElementOfSeq
<1>6. PICK f : IsFlat(f, u, n, STRING)
  BY <1>4, <1>5, FlatExists
<1>7. IsBuilt(u, n, f)
  BY <1>2, <1>4, <1>6 DEF IsBuilt
<1>8. FlattenSeq(u) = f[n]
  <2>1. n = 0 => u = <<>>
    BY <1>4, EmptySeq
  <2>2. QED
    BY <1>4, <1>6, <2>1, FlattenIs
<1>9. PICK F \in Seq(STRING) : F = f[n]
  BY <1>4, <1>6 DEF IsFlat
<1>10. PICK N \in Nat : N = Len(F)
  BY LenIsNat
<1>11. L = (<<m, SP>> \o F) \o <<SP, v, CR>>
  BY <1>3, <1>8, <1>9 DEF RequestLine
<1>12. /\ Len(L) = 2 + N + 3
       /\ L[1] = m /\ L[2] = SP
       /\ \A i \in 1 .. N : L[2 + i] = F[i]
       /\ L[2 + N + 1] = SP
  <2> DEFINE T == STRING \cup {SP, CR}
             a == <<m, SP>>
             b == <<SP, v, CR>>
             c == a \o F
  <2>1. a \in Seq(T) /\ b \in Seq(T) /\ F \in Seq(T)
    OBVIOUS
  <2>2. Len(a) = 2 /\ a[1] = m /\ a[2] = SP /\ Len(b) = 3 /\ b[1] = SP
    OBVIOUS
  <2> HIDE DEF a, b
  <2>3. c \in Seq(T) /\ Len(c) = Len(a) + Len(F)
        /\ \A i \in 1 .. Len(a) + Len(F) : c[i] = IF i <= Len(a) THEN a[i] ELSE F[i - Len(a)]
    <3> HIDE DEF T
    <3>1. QED
      BY <2>1, ConcatProperties
  <2>4. Len(c) = 2 + N /\ \A i \in 1 .. 2 + N : c[i] = IF i <= 2 THEN a[i] ELSE F[i - 2]
    <3> HIDE DEF T, c
    <3>1. QED
      BY <1>10, <2>2, <2>3
  <2>5. c \o b \in Seq(T) /\ Len(c \o b) = Len(c) + Len(b)
        /\ \A i \in 1 .. Len(c) + Len(b) : (c \o b)[i] = IF i <= Len(c) THEN c[i] ELSE b[i - Len(c)]
    <3> HIDE DEF T, c
    <3>1. PICK x \in Seq(T), y \in Seq(T) : x = c /\ y = b
      BY <2>1, <2>3
    <3>2. x \o y \in Seq(T) /\ Len(x \o y) = Len(x) + Len(y)
          /\ \A i \in 1 .. Len(x) + Len(y) : (x \o y)[i] = IF i <= Len(x) THEN x[i] ELSE y[i - Len(x)]
      BY ConcatProperties
    <3>3. QED
      BY <3>1, <3>2
  <2>6. L = c \o b
    BY <1>11 DEF a, b
  <2> HIDE DEF c
  <2>7. Len(L) = 2 + N + 3 /\ \A i \in 1 .. 2 + N + 3 : L[i] = IF i <= 2 + N THEN c[i] ELSE b[i - (2 + N)]
    BY <2>2, <2>4, <2>5, <2>6
  <2>8. 1 \in 1 .. 2 + N + 3 /\ 2 \in 1 .. 2 + N + 3 /\ 1 \in 1 .. 2 + N /\ 2 \in 1 .. 2 + N
    OBVIOUS
  <2>9. L[1] = m /\ L[2] = SP
    BY <2>2, <2>4, <2>7, <2>8
  <2>10. ASSUME NEW i \in 1 .. N PROVE L[2 + i] = F[i]
    <3>1. 2 + i \in 1 .. 2 + N + 3 /\ 2 + i <= 2 + N /\ 2 + i \in 1 .. 2 + N /\ ~(2 + i <= 2) /\ 2 + i - 2 = i
      OBVIOUS
    <3>2. QED
      BY <2>4, <2>7, <3>1
  <2>11. 2 + N + 1 \in 1 .. 2 + N + 3 /\ ~(2 + N + 1 <= 2 + N) /\ 2 + N + 1 - (2 + N) = 1
    OBVIOUS
  <2>12. L[2 + N + 1] = SP
    BY <2>2, <2>7, <2>11
  <2>13. QED
    BY <2>7, <2>9, <2>10, <2>12
<1>13. Find(L, SP) = 2
  <2>1. /\ Find(L, SP) \in 0 .. Len(L)
        /\ Find(L, SP) = 0 => \A i \in 1 .. Len(L) : L[i] # SP
        /\ Find(L, SP) # 0 => L[Find(L, SP)] = SP /\ \A i \in 1 .. Find(L, SP) - 1 : L[i] # SP
    BY FindIs
  <2>2. 2 \in 1 .. Len(L)
    BY <1>12
  <2>3. Find(L, SP) # 0 /\ Find(L, SP) # 1
    BY <1>3, <1>12, <2>1, <2>2
  <2>4. ~(Find(L, SP) > 2)
    <3>1. SUFFICES ASSUME Find(L, SP) > 2 PROVE FALSE
      OBVIOUS
    <3>2. 2 \in 1 .. Find(L, SP) - 1
      BY <2>1, <3>1
    <3>3. QED
      BY <1>12, <2>1, <2>3, <3>2
  <2>5. QED
    BY <2>1, <2>3, <2>4
<1>14. PICK R \in Seq(STRING) : /\ R = AfterWord(L) /\ Len(R) = N + 3
                                /\ \A i \in 1 .. N + 3 : R[i] = L[2 + i]
  <2>1. 2 + N + 3 - 2 = N + 3
    OBVIOUS
  <2>2. /\ AfterWord(L) \in Seq(STRING)
        /\ Len(AfterWord(L)) = Len(L) - Find(L, SP)
        /\ \A i \in 1 .. Len(L) - Find(L, SP) : AfterWord(L)[i] = L[Find(L, SP) + i]
    BY AfterWordIs
  <2>3. /\ AfterWord(L) \in Seq(STRING)
        /\ Len(AfterWord(L)) = N + 3
        /\ \A i \in 1 .. N + 3 : AfterWord(L)[i] = L[2 + i]
    BY <1>12, <1>13, <2>1, <2>2
  <2>4. QED
    BY <2>3
<1>15. /\ \A i \in 1 .. N : R[i] = F[i]
       /\ R[N + 1] = SP
  <2>1. \A i \in 1 .. N : i \in 1 .. N + 3
    OBVIOUS
  <2>2. N + 1 \in 1 .. N + 3 /\ 2 + (N + 1) = 2 + N + 1
    OBVIOUS
  <2>3. QED
    BY <1>12, <1>14, <2>1, <2>2
<1>16. \A i \in 1 .. N : F[i] # SP
  <2>1. SP \in Marks /\ n \in 0 .. n
    BY <1>4 DEF Marks
  <2>2. Find(f[n], SP) = 0
    BY <1>7, <2>1, NoUnitNoMark
  <2>3. QED
    BY <1>9, <1>10, <2>2, FindIs
<1>17. Find(R, SP) = N + 1
  <2>1. /\ Find(R, SP) \in 0 .. Len(R)
        /\ Find(R, SP) = 0 => \A i \in 1 .. Len(R) : R[i] # SP
        /\ Find(R, SP) # 0 => R[Find(R, SP)] = SP /\ \A i \in 1 .. Find(R, SP) - 1 : R[i] # SP
    BY FindIs
  <2>2. N + 1 \in 1 .. Len(R)
    BY <1>14
  <2>3. Find(R, SP) # 0
    BY <1>15, <2>1, <2>2
  <2>4. ~(Find(R, SP) > N + 1)
    <3>1. SUFFICES ASSUME Find(R, SP) > N + 1 PROVE FALSE
      OBVIOUS
    <3>2. N + 1 \in 1 .. Find(R, SP) - 1
      BY <2>1, <3>1
    <3>3. QED
      BY <1>15, <2>1, <2>3, <3>2
  <2>5. ~(Find(R, SP) < N + 1)
    <3>1. SUFFICES ASSUME Find(R, SP) < N + 1 PROVE FALSE
      OBVIOUS
    <3>2. Find(R, SP) \in 1 .. N
      BY <1>14, <2>1, <2>3, <3>1
    <3>3. QED
      BY <1>15, <1>16, <2>1, <2>3, <3>2
  <2>6. Find(R, SP) \in Nat
    BY <1>14, <2>1
  <2>7. QED
    BY <2>4, <2>5, <2>6
<1>18. Word(R) = F
  <2>1. Word(R) = Upto(R, N)
    <3>1. N + 1 # 0 /\ N + 1 - 1 = N
      OBVIOUS
    <3>2. QED
      BY <1>17, <3>1 DEF Word, Holds
  <2>2. N \in 0 .. Len(R)
    BY <1>14
  <2>3. Upto(R, N) \in Seq(STRING) /\ Len(Upto(R, N)) = N /\ \A i \in 1 .. N : Upto(R, N)[i] = R[i]
    BY <2>2, UptoIs
  <2>4. Upto(R, N) = F
    BY <1>10, <1>15, <2>3, SeqEqual
  <2>5. QED
    BY <2>1, <2>4
<1>19. QED
  BY <1>1, <1>2, <1>7, <1>8, <1>9, <1>14, <1>18 DEF TargetIsBuilt

\* What is made of a target is no longer than the target.
LEMMA TargetLength ==
  ASSUME NEW v \in Seq(STRING)
  PROVE  /\ Len(TargetOf(v)) \in Nat /\ Len(ParseQuery(v)) \in Nat
         /\ Len(TargetOf(v)) + Len(ParseQuery(v)) <= Len(v)
<1>1. PICK l \in Nat, b \in Nat : l = Len(v) /\ b = Len(ParseQuery(v)) /\ b <= l
  BY QueryIs
<1>2. PICK k \in 0 .. l - b : OneSlash(WithoutQuery(v)) = Upto(v, k)
  BY <1>1, PathIs
<1>3. k \in 0 .. Len(v)
  BY <1>1
<1>4. PICK s \in Seq(STRING) : s = OneSlash(WithoutQuery(v)) /\ Len(s) = k
  BY <1>2, <1>3, UptoIs
<1>5. PICK g : Decodes(g, s, k, STRING) /\ UrlDecode(s) = g[k].out
  BY <1>4, DecodeIs
<1>6. k \in 0 .. k
  BY <1>1
<1>7. Len(g[k].out) \in Nat /\ Len(g[k].out) <= k
  BY <1>5, <1>6, DecodeLength
<1>8. TargetOf(v) = g[k].out
  BY <1>4, <1>5 DEF TargetOf
<1>9. QED
  BY <1>1, <1>7, <1>8

BadEscape(s, i) == s[i] = "%" /\ <<s[i + 1], s[i + 2]>> \notin DOMAIN OctetOf

LEMMA ThrowIs ==
  ASSUME NEW v \in Seq(STRING), \A i \in 1 .. Len(v) : v[i] # Invalid,
         Holds(TargetOf(v), Invalid)
  PROVE  /\ \E i \in 1 .. Len(v) - 2 : BadEscape(v, i)
         /\ \E i \in 1 .. Len(WithoutQuery(v)) - 2 : BadEscape(WithoutQuery(v), i)
<1>1. PICK l \in Nat, b \in Nat : l = Len(v) /\ b = l - Len(ParseQuery(v)) /\ b <= l
  BY QueryIs
<1>2. PICK w \in Seq(STRING) : w = WithoutQuery(v) /\ Len(w) = b /\ \A i \in 1 .. b : w[i] = v[i]
  <2>1. WithoutQuery(v) = Upto(v, b) /\ b \in 0 .. Len(v)
    BY <1>1 DEF WithoutQuery
  <2>2. QED
    BY <2>1, UptoIs
<1>3. PICK k \in 0 .. b : OneSlash(WithoutQuery(v)) = Upto(v, k)
  BY <1>1, PathIs
<1>4. PICK s \in Seq(STRING) : s = OneSlash(WithoutQuery(v)) /\ Len(s) = k /\ \A i \in 1 .. k : s[i] = v[i]
  <2>1. k \in 0 .. Len(v)
    BY <1>1
  <2>2. QED
    BY <1>3, <2>1, UptoIs
<1>5. PICK g : Decodes(g, s, k, STRING) /\ UrlDecode(s) = g[k].out
  BY <1>4, DecodeIs
<1>6. PICK o \in Seq(STRING \cup Octets) : o = g[k].out
  <2> DEFINE S == [out : Seq(STRING \cup Octets), skip : 0 .. 2]
  <2>1. g \in [0 .. k -> S] /\ k \in 0 .. k
    BY <1>1, <1>5 DEF Decodes
  <2>2. g[k] \in S
    <3> HIDE DEF S
    <3>1. QED
      BY <2>1
  <2>3. QED
    BY <2>2
<1>7. TargetOf(v) = o
  BY <1>4, <1>5, <1>6 DEF TargetOf
<1>8. PICK q \in 1 .. Len(o) : o[q] = Invalid
  <2>1. Find(o, Invalid) # 0
    BY <1>7 DEF Holds
  <2>2. Find(o, Invalid) \in 0 .. Len(o) /\ o[Find(o, Invalid)] = Invalid
    BY <2>1, FindIs
  <2>3. Find(o, Invalid) \in 1 .. Len(o)
    BY <2>1, <2>2
  <2>4. QED
    BY <2>2, <2>3
<1>9. \A i \in 1 .. k : s[i] # Invalid
  BY <1>1, <1>4
<1>10. PICK i \in 1 .. k - 2 : s[i] = "%" /\ <<s[i + 1], s[i + 2]>> \notin DOMAIN OctetOf
  BY <1>5, <1>6, <1>8, <1>9, DecodeThrows
<1>11. /\ i \in 1 .. k /\ i + 1 \in 1 .. k /\ i + 2 \in 1 .. k
       /\ i \in 1 .. b /\ i + 1 \in 1 .. b /\ i + 2 \in 1 .. b
       /\ i \in 1 .. b - 2 /\ i \in 1 .. l - 2
  BY <1>1
<1>12. v[i] = s[i] /\ v[i + 1] = s[i + 1] /\ v[i + 2] = s[i + 2]
  BY <1>4, <1>11
<1>13. w[i] = v[i] /\ w[i + 1] = v[i + 1] /\ w[i + 2] = v[i + 2]
  BY <1>2, <1>11
<1>14. BadEscape(v, i) /\ BadEscape(w, i)
  BY <1>10, <1>12, <1>13 DEF BadEscape
<1>15. QED
  BY <1>1, <1>2, <1>11, <1>14

\* The first word is one character: what the rest tells of the line.
SpacesIn(l) == {i \in 1 .. Len(l) : l[i] = SP}

LEMMA RestTells ==
  ASSUME NEW l \in Seq(STRING), Holds(l, SP), Len(Word(l)) = 1
  PROVE  /\ Cardinality(SpacesIn(l)) > 1 <=> Holds(AfterWord(l), SP)
         /\ Holds(AfterWord(l), SP) =>
              (l[3] = "/" <=> Word(AfterWord(l)) # <<>> /\ Word(AfterWord(l))[1] = "/")
<1>1. PICK n \in Nat : n = Len(l)
  BY LenIsNat
<1>2. Find(l, SP) = 2 /\ 2 \in 1 .. n /\ l[1] # SP /\ l[2] = SP
  <2>1. /\ Find(l, SP) \in 0 .. n /\ Find(l, SP) # 0 /\ Len(Word(l)) = Find(l, SP) - 1
        /\ l[Find(l, SP)] = SP /\ \A i \in 1 .. Find(l, SP) - 1 : l[i] # SP
    BY <1>1, WordIs, FindIs DEF Holds
  <2>2. Find(l, SP) = 2
    BY <2>1
  <2>3. QED
    BY <2>1, <2>2
<1>3. PICK r \in Seq(STRING) : r = AfterWord(l) /\ Len(r) = n - 2 /\ \A i \in 1 .. n - 2 : r[i] = l[2 + i]
  <2>1. /\ AfterWord(l) \in Seq(STRING)
        /\ Len(AfterWord(l)) = Len(l) - Find(l, SP)
        /\ \A i \in 1 .. Len(l) - Find(l, SP) : AfterWord(l)[i] = l[Find(l, SP) + i]
    BY AfterWordIs
  <2>2. QED
    BY <1>1, <1>2, <2>1
<1> DEFINE S == SpacesIn(l)
<1>4. IsFiniteSet(S)
  <2>1. S \in SUBSET (1 .. n) /\ 1 \in Int /\ n \in Int
    BY <1>1 DEF SpacesIn
  <2>2. IsFiniteSet(1 .. n)
    BY FS_Interval
  <2>3. QED
    BY <2>1, <2>2, FS_Subset
<1>5. ASSUME Holds(r, SP) PROVE Cardinality(S) > 1
  <2>1. PICK p \in 1 .. n - 2 : r[p] = SP
    <3>1. Find(r, SP) \in 0 .. Len(r) /\ Find(r, SP) # 0 /\ r[Find(r, SP)] = SP
      BY <1>5, FindIs DEF Holds
    <3>2. Find(r, SP) \in 1 .. n - 2
      BY <1>1, <1>3, <3>1
    <3>3. QED
      BY <3>1, <3>2
  <2>2. 2 + p \in 1 .. n /\ l[2 + p] = SP /\ 2 + p # 2
    BY <1>3, <2>1
  <2>3. 2 \in S /\ 2 + p \in S
    BY <1>1, <1>2, <2>2 DEF SpacesIn
  <2>4. Cardinality({2}) = 1 /\ IsFiniteSet({2})
    BY FS_Singleton
  <2>5. Cardinality({2} \cup {2 + p}) = 2
    <3>1. 2 + p \notin {2}
      BY <2>2
    <3>2. \A x : Cardinality({2} \cup {x}) = IF x \in {2} THEN Cardinality({2}) ELSE Cardinality({2}) + 1
      BY <2>4, FS_AddElement
    <3>3. Cardinality({2} \cup {2 + p}) = Cardinality({2}) + 1
      BY <3>1, <3>2, Zenon
    <3>4. Cardinality({2} \cup {2 + p}) = 1 + 1
      BY <2>4, <3>3, Zenon
    <3>5. 1 + 1 = 2
      OBVIOUS
    <3>6. QED
      BY <3>4, <3>5, Zenon
  <2>6. {2} \cup {2 + p} \in SUBSET S
    BY <2>3
  <2>7. Cardinality({2} \cup {2 + p}) <= Cardinality(S)
    BY <1>4, <2>6, FS_Subset
  <2>8. Cardinality(S) \in Nat
    BY <1>4, FS_CardinalityType
  <2>9. 2 <= Cardinality(S)
    BY <2>5, <2>7, Zenon
  <2> HIDE DEF S
  <2>10. QED
    BY <2>8, <2>9
<1>6. ASSUME ~Holds(r, SP) PROVE ~(Cardinality(S) > 1)
  <2>1. \A i \in 1 .. n - 2 : r[i] # SP
    BY <1>3, <1>6, FindIs DEF Holds
  <2>2. ASSUME NEW i \in S PROVE i = 2
    <3>1. i \in 1 .. n /\ l[i] = SP
      BY <1>1 DEF SpacesIn
    <3>2. CASE i > 2
      <4>1. i - 2 \in 1 .. n - 2 /\ 2 + (i - 2) = i
        BY <3>1, <3>2
      <4>2. QED
        BY <1>3, <2>1, <3>1, <4>1
    <3>3. CASE i = 1
      BY <1>2, <3>1, <3>3
    <3>4. QED
      BY <3>1, <3>2, <3>3
  <2>3. S = {2}
    <3>1. 2 \in S
      BY <1>1, <1>2 DEF SpacesIn
    <3> HIDE DEF S
    <3>2. QED
      BY <2>2, <3>1
  <2>4. Cardinality(S) = 1
    BY <2>3, FS_Singleton
  <2>5. QED
    BY <2>4
<1>7. ASSUME Holds(r, SP) PROVE l[3] = "/" <=> Word(r) # <<>> /\ Word(r)[1] = "/"
  <2>1. PICK w \in Seq(STRING), j \in Nat :
          /\ w = Word(r) /\ j = Len(w) /\ \A i \in 1 .. j : w[i] = r[i]
          /\ j = Find(r, SP) - 1 /\ r[j + 1] = SP
    <3>1. /\ Word(r) \in Seq(STRING) /\ Len(Word(r)) \in 0 .. Len(r)
          /\ \A i \in 1 .. Len(Word(r)) : Word(r)[i] = r[i]
          /\ Len(Word(r)) = Find(r, SP) - 1 /\ r[Len(Word(r)) + 1] = SP
      BY <1>7, WordIs
    <3>2. PICK w \in Seq(STRING) : w = Word(r)
      BY <3>1
    <3>3. Len(w) \in Nat
      OBVIOUS
    <3>4. QED
      BY <3>1, <3>2, <3>3
  <2>2. j + 1 \in 1 .. n - 2
    <3>1. Find(r, SP) \in 1 .. n - 2
      BY <1>1, <1>3, <1>7, FindIs DEF Holds
    <3>2. QED
      BY <2>1, <3>1
  <2>3. r[1] = l[3]
    <3>1. 1 \in 1 .. n - 2 /\ 2 + 1 = 3
      BY <2>2
    <3>2. r[1] = l[2 + 1]
      BY <1>3, <3>1
    <3>3. QED
      BY <3>1, <3>2
  <2>4. CASE j = 0
    <3>1. r[1] = SP /\ SP # "/"
      <4>1. j + 1 = 1
        BY <2>4
      <4>2. QED
        BY <2>1, <4>1 DEF SP
    <3>2. w = <<>>
      BY <2>1, <2>4, EmptySeq
    <3>3. QED
      BY <2>1, <2>3, <3>1, <3>2
  <2>5. CASE j # 0
    <3>1. 1 \in 1 .. j
      BY <2>5
    <3>2. w[1] = r[1]
      BY <2>1, <3>1
    <3>3. w # <<>>
      BY <2>1, <2>5, EmptySeq
    <3>4. QED
      BY <2>1, <2>3, <3>2, <3>3
  <2>6. QED
    BY <2>4, <2>5
<1>8. QED
  BY <1>3, <1>5, <1>6, <1>7

-----------------------------------------------------------------------------
(* The fields                                                                *)

NameOf(fields, i) == FieldOf(fields[i]).name
FirstOfName(fields, i) == \A j \in 1 .. i - 1 : NameOf(fields, j) # NameOf(fields, i)

\* hs holds what the first k lines say, the first of a name for all of them.
FieldsAre(hs, fields, k) ==
  /\ DOMAIN hs = {NameOf(fields, i) : i \in 1 .. k}
  /\ IsFiniteSet(DOMAIN hs) /\ Cardinality(DOMAIN hs) <= k
  /\ \A i \in 1 .. k : FirstOfName(fields, i) => hs[NameOf(fields, i)] = FieldOf(fields[i]).value

LEMMA FieldAdded ==
  ASSUME NEW hs, NEW fields, NEW k \in Nat, FieldsAre(hs, fields, k),
         NEW field, field = FieldOf(fields[k + 1]), NEW new,
         new = [n \in DOMAIN hs \cup {field.name} |-> IF n \in DOMAIN hs THEN hs[n] ELSE field.value]
  PROVE  FieldsAre(new, fields, k + 1)
<1>1. DOMAIN new = DOMAIN hs \cup {NameOf(fields, k + 1)}
  BY DEF NameOf
<1>2. DOMAIN new = {NameOf(fields, i) : i \in 1 .. k + 1}
  <2>1. 1 .. k + 1 = (1 .. k) \cup {k + 1}
    OBVIOUS
  <2>2. QED
    BY <1>1, <2>1 DEF FieldsAre
<1>3. IsFiniteSet(DOMAIN new) /\ Cardinality(DOMAIN new) <= k + 1
  <2>1. IsFiniteSet(DOMAIN hs) /\ Cardinality(DOMAIN hs) <= k
    BY DEF FieldsAre
  <2>2. Cardinality(DOMAIN hs) \in Nat
    BY <2>1, FS_CardinalityType
  <2>3. /\ IsFiniteSet(DOMAIN new)
        /\ \/ Cardinality(DOMAIN new) = Cardinality(DOMAIN hs)
           \/ Cardinality(DOMAIN new) = Cardinality(DOMAIN hs) + 1
    BY <1>1, <2>1, FS_AddElement
  <2>4. QED
    BY <2>1, <2>2, <2>3
<1>4. ASSUME NEW i \in 1 .. k + 1, FirstOfName(fields, i)
      PROVE  new[NameOf(fields, i)] = FieldOf(fields[i]).value
  <2>1. CASE i = k + 1
    <3>1. \A j \in 1 .. k : NameOf(fields, j) # NameOf(fields, i)
      <4>1. (k + 1) - 1 = k
        OBVIOUS
      <4>2. QED
        BY <1>4, <2>1, <4>1 DEF FirstOfName
    <3>2. NameOf(fields, i) \notin DOMAIN hs
      BY <3>1 DEF FieldsAre
    <3>3. NameOf(fields, i) = field.name /\ field = FieldOf(fields[i])
      BY <2>1 DEF NameOf
    <3>4. QED
      BY <3>2, <3>3
  <2>2. CASE i # k + 1
    <3>1. i \in 1 .. k
      BY <2>2
    <3>2. NameOf(fields, i) \in DOMAIN hs /\ hs[NameOf(fields, i)] = FieldOf(fields[i]).value
      BY <1>4, <3>1 DEF FieldsAre
    <3>3. QED
      BY <3>2
  <2>3. QED
    BY <2>1, <2>2
<1>5. QED
  BY <1>2, <1>3, <1>4 DEF FieldsAre

-----------------------------------------------------------------------------
(* The inductive invariant: how far the line was consumed, and what was made *)
(* of it so far.                                                             *)

RestOf(h) == AfterWord(h.line)
TargetWord(h) == Word(RestOf(h))
MethodOk(h) == Holds(h.line, SP) /\ Len(Word(h.line)) = 1 /\ Word(h.line)[1] \in Methods
TargetOk(h) == Holds(RestOf(h), SP) /\ TargetWord(h) # <<>> /\ TargetWord(h)[1] = "/"

MethodTaken(h, m) == MethodOk(h) /\ m.method = Word(h.line)[1]
TargetTaken(h, m) == m.target = TargetOf(TargetWord(h)) /\ m.query = ParseQuery(TargetWord(h))

IsMessage(h, m) ==
  /\ m = [method |-> m.method, target |-> m.target, query |-> m.query]
  /\ (m.target = <<>> /\ m.query = <<>>) \/ TargetTaken(h, m)

RejectedFor(h, m, status) ==
  \/ /\ ~MethodOk(h)
     /\ m.method = NoMethod
     /\ status = IF Holds(h.line, SP) THEN NOT_IMPLEMENTED ELSE STATUS_BAD_REQUEST
  \/ /\ MethodTaken(h, m)
     /\ status = EXIT_FAILURE
     /\ Holds(RestOf(h), SP) /\ ~TargetOk(h)
  \/ /\ MethodTaken(h, m)
     /\ status = STATUS_BAD_REQUEST
     /\ ~Holds(RestOf(h), SP) \/ TargetOk(h)

StageInv(h, l, m, status, stage) ==
  /\ IsEnd(h.line, l)
  /\ IsMessage(h, m)
  /\ stage \in {"method", "target", "version", "fields", "rejected", "terminated"}
  /\ stage = "method" => l = h.line /\ m.method = NoMethod
  /\ stage = "target" => l = RestOf(h)
  /\ stage \in {"target", "version", "fields", "terminated"} => MethodTaken(h, m)
  /\ stage \in {"version", "fields", "terminated"} => TargetOk(h) /\ TargetTaken(h, m)
  /\ stage = "terminated" => Holds(TargetOf(TargetWord(h)), Invalid)
  /\ stage = "rejected" => RejectedFor(h, m, status)
  /\ stage # "rejected" => status = EXIT_SUCCESS

HeadIInv ==
  /\ head \in Heads
  /\ fieldsTaken \in 0 .. Len(head.fields)
  /\ StageInv(head, line, message, headStatus, headStage)
  /\ FieldsAre(headers, head.fields, fieldsTaken)

LEMMA HeadFacts ==
  ASSUME NEW h \in Heads
  PROVE  /\ h.line \in Seq(STRING) /\ \A i \in 1 .. Len(h.line) : h.line[i] # Invalid
         /\ h.units \in Seq(Seq(STRING)) /\ h.fields \in Seq(Seq(STRING))
         /\ RestOf(h) \in Seq(STRING) /\ TargetWord(h) \in Seq(STRING)
         /\ Len(TargetWord(h)) \in 0 .. Len(h.line)
         /\ \A i \in 1 .. Len(TargetWord(h)) : TargetWord(h)[i] # Invalid
<1>1. /\ h.line \in Seq(STRING) /\ \A i \in 1 .. Len(h.line) : h.line[i] # Invalid
      /\ h.units \in Seq(Seq(STRING)) /\ h.fields \in Seq(Seq(STRING))
  BY HeadsAssumption
<1>2. PICK l \in Seq(STRING) : l = h.line
  BY <1>1
<1>3. PICK n \in Nat : n = Len(l)
  BY LenIsNat
<1>4. PICK a \in 0 .. n : a = Find(l, SP)
  BY <1>3, AfterWordIs
<1>5. PICK r \in Seq(STRING) : r = RestOf(h) /\ Len(r) = n - a /\ \A i \in 1 .. n - a : r[i] = l[a + i]
  <2>1. /\ AfterWord(l) \in Seq(STRING) /\ Len(AfterWord(l)) = Len(l) - Find(l, SP)
        /\ \A i \in 1 .. Len(l) - Find(l, SP) : AfterWord(l)[i] = l[Find(l, SP) + i]
    BY AfterWordIs
  <2>2. QED
    BY <1>2, <1>3, <1>4, <2>1 DEF RestOf
<1>6. PICK w \in Seq(STRING), k \in 0 .. n :
        w = TargetWord(h) /\ k = Len(w) /\ k <= n - a /\ \A i \in 1 .. k : w[i] = r[i]
  <2>1. /\ Word(r) \in Seq(STRING) /\ Len(Word(r)) \in 0 .. Len(r)
        /\ \A i \in 1 .. Len(Word(r)) : Word(r)[i] = r[i]
    BY WordIs
  <2>2. PICK w \in Seq(STRING) : w = Word(r)
    BY <2>1
  <2>3. Len(w) \in 0 .. n /\ Len(w) <= n - a
    BY <1>3, <1>4, <1>5, <2>1, <2>2
  <2>4. QED
    BY <1>5, <2>1, <2>2, <2>3 DEF TargetWord
<1>7. \A i \in 1 .. k : w[i] # Invalid
  <2>1. \A i \in 1 .. k : i \in 1 .. n - a /\ a + i \in 1 .. n
    BY <1>3, <1>4, <1>6
  <2>2. \A i \in 1 .. k : w[i] = l[a + i]
    BY <1>5, <1>6, <2>1
  <2>3. QED
    BY <1>1, <1>2, <1>3, <2>1, <2>2
<1>8. QED
  BY <1>1, <1>2, <1>3, <1>5, <1>6, <1>7

LEMMA HeadInitIInv == HeadInit => HeadIInv
<1>1. SUFFICES ASSUME HeadInit PROVE HeadIInv
  OBVIOUS
<1>2. head \in Heads /\ line = head.line /\ fieldsTaken = 0
  BY <1>1 DEF HeadInit
<1>3. head.line \in Seq(STRING) /\ Len(head.fields) \in Nat
  BY <1>2, HeadFacts
<1>4. IsEnd(head.line, line)
  <2>1. PICK l \in Seq(STRING), n \in Nat : l = head.line /\ n = Len(l)
    <3>1. PICK l \in Seq(STRING) : l = head.line
      BY <1>3
    <3>2. Len(l) \in Nat
      OBVIOUS
    <3>3. QED
      BY <3>1, <3>2
  <2>2. n - n + 1 = 1 /\ n \in 0 .. n
    OBVIOUS
  <2>3. QED
    BY <1>2, <2>1, <2>2, WholeIs DEF IsEnd
<1>5. IsMessage(head, message)
  BY <1>1 DEF HeadInit, IsMessage
<1>6. StageInv(head, line, message, headStatus, headStage)
  BY <1>1, <1>2, <1>4, <1>5 DEF HeadInit, StageInv
<1>7. FieldsAre(headers, head.fields, fieldsTaken)
  <2>1. DOMAIN headers = {} /\ {NameOf(head.fields, i) : i \in 1 .. 0} = {}
    BY <1>1 DEF HeadInit
  <2>2. IsFiniteSet(DOMAIN headers) /\ Cardinality(DOMAIN headers) = 0
    BY <2>1, FS_EmptySet
  <2>3. \A i \in 1 .. 0 : FALSE
    OBVIOUS
  <2>4. QED
    BY <1>2, <2>1, <2>2, <2>3 DEF FieldsAre
<1>8. QED
  BY <1>2, <1>3, <1>6, <1>7 DEF HeadIInv

LEMMA ParseMethodStage ==
  HeadIInv /\ ParseMethod => StageInv(head', line', message', headStatus', headStage')
<1>1. SUFFICES ASSUME HeadIInv, ParseMethod
               PROVE  StageInv(head', line', message', headStatus', headStage')
  OBVIOUS
<1>2. /\ head \in Heads /\ head' = head
      /\ line = head.line /\ message.method = NoMethod
      /\ IsMessage(head, message) /\ IsEnd(head.line, line)
  BY <1>1 DEF HeadIInv, StageInv, ParseMethod
<1>3. head.line \in Seq(STRING)
  BY <1>2, HeadFacts
<1>4. line' = RestOf(head) /\ IsEnd(head.line, line')
  <2>1. line' = AfterWord(line)
    BY <1>1 DEF ParseMethod
  <2>2. IsEnd(head.line, AfterWord(line))
    BY <1>2, <1>3, EndOfEnd
  <2>3. QED
    BY <1>2, <2>1, <2>2 DEF RestOf
<1>5. CASE MethodOk(head)
  <2>1. headStatus' = EXIT_SUCCESS /\ headStage' = "target"
        /\ message' = [message EXCEPT !.method = Word(head.line)[1]]
    BY <1>1, <1>2, <1>5 DEF ParseMethod, MethodOk, Returns
  <2>2. /\ message'.method = Word(head.line)[1]
        /\ message'.target = message.target /\ message'.query = message.query
        /\ message' = [method |-> message'.method, target |-> message'.target, query |-> message'.query]
    BY <1>2, <2>1 DEF IsMessage
  <2>3. IsMessage(head, message')
    BY <1>2, <2>2 DEF IsMessage, TargetTaken
  <2>4. MethodTaken(head, message')
    BY <1>5, <2>2 DEF MethodTaken
  <2>5. QED
    BY <1>2, <1>4, <2>1, <2>3, <2>4 DEF StageInv
<1>6. CASE ~MethodOk(head)
  <2>1. /\ headStage' = "rejected" /\ message' = message
        /\ headStatus' = IF Holds(head.line, SP) THEN NOT_IMPLEMENTED ELSE STATUS_BAD_REQUEST
    BY <1>1, <1>2, <1>6
       DEF ParseMethod, MethodOk, Returns, EXIT_SUCCESS, NOT_IMPLEMENTED, STATUS_BAD_REQUEST
  <2>2. RejectedFor(head, message', headStatus')
    BY <1>2, <1>6, <2>1 DEF RejectedFor
  <2>3. QED
    BY <1>2, <1>4, <2>1, <2>2 DEF StageInv
<1>7. QED
  BY <1>5, <1>6

LEMMA ParseTargetStage ==
  HeadIInv /\ ParseTarget => StageInv(head', line', message', headStatus', headStage')
<1>1. SUFFICES ASSUME HeadIInv, ParseTarget
               PROVE  StageInv(head', line', message', headStatus', headStage')
  OBVIOUS
<1>2. /\ head \in Heads /\ head' = head
      /\ line = RestOf(head) /\ MethodTaken(head, message)
      /\ IsMessage(head, message) /\ IsEnd(head.line, line)
      /\ headStatus = EXIT_SUCCESS
  BY <1>1 DEF HeadIInv, StageInv, ParseTarget
<1>3. head.line \in Seq(STRING)
  BY <1>2, HeadFacts
<1>4. IsEnd(head.line, line')
  <2>1. line' = AfterWord(line)
    BY <1>1 DEF ParseTarget
  <2>2. IsEnd(head.line, AfterWord(line))
    BY <1>2, <1>3, EndOfEnd
  <2>3. QED
    BY <2>1, <2>2
<1>5. Word(line) = TargetWord(head)
  BY <1>2 DEF TargetWord
<1>6. CASE TargetOk(head)
  <2> DEFINE w == TargetWord(head)
  <2>1. /\ message' = [message EXCEPT !.query = ParseQuery(w), !.target = TargetOf(w)]
        /\ IF Holds(TargetOf(w), Invalid)
           THEN headStage' = "terminated" /\ UNCHANGED headStatus
           ELSE Returns(EXIT_SUCCESS, "version")
    BY <1>1, <1>2, <1>5, <1>6 DEF ParseTarget, TargetOk, EXIT_SUCCESS, EXIT_FAILURE, STATUS_BAD_REQUEST
  <2>2. /\ message'.method = message.method
        /\ message'.target = TargetOf(w) /\ message'.query = ParseQuery(w)
        /\ message' = [method |-> message'.method, target |-> message'.target, query |-> message'.query]
    BY <1>2, <2>1 DEF IsMessage
  <2>3. TargetTaken(head, message') /\ IsMessage(head, message') /\ MethodTaken(head, message')
    BY <1>2, <2>2 DEF IsMessage, TargetTaken, MethodTaken
  <2>4. /\ headStatus' = EXIT_SUCCESS
        /\ headStage' = "version" \/ (headStage' = "terminated" /\ Holds(TargetOf(w), Invalid))
    BY <1>2, <2>1 DEF Returns
  <2>5. QED
    BY <1>2, <1>4, <1>6, <2>3, <2>4 DEF StageInv
<1>7. CASE ~TargetOk(head)
  <2>1. /\ headStage' = "rejected" /\ message' = message
        /\ headStatus' = IF Holds(RestOf(head), SP) THEN EXIT_FAILURE ELSE STATUS_BAD_REQUEST
    BY <1>1, <1>2, <1>5, <1>7
       DEF ParseTarget, TargetOk, Returns, EXIT_SUCCESS, EXIT_FAILURE, STATUS_BAD_REQUEST
  <2>2. RejectedFor(head, message', headStatus')
    BY <1>2, <1>7, <2>1 DEF RejectedFor
  <2>3. QED
    BY <1>2, <1>4, <2>1, <2>2 DEF StageInv
<1>8. QED
  BY <1>6, <1>7

LEMMA ParseHttpVersionStage ==
  HeadIInv /\ ParseHttpVersion => StageInv(head', line', message', headStatus', headStage')
<1>1. SUFFICES ASSUME HeadIInv, ParseHttpVersion
               PROVE  StageInv(head', line', message', headStatus', headStage')
  OBVIOUS
<1>2. /\ head' = head /\ line' = line /\ message' = message
      /\ IsMessage(head, message) /\ IsEnd(head.line, line)
      /\ MethodTaken(head, message) /\ TargetTaken(head, message) /\ TargetOk(head)
  BY <1>1 DEF HeadIInv, StageInv, ParseHttpVersion
<1>3. VersionCode(line) \in {EXIT_SUCCESS, STATUS_BAD_REQUEST}
  BY DEF VersionCode
<1>4. \/ headStatus' = EXIT_SUCCESS /\ headStage' = "fields"
      \/ headStatus' = STATUS_BAD_REQUEST /\ headStage' = "rejected"
  BY <1>1, <1>3 DEF ParseHttpVersion, Returns, EXIT_SUCCESS, STATUS_BAD_REQUEST
<1>5. RejectedFor(head, message, STATUS_BAD_REQUEST)
  BY <1>2 DEF RejectedFor
<1>6. QED
  BY <1>2, <1>4, <1>5 DEF StageInv

LEMMA HeadNextIInv == HeadIInv /\ [HeadNext]_headVars => HeadIInv'
<1>1. SUFFICES ASSUME HeadIInv, [HeadNext]_headVars PROVE HeadIInv'
  OBVIOUS
<1>2. ASSUME head' = head, fieldsTaken' = fieldsTaken, headers' = headers,
             StageInv(head', line', message', headStatus', headStage')
      PROVE  HeadIInv'
  BY <1>1, <1>2 DEF HeadIInv
<1>3. CASE ParseMethod
  <2>1. head' = head /\ fieldsTaken' = fieldsTaken /\ headers' = headers
    BY <1>3 DEF ParseMethod
  <2>2. QED
    BY <1>1, <1>2, <1>3, <2>1, ParseMethodStage
<1>4. CASE ParseTarget
  <2>1. head' = head /\ fieldsTaken' = fieldsTaken /\ headers' = headers
    BY <1>4 DEF ParseTarget
  <2>2. QED
    BY <1>1, <1>2, <1>4, <2>1, ParseTargetStage
<1>5. CASE ParseHttpVersion
  <2>1. head' = head /\ fieldsTaken' = fieldsTaken /\ headers' = headers
    BY <1>5 DEF ParseHttpVersion
  <2>2. QED
    BY <1>1, <1>2, <1>5, <2>1, ParseHttpVersionStage
<1>6. CASE ParseField
  <2>1. /\ head' = head /\ line' = line /\ message' = message
        /\ headStatus' = headStatus /\ headStage' = headStage
        /\ fieldsTaken' = fieldsTaken + 1 /\ fieldsTaken < Len(head.fields)
    BY <1>6 DEF ParseField
  <2>2. fieldsTaken \in Nat /\ fieldsTaken' \in 0 .. Len(head'.fields)
    <3>1. head \in Heads /\ fieldsTaken \in 0 .. Len(head.fields)
      BY <1>1 DEF HeadIInv
    <3>2. PICK n \in Nat : n = Len(head.fields)
      <4>1. head.fields \in Seq(Seq(STRING))
        BY <3>1, HeadFacts
      <4>2. QED
        BY <4>1
    <3>3. QED
      BY <2>1, <3>1, <3>2
  <2>3. FieldsAre(headers', head'.fields, fieldsTaken')
    <3>1. PICK field : field = FieldOf(head.fields[fieldsTaken + 1])
      OBVIOUS
    <3>2. headers' = [n \in DOMAIN headers \cup {field.name} |->
                        IF n \in DOMAIN headers THEN headers[n] ELSE field.value]
      BY <1>6, <3>1 DEF ParseField
    <3>3. FieldsAre(headers, head.fields, fieldsTaken)
      BY <1>1 DEF HeadIInv
    <3>4. FieldsAre(headers', head.fields, fieldsTaken + 1)
      BY <2>2, <3>1, <3>2, <3>3, FieldAdded
    <3>5. QED
      BY <2>1, <3>4
  <2>4. QED
    BY <1>1, <2>1, <2>2, <2>3 DEF HeadIInv
<1>7. CASE UNCHANGED headVars
  BY <1>1, <1>7 DEF HeadIInv, headVars
<1>8. QED
  BY <1>1, <1>3, <1>4, <1>5, <1>6, <1>7 DEF HeadNext

LEMMA HeadIInvAlways == HeadSpec => []HeadIInv
<1>1. QED
  BY HeadInitIInv, HeadNextIInv, PTL DEF HeadSpec

-----------------------------------------------------------------------------
(* What follows from it                                                      *)

LEMMA HeadTypes == HeadIInv => HeadTypeOK
<1>1. SUFFICES ASSUME HeadIInv PROVE HeadTypeOK
  OBVIOUS
<1>2. /\ head \in Heads /\ fieldsTaken \in 0 .. Len(head.fields)
      /\ StageInv(head, line, message, headStatus, headStage)
      /\ FieldsAre(headers, head.fields, fieldsTaken)
  BY <1>1 DEF HeadIInv
<1>3. line = From(head.line, Len(head.line) - Len(line) + 1)
  BY <1>2 DEF StageInv, IsEnd
<1>4. message.method \in Methods \cup {NoMethod}
  BY <1>2 DEF StageInv, MethodTaken, MethodOk, RejectedFor
<1>5. Len(message.target) + Len(message.query) <= Len(head.line)
  <2>1. PICK n \in Nat, k \in Nat : n = Len(head.line) /\ k = Len(TargetWord(head)) /\ k <= n
    <3>1. head.line \in Seq(STRING) /\ Len(TargetWord(head)) \in 0 .. Len(head.line)
      BY <1>2, HeadFacts
    <3>2. Len(head.line) \in Nat
      BY <3>1
    <3>3. QED
      BY <3>1, <3>2
  <2>2. CASE message.target = <<>> /\ message.query = <<>>
    <3>1. Len(<<>>) = 0 /\ 0 + 0 <= n
      BY <2>1
    <3>2. QED
      BY <2>1, <2>2, <3>1
  <2>3. CASE TargetTaken(head, message)
    <3>1. TargetWord(head) \in Seq(STRING)
      BY <1>2, HeadFacts
    <3>2. PICK a \in Nat, b \in Nat : /\ a = Len(TargetOf(TargetWord(head)))
                                      /\ b = Len(ParseQuery(TargetWord(head)))
                                      /\ a + b <= k
      BY <2>1, <3>1, TargetLength
    <3>3. Len(message.target) = a /\ Len(message.query) = b
      BY <2>3, <3>2 DEF TargetTaken
    <3>4. QED
      BY <2>1, <3>2, <3>3
  <2>4. QED
    BY <1>2, <2>2, <2>3 DEF StageInv, IsMessage
<1>6. Cardinality(DOMAIN headers) <= fieldsTaken
  BY <1>2 DEF FieldsAre
<1>7. headStatus \in {EXIT_SUCCESS, EXIT_FAILURE, STATUS_BAD_REQUEST, NOT_IMPLEMENTED}
  BY <1>2 DEF StageInv, RejectedFor
<1>8. /\ headStage \in {"method", "target", "version", "fields", "rejected", "terminated"}
      /\ headStage # "rejected" => headStatus = EXIT_SUCCESS
  BY <1>2 DEF StageInv
<1>9. QED
  BY <1>2, <1>3, <1>4, <1>5, <1>6, <1>7, <1>8 DEF HeadTypeOK

LEMMA TargetsAsSent == HeadIInv => TargetAsSent
<1>1. SUFFICES ASSUME HeadIInv, Accepted, head.units # <<>>, ~HasUnit(<<"%">>), ~HasUnit(<<"#">>)
               PROVE  /\ message.target = [i \in 1 .. Len(Collapsed(PathUnits)) |-> Octet(Collapsed(PathUnits)[i])]
                      /\ FlattenSeq(PathUnits) \o message.query = FlattenSeq(head.units)
  BY DEF TargetAsSent
<1>2. head \in Heads /\ TargetTaken(head, message)
  BY <1>1 DEF HeadIInv, StageInv, Accepted
<1>3. PICK n, f : TargetIsBuilt(head, n, f)
  BY <1>1, <1>2, LineOfUnits
<1>4. IsBuilt(head.units, n, f) /\ TargetWord(head) = f[n]
  BY <1>3 DEF TargetIsBuilt, TargetWord, RestOf
<1>5. /\ TargetOf(f[n]) = [i \in 1 .. Len(Collapsed(PathUnits)) |-> Octet(Collapsed(PathUnits)[i])]
      /\ FlattenSeq(PathUnits) \o ParseQuery(f[n]) = FlattenSeq(head.units)
  BY <1>1, <1>4, TargetOfUnits
<1>6. QED
  BY <1>2, <1>4, <1>5 DEF TargetTaken

LEMMA FieldsAsSent == HeadIInv => FieldsFound
<1>1. SUFFICES ASSUME HeadIInv,
                      NEW i \in 1 .. fieldsTaken,
                      Holds(head.fields[i], ":"),
                      \A j \in 1 .. i - 1 :
                        StrToLower(FieldName(head.fields[j])) # StrToLower(FieldName(head.fields[i]))
               PROVE  /\ StrToLower(FieldName(head.fields[i])) \in DOMAIN headers
                      /\ Stripped(From(head.fields[i], Find(head.fields[i], ":") + 1),
                                  headers[StrToLower(FieldName(head.fields[i]))])
  BY DEF FieldsFound
<1>2. /\ head \in Heads /\ fieldsTaken \in 0 .. Len(head.fields)
      /\ FieldsAre(headers, head.fields, fieldsTaken)
  BY <1>1 DEF HeadIInv
<1>3. \A l : /\ FieldOf(l).name = StrToLower(FieldName(l))
             /\ FieldOf(l).value = TrimF(From(l, Find(l, ":") + 1))
  BY DEF FieldOf
<1>4. \A j : NameOf(head.fields, j) = StrToLower(FieldName(head.fields[j]))
  BY <1>3 DEF NameOf
<1>5. FirstOfName(head.fields, i)
  BY <1>1, <1>4 DEF FirstOfName
<1>6. /\ NameOf(head.fields, i) \in DOMAIN headers
      /\ headers[NameOf(head.fields, i)] = FieldOf(head.fields[i]).value
  BY <1>2, <1>5 DEF FieldsAre
<1>7. PICK l \in Seq(STRING) : l = head.fields[i]
  <2>1. head.fields \in Seq(Seq(STRING))
    BY <1>2, HeadFacts
  <2>2. i \in 1 .. Len(head.fields)
    <3>1. Len(head.fields) \in Nat
      BY <2>1
    <3>2. QED
      BY <1>2, <3>1
  <2>3. head.fields[i] \in Seq(STRING)
    BY <2>1, <2>2, ElementOfSeq
  <2>4. QED
    BY <2>3
<1>8. Stripped(From(l, Find(l, ":") + 1), TrimF(From(l, Find(l, ":") + 1)))
  <2>1. From(l, Find(l, ":") + 1) \in Seq(STRING)
    BY FindIs, FromIs
  <2>2. QED
    BY <2>1, TrimIs DEF Stripped
<1>9. QED
  BY <1>3, <1>4, <1>6, <1>7, <1>8

LEMMA StatusIs == HeadIInv => StatusUnlessNoSlash
<1>1. SUFFICES ASSUME HeadIInv, headStage = "rejected"
               PROVE  IF message.method = NoMethod
                      THEN headStatus = IF Holds(head.line, SP) THEN NOT_IMPLEMENTED ELSE STATUS_BAD_REQUEST
                      ELSE (headStatus = EXIT_FAILURE) <=>
                             Cardinality(SpacesIn(head.line)) > 1 /\ head.line[3] # "/"
  BY DEF StatusUnlessNoSlash, SpacesIn
<1>2. head \in Heads /\ RejectedFor(head, message, headStatus)
  BY <1>1 DEF HeadIInv, StageInv
<1>3. head.line \in Seq(STRING)
  BY <1>2, HeadFacts
<1>4. CASE ~MethodOk(head)
  BY <1>2, <1>4 DEF RejectedFor, MethodTaken
<1>5. CASE MethodOk(head)
  <2>1. message.method # NoMethod
    BY <1>2, <1>5, NoMethodAssumption DEF RejectedFor, MethodTaken, MethodOk
  <2>2. /\ Cardinality(SpacesIn(head.line)) > 1 <=> Holds(RestOf(head), SP)
        /\ Holds(RestOf(head), SP) => (head.line[3] = "/" <=> TargetOk(head))
    <3>1. /\ Cardinality(SpacesIn(head.line)) > 1 <=> Holds(AfterWord(head.line), SP)
          /\ Holds(AfterWord(head.line), SP) =>
               (head.line[3] = "/" <=> Word(AfterWord(head.line)) # <<>> /\ Word(AfterWord(head.line))[1] = "/")
      BY <1>3, <1>5, RestTells DEF MethodOk
    <3>2. QED
      BY <3>1 DEF RestOf, TargetOk, TargetWord
  <2>3. (headStatus = EXIT_FAILURE) <=> Holds(RestOf(head), SP) /\ ~TargetOk(head)
    BY <1>2, <1>5 DEF RejectedFor, EXIT_FAILURE, STATUS_BAD_REQUEST
  <2>4. QED
    BY <2>1, <2>2, <2>3
<1>6. QED
  BY <1>4, <1>5

LEMMA ThrowsAre == HeadIInv => ThrowCause
<1> DEFINE text == FlattenSeq(IF HasUnit(<<"#">>) THEN head.units ELSE PathUnits)
<1>1. SUFFICES ASSUME HeadIInv, headStage = "terminated", head.units # <<>>
               PROVE  \E i \in 1 .. Len(text) - 2 : BadEscape(text, i)
  BY DEF ThrowCause, BadEscape
<1>2. head \in Heads /\ Holds(TargetOf(TargetWord(head)), Invalid)
  BY <1>1 DEF HeadIInv, StageInv
<1>3. PICK v \in Seq(STRING) : v = TargetWord(head) /\ \A i \in 1 .. Len(v) : v[i] # Invalid
  BY <1>2, HeadFacts
<1>4. /\ \E i \in 1 .. Len(v) - 2 : BadEscape(v, i)
      /\ \E i \in 1 .. Len(WithoutQuery(v)) - 2 : BadEscape(WithoutQuery(v), i)
  BY <1>2, <1>3, ThrowIs
<1>5. PICK n, f : TargetIsBuilt(head, n, f)
  BY <1>1, <1>2, LineOfUnits
<1>6. IsBuilt(head.units, n, f) /\ v = f[n] /\ FlattenSeq(head.units) = f[n]
  BY <1>3, <1>5 DEF TargetIsBuilt, TargetWord, RestOf
<1>7. CASE HasUnit(<<"#">>)
  <2>1. text = v
    BY <1>6, <1>7
  <2> HIDE DEF text
  <2>2. QED
    BY <1>4, <2>1
<1>8. CASE ~HasUnit(<<"#">>)
  <2>1. PICK u \in Seq(Seq(STRING)) : u = head.units
    BY <1>2, HeadFacts
  <2>2. n \in Nat /\ Len(u) = n /\ IsBuilt(u, n, f) /\ IsFlat(f, u, n, STRING)
    BY <1>6, <2>1 DEF IsBuilt, IsFlat
  <2>3. \A i \in 1 .. n : u[i] # <<"#">>
    BY <1>8, <2>1, <2>2 DEF HasUnit
  <2>4. PICK k : PathEndsAt(u, k) /\ PathUnits = Upto(u, k)
    BY <2>1, PathUnitsAre
  <2>5. k \in 0 .. n
    BY <2>2, <2>4 DEF PathEndsAt
  <2>6. CutAt(f, n, k)
    BY <2>2, <2>3, <2>4, QueryOfUnits
  <2>7. FlatUpto(f, u, k)
    BY <2>2, <2>5, FlattenPart
  <2>8. text = WithoutQuery(v)
    BY <1>6, <1>8, <2>4, <2>6, <2>7 DEF CutAt, FlatUpto
  <2> HIDE DEF text
  <2>9. QED
    BY <1>4, <2>8
<1>9. QED
  BY <1>7, <1>8

-----------------------------------------------------------------------------

\* HTTP_parse.cpp:75-238: what is left of a request line is always an end of
\* it, and what was made of it is no longer than it was; there are no more
\* fields than lines, and a status only for a line that is rejected.
THEOREM HeadTypeCorrect == HeadSpec => []HeadTypeOK
<1>1. QED
  BY HeadIInvAlways, HeadTypes, PTL

\* HTTP_parse.cpp:123-238: whatever the units a target was built from, if it
\* is accepted it is taken apart and decoded once; and whatever the lines of
\* the fields, each is found under its name in small letters, with its value
\* less the blanks around it, unless an earlier line has the name.
THEOREM HeadAlwaysAsSent == HeadSpec => []HeadAsSent
<1>1. HeadIInv => HeadAsSent
  BY TargetsAsSent, FieldsAsSent DEF HeadAsSent
<1>2. QED
  BY <1>1, HeadIInvAlways, PTL

\* HTTP_parse.cpp:75-172, string.cpp:105: which request lines are rejected with
\* which status, and that only an escape that is none ends the server.
THEOREM HeadAlwaysRejected == HeadSpec => []HeadRejected
<1>1. HeadIInv => HeadRejected
  BY StatusIs, ThrowsAre DEF HeadRejected
<1>2. QED
  BY <1>1, HeadIInvAlways, PTL

-----------------------------------------------------------------------------
(* ChunkLoop: where the loop is                                              *)

Sent == chunks.bytes
Data == chunks.data
Before == chunks.before
Elements(t) == {t[i] : i \in 1 .. Len(t)}

\* What was sent from the k-th byte on, without that, is in the buffer.
BufferedAt(k) == k \in 0 .. Len(Sent) /\ buffered = SubSeq(Sent, k + 1, Len(Sent))

ChunkShapes ==
  /\ chunks \in Bodies
  /\ \E k \in Nat : BufferedAt(k)
  /\ chunkBody \in Seq(Elements(Sent))
  /\ origin \in Seq(1 .. Len(Sent))
  /\ Len(origin) = Len(chunkBody)
  /\ \A i \in 1 .. Len(origin) : chunkBody[i] = Sent[origin[i]]
  /\ chunkLength \in 0 .. 2 * LongMax + 1
  /\ wrapped \in BOOLEAN
  /\ chunkStage \in {"loop", "success", "failure"}

\* Of chunks that frame data the loop is always before one of them.
FramedSoFar ==
  Framed(chunks) =>
    IF chunkStage = "loop"
    THEN \E p \in DOMAIN Before :
           /\ p \in Nat \ {0}
           /\ BufferedAt(p - 1)
           /\ Before[p] \in Nat
           /\ chunkBody = SubSeq(Data, 1, Before[p])
    ELSE chunkStage = "success" /\ chunkBody = Data

ChunksIInv == ChunkShapes /\ NothingTwice /\ FramedSoFar

-----------------------------------------------------------------------------
(* Sizes                                                                     *)

LEMMA DigitAdded == ASSUME NEW x \in Nat, NEW v \in Nat PROVE 16 * x + v \in Nat
  OBVIOUS

\* However many digits there are, the value fits a long once its sign is known.
LEMMA MagnitudeIs ==
  ASSUME NEW d, NEW n \in Nat, Len(d) = n, \A i \in 1 .. n : d[i] \in DOMAIN DigitValue
  PROVE  Magnitude(d) \in 0 .. LongMax + 1
<1> DEFINE S == 0 .. LongMax + 1
           V(i, x) == Min({16 * x + DigitValue[d[i]], LongMax + 1})
           step == [i \in 1 .. n |-> [x \in S |-> V(i, x)]]
           F(f) == [i \in 0 .. n |-> IF i = 0 THEN 0 ELSE V(i, f[i - 1])]
           g == CHOOSE f : f = F(f)
<1>1. LongMax \in Nat /\ LongMax > 0
  BY LongMaxAssumption
<1>2. ASSUME NEW i \in 1 .. n, NEW x \in S PROVE V(i, x) \in S
  <2>1. DigitValue[d[i]] \in 0 .. 15
    BY DigitValueAssumption
  <2>2. PICK y \in Nat : y = 16 * x + DigitValue[d[i]]
    <3>1. PICK v \in 0 .. 15 : v = DigitValue[d[i]]
      BY <2>1
    <3>2. x \in Nat /\ v \in Nat
      BY <1>1
    <3>3. 16 * x + v \in Nat
      BY <3>2, DigitAdded
    <3>4. QED
      BY <3>1, <3>3
  <2>3. {y, LongMax + 1} \in SUBSET Nat /\ {y, LongMax + 1} # {}
    BY <1>1
  <2>4. Min({y, LongMax + 1}) \in {y, LongMax + 1} /\ Min({y, LongMax + 1}) <= LongMax + 1
    BY <2>3, MinIs
  <2>5. QED
    BY <1>1, <2>2, <2>4
<1>3. step \in [1 .. n -> [S -> S]]
  BY <1>2
<1>4. PICK f \in [0 .. n -> S] : Steps(f, n, 0, step)
  <2>1. 0 \in S
    BY <1>1
  <2> HIDE DEF step, S
  <2>2. QED
    BY <1>3, <2>1, RecursionExists
<1>5. f = F(f)
  <2>1. \A i \in 1 .. n : f[i] = V(i, f[i - 1])
    <3>1. \A i \in 1 .. n : i - 1 \in 0 .. n
      OBVIOUS
    <3>2. \A i \in 1 .. n : f[i] = step[i][f[i - 1]] /\ f[i - 1] \in S
      BY <1>4, <3>1 DEF Steps
    <3> HIDE DEF V
    <3>3. QED
      BY <3>2
  <2>2. f[0] = 0
    BY <1>4 DEF Steps
  <2> HIDE DEF V
  <2>3. \A i \in 0 .. n : f[i] = F(f)[i]
    BY <2>1, <2>2
  <2>4. QED
    BY <1>4, <2>3
<1>6. g = F(g)
  <2> HIDE DEF F
  <2>1. QED
    BY <1>5
<1>7. Magnitude(d) = g[n]
  BY DEF Magnitude
<1>8. \A k \in 0 .. n : g[k] \in S
  <2> DEFINE P == {k \in 0 .. n : g[k] \in S}
  <2> HIDE DEF g, V
  <2>1. 0 \in P
    <3>1. g[0] = 0
      BY <1>6
    <3>2. QED
      BY <1>1, <3>1
  <2>2. ASSUME NEW k \in 1 .. n, k - 1 \in P PROVE k \in P
    <3>1. g[k] = V(k, g[k - 1])
      BY <1>6
    <3>2. V(k, g[k - 1]) \in S
      BY <1>2, <2>2
    <3>3. QED
      BY <3>1, <3>2
  <2>3. \A k \in 0 .. n : k \in P
    <3> HIDE DEF P
    <3>1. QED
      BY <2>1, <2>2, Along
  <2>4. QED
    BY <2>3
<1> HIDE DEF g
<1>9. n \in 0 .. n
  OBVIOUS
<1>10. QED
  BY <1>7, <1>8, <1>9

\* strtol() returns a long, whatever the line is.
LEMMA StrtolIs ==
  ASSUME NEW T, NEW sizeLine \in Seq(T)
  PROVE  Strtol(sizeLine) \in -(LongMax + 1) .. LongMax
<1> DEFINE at(k) == IF k <= Len(sizeLine) THEN sizeLine[k] ELSE "end"
           Sign == {k \in 1 .. Len(sizeLine) + 1 : ~IsBlank(at(k))}
           sign == Min(Sign)
           number == IF at(sign) \in {"-", "+"} THEN sign + 1 ELSE sign
           prefixed == /\ at(number) = "0" /\ at(number + 1) \in {"x", "X"}
                       /\ IsDigit(at(number + 2))
           first == IF prefixed THEN number + 2 ELSE number
           End == {k \in first .. Len(sizeLine) + 1 : ~IsDigit(at(k))}
           end == Min(End)
           d == SubSeq(sizeLine, first, end - 1)
           n == Magnitude(d)
<1>1. Strtol(sizeLine) = IF at(sign) = "-" THEN -n ELSE Min({n, LongMax})
  BY DEF Strtol
<1>2. LongMax \in Nat /\ Len(sizeLine) \in Nat
  BY LongMaxAssumption
<1>3. at(Len(sizeLine) + 1) = "end" /\ ~IsBlank("end") /\ ~IsDigit("end")
  <2>1. "end" \notin DOMAIN DigitValue
    BY DigitValueAssumption
  <2>2. QED
    BY <1>2, <2>1 DEF IsBlank, Blank, CR, LF, SP, IsDigit
<1>4. sign \in 1 .. Len(sizeLine) + 1
  <2>1. Sign \in SUBSET Nat /\ Len(sizeLine) + 1 \in Sign
    BY <1>2, <1>3
  <2>2. Min(Sign) \in Sign
    <3> HIDE DEF Sign
    <3>1. QED
      BY <2>1, MinIs
  <2>3. QED
    BY <2>2
<1> HIDE DEF sign
<1>5. number \in 1 .. Len(sizeLine) + 1
  <2>1. sign = Len(sizeLine) + 1 => at(sign) = "end"
    BY <1>3
  <2>2. QED
    BY <1>2, <1>4, <2>1
<1> HIDE DEF number
<1>6. first \in 1 .. Len(sizeLine) + 1
  <2>1. CASE prefixed
    <3>1. number + 2 <= Len(sizeLine)
      <4>1. number + 2 > Len(sizeLine) => at(number + 2) = "end"
        BY <1>2, <1>5
      <4> HIDE DEF at
      <4>2. QED
        BY <1>2, <1>3, <1>5, <2>1, <4>1
    <3> HIDE DEF prefixed
    <3>2. QED
      BY <1>2, <1>5, <2>1, <3>1
  <2>2. CASE ~prefixed
    <3> HIDE DEF prefixed
    <3>1. QED
      BY <1>5, <2>1, <2>2
  <2>3. QED
    BY <2>1, <2>2
<1> HIDE DEF first
<1>7. end \in first .. Len(sizeLine) + 1 /\ \A k \in End : end <= k
  <2>1. End \in SUBSET Nat /\ Len(sizeLine) + 1 \in End
    BY <1>2, <1>3, <1>6
  <2>2. Min(End) \in End /\ \A k \in End : Min(End) <= k
    <3> HIDE DEF End
    <3>1. QED
      BY <2>1, MinIs
  <2>3. QED
    BY <2>2
<1>8. \A k \in first .. end - 1 : IsDigit(sizeLine[k])
  <2> SUFFICES ASSUME NEW k \in first .. end - 1 PROVE IsDigit(sizeLine[k])
    OBVIOUS
  <2>1. k \in first .. Len(sizeLine) + 1 /\ k <= Len(sizeLine) /\ k \notin End
    <3> HIDE DEF end, End
    <3>1. QED
      BY <1>2, <1>6, <1>7
  <2>2. QED
    BY <2>1
<1> HIDE DEF end
<1>9. PICK m \in Nat : m = end - first
  BY <1>6, <1>7
<1>10. Len(d) = m /\ \A i \in 1 .. m : d[i] \in DOMAIN DigitValue
  <2>1. first \in Int /\ end - 1 \in Int
    BY <1>6, <1>7
  <2>2. \A i \in first .. end - 1 : sizeLine[i] \in T
    <3>1. \A i \in first .. end - 1 : i \in 1 .. Len(sizeLine)
      BY <1>6, <1>7
    <3>2. QED
      BY <3>1, ElementOfSeq
  <2>3. /\ Len(d) = IF first <= end - 1 THEN (end - 1) - first + 1 ELSE 0
        /\ \A i \in 1 .. (end - 1) - first + 1 : d[i] = sizeLine[first + i - 1]
    BY <2>1, <2>2, SubSeqProperties
  <2>4. Len(d) = m
    BY <1>6, <1>7, <1>9, <2>3
  <2>5. \A i \in 1 .. m : first + i - 1 \in first .. end - 1 /\ d[i] = sizeLine[first + i - 1]
    BY <1>6, <1>7, <1>9, <2>3
  <2>6. QED
    BY <1>8, <2>4, <2>5 DEF IsDigit
<1>11. n \in 0 .. LongMax + 1
  <2> HIDE DEF d
  <2>1. QED
    BY <1>10, MagnitudeIs
<1> HIDE DEF n, at
<1>12. Min({n, LongMax}) \in 0 .. LongMax
  <2>1. {n, LongMax} \in SUBSET Nat /\ {n, LongMax} # {}
    BY <1>2, <1>11
  <2>2. Min({n, LongMax}) \in {n, LongMax} /\ Min({n, LongMax}) <= LongMax
    BY <2>1, MinIs
  <2>3. QED
    BY <1>2, <1>11, <2>2
<1>13. QED
  BY <1>1, <1>2, <1>11, <1>12

\* What a long becomes in a size_t.
LEMMA ToSizeIs ==
  ASSUME NEW s \in Int, NEW M \in Nat, M = 2 * (LongMax + 1), -M <= s, s < 2 * M
  PROVE  ToSize(s) = IF s < 0 THEN s + M ELSE IF s < M THEN s ELSE s - M
<1>1. M > 0
  BY LongMaxAssumption
<1>2. s % M = IF s < 0 THEN s + M ELSE IF s < M THEN s ELSE s - M
  BY <1>1, SMTT(30)
<1>3. QED
  BY <1>2 DEF ToSize

-----------------------------------------------------------------------------
(* The loop                                                                  *)

LEMMA SentIs ==
  ASSUME chunks \in Bodies
  PROVE  /\ Sent \in Seq(Elements(Sent)) /\ Data \in Seq(Elements(Data))
         /\ Framed(chunks) => 1 \in DOMAIN Before /\ Before[1] = 0
         /\ \A p \in DOMAIN Before : Before[p] \in Nat /\ FramedAt(chunks, p)
BY BodiesAssumption DEF Sent, Data, Before, Elements

LEMMA FindCrLfIs ==
  ASSUME NEW T, NEW b \in Seq(T)
  PROVE  FindCrLf(b) = 0 \/ FindCrLf(b) \in 1 .. Len(b) - 1
<1> DEFINE at == {i \in 1 .. Len(b) - 1 : b[i] = CR /\ b[i + 1] = LF}
<1>1. at \in SUBSET Nat
  OBVIOUS
<1>2. at # {} => Min(at) \in at
  <2> HIDE DEF at
  <2>1. QED
    BY <1>1, MinIs
<1>3. FindCrLf(b) = IF at = {} THEN 0 ELSE Min(at)
  BY DEF FindCrLf
<1>4. QED
  BY <1>2, <1>3

LEMMA ConsumedIs ==
  ASSUME NEW T, NEW t \in Seq(T), NEW k \in 0 .. Len(t)
  PROVE  Len(t) - Len(SubSeq(t, k + 1, Len(t))) = k
<1>1. PICK s \in Nat : s = Len(t)
  BY LenIsNat
<1>2. k \in 0 .. s /\ s \in 0 .. Len(t)
  BY <1>1
<1>3. Len(SubSeq(t, k + 1, s)) = s - k
  BY <1>2, SuffixIs
<1>4. QED
  BY <1>1, <1>2, <1>3

\* A piece of an end of t is a piece of t.
LEMMA PieceIs ==
  ASSUME NEW T, NEW t \in Seq(T), NEW k \in 0 .. Len(t), NEW n \in 0 .. Len(t) - k
  PROVE  SubSeq(SubSeq(t, k + 1, Len(t)), 1, n) = SubSeq(t, k + 1, k + n)
<1> DEFINE b == SubSeq(t, k + 1, Len(t))
           c == SubSeq(b, 1, n)
           d == SubSeq(t, k + 1, k + n)
<1>1. PICK s \in Nat : s = Len(t)
  BY LenIsNat
<1>2. /\ SubSeq(t, k + 1, s) \in Seq(T) /\ Len(SubSeq(t, k + 1, s)) = s - k
      /\ \A i \in 1 .. s - k : SubSeq(t, k + 1, s)[i] = t[k + i]
  <2>1. s \in 0 .. Len(t) /\ k \in 0 .. s
    BY <1>1
  <2>2. QED
    BY <2>1, SuffixIs
<1>3. b \in Seq(T) /\ Len(b) = s - k /\ \A i \in 1 .. s - k : b[i] = t[k + i]
  BY <1>1, <1>2
<1>4. d \in Seq(T) /\ Len(d) = n /\ \A i \in 1 .. n : d[i] = t[k + i]
  <2>1. PICK e \in Nat : e = k + n
    OBVIOUS
  <2>2. e \in 0 .. Len(t) /\ k \in 0 .. e /\ e - k = n
    BY <1>1, <2>1
  <2>3. /\ SubSeq(t, k + 1, e) \in Seq(T) /\ Len(SubSeq(t, k + 1, e)) = e - k
        /\ \A i \in 1 .. e - k : SubSeq(t, k + 1, e)[i] = t[k + i]
    BY <2>2, SuffixIs
  <2>4. QED
    BY <2>1, <2>2, <2>3
<1> HIDE DEF b, d
<1>5. c \in Seq(T) /\ Len(c) = n /\ \A i \in 1 .. n : c[i] = b[i]
  <2>1. n \in 0 .. Len(b) /\ 0 \in 0 .. n
    BY <1>1, <1>3
  <2>2. /\ SubSeq(b, 0 + 1, n) \in Seq(T) /\ Len(SubSeq(b, 0 + 1, n)) = n - 0
        /\ \A i \in 1 .. n - 0 : SubSeq(b, 0 + 1, n)[i] = b[0 + i]
    BY <1>3, <2>1, SuffixIs
  <2>3. 0 + 1 = 1 /\ n - 0 = n /\ \A i \in 1 .. n : 0 + i = i
    OBVIOUS
  <2>4. QED
    BY <2>2, <2>3
<1> HIDE DEF c
<1>6. \A i \in 1 .. n : c[i] = d[i]
  <2>1. \A i \in 1 .. n : i \in 1 .. s - k
    BY <1>1
  <2>2. QED
    BY <1>3, <1>4, <1>5, <2>1
<1>7. c = d
  BY <1>4, <1>5, <1>6, SeqEqual
<1>8. QED
  BY <1>7 DEF b, c, d

\* What a turn of the loop does, in positions of what was sent: the line ends
\* before the a-th byte, the next j bytes are the data, and the buffer begins
\* m bytes after the line.
TurnIs(k, e, a, j, m, size) ==
  /\ BufferedAt(k) /\ e = FindCrLf(buffered) /\ e # 0
  /\ a = k + e + 1 /\ a <= Len(Sent)
  /\ size = Strtol(SubSeq(Sent, k + 1, k + e - 1))
  /\ size \in -(LongMax + 1) .. LongMax
  /\ j = IF a + ToSize(size) <= Len(Sent) THEN ToSize(size) ELSE Len(Sent) - a
  /\ m = ToSize(ToSize(size) + 2)
  /\ chunkLength' = ToSize(size)
  /\ chunkBody' = chunkBody \o SubSeq(Sent, a + 1, a + j)
  /\ origin' = origin \o [i \in 1 .. j |-> a + i]
  /\ buffered' = SubSeq(Sent, (IF a + m <= Len(Sent) THEN a + m ELSE Len(Sent)) + 1, Len(Sent))
  /\ chunkStage = "loop"
  /\ chunkStage' = IF ToSize(size) = 0 THEN "success" ELSE chunkStage
  /\ wrapped' = (wrapped \/ size \in {-1, -2})
  /\ chunks' = chunks

LEMMA SizesAre ==
  ASSUME NEW size \in -(LongMax + 1) .. LongMax
  PROVE  /\ ToSize(size) \in 0 .. 2 * LongMax + 1
         /\ size >= 0 => ToSize(size) = size
         /\ ToSize(ToSize(size) + 2) \in Nat
         /\ size \notin {-1, -2} => ToSize(ToSize(size) + 2) = ToSize(size) + 2
<1>1. LongMax \in Nat /\ LongMax > 0
  BY LongMaxAssumption
<1>2. PICK M \in Nat : M = 2 * (LongMax + 1)
  BY <1>1
<1>3. size \in Int /\ -M <= size /\ size < 2 * M
  BY <1>1, <1>2
<1>4. ToSize(size) = IF size < 0 THEN size + M ELSE IF size < M THEN size ELSE size - M
  BY <1>2, <1>3, ToSizeIs
<1>5. ToSize(size) = IF size < 0 THEN size + M ELSE size
  BY <1>1, <1>2, <1>4
<1>6. ToSize(size) \in 0 .. 2 * LongMax + 1
  BY <1>1, <1>2, <1>5
<1>7. PICK n \in 0 .. 2 * LongMax + 1 : n = ToSize(size)
  BY <1>6
<1>8. PICK p \in Nat : p = n + 2
  BY <1>1, <1>7
<1>9. -M <= p /\ p < 2 * M
  BY <1>1, <1>2, <1>8
<1>10. ToSize(p) = IF p < 0 THEN p + M ELSE IF p < M THEN p ELSE p - M
  BY <1>2, <1>9, ToSizeIs
<1>11. ToSize(p) = IF p < M THEN p ELSE p - M
  BY <1>8, <1>10
<1>12. size \notin {-1, -2} => p < M
  BY <1>1, <1>2, <1>5, <1>7, <1>8
<1>13. QED
  BY <1>2, <1>5, <1>6, <1>7, <1>8, <1>11, <1>12

LEMMA ChunkTaken ==
  ASSUME ChunksIInv, TakeChunk
  PROVE  \E k, e, a, j, m \in Nat, size \in Int : TurnIs(k, e, a, j, m, size)
<1>1. chunks \in Bodies /\ Sent \in Seq(Elements(Sent)) /\ \E k \in Nat : BufferedAt(k)
  BY SentIs DEF ChunksIInv, ChunkShapes
<1>2. PICK k \in Nat : BufferedAt(k)
  BY <1>1
<1>3. PICK N \in Nat : N = Len(Sent)
  BY <1>1
<1>4. k \in 0 .. N /\ N \in 0 .. Len(Sent) /\ buffered = SubSeq(Sent, k + 1, N)
  BY <1>2, <1>3 DEF BufferedAt
<1>5. buffered \in Seq(Elements(Sent)) /\ Len(buffered) = N - k
  BY <1>1, <1>4, SuffixIs
<1>6. PICK e \in Nat : e = FindCrLf(buffered) /\ e \in 1 .. N - k - 1
  <2>1. FindCrLf(buffered) # 0
    BY DEF TakeChunk
  <2>2. FindCrLf(buffered) \in 1 .. Len(buffered) - 1
    BY <1>5, <2>1, FindCrLfIs
  <2>3. QED
    BY <1>4, <1>5, <2>2
<1>7. PICK a \in Nat : a = k + e + 1 /\ a \in 0 .. N
  BY <1>4, <1>6
<1> DEFINE sizeLine == Upto(buffered, e - 1)
           rest == Erase(buffered, e + 1)
           size == Strtol(sizeLine)
           n == ToSize(size)
           data == Substr(rest, n)
           j == IF a + n <= N THEN n ELSE N - a
           m == ToSize(n + 2)
<1>8. sizeLine = SubSeq(Sent, k + 1, k + e - 1)
  <2>1. PICK i \in Nat : i = e - 1 /\ i \in 0 .. N - k
    BY <1>4, <1>6
  <2>2. k \in 0 .. Len(Sent) /\ i \in 0 .. Len(Sent) - k
    BY <1>3, <1>4, <2>1
  <2>3. SubSeq(SubSeq(Sent, k + 1, Len(Sent)), 1, i) = SubSeq(Sent, k + 1, k + i)
    BY <1>1, <2>2, PieceIs
  <2>4. k + i = k + e - 1
    BY <2>1
  <2>5. QED
    BY <1>3, <1>4, <2>1, <2>3, <2>4 DEF Upto
<1>9. size \in -(LongMax + 1) .. LongMax /\ size \in Int
  <2>1. sizeLine \in Seq(Elements(Sent))
    <3>1. PICK i \in Nat : i = e - 1 /\ i \in 0 .. Len(buffered) /\ 0 \in 0 .. i
      BY <1>4, <1>5, <1>6
    <3>2. SubSeq(buffered, 0 + 1, i) \in Seq(Elements(Sent))
      BY <1>5, <3>1, SuffixIs
    <3>3. 0 + 1 = 1
      OBVIOUS
    <3>4. QED
      BY <3>1, <3>2, <3>3 DEF Upto
  <2> HIDE DEF sizeLine
  <2>2. size \in -(LongMax + 1) .. LongMax
    BY <2>1, StrtolIs
  <2>3. LongMax \in Nat
    BY LongMaxAssumption
  <2>4. QED
    BY <2>2, <2>3
<1>10. rest = SubSeq(Sent, a + 1, N)
  <2>1. PICK i \in Nat : i = e + 1 /\ k + i <= N /\ k + i = a
    BY <1>6, <1>7, <1>4
  <2>2. Erase(SubSeq(Sent, k + 1, N), i) = SubSeq(Sent, (IF k + i <= N THEN k + i ELSE N) + 1, N)
    BY <1>1, <1>4, SuffixErase
  <2>3. QED
    BY <1>4, <2>1, <2>2
<1> HIDE DEF sizeLine, rest, size
<1>11. rest \in Seq(Elements(Sent)) /\ Len(rest) = N - a
  BY <1>1, <1>4, <1>7, <1>10, SuffixIs
<1>12. n \in Nat /\ m \in Nat
  <2>1. n \in 0 .. 2 * LongMax + 1 /\ m \in Nat
    BY <1>9, SizesAre
  <2>2. LongMax \in Nat
    BY LongMaxAssumption
  <2>3. QED
    BY <2>1, <2>2
<1> HIDE DEF n, m
<1>13. j \in Nat /\ j \in 0 .. N - a
  BY <1>7, <1>12
<1>14. data = SubSeq(Sent, a + 1, a + j) /\ Len(data) = j
  <2>1. Min({n, Len(rest)}) = j
    <3>1. PICK l \in Nat : l = Len(rest) /\ l = N - a
      BY <1>7, <1>11
    <3>2. {n, l} \in SUBSET Nat /\ {n, l} # {}
      BY <1>12
    <3>3. Min({n, l}) \in {n, l} /\ Min({n, l}) <= n /\ Min({n, l}) <= l
      BY <3>2, MinIs
    <3>4. Min({n, l}) = IF a + n <= N THEN n ELSE N - a
      BY <1>7, <1>12, <3>1, <3>3
    <3>5. QED
      BY <3>1, <3>4
  <2>2. data = SubSeq(rest, 1, j)
    BY <2>1 DEF Substr
  <2> HIDE DEF j
  <2>3. a \in 0 .. Len(Sent) /\ j \in 0 .. Len(Sent) - a
    BY <1>3, <1>7, <1>13
  <2>4. SubSeq(SubSeq(Sent, a + 1, Len(Sent)), 1, j) = SubSeq(Sent, a + 1, a + j)
    BY <1>1, <2>3, PieceIs
  <2>5. data = SubSeq(Sent, a + 1, a + j)
    BY <1>3, <1>10, <2>2, <2>4
  <2>6. PICK s \in Nat : s = a + j
    BY <1>13
  <2>7. s \in 0 .. Len(Sent) /\ a \in 0 .. s /\ s - a = j
    BY <1>3, <1>7, <1>13, <2>6
  <2>8. Len(SubSeq(Sent, a + 1, s)) = s - a
    BY <1>1, <2>7, SuffixIs
  <2>9. QED
    BY <2>5, <2>6, <2>7, <2>8
<1>15. AfterData(rest, n) = SubSeq(Sent, (IF a + m <= N THEN a + m ELSE N) + 1, N)
  <2>1. Erase(SubSeq(Sent, a + 1, N), m) = SubSeq(Sent, (IF a + m <= N THEN a + m ELSE N) + 1, N)
    BY <1>1, <1>4, <1>7, <1>12, SuffixErase
  <2>2. QED
    BY <1>10, <2>1 DEF AfterData, m
<1>16. Len(Sent) - Len(rest) = a
  BY <1>3, <1>7, <1>11
<1>17. /\ chunkStage = "loop"
       /\ chunkLength' = n
       /\ chunkBody' = chunkBody \o data
       /\ buffered' = AfterData(rest, n)
       /\ chunkStage' = IF n = 0 THEN "success" ELSE chunkStage
       /\ origin' = origin \o [i \in 1 .. Len(data) |-> (Len(Sent) - Len(rest)) + i]
       /\ wrapped' = (wrapped \/ size \in {-1, -2})
       /\ chunks' = chunks
  BY <1>6, Zenon DEF TakeChunk, sizeLine, rest, size, n, data, Sent
<1> HIDE DEF data
<1>18. origin' = origin \o [i \in 1 .. j |-> a + i]
  BY <1>14, <1>16, <1>17
<1>19. size = Strtol(SubSeq(Sent, k + 1, k + e - 1))
  BY <1>8 DEF size
<1>20. TurnIs(k, e, a, j, m, size)
  <2>1. /\ j = IF a + ToSize(size) <= Len(Sent) THEN ToSize(size) ELSE Len(Sent) - a
        /\ m = ToSize(ToSize(size) + 2)
        /\ chunkLength' = ToSize(size)
        /\ chunkStage' = IF ToSize(size) = 0 THEN "success" ELSE chunkStage
    BY <1>3, <1>17 DEF n, m
  <2> HIDE DEF j
  <2>2. chunkBody' = chunkBody \o SubSeq(Sent, a + 1, a + j)
    BY <1>14, <1>17
  <2>3. buffered' = SubSeq(Sent, (IF a + m <= Len(Sent) THEN a + m ELSE Len(Sent)) + 1, Len(Sent))
    BY <1>3, <1>15, <1>17
  <2>4. e # 0 /\ e = FindCrLf(buffered) /\ a = k + e + 1 /\ a <= Len(Sent) /\ chunkStage = "loop"
        /\ wrapped' = (wrapped \/ size \in {-1, -2}) /\ chunks' = chunks
    BY <1>3, <1>6, <1>7, <1>17
  <2>5. QED
    BY <1>2, <1>9, <1>18, <1>19, <2>1, <2>2, <2>3, <2>4, Zenon DEF TurnIs
<1>21. QED
  BY <1>9, <1>12, <1>13, <1>20

LEMMA TurnShapes ==
  ASSUME ChunksIInv, NEW k \in Nat, NEW e \in Nat, NEW a \in Nat, NEW j \in Nat, NEW m \in Nat,
         NEW size \in Int, TurnIs(k, e, a, j, m, size)
  PROVE  ChunkShapes' /\ NothingTwice'
<1>1. PICK N \in Nat : N = Len(Sent)
  BY SentIs DEF ChunksIInv, ChunkShapes
<1> DEFINE D == SubSeq(Sent, a + 1, a + j)
           O == [i \in 1 .. j |-> a + i]
           l == IF a + m <= N THEN a + m ELSE N
           n == ToSize(size)
<1>2. /\ chunks \in Bodies /\ Sent \in Seq(Elements(Sent))
      /\ chunkBody \in Seq(Elements(Sent)) /\ origin \in Seq(1 .. N)
      /\ Len(origin) = Len(chunkBody)
      /\ \A i \in 1 .. Len(origin) : chunkBody[i] = Sent[origin[i]]
      /\ wrapped \in BOOLEAN
  BY <1>1, SentIs DEF ChunksIInv, ChunkShapes
<1>3. chunks' = chunks /\ Sent' = Sent
  BY DEF TurnIs, Sent
<1>4. /\ n \in 0 .. 2 * LongMax + 1 /\ n \in Nat /\ m \in Nat
      /\ size \notin {-1, -2} => m = n + 2
  <2>1. size \in -(LongMax + 1) .. LongMax /\ m = ToSize(n + 2)
    BY DEF TurnIs
  <2> HIDE DEF n
  <2>2. n \in 0 .. 2 * LongMax + 1 /\ (size \notin {-1, -2} => m = n + 2)
    BY <2>1, SizesAre DEF n
  <2>3. LongMax \in Nat
    BY LongMaxAssumption
  <2>4. QED
    BY <2>2, <2>3
<1>5. /\ k \in 0 .. N /\ e # 0 /\ a = k + e + 1 /\ a <= N
      /\ j = (IF a + n <= N THEN n ELSE N - a)
  BY <1>1 DEF TurnIs, BufferedAt
<1>6. /\ buffered = SubSeq(Sent, k + 1, N)
      /\ chunkLength' = n
      /\ chunkBody' = chunkBody \o D
      /\ origin' = origin \o O
      /\ buffered' = SubSeq(Sent, l + 1, N)
      /\ chunkStage' \in {"loop", "success", "failure"}
      /\ wrapped' = (wrapped \/ size \in {-1, -2})
  BY <1>1 DEF TurnIs, BufferedAt
<1> HIDE DEF n, D, O
<1>7. a + j <= N /\ j <= n /\ k < a
  BY <1>4, <1>5
<1>8. PICK x \in Nat : x = l /\ x \in 0 .. N /\ (size \notin {-1, -2} => a + j <= x /\ k < x)
  BY <1>4, <1>5, <1>7
<1> HIDE DEF l
<1>9. D \in Seq(Elements(Sent)) /\ Len(D) = j /\ \A i \in 1 .. j : D[i] = Sent[a + i]
  <2>1. PICK s \in Nat : s = a + j /\ s \in 0 .. Len(Sent) /\ a \in 0 .. s /\ s - a = j
    BY <1>1, <1>7
  <2>2. /\ SubSeq(Sent, a + 1, s) \in Seq(Elements(Sent)) /\ Len(SubSeq(Sent, a + 1, s)) = s - a
        /\ \A i \in 1 .. s - a : SubSeq(Sent, a + 1, s)[i] = Sent[a + i]
    BY <1>2, <2>1, SuffixIs
  <2>3. QED
    BY <2>1, <2>2 DEF D
<1>10. O \in Seq(1 .. N) /\ Len(O) = j /\ \A i \in 1 .. j : O[i] = a + i
  <2>1. O \in [1 .. j -> 1 .. N]
    BY <1>7 DEF O
  <2>2. \A i \in 1 .. j : O[i] = a + i
    BY DEF O
  <2>3. QED
    BY <2>1, <2>2, FunctionIsSeq
<1>11. PICK c \in Nat : c = Len(origin) /\ c = Len(chunkBody)
  BY <1>2
<1>12. /\ chunkBody' \in Seq(Elements(Sent)) /\ Len(chunkBody') = c + j
       /\ \A i \in 1 .. c + j : chunkBody'[i] = IF i <= c THEN chunkBody[i] ELSE D[i - c]
  <2>1. /\ chunkBody \in Seq(Elements(Sent)) /\ D \in Seq(Elements(Sent))
        /\ Len(chunkBody) = c /\ Len(D) = j
    BY <1>2, <1>9, <1>11
  <2>2. /\ chunkBody \o D \in Seq(Elements(Sent)) /\ Len(chunkBody \o D) = Len(chunkBody) + Len(D)
        /\ \A i \in 1 .. Len(chunkBody) + Len(D) :
             (chunkBody \o D)[i] = IF i <= Len(chunkBody) THEN chunkBody[i] ELSE D[i - Len(chunkBody)]
    BY <2>1, ConcatProperties
  <2>3. QED
    BY <1>6, <2>1, <2>2
<1>13. /\ origin' \in Seq(1 .. N) /\ Len(origin') = c + j
       /\ \A i \in 1 .. c + j : origin'[i] = IF i <= c THEN origin[i] ELSE O[i - c]
  <2>1. /\ origin \in Seq(1 .. N) /\ O \in Seq(1 .. N)
        /\ Len(origin) = c /\ Len(O) = j
    BY <1>2, <1>10, <1>11
  <2>2. /\ origin \o O \in Seq(1 .. N) /\ Len(origin \o O) = Len(origin) + Len(O)
        /\ \A i \in 1 .. Len(origin) + Len(O) :
             (origin \o O)[i] = IF i <= Len(origin) THEN origin[i] ELSE O[i - Len(origin)]
    BY <2>1, ConcatProperties
  <2>3. QED
    BY <1>6, <2>1, <2>2
<1>14. \A i \in 1 .. c + j : IF i <= c THEN i \in 1 .. c ELSE i - c \in 1 .. j
  OBVIOUS
<1>15. \A i \in 1 .. c + j : chunkBody'[i] = Sent[origin'[i]]
  <2> SUFFICES ASSUME NEW i \in 1 .. c + j PROVE chunkBody'[i] = Sent[origin'[i]]
    OBVIOUS
  <2>1. CASE i <= c
    BY <1>2, <1>11, <1>12, <1>13, <1>14, <2>1
  <2>2. CASE ~ (i <= c)
    <3>1. i - c \in 1 .. j
      BY <1>14, <2>2
    <3>2. D[i - c] = Sent[a + (i - c)] /\ O[i - c] = a + (i - c)
      BY <1>9, <1>10, <3>1
    <3>3. QED
      BY <1>12, <1>13, <2>2, <3>2
  <2>3. QED
    BY <2>1, <2>2
<1>16. wrapped' \in BOOLEAN
  BY <1>2, <1>6
<1>17. BufferedAt(x)'
  BY <1>1, <1>3, <1>6, <1>8 DEF BufferedAt
<1>18. ChunkShapes'
  <2>1. Elements(Sent)' = Elements(Sent) /\ Len(Sent') = N
    BY <1>1, <1>3 DEF Elements
  <2>2. \E y \in Nat : BufferedAt(y)'
    BY <1>17
  <2>3. \A i \in 1 .. Len(origin') : chunkBody'[i] = Sent'[origin'[i]]
    BY <1>3, <1>13, <1>15
  <2>4. /\ chunks' \in Bodies
        /\ chunkBody' \in Seq(Elements(Sent)')
        /\ origin' \in Seq(1 .. Len(Sent'))
        /\ Len(origin') = Len(chunkBody')
        /\ chunkLength' \in 0 .. 2 * LongMax + 1
    BY <1>2, <1>3, <1>4, <1>6, <1>12, <1>13, <2>1
  <2>5. QED
    BY <1>6, <1>16, <2>2, <2>3, <2>4 DEF ChunkShapes
<1>19. Consumed = k /\ Consumed' = x
  <2>1. \A y \in 0 .. N : N - Len(SubSeq(Sent, y + 1, N)) = y
    BY <1>1, <1>2, ConsumedIs
  <2>2. QED
    BY <1>1, <1>3, <1>5, <1>6, <1>8, <2>1 DEF Consumed, Sent
<1>20. NothingTwice'
  <2> SUFFICES ASSUME ~wrapped'
               PROVE  /\ \A i \in 1 .. Len(origin') : origin'[i] <= Consumed'
                      /\ \A i, q \in 1 .. Len(origin') : i < q => origin'[i] < origin'[q]
    BY DEF NothingTwice
  <2>1. ~wrapped /\ size \notin {-1, -2}
    BY <1>6
  <2>2. /\ \A i \in 1 .. c : origin[i] \in Nat /\ origin[i] <= k
        /\ \A i, q \in 1 .. c : i < q => origin[i] < origin[q]
    <3>1. \A i \in 1 .. c : origin[i] \in 1 .. N
      BY <1>2, <1>11, ElementOfSeq
    <3>2. \A i \in 1 .. c : origin[i] \in Nat
      BY <1>2, <3>1
    <3>3. QED
      BY <1>11, <1>19, <2>1, <3>2 DEF ChunksIInv, NothingTwice
  <2>3. \A i \in 1 .. j : O[i] = a + i /\ a + i <= x
    BY <1>7, <1>10, <1>8, <2>1
  <2>4. \A i \in 1 .. c + j :
          IF i <= c THEN origin'[i] = origin[i] /\ i \in 1 .. c
          ELSE origin'[i] = a + (i - c) /\ i - c \in 1 .. j /\ a + (i - c) <= x
    BY <1>13, <1>14, <2>3
  <2>5. \A i \in 1 .. c + j : origin'[i] <= x
    BY <1>8, <2>1, <2>2, <2>4
  <2>6. \A i, q \in 1 .. c + j : i < q => origin'[i] < origin'[q]
    <3> SUFFICES ASSUME NEW i \in 1 .. c + j, NEW q \in 1 .. c + j, i < q
                 PROVE  origin'[i] < origin'[q]
      OBVIOUS
    <3>1. CASE q <= c
      BY <2>2, <2>4, <3>1
    <3>2. CASE i <= c /\ ~ (q <= c)
      BY <1>7, <2>2, <2>4, <3>2
    <3>3. CASE ~ (i <= c)
      BY <2>4, <3>3
    <3>4. QED
      BY <3>1, <3>2, <3>3
  <2>7. QED
    BY <1>13, <1>19, <2>5, <2>6
<1>21. QED
  BY <1>18, <1>20

\* A turn takes one chunk of those that frame the data.
LEMMA TurnFrames ==
  ASSUME ChunksIInv, NEW k \in Nat, NEW e \in Nat, NEW a \in Nat, NEW j \in Nat, NEW m \in Nat,
         NEW size \in Int, TurnIs(k, e, a, j, m, size), Framed(chunks)
  PROVE  IF chunkStage' = "loop"
         THEN \E p \in DOMAIN Before :
                /\ p \in Nat \ {0}
                /\ buffered' = SubSeq(Sent, p, Len(Sent))
                /\ p - 1 \in 0 .. Len(Sent)
                /\ Before[p] \in Nat
                /\ chunkBody' = SubSeq(Data, 1, Before[p])
         ELSE chunkStage' = "success" /\ chunkBody' = Data
<1>1. PICK N \in Nat : N = Len(Sent)
  BY SentIs DEF ChunksIInv, ChunkShapes
<1>2. /\ Sent \in Seq(Elements(Sent)) /\ Data \in Seq(Elements(Data))
      /\ \A p \in DOMAIN Before : Before[p] \in Nat /\ FramedAt(chunks, p)
  BY SentIs DEF ChunksIInv, ChunkShapes
<1>3. PICK p \in DOMAIN Before :
             /\ p \in Nat \ {0} /\ BufferedAt(p - 1) /\ Before[p] \in Nat
             /\ chunkBody = SubSeq(Data, 1, Before[p])
  BY DEF ChunksIInv, FramedSoFar, TurnIs
<1>4. PICK g \in Nat : g = Before[p]
  BY <1>3
<1> DEFINE n == ToSize(size)
           D == SubSeq(Sent, a + 1, a + j)
<1>5. /\ BufferedAt(k) /\ e = FindCrLf(buffered)
      /\ size = Strtol(SubSeq(Sent, k + 1, k + e - 1))
      /\ size \in -(LongMax + 1) .. LongMax
      /\ m = ToSize(n + 2)
      /\ chunkStage' = IF n = 0 THEN "success" ELSE "loop"
  BY <1>1 DEF TurnIs
<1>6. a = k + e + 1 /\ a <= N /\ j = (IF a + n <= N THEN n ELSE N - a)
  BY <1>1 DEF TurnIs
<1>7. PICK l \in Nat : l = Len(Data)
  BY <1>2
<1>8. /\ chunkBody' = chunkBody \o D
      /\ buffered' = SubSeq(Sent, (IF a + m <= N THEN a + m ELSE N) + 1, N)
  BY <1>1 DEF TurnIs
<1>9. k = p - 1
  <2>1. p - 1 \in 0 .. N /\ buffered = SubSeq(Sent, (p - 1) + 1, N)
        /\ k \in 0 .. N /\ buffered = SubSeq(Sent, k + 1, N)
    BY <1>1, <1>3, <1>5 DEF BufferedAt
  <2>2. \A y \in 0 .. N : N - Len(SubSeq(Sent, y + 1, N)) = y
    BY <1>1, <1>2, ConsumedIs
  <2>3. QED
    BY <2>1, <2>2
<1>10. p = k + 1 /\ p + e - 2 = k + e - 1 /\ p + e = a
  <2>1. p \in Nat \ {0}
    BY <1>3
  <2>2. QED
    BY <1>6, <1>9, <2>1
<1>11. From(Sent, p) = buffered
  BY <1>1, <1>5, <1>10 DEF From, BufferedAt
<1>12. FramedAt(chunks, p)
  BY <1>2
<1> DEFINE end == FindCrLf(From(chunks.bytes, p))
           s == Strtol(SubSeq(chunks.bytes, p, p + end - 2))
<1>13. end = e /\ s = size
  <2>1. end = e
    BY <1>5, <1>11 DEF Sent
  <2>2. s = Strtol(SubSeq(Sent, k + 1, k + e - 1))
    BY <1>10, <2>1 DEF Sent
  <2>3. QED
    BY <1>5, <2>1, <2>2
<1>14. /\ s \in Nat
       /\ p + end + s + 3 <= Len(chunks.bytes) + 1
       /\ chunks.before[p] + s <= Len(chunks.data)
       /\ \A i \in 1 .. s : chunks.bytes[p + end + i] = chunks.data[chunks.before[p] + i]
       /\ IF s = 0 THEN chunks.before[p] = Len(chunks.data)
          ELSE /\ p + end + s + 3 \in DOMAIN chunks.before
               /\ chunks.before[p + end + s + 3] = chunks.before[p] + s
  BY <1>12, Zenon DEF FramedAt
<1> HIDE DEF end, s
<1>15. size \in Nat /\ a + size + 3 <= N + 1 /\ g + size <= l /\ (size = 0 => g = l)
  BY <1>1, <1>4, <1>7, <1>10, <1>13, <1>14 DEF Sent, Data, Before
<1>16. \A i \in 1 .. size : Sent[a + i] = Data[g + i]
  BY <1>4, <1>10, <1>13, <1>14 DEF Sent, Data, Before
<1>17. size # 0 => a + size + 3 \in DOMAIN Before /\ Before[a + size + 3] = g + size
  BY <1>4, <1>10, <1>13, <1>14 DEF Before
<1>18. n = size /\ m = size + 2
  <2>1. size >= 0 /\ size \notin {-1, -2}
    BY <1>15
  <2> HIDE DEF n
  <2>2. QED
    BY <1>5, <2>1, SizesAre DEF n
<1> HIDE DEF n
<1>19. j = size /\ a + m <= N
  BY <1>6, <1>15, <1>18
<1>20. D \in Seq(Elements(Sent)) /\ Len(D) = size /\ \A i \in 1 .. size : D[i] = Sent[a + i]
  <2>1. PICK y \in Nat : y = a + j /\ y \in 0 .. Len(Sent) /\ a \in 0 .. y /\ y - a = size
    BY <1>1, <1>15, <1>18, <1>19
  <2>2. /\ SubSeq(Sent, a + 1, y) \in Seq(Elements(Sent)) /\ Len(SubSeq(Sent, a + 1, y)) = y - a
        /\ \A i \in 1 .. y - a : SubSeq(Sent, a + 1, y)[i] = Sent[a + i]
    BY <1>2, <2>1, SuffixIs
  <2>3. QED
    BY <2>1, <2>2
<1> HIDE DEF D
<1>21. chunkBody' = SubSeq(Data, 1, g + size)
  <2>1. \A i \in 1 .. size : D[i] = Data[g + i]
    BY <1>16, <1>20
  <2>2. SubSeq(Data, 1, g) \o D = SubSeq(Data, 1, g + size)
    <3>1. PICK u \in Seq(Elements(Sent)) : u = D
      BY <1>20
    <3>2. PICK d \in Seq(Elements(Data)) : d = Data
      BY <1>2
    <3>3. PICK q \in Nat : q = size
      BY <1>15
    <3>4. g + q <= Len(d) /\ Len(u) = q /\ \A i \in 1 .. q : u[i] = d[g + i]
      BY <1>7, <1>15, <1>20, <2>1, <3>1, <3>2, <3>3
    <3>5. SubSeq(d, 1, g) \o u = SubSeq(d, 1, g + q)
      BY <3>4, Longer, Z3
    <3>6. QED
      BY <3>1, <3>2, <3>3, <3>5
  <2>3. QED
    BY <1>3, <1>4, <1>8, <2>2
<1>22. CASE size = 0
  <2>1. g + size = Len(Data)
    BY <1>7, <1>15, <1>22
  <2>4. chunkStage' = "success"
    BY <1>5, <1>18, <1>22
  <2>2. SubSeq(Data, 1, Len(Data)) = Data
    BY <1>2, SubSeqFull
  <2>3. QED
    BY <1>21, <2>1, <2>2, <2>4
<1>23. CASE size # 0
  <2>1. PICK q \in Nat : q = a + size + 3
    BY <1>15
  <2>2. /\ q \in DOMAIN Before /\ q \in Nat \ {0} /\ q - 1 \in 0 .. N
        /\ Before[q] = g + size /\ Before[q] \in Nat /\ q = a + m + 1
    BY <1>15, <1>17, <1>18, <1>23, <2>1
  <2>3. buffered' = SubSeq(Sent, q, N)
    BY <1>8, <1>19, <2>2
  <2>4. chunkStage' = "loop"
    BY <1>5, <1>18, <1>23
  <2>5. QED
    BY <1>1, <1>21, <2>2, <2>3, <2>4
<1>24. QED
  BY <1>22, <1>23

LEMMA TakeChunkStep ==
  ASSUME ChunksIInv, TakeChunk
  PROVE  ChunksIInv'
<1>1. PICK k, e, a, j, m \in Nat, size \in Int : TurnIs(k, e, a, j, m, size)
  BY ChunkTaken
<1>2. ChunkShapes' /\ NothingTwice'
  BY <1>1, TurnShapes
<1>3. chunks' = chunks /\ Sent' = Sent /\ Data' = Data /\ Before' = Before
  BY <1>1 DEF TurnIs, Sent, Data, Before
<1>4. ASSUME Framed(chunks)
      PROVE  IF chunkStage' = "loop"
             THEN \E p \in DOMAIN Before :
                    /\ p \in Nat \ {0}
                    /\ buffered' = SubSeq(Sent, p, Len(Sent))
                    /\ p - 1 \in 0 .. Len(Sent)
                    /\ Before[p] \in Nat
                    /\ chunkBody' = SubSeq(Data, 1, Before[p])
             ELSE chunkStage' = "success" /\ chunkBody' = Data
  BY <1>1, <1>4, TurnFrames
<1>5. FramedSoFar'
  <2> SUFFICES ASSUME Framed(chunks)
               PROVE  IF chunkStage' = "loop"
                      THEN \E p \in DOMAIN Before :
                             /\ p \in Nat \ {0}
                             /\ BufferedAt(p - 1)'
                             /\ Before[p] \in Nat
                             /\ chunkBody' = SubSeq(Data, 1, Before[p])
                      ELSE chunkStage' = "success" /\ chunkBody' = Data
    BY <1>3 DEF FramedSoFar
  <2>1. CASE chunkStage' = "loop"
    <3>1. PICK p \in DOMAIN Before :
                 /\ p \in Nat \ {0}
                 /\ buffered' = SubSeq(Sent, p, Len(Sent))
                 /\ p - 1 \in 0 .. Len(Sent)
                 /\ Before[p] \in Nat
                 /\ chunkBody' = SubSeq(Data, 1, Before[p])
      BY <1>4, <2>1
    <3>2. BufferedAt(p - 1)'
      <4>1. (p - 1) + 1 = p
        BY <3>1
      <4>2. QED
        BY <1>3, <3>1, <4>1 DEF BufferedAt
    <3>3. QED
      BY <2>1, <3>1, <3>2
  <2>2. CASE chunkStage' # "loop"
    BY <1>4, <2>2
  <2>3. QED
    BY <2>1, <2>2
<1>6. QED
  BY <1>2, <1>5 DEF ChunksIInv

\* While chunks that frame data are not taken in full there is a size to read.
LEMMA SizeToRead ==
  ASSUME ChunksIInv, Framed(chunks), chunkStage = "loop"
  PROVE  buffered # <<>> /\ FindCrLf(buffered) # 0
<1>1. PICK N \in Nat : N = Len(Sent)
  <2>1. chunks \in Bodies
    BY DEF ChunksIInv, ChunkShapes
  <2>2. Sent \in Seq(Elements(Sent))
    BY <2>1, SentIs
  <2>3. Len(Sent) \in Nat
    BY <2>2
  <2>4. QED
    BY <2>3
<1>2. PICK p \in DOMAIN Before : p \in Nat \ {0} /\ BufferedAt(p - 1)
  BY DEF ChunksIInv, FramedSoFar
<1>3. Sent \in Seq(Elements(Sent)) /\ FramedAt(chunks, p)
  BY SentIs DEF ChunksIInv, ChunkShapes
<1>4. p \in 1 .. N /\ FindCrLf(From(Sent, p)) # 0
  BY <1>1, <1>3 DEF FramedAt, Sent
<1>5. PICK k \in Nat : k = p - 1 /\ k \in 0 .. N /\ k < N /\ buffered = SubSeq(Sent, k + 1, N)
  BY <1>1, <1>2, <1>4 DEF BufferedAt
<1>6. N \in 0 .. Len(Sent)
  BY <1>1
<1>7. Len(buffered) = N - k
  BY <1>3, <1>5, <1>6, SuffixIs
<1>8. buffered = From(Sent, p)
  BY <1>1, <1>2, <1>5 DEF From
<1>9. buffered # <<>>
  <2>1. Len(<<>>) = 0
    BY EmptySeq
  <2>2. Len(buffered) # 0
    BY <1>5, <1>7
  <2>3. QED
    BY <2>1, <2>2
<1>10. QED
  BY <1>4, <1>8, <1>9

LEMMA ChunksInitIInv == ChunksInit => ChunksIInv
<1> SUFFICES ASSUME ChunksInit PROVE ChunksIInv
  OBVIOUS
<1>1. PICK N \in Nat : N = Len(Sent)
  BY SentIs DEF ChunksInit
<1>2. /\ chunks \in Bodies
      /\ Sent \in Seq(Elements(Sent)) /\ Data \in Seq(Elements(Data))
      /\ Framed(chunks) => 1 \in DOMAIN Before /\ Before[1] = 0
  BY SentIs DEF ChunksInit
<1>3. BufferedAt(0)
  <2>1. SubSeq(Sent, 1, Len(Sent)) = Sent
    BY <1>2, SubSeqFull
  <2>2. 0 + 1 = 1 /\ 0 \in 0 .. N
    OBVIOUS
  <2>3. QED
    BY <1>1, <2>1, <2>2 DEF ChunksInit, BufferedAt, Sent
<1>4. ChunkShapes
  <2>1. <<>> \in Seq(Elements(Sent)) /\ <<>> \in Seq(1 .. Len(Sent)) /\ Len(<<>>) = 0
    BY EmptySeq
  <2>2. \E k \in Nat : BufferedAt(k)
    BY <1>3
  <2>3. 0 \in 0 .. 2 * LongMax + 1
    BY LongMaxAssumption
  <2>4. /\ chunkBody = <<>> /\ origin = <<>> /\ chunkLength = 0 /\ wrapped = FALSE
        /\ chunkStage = "loop"
    BY DEF ChunksInit
  <2>5. /\ Len(origin) = Len(chunkBody) /\ chunkBody \in Seq(Elements(Sent))
        /\ origin \in Seq(1 .. Len(Sent)) /\ chunkLength \in 0 .. 2 * LongMax + 1
    BY <2>1, <2>3, <2>4
  <2>6. \A i \in 1 .. Len(origin) : chunkBody[i] = Sent[origin[i]]
    BY <2>1, <2>4
  <2>7. QED
    BY <1>2, <2>2, <2>4, <2>5, <2>6 DEF ChunkShapes
<1>5. NothingTwice
  BY EmptySeq DEF ChunksInit, NothingTwice
<1>6. FramedSoFar
  <2> SUFFICES ASSUME Framed(chunks)
               PROVE  \E p \in DOMAIN Before :
                        /\ p \in Nat \ {0}
                        /\ BufferedAt(p - 1)
                        /\ Before[p] \in Nat
                        /\ chunkBody = SubSeq(Data, 1, Before[p])
    BY DEF FramedSoFar, ChunksInit
  <2>1. SubSeq(Data, 1, 0) = <<>>
    BY SubSeqEmpty
  <2>2. 1 - 1 = 0 /\ 1 \in Nat \ {0}
    OBVIOUS
  <2>3. /\ 1 \in DOMAIN Before /\ BufferedAt(1 - 1) /\ Before[1] \in Nat
        /\ chunkBody = SubSeq(Data, 1, Before[1])
    BY <1>2, <1>3, <2>1, <2>2 DEF ChunksInit
  <2>4. QED
    BY <2>2, <2>3
<1>7. QED
  BY <1>4, <1>5, <1>6 DEF ChunksIInv

LEMMA ChunksNextIInv == ChunksIInv /\ [ChunksNext]_chunkVars => ChunksIInv'
<1> SUFFICES ASSUME ChunksIInv, [ChunksNext]_chunkVars PROVE ChunksIInv'
  OBVIOUS
<1>1. ASSUME /\ chunks' = chunks /\ buffered' = buffered /\ chunkBody' = chunkBody
             /\ chunkLength' = chunkLength /\ origin' = origin /\ wrapped' = wrapped
             /\ chunkStage' \in {"loop", "success", "failure"}
             /\ Framed(chunks) => chunkStage' = chunkStage
      PROVE  ChunksIInv'
  BY <1>1 DEF ChunksIInv, ChunkShapes, NothingTwice, FramedSoFar, Consumed, BufferedAt,
              Sent, Data, Before, Elements, Framed
<1>2. CASE BufferEmpty
  BY <1>1, <1>2, SizeToRead DEF BufferEmpty
<1>3. CASE NoSize
  BY <1>1, <1>3, SizeToRead DEF NoSize
<1>4. CASE TakeChunk
  BY <1>4, TakeChunkStep
<1>5. CASE UNCHANGED chunkVars
  BY <1>1, <1>5 DEF chunkVars, ChunksIInv, ChunkShapes
<1>6. QED
  BY <1>2, <1>3, <1>4, <1>5 DEF ChunksNext

LEMMA ChunksIInvAlways == ChunksSpec => []ChunksIInv
BY ChunksInitIInv, ChunksNextIInv, PTL DEF ChunksSpec

\* HTTP_parse.cpp:348-372: whatever the client sends, the buffer is an end of
\* it and the data are bytes of it, each from a place that is known.
THEOREM ChunksTypeCorrect == ChunksSpec => []ChunksTypeOK
<1>1. ChunksIInv => ChunksTypeOK
  <2> SUFFICES ASSUME ChunksIInv PROVE ChunksTypeOK
    OBVIOUS
  <2>1. PICK N \in Nat : N = Len(Sent)
    BY SentIs DEF ChunksIInv, ChunkShapes
  <2>2. Sent \in Seq(Elements(Sent))
    BY SentIs DEF ChunksIInv, ChunkShapes
  <2>3. PICK k \in Nat : k \in 0 .. N /\ buffered = SubSeq(Sent, k + 1, N)
    BY <2>1 DEF ChunksIInv, ChunkShapes, BufferedAt
  <2>4. Consumed = k
    <3>1. \A y \in 0 .. N : N - Len(SubSeq(Sent, y + 1, N)) = y
      BY <2>1, <2>2, ConsumedIs
    <3>2. QED
      BY <2>1, <2>3, <3>1 DEF Consumed, Sent
  <2>5. buffered = Erase(chunks.bytes, Consumed)
    BY <2>1, <2>3, <2>4 DEF Erase, Sent
  <2>6. /\ Len(origin) = Len(chunkBody)
        /\ \A i \in 1 .. Len(chunkBody) :
             origin[i] \in 1 .. Len(chunks.bytes) /\ chunkBody[i] = chunks.bytes[origin[i]]
    <3>1. \A i \in 1 .. Len(origin) : origin[i] \in 1 .. Len(Sent)
      BY ElementOfSeq DEF ChunksIInv, ChunkShapes
    <3>2. QED
      BY <3>1 DEF ChunksIInv, ChunkShapes, Sent
  <2>7. QED
    BY <2>5, <2>6 DEF ChunksTypeOK, ChunksIInv, ChunkShapes
<1>2. QED
  BY <1>1, ChunksIInvAlways, PTL

\* HTTP_parse.cpp:348-372: of bodies of any length no byte becomes data twice
\* and none is taken out of its order, whatever lines it takes for sizes, but
\* for -1 and -2; and chunks that frame some data give that data.
THEOREM ChunksAlwaysAsSent == ChunksSpec => []ChunksAsSent
<1>1. ChunksIInv => ChunksAsSent
  BY DEF ChunksIInv, ChunksAsSent, FramedSoFar, FramedData, Data
<1>2. QED
  BY <1>1, ChunksIInvAlways, PTL

-----------------------------------------------------------------------------
(* CgiOutput: the lines of an output                                         *)

Ends(lines) == [i \in 1 .. Len(lines) |-> Append(lines[i], LF)]

\* f has the characters of the first lines of o, each with its LF.
IsOutput(o, n, f) ==
  /\ o.lines \in Seq(Seq(STRING)) /\ Len(o.lines) = n /\ n \in Nat
  /\ o.ended \in BOOLEAN
  /\ \A i \in 1 .. n : \A j \in 1 .. Len(o.lines[i]) : o.lines[i][j] # LF
  /\ IsFlat(f, Ends(o.lines), n, Chars)

Size(o, n, f) == IF o.ended \/ n = 0 THEN Len(f[n]) ELSE Len(f[n]) - 1

\* What is left of the output after k lines.
RestAt(o, f, k) == From(TextOf(o), Len(f[k]) + 1)

LEMMA LineEnds ==
  ASSUME NEW L \in Seq(STRING)
  PROVE  /\ Append(L, LF) \in Seq(Chars) /\ Len(Append(L, LF)) = Len(L) + 1
         /\ \A j \in 1 .. Len(L) : Append(L, LF)[j] = L[j]
         /\ Append(L, LF)[Len(L) + 1] = LF
<1>1. L \in Seq(Chars)
  BY StringsAreChars
<1>2. LF \in Chars
  BY DEF Chars, Blank
<1>3. QED
  BY <1>1, <1>2, AppendProperties

LEMMA EndsAre ==
  ASSUME NEW lines \in Seq(Seq(STRING))
  PROVE  /\ Ends(lines) \in Seq(Seq(Chars)) /\ Len(Ends(lines)) = Len(lines)
         /\ \A i \in 1 .. Len(lines) : Ends(lines)[i] = Append(lines[i], LF)
         /\ \A i \in 1 .. Len(lines) : Ends(lines)[i] \in Seq(Chars)
<1>1. PICK n \in Nat : n = Len(lines)
  BY LenIsNat
<1>2. \A i \in 1 .. n : lines[i] \in Seq(STRING)
  BY <1>1, ElementOfSeq
<1>3. \A i \in 1 .. n : Append(lines[i], LF) \in Seq(Chars)
  BY <1>2, LineEnds
<1>4. Ends(lines) \in [1 .. n -> Seq(Chars)]
  BY <1>1, <1>3 DEF Ends
<1>5. Ends(lines) \in Seq(Seq(Chars)) /\ Len(Ends(lines)) = n
  BY <1>4, FunctionIsSeq
<1>6. \A i \in 1 .. n : Ends(lines)[i] = Append(lines[i], LF)
  BY <1>1 DEF Ends
<1>7. QED
  BY <1>1, <1>3, <1>5, <1>6

LEMMA OutputIsLines ==
  ASSUME NEW o \in Outputs
  PROVE  \E n, f : IsOutput(o, n, f)
<1>1. /\ o.lines \in Seq(Seq(STRING)) /\ o.ended \in BOOLEAN
      /\ \A i \in 1 .. Len(o.lines) : \A j \in 1 .. Len(o.lines[i]) : o.lines[i][j] # LF
  BY OutputsAssumption
<1>2. PICK n \in Nat : n = Len(o.lines)
  BY <1>1
<1>3. \A i \in 1 .. n : Ends(o.lines)[i] \in Seq(Chars)
  BY <1>1, <1>2, EndsAre
<1>4. PICK f : IsFlat(f, Ends(o.lines), n, Chars)
  BY <1>3, FlatExists
<1>5. QED
  BY <1>1, <1>2, <1>4 DEF IsOutput

\* Each line, in the characters of them all.
IsLine(o, n, f, k) ==
  /\ o.lines[k] \in Seq(STRING)
  /\ Len(f[k]) = Len(f[k - 1]) + Len(o.lines[k]) + 1
  /\ \A j \in 1 .. Len(o.lines[k]) : f[n][Len(f[k - 1]) + j] = o.lines[k][j]
  /\ f[n][Len(f[k])] = LF

LEMMA LinesAre ==
  ASSUME NEW o, NEW n, NEW f, IsOutput(o, n, f)
  PROVE  /\ n \in Nat /\ Len(f[0]) = 0
         /\ f[n] \in Seq(Chars)
         /\ \A k \in 0 .. n : Len(f[k]) \in 0 .. Len(f[n])
         /\ \A k \in 1 .. n : IsLine(o, n, f, k)
<1> DEFINE u == Ends(o.lines)
<1>1. /\ n \in Nat /\ f \in [0 .. n -> Seq(Chars)] /\ IsFlat(f, u, n, Chars)
      /\ o.lines \in Seq(Seq(STRING)) /\ Len(o.lines) = n
  BY DEF IsOutput, IsFlat
<1>2. \A k \in 0 .. n : f[k] \in Seq(Chars) /\ Len(f[k]) \in Nat
  BY <1>1
<1>3. Len(f[0]) = 0 /\ \A k \in 1 .. n : PieceAt(f, u, k)
  BY <1>1, FlatLengths
<1>4. \A k \in 0 .. n : Begins(f, k, n)
  <2>1. n \in 0 .. n
    BY <1>1
  <2>2. QED
    BY <1>1, <2>1, FlatPrefixes
<1>5. \A k \in 0 .. n : Len(f[k]) \in 0 .. Len(f[n])
  BY <1>1, <1>2, <1>4 DEF Begins
<1> HIDE DEF u
<1>6. ASSUME NEW k \in 1 .. n PROVE IsLine(o, n, f, k)
  <2>1. PICK L \in Seq(STRING) : L = o.lines[k] /\ u[k] = Append(L, LF)
    <3>1. k \in 1 .. Len(o.lines)
      BY <1>1
    <3>2. o.lines[k] \in Seq(STRING)
      BY <1>1, <3>1, ElementOfSeq
    <3>3. u[k] = Append(o.lines[k], LF)
      BY <1>1, <3>1, EndsAre DEF u
    <3>4. QED
      BY <3>2, <3>3
  <2>2. PICK b \in Nat : b = Len(L)
    BY LenIsNat
  <2>3. Len(u[k]) = b + 1 /\ (\A j \in 1 .. b : u[k][j] = L[j]) /\ u[k][b + 1] = LF
    BY <2>1, <2>2, LineEnds
  <2>4. k - 1 \in 0 .. n /\ k \in 0 .. n
    BY <1>1
  <2>5. PICK a \in Nat : a = Len(f[k - 1])
    BY <1>2, <2>4
  <2>6. Len(f[k]) = a + (b + 1) /\ \A j \in 1 .. b + 1 : f[k][a + j] = u[k][j]
    BY <1>3, <2>3, <2>5 DEF PieceAt
  <2>7. \A p \in 1 .. a + (b + 1) : f[n][p] = f[k][p]
    BY <1>4, <2>4, <2>6 DEF Begins
  <2>8. \A j \in 1 .. b + 1 : a + j \in 1 .. a + (b + 1) /\ f[n][a + j] = u[k][j]
    <3>1. \A j \in 1 .. b + 1 : a + j \in 1 .. a + (b + 1)
      OBVIOUS
    <3>2. QED
      BY <2>6, <2>7, <3>1
  <2>9. \A j \in 1 .. b : f[n][a + j] = L[j]
    <3>1. \A j \in 1 .. b : j \in 1 .. b + 1
      OBVIOUS
    <3>2. QED
      BY <2>3, <2>8, <3>1
  <2>10. f[n][a + (b + 1)] = LF
    <3>1. b + 1 \in 1 .. b + 1
      OBVIOUS
    <3>2. QED
      BY <2>3, <2>8, <3>1
  <2>11. a + (b + 1) = a + b + 1
    OBVIOUS
  <2>12. QED
    BY <2>1, <2>2, <2>5, <2>6, <2>9, <2>10, <2>11 DEF IsLine
<1>7. n \in 0 .. n
  BY <1>1
<1>8. QED
  BY <1>1, <1>2, <1>3, <1>5, <1>6, <1>7

\* The line after the first k, and how many characters there are in all of them.
NextLine(o, n, f, k, L, a, b, m) ==
  /\ k + 1 \in 1 .. n /\ k + 1 \in 0 .. n
  /\ L = o.lines[k + 1] /\ b = Len(L)
  /\ a = Len(f[k]) /\ m = Len(f[n])
  /\ Len(f[k + 1]) = a + b + 1 /\ a + b + 1 <= m
  /\ \A j \in 1 .. b : f[n][a + j] = L[j]
  /\ f[n][a + b + 1] = LF

LEMMA LineNext ==
  ASSUME NEW o, NEW n, NEW f, IsOutput(o, n, f), NEW k \in 0 .. n, k < n
  PROVE  \E L \in Seq(STRING), a \in Nat, b \in Nat, m \in Nat : NextLine(o, n, f, k, L, a, b, m)
<1>1. n \in Nat /\ k + 1 \in 1 .. n /\ k + 1 \in 0 .. n /\ k \in 0 .. n
  <2>1. n \in Nat
    BY DEF IsOutput
  <2>2. QED
    BY <2>1
<1>2. /\ o.lines[k + 1] \in Seq(STRING)
      /\ Len(f[k + 1]) = Len(f[(k + 1) - 1]) + Len(o.lines[k + 1]) + 1
      /\ \A j \in 1 .. Len(o.lines[k + 1]) : f[n][Len(f[(k + 1) - 1]) + j] = o.lines[k + 1][j]
      /\ f[n][Len(f[k + 1])] = LF
  <2>1. IsLine(o, n, f, k + 1)
    BY <1>1, LinesAre
  <2>2. QED
    BY <2>1 DEF IsLine
<1>3. \A i \in 0 .. n : Len(f[i]) \in 0 .. Len(f[n])
  BY LinesAre
<1>4. f[n] \in Seq(Chars)
  BY LinesAre
<1>5. PICK L \in Seq(STRING) : L = o.lines[k + 1]
  BY <1>1, <1>2
<1>6. PICK b \in Nat : b = Len(L)
  BY LenIsNat
<1>7. PICK m \in Nat : m = Len(f[n])
  BY <1>4
<1>8. PICK a \in Nat : a = Len(f[k])
  <2>1. Len(f[k]) \in 0 .. m
    BY <1>1, <1>3, <1>7
  <2>2. QED
    BY <2>1
<1>9. (k + 1) - 1 = k
  BY <1>1
<1>10. /\ Len(f[k + 1]) = a + b + 1
       /\ \A j \in 1 .. b : f[n][a + j] = L[j]
       /\ f[n][Len(f[k + 1])] = LF
  BY <1>1, <1>2, <1>5, <1>6, <1>8, <1>9
<1>11. a + b + 1 <= m
  <2>1. Len(f[k + 1]) \in 0 .. m
    BY <1>1, <1>3, <1>7
  <2>2. QED
    BY <1>10, <2>1
<1>12. NextLine(o, n, f, k, L, a, b, m)
  BY <1>1, <1>5, <1>6, <1>7, <1>8, <1>10, <1>11 DEF NextLine
<1>13. QED
  BY <1>12

\* The last line may be without its LF.
LEMMA SizeIs ==
  ASSUME NEW o, NEW n, NEW f, IsOutput(o, n, f)
  PROVE  \E m \in Nat, s \in Nat :
           /\ n \in Nat /\ m = Len(f[n]) /\ s <= m /\ s = Size(o, n, f) /\ (n = 0 <=> m = 0)
           /\ s = IF o.ended \/ n = 0 THEN m ELSE m - 1
<1>1. n \in Nat /\ f[n] \in Seq(Chars)
  BY LinesAre
<1>2. PICK m \in Nat : m = Len(f[n])
  BY <1>1
<1>3. n = 0 => m = 0
  BY <1>2, LinesAre
<1>4. n # 0 => m # 0
  <2>1. SUFFICES ASSUME n # 0 PROVE m # 0
    OBVIOUS
  <2>2. n - 1 \in 0 .. n /\ n - 1 < n
    BY <1>1, <2>1
  <2>3. PICK L \in Seq(STRING), a \in Nat, b \in Nat, l \in Nat : NextLine(o, n, f, n - 1, L, a, b, l)
    BY <2>2, LineNext
  <2>4. l = m /\ a + b + 1 <= l
    BY <1>2, <2>3 DEF NextLine
  <2>5. QED
    BY <2>4
<1>5. CASE o.ended \/ n = 0
  <2>1. Size(o, n, f) = m /\ m \in 0 .. m
    BY <1>2, <1>5 DEF Size
  <2>2. QED
    BY <1>1, <1>2, <1>3, <1>4, <1>5, <2>1
<1>6. CASE ~(o.ended \/ n = 0)
  <2>1. Size(o, n, f) = m - 1 /\ m - 1 \in 0 .. m
    BY <1>2, <1>4, <1>6 DEF Size
  <2>2. QED
    BY <1>1, <1>2, <1>3, <1>4, <1>6, <2>1
<1>7. QED
  BY <1>5, <1>6

LEMMA FlatOfEnds ==
  ASSUME NEW o, NEW n, NEW f, IsOutput(o, n, f)
  PROVE  FlattenSeq(Ends(o.lines)) = f[n]
<1>1. PICK u : u = Ends(o.lines)
  OBVIOUS
<1>2. o.lines \in Seq(Seq(STRING)) /\ Len(o.lines) = n /\ n \in Nat /\ IsFlat(f, u, n, Chars)
  BY <1>1 DEF IsOutput
<1>3. u \in Seq(Seq(Chars)) /\ Len(u) = n
  BY <1>1, <1>2, EndsAre
<1>4. n = 0 => u = <<>>
  BY <1>3, EmptySeq
<1>5. FlattenSeq(u) = f[n]
  BY <1>2, <1>3, <1>4, FlattenIs
<1>6. QED
  BY <1>1, <1>5

LEMMA TextIs ==
  ASSUME NEW o, NEW n, NEW f, IsOutput(o, n, f)
  PROVE  /\ Size(o, n, f) \in 0 .. Len(f[n])
         /\ TextOf(o) = Upto(f[n], Size(o, n, f))
         /\ TextOf(o) \in Seq(Chars) /\ Len(TextOf(o)) = Size(o, n, f)
         /\ \A i \in 1 .. Size(o, n, f) : TextOf(o)[i] = f[n][i]
<1>1. PICK m \in Nat, s \in Nat :
        /\ n \in Nat /\ m = Len(f[n]) /\ s <= m /\ s = Size(o, n, f) /\ (n = 0 <=> m = 0)
        /\ s = IF o.ended \/ n = 0 THEN m ELSE m - 1
  BY SizeIs
<1>2. FlattenSeq(Ends(o.lines)) = f[n]
  BY FlatOfEnds
<1>3. f[n] \in Seq(Chars)
  BY LinesAre
<1>4. f[n] = <<>> <=> m = 0
  BY <1>1, <1>3, EmptySeq
<1>5. TextOf(o) = IF o.ended \/ n = 0 THEN f[n] ELSE SubSeq(f[n], 1, m - 1)
  <2>1. TextOf(o) = IF o.ended \/ f[n] = <<>> THEN f[n] ELSE Front(f[n])
    BY <1>2 DEF TextOf, Ends
  <2>2. Front(f[n]) = SubSeq(f[n], 1, m - 1)
    BY <1>1 DEF Front
  <2>3. n = 0 <=> f[n] = <<>>
    BY <1>1, <1>4
  <2>4. QED
    BY <2>1, <2>2, <2>3
<1>6. TextOf(o) = Upto(f[n], s)
  <2>1. Upto(f[n], m) = f[n]
    BY <1>1, <1>3, WholeIs
  <2>2. Upto(f[n], m - 1) = SubSeq(f[n], 1, m - 1)
    BY DEF Upto
  <2>3. QED
    BY <1>1, <1>5, <2>1, <2>2
<1>7. Upto(f[n], s) \in Seq(Chars) /\ Len(Upto(f[n], s)) = s /\ \A i \in 1 .. s : Upto(f[n], s)[i] = f[n][i]
  BY <1>1, <1>3, UptoIs
<1>8. QED
  BY <1>1, <1>6, <1>7

\* The rest after k lines, by its places.
RestPlaces(o, n, f, k, r) ==
  /\ r \in Seq(Chars)
  /\ IF Len(f[k]) <= Size(o, n, f)
     THEN /\ Len(r) = Size(o, n, f) - Len(f[k])
          /\ \A i \in 1 .. Size(o, n, f) - Len(f[k]) : r[i] = f[n][Len(f[k]) + i]
     ELSE r = <<>>

LEMMA RestIs ==
  ASSUME NEW o, NEW n, NEW f, IsOutput(o, n, f), NEW k \in 0 .. n
  PROVE  RestPlaces(o, n, f, k, RestAt(o, f, k))
<1>1. PICK s \in Nat, t \in Seq(Chars) :
        s = Size(o, n, f) /\ t = TextOf(o) /\ Len(t) = s /\ \A i \in 1 .. s : t[i] = f[n][i]
  <2>1. Size(o, n, f) \in 0 .. Len(f[n]) /\ Len(f[n]) \in Nat
    <3>1. f[n] \in Seq(Chars)
      BY LinesAre
    <3>2. QED
      BY <3>1, TextIs
  <2>2. Size(o, n, f) \in Nat
    BY <2>1
  <2>3. QED
    BY <2>2, TextIs
<1>2. PICK c \in Nat : c = Len(f[k])
  <2>1. Len(f[k]) \in 0 .. Len(f[n])
    BY LinesAre
  <2>2. QED
    BY <2>1
<1>3. RestAt(o, f, k) = From(t, c + 1)
  BY <1>1, <1>2 DEF RestAt
<1>4. CASE c <= s
  <2>1. c \in 0 .. Len(t)
    BY <1>1, <1>2, <1>4
  <2>2. /\ From(t, c + 1) \in Seq(Chars) /\ Len(From(t, c + 1)) = Len(t) - c
        /\ \A i \in 1 .. Len(t) - c : From(t, c + 1)[i] = t[c + i]
    BY <2>1, FromIs
  <2>3. \A i \in 1 .. s - c : c + i \in 1 .. s
    BY <1>4
  <2>4. QED
    BY <1>1, <1>2, <1>3, <1>4, <2>2, <2>3 DEF RestPlaces
<1>5. CASE ~(c <= s)
  <2>1. From(t, c + 1) = <<>>
    BY <1>1, <1>5, SubSeqEmpty DEF From
  <2>2. <<>> \in Seq(Chars)
    OBVIOUS
  <2>3. QED
    BY <1>1, <1>2, <1>3, <1>5, <2>1, <2>2 DEF RestPlaces
<1>6. QED
  BY <1>4, <1>5

\* The next line is cut off, with its LF if it has one.
LineCutAt(o, n, f, k) ==
  LET r == RestAt(o, f, k)
      L == o.lines[k + 1]
  IN /\ Holds(r, LF) <=> o.ended \/ k + 1 < n
     /\ (IF Holds(r, LF) THEN Find(r, LF) ELSE Len(r) + 1) = Len(L) + 1
     /\ Upto(r, Len(L)) = L
     /\ From(r, Len(L) + 2) = RestAt(o, f, k + 1)

LEMMA LineCut ==
  ASSUME NEW o, NEW n, NEW f, IsOutput(o, n, f), NEW k \in 0 .. n, k < n
  PROVE  LineCutAt(o, n, f, k)
<1>0. PICK L \in Seq(STRING), a \in Nat, b \in Nat, m \in Nat : NextLine(o, n, f, k, L, a, b, m)
  BY LineNext
<1>1. L = o.lines[k + 1] /\ n \in Nat /\ k \in 0 .. n /\ k + 1 \in 1 .. n /\ k + 1 \in 0 .. n
  <2>1. n \in Nat
    BY DEF IsOutput
  <2>2. QED
    BY <1>0, <2>1 DEF NextLine
<1>2. a = Len(f[k])
  BY <1>0 DEF NextLine
<1>3. b = Len(L)
  BY <1>0 DEF NextLine
<1>4. m = Len(f[n])
  BY <1>0 DEF NextLine
<1>5. /\ Len(f[k + 1]) = a + b + 1 /\ a + b + 1 <= m
      /\ \A j \in 1 .. b : f[n][a + j] = L[j]
      /\ f[n][a + b + 1] = LF
  BY <1>0 DEF NextLine
<1>6. PICK s \in Nat : s = Size(o, n, f) /\ s = IF o.ended THEN m ELSE m - 1
  <2>1. PICK l \in Nat, s \in Nat :
          /\ n \in Nat /\ l = Len(f[n]) /\ s <= l /\ s = Size(o, n, f) /\ (n = 0 <=> l = 0)
          /\ s = IF o.ended \/ n = 0 THEN l ELSE l - 1
    BY SizeIs
  <2>2. n # 0 /\ s \in Nat
    BY <1>1, <2>1
  <2>3. QED
    BY <1>4, <2>1, <2>2
<1>7. a + b <= s /\ a <= s
  BY <1>5, <1>6
<1>8. PICK r \in Seq(Chars) : r = RestAt(o, f, k) /\ Len(r) = s - a /\ \A i \in 1 .. s - a : r[i] = f[n][a + i]
  <2>1. RestPlaces(o, n, f, k, RestAt(o, f, k))
    BY RestIs
  <2>2. QED
    BY <1>2, <1>6, <1>7, <2>1 DEF RestPlaces
<1>9. \A j \in 1 .. b : j \in 1 .. s - a /\ r[j] = L[j] /\ L[j] # LF
  <2>1. \A j \in 1 .. b : j \in 1 .. s - a
    BY <1>7
  <2>2. \A j \in 1 .. b : L[j] # LF
    BY <1>1, <1>3 DEF IsOutput
  <2>3. QED
    BY <1>5, <1>8, <2>1, <2>2
<1>10. Upto(r, b) = L
  <2>1. b \in 0 .. Len(r)
    BY <1>7, <1>8
  <2>2. Upto(r, b) \in Seq(Chars) /\ Len(Upto(r, b)) = b /\ \A i \in 1 .. b : Upto(r, b)[i] = r[i]
    BY <2>1, UptoIs
  <2>3. \A i \in 1 .. b : Upto(r, b)[i] = L[i]
    BY <1>9, <2>2
  <2>4. L \in Seq(Chars)
    BY StringsAreChars
  <2>5. QED
    BY <1>3, <2>2, <2>3, <2>4, SeqEqual
<1>11. /\ Find(r, LF) \in 0 .. s - a
       /\ Find(r, LF) = 0 => \A i \in 1 .. s - a : r[i] # LF
       /\ Find(r, LF) # 0 => r[Find(r, LF)] = LF /\ \A i \in 1 .. Find(r, LF) - 1 : r[i] # LF
  <2>1. PICK l \in Nat : l = s - a /\ Len(r) = l
    BY <1>7, <1>8
  <2>2. /\ Find(r, LF) \in 0 .. Len(r)
        /\ Find(r, LF) = 0 => \A i \in 1 .. Len(r) : r[i] # LF
        /\ Find(r, LF) # 0 => r[Find(r, LF)] = LF /\ \A i \in 1 .. Find(r, LF) - 1 : r[i] # LF
    BY FindIs
  <2>3. QED
    BY <2>1, <2>2
<1>12. CASE o.ended \/ k + 1 < n
  <2>1. a + b + 1 <= s
    <3>1. CASE o.ended
      BY <1>5, <1>6, <3>1
    <3>2. CASE k + 1 < n
      <4>1. k + 1 < n /\ k + 1 \in 0 .. n
        BY <1>1, <3>2
      <4>2. PICK K \in Seq(STRING), c \in Nat, d \in Nat, l \in Nat : NextLine(o, n, f, k + 1, K, c, d, l)
        BY <4>1, LineNext
      <4>3. c = a + b + 1 /\ l = m /\ c + d + 1 <= l
        BY <1>4, <1>5, <4>2 DEF NextLine
      <4>4. QED
        BY <1>6, <4>3
    <3>3. QED
      BY <1>12, <3>1, <3>2
  <2>2. b + 1 \in 1 .. s - a /\ r[b + 1] = LF
    <3>1. b + 1 \in 1 .. s - a /\ a + (b + 1) = a + b + 1
      BY <2>1
    <3>2. QED
      BY <1>5, <1>8, <3>1
  <2>3. PICK x \in 1 .. s - a : x = Find(r, LF) /\ r[x] = LF /\ \A i \in 1 .. x - 1 : r[i] # LF
    BY <1>11, <2>2
  <2>4. x = b + 1
    <3>1. ~(x <= b)
      BY <1>9, <2>3
    <3>2. ~(b + 1 < x)
      <4>1. b + 1 < x => b + 1 \in 1 .. x - 1
        OBVIOUS
      <4>2. QED
        BY <2>2, <2>3, <4>1
    <3>3. QED
      BY <3>1, <3>2
  <2>5. From(r, b + 2) = RestAt(o, f, k + 1)
    <3>1. PICK t \in Seq(Chars) : t = TextOf(o) /\ Len(t) = s
      BY <1>6, TextIs
    <3>2. a \in 0 .. Len(t) /\ b + 1 \in 0 .. Len(t) - a
      BY <1>7, <2>1, <3>1
    <3>3. From(From(t, a + 1), (b + 1) + 1) = From(t, a + (b + 1) + 1)
      BY <3>1, <3>2, FromFrom
    <3>4. (b + 1) + 1 = b + 2 /\ a + (b + 1) + 1 = (a + b + 1) + 1
      OBVIOUS
    <3>5. r = From(t, a + 1) /\ RestAt(o, f, k + 1) = From(t, (a + b + 1) + 1)
      BY <1>2, <1>5, <1>8, <3>1 DEF RestAt
    <3>6. QED
      BY <3>3, <3>4, <3>5
  <2>6. Holds(r, LF) /\ Find(r, LF) = b + 1
    BY <2>3, <2>4 DEF Holds
  <2>7. QED
    BY <1>1, <1>3, <1>8, <1>10, <1>12, <2>5, <2>6 DEF LineCutAt
<1>13. CASE ~(o.ended \/ k + 1 < n)
  <2>1. k + 1 = n /\ s = a + b /\ s - a = b /\ Len(f[k + 1]) = m /\ m = s + 1
    <3>1. k + 1 = n
      BY <1>1, <1>13
    <3>2. m = a + b + 1 /\ Len(f[k + 1]) = m
      BY <1>4, <1>5, <3>1
    <3>3. s = m - 1
      BY <1>6, <1>13
    <3>4. m - 1 = a + b /\ (a + b) - a = b /\ m = (m - 1) + 1
      BY <3>2
    <3>5. QED
      BY <3>1, <3>2, <3>3, <3>4
  <2>2. Find(r, LF) = 0
    <3>1. SUFFICES ASSUME Find(r, LF) # 0 PROVE FALSE
      OBVIOUS
    <3>2. Find(r, LF) \in 1 .. b /\ r[Find(r, LF)] = LF
      BY <1>11, <2>1, <3>1
    <3>3. QED
      BY <1>9, <3>2
  <2>3. Len(r) = b
    BY <1>8, <2>1
  <2>4. From(r, b + 2) = <<>>
    <3>1. b < b + 2
      OBVIOUS
    <3>2. SubSeq(r, b + 2, b) = <<>>
      BY <3>1, SubSeqEmpty
    <3>3. QED
      BY <2>3, <3>2 DEF From
  <2>5. RestAt(o, f, k + 1) = <<>>
    <3>1. RestPlaces(o, n, f, k + 1, RestAt(o, f, k + 1))
      BY <1>1, RestIs
    <3>2. ~(Len(f[k + 1]) <= Size(o, n, f))
      BY <1>6, <2>1
    <3>3. QED
      BY <3>1, <3>2 DEF RestPlaces
  <2>6. ~Holds(r, LF)
    BY <2>2 DEF Holds
  <2>7. QED
    BY <1>1, <1>3, <1>8, <1>10, <1>13, <2>3, <2>4, <2>5, <2>6 DEF LineCutAt
<1>14. QED
  BY <1>12, <1>13

\* Before any line, and behind them all.
LEMMA RestEnds ==
  ASSUME NEW o, NEW n, NEW f, IsOutput(o, n, f)
  PROVE  RestAt(o, f, 0) = TextOf(o) /\ RestAt(o, f, n) = <<>>
<1>1. n \in Nat /\ Len(f[0]) = 0 /\ f[n] \in Seq(Chars)
  BY LinesAre
<1>2. TextOf(o) \in Seq(Chars) /\ Size(o, n, f) \in 0 .. Len(f[n])
  BY TextIs
<1>3. From(TextOf(o), 1) = TextOf(o)
  BY <1>2, WholeIs
<1>4. RestAt(o, f, 0) = TextOf(o)
  BY <1>1, <1>3 DEF RestAt
<1>5. RestPlaces(o, n, f, n, RestAt(o, f, n))
  <2>1. n \in 0 .. n
    BY <1>1
  <2>2. QED
    BY <2>1, RestIs
<1>6. RestAt(o, f, n) = <<>>
  <2>1. PICK m \in Nat : m = Len(f[n])
    BY <1>1
  <2>2. PICK s \in 0 .. m : s = Size(o, n, f)
    BY <1>2, <2>1
  <2>3. RestAt(o, f, n) \in Seq(Chars)
    BY <1>5 DEF RestPlaces
  <2>4. IF m <= s THEN Len(RestAt(o, f, n)) = s - m ELSE RestAt(o, f, n) = <<>>
    BY <1>5, <2>1, <2>2 DEF RestPlaces
  <2>5. m <= s => s - m = 0
    OBVIOUS
  <2>6. QED
    BY <2>3, <2>4, <2>5, EmptySeq
<1>7. QED
  BY <1>4, <1>6

\* Only before any line is the rest the whole, unless there is nothing.
LEMMA OnlyFirst ==
  ASSUME NEW o, NEW n, NEW f, IsOutput(o, n, f), NEW k \in 0 .. n, TextOf(o) # <<>>,
         RestAt(o, f, k) = TextOf(o)
  PROVE  k = 0
<1>1. SUFFICES ASSUME k # 0 PROVE FALSE
  OBVIOUS
<1>2. n \in Nat /\ k - 1 \in 0 .. n /\ k - 1 < n /\ (k - 1) + 1 = k
  <2>1. n \in Nat
    BY LinesAre
  <2>2. QED
    BY <1>1, <2>1
<1>3. PICK c \in Nat : c = Len(f[k]) /\ c # 0
  <2>1. PICK L \in Seq(STRING), a \in Nat, b \in Nat, m \in Nat : NextLine(o, n, f, k - 1, L, a, b, m)
    BY <1>2, LineNext
  <2>2. Len(f[k]) = a + b + 1
    BY <1>2, <2>1 DEF NextLine
  <2>3. a + b + 1 \in Nat /\ a + b + 1 # 0
    OBVIOUS
  <2>4. QED
    BY <2>2, <2>3
<1>4. PICK s \in Nat : s = Size(o, n, f) /\ Len(TextOf(o)) = s /\ s # 0
  <2>1. TextOf(o) \in Seq(Chars) /\ Len(TextOf(o)) = Size(o, n, f)
    BY TextIs
  <2>2. Len(TextOf(o)) # 0
    BY <2>1, EmptySeq
  <2>3. Len(TextOf(o)) \in Nat
    BY <2>1
  <2>4. QED
    BY <2>1, <2>2, <2>3
<1>5. RestPlaces(o, n, f, k, RestAt(o, f, k))
  BY RestIs
<1>6. CASE c <= s
  BY <1>3, <1>4, <1>5, <1>6 DEF RestPlaces
<1>7. CASE ~(c <= s)
  BY <1>3, <1>4, <1>5, <1>7 DEF RestPlaces
<1>8. QED
  BY <1>6, <1>7

LEMMA FromConcat ==
  ASSUME NEW T, NEW x \in Seq(T), NEW y \in Seq(T), NEW c \in 0 .. Len(x)
  PROVE  From(x \o y, c + 1) = From(x, c + 1) \o y
<1> DEFINE z == x \o y
           v == From(x, c + 1)
           w == From(z, c + 1)
<1>1. PICK a \in Nat, b \in Nat : a = Len(x) /\ b = Len(y)
  OBVIOUS
<1>2. z \in Seq(T) /\ Len(z) = a + b /\ \A i \in 1 .. a + b : z[i] = IF i <= a THEN x[i] ELSE y[i - a]
  BY <1>1, ConcatProperties
<1>3. v \in Seq(T) /\ Len(v) = a - c /\ \A i \in 1 .. a - c : v[i] = x[c + i]
  BY <1>1, FromIs
<1> HIDE DEF z, v
<1>4. w \in Seq(T) /\ Len(w) = a + b - c /\ \A i \in 1 .. a + b - c : w[i] = z[c + i]
  <2>1. c \in 0 .. Len(z)
    BY <1>1, <1>2
  <2>2. /\ From(z, c + 1) \in Seq(T) /\ Len(From(z, c + 1)) = Len(z) - c
        /\ \A i \in 1 .. Len(z) - c : From(z, c + 1)[i] = z[c + i]
    BY <1>2, <2>1, FromIs
  <2>3. QED
    BY <1>2, <2>2
<1> HIDE DEF w
<1>5. PICK d \in Nat : d = a - c /\ d + b = a + b - c
  <2>1. a - c \in Nat /\ (a - c) + b = a + b - c
    BY <1>1
  <2>2. QED
    BY <2>1
<1>6. /\ v \o y \in Seq(T) /\ Len(v \o y) = d + b
      /\ \A i \in 1 .. d + b : (v \o y)[i] = IF i <= d THEN v[i] ELSE y[i - d]
  <2>1. Len(v) = d /\ Len(y) = b
    BY <1>1, <1>3, <1>5
  <2>2. /\ v \o y \in Seq(T) /\ Len(v \o y) = Len(v) + Len(y)
        /\ \A i \in 1 .. Len(v) + Len(y) : (v \o y)[i] = IF i <= Len(v) THEN v[i] ELSE y[i - Len(v)]
    BY <1>3, ConcatProperties
  <2>3. QED
    BY <2>1, <2>2
<1>7. ASSUME NEW i \in 1 .. d + b PROVE w[i] = (v \o y)[i]
  <2>1. w[i] = z[c + i] /\ c + i \in 1 .. a + b
    BY <1>1, <1>4, <1>5
  <2>2. CASE i <= d
    <3>1. c + i <= a /\ i \in 1 .. a - c
      BY <1>5, <2>2
    <3>2. z[c + i] = x[c + i]
      BY <1>2, <2>1, <3>1
    <3>3. v[i] = x[c + i]
      BY <1>3, <3>1
    <3>4. (v \o y)[i] = v[i]
      BY <1>6, <2>2
    <3>5. QED
      BY <2>1, <3>2, <3>3, <3>4
  <2>3. CASE ~(i <= d)
    <3>1. ~(c + i <= a) /\ (c + i) - a = i - d
      BY <1>1, <1>5, <2>3
    <3>2. z[c + i] = y[(c + i) - a]
      BY <1>2, <2>1, <3>1
    <3>3. (v \o y)[i] = y[i - d]
      BY <1>6, <2>3
    <3>4. QED
      BY <2>1, <3>1, <3>2, <3>3
  <2>4. QED
    BY <2>2, <2>3
<1>8. w = v \o y
  BY <1>4, <1>5, <1>6, <1>7, SeqEqual
<1>9. QED
  BY <1>8 DEF v, w, z

\* Without the first k lines an output is the lines that remain.
TailOf(o, k) == Output(From(o.lines, k + 1), o.ended)
TailFlat(f, n, k) == [i \in 0 .. n - k |-> From(f[k + i], Len(f[k]) + 1)]

LEMMA TailLines ==
  ASSUME NEW o, NEW n, NEW f, IsOutput(o, n, f), NEW k \in 0 .. n
  PROVE  IsOutput(TailOf(o, k), n - k, TailFlat(f, n, k))
<1> DEFINE g == TailFlat(f, n, k)
           t == From(o.lines, k + 1)
<1>1. /\ n \in Nat /\ f \in [0 .. n -> Seq(Chars)] /\ IsFlat(f, Ends(o.lines), n, Chars)
      /\ o.lines \in Seq(Seq(STRING)) /\ Len(o.lines) = n /\ o.ended \in BOOLEAN
      /\ \A i \in 1 .. n : \A j \in 1 .. Len(o.lines[i]) : o.lines[i][j] # LF
  BY DEF IsOutput, IsFlat
<1>2. PICK h \in Nat : h = n - k /\ \A i \in 0 .. h : k + i \in 0 .. n
  <2>1. n - k \in Nat /\ \A i \in 0 .. n - k : k + i \in 0 .. n
    BY <1>1
  <2>2. QED
    BY <2>1
<1>3. t \in Seq(Seq(STRING)) /\ Len(t) = h /\ \A i \in 1 .. h : t[i] = o.lines[k + i]
  <2>1. k \in 0 .. Len(o.lines)
    BY <1>1
  <2>2. QED
    BY <1>1, <1>2, <2>1, FromIs
<1> HIDE DEF t
<1>4. PICK c \in Nat : c = Len(f[k])
  BY <1>1
<1>5. \A i \in 0 .. h : c \in 0 .. Len(f[k + i])
  <2> SUFFICES ASSUME NEW i \in 0 .. h PROVE c \in 0 .. Len(f[k + i])
    OBVIOUS
  <2>1. k + i \in 0 .. n /\ k \in 0 .. k + i
    BY <1>2
  <2>2. Begins(f, k, k + i)
    BY <1>1, <2>1, FlatPrefixes
  <2>3. Len(f[k + i]) \in Nat
    BY <1>1, <2>1
  <2>4. QED
    BY <1>4, <2>2, <2>3 DEF Begins
<1>6. \A i \in 0 .. h : g[i] = From(f[k + i], c + 1)
  BY <1>2, <1>4 DEF TailFlat
<1>7. g \in [0 .. h -> Seq(Chars)]
  <2>1. \A i \in 0 .. h : From(f[k + i], c + 1) \in Seq(Chars)
    <3> SUFFICES ASSUME NEW i \in 0 .. h PROVE From(f[k + i], c + 1) \in Seq(Chars)
      OBVIOUS
    <3>1. f[k + i] \in Seq(Chars) /\ c \in 0 .. Len(f[k + i])
      BY <1>1, <1>2, <1>5
    <3>2. QED
      BY <3>1, FromIs
  <2>2. g = [i \in 0 .. h |-> From(f[k + i], c + 1)]
    BY <1>2, <1>4 DEF TailFlat
  <2> HIDE DEF g
  <2>3. QED
    BY <2>1, <2>2
<1> HIDE DEF g
<1>8. g[0] = <<>>
  <2>1. 0 \in 0 .. h /\ k + 0 = k
    BY <1>2
  <2>2. g[0] = From(f[k], c + 1)
    BY <1>6, <2>1
  <2>3. QED
    <3>1. f[k] \in Seq(Chars) /\ c \in 0 .. Len(f[k])
      BY <1>1, <1>4
    <3>2. From(f[k], c + 1) \in Seq(Chars) /\ Len(From(f[k], c + 1)) = Len(f[k]) - c
      BY <3>1, FromIs
    <3>3. Len(f[k]) - c = 0
      BY <1>4
    <3>4. QED
      BY <2>2, <3>2, <3>3, EmptySeq
<1>9. Len(Ends(t)) = h /\ \A i \in 1 .. h : Ends(t)[i] \in Seq(Chars) /\ Ends(t)[i] = Append(t[i], LF)
  BY <1>3, EndsAre
<1>10. ASSUME NEW i \in 1 .. h PROVE g[i] = g[i - 1] \o Ends(t)[i]
  <2>1. /\ i \in 0 .. h /\ i - 1 \in 0 .. h /\ k + i \in 1 .. n /\ k + i - 1 \in 0 .. n
        /\ (k + i) - 1 = k + (i - 1)
    BY <1>2
  <2>2. f[k + i] = f[k + (i - 1)] \o Ends(o.lines)[k + i]
    BY <1>1, <2>1 DEF IsFlat
  <2>3. Ends(o.lines)[k + i] = Ends(t)[i]
    <3>1. Ends(o.lines)[k + i] = Append(o.lines[k + i], LF)
      BY <1>1, <2>1, EndsAre
    <3>2. QED
      BY <1>3, <1>9, <3>1
  <2>4. f[k + (i - 1)] \in Seq(Chars) /\ Ends(t)[i] \in Seq(Chars) /\ c \in 0 .. Len(f[k + (i - 1)])
    BY <1>1, <1>2, <1>5, <1>9, <2>1
  <2>5. From(f[k + (i - 1)] \o Ends(t)[i], c + 1) = From(f[k + (i - 1)], c + 1) \o Ends(t)[i]
    BY <2>4, FromConcat
  <2>6. g[i] = From(f[k + i], c + 1) /\ g[i - 1] = From(f[k + (i - 1)], c + 1)
    BY <1>6, <2>1
  <2>7. QED
    BY <2>2, <2>3, <2>5, <2>6
<1>11. IsFlat(g, Ends(t), h, Chars)
  BY <1>7, <1>8, <1>9, <1>10 DEF IsFlat
<1>12. \A i \in 1 .. h : \A j \in 1 .. Len(t[i]) : t[i][j] # LF
  <2> SUFFICES ASSUME NEW i \in 1 .. h, NEW j \in 1 .. Len(t[i]) PROVE t[i][j] # LF
    OBVIOUS
  <2>1. k + i \in 1 .. n /\ t[i] = o.lines[k + i]
    BY <1>2, <1>3
  <2>2. QED
    BY <1>1, <2>1
<1>13. TailOf(o, k).lines = t /\ TailOf(o, k).ended = o.ended
  BY DEF TailOf, Output, t
<1>14. IsOutput(TailOf(o, k), h, g)
  BY <1>1, <1>3, <1>11, <1>12, <1>13 DEF IsOutput
<1>15. QED
  BY <1>2, <1>14 DEF g

LEMMA TailText ==
  ASSUME NEW o, NEW n, NEW f, IsOutput(o, n, f), NEW k \in 0 .. n
  PROVE  TextOf(TailOf(o, k)) = RestAt(o, f, k)
<1> DEFINE p == TailOf(o, k)
           g == TailFlat(f, n, k)
           r == RestAt(o, f, k)
           t == TextOf(p)
<1>1. n \in Nat /\ n - k \in Nat /\ o.ended \in BOOLEAN /\ p.ended = o.ended
  <2>1. n \in Nat /\ o.ended \in BOOLEAN
    BY DEF IsOutput
  <2>2. QED
    BY <2>1 DEF TailOf, Output
<1>2. PICK m \in Nat : m = Len(f[n]) /\ f[n] \in Seq(Chars)
  <2>1. f[n] \in Seq(Chars)
    BY LinesAre
  <2>2. QED
    BY <2>1
<1>3. PICK c \in 0 .. m : c = Len(f[k])
  BY <1>2, LinesAre
<1>4. (k = n => c = m) /\ (k < n => c < m) /\ (k = 0 => c = 0)
  <2>1. k < n => c < m
    <3>1. ASSUME k < n PROVE c < m
      <4>1. PICK L \in Seq(STRING), d \in Nat, b \in Nat, l \in Nat : NextLine(o, n, f, k, L, d, b, l)
        BY <3>1, LineNext
      <4>2. d = c /\ l = m /\ d + b + 1 <= l
        BY <1>2, <1>3, <4>1 DEF NextLine
      <4>3. QED
        BY <4>2
    <3>2. QED
      BY <3>1
  <2>2. k = 0 => c = 0
    BY <1>3, LinesAre
  <2>3. QED
    BY <1>2, <1>3, <2>1, <2>2
<1>5. g[n - k] \in Seq(Chars) /\ Len(g[n - k]) = m - c /\ \A i \in 1 .. m - c : g[n - k][i] = f[n][c + i]
  <2>1. n - k \in 0 .. n - k /\ k + (n - k) = n
    BY <1>1
  <2>2. g[n - k] = From(f[n], c + 1)
    BY <1>3, <2>1 DEF TailFlat
  <2>3. c \in 0 .. Len(f[n])
    BY <1>2
  <2> HIDE DEF g
  <2>4. QED
    BY <1>2, <2>2, <2>3, FromIs
<1>6. IsOutput(p, n - k, g)
  BY TailLines
<1> HIDE DEF p, g
<1>7. PICK z \in Nat : z = IF o.ended \/ n - k = 0 THEN m - c ELSE (m - c) - 1
  <2>1. CASE o.ended \/ n - k = 0
    <3>1. m - c \in Nat
      BY <1>3
    <3>2. QED
      BY <2>1, <3>1
  <2>2. CASE ~(o.ended \/ n - k = 0)
    <3>1. k < n
      BY <1>1, <2>2
    <3>2. (m - c) - 1 \in Nat
      BY <1>3, <1>4, <3>1
    <3>3. QED
      BY <2>2, <3>2
  <2>3. QED
    BY <2>1, <2>2
<1>8. Size(p, n - k, g) = z
  BY <1>1, <1>5, <1>7 DEF Size
<1>9. t \in Seq(Chars) /\ Len(t) = z /\ \A i \in 1 .. z : t[i] = g[n - k][i]
  BY <1>6, <1>8, TextIs
<1>10. PICK s \in Nat : s = Size(o, n, f) /\ s = IF o.ended \/ n = 0 THEN m ELSE m - 1
  <2>1. PICK l \in Nat, e \in Nat :
          /\ n \in Nat /\ l = Len(f[n]) /\ e <= l /\ e = Size(o, n, f) /\ (n = 0 <=> l = 0)
          /\ e = IF o.ended \/ n = 0 THEN l ELSE l - 1
    BY SizeIs
  <2>2. l = m /\ e \in Nat
    BY <1>2, <2>1
  <2>3. QED
    BY <2>1, <2>2
<1>11. RestPlaces(o, n, f, k, r)
  BY RestIs
<1> HIDE DEF r, t
<1>12. CASE c <= s
  <2>1. s - c = z
    <3>1. CASE o.ended
      BY <1>7, <1>10, <3>1
    <3>2. CASE ~o.ended /\ k = n /\ n = 0
      BY <1>1, <1>7, <1>10, <3>2
    <3>3. CASE ~o.ended /\ k = n /\ n # 0
      <4>1. c = m /\ s = m - 1
        BY <1>4, <1>10, <3>3
      <4>2. QED
        BY <1>12, <4>1
    <3>4. CASE ~o.ended /\ k < n
      <4>1. n - k # 0 /\ n # 0
        BY <1>1, <3>4
      <4>2. z = (m - c) - 1 /\ s = m - 1
        BY <1>7, <1>10, <3>4, <4>1
      <4>3. QED
        BY <4>2
    <3>5. k = n \/ k < n
      BY <1>1
    <3>6. QED
      BY <3>1, <3>2, <3>3, <3>4, <3>5
  <2>2. r \in Seq(Chars) /\ Len(r) = z /\ \A i \in 1 .. z : r[i] = f[n][c + i]
    BY <1>3, <1>10, <1>11, <1>12, <2>1 DEF RestPlaces
  <2>3. \A i \in 1 .. z : i \in 1 .. m - c
    BY <1>3, <1>7
  <2>4. \A i \in 1 .. z : r[i] = t[i]
    BY <1>5, <1>9, <2>2, <2>3
  <2>5. r = t
    BY <1>9, <2>2, <2>4, SeqEqual
  <2>6. QED
    BY <2>5 DEF r, t, p
<1>13. CASE ~(c <= s)
  <2>1. z = 0
    BY <1>1, <1>3, <1>4, <1>7, <1>10, <1>13
  <2>2. r = <<>>
    BY <1>3, <1>10, <1>11, <1>13 DEF RestPlaces
  <2>3. t = <<>>
    BY <1>9, <2>1, EmptySeq
  <2>4. QED
    BY <2>2, <2>3 DEF r, t, p
<1>14. QED
  BY <1>12, <1>13

\* And without more lines than there are, nothing.
LEMMA NoTail ==
  ASSUME NEW o, NEW n, NEW f, IsOutput(o, n, f)
  PROVE  TextOf(TailOf(o, n)) = <<>> /\ TextOf(TailOf(o, n + 1)) = <<>>
<1>1. n \in Nat /\ Len(o.lines) = n /\ n \in 0 .. n
  BY DEF IsOutput
<1>2. TextOf(TailOf(o, n)) = <<>>
  BY <1>1, TailText, RestEnds
<1>3. From(o.lines, n + 1) = <<>> /\ From(o.lines, (n + 1) + 1) = <<>>
  BY <1>1, SubSeqEmpty DEF From
<1>4. TailOf(o, n + 1) = TailOf(o, n)
  BY <1>3 DEF TailOf
<1>5. QED
  BY <1>2, <1>4

-----------------------------------------------------------------------------
(* Letters, blanks and words                                                 *)

LowerOf(c) == IF c \in DOMAIN Lower THEN Lower[c] ELSE c

LEMMA LowerKeeps ==
  ASSUME NEW c
  PROVE  /\ IsBlank(LowerOf(c)) <=> IsBlank(c)
         /\ LowerOf(c) = ":" <=> c = ":"
         /\ LowerOf(c) = Comment <=> c = Comment
         /\ c \in STRING => LowerOf(c) \in STRING
BY LowerAssumption DEF LowerOf, IsBlank

LEMMA LowerIs ==
  ASSUME NEW s \in Seq(STRING)
  PROVE  /\ StrToLower(s) \in Seq(STRING) /\ Len(StrToLower(s)) = Len(s)
         /\ \A i \in 1 .. Len(s) : StrToLower(s)[i] = LowerOf(s[i])
<1>1. PICK n \in Nat : n = Len(s) /\ \A i \in 1 .. n : s[i] \in STRING
  OBVIOUS
<1>2. StrToLower(s) = [i \in 1 .. n |-> LowerOf(s[i])]
  BY <1>1 DEF StrToLower, LowerOf
<1>3. \A i \in 1 .. n : LowerOf(s[i]) \in STRING
  BY <1>1, LowerKeeps
<1>4. StrToLower(s) \in [1 .. n -> STRING]
  BY <1>2, <1>3
<1>5. QED
  BY <1>1, <1>2, <1>4, FunctionIsSeq

LEMMA FindLike ==
  ASSUME NEW s, NEW t, NEW x, NEW y, NEW n \in Nat, Len(s) = n, Len(t) = n,
         \A i \in 1 .. n : s[i] = x <=> t[i] = y
  PROVE  Find(s, x) = Find(t, y)
<1>1. {i \in 1 .. n : s[i] = x} = {i \in 1 .. n : t[i] = y}
  OBVIOUS
<1>2. QED
  BY <1>1 DEF Find, SelectInSeq

\* A text is found where its first character is.
LEMMA FindPlace ==
  ASSUME NEW T, NEW s \in Seq(T), NEW c, NEW p \in 1 .. Len(s), s[p] = c,
         \A i \in 1 .. p - 1 : s[i] # c
  PROVE  Find(s, c) = p
<1>1. PICK n \in Nat : n = Len(s)
  BY LenIsNat
<1>2. /\ Find(s, c) \in 0 .. n
      /\ Find(s, c) = 0 => \A i \in 1 .. n : s[i] # c
      /\ Find(s, c) # 0 => s[Find(s, c)] = c /\ \A i \in 1 .. Find(s, c) - 1 : s[i] # c
  BY <1>1, FindIs
<1>3. PICK x \in 0 .. n : x = Find(s, c)
  BY <1>2
<1>4. x # 0 /\ s[x] = c /\ \A i \in 1 .. x - 1 : s[i] # c
  BY <1>1, <1>2, <1>3
<1>5. ~(x < p)
  BY <1>4, <1>3
<1>6. ~(p < x)
  BY <1>4, <1>3
<1>7. QED
  BY <1>1, <1>3, <1>5, <1>6

\* w is s from the a-th character on without that, as long as m, and what is
\* left out are blanks.
Trimmed(s, w, a, m) ==
  /\ a + m <= Len(s)
  /\ w \in Seq(STRING) /\ Len(w) = m
  /\ \A i \in 1 .. m : w[i] = s[a + i]
  /\ \A i \in (1 .. a) \cup (a + m + 1 .. Len(s)) : IsBlank(s[i])
  /\ m # 0 => ~IsBlank(s[a + 1]) /\ ~IsBlank(s[a + m])

LEMMA TrimPlaces ==
  ASSUME NEW s \in Seq(STRING)
  PROVE  \E a, m \in Nat : Trimmed(s, TrimF(s), a, m)
BY TrimPlacesOf DEF Trimmed, TrimmedOf

\* The line that parse_headers() looks at.
LineOf(L) == StrToLower(TrimF(L))

LEMMA BlanksAre ==
  ASSUME NEW L \in Seq(STRING)
  PROVE  /\ TrimF(L) \in Seq(STRING) /\ LineOf(L) \in Seq(STRING)
         /\ Len(LineOf(L)) = Len(TrimF(L)) /\ Len(LineOf(L)) <= Len(L)
         /\ Blanks(L) <=> LineOf(L) = <<>>
<1>1. PICK n \in Nat : n = Len(L)
  BY LenIsNat
<1>2. PICK a \in Nat, m \in Nat : Trimmed(L, TrimF(L), a, m)
  BY TrimPlaces
<1>3. TrimF(L) \in Seq(STRING) /\ Len(TrimF(L)) = m /\ a + m <= n
  BY <1>1, <1>2 DEF Trimmed
<1>4. LineOf(L) \in Seq(STRING) /\ Len(LineOf(L)) = m
  BY <1>3, LowerIs DEF LineOf
<1>5. LineOf(L) = <<>> <=> m = 0
  BY <1>4, EmptySeq
<1>6. m = 0 => \A i \in 1 .. n : IsBlank(L[i])
  <2>1. ASSUME m = 0, NEW i \in 1 .. n PROVE IsBlank(L[i])
    <3>1. i \in (1 .. a) \cup (a + m + 1 .. n)
      BY <2>1
    <3>2. QED
      BY <1>1, <1>2, <3>1 DEF Trimmed
  <2>2. QED
    BY <2>1
<1>7. m # 0 => ~IsBlank(L[a + 1]) /\ a + 1 \in 1 .. n
  BY <1>2, <1>3 DEF Trimmed
<1>8. Blanks(L) <=> m = 0
  BY <1>1, <1>6, <1>7 DEF Blanks
<1>9. QED
  BY <1>1, <1>3, <1>4, <1>5, <1>8

LEMMA ColonIs ==
  ASSUME NEW L \in Seq(STRING)
  PROVE  /\ Find(LineOf(L), ":") = Find(TrimF(L), ":")
         /\ Holds(L, ":") <=> Holds(LineOf(L), ":")
<1>1. PICK w \in Seq(STRING) : w = TrimF(L)
  BY BlanksAre
<1>2. PICK n \in Nat, m \in Nat : n = Len(L) /\ m = Len(w)
  OBVIOUS
<1>3. LineOf(L) = StrToLower(w)
  BY <1>1 DEF LineOf
<1>4. Find(StrToLower(w), ":") = Find(w, ":")
  <2>1. /\ StrToLower(w) \in Seq(STRING) /\ Len(StrToLower(w)) = m
        /\ \A i \in 1 .. m : StrToLower(w)[i] = LowerOf(w[i])
    BY <1>2, LowerIs
  <2>2. \A i \in 1 .. m : StrToLower(w)[i] = ":" <=> w[i] = ":"
    BY <2>1, LowerKeeps
  <2>3. QED
    BY <1>2, <2>1, <2>2, FindLike
<1>5. PICK a \in Nat, d \in Nat : Trimmed(L, w, a, d)
  BY <1>1, TrimPlaces
<1>6. d = m /\ a + m <= n /\ \A i \in 1 .. m : w[i] = L[a + i]
  BY <1>2, <1>5 DEF Trimmed
<1>7. /\ Find(w, ":") \in 0 .. m
      /\ Find(w, ":") = 0 => \A i \in 1 .. m : w[i] # ":"
      /\ Find(w, ":") # 0 => w[Find(w, ":")] = ":"
  BY <1>2, FindIs
<1>8. /\ Find(L, ":") \in 0 .. n
      /\ Find(L, ":") = 0 => \A i \in 1 .. n : L[i] # ":"
      /\ Find(L, ":") # 0 => L[Find(L, ":")] = ":"
  BY <1>2, FindIs
<1>9. Find(w, ":") # 0 => Find(L, ":") # 0
  <2>1. SUFFICES ASSUME Find(w, ":") # 0, Find(L, ":") = 0 PROVE FALSE
    OBVIOUS
  <2>2. PICK p \in 1 .. m : p = Find(w, ":") /\ w[p] = ":"
    BY <1>7, <2>1
  <2>3. a + p \in 1 .. n /\ L[a + p] = ":"
    BY <1>6, <2>2
  <2>4. QED
    BY <1>8, <2>1, <2>3
<1>10. Find(L, ":") # 0 => Find(w, ":") # 0
  <2>1. SUFFICES ASSUME Find(L, ":") # 0, Find(w, ":") = 0 PROVE FALSE
    OBVIOUS
  <2>2. PICK p \in 1 .. n : p = Find(L, ":") /\ L[p] = ":"
    BY <1>8, <2>1
  <2>3. ~IsBlank(":")
    BY DEF IsBlank, Blank, CR, LF, SP
  <2>4. p \notin (1 .. a) \cup (a + m + 1 .. n)
    <3>1. \A i \in (1 .. a) \cup (a + m + 1 .. n) : IsBlank(L[i])
      BY <1>2, <1>5, <1>6 DEF Trimmed
    <3>2. QED
      BY <2>2, <2>3, <3>1
  <2>5. p - a \in 1 .. m /\ a + (p - a) = p
    BY <2>4
  <2>6. w[p - a] = ":"
    BY <1>6, <2>2, <2>5
  <2>7. QED
    BY <1>7, <2>1, <2>5, <2>6
<1>11. QED
  BY <1>1, <1>3, <1>4, <1>9, <1>10 DEF Holds

\* The places that stay, one by one.
LEMMA StayCount ==
  ASSUME NEW s, NEW n \in Nat
  PROVE  /\ Cardinality(StayUpto(s, n)) \in Nat
         /\ Stays(s, n + 1) => Cardinality(StayUpto(s, n + 1)) = Cardinality(StayUpto(s, n)) + 1
         /\ ~Stays(s, n + 1) => StayUpto(s, n + 1) = StayUpto(s, n)
<1>1. \A k \in Nat : IsFiniteSet(StayUpto(s, k))
  <2> SUFFICES ASSUME NEW k \in Nat PROVE IsFiniteSet(StayUpto(s, k))
    OBVIOUS
  <2>1. IsFiniteSet(1 .. k)
    BY FS_Interval
  <2>2. StayUpto(s, k) \subseteq 1 .. k
    BY DEF StayUpto
  <2>3. QED
    BY <2>1, <2>2, FS_Subset
<1>2. IsFiniteSet(StayUpto(s, n))
  BY <1>1
<1>3. Cardinality(StayUpto(s, n)) \in Nat
  BY <1>2, FS_CardinalityType
<1>4. 1 .. n + 1 = (1 .. n) \cup {n + 1} /\ n + 1 \notin 1 .. n
  OBVIOUS
<1>5. Stays(s, n + 1) => StayUpto(s, n + 1) = StayUpto(s, n) \cup {n + 1} /\ n + 1 \notin StayUpto(s, n)
  BY <1>4 DEF StayUpto
<1>6. ~Stays(s, n + 1) => StayUpto(s, n + 1) = StayUpto(s, n)
  BY <1>4 DEF StayUpto
<1>7. Cardinality(StayUpto(s, n) \cup {n + 1}) =
        IF n + 1 \in StayUpto(s, n) THEN Cardinality(StayUpto(s, n)) ELSE Cardinality(StayUpto(s, n)) + 1
  BY <1>2, FS_AddElement
<1>8. QED
  BY <1>3, <1>5, <1>6, <1>7

\* Where only blanks are, nothing stays.
LEMMA NoneStays ==
  ASSUME NEW s, NEW a \in Nat, NEW m \in Nat, a + m <= Len(s), Len(s) \in Nat,
         \A i \in (1 .. a) \cup (a + m + 1 .. Len(s)) : IsBlank(s[i])
  PROVE  /\ StayUpto(s, a) = {} /\ Cardinality(StayUpto(s, a)) = 0
         /\ StayUpto(s, Len(s)) = StayUpto(s, a + m)
<1>1. PICK n \in Nat : n = Len(s)
  BY LenIsNat
<1>2. \A i \in 1 .. a : ~Stays(s, i)
  <2> SUFFICES ASSUME NEW i \in 1 .. a PROVE ~Stays(s, i)
    OBVIOUS
  <2>1. IsBlank(s[i])
    OBVIOUS
  <2>2. i > 1 => i - 1 \in 1 .. a
    OBVIOUS
  <2>3. i > 1 => IsBlank(s[i - 1])
    BY <2>2
  <2>4. QED
    BY <2>1, <2>3 DEF Stays
<1>3. StayUpto(s, a) = {}
  BY <1>2 DEF StayUpto
<1>4. \A i \in a + m + 1 .. n : ~Stays(s, i)
  <2> SUFFICES ASSUME NEW i \in a + m + 1 .. n PROVE ~Stays(s, i)
    OBVIOUS
  <2>1. IsBlank(s[i])
    BY <1>1
  <2>2. \A j \in i + 1 .. n : j \in a + m + 1 .. n
    OBVIOUS
  <2>3. \A j \in i + 1 .. n : IsBlank(s[j])
    BY <1>1, <2>2
  <2>4. QED
    BY <1>1, <2>1, <2>3 DEF Stays
<1>5. StayUpto(s, n) = StayUpto(s, a + m)
  <2>1. a + m <= n
    BY <1>1
  <2>2. ASSUME NEW i \in 1 .. n, Stays(s, i) PROVE i \in 1 .. a + m
    <3>1. i \notin a + m + 1 .. n
      BY <1>4, <2>2
    <3>2. QED
      BY <2>1, <3>1
  <2>3. 1 .. a + m \subseteq 1 .. n
    BY <2>1
  <2>4. QED
    BY <2>2, <2>3 DEF StayUpto
<1>6. QED
  BY <1>1, <1>3, <1>5, FS_EmptySet

LEMMA BlanksReplaced ==
  ASSUME NEW w \in Seq(STRING)
  PROVE  /\ ReplaceF(w) \in Seq(Chars) /\ Len(ReplaceF(w)) = Len(w)
         /\ \A i \in 1 .. Len(w) : ReplaceF(w)[i] = IF IsBlank(w[i]) THEN SP ELSE w[i]
         /\ \A i \in 1 .. Len(w) : IsBlank(ReplaceF(w)[i]) <=> IsBlank(w[i])
<1>1. w \in Seq(Chars)
  BY SeqMonotonic DEF Chars
<1>2. QED
  BY <1>1, ReplacedIs

\* So far the words of s are in t.
WordsUpto(s, n, t) ==
  /\ Len(t) = Cardinality(StayUpto(s, n))
  /\ \A j \in StayUpto(s, n) :
       /\ Cardinality(StayUpto(s, j)) \in 1 .. Len(t)
       /\ t[Cardinality(StayUpto(s, j))] = IF IsBlank(s[j]) THEN SP ELSE s[j]

LEMMA WordAdded ==
  ASSUME NEW s, NEW n \in Nat, NEW t \in Seq(Chars), WordsUpto(s, n, t), Stays(s, n + 1),
         NEW c \in Chars, c = IF IsBlank(s[n + 1]) THEN SP ELSE s[n + 1]
  PROVE  WordsUpto(s, n + 1, Append(t, c))
<1>1. PICK l \in Nat : l = Len(t)
  BY LenIsNat
<1>2. Cardinality(StayUpto(s, n)) = l
  BY <1>1 DEF WordsUpto
<1>3. Cardinality(StayUpto(s, n + 1)) = l + 1
  BY <1>2, StayCount
<1>4. PICK u \in Seq(Chars) : u = Append(t, c) /\ Len(u) = l + 1 /\ u[l + 1] = c /\ \A i \in 1 .. l : u[i] = t[i]
  <2>1. /\ Append(t, c) \in Seq(Chars) /\ Len(Append(t, c)) = Len(t) + 1
        /\ Append(t, c)[Len(t) + 1] = c /\ \A i \in 1 .. Len(t) : Append(t, c)[i] = t[i]
    BY AppendProperties
  <2>2. QED
    BY <1>1, <2>1
<1>5. StayUpto(s, n + 1) \subseteq StayUpto(s, n) \cup {n + 1}
  BY DEF StayUpto
<1>6. ASSUME NEW j \in StayUpto(s, n)
      PROVE  /\ Cardinality(StayUpto(s, j)) \in 1 .. l + 1
             /\ u[Cardinality(StayUpto(s, j))] = IF IsBlank(s[j]) THEN SP ELSE s[j]
  <2>1. PICK x \in 1 .. l : x = Cardinality(StayUpto(s, j)) /\ t[x] = IF IsBlank(s[j]) THEN SP ELSE s[j]
    BY <1>1, <1>6 DEF WordsUpto
  <2>2. x \in 1 .. l + 1 /\ u[x] = t[x]
    BY <1>4
  <2>3. QED
    BY <2>1, <2>2
<1>7. l + 1 \in 1 .. l + 1
  OBVIOUS
<1>8. \A j \in StayUpto(s, n + 1) :
        /\ Cardinality(StayUpto(s, j)) \in 1 .. l + 1
        /\ u[Cardinality(StayUpto(s, j))] = IF IsBlank(s[j]) THEN SP ELSE s[j]
  <2> SUFFICES ASSUME NEW j \in StayUpto(s, n + 1)
               PROVE  /\ Cardinality(StayUpto(s, j)) \in 1 .. l + 1
                      /\ u[Cardinality(StayUpto(s, j))] = IF IsBlank(s[j]) THEN SP ELSE s[j]
    OBVIOUS
  <2>1. CASE j \in StayUpto(s, n)
    BY <1>6, <2>1
  <2>2. CASE j = n + 1
    BY <1>3, <1>4, <1>7, <2>2
  <2>3. QED
    BY <1>5, <2>1, <2>2
<1>9. QED
  BY <1>3, <1>4, <1>8 DEF WordsUpto

\* DelMultiplSp() keeps the words of a text of which the ends are trimmed.
LEMMA WordsKept ==
  ASSUME NEW s \in Seq(STRING), NEW w, NEW a \in Nat, NEW m \in Nat, Trimmed(s, w, a, m)
  PROVE  SameWords(s, DelMultiplSp(ReplaceF(w)))
<1>1. PICK n \in Nat : n = Len(s)
  BY LenIsNat
<1>2. /\ a + m <= n /\ w \in Seq(STRING) /\ Len(w) = m
      /\ \A i \in 1 .. m : w[i] = s[a + i]
      /\ \A i \in (1 .. a) \cup (a + m + 1 .. n) : IsBlank(s[i])
      /\ m # 0 => ~IsBlank(s[a + 1]) /\ ~IsBlank(s[a + m])
  BY <1>1 DEF Trimmed
<1>3. PICK v \in Seq(Chars) :
        /\ v = ReplaceF(w) /\ Len(v) = m
        /\ \A i \in 1 .. m : v[i] = IF IsBlank(w[i]) THEN SP ELSE w[i]
        /\ \A i \in 1 .. m : IsBlank(v[i]) <=> IsBlank(w[i])
  BY <1>2, BlanksReplaced
<1>4. PICK g : Adds(g, v, m) /\ DelMultiplSp(v) = g[m]
  BY <1>3, AddsAre
<1>5. /\ g \in [0 .. m -> Seq(Chars)] /\ g[0] = <<>>
      /\ \A i \in 1 .. m : g[i] = AddChar(g[i - 1], v[i])
  BY <1>4 DEF Adds
<1>6. /\ StayUpto(s, a) = {} /\ Cardinality(StayUpto(s, a)) = 0
      /\ StayUpto(s, n) = StayUpto(s, a + m)
  BY <1>1, <1>2, NoneStays
<1> DEFINE LastLike(i) == Len(g[i]) # 0 /\ (IsBlank(g[i][Len(g[i])]) <=> IsBlank(s[a + i]))
           P == {i \in 0 .. m : WordsUpto(s, a + i, g[i]) /\ (i # 0 => LastLike(i))}
<1>7. 0 \in P
  <2>1. a + 0 = a /\ Len(<<>>) = 0 /\ 0 \in 0 .. m
    OBVIOUS
  <2>2. WordsUpto(s, a, <<>>)
    BY <1>6, <2>1 DEF WordsUpto
  <2>3. QED
    BY <1>5, <2>1, <2>2
<1>8. ASSUME NEW i \in 1 .. m, i - 1 \in P PROVE i \in P
  <2>1. PICK k \in Nat : k = a + (i - 1) /\ k + 1 = a + i /\ i - 1 \in 0 .. m /\ i \in 0 .. m /\ k + 1 <= n
    <3>1. a + (i - 1) \in Nat /\ (a + (i - 1)) + 1 = a + i /\ i - 1 \in 0 .. m /\ i \in 0 .. m /\ a + i <= n
      BY <1>2
    <3>2. QED
      BY <3>1
  <2>2. PICK t \in Seq(Chars) : t = g[i - 1]
    BY <1>5, <2>1
  <2>3. PICK l \in Nat : l = Len(t)
    BY LenIsNat
  <2>4. WordsUpto(s, k, t) /\ (i # 1 => l # 0 /\ (IsBlank(t[l]) <=> IsBlank(s[k])))
    <3>1. i # 1 => i - 1 # 0
      OBVIOUS
    <3>2. QED
      BY <1>8, <2>1, <2>2, <2>3, <3>1
  <2>5. PICK c \in Chars : /\ c = v[i] /\ (IsBlank(c) <=> IsBlank(s[k + 1]))
                           /\ c = IF IsBlank(s[k + 1]) THEN SP ELSE s[k + 1]
    <3>1. v[i] \in Chars
      BY <1>3, ElementOfSeq
    <3>2. w[i] = s[k + 1]
      BY <1>2, <2>1
    <3>3. QED
      BY <1>3, <3>1, <3>2
  <2>6. g[i] = AddChar(t, c)
    BY <1>5, <2>2, <2>5
  <2>7. /\ Append(t, c) \in Seq(Chars) /\ Len(Append(t, c)) = l + 1
        /\ Append(t, c)[l + 1] = c /\ l + 1 # 0
    BY <2>3, AppendProperties
  <2>8. ASSUME g[i] = Append(t, c), Stays(s, k + 1) PROVE i \in P
    <3>1. WordsUpto(s, k + 1, g[i])
      BY <2>4, <2>5, <2>8, WordAdded
    <3>2. LastLike(i)
      BY <2>1, <2>5, <2>7, <2>8
    <3>3. QED
      BY <2>1, <3>1, <3>2
  <2>9. CASE ~IsBlank(s[k + 1])
    <3>1. Stays(s, k + 1)
      BY <2>9 DEF Stays
    <3>2. g[i] = Append(t, c)
      BY <2>5, <2>6, <2>9 DEF AddChar
    <3>3. QED
      BY <2>8, <3>1, <3>2
  <2>10. CASE IsBlank(s[k + 1])
    <3>1. i # 1 /\ i # m
      BY <1>2, <2>1, <2>10
    <3>2. l # 0 /\ (IsBlank(t[l]) <=> IsBlank(s[k])) /\ t # <<>>
      BY <2>3, <2>4, <3>1, EmptySeq
    <3>3. k + 1 > 1 /\ (k + 1) - 1 = k
      BY <2>1, <3>1
    <3>4. a + m \in (k + 1) + 1 .. n /\ ~IsBlank(s[a + m])
      <4>1. a + m \in (k + 1) + 1 .. n
        BY <1>2, <2>1, <3>1
      <4>2. QED
        BY <1>2, <4>1
    <3>5. Stays(s, k + 1) <=> ~IsBlank(s[k])
      BY <1>1, <2>10, <3>3, <3>4 DEF Stays
    <3>6. CASE IsBlank(s[k])
      <4>1. g[i] = t
        BY <2>3, <2>5, <2>6, <2>10, <3>2, <3>6 DEF AddChar
      <4>2. StayUpto(s, k + 1) = StayUpto(s, k)
        BY <3>5, <3>6, StayCount
      <4>3. WordsUpto(s, k + 1, g[i])
        BY <2>4, <4>1, <4>2 DEF WordsUpto
      <4>4. LastLike(i)
        BY <2>1, <2>3, <2>10, <3>2, <3>6, <4>1
      <4>5. QED
        BY <2>1, <4>3, <4>4
    <3>7. CASE ~IsBlank(s[k])
      <4>1. g[i] = Append(t, c)
        BY <2>3, <2>6, <3>2, <3>7 DEF AddChar
      <4>2. QED
        BY <2>8, <3>5, <3>7, <4>1
    <3>8. QED
      BY <3>6, <3>7
  <2>11. QED
    BY <2>9, <2>10
<1>9. m \in P
  <2>1. \A i \in 0 .. m : i \in P
    <3> HIDE DEF P
    <3>1. QED
      BY <1>7, <1>8, Along
  <2>2. QED
    BY <2>1
<1>10. WordsUpto(s, n, g[m])
  <2>1. WordsUpto(s, a + m, g[m])
    BY <1>9
  <2>2. QED
    BY <1>6, <2>1 DEF WordsUpto
<1>11. SameWords(s, g[m])
  BY <1>1, <1>10 DEF WordsUpto, SameWords
<1>12. QED
  BY <1>3, <1>4, <1>11

LEMMA NormalizeIs ==
  ASSUME NEW x \in Seq(STRING), NEW y, y = TrimComments(x)
  PROVE  /\ y \in Seq(STRING)
         /\ \E a, m \in Nat : Trimmed(y, TrimF(y), a, m)
         /\ SameWords(y, Normalize(x))
         /\ Len(Normalize(x)) \in 0 .. Len(x)
<1>1. PICK c \in 0 .. Len(x) : y = Upto(x, c)
  BY CommentCut
<1>2. y \in Seq(STRING) /\ Len(y) = c
  BY <1>1, UptoIs
<1>3. PICK a \in Nat, m \in Nat : Trimmed(y, TrimF(y), a, m)
  BY <1>2, TrimPlaces
<1>4. Normalize(x) = DelMultiplSp(ReplaceF(TrimF(y)))
  BY DEF Normalize
<1>5. SameWords(y, Normalize(x))
  BY <1>2, <1>3, <1>4, WordsKept
<1>6. Len(Normalize(x)) = Cardinality(StayUpto(y, c))
  BY <1>2, <1>5 DEF SameWords
<1>7. Cardinality(StayUpto(y, c)) \in Nat /\ Cardinality(StayUpto(y, c)) <= c
  <2>1. c \in Nat /\ 1 \in Int
    OBVIOUS
  <2>2. IsFiniteSet(1 .. c) /\ Cardinality(1 .. c) = c
    BY <2>1, FS_Interval
  <2>3. StayUpto(y, c) \subseteq 1 .. c
    BY DEF StayUpto
  <2>4. Cardinality(StayUpto(y, c)) <= c
    BY <2>2, <2>3, FS_Subset
  <2>5. Cardinality(StayUpto(y, c)) \in Nat
    BY <2>1, StayCount
  <2>6. QED
    BY <2>4, <2>5
<1>8. Len(Normalize(x)) \in 0 .. Len(x)
  <2>1. PICK n \in Nat : n = Len(x)
    BY LenIsNat
  <2>2. QED
    BY <1>6, <1>7, <2>1
<1>9. QED
  BY <1>2, <1>3, <1>5, <1>8

\* t is s without its first character, which is a blank.
OneBlank(s, t) ==
  /\ s \in Seq(STRING) /\ t \in Seq(STRING)
  /\ Len(s) = Len(t) + 1 /\ IsBlank(s[1])
  /\ \A i \in 1 .. Len(t) : s[i + 1] = t[i]

LEMMA SameAfterBlank ==
  ASSUME NEW s, NEW t, OneBlank(s, t), NEW w, NEW a \in Nat, NEW m \in Nat, Trimmed(t, w, a, m)
  PROVE  Trimmed(s, w, a + 1, m)
<1>1. PICK n \in Nat : n = Len(t)
  BY DEF OneBlank
<1>2. Len(s) = n + 1 /\ IsBlank(s[1]) /\ \A i \in 1 .. n : s[i + 1] = t[i]
  BY <1>1 DEF OneBlank
<1>3. /\ a + m <= n /\ w \in Seq(STRING) /\ Len(w) = m
      /\ \A i \in 1 .. m : w[i] = t[a + i]
      /\ \A i \in (1 .. a) \cup (a + m + 1 .. n) : IsBlank(t[i])
      /\ m # 0 => ~IsBlank(t[a + 1]) /\ ~IsBlank(t[a + m])
  BY <1>1 DEF Trimmed
<1>4. \A i \in 1 .. m : w[i] = s[(a + 1) + i]
  <2> SUFFICES ASSUME NEW i \in 1 .. m PROVE w[i] = s[(a + 1) + i]
    OBVIOUS
  <2>1. a + i \in 1 .. n /\ (a + i) + 1 = (a + 1) + i
    BY <1>3
  <2>2. QED
    BY <1>2, <1>3, <2>1
<1>5. ASSUME NEW i \in (1 .. a + 1) \cup ((a + 1) + m + 1 .. n + 1) PROVE IsBlank(s[i])
  <2>1. CASE i = 1
    BY <1>2, <2>1
  <2>2. CASE i # 1
    <3>1. i - 1 \in (1 .. a) \cup (a + m + 1 .. n) /\ i - 1 \in 1 .. n /\ (i - 1) + 1 = i
      BY <1>3, <2>2
    <3>2. QED
      BY <1>2, <1>3, <3>1
  <2>3. QED
    BY <2>1, <2>2
<1>6. m # 0 => ~IsBlank(s[(a + 1) + 1]) /\ ~IsBlank(s[(a + 1) + m])
  <2> SUFFICES ASSUME m # 0 PROVE ~IsBlank(s[(a + 1) + 1]) /\ ~IsBlank(s[(a + 1) + m])
    OBVIOUS
  <2>1. a + 1 \in 1 .. n /\ a + m \in 1 .. n /\ (a + m) + 1 = (a + 1) + m
    BY <1>3
  <2>2. QED
    BY <1>2, <1>3, <2>1
<1>7. (a + 1) + m <= n + 1
  BY <1>3
<1>8. QED
  BY <1>2, <1>3, <1>4, <1>5, <1>6, <1>7 DEF Trimmed

\* What comes before a `#' in two texts, if the one is the other after a blank
\* and in small letters.
LEMMA CommentsAfterBlank ==
  ASSUME NEW s \in Seq(STRING), NEW t \in Seq(STRING), Len(s) = Len(t) + 1, IsBlank(s[1]),
         \A i \in 1 .. Len(t) : t[i] = LowerOf(s[i + 1])
  PROVE  OneBlank(StrToLower(TrimComments(s)), TrimComments(t))
<1>1. PICK n \in Nat : n = Len(t)
  BY LenIsNat
<1>2. PICK c \in Nat :
        /\ c <= n + 1 /\ TrimComments(s) = Upto(s, c)
        /\ \A i \in 1 .. c : s[i] # Comment
        /\ c < n + 1 => s[c + 1] = Comment
  <2>1. PICK c \in 0 .. n + 1 :
          /\ TrimComments(s) = Upto(s, c)
          /\ \A i \in 1 .. c : s[i] # Comment
          /\ c < n + 1 => s[c + 1] = Comment
    BY <1>1, CommentCut
  <2>2. c \in Nat /\ c <= n + 1
    OBVIOUS
  <2>3. QED
    BY <2>1, <2>2
<1>3. PICK d \in Nat :
        /\ d <= n /\ TrimComments(t) = Upto(t, d)
        /\ \A i \in 1 .. d : t[i] # Comment
        /\ d < n => t[d + 1] = Comment
  <2>1. PICK d \in 0 .. n :
          /\ TrimComments(t) = Upto(t, d)
          /\ \A i \in 1 .. d : t[i] # Comment
          /\ d < n => t[d + 1] = Comment
    BY <1>1, CommentCut
  <2>2. d \in Nat /\ d <= n
    OBVIOUS
  <2>3. QED
    BY <2>1, <2>2
<1>4. ~IsBlank(Comment)
  BY DEF Comment, IsBlank, Blank, CR, LF, SP
<1>5. \A i \in 1 .. n : t[i] = LowerOf(s[i + 1]) /\ (t[i] = Comment <=> s[i + 1] = Comment)
  <2>1. \A i \in 1 .. n : t[i] = LowerOf(s[i + 1])
    BY <1>1
  <2>2. QED
    BY <2>1, LowerKeeps
<1>6. c = d + 1
  <2>1. c # 0
    BY <1>2, <1>4
  <2>2. ~(c < d + 1)
    <3>1. SUFFICES ASSUME c < d + 1 PROVE FALSE
      OBVIOUS
    <3>2. c \in 1 .. d /\ c \in 1 .. n /\ c < n + 1
      BY <1>3, <2>1, <3>1
    <3>3. t[c] = Comment
      BY <1>2, <1>5, <3>2
    <3>4. QED
      BY <1>3, <3>2, <3>3
  <2>3. ~(d + 1 < c)
    <3>1. SUFFICES ASSUME d + 1 < c PROVE FALSE
      OBVIOUS
    <3>2. d < n /\ d + 1 \in 1 .. n /\ (d + 1) + 1 \in 1 .. c
      BY <1>2, <3>1
    <3>3. s[(d + 1) + 1] = Comment
      BY <1>3, <1>5, <3>2
    <3>4. QED
      BY <1>2, <3>2, <3>3
  <2>4. QED
    BY <2>2, <2>3
<1>7. PICK u \in Seq(STRING) : u = Upto(s, c) /\ Len(u) = c /\ \A i \in 1 .. c : u[i] = s[i]
  <2>1. c \in 0 .. Len(s)
    BY <1>1, <1>2
  <2>2. QED
    BY <2>1, UptoIs
<1>8. PICK y \in Seq(STRING) : y = Upto(t, d) /\ Len(y) = d /\ \A i \in 1 .. d : y[i] = t[i]
  <2>1. d \in 0 .. Len(t)
    BY <1>1, <1>3
  <2>2. QED
    BY <2>1, UptoIs
<1>9. PICK x \in Seq(STRING) : x = StrToLower(u) /\ Len(x) = c /\ \A i \in 1 .. c : x[i] = LowerOf(u[i])
  BY <1>7, LowerIs
<1>10. IsBlank(x[1])
  <2>1. 1 \in 1 .. c
    BY <1>6
  <2>2. x[1] = LowerOf(s[1])
    BY <1>7, <1>9, <2>1
  <2>3. QED
    BY <2>2, LowerKeeps
<1>11. \A i \in 1 .. d : x[i + 1] = y[i]
  <2> SUFFICES ASSUME NEW i \in 1 .. d PROVE x[i + 1] = y[i]
    OBVIOUS
  <2>1. i + 1 \in 1 .. c /\ i \in 1 .. n
    BY <1>3, <1>6
  <2>2. QED
    BY <1>5, <1>7, <1>8, <1>9, <2>1
<1>12. QED
  BY <1>2, <1>3, <1>6, <1>7, <1>8, <1>9, <1>10, <1>11 DEF OneBlank

\* A line with a colon, in the parts that parse_headers() makes of it.
LEMMA ColonLine ==
  ASSUME NEW L \in Seq(STRING), Holds(L, ":")
  PROVE  \E w \in Seq(STRING), l \in Seq(STRING), n \in Nat, p \in Nat :
           /\ w = TrimF(L) /\ l = LineOf(L) /\ n = Len(w) /\ n = Len(l) /\ n <= Len(L)
           /\ 1 <= p /\ p <= n /\ p = Find(w, ":") /\ p = Find(l, ":")
           /\ \A i \in 1 .. n : l[i] = LowerOf(w[i])
<1>1. PICK w \in Seq(STRING), l \in Seq(STRING) :
        w = TrimF(L) /\ l = LineOf(L) /\ Len(l) = Len(w) /\ Len(l) <= Len(L)
  BY BlanksAre
<1>2. PICK n \in Nat : n = Len(w)
  BY LenIsNat
<1>3. \A i \in 1 .. n : l[i] = LowerOf(w[i])
  BY <1>1, <1>2, LowerIs DEF LineOf
<1>4. Find(l, ":") = Find(w, ":") /\ Holds(l, ":")
  BY <1>1, ColonIs
<1>5. Find(w, ":") \in 0 .. n
  BY <1>2, FindIs
<1>6. PICK p \in Nat : p = Find(w, ":") /\ 1 <= p /\ p <= n
  BY <1>4, <1>5 DEF Holds
<1>7. QED
  BY <1>1, <1>2, <1>3, <1>4, <1>6

LEMMA LineParts ==
  ASSUME NEW L \in Seq(STRING), Holds(L, ":")
  PROVE  /\ HeaderName(L) = Upto(LineOf(L), Find(LineOf(L), ":") - 1)
         /\ Throws(LineOf(L)) <=> After(L) = <<>>
         /\ After(L) # <<>> => /\ Len(HeaderName(L)) \in Nat /\ Len(Value(LineOf(L))) \in Nat
                               /\ Len(HeaderName(L)) + Len(Value(LineOf(L))) < Len(L)
         /\ After(L) # <<>> /\ IsBlank(After(L)[1]) =>
              SameWords(StrToLower(TrimComments(After(L))), Value(LineOf(L)))
<1>1. PICK w \in Seq(STRING), l \in Seq(STRING), n \in Nat, p \in Nat :
        /\ w = TrimF(L) /\ l = LineOf(L) /\ n = Len(w) /\ n = Len(l) /\ n <= Len(L)
        /\ 1 <= p /\ p <= n /\ p = Find(w, ":") /\ p = Find(l, ":")
        /\ \A i \in 1 .. n : l[i] = LowerOf(w[i])
  BY ColonLine
<1>2. PICK q \in Nat : q = p - 1 /\ q <= n
  <2>1. p - 1 \in Nat /\ p - 1 <= n
    BY <1>1
  <2>2. QED
    BY <2>1
<1>3. PICK u \in Seq(STRING) : u = Upto(w, q) /\ Len(u) = q /\ \A i \in 1 .. q : u[i] = w[i]
  <2>1. q \in 0 .. Len(w)
    BY <1>1, <1>2
  <2>2. QED
    BY <2>1, UptoIs
<1>4. PICK v \in Seq(STRING) : v = Upto(l, q) /\ Len(v) = q /\ \A i \in 1 .. q : v[i] = l[i]
  <2>1. q \in 0 .. Len(l)
    BY <1>1, <1>2
  <2>2. QED
    BY <2>1, UptoIs
<1>5. HeaderName(L) = v
  <2>1. HeaderName(L) = StrToLower(u)
    BY <1>1, <1>2, <1>3 DEF HeaderName, Upto
  <2>2. StrToLower(u) \in Seq(STRING) /\ Len(StrToLower(u)) = q /\ \A i \in 1 .. q : StrToLower(u)[i] = LowerOf(u[i])
    BY <1>3, LowerIs
  <2>3. \A i \in 1 .. q : i \in 1 .. n
    BY <1>2
  <2>4. \A i \in 1 .. q : StrToLower(u)[i] = v[i]
    BY <1>1, <1>3, <1>4, <2>2, <2>3
  <2>5. StrToLower(u) = v
    BY <1>4, <2>2, <2>4, SeqEqual
  <2>6. QED
    BY <2>1, <2>5
<1>6. HeaderName(L) = Upto(LineOf(L), Find(LineOf(L), ":") - 1)
  BY <1>1, <1>2, <1>4, <1>5
<1>7. PICK A \in Seq(STRING), e \in Nat :
        /\ A = After(L) /\ e = Len(A) /\ e = n - p
        /\ \A i \in 1 .. e : A[i] = w[p + i]
  <2>1. p \in 0 .. Len(w)
    BY <1>1
  <2>2. From(w, p + 1) \in Seq(STRING) /\ Len(From(w, p + 1)) = n - p /\ \A i \in 1 .. n - p : From(w, p + 1)[i] = w[p + i]
    <3>1. /\ From(w, p + 1) \in Seq(STRING) /\ Len(From(w, p + 1)) = Len(w) - p
          /\ \A i \in 1 .. Len(w) - p : From(w, p + 1)[i] = w[p + i]
      BY <2>1, FromIs
    <3>2. Len(w) = n
      BY <1>1
    <3>3. QED
      BY <3>1, <3>2
  <2>3. After(L) = From(w, p + 1)
    BY <1>1 DEF After
  <2>4. n - p \in Nat
    BY <1>1
  <2>5. QED
    BY <2>2, <2>3, <2>4
<1>8. Throws(l) <=> A = <<>>
  <2>1. A = <<>> <=> e = 0
    BY <1>7, EmptySeq
  <2>2. e = 0 <=> p = n
    BY <1>1, <1>7
  <2>3. Throws(l) <=> p = n
    BY <1>1 DEF Throws
  <2>4. QED
    BY <2>1, <2>2, <2>3
<1>9. ASSUME A # <<>>
      PROVE  /\ q + Len(Value(l)) < n /\ Len(Value(l)) \in Nat
             /\ IsBlank(A[1]) => SameWords(StrToLower(TrimComments(A)), Value(l))
  <2>1. e # 0
    BY <1>7, <1>9, EmptySeq
  <2>2. PICK d \in Nat : d = e - 1 /\ e = d + 1 /\ n - (p + 1) = d /\ p + 1 <= n
    <3>1. e - 1 \in Nat /\ e = (e - 1) + 1 /\ n - (p + 1) = e - 1 /\ p + 1 <= n
      BY <1>1, <1>7, <2>1
    <3>2. QED
      BY <3>1
  <2>3. PICK B \in Seq(STRING) : B = From(l, p + 2) /\ Len(B) = d /\ \A i \in 1 .. d : B[i] = l[(p + 1) + i]
    <3>1. p + 1 \in 0 .. Len(l) /\ (p + 1) + 1 = p + 2
      BY <1>1, <2>2
    <3>2. /\ From(l, (p + 1) + 1) \in Seq(STRING) /\ Len(From(l, (p + 1) + 1)) = Len(l) - (p + 1)
          /\ \A i \in 1 .. Len(l) - (p + 1) : From(l, (p + 1) + 1)[i] = l[(p + 1) + i]
      BY <3>1, FromIs
    <3>3. Len(l) - (p + 1) = d
      BY <1>1, <2>2
    <3>4. QED
      BY <3>1, <3>2, <3>3
  <2>4. Value(l) = Normalize(B)
    BY <1>1, <2>3 DEF Value
  <2>5. PICK y \in Seq(STRING) :
          /\ y = TrimComments(B)
          /\ \E a, m \in Nat : Trimmed(y, TrimF(y), a, m)
          /\ Len(Normalize(B)) \in 0 .. d
    BY <2>3, NormalizeIs
  <2>6. q + Len(Value(l)) < n /\ Len(Value(l)) \in Nat
    <3>1. PICK z \in Nat : z = Len(Value(l)) /\ z <= d
      BY <2>4, <2>5
    <3>2. q + z < n
      <4>1. q = p - 1 /\ n - (p + 1) = d /\ z <= d
        BY <1>2, <2>2, <3>1
      <4>2. QED
        BY <4>1
    <3>3. QED
      BY <3>1, <3>2
  <2>7. ASSUME IsBlank(A[1]) PROVE SameWords(StrToLower(TrimComments(A)), Value(l))
    <3>1. ASSUME NEW i \in 1 .. d PROVE B[i] = LowerOf(A[i + 1])
      <4>1. i + 1 \in 1 .. e /\ p + (i + 1) = (p + 1) + i /\ (p + 1) + i \in 1 .. n
        BY <2>2
      <4>2. A[i + 1] = w[(p + 1) + i]
        BY <1>7, <4>1
      <4>3. QED
        BY <1>1, <2>3, <4>1, <4>2
    <3>2. PICK s : s = StrToLower(TrimComments(A))
      OBVIOUS
    <3>3. OneBlank(s, y)
      <4>1. Len(A) = Len(B) + 1 /\ \A i \in 1 .. Len(B) : B[i] = LowerOf(A[i + 1])
        BY <1>7, <2>2, <2>3, <3>1
      <4>2. OneBlank(StrToLower(TrimComments(A)), TrimComments(B))
        BY <2>7, <4>1, CommentsAfterBlank
      <4>3. QED
        BY <2>5, <3>2, <4>2
    <3>4. PICK a \in Nat, m \in Nat : Trimmed(y, TrimF(y), a, m)
      BY <2>5
    <3>5. Trimmed(s, TrimF(y), a + 1, m)
      BY <3>3, <3>4, SameAfterBlank
    <3>6. s \in Seq(STRING) /\ a + 1 \in Nat
      BY <3>3 DEF OneBlank
    <3>7. SameWords(s, DelMultiplSp(ReplaceF(TrimF(y))))
      BY <3>5, <3>6, WordsKept
    <3>8. Value(l) = DelMultiplSp(ReplaceF(TrimF(y)))
      BY <2>4, <2>5 DEF Normalize
    <3>9. QED
      BY <3>2, <3>7, <3>8
  <2>8. QED
    BY <2>6, <2>7
<1>10. ASSUME After(L) # <<>>
       PROVE  /\ Len(HeaderName(L)) \in Nat /\ Len(Value(LineOf(L))) \in Nat
              /\ Len(HeaderName(L)) + Len(Value(LineOf(L))) < Len(L)
  <2>1. PICK z \in Nat : z = Len(Value(l)) /\ q + z < n
    BY <1>7, <1>9, <1>10
  <2>2. Len(HeaderName(L)) = q
    BY <1>4, <1>5
  <2>3. PICK b \in Nat : b = Len(L)
    BY LenIsNat
  <2>4. q + z < b
    BY <1>1, <2>1, <2>3
  <2>5. QED
    BY <1>1, <2>1, <2>2, <2>3, <2>4
<1>11. QED
  BY <1>1, <1>6, <1>7, <1>8, <1>9, <1>10

-----------------------------------------------------------------------------
(* CgiOutput: what holds when some lines of an output have been taken        *)

\* How many lines parse_headers() may take.
Whole(o) == IF o.ended \/ Len(o.lines) < 2 THEN Len(o.lines) ELSE Len(o.lines) - 1

Passed(o, k) ==
  \A i \in 1 .. k : ~Blanks(o.lines[i]) /\ (Holds(o.lines[i], ":") => After(o.lines[i]) # <<>>)

LastOfName(o, k, i) ==
  \A j \in i + 1 .. k : Holds(o.lines[j], ":") => HeaderName(o.lines[j]) # HeaderName(o.lines[i])

\* The headers are those of the first k lines, of each name the last one.
HeadersOf(o, k, hs) ==
  /\ DOMAIN hs = {HeaderName(o.lines[i]) : i \in {j \in 1 .. k : Holds(o.lines[j], ":")}}
  /\ \A name \in DOMAIN hs : \E i \in 1 .. k :
       /\ Holds(o.lines[i], ":")
       /\ name = HeaderName(o.lines[i])
       /\ hs[name] = Value(LineOf(o.lines[i]))
  /\ \A i \in 1 .. k :
       Holds(o.lines[i], ":") /\ LastOfName(o, k, i) =>
         hs[HeaderName(o.lines[i])] = Value(LineOf(o.lines[i]))

\* The two kinds of output at which an exception ends the server.
ThrowsAt(o, i) ==
  i <= Whole(o) /\ ~Blanks(o.lines[i]) /\ Holds(o.lines[i], ":") /\ After(o.lines[i]) = <<>>
Single(o) == Len(o.lines) = 1 /\ ~o.ended /\ Blanks(o.lines[1]) /\ o.lines[1] # <<>>

StageAfter(k) ==
  /\ outputStage \in {"read", "failed"} => k = 0
  /\ outputStage \in {"read", "failed", "headers"} => replyBody = echoed
  /\ outputStage \in {"read", "headers", "terminated"} => replyStatus = 0
  /\ outputStage = "failed" => replyStatus = STATUS_BAD_GATEWAY
  /\ outputStage = "headers" => TextOf(written) # <<>>
  /\ outputStage \in {"check", "composed"} =>
       /\ BlankAt = k + 1
       /\ replyBody = echoed \o TextOf(TailOf(written, k + 1))
       /\ ~Single(written)
  /\ outputStage = "check" =>
       replyStatus = 0 \/ (replyStatus = STATUS_NO_CONTENT /\ DOMAIN replyHeaders = {})
  /\ outputStage = "composed" => replyStatus = Checked(0, replyHeaders)
  /\ outputStage = "terminated" => ThrowsAt(written, k + 1) \/ Single(written)

OutputAfter(k) ==
  /\ unparsed = TextOf(TailOf(written, k))
  /\ Passed(written, k)
  /\ HeadersOf(written, k, replyHeaders)
  /\ StageAfter(k)

OutputIInv ==
  /\ written \in Outputs /\ echoed \in Chunks
  /\ outputStage \in {"read", "headers", "check", "composed", "failed", "terminated"}
  /\ \E k \in 0 .. Whole(written) : OutputAfter(k)

LEMMA WholeIsLines ==
  ASSUME NEW o, NEW n, NEW f, IsOutput(o, n, f)
  PROVE  /\ n = Len(o.lines) /\ n \in Nat /\ o.ended \in BOOLEAN
         /\ Whole(o) \in 0 .. n
         /\ Whole(o) = IF o.ended \/ n < 2 THEN n ELSE n - 1
         /\ \A i \in 1 .. n : o.lines[i] \in Seq(STRING)
<1>1. /\ o.lines \in Seq(Seq(STRING)) /\ Len(o.lines) = n /\ n \in Nat /\ o.ended \in BOOLEAN
  BY DEF IsOutput
<1>2. \A i \in 1 .. n : o.lines[i] \in Seq(STRING)
  BY <1>1, ElementOfSeq
<1>3. Whole(o) = IF o.ended \/ n < 2 THEN n ELSE n - 1
  BY <1>1 DEF Whole
<1>4. Whole(o) \in 0 .. n
  BY <1>1, <1>3
<1>5. QED
  BY <1>1, <1>2, <1>3, <1>4

\* The lines that end, and the first of them that is blank.
LEMMA BlankIs ==
  ASSUME written \in Outputs, NEW m, m = Whole(written)
  PROVE  /\ m \in Nat /\ BlankAt \in 1 .. m + 1
         /\ \A i \in 1 .. BlankAt - 1 : i \in 1 .. m /\ ~Blanks(written.lines[i])
         /\ BlankAt <= m => Blanks(written.lines[BlankAt])
         /\ Len(Lines) = BlankAt - 1
         /\ \A i \in 1 .. BlankAt - 1 : Lines[i] = written.lines[i]
<1>1. PICK n, f : IsOutput(written, n, f)
  BY OutputIsLines
<1>2. /\ written.lines \in Seq(Seq(STRING)) /\ n = Len(written.lines) /\ n \in Nat
      /\ m \in 0 .. n /\ m = IF written.ended \/ n < 2 THEN n ELSE n - 1
  BY <1>1, WholeIsLines DEF IsOutput
<1>3. PICK e \in Seq(Seq(STRING)) :
        e = Ended /\ Len(e) = m /\ \A i \in 1 .. m : e[i] = written.lines[i]
  <2>1. CASE written.ended \/ n < 2
    BY <1>2, <2>1 DEF Ended
  <2>2. CASE ~(written.ended \/ n < 2)
    <3>1. Ended = Upto(written.lines, m)
      BY <1>2, <2>2 DEF Ended, Front, Upto
    <3>2. m \in 0 .. Len(written.lines)
      BY <1>2
    <3>3. /\ Upto(written.lines, m) \in Seq(Seq(STRING)) /\ Len(Upto(written.lines, m)) = m
          /\ \A i \in 1 .. m : Upto(written.lines, m)[i] = written.lines[i]
      BY <1>2, <3>2, UptoIs
    <3>4. QED
      BY <3>1, <3>3
  <2>3. QED
    BY <2>1, <2>2
<1> DEFINE at == {i \in 1 .. m : Blanks(e[i])}
<1>4. BlankAt = IF at # {} THEN Min(at) ELSE m + 1
  <2>1. SelectInSeq(Ended, Blanks) = IF at # {} THEN Min(at) ELSE 0
    BY <1>3 DEF SelectInSeq
  <2>2. at # {} => Min(at) # 0
    <3>1. at \in SUBSET Nat /\ 0 \notin at
      BY <1>2
    <3> HIDE DEF at
    <3>2. QED
      BY <3>1, MinIs
  <2> HIDE DEF at
  <2>3. QED
    BY <1>3, <2>1, <2>2 DEF BlankAt
<1>5. m \in Nat
  BY <1>2
<1>6. /\ BlankAt \in 1 .. m + 1
      /\ \A i \in 1 .. BlankAt - 1 : i \in 1 .. m /\ ~Blanks(e[i])
      /\ BlankAt <= m => BlankAt \in 1 .. m /\ Blanks(e[BlankAt])
  <2>1. CASE at = {}
    <3>1. BlankAt = m + 1
      BY <1>4, <2>1
    <3>2. \A i \in 1 .. m : ~Blanks(e[i])
      BY <2>1
    <3> HIDE DEF at
    <3>3. QED
      BY <1>5, <3>1, <3>2
  <2>2. CASE at # {}
    <3>1. at \in SUBSET Nat
      BY <1>5
    <3>2. Min(at) \in at /\ \A y \in at : Min(at) <= y
      <4> HIDE DEF at
      <4>1. QED
        BY <2>2, <3>1, MinIs
    <3>3. PICK b \in 1 .. m : b = BlankAt /\ Blanks(e[b]) /\ \A y \in at : b <= y
      BY <1>4, <2>2, <3>2
    <3>4. ASSUME NEW i \in 1 .. b - 1 PROVE i \in 1 .. m /\ ~Blanks(e[i])
      <4>1. i \in 1 .. m
        BY <1>5
      <4>2. i \notin at
        BY <1>5, <3>3, <3>4
      <4>3. QED
        BY <4>1, <4>2
    <3> HIDE DEF at
    <3>5. QED
      BY <1>5, <3>3, <3>4
  <2>3. QED
    BY <2>1, <2>2
<1> HIDE DEF at
<1>7. PICK k \in Nat : k = BlankAt - 1 /\ k <= m
  <2>1. BlankAt - 1 \in Nat /\ BlankAt - 1 <= m
    BY <1>5, <1>6
  <2>2. QED
    BY <2>1
<1>8. Len(Lines) = k /\ \A i \in 1 .. k : Lines[i] = e[i]
  <2>1. k \in 0 .. Len(e)
    BY <1>3, <1>7
  <2>2. Lines = Upto(e, k)
    BY <1>3, <1>7 DEF Lines, Upto
  <2>3. QED
    BY <2>1, <2>2, UptoIs
<1>9. \A i \in 1 .. k : i \in 1 .. m
  BY <1>5, <1>7
<1>10. QED
  BY <1>3, <1>5, <1>6, <1>7, <1>8, <1>9

\* So far no line was blank.
LEMMA BlankAfter ==
  ASSUME written \in Outputs, NEW k \in 0 .. Whole(written), Passed(written, k)
  PROVE  /\ k < BlankAt
         /\ k + 1 <= Whole(written) /\ Blanks(written.lines[k + 1]) => BlankAt = k + 1
         /\ k = Whole(written) => BlankAt = k + 1
         /\ k + 1 <= Whole(written) /\ ~Blanks(written.lines[k + 1]) => k + 1 < BlankAt
<1>1. PICK m \in Nat : m = Whole(written)
  BY BlankIs
<1>2. PICK b \in Nat :
        /\ b = BlankAt /\ 1 <= b /\ b <= m + 1
        /\ \A i \in 1 .. b - 1 : ~Blanks(written.lines[i])
        /\ b <= m => Blanks(written.lines[b])
  <2>1. /\ BlankAt \in 1 .. m + 1
        /\ \A i \in 1 .. BlankAt - 1 : ~Blanks(written.lines[i])
        /\ BlankAt <= m => Blanks(written.lines[BlankAt])
    BY <1>1, BlankIs
  <2>2. QED
    BY <1>1, <2>1
<1>3. \A i \in 1 .. k : ~Blanks(written.lines[i])
  BY DEF Passed
<1>4. k \in Nat /\ k <= m
  BY <1>1
<1>5. k < b
  <2>1. SUFFICES ASSUME b <= k PROVE FALSE
    BY <1>2, <1>4
  <2>2. b \in 1 .. k /\ b <= m
    BY <1>2, <1>4, <2>1
  <2>3. QED
    BY <1>2, <1>3, <2>2
<1>6. k + 1 <= m /\ Blanks(written.lines[k + 1]) => b = k + 1
  <2>1. SUFFICES ASSUME k + 1 <= m, Blanks(written.lines[k + 1]), k + 1 < b PROVE FALSE
    BY <1>2, <1>4, <1>5
  <2>2. k + 1 \in 1 .. b - 1
    BY <1>2, <1>4, <2>1
  <2>3. QED
    BY <1>2, <2>1, <2>2
<1>7. k = m => b = k + 1
  BY <1>2, <1>4, <1>5
<1>8. k + 1 <= m /\ ~Blanks(written.lines[k + 1]) => k + 1 < b
  <2>1. SUFFICES ASSUME k + 1 <= m, ~Blanks(written.lines[k + 1]), b = k + 1 PROVE FALSE
    BY <1>2, <1>4, <1>5
  <2>2. QED
    BY <1>2, <2>1
<1>9. QED
  BY <1>1, <1>2, <1>5, <1>6, <1>7, <1>8

\* What is left is what the process wrote after the lines that were taken.
LEMMA RestIsTail ==
  ASSUME NEW o \in Outputs, NEW n, NEW f, IsOutput(o, n, f), NEW k \in 0 .. n
  PROVE  RestAt(o, f, k) = TextOf(TailOf(o, k))
BY TailText

\* What parse_headers() finds when it looks at what is left.
Turn(o, k, r) ==
  LET e == IF Holds(r, LF) THEN Find(r, LF) ELSE Len(r) + 1
  IN /\ k + 1 \in 1 .. Whole(o)
     /\ o.lines[k + 1] \in Seq(STRING)
     /\ Upto(r, e - 1) = o.lines[k + 1]
     /\ From(r, e + 1) = TextOf(TailOf(o, k + 1))
     /\ ~Holds(r, LF) => k = 0 /\ Len(o.lines) = 1 /\ ~o.ended

LEMMA LineTurnIs ==
  ASSUME NEW o \in Outputs, NEW k \in 0 .. Whole(o), NEW r, r = TextOf(TailOf(o, k)),
         TextOf(o) # <<>>, r = TextOf(o) \/ Holds(r, LF)
  PROVE  Turn(o, k, r)
<1>1. PICK n, f : IsOutput(o, n, f)
  BY OutputIsLines
<1>2. /\ n = Len(o.lines) /\ n \in Nat /\ o.ended \in BOOLEAN
      /\ Whole(o) \in 0 .. n
      /\ Whole(o) = IF o.ended \/ n < 2 THEN n ELSE n - 1
      /\ \A i \in 1 .. n : o.lines[i] \in Seq(STRING)
  BY <1>1, WholeIsLines
<1>3. k \in 0 .. n /\ k \in Nat
  BY <1>2
<1>4. r = RestAt(o, f, k)
  BY <1>1, <1>3, RestIsTail
<1>5. k < n
  <2>1. SUFFICES ASSUME k = n PROVE FALSE
    BY <1>2, <1>3
  <2>2. r = <<>>
    BY <1>1, <1>4, <2>1, RestEnds
  <2>3. ~Holds(<<>>, LF)
    <3>1. <<>> \in Seq(STRING) /\ Len(<<>>) = 0
      OBVIOUS
    <3>2. Find(<<>>, LF) \in 0 .. Len(<<>>)
      BY <3>1, FindIs
    <3>3. QED
      BY <3>1, <3>2 DEF Holds
  <2>4. QED
    BY <2>2, <2>3
<1>6. LineCutAt(o, n, f, k)
  BY <1>1, <1>3, <1>5, LineCut
<1>7. PICK L \in Seq(STRING), b \in Nat : L = o.lines[k + 1] /\ b = Len(L)
  <2>1. k + 1 \in 1 .. n
    BY <1>2, <1>3, <1>5
  <2>2. \A i \in 1 .. n : o.lines[i] \in Seq(STRING)
    BY <1>2
  <2>3. o.lines[k + 1] \in Seq(STRING)
    BY <2>1, <2>2
  <2>4. QED
    BY <2>3
<1>8. PICK e : e = IF Holds(r, LF) THEN Find(r, LF) ELSE Len(r) + 1
  OBVIOUS
<1>9. /\ Holds(r, LF) <=> o.ended \/ k + 1 < n
      /\ e = b + 1 /\ Upto(r, b) = L /\ From(r, b + 2) = RestAt(o, f, k + 1)
  BY <1>4, <1>6, <1>7, <1>8 DEF LineCutAt
<1>10. RestAt(o, f, k + 1) = TextOf(TailOf(o, k + 1))
  <2>1. k + 1 \in 0 .. n
    BY <1>2, <1>3, <1>5
  <2>2. QED
    BY <1>1, <2>1, RestIsTail
<1>11. e - 1 = b /\ e + 1 = b + 2
  BY <1>9
<1>12. ~Holds(r, LF) => k = 0 /\ n = 1 /\ ~o.ended
  <2>1. SUFFICES ASSUME ~Holds(r, LF) PROVE k = 0 /\ n = 1 /\ ~o.ended
    OBVIOUS
  <2>2. k = 0
    BY <1>1, <1>3, <1>4, <2>1, OnlyFirst
  <2>3. ~o.ended /\ ~(k + 1 < n)
    BY <1>9, <2>1
  <2>4. n = 1
    <3>1. n \in Nat /\ ~(0 + 1 < n) /\ 0 < n
      BY <1>2, <1>5, <2>2, <2>3
    <3>2. QED
      BY <3>1
  <2>5. QED
    BY <2>2, <2>3, <2>4
<1>13. k + 1 \in 1 .. Whole(o)
  <2>1. CASE Holds(r, LF)
    <3>1. o.ended \/ k + 1 < n
      BY <1>9, <2>1
    <3>2. QED
      BY <1>2, <1>3, <1>5, <3>1
  <2>2. CASE ~Holds(r, LF)
    BY <1>2, <1>12, <2>2
  <2>3. QED
    BY <2>1, <2>2
<1>14. QED
  BY <1>2, <1>7, <1>8, <1>9, <1>10, <1>11, <1>12, <1>13 DEF Turn

\* No line is left where there is none with its LF and one was taken before.
LEMMA NoTurn ==
  ASSUME NEW o \in Outputs, NEW k \in 0 .. Whole(o), NEW r, r = TextOf(TailOf(o, k)),
         r # TextOf(o), ~Holds(r, LF)
  PROVE  k = Whole(o) /\ k # 0 /\ TextOf(TailOf(o, k + 1)) = <<>>
<1>1. PICK n, f : IsOutput(o, n, f)
  BY OutputIsLines
<1>2. /\ n = Len(o.lines) /\ n \in Nat /\ o.ended \in BOOLEAN
      /\ Whole(o) \in 0 .. n
      /\ Whole(o) = IF o.ended \/ n < 2 THEN n ELSE n - 1
  BY <1>1, WholeIsLines
<1>3. k \in 0 .. n /\ k \in Nat
  BY <1>2
<1>4. r = RestAt(o, f, k)
  BY <1>1, <1>3, RestIsTail
<1>5. k # 0
  BY <1>1, <1>4, RestEnds
<1>6. k < n => ~o.ended /\ ~(k + 1 < n)
  <2>1. SUFFICES ASSUME k < n PROVE ~o.ended /\ ~(k + 1 < n)
    OBVIOUS
  <2>2. LineCutAt(o, n, f, k)
    BY <1>1, <1>3, <2>1, LineCut
  <2>3. QED
    BY <1>4, <2>2 DEF LineCutAt
<1>7. k = Whole(o) /\ (k = n \/ k + 1 = n)
  BY <1>2, <1>3, <1>5, <1>6
<1>8. TextOf(TailOf(o, n)) = <<>> /\ TextOf(TailOf(o, n + 1)) = <<>>
  BY <1>1, NoTail
<1>9. QED
  BY <1>5, <1>7, <1>8

\* An output of no characters has no lines, or one that is empty and not ended.
LEMMA NoOutput ==
  ASSUME NEW o \in Outputs, TextOf(o) = <<>>
  PROVE  /\ ~Single(o) /\ TextOf(TailOf(o, 1)) = <<>>
         /\ \/ Whole(o) = 0
            \/ Whole(o) = 1 /\ Blanks(o.lines[1])
<1>1. PICK n, f : IsOutput(o, n, f)
  BY OutputIsLines
<1>2. /\ n = Len(o.lines) /\ n \in Nat
      /\ Whole(o) = IF o.ended \/ n < 2 THEN n ELSE n - 1
      /\ \A i \in 1 .. n : o.lines[i] \in Seq(STRING)
  BY <1>1, WholeIsLines
<1>3. PICK m \in Nat :
        m = Len(f[n]) /\ (n = 0 <=> m = 0) /\ 0 = IF o.ended \/ n = 0 THEN m ELSE m - 1
  <2>1. PICK l \in Nat, s \in Nat :
          /\ n \in Nat /\ l = Len(f[n]) /\ s <= l /\ s = Size(o, n, f) /\ (n = 0 <=> l = 0)
          /\ s = IF o.ended \/ n = 0 THEN l ELSE l - 1
    BY <1>1, SizeIs
  <2>2. s = 0
    BY <1>1, <2>1, TextIs
  <2>3. QED
    BY <2>1, <2>2
<1>4. TextOf(TailOf(o, n)) = <<>> /\ TextOf(TailOf(o, n + 1)) = <<>>
  BY <1>1, NoTail
<1>5. CASE n = 0
  <2>1. n + 1 = 1
    BY <1>5
  <2>2. Whole(o) = 0
    BY <1>2, <1>5
  <2>3. ~Single(o)
    BY <1>2, <1>5 DEF Single
  <2>4. QED
    BY <1>4, <2>1, <2>2, <2>3
<1>6. CASE n # 0
  <2>1. m = 1
    BY <1>3, <1>6
  <2>2. n = 1
    <3>1. SUFFICES ASSUME n # 1 PROVE FALSE
      OBVIOUS
    <3>2. 0 \in 0 .. n /\ 0 < n /\ 1 \in 0 .. n /\ 1 < n
      <4>1. n \in Nat /\ n # 0
        BY <1>2, <1>6
      <4>2. QED
        BY <3>1, <4>1
    <3>3. PICK L \in Seq(STRING), a \in Nat, b \in Nat, l \in Nat : NextLine(o, n, f, 0, L, a, b, l)
      BY <1>1, <3>2, LineNext
    <3>4. PICK K \in Seq(STRING), c \in Nat, d \in Nat, h \in Nat : NextLine(o, n, f, 1, K, c, d, h)
      BY <1>1, <3>2, LineNext
    <3>5. Len(f[0 + 1]) = a + b + 1
      BY <3>3 DEF NextLine
    <3>6. c = Len(f[1]) /\ h = m /\ c + d + 1 <= h
      BY <1>3, <3>4 DEF NextLine
    <3>7. c = a + b + 1
      BY <3>5, <3>6
    <3>8. QED
      BY <2>1, <3>6, <3>7
  <2>3. o.lines[1] = <<>>
    <3>1. 0 \in 0 .. n /\ 0 < n
      BY <2>2
    <3>2. PICK L \in Seq(STRING), a \in Nat, b \in Nat, l \in Nat : NextLine(o, n, f, 0, L, a, b, l)
      BY <1>1, <3>1, LineNext
    <3>3. L = o.lines[0 + 1] /\ b = Len(L) /\ l = m /\ a + b + 1 <= l
      BY <1>3, <3>2 DEF NextLine
    <3>4. b = 0 /\ 0 + 1 = 1
      BY <2>1, <3>3
    <3>5. L = <<>>
      BY <3>3, <3>4, EmptySeq
    <3>6. QED
      BY <3>3, <3>4, <3>5
  <2>4. Blanks(o.lines[1])
    BY <2>3 DEF Blanks
  <2>5. Whole(o) = 1
    BY <1>2, <2>2
  <2>6. ~Single(o)
    BY <2>3 DEF Single
  <2>7. QED
    BY <1>4, <2>2, <2>4, <2>5, <2>6
<1>7. QED
  BY <1>5, <1>6

-----------------------------------------------------------------------------
(* CgiOutput: the steps                                                      *)

LEMMA HeaderAdded ==
  ASSUME NEW o, NEW k \in Nat, NEW hs, HeadersOf(o, k, hs), NEW L, L = o.lines[k + 1], Holds(L, ":"),
         NEW g, g = [x \in {HeaderName(L)} \cup DOMAIN hs |->
                       IF x = HeaderName(L) THEN Value(LineOf(L)) ELSE hs[x]]
  PROVE  HeadersOf(o, k + 1, g)
<1>0. PICK name, value :
        /\ name = HeaderName(L) /\ value = Value(LineOf(L))
        /\ g = [x \in {name} \cup DOMAIN hs |-> IF x = name THEN value ELSE hs[x]]
  OBVIOUS
<1>1. 1 .. k + 1 = (1 .. k) \cup {k + 1}
  OBVIOUS
<1>2. DOMAIN g = {HeaderName(o.lines[i]) : i \in {j \in 1 .. k + 1 : Holds(o.lines[j], ":")}}
  <2>1. DOMAIN g = {HeaderName(L)} \cup DOMAIN hs
    OBVIOUS
  <2>2. DOMAIN hs = {HeaderName(o.lines[i]) : i \in {j \in 1 .. k : Holds(o.lines[j], ":")}}
    BY DEF HeadersOf
  <2>3. {j \in 1 .. k + 1 : Holds(o.lines[j], ":")} = {j \in 1 .. k : Holds(o.lines[j], ":")} \cup {k + 1}
    BY <1>1
  <2>4. QED
    BY <2>1, <2>2, <2>3
<1>3. ASSUME NEW x \in DOMAIN g
      PROVE  \E i \in 1 .. k + 1 : /\ Holds(o.lines[i], ":")
                                   /\ x = HeaderName(o.lines[i])
                                   /\ g[x] = Value(LineOf(o.lines[i]))
  <2>1. CASE x = name
    <3>1. g[x] = value /\ k + 1 \in 1 .. k + 1
      BY <1>0, <2>1
    <3>2. QED
      BY <1>0, <2>1, <3>1
  <2>2. CASE x # name
    <3>1. x \in DOMAIN hs /\ g[x] = hs[x]
      BY <1>0, <2>2
    <3>2. PICK i \in 1 .. k : /\ Holds(o.lines[i], ":")
                              /\ x = HeaderName(o.lines[i])
                              /\ hs[x] = Value(LineOf(o.lines[i]))
      BY <3>1 DEF HeadersOf
    <3>3. i \in 1 .. k + 1
      OBVIOUS
    <3>4. QED
      BY <3>1, <3>2, <3>3
  <2>3. QED
    BY <2>1, <2>2
<1>4. ASSUME NEW i \in 1 .. k + 1, Holds(o.lines[i], ":"), LastOfName(o, k + 1, i)
      PROVE  g[HeaderName(o.lines[i])] = Value(LineOf(o.lines[i]))
  <2>1. CASE i = k + 1
    BY <1>0, <2>1
  <2>2. CASE i # k + 1
    <3>1. i \in 1 .. k /\ k + 1 \in i + 1 .. k + 1 /\ \A j \in i + 1 .. k : j \in i + 1 .. k + 1
      BY <2>2
    <3>2. HeaderName(o.lines[i]) # name
      BY <1>0, <1>4, <3>1 DEF LastOfName
    <3>3. LastOfName(o, k, i)
      BY <1>4, <3>1 DEF LastOfName
    <3>4. hs[HeaderName(o.lines[i])] = Value(LineOf(o.lines[i]))
      BY <1>4, <3>1, <3>3 DEF HeadersOf
    <3>5. HeaderName(o.lines[i]) \in DOMAIN hs
      BY <1>4, <3>1 DEF HeadersOf
    <3>6. g[HeaderName(o.lines[i])] = hs[HeaderName(o.lines[i])]
      BY <1>0, <3>2, <3>5
    <3>7. QED
      BY <3>4, <3>6
  <2>3. QED
    BY <2>1, <2>2
<1>5. QED
  BY <1>2, <1>3, <1>4 DEF HeadersOf

LEMMA NoHeaderAdded ==
  ASSUME NEW o, NEW k \in Nat, NEW hs, HeadersOf(o, k, hs), ~Holds(o.lines[k + 1], ":")
  PROVE  HeadersOf(o, k + 1, hs)
<1>1. 1 .. k + 1 = (1 .. k) \cup {k + 1}
  OBVIOUS
<1>2. DOMAIN hs = {HeaderName(o.lines[i]) : i \in {j \in 1 .. k + 1 : Holds(o.lines[j], ":")}}
  <2>1. {j \in 1 .. k + 1 : Holds(o.lines[j], ":")} = {j \in 1 .. k : Holds(o.lines[j], ":")}
    BY <1>1
  <2>2. QED
    BY <2>1 DEF HeadersOf
<1>3. \A x \in DOMAIN hs : \E i \in 1 .. k + 1 :
        /\ Holds(o.lines[i], ":")
        /\ x = HeaderName(o.lines[i])
        /\ hs[x] = Value(LineOf(o.lines[i]))
  BY <1>1 DEF HeadersOf
<1>4. ASSUME NEW i \in 1 .. k + 1, Holds(o.lines[i], ":"), LastOfName(o, k + 1, i)
      PROVE  hs[HeaderName(o.lines[i])] = Value(LineOf(o.lines[i]))
  <2>1. i \in 1 .. k /\ \A j \in i + 1 .. k : j \in i + 1 .. k + 1
    BY <1>1, <1>4
  <2>2. LastOfName(o, k, i)
    BY <1>4, <2>1 DEF LastOfName
  <2>3. QED
    BY <1>4, <2>1, <2>2 DEF HeadersOf
<1>5. QED
  BY <1>2, <1>3, <1>4 DEF HeadersOf

LEMMA PassedOne ==
  ASSUME NEW o, NEW k \in Nat, Passed(o, k), ~Blanks(o.lines[k + 1]),
         Holds(o.lines[k + 1], ":") => After(o.lines[k + 1]) # <<>>
  PROVE  Passed(o, k + 1)
<1>1. 1 .. k + 1 = (1 .. k) \cup {k + 1}
  OBVIOUS
<1>2. QED
  BY <1>1 DEF Passed

LEMMA NoneTaken ==
  ASSUME NEW o \in Outputs
  PROVE  /\ TextOf(TailOf(o, 0)) = TextOf(o)
         /\ 0 \in 0 .. Whole(o)
         /\ Whole(o) \in Nat
         /\ Passed(o, 0) /\ \A hs : DOMAIN hs = {} => HeadersOf(o, 0, hs)
<1>1. PICK n, f : IsOutput(o, n, f)
  BY OutputIsLines
<1>2. n \in Nat /\ Whole(o) \in 0 .. n
  BY <1>1, WholeIsLines
<1>3. 0 \in 0 .. n /\ 0 \in 0 .. Whole(o) /\ Whole(o) \in Nat
  BY <1>2
<1>4. RestAt(o, f, 0) = TextOf(o) /\ RestAt(o, f, 0) = TextOf(TailOf(o, 0))
  BY <1>1, <1>3, RestEnds, RestIsTail
<1>5. 1 .. 0 = {}
  OBVIOUS
<1>6. Passed(o, 0)
  BY <1>5 DEF Passed
<1>7. \A hs : DOMAIN hs = {} => HeadersOf(o, 0, hs)
  BY <1>5 DEF HeadersOf
<1>8. QED
  BY <1>3, <1>4, <1>6, <1>7

\* An invariant for OutputAsWritten.
LEMMA OutputIInvInit ==
  OutputInit => OutputIInv
<1> SUFFICES ASSUME OutputInit PROVE OutputIInv
  OBVIOUS
<1>1. written \in Outputs /\ echoed \in Chunks
  BY DEF OutputInit
<1>2. /\ TextOf(TailOf(written, 0)) = TextOf(written)
      /\ 0 \in 0 .. Whole(written)
      /\ Passed(written, 0) /\ \A hs : DOMAIN hs = {} => HeadersOf(written, 0, hs)
  BY <1>1, NoneTaken
<1>3. DOMAIN replyHeaders = {}
  BY DEF OutputInit
<1>4. StageAfter(0)
  BY DEF OutputInit, StageAfter
<1>5. OutputAfter(0)
  BY <1>2, <1>3, <1>4 DEF OutputInit, OutputAfter
<1>6. outputStage = "read"
  BY DEF OutputInit
<1>7. QED
  BY <1>1, <1>2, <1>5, <1>6 DEF OutputIInv

LEMMA ReadKeeps ==
  ASSUME OutputIInv, Read
  PROVE  OutputIInv'
<1>1. /\ written' = written /\ echoed' = echoed /\ unparsed' = unparsed
      /\ replyHeaders' = replyHeaders /\ replyBody' = replyBody /\ outputStage = "read"
  BY DEF Read
<1>2. written \in Outputs /\ echoed \in Chunks
  BY DEF OutputIInv
<1>3. PICK k \in 0 .. Whole(written) : OutputAfter(k)
  BY DEF OutputIInv
<1>4. /\ k = 0 /\ unparsed = TextOf(TailOf(written, 0))
      /\ Passed(written, 0) /\ HeadersOf(written, 0, replyHeaders)
      /\ replyBody = echoed /\ replyStatus = 0
  BY <1>1, <1>3 DEF OutputAfter, StageAfter
<1>5. TextOf(TailOf(written, 0)) = TextOf(written)
  BY <1>2, NoneTaken
<1>6. StageAfter(0)'
  <2>1. CASE outputStage' = "failed" /\ replyStatus' = STATUS_BAD_GATEWAY
    BY <1>1, <1>4, <2>1 DEF StageAfter
  <2>2. CASE /\ outputStage' = IF unparsed = <<>> THEN "check" ELSE "headers"
             /\ replyStatus' = IF unparsed = <<>> THEN STATUS_NO_CONTENT ELSE replyStatus
    <3>1. CASE unparsed # <<>>
      <4>1. outputStage' = "headers" /\ replyStatus' = 0
        BY <1>4, <2>2, <3>1
      <4>2. TextOf(written) # <<>>
        BY <1>4, <1>5, <3>1
      <4>3. QED
        BY <1>1, <1>4, <4>1, <4>2 DEF StageAfter
    <3>2. CASE unparsed = <<>>
      <4>1. outputStage' = "check" /\ replyStatus' = STATUS_NO_CONTENT
        BY <2>2, <3>2
      <4>2. /\ ~Single(written) /\ TextOf(TailOf(written, 1)) = <<>>
            /\ \/ Whole(written) = 0
               \/ Whole(written) = 1 /\ Blanks(written.lines[1])
        BY <1>2, <1>4, <1>5, <3>2, NoOutput
      <4>3. BlankAt = 0 + 1
        <5>1. 0 \in 0 .. Whole(written)
          BY <1>3, <1>4
        <5>2. /\ 0 + 1 <= Whole(written) /\ Blanks(written.lines[0 + 1]) => BlankAt = 0 + 1
              /\ 0 = Whole(written) => BlankAt = 0 + 1
          BY <1>2, <1>4, <5>1, BlankAfter
        <5>3. 0 + 1 = 1 /\ (Whole(written) = 1 => 0 + 1 <= Whole(written))
          OBVIOUS
        <5>4. QED
          BY <4>2, <5>2, <5>3
      <4>4. BlankAt' = BlankAt
        BY <1>1 DEF BlankAt, Ended
      <4>5. echoed = echoed \o <<>>
        <5>1. echoed \in Seq(STRING)
          BY <1>2, ChunksAssumption
        <5>2. QED
          BY <5>1, ConcatEmptySeq
      <4>6. DOMAIN replyHeaders = {}
        <5>1. 1 .. 0 = {}
          OBVIOUS
        <5>2. QED
          BY <1>4, <5>1 DEF HeadersOf
      <4>7. 0 + 1 = 1
        OBVIOUS
      <4>8. QED
        BY <1>1, <1>4, <4>1, <4>2, <4>3, <4>4, <4>5, <4>6, <4>7 DEF StageAfter
    <3>3. QED
      BY <3>1, <3>2
  <2>3. QED
    BY <2>1, <2>2 DEF Read
<1>7. OutputAfter(0)'
  BY <1>1, <1>4, <1>6 DEF OutputAfter
<1>8. outputStage' \in {"check", "headers", "failed"}
  BY DEF Read
<1>9. 0 \in 0 .. Whole(written)
  BY <1>3, <1>4
<1>10. QED
  BY <1>1, <1>2, <1>7, <1>8, <1>9 DEF OutputIInv

\* The line that a turn of the loop takes.
AtLine(k, L) ==
  /\ OutputAfter(k)
  /\ k \in Nat /\ k + 1 \in 0 .. Whole(written) /\ k + 1 <= Whole(written)
  /\ L = written.lines[k + 1]
  /\ Line = LineOf(L)
  /\ From(unparsed, LineEnd + 1) = TextOf(TailOf(written, k + 1))
  /\ ~Holds(unparsed, LF) => k = 0 /\ Len(written.lines) = 1 /\ ~written.ended

LEMMA HeaderTurn ==
  ASSUME OutputIInv, InHeaders
  PROVE  \E k \in 0 .. Whole(written), L \in Seq(STRING) : AtLine(k, L)
<1>1. written \in Outputs
  BY DEF OutputIInv
<1>2. PICK k \in 0 .. Whole(written) : OutputAfter(k)
  BY DEF OutputIInv
<1>3. outputStage = "headers" /\ (unparsed = TextOf(written) \/ Holds(unparsed, LF))
  BY DEF InHeaders, AtFirst
<1>4. unparsed = TextOf(TailOf(written, k)) /\ TextOf(written) # <<>>
  BY <1>2, <1>3 DEF OutputAfter, StageAfter
<1>5. Turn(written, k, unparsed)
  BY <1>1, <1>3, <1>4, LineTurnIs
<1>6. /\ k + 1 \in 1 .. Whole(written)
      /\ written.lines[k + 1] \in Seq(STRING)
      /\ Upto(unparsed, LineEnd - 1) = written.lines[k + 1]
      /\ From(unparsed, LineEnd + 1) = TextOf(TailOf(written, k + 1))
      /\ ~Holds(unparsed, LF) => k = 0 /\ Len(written.lines) = 1 /\ ~written.ended
  BY <1>5 DEF Turn, LineEnd
<1>7. Whole(written) \in Nat
  BY <1>1, NoneTaken
<1>8. k \in Nat /\ k + 1 \in 0 .. Whole(written) /\ k + 1 <= Whole(written)
  BY <1>6, <1>7
<1>9. Line = LineOf(written.lines[k + 1])
  BY <1>6 DEF Line, LineOf
<1>10. AtLine(k, written.lines[k + 1])
  BY <1>2, <1>6, <1>8, <1>9 DEF AtLine
<1>11. QED
  BY <1>6, <1>10

LEMMA HeaderLineKeeps ==
  ASSUME OutputIInv, HeaderLine
  PROVE  OutputIInv'
<1>1. /\ written' = written /\ echoed' = echoed /\ replyBody' = replyBody /\ replyStatus' = replyStatus
      /\ InHeaders /\ outputStage = "headers" /\ Holds(Line, ":")
  BY DEF HeaderLine, InHeaders
<1>2. written \in Outputs /\ echoed \in Chunks
  BY DEF OutputIInv
<1>3. PICK k \in 0 .. Whole(written), L \in Seq(STRING) : AtLine(k, L)
  BY <1>1, HeaderTurn
<1>4. /\ unparsed = TextOf(TailOf(written, k))
      /\ Passed(written, k) /\ HeadersOf(written, k, replyHeaders)
      /\ replyBody = echoed /\ replyStatus = 0 /\ TextOf(written) # <<>>
  BY <1>1, <1>3 DEF AtLine, OutputAfter, StageAfter
<1>5. /\ k \in Nat /\ k + 1 \in 0 .. Whole(written) /\ k + 1 <= Whole(written)
      /\ L = written.lines[k + 1] /\ Line = LineOf(L)
      /\ From(unparsed, LineEnd + 1) = TextOf(TailOf(written, k + 1))
  BY <1>3 DEF AtLine
<1>6. Holds(L, ":")
  BY <1>1, <1>5, ColonIs
<1>7. ~Blanks(L)
  <2>1. SUFFICES ASSUME Blanks(L) PROVE FALSE
    OBVIOUS
  <2>2. LineOf(L) = <<>>
    BY <2>1, BlanksAre
  <2>3. ~Holds(<<>>, ":")
    <3>1. <<>> \in Seq(STRING) /\ Len(<<>>) = 0
      OBVIOUS
    <3>2. Find(<<>>, ":") \in 0 .. Len(<<>>)
      BY <3>1, FindIs
    <3>3. QED
      BY <3>1, <3>2 DEF Holds
  <2>4. QED
    BY <1>1, <1>5, <2>2, <2>3
<1>8. /\ HeaderName(L) = Upto(LineOf(L), Find(LineOf(L), ":") - 1)
      /\ Throws(LineOf(L)) <=> After(L) = <<>>
  BY <1>6, LineParts
<1>9. CASE Throws(Line)
  <2>1. outputStage' = "terminated" /\ unparsed' = unparsed /\ replyHeaders' = replyHeaders
    BY <1>9 DEF HeaderLine
  <2>2. ThrowsAt(written, k + 1)
    BY <1>5, <1>6, <1>7, <1>8, <1>9 DEF ThrowsAt
  <2>3. StageAfter(k)'
    BY <1>1, <1>4, <2>1, <2>2 DEF StageAfter
  <2>4. OutputAfter(k)'
    BY <1>1, <1>4, <2>1, <2>3 DEF OutputAfter
  <2>5. QED
    BY <1>1, <1>2, <2>1, <2>4 DEF OutputIInv
<1>10. CASE ~Throws(Line)
  <2>1. /\ outputStage' = "headers" /\ unparsed' = From(unparsed, LineEnd + 1)
        /\ replyHeaders' = SetHeader(Upto(Line, Find(Line, ":") - 1), Value(Line))
    BY <1>1, <1>10 DEF HeaderLine
  <2>2. Passed(written, k + 1)
    BY <1>4, <1>5, <1>7, <1>8, <1>10, PassedOne
  <2>3. replyHeaders' = [x \in {HeaderName(L)} \cup DOMAIN replyHeaders |->
                           IF x = HeaderName(L) THEN Value(LineOf(L)) ELSE replyHeaders[x]]
    BY <1>5, <1>8, <2>1 DEF SetHeader
  <2>4. HeadersOf(written, k + 1, replyHeaders')
    <3>1. PICK g, hs : g = replyHeaders' /\ hs = replyHeaders
      OBVIOUS
    <3>2. g = [x \in {HeaderName(L)} \cup DOMAIN hs |-> IF x = HeaderName(L) THEN Value(LineOf(L)) ELSE hs[x]]
      BY <2>3, <3>1
    <3>3. HeadersOf(written, k, hs) /\ k \in Nat /\ L = written.lines[k + 1] /\ Holds(L, ":")
      BY <1>4, <1>5, <1>6, <3>1
    <3>4. HeadersOf(written, k + 1, g)
      BY <3>2, <3>3, HeaderAdded
    <3>5. QED
      BY <3>1, <3>4
  <2>5. unparsed' = TextOf(TailOf(written, k + 1))
    BY <1>5, <2>1
  <2>6. StageAfter(k + 1)'
    BY <1>1, <1>4, <2>1 DEF StageAfter
  <2>7. OutputAfter(k + 1)'
    BY <1>1, <2>2, <2>4, <2>5, <2>6 DEF OutputAfter
  <2>8. QED
    BY <1>1, <1>2, <1>5, <2>1, <2>7 DEF OutputIInv
<1>11. QED
  BY <1>9, <1>10

LEMMA OtherLineKeeps ==
  ASSUME OutputIInv, OtherLine
  PROVE  OutputIInv'
<1>1. /\ written' = written /\ echoed' = echoed /\ replyBody' = replyBody /\ replyStatus' = replyStatus
      /\ replyHeaders' = replyHeaders /\ outputStage' = outputStage
      /\ unparsed' = From(unparsed, LineEnd + 1)
      /\ InHeaders /\ outputStage = "headers" /\ Line # <<>> /\ ~Holds(Line, ":")
  BY DEF OtherLine, InHeaders
<1>2. written \in Outputs /\ echoed \in Chunks
  BY DEF OutputIInv
<1>3. PICK k \in 0 .. Whole(written), L \in Seq(STRING) : AtLine(k, L)
  BY <1>1, HeaderTurn
<1>4. /\ Passed(written, k) /\ HeadersOf(written, k, replyHeaders)
      /\ replyBody = echoed /\ replyStatus = 0 /\ TextOf(written) # <<>>
  BY <1>1, <1>3 DEF AtLine, OutputAfter, StageAfter
<1>5. /\ k \in Nat /\ k + 1 \in 0 .. Whole(written)
      /\ L = written.lines[k + 1] /\ Line = LineOf(L)
      /\ From(unparsed, LineEnd + 1) = TextOf(TailOf(written, k + 1))
  BY <1>3 DEF AtLine
<1>6. ~Holds(L, ":") /\ ~Blanks(L)
  BY <1>1, <1>5, ColonIs, BlanksAre
<1>7. Passed(written, k + 1)
  BY <1>4, <1>5, <1>6, PassedOne
<1>8. HeadersOf(written, k + 1, replyHeaders)
  BY <1>4, <1>5, <1>6, NoHeaderAdded
<1>9. StageAfter(k + 1)'
  BY <1>1, <1>4 DEF StageAfter
<1>10. OutputAfter(k + 1)'
  BY <1>1, <1>5, <1>7, <1>8, <1>9 DEF OutputAfter
<1>11. QED
  BY <1>1, <1>2, <1>5, <1>10 DEF OutputIInv

LEMMA EmptyLineKeeps ==
  ASSUME OutputIInv, EmptyLine
  PROVE  OutputIInv'
<1>1. /\ written' = written /\ echoed' = echoed /\ replyStatus' = replyStatus
      /\ replyHeaders' = replyHeaders /\ unparsed' = unparsed
      /\ InHeaders /\ outputStage = "headers" /\ Line = <<>>
  BY DEF EmptyLine, InHeaders
<1>2. written \in Outputs /\ echoed \in Chunks
  BY DEF OutputIInv
<1>3. PICK k \in 0 .. Whole(written), L \in Seq(STRING) : AtLine(k, L)
  BY <1>1, HeaderTurn
<1>4. /\ unparsed = TextOf(TailOf(written, k))
      /\ Passed(written, k) /\ HeadersOf(written, k, replyHeaders)
      /\ replyBody = echoed /\ replyStatus = 0 /\ TextOf(written) # <<>>
  BY <1>1, <1>3 DEF AtLine, OutputAfter, StageAfter
<1>5. /\ k \in Nat /\ k + 1 <= Whole(written)
      /\ L = written.lines[k + 1] /\ Line = LineOf(L)
      /\ From(unparsed, LineEnd + 1) = TextOf(TailOf(written, k + 1))
      /\ ~Holds(unparsed, LF) => k = 0 /\ Len(written.lines) = 1 /\ ~written.ended
  BY <1>3 DEF AtLine
<1>6. Blanks(L)
  BY <1>1, <1>5, BlanksAre
<1>7. BlankAt = k + 1
  BY <1>2, <1>4, <1>5, <1>6, BlankAfter
<1>8. BlankAt' = BlankAt
  BY <1>1 DEF BlankAt, Ended
<1>9. StageAfter(k)' /\ outputStage' \in {"check", "terminated"}
  <2>1. CASE Holds(unparsed, LF)
    <3>1. outputStage' = "check" /\ replyBody' = replyBody \o TextOf(TailOf(written, k + 1))
      BY <1>5, <2>1 DEF EmptyLine, SetMessageBody
    <3>2. ~Single(written)
      <4>1. SUFFICES ASSUME Single(written) PROVE FALSE
        OBVIOUS
      <4>2. Len(written.lines) = 1 /\ ~written.ended
        BY <4>1 DEF Single
      <4>3. PICK n, f : IsOutput(written, n, f)
        BY <1>2, OutputIsLines
      <4>4. n = 1 /\ Whole(written) = 1
        <5>1. n = Len(written.lines) /\ Whole(written) = IF written.ended \/ n < 2 THEN n ELSE n - 1
          BY <4>3, WholeIsLines
        <5>2. QED
          BY <4>2, <5>1
      <4>5. k = 0
        BY <1>5, <4>4
      <4>6. 0 \in 0 .. n /\ 0 < n
        BY <4>4
      <4>7. LineCutAt(written, n, f, 0)
        BY <4>3, <4>6, LineCut
      <4>8. RestAt(written, f, 0) = unparsed
        BY <1>2, <1>4, <4>3, <4>5, <4>6, RestIsTail
      <4>9. Holds(unparsed, LF) <=> written.ended \/ 0 + 1 < n
        BY <4>7, <4>8 DEF LineCutAt
      <4>10. QED
        BY <2>1, <4>2, <4>4, <4>9
    <3>3. QED
      BY <1>1, <1>4, <1>7, <1>8, <3>1, <3>2 DEF StageAfter
  <2>2. CASE ~Holds(unparsed, LF)
    <3>1. outputStage' = "terminated" /\ replyBody' = replyBody
      BY <2>2 DEF EmptyLine
    <3>2. k = 0 /\ Len(written.lines) = 1 /\ ~written.ended
      BY <1>5, <2>2
    <3>3. L = written.lines[1]
      BY <1>5, <3>2
    <3>4. L # <<>>
      <4>1. SUFFICES ASSUME L = <<>> PROVE FALSE
        OBVIOUS
      <4>2. PICK n, f : IsOutput(written, n, f)
        BY <1>2, OutputIsLines
      <4>3. n = 1
        BY <3>2, <4>2, WholeIsLines
      <4>4. 0 \in 0 .. n /\ 0 < n
        BY <4>3
      <4>5. LineCutAt(written, n, f, 0)
        BY <4>2, <4>4, LineCut
      <4>6. RestAt(written, f, 0) = unparsed /\ RestAt(written, f, 0) = TextOf(written)
        BY <1>2, <1>4, <3>2, <4>2, <4>4, RestIsTail, RestEnds
      <4>7. Len(unparsed) + 1 = Len(L) + 1
        BY <1>5, <2>2, <3>2, <4>5, <4>6 DEF LineCutAt
      <4>8. TextOf(written) \in Seq(Chars)
        BY <4>2, TextIs
      <4>9. Len(unparsed) = 0
        BY <4>1, <4>6, <4>7, <4>8
      <4>10. QED
        BY <1>4, <4>6, <4>8, <4>9, EmptySeq
    <3>5. Single(written)
      BY <1>6, <3>2, <3>3, <3>4 DEF Single
    <3>6. QED
      BY <1>1, <1>4, <3>1, <3>5 DEF StageAfter
  <2>3. QED
    BY <2>1, <2>2
<1>10. OutputAfter(k)'
  BY <1>1, <1>4, <1>9 DEF OutputAfter
<1>11. QED
  BY <1>1, <1>2, <1>9, <1>10 DEF OutputIInv

LEMMA NoMoreLinesKeeps ==
  ASSUME OutputIInv, NoMoreLines
  PROVE  OutputIInv'
<1>1. /\ written' = written /\ echoed' = echoed /\ replyStatus' = replyStatus
      /\ replyHeaders' = replyHeaders /\ unparsed' = unparsed /\ replyBody' = replyBody
      /\ outputStage = "headers" /\ outputStage' = "check"
      /\ unparsed # TextOf(written) /\ ~Holds(unparsed, LF)
  BY DEF NoMoreLines, AtFirst
<1>2. written \in Outputs /\ echoed \in Chunks
  BY DEF OutputIInv
<1>3. PICK k \in 0 .. Whole(written) : OutputAfter(k)
  BY DEF OutputIInv
<1>4. /\ unparsed = TextOf(TailOf(written, k))
      /\ Passed(written, k) /\ HeadersOf(written, k, replyHeaders)
      /\ replyBody = echoed /\ replyStatus = 0
  BY <1>1, <1>3 DEF OutputAfter, StageAfter
<1>5. k = Whole(written) /\ k # 0 /\ TextOf(TailOf(written, k + 1)) = <<>>
  BY <1>1, <1>2, <1>4, NoTurn
<1>6. BlankAt = k + 1
  BY <1>2, <1>4, <1>5, BlankAfter
<1>7. BlankAt' = BlankAt
  BY <1>1 DEF BlankAt, Ended
<1>8. ~Single(written)
  <2>1. Whole(written) \in Nat
    BY <1>2, NoneTaken
  <2>2. 1 \in 1 .. k
    BY <1>5, <2>1
  <2>3. ~Blanks(written.lines[1])
    BY <1>4, <2>2 DEF Passed
  <2>4. QED
    BY <2>3 DEF Single
<1>9. echoed = echoed \o <<>>
  <2>1. echoed \in Seq(STRING)
    BY <1>2, ChunksAssumption
  <2>2. QED
    BY <2>1, ConcatEmptySeq
<1>10. StageAfter(k)'
  BY <1>1, <1>4, <1>5, <1>6, <1>7, <1>8, <1>9 DEF StageAfter
<1>11. OutputAfter(k)'
  BY <1>1, <1>4, <1>10 DEF OutputAfter
<1>12. QED
  BY <1>1, <1>2, <1>3, <1>11 DEF OutputIInv

LEMMA CheckHeadersKeeps ==
  ASSUME OutputIInv, CheckHeaders
  PROVE  OutputIInv'
<1>1. /\ written' = written /\ echoed' = echoed
      /\ replyHeaders' = replyHeaders /\ unparsed' = unparsed /\ replyBody' = replyBody
      /\ replyStatus' = Checked(replyStatus, replyHeaders)
      /\ outputStage = "check" /\ outputStage' = "composed"
  BY DEF CheckHeaders
<1>2. PICK k \in 0 .. Whole(written) : OutputAfter(k)
  BY DEF OutputIInv
<1>3. /\ BlankAt = k + 1
      /\ replyBody = echoed \o TextOf(TailOf(written, k + 1))
      /\ ~Single(written)
      /\ replyStatus = 0 \/ (replyStatus = STATUS_NO_CONTENT /\ DOMAIN replyHeaders = {})
  BY <1>1, <1>2 DEF OutputAfter, StageAfter
<1>4. BlankAt' = BlankAt
  BY <1>1 DEF BlankAt, Ended
<1>5. replyStatus' = Checked(0, replyHeaders)
  BY <1>1, <1>3 DEF Checked
<1>6. StageAfter(k)'
  BY <1>1, <1>3, <1>4, <1>5 DEF StageAfter
<1>7. OutputAfter(k)'
  BY <1>1, <1>2, <1>6 DEF OutputAfter
<1>8. QED
  BY <1>1, <1>2, <1>7 DEF OutputIInv

LEMMA OutputIInvNext ==
  OutputIInv /\ [OutputNext]_outputVars => OutputIInv'
<1> SUFFICES ASSUME OutputIInv, [OutputNext]_outputVars PROVE OutputIInv'
  OBVIOUS
<1>1. CASE Read
  BY <1>1, ReadKeeps
<1>2. CASE HeaderLine
  BY <1>2, HeaderLineKeeps
<1>3. CASE EmptyLine
  BY <1>3, EmptyLineKeeps
<1>4. CASE OtherLine
  BY <1>4, OtherLineKeeps
<1>5. CASE NoMoreLines
  BY <1>5, NoMoreLinesKeeps
<1>6. CASE CheckHeaders
  BY <1>6, CheckHeadersKeeps
<1>7. CASE UNCHANGED outputVars
  <2>1. PICK k \in 0 .. Whole(written) : OutputAfter(k)
    BY DEF OutputIInv
  <2>2. BlankAt' = BlankAt
    BY <1>7 DEF outputVars, BlankAt, Ended
  <2>3. StageAfter(k)'
    BY <1>7, <2>1, <2>2 DEF outputVars, OutputAfter, StageAfter
  <2>4. OutputAfter(k)'
    BY <1>7, <2>1, <2>3 DEF outputVars, OutputAfter
  <2>5. QED
    BY <1>7, <2>1, <2>4 DEF outputVars, OutputIInv
<1>8. QED
  BY <1>1, <1>2, <1>3, <1>4, <1>5, <1>6, <1>7 DEF OutputNext

LEMMA LineFits ==
  ASSUME NEW o \in Outputs, NEW i \in 1 .. Whole(o)
  PROVE  /\ o.lines[i] \in Seq(STRING)
         /\ Len(o.lines[i]) <= Len(TextOf(o)) /\ Len(TextOf(o)) \in Nat
<1>1. PICK n, f : IsOutput(o, n, f)
  BY OutputIsLines
<1>2. /\ n \in Nat /\ Whole(o) \in 0 .. n /\ \A j \in 1 .. n : o.lines[j] \in Seq(STRING)
  BY <1>1, WholeIsLines
<1>3. PICK k \in Nat : k = i - 1 /\ k \in 0 .. n /\ k < n /\ k + 1 = i /\ n # 0 /\ i \in 1 .. n
  <2>1. i - 1 \in Nat /\ i - 1 \in 0 .. n /\ i - 1 < n /\ (i - 1) + 1 = i /\ n # 0 /\ i \in 1 .. n
    BY <1>2
  <2>2. QED
    BY <2>1
<1>4. PICK L \in Seq(STRING), a \in Nat, b \in Nat, m \in Nat : NextLine(o, n, f, k, L, a, b, m)
  BY <1>1, <1>3, LineNext
<1>5. L = o.lines[i] /\ b = Len(L) /\ m = Len(f[n]) /\ a + b + 1 <= m
  BY <1>3, <1>4 DEF NextLine
<1>6. PICK l \in Nat, s \in Nat :
        /\ n \in Nat /\ l = Len(f[n]) /\ s <= l /\ s = Size(o, n, f) /\ (n = 0 <=> l = 0)
        /\ s = IF o.ended \/ n = 0 THEN l ELSE l - 1
  BY <1>1, SizeIs
<1>7. s = m \/ s = m - 1
  BY <1>5, <1>6
<1>8. b <= s
  BY <1>5, <1>7
<1>9. Len(TextOf(o)) = s
  BY <1>1, <1>6, TextIs
<1>10. QED
  BY <1>5, <1>8, <1>9

\* What is left is an end of the output.
LEMMA LeftIsEnd ==
  ASSUME NEW o \in Outputs, NEW k \in 0 .. Whole(o), NEW r, r = TextOf(TailOf(o, k))
  PROVE  r = From(TextOf(o), Len(TextOf(o)) - Len(r) + 1)
<1>1. PICK n, f : IsOutput(o, n, f)
  BY OutputIsLines
<1>2. n \in Nat /\ k \in 0 .. n
  <2>1. n \in Nat /\ Whole(o) \in 0 .. n
    BY <1>1, WholeIsLines
  <2>2. QED
    BY <2>1
<1>3. r = RestAt(o, f, k)
  BY <1>1, <1>2, RestIsTail
<1>4. PICK s \in Nat, t \in Seq(Chars) : s = Size(o, n, f) /\ t = TextOf(o) /\ s = Len(t)
  <2>1. TextOf(o) \in Seq(Chars) /\ Len(TextOf(o)) = Size(o, n, f)
    BY <1>1, TextIs
  <2>2. Len(TextOf(o)) \in Nat
    BY <2>1
  <2>3. QED
    BY <2>1, <2>2
<1>5. PICK c \in Nat : c = Len(f[k])
  <2>1. f[n] \in Seq(Chars) /\ Len(f[k]) \in 0 .. Len(f[n])
    BY <1>1, <1>2, LinesAre
  <2>2. Len(f[n]) \in Nat
    BY <2>1
  <2>3. QED
    BY <2>1, <2>2
<1>6. RestPlaces(o, n, f, k, r)
  BY <1>1, <1>2, <1>3, RestIs
<1>7. CASE c <= s
  <2>1. Len(r) = s - c
    BY <1>4, <1>5, <1>6, <1>7 DEF RestPlaces
  <2>2. s - (s - c) + 1 = c + 1
    OBVIOUS
  <2>3. r = From(t, c + 1)
    BY <1>3, <1>4, <1>5 DEF RestAt
  <2>4. QED
    BY <1>4, <2>1, <2>2, <2>3
<1>8. CASE ~(c <= s)
  <2>1. r = <<>>
    BY <1>4, <1>5, <1>6, <1>8 DEF RestPlaces
  <2>2. Len(<<>>) = 0 /\ s - 0 + 1 = s + 1
    OBVIOUS
  <2>3. From(t, s + 1) = <<>>
    BY <1>4, SubSeqEmpty DEF From
  <2>4. QED
    BY <1>4, <2>1, <2>2, <2>3
<1>9. QED
  BY <1>7, <1>8

LEMMA OutputTyped ==
  OutputIInv => OutputTypeOK
<1> SUFFICES ASSUME OutputIInv PROVE OutputTypeOK
  OBVIOUS
<1>1. /\ written \in Outputs
      /\ outputStage \in {"read", "headers", "check", "composed", "failed", "terminated"}
  BY DEF OutputIInv
<1>2. PICK k \in 0 .. Whole(written) : OutputAfter(k)
  BY DEF OutputIInv
<1>3. /\ unparsed = TextOf(TailOf(written, k)) /\ Passed(written, k)
      /\ HeadersOf(written, k, replyHeaders) /\ StageAfter(k)
  BY <1>2 DEF OutputAfter
<1>4. unparsed = From(TextOf(written), Len(TextOf(written)) - Len(unparsed) + 1)
  BY <1>1, <1>3, LeftIsEnd
<1>5. ASSUME NEW name \in DOMAIN replyHeaders
      PROVE  Len(name) + Len(replyHeaders[name]) < Len(TextOf(written))
  <2>1. PICK i \in 1 .. k : /\ Holds(written.lines[i], ":")
                            /\ name = HeaderName(written.lines[i])
                            /\ replyHeaders[name] = Value(LineOf(written.lines[i]))
    BY <1>3 DEF HeadersOf
  <2>2. i \in 1 .. Whole(written)
    <3>1. Whole(written) \in Nat
      BY <1>1, NoneTaken
    <3>2. QED
      BY <3>1
  <2>3. PICK L \in Seq(STRING) : L = written.lines[i] /\ Len(L) <= Len(TextOf(written)) /\ Len(TextOf(written)) \in Nat
    BY <1>1, <2>2, LineFits
  <2>4. Holds(L, ":") /\ After(L) # <<>>
    BY <1>3, <2>1, <2>3 DEF Passed
  <2>5. /\ Len(HeaderName(L)) \in Nat /\ Len(Value(LineOf(L))) \in Nat
        /\ Len(HeaderName(L)) + Len(Value(LineOf(L))) < Len(L)
    BY <2>4, LineParts
  <2>6. PICK x \in Nat, y \in Nat, z \in Nat, t \in Nat :
          /\ x = Len(name) /\ y = Len(replyHeaders[name]) /\ z = Len(L) /\ t = Len(TextOf(written))
          /\ x + y < z /\ z <= t
    <3>1. Len(L) \in Nat
      OBVIOUS
    <3>2. QED
      BY <2>1, <2>3, <2>5, <3>1
  <2>7. x + y < t
    BY <2>6
  <2>8. QED
    BY <2>6, <2>7
<1>6. /\ replyStatus \in {0, STATUS_NO_CONTENT, UNPROCESSABLE_CONTENT, STATUS_BAD_GATEWAY}
      /\ replyStatus = STATUS_NO_CONTENT => outputStage = "check"
  <2>1. Checked(0, replyHeaders) \in {0, UNPROCESSABLE_CONTENT}
    BY DEF Checked
  <2>2. CASE outputStage \in {"read", "headers", "terminated"}
    <3>1. replyStatus = 0
      BY <1>3, <2>2 DEF StageAfter
    <3>2. QED
      BY <3>1 DEF STATUS_NO_CONTENT
  <2>3. CASE outputStage = "failed"
    <3>1. replyStatus = STATUS_BAD_GATEWAY
      BY <1>3, <2>3 DEF StageAfter
    <3>2. QED
      BY <3>1 DEF STATUS_NO_CONTENT, STATUS_BAD_GATEWAY
  <2>4. CASE outputStage = "check"
    <3>1. replyStatus = 0 \/ replyStatus = STATUS_NO_CONTENT
      BY <1>3, <2>4 DEF StageAfter
    <3>2. QED
      BY <2>4, <3>1
  <2>5. CASE outputStage = "composed"
    <3>1. replyStatus = Checked(0, replyHeaders)
      BY <1>3, <2>5 DEF StageAfter
    <3>2. QED
      BY <2>1, <3>1 DEF STATUS_NO_CONTENT, UNPROCESSABLE_CONTENT
  <2>6. QED
    BY <1>1, <2>2, <2>3, <2>4, <2>5
<1>7. QED
  BY <1>1, <1>4, <1>5, <1>6 DEF OutputTypeOK

\* The lines of the properties are those that were taken.
LEMMA LinesTaken ==
  ASSUME written \in Outputs, NEW k \in 0 .. Whole(written), BlankAt = k + 1
  PROVE  Len(Lines) = k /\ \A i \in 1 .. k : Lines[i] = written.lines[i] /\ written.lines[i] \in Seq(STRING)
<1>1. PICK m \in Nat : m = Whole(written)
  BY NoneTaken
<1>2. Len(Lines) = BlankAt - 1 /\ \A i \in 1 .. BlankAt - 1 : Lines[i] = written.lines[i]
  BY BlankIs
<1>3. BlankAt - 1 = k
  BY <1>1
<1>4. \A i \in 1 .. k : i \in 1 .. Whole(written)
  BY <1>1
<1>5. \A i \in 1 .. k : written.lines[i] \in Seq(STRING)
  BY <1>4, LineFits
<1>6. QED
  BY <1>2, <1>3, <1>5

LEMMA ComposedAsWritten ==
  ASSUME OutputIInv, outputStage = "composed"
  PROVE  StatusOfOutput /\ HeadersAsWritten /\ BodyAfterEmptyLine /\ OutputThrowCause
<1>1. written \in Outputs /\ echoed \in Chunks
  BY DEF OutputIInv
<1>2. PICK k \in 0 .. Whole(written) : OutputAfter(k)
  BY DEF OutputIInv
<1>3. /\ Passed(written, k) /\ HeadersOf(written, k, replyHeaders)
      /\ BlankAt = k + 1
      /\ replyBody = echoed \o TextOf(TailOf(written, k + 1))
      /\ ~Single(written)
      /\ replyStatus = Checked(0, replyHeaders)
  BY <1>2 DEF OutputAfter, StageAfter
<1>4. Len(Lines) = k /\ \A i \in 1 .. k : Lines[i] = written.lines[i] /\ written.lines[i] \in Seq(STRING)
  BY <1>1, <1>3, LinesTaken
<1>5. DOMAIN replyHeaders =
        {HeaderName(Lines[i]) : i \in {j \in 1 .. Len(Lines) : Holds(Lines[j], ":")}}
  <2>1. {j \in 1 .. Len(Lines) : Holds(Lines[j], ":")} = {j \in 1 .. k : Holds(written.lines[j], ":")}
    BY <1>4
  <2>2. \A i \in {j \in 1 .. k : Holds(written.lines[j], ":")} : HeaderName(Lines[i]) = HeaderName(written.lines[i])
    BY <1>4
  <2>3. DOMAIN replyHeaders = {HeaderName(written.lines[i]) : i \in {j \in 1 .. k : Holds(written.lines[j], ":")}}
    BY <1>3 DEF HeadersOf
  <2>4. QED
    BY <2>1, <2>2, <2>3
<1>6. StatusOfOutput
  <2>1. replyStatus = IF Required \cap DOMAIN replyHeaders = {} THEN UNPROCESSABLE_CONTENT ELSE 0
    BY <1>3 DEF Checked
  <2>2. Required \cap DOMAIN replyHeaders # {} <=>
          \E i \in 1 .. Len(Lines) : Holds(Lines[i], ":") /\ HeaderName(Lines[i]) \in Required
    BY <1>5
  <2>3. QED
    BY <2>1, <2>2 DEF StatusOfOutput
<1>7. HeadersAsWritten
  <2>1. ASSUME NEW i \in 1 .. Len(Lines),
               Holds(Lines[i], ":"), IsBlank(After(Lines[i])[1]),
               \A j \in i + 1 .. Len(Lines) : Holds(Lines[j], ":") => HeaderName(Lines[j]) # HeaderName(Lines[i])
        PROVE  SameWords(StrToLower(TrimComments(After(Lines[i]))), replyHeaders[HeaderName(Lines[i])])
    <3>1. PICK L \in Seq(STRING) : L = Lines[i] /\ L = written.lines[i] /\ i \in 1 .. k
      BY <1>4
    <3>2. After(L) # <<>>
      BY <1>3, <2>1, <3>1 DEF Passed
    <3>3. SameWords(StrToLower(TrimComments(After(L))), Value(LineOf(L)))
      BY <2>1, <3>1, <3>2, LineParts
    <3>4. LastOfName(written, k, i)
      <4>1. \A j \in i + 1 .. k : j \in 1 .. k /\ j \in i + 1 .. Len(Lines)
        BY <1>4, <3>1
      <4>2. QED
        BY <1>4, <2>1, <3>1, <4>1 DEF LastOfName
    <3>5. replyHeaders[HeaderName(L)] = Value(LineOf(L))
      BY <1>3, <2>1, <3>1, <3>4 DEF HeadersOf
    <3>6. QED
      BY <3>1, <3>3, <3>5
  <2>2. QED
    BY <1>5, <2>1 DEF HeadersAsWritten
<1>8. BodyAfterEmptyLine
  <2>1. TailOf(written, k + 1) = Output(From(written.lines, BlankAt + 1), written.ended)
    BY <1>3 DEF TailOf
  <2>2. QED
    BY <1>3, <2>1 DEF BodyAfterEmptyLine
<1>9. OutputThrowCause
  <2>1. ~\E i \in 1 .. Len(Lines) : Holds(Lines[i], ":") /\ After(Lines[i]) = <<>>
    BY <1>3, <1>4 DEF Passed
  <2>2. QED
    BY <1>3, <2>1 DEF OutputThrowCause, Single
<1>10. QED
  BY <1>6, <1>7, <1>8, <1>9

LEMMA TerminatedAsWritten ==
  ASSUME OutputIInv, outputStage = "terminated"
  PROVE  OutputThrowCause
<1>1. written \in Outputs
  BY DEF OutputIInv
<1>2. PICK k \in 0 .. Whole(written) : OutputAfter(k)
  BY DEF OutputIInv
<1>3. Passed(written, k) /\ (ThrowsAt(written, k + 1) \/ Single(written))
  BY <1>2 DEF OutputAfter, StageAfter
<1>4. CASE Single(written)
  BY <1>4 DEF OutputThrowCause, Single
<1>5. CASE ThrowsAt(written, k + 1)
  <2>1. /\ k + 1 <= Whole(written) /\ ~Blanks(written.lines[k + 1])
        /\ Holds(written.lines[k + 1], ":") /\ After(written.lines[k + 1]) = <<>>
    BY <1>5 DEF ThrowsAt
  <2>2. k + 1 < BlankAt
    BY <1>1, <1>3, <2>1, BlankAfter
  <2>3. /\ Whole(written) \in Nat /\ BlankAt \in 1 .. Whole(written) + 1
        /\ Len(Lines) = BlankAt - 1
        /\ \A i \in 1 .. BlankAt - 1 : Lines[i] = written.lines[i]
    BY <1>1, BlankIs
  <2>4. k + 1 \in 1 .. BlankAt - 1
    BY <2>2, <2>3
  <2>5. k + 1 \in 1 .. Len(Lines) /\ Holds(Lines[k + 1], ":") /\ After(Lines[k + 1]) = <<>>
    BY <2>1, <2>3, <2>4
  <2>6. QED
    BY <2>5 DEF OutputThrowCause
<1>6. QED
  BY <1>3, <1>4, <1>5

LEMMA OutputIInvAsWritten ==
  OutputIInv => OutputAsWritten
<1> SUFFICES ASSUME OutputIInv PROVE OutputAsWritten
  OBVIOUS
<1>1. OutputTypeOK
  BY OutputTyped
<1>2. CASE outputStage = "composed"
  BY <1>1, <1>2, ComposedAsWritten DEF OutputAsWritten
<1>3. CASE outputStage = "terminated"
  <2>1. StatusOfOutput /\ HeadersAsWritten /\ BodyAfterEmptyLine
    BY <1>3 DEF StatusOfOutput, HeadersAsWritten, BodyAfterEmptyLine
  <2>2. QED
    BY <1>1, <1>3, <2>1, TerminatedAsWritten DEF OutputAsWritten
<1>4. CASE outputStage # "composed" /\ outputStage # "terminated"
  BY <1>1, <1>4 DEF OutputAsWritten, StatusOfOutput, HeadersAsWritten, BodyAfterEmptyLine, OutputThrowCause
<1>5. QED
  BY <1>2, <1>3, <1>4

\* Whatever a process writes, line by line and to its end or not, the status,
\* the headers and the body of a reply are those that follow from the lines,
\* and only the lines named end the server (CGI.cpp:209-275).
THEOREM OutputAlwaysAsWritten ==
  OutputSpec => []OutputAsWritten
<1>1. OutputInit => OutputIInv
  BY OutputIInvInit
<1>2. OutputIInv /\ [OutputNext]_outputVars => OutputIInv'
  BY OutputIInvNext
<1>3. OutputIInv => OutputAsWritten
  BY OutputIInvAsWritten
<1>4. QED
  BY <1>1, <1>2, <1>3, PTL DEF OutputSpec
=============================================================================
