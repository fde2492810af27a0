---------------------------- MODULE StringProofs ----------------------------
(***************************************************************************)
(* Lemmas about the operations on strings in StdString and Text, and about *)
(* functions that are defined by recursion along one, where a least        *)
(* counterexample takes the place of induction.                            *)
(***************************************************************************)
EXTENDS Text, SequenceTheorems, FiniteSetTheorems, WellFoundedInduction, TLAPS

LEMMA LenIsNat ==
  ASSUME NEW T, NEW s \in Seq(T)
  PROVE  Len(s) \in Nat
  OBVIOUS

LEMMA LeastNat ==
  ASSUME NEW T \in SUBSET Nat, T # {}
  PROVE  \E x \in T : \A y \in T : x <= y
<1>1. PICK x \in T : \A y \in T : ~ (<<y, x>> \in OpToRel(<, Nat))
  BY NatLessThanWellFounded, WFMin
<1>2. \A y \in T : ~ (y < x)
  BY <1>1 DEF OpToRel
<1>3. QED
  BY <1>2

\* The smallest of a set of numbers is one of it.
LEMMA MinIs ==
  ASSUME NEW T \in SUBSET Nat, T # {}
  PROVE  Min(T) \in T /\ \A y \in T : Min(T) <= y
<1>1. \E x \in T : \A y \in T : x <= y
  BY LeastNat
<1>2. QED
  BY <1>1 DEF Min

LEMMA GreatestNat ==
  ASSUME NEW T \in SUBSET Nat, T # {}, NEW n \in Nat, \A x \in T : x <= n
  PROVE  \E x \in T : \A y \in T : y <= x
<1> DEFINE U == {u \in Nat : \E x \in T : u = n - x}
<1>1. \A x \in T : n - x \in U
  OBVIOUS
<1>2. PICK u \in U : \A v \in U : u <= v
  BY <1>1, LeastNat
<1>3. PICK x \in T : u = n - x
  OBVIOUS
<1>4. \A y \in T : n - x <= n - y
  BY <1>1, <1>2, <1>3
<1>5. QED
  BY <1>4

LEMMA MaxIs ==
  ASSUME NEW T \in SUBSET Nat, T # {}, NEW n \in Nat, \A x \in T : x <= n
  PROVE  Max(T) \in T /\ \A y \in T : y <= Max(T)
<1>1. \E x \in T : \A y \in T : x >= y
  <2>1. PICK x \in T : \A y \in T : y <= x
    BY GreatestNat
  <2>2. \A y \in T : x >= y
    BY <2>1
  <2>3. QED
    BY <2>2
<1>2. Max(T) \in T /\ \A y \in T : Max(T) >= y
  BY <1>1 DEF Max
<1>3. QED
  BY <1>2

\* Induction along a sequence, over a set of numbers.
LEMMA Along ==
  ASSUME NEW n \in Nat, NEW P, 0 \in P, \A k \in 1 .. n : k - 1 \in P => k \in P
  PROVE  \A k \in 0 .. n : k \in P
<1> DEFINE T == {k \in 0 .. n : k \notin P}
<1>1. SUFFICES ASSUME T # {} PROVE FALSE
  OBVIOUS
<1>2. T \in SUBSET Nat
  OBVIOUS
<1>3. PICK x \in T : \A y \in T : x <= y
  <2> HIDE DEF T
  <2>1. QED
    BY <1>1, <1>2, LeastNat
<1>4. x \in 1 .. n /\ x - 1 \in 0 .. n
  BY <1>3
<1>5. x - 1 \in P
  BY <1>3, <1>4
<1>6. QED
  BY <1>3, <1>4, <1>5

\* A function that is given by its first value and by what each step makes of
\* the value before.
Steps(f, n, v, step) == f[0] = v /\ \A i \in 1 .. n : f[i] = step[i][f[i - 1]]

LEMMA RecursionExists ==
  ASSUME NEW S, NEW n \in Nat, NEW v \in S, NEW step \in [1 .. n -> [S -> S]]
  PROVE  \E f \in [0 .. n -> S] : Steps(f, n, v, step)
<1> DEFINE P == {m \in 0 .. n : \E f \in [0 .. m -> S] : Steps(f, m, v, step)}
<1>1. 0 \in P
  <2> DEFINE f == [i \in 0 .. 0 |-> v]
  <2>1. f \in [0 .. 0 -> S] /\ Steps(f, 0, v, step)
    BY DEF Steps
  <2>2. QED
    BY <2>1
<1>2. ASSUME NEW k \in 1 .. n, k - 1 \in P PROVE k \in P
  <2>1. PICK g \in [0 .. k - 1 -> S] : Steps(g, k - 1, v, step)
    BY <1>2
  <2> DEFINE f == [i \in 0 .. k |-> IF i = k THEN step[k][g[k - 1]] ELSE g[i]]
  <2>2. step[k][g[k - 1]] \in S
    OBVIOUS
  <2>3. f \in [0 .. k -> S]
    BY <2>2
  <2>4. \A i \in 0 .. k - 1 : f[i] = g[i]
    OBVIOUS
  <2>5. f[k] = step[k][g[k - 1]]
    OBVIOUS
  <2> HIDE DEF f
  <2>6. Steps(f, k, v, step)
    BY <2>1, <2>4, <2>5 DEF Steps
  <2>7. QED
    BY <2>3, <2>6
<1>3. n \in P
  <2> HIDE DEF P
  <2>1. \A k \in 0 .. n : k \in P
    BY <1>1, <1>2, Along
  <2>2. QED
    BY <2>1
<1>4. QED
  BY <1>3

LEMMA FunctionIsSeq ==
  ASSUME NEW S, NEW n \in Nat, NEW f \in [1 .. n -> S]
  PROVE  f \in Seq(S) /\ Len(f) = n
<1>1. f \in Seq(S)
  BY SeqDef
<1>2. Len(f) \in Nat /\ DOMAIN f = 1 .. Len(f)
  BY <1>1, LenProperties
<1>3. QED
  BY <1>1, <1>2

LEMMA SuffixIs ==
  ASSUME NEW T, NEW t \in Seq(T), NEW s \in 0 .. Len(t), NEW k \in 0 .. s
  PROVE  /\ SubSeq(t, k + 1, s) \in Seq(T)
         /\ Len(SubSeq(t, k + 1, s)) = s - k
         /\ \A i \in 1 .. s - k : SubSeq(t, k + 1, s)[i] = t[k + i]
         /\ k = s => SubSeq(t, k + 1, s) = <<>>
<1>1. k + 1 \in Int /\ s \in Int /\ \A i \in k + 1 .. s : t[i] \in T
  BY ElementOfSeq
<1>2. /\ SubSeq(t, k + 1, s) \in Seq(T)
      /\ Len(SubSeq(t, k + 1, s)) = IF k + 1 <= s THEN s - (k + 1) + 1 ELSE 0
      /\ \A i \in 1 .. s - (k + 1) + 1 : SubSeq(t, k + 1, s)[i] = t[(k + 1) + i - 1]
  BY <1>1, SubSeqProperties
<1>3. k = s => SubSeq(t, k + 1, s) = <<>>
  BY SubSeqEmpty
<1>4. s - (k + 1) + 1 = s - k /\ \A i \in 1 .. s - k : (k + 1) + i - 1 = k + i
  OBVIOUS
<1>5. Len(SubSeq(t, k + 1, s)) = s - k
  BY <1>2
<1>6. QED
  BY <1>2, <1>3, <1>4, <1>5

\* Erasing more than there is erases everything.
LEMMA SuffixErase ==
  ASSUME NEW T, NEW t \in Seq(T), NEW s \in 0 .. Len(t), NEW k \in 0 .. s, NEW n \in Nat
  PROVE  Erase(SubSeq(t, k + 1, s), n) = SubSeq(t, (IF k + n <= s THEN k + n ELSE s) + 1, s)
<1> DEFINE b == SubSeq(t, k + 1, s)
           m == IF k + n <= s THEN k + n ELSE s
           c == SubSeq(t, m + 1, s)
           e == SubSeq(b, n + 1, Len(b))
<1>1. b \in Seq(T) /\ Len(b) = s - k /\ \A i \in 1 .. s - k : b[i] = t[k + i]
  BY SuffixIs
<1>2. m \in 0 .. s
  OBVIOUS
<1>3. c \in Seq(T) /\ Len(c) = s - m /\ \A i \in 1 .. s - m : c[i] = t[m + i]
  BY <1>2, SuffixIs
<1> HIDE DEF b, c
<1>4. CASE k + n <= s
  <2>1. PICK l \in Nat : l = Len(b)
    BY <1>1
  <2>2. n \in 0 .. l /\ l \in 0 .. Len(b)
    BY <1>1, <1>4, <2>1
  <2>3. /\ SubSeq(b, n + 1, l) \in Seq(T) /\ Len(SubSeq(b, n + 1, l)) = l - n
        /\ \A i \in 1 .. l - n : SubSeq(b, n + 1, l)[i] = b[n + i]
    BY <1>1, <2>2, SuffixIs
  <2>4. e \in Seq(T) /\ Len(e) = Len(b) - n /\ \A i \in 1 .. Len(b) - n : e[i] = b[n + i]
    BY <2>1, <2>3
  <2> HIDE DEF e
  <2>5. Len(e) = Len(c) /\ \A i \in 1 .. Len(e) : e[i] = c[i]
    BY <1>1, <1>3, <1>4, <2>4
  <2>6. e = c
    BY <1>3, <2>4, <2>5, SeqEqual
  <2>7. QED
    BY <2>6 DEF Erase, e, b, c
<1>5. CASE ~ (k + n <= s)
  <2>1. Len(b) < n + 1 /\ n + 1 \in Int /\ Len(b) \in Int
    BY <1>1, <1>5
  <2>2. e = <<>>
    BY <2>1, SubSeqEmpty
  <2>3. c = <<>>
    BY <1>3, <1>5
  <2>4. QED
    BY <2>2, <2>3 DEF Erase, b, c
<1>6. QED
  BY <1>4, <1>5

LEMMA SubstrIs ==
  ASSUME NEW T, NEW b \in Seq(T), NEW n \in 0 .. Len(b)
  PROVE  Substr(b, n) \in Seq(T) /\ Len(Substr(b, n)) = n /\ \A i \in 1 .. n : Substr(b, n)[i] = b[i]
<1>1. \E x \in {n, Len(b)} : \A y \in {n, Len(b)} : x <= y
  OBVIOUS
<1>2. Min({n, Len(b)}) = n
  <2> DEFINE m == Min({n, Len(b)})
  <2>1. m \in {n, Len(b)} /\ \A y \in {n, Len(b)} : m <= y
    BY <1>1, Zenon DEF Min
  <2> HIDE DEF m
  <2>2. QED
    BY <2>1 DEF m
<1>3. 1 \in Int /\ n \in Int /\ \A i \in 1 .. n : b[i] \in T
  BY ElementOfSeq
<1>4. /\ SubSeq(b, 1, n) \in Seq(T)
      /\ Len(SubSeq(b, 1, n)) = IF 1 <= n THEN n - 1 + 1 ELSE 0
      /\ \A i \in 1 .. n - 1 + 1 : SubSeq(b, 1, n)[i] = b[1 + i - 1]
  BY <1>3, SubSeqProperties
<1>5. n - 1 + 1 = n /\ \A i \in 1 .. n : 1 + i - 1 = i
  OBVIOUS
<1>6. Len(SubSeq(b, 1, n)) = n
  BY <1>4
<1>7. QED
  BY <1>2, <1>4, <1>5, <1>6 DEF Substr

\* A beginning of t and what follows it make a longer beginning.
LEMMA Longer ==
  ASSUME NEW T, NEW t \in Seq(T), NEW a \in Nat, NEW n \in Nat, a + n <= Len(t),
         NEW S, NEW u \in Seq(S), Len(u) = n, \A i \in 1 .. n : u[i] = t[a + i]
  PROVE  SubSeq(t, 1, a) \o u = SubSeq(t, 1, a + n)
<1> DEFINE s == a + n
           v == SubSeq(t, a + 1, s)
<1>1. s \in 0 .. Len(t) /\ a \in 0 .. s
  OBVIOUS
<1> HIDE DEF s
<1>2. v \in Seq(T) /\ Len(v) = s - a /\ \A i \in 1 .. s - a : v[i] = t[a + i]
  BY <1>1, SuffixIs
<1> HIDE DEF v
<1>3. s - a = n
  BY DEF s
<1>4. u \in Seq(T)
  <2>1. \A i \in 1 .. Len(u) : u[i] \in T
    <3>1. \A i \in 1 .. Len(u) : v[i] \in T
      BY <1>2, <1>3, ElementOfSeq
    <3>2. QED
      BY <1>2, <1>3, <3>1
  <2>2. QED
    BY <2>1
<1>5. u = v
  BY <1>2, <1>3, <1>4, SeqEqual
<1>6. 1 \in 1 .. Len(t) + 1 /\ a \in 1 - 1 .. Len(t) /\ s \in a .. Len(t)
  BY <1>1
<1>7. SubSeq(t, 1, a) \o SubSeq(t, a + 1, s) = SubSeq(t, 1, s)
  BY <1>6, ConcatAdjacentSubSeq
<1>8. QED
  BY <1>5, <1>7 DEF v, s

\* The first and the last place where a character is.
LEMMA FindIs ==
  ASSUME NEW T, NEW s \in Seq(T), NEW c
  PROVE  /\ Find(s, c) \in 0 .. Len(s)
         /\ Find(s, c) = 0 => \A i \in 1 .. Len(s) : s[i] # c
         /\ Find(s, c) # 0 => s[Find(s, c)] = c /\ \A i \in 1 .. Find(s, c) - 1 : s[i] # c
<1> DEFINE at == {i \in 1 .. Len(s) : s[i] = c}
<1>1. Find(s, c) = IF at # {} THEN Min(at) ELSE 0
  BY DEF Find, SelectInSeq
<1>2. at # {} => Min(at) \in at /\ \A y \in at : Min(at) <= y
  <2>1. at \in SUBSET Nat
    OBVIOUS
  <2> HIDE DEF at
  <2>2. QED
    BY <2>1, MinIs
<1>3. PICK l \in Nat : l = Len(s)
  OBVIOUS
<1>4. CASE at = {}
  BY <1>1, <1>3, <1>4
<1>5. CASE at # {}
  <2>1. PICK x \in 1 .. l : x = Min(at) /\ s[x] = c /\ \A y \in at : x <= y
    BY <1>2, <1>3, <1>5
  <2>2. \A i \in 1 .. x - 1 : s[i] # c
    BY <1>3, <2>1
  <2>3. Find(s, c) = x
    BY <1>1, <1>5, <2>1
  <2>4. QED
    BY <1>3, <2>1, <2>2, <2>3
<1>6. QED
  BY <1>4, <1>5

\* The last of a set of places, or 0.
LEMMA LastPlace ==
  ASSUME NEW n \in Nat, NEW at \in SUBSET (1 .. n), NEW m, m = IF at # {} THEN Max(at) ELSE 0
  PROVE  /\ m \in 0 .. n
         /\ m = 0 => at = {}
         /\ m # 0 => m \in at
         /\ \A y \in at : y <= m
<1>1. CASE at = {}
  BY <1>1
<1>2. CASE at # {}
  <2>1. at \in SUBSET Nat /\ \A x \in at : x <= n
    OBVIOUS
  <2>2. Max(at) \in at /\ \A y \in at : y <= Max(at)
    BY <1>2, <2>1, MaxIs
  <2>3. m = Max(at)
    BY <1>2
  <2>4. m \in at
    BY <2>2, <2>3
  <2>5. m \in 1 .. n
    BY <2>4
  <2>6. QED
    BY <2>2, <2>3, <2>4, <2>5
<1>3. QED
  BY <1>1, <1>2

\* A beginning and an end of a sequence.
LEMMA UptoIs ==
  ASSUME NEW T, NEW s \in Seq(T), NEW n \in 0 .. Len(s)
  PROVE  /\ Upto(s, n) \in Seq(T) /\ Len(Upto(s, n)) = n
         /\ \A i \in 1 .. n : Upto(s, n)[i] = s[i]
<1>1. n \in 0 .. Len(s) /\ 0 \in 0 .. n
  OBVIOUS
<1>2. /\ SubSeq(s, 0 + 1, n) \in Seq(T)
      /\ Len(SubSeq(s, 0 + 1, n)) = n - 0
      /\ \A i \in 1 .. n - 0 : SubSeq(s, 0 + 1, n)[i] = s[0 + i]
  BY <1>1, SuffixIs
<1>3. 0 + 1 = 1 /\ n - 0 = n /\ \A i \in 1 .. n : 0 + i = i
  OBVIOUS
<1>4. QED
  BY <1>2, <1>3 DEF Upto

LEMMA FromIs ==
  ASSUME NEW T, NEW s \in Seq(T), NEW k \in 0 .. Len(s)
  PROVE  /\ From(s, k + 1) \in Seq(T) /\ Len(From(s, k + 1)) = Len(s) - k
         /\ \A i \in 1 .. Len(s) - k : From(s, k + 1)[i] = s[k + i]
<1>1. Len(s) \in 0 .. Len(s) /\ k \in 0 .. Len(s)
  OBVIOUS
<1>2. QED
  BY <1>1, SuffixIs DEF From

LEMMA WholeIs ==
  ASSUME NEW T, NEW s \in Seq(T)
  PROVE  From(s, 1) = s /\ Upto(s, Len(s)) = s
<1>1. PICK l \in Nat : l = Len(s)
  OBVIOUS
<1>2. From(s, 0 + 1) \in Seq(T) /\ Len(From(s, 0 + 1)) = l - 0 /\ \A i \in 1 .. l - 0 : From(s, 0 + 1)[i] = s[0 + i]
  <2>1. 0 \in 0 .. Len(s)
    BY <1>1
  <2>2. QED
    BY <1>1, <2>1, FromIs
<1>3. Upto(s, l) \in Seq(T) /\ Len(Upto(s, l)) = l /\ \A i \in 1 .. l : Upto(s, l)[i] = s[i]
  <2>1. l \in 0 .. Len(s)
    BY <1>1
  <2>2. QED
    BY <2>1, UptoIs
<1>4. 0 + 1 = 1 /\ l - 0 = l /\ \A i \in 1 .. l : 0 + i = i
  OBVIOUS
<1>5. From(s, 1) \in Seq(T) /\ Len(From(s, 1)) = l /\ \A i \in 1 .. l : From(s, 1)[i] = s[i]
  BY <1>2, <1>4
<1>6. QED
  BY <1>1, <1>3, <1>5, SeqEqual

\* A beginning and the rest make the whole.
LEMMA SplitIs ==
  ASSUME NEW T, NEW s \in Seq(T), NEW k \in 0 .. Len(s)
  PROVE  Upto(s, k) \o From(s, k + 1) = s
<1>1. PICK l \in Nat : l = Len(s)
  OBVIOUS
<1>2. 1 \in 1 .. Len(s) + 1 /\ k \in 1 - 1 .. Len(s) /\ l \in k .. Len(s)
  BY <1>1
<1>3. SubSeq(s, 1, k) \o SubSeq(s, k + 1, l) = SubSeq(s, 1, l)
  BY <1>2, ConcatAdjacentSubSeq
<1>4. QED
  BY <1>1, <1>3, WholeIs DEF Upto, From

\* A beginning grows by the element behind it.
LEMMA UptoGrows ==
  ASSUME NEW T, NEW s \in Seq(T), NEW k \in 1 .. Len(s)
  PROVE  Append(Upto(s, k - 1), s[k]) = Upto(s, k)
<1> DEFINE a == Upto(s, k - 1)
           b == Upto(s, k)
<1>1. PICK l \in Nat : l = Len(s)
  BY LenIsNat
<1>2. k - 1 \in 0 .. Len(s) /\ k \in 0 .. Len(s) /\ s[k] \in T
  BY <1>1, ElementOfSeq
<1>3. /\ a \in Seq(T) /\ Len(a) = k - 1 /\ \A i \in 1 .. k - 1 : a[i] = s[i]
      /\ b \in Seq(T) /\ Len(b) = k /\ \A i \in 1 .. k : b[i] = s[i]
  BY <1>2, UptoIs
<1> HIDE DEF a, b
<1>4. PICK x \in T : x = s[k]
  BY <1>2
<1>5. /\ Append(a, x) \in Seq(T) /\ Len(Append(a, x)) = Len(a) + 1
      /\ (\A i \in 1 .. Len(a) : Append(a, x)[i] = a[i]) /\ Append(a, x)[Len(a) + 1] = x
  BY <1>3, AppendProperties
<1>6. Len(Append(a, x)) = Len(b)
  BY <1>1, <1>3, <1>5
<1>7. ASSUME NEW i \in 1 .. k PROVE Append(a, x)[i] = b[i]
  <2>1. CASE i = k
    <3>1. k - 1 + 1 = k
      BY <1>1
    <3>2. QED
      BY <1>3, <1>4, <1>5, <2>1, <3>1
  <2>2. CASE i # k
    <3>1. i \in 1 .. k - 1
      BY <1>1, <2>2
    <3>2. QED
      BY <1>3, <1>5, <3>1
  <2>3. QED
    BY <2>1, <2>2
<1>8. Append(a, x) = b
  BY <1>3, <1>5, <1>6, <1>7, SeqEqual
<1>9. QED
  BY <1>4, <1>8 DEF a, b

\* The beginning of a beginning, and the end of an end.
LEMMA UptoUpto ==
  ASSUME NEW T, NEW s \in Seq(T), NEW n \in 0 .. Len(s), NEW m \in 0 .. n
  PROVE  Upto(Upto(s, n), m) = Upto(s, m)
<1> DEFINE u == Upto(s, n)
           v == Upto(s, m)
           w == Upto(u, m)
<1>1. u \in Seq(T) /\ Len(u) = n /\ \A i \in 1 .. n : u[i] = s[i]
  BY UptoIs
<1>2. v \in Seq(T) /\ Len(v) = m /\ \A i \in 1 .. m : v[i] = s[i]
  <2>1. m \in 0 .. Len(s)
    OBVIOUS
  <2>2. QED
    BY <2>1, UptoIs
<1> HIDE DEF u, v
<1>3. w \in Seq(T) /\ Len(w) = m /\ \A i \in 1 .. m : w[i] = u[i]
  <2>1. m \in 0 .. Len(u)
    BY <1>1
  <2>2. QED
    BY <1>1, <2>1, UptoIs
<1> HIDE DEF w
<1>4. \A i \in 1 .. m : w[i] = v[i]
  BY <1>1, <1>2, <1>3
<1>5. w = v
  BY <1>2, <1>3, <1>4, SeqEqual
<1>6. QED
  BY <1>5 DEF u, v, w

LEMMA FromFrom ==
  ASSUME NEW T, NEW s \in Seq(T), NEW k \in 0 .. Len(s), NEW j \in 0 .. Len(s) - k
  PROVE  From(From(s, k + 1), j + 1) = From(s, k + j + 1)
<1> DEFINE u == From(s, k + 1)
           v == From(s, (k + j) + 1)
           w == From(u, j + 1)
<1>0. PICK l \in Nat : l = Len(s)
  OBVIOUS
<1>1. u \in Seq(T) /\ Len(u) = l - k /\ \A i \in 1 .. l - k : u[i] = s[k + i]
  BY <1>0, FromIs
<1>2. v \in Seq(T) /\ Len(v) = l - (k + j) /\ \A i \in 1 .. l - (k + j) : v[i] = s[(k + j) + i]
  <2>1. k + j \in 0 .. Len(s)
    BY <1>0
  <2>2. QED
    BY <1>0, <2>1, FromIs
<1> HIDE DEF u, v
<1>3. w \in Seq(T) /\ Len(w) = Len(u) - j /\ \A i \in 1 .. Len(u) - j : w[i] = u[j + i]
  <2>1. j \in 0 .. Len(u)
    BY <1>0, <1>1
  <2>2. QED
    BY <1>1, <2>1, FromIs
<1> HIDE DEF w
<1>4. Len(w) = Len(v)
  BY <1>0, <1>1, <1>2, <1>3
<1>5. ASSUME NEW i \in 1 .. l - (k + j) PROVE w[i] = v[i]
  <2>1. i \in 1 .. Len(u) - j /\ j + i \in 1 .. l - k /\ k + (j + i) = (k + j) + i
    BY <1>0, <1>1
  <2>2. QED
    BY <1>1, <1>2, <1>3, <2>1
<1>6. w = v
  BY <1>0, <1>2, <1>3, <1>4, <1>5, SeqEqual
<1>7. QED
  BY <1>6 DEF u, v, w

\* The pieces of a flattened sequence, one after the other.
IsFlat(f, u, n, T) ==
  /\ n \in Nat
  /\ \A i \in 1 .. n : u[i] \in Seq(T)
  /\ f \in [0 .. n -> Seq(T)]
  /\ f[0] = <<>>
  /\ \A i \in 1 .. n : f[i] = f[i - 1] \o u[i]

LEMMA FlatExists ==
  ASSUME NEW T, NEW n \in Nat, NEW u, \A i \in 1 .. n : u[i] \in Seq(T)
  PROVE  \E f \in [0 .. n -> Seq(T)] : IsFlat(f, u, n, T)
<1> DEFINE step == [i \in 1 .. n |-> [x \in Seq(T) |-> x \o u[i]]]
<1>1. step \in [1 .. n -> [Seq(T) -> Seq(T)]]
  <2>1. \A i \in 1 .. n, x \in Seq(T) : x \o u[i] \in Seq(T)
    BY ConcatProperties
  <2>2. QED
    BY <2>1
<1>2. <<>> \in Seq(T)
  OBVIOUS
<1>3. PICK f \in [0 .. n -> Seq(T)] : Steps(f, n, <<>>, step)
  <2> HIDE DEF step
  <2>1. QED
    BY <1>1, <1>2, RecursionExists
<1>4. \A i \in 1 .. n : f[i - 1] \in Seq(T)
  OBVIOUS
<1>5. IsFlat(f, u, n, T)
  BY <1>3, <1>4 DEF IsFlat, Steps
<1>6. QED
  BY <1>5

LEMMA FlattenIs ==
  ASSUME NEW T, NEW n, NEW u, NEW f, IsFlat(f, u, n, T), Len(u) = n, n = 0 => u = <<>>
  PROVE  FlattenSeq(u) = f[n]
<1> DEFINE F(h) == [i \in 1 .. n |-> IF i = 1 THEN u[i] ELSE h[i - 1] \o u[i]]
           g == CHOOSE h : h = F(h)
           k == [i \in 1 .. n |-> f[i]]
<1>0. n \in Nat /\ f \in [0 .. n -> Seq(T)] /\ \A i \in 1 .. n : u[i] \in Seq(T)
  BY DEF IsFlat
<1>1. CASE n = 0
  BY <1>1 DEF FlattenSeq, IsFlat
<1>2. CASE n # 0
  <2>1. FlattenSeq(u) = g[n]
    BY <1>2 DEF FlattenSeq
  <2>2. k = F(k)
    <3>1. ASSUME NEW i \in 1 .. n PROVE k[i] = F(k)[i]
      <4>1. CASE i = 1
        <5>1. f[i] = f[i - 1] \o u[i] /\ f[0] = <<>>
          BY DEF IsFlat
        <5>2. i - 1 = 0
          BY <4>1
        <5>3. <<>> \o u[i] = u[i]
          BY ConcatEmptySeq
        <5>4. f[i] = u[i]
          BY <5>1, <5>2, <5>3
        <5>5. QED
          BY <4>1, <5>4
      <4>2. CASE i # 1
        <5>1. i - 1 \in 1 .. n
          BY <4>2
        <5>2. QED
          BY <4>2, <5>1 DEF IsFlat
      <4>3. QED
        BY <4>1, <4>2
    <3>2. QED
      BY <3>1
  <2>3. g = F(g)
    <3> HIDE DEF F, k
    <3>1. QED
      BY <2>2
  <2> DEFINE P == {i \in 0 .. n : i # 0 => g[i] = f[i]}
  <2>4. \A i \in 1 .. n : g[i] = IF i = 1 THEN u[i] ELSE g[i - 1] \o u[i]
    <3> DEFINE G == F(g)
    <3>1. \A i \in 1 .. n : G[i] = IF i = 1 THEN u[i] ELSE g[i - 1] \o u[i]
      <4> HIDE DEF g
      <4>1. QED
        OBVIOUS
    <3>2. g = G
      BY <2>3
    <3> HIDE DEF G, g
    <3>3. QED
      BY <3>1, <3>2
  <2>5. \A i \in 1 .. n : k[i] = IF i = 1 THEN u[i] ELSE k[i - 1] \o u[i]
    <3> DEFINE K == F(k)
    <3>1. \A i \in 1 .. n : K[i] = IF i = 1 THEN u[i] ELSE k[i - 1] \o u[i]
      <4> HIDE DEF k
      <4>1. QED
        OBVIOUS
    <3>2. k = K
      BY <2>2
    <3> HIDE DEF K, k
    <3>3. QED
      BY <3>1, <3>2
  <2> HIDE DEF g
  <2>6. ASSUME NEW i \in 1 .. n, i - 1 \in P PROVE i \in P
    <3>1. CASE i = 1
      <4>1. g[i] = u[i]
        BY <2>4, <3>1
      <4>2. k[i] = u[i]
        <5> HIDE DEF k
        <5>1. QED
          BY <2>5, <3>1
      <4>3. QED
        BY <4>1, <4>2
    <3>2. CASE i # 1
      <4>1. i - 1 \in 1 .. n /\ g[i - 1] = f[i - 1]
        BY <2>6, <3>2
      <4>2. g[i] = g[i - 1] \o u[i]
        BY <2>4, <3>2
      <4>3. f[i] = f[i - 1] \o u[i]
        BY DEF IsFlat
      <4>4. g[i] = f[i]
        BY <4>1, <4>2, <4>3
      <4>5. QED
        BY <4>4
    <3>3. QED
      BY <3>1, <3>2
  <2>7. 0 \in P
    OBVIOUS
  <2>8. \A i \in 0 .. n : i \in P
    <3> HIDE DEF P
    <3>1. QED
      BY <1>0, <2>6, <2>7, Along
  <2>9. n \in 0 .. n
    OBVIOUS
  <2>10. g[n] = f[n]
    BY <1>2, <2>8, <2>9
  <2>11. QED
    BY <2>1, <2>10
<1>3. QED
  BY <1>1, <1>2

\* Where they are: each ends as far behind the one before as it is long, and
\* every place is in one of them.
PieceAt(f, u, k) ==
  /\ Len(f[k - 1]) \in Nat /\ Len(u[k]) \in Nat
  /\ Len(f[k]) = Len(f[k - 1]) + Len(u[k])
  /\ \A p \in 1 .. Len(f[k - 1]) : f[k][p] = f[k - 1][p]
  /\ \A j \in 1 .. Len(u[k]) : f[k][Len(f[k - 1]) + j] = u[k][j]

Begins(f, k, m) == Len(f[k]) <= Len(f[m]) /\ \A p \in 1 .. Len(f[k]) : f[m][p] = f[k][p]

Placed(f, u, p, m) == \E k \in 1 .. m : \E j \in 1 .. Len(u[k]) : p = Len(f[k - 1]) + j

LEMMA FlatLengths ==
  ASSUME NEW T, NEW n, NEW u, NEW f, IsFlat(f, u, n, T)
  PROVE  Len(f[0]) = 0 /\ \A k \in 1 .. n : PieceAt(f, u, k)
<1>0. n \in Nat /\ f \in [0 .. n -> Seq(T)] /\ \A i \in 1 .. n : u[i] \in Seq(T)
  BY DEF IsFlat
<1>1. ASSUME NEW k \in 1 .. n
      PROVE  /\ Len(f[k - 1]) \in Nat /\ Len(u[k]) \in Nat
             /\ Len(f[k]) = Len(f[k - 1]) + Len(u[k])
             /\ \A p \in 1 .. Len(f[k - 1]) : f[k][p] = f[k - 1][p]
             /\ \A j \in 1 .. Len(u[k]) : f[k][Len(f[k - 1]) + j] = u[k][j]
  <2>1. PICK s \in Seq(T), t \in Seq(T) : s = f[k - 1] /\ t = u[k]
    BY DEF IsFlat
  <2>2. PICK a \in Nat, b \in Nat : a = Len(s) /\ b = Len(t)
    OBVIOUS
  <2>3. f[k] = s \o t
    BY <2>1 DEF IsFlat
  <2>4. /\ Len(s \o t) = Len(s) + Len(t)
        /\ \A i \in 1 .. Len(s) + Len(t) :
             (s \o t)[i] = IF i <= Len(s) THEN s[i] ELSE t[i - Len(s)]
    BY ConcatProperties
  <2>5. Len(f[k]) = a + b /\ \A i \in 1 .. a + b : f[k][i] = IF i <= a THEN s[i] ELSE t[i - a]
    BY <2>2, <2>3, <2>4
  <2>6. \A p \in 1 .. a : f[k][p] = s[p]
    <3>1. \A p \in 1 .. a : p \in 1 .. a + b /\ p <= a
      OBVIOUS
    <3>2. QED
      BY <2>5, <3>1
  <2>7. \A j \in 1 .. b : a + j \in 1 .. a + b /\ ~(a + j <= a) /\ (a + j) - a = j
    OBVIOUS
  <2>8. \A j \in 1 .. b : f[k][a + j] = t[j]
    BY <2>5, <2>7
  <2>9. QED
    BY <2>1, <2>2, <2>5, <2>6, <2>8
<1>2. QED
  BY <1>1 DEF IsFlat, PieceAt

LEMMA FlatPrefixes ==
  ASSUME NEW T, NEW n, NEW u, NEW f, IsFlat(f, u, n, T)
  PROVE  \A m \in 0 .. n : /\ \A k \in 0 .. m : Begins(f, k, m)
                            /\ \A p \in 1 .. Len(f[m]) : Placed(f, u, p, m)
<1> DEFINE Q(m) == /\ \A k \in 0 .. m : Begins(f, k, m)
                   /\ \A p \in 1 .. Len(f[m]) : Placed(f, u, p, m)
           P == {m \in 0 .. n : Q(m)}
<1>0. n \in Nat /\ f \in [0 .. n -> Seq(T)] /\ \A i \in 1 .. n : u[i] \in Seq(T)
  BY DEF IsFlat
<1>1. Len(f[0]) = 0 /\ \A k \in 1 .. n : PieceAt(f, u, k)
  BY FlatLengths
<1>2. \A k \in 0 .. n : Len(f[k]) \in Nat
  BY <1>0
<1>3. Q(0)
  <2>1. Len(f[0]) = 0
    BY <1>1
  <2>2. \A p \in 1 .. Len(f[0]) : FALSE
    BY <2>1
  <2>3. \A k \in 0 .. 0 : k = 0
    OBVIOUS
  <2>4. Begins(f, 0, 0)
    BY <2>1, <2>2 DEF Begins
  <2>5. QED
    BY <2>2, <2>3, <2>4
<1>4. ASSUME NEW m \in 1 .. n, Q(m - 1) PROVE Q(m)
  <2>1. PICK a \in Nat, b \in Nat :
          /\ a = Len(f[m - 1]) /\ b = Len(u[m]) /\ Len(f[m]) = a + b
          /\ \A p \in 1 .. a : f[m][p] = f[m - 1][p]
    <3>1. /\ Len(f[m - 1]) \in Nat /\ Len(u[m]) \in Nat
          /\ Len(f[m]) = Len(f[m - 1]) + Len(u[m])
          /\ \A p \in 1 .. Len(f[m - 1]) : f[m][p] = f[m - 1][p]
      BY <1>1 DEF PieceAt
    <3> HIDE DEF Q
    <3>2. QED
      BY <3>1
  <2>2. ASSUME NEW k \in 0 .. m PROVE Begins(f, k, m)
    <3>1. CASE k = m
      BY <1>0, <1>2, <3>1 DEF Begins
    <3>2. CASE k # m
      <4>1. k \in 0 .. m - 1 /\ k \in 0 .. n
        BY <1>0, <3>2
      <4>2. PICK c \in Nat : c = Len(f[k])
        BY <1>2, <4>1
      <4>3. Begins(f, k, m - 1)
        <5>1. QED
          BY <1>4, <4>1
      <4>4. c <= a /\ \A p \in 1 .. c : f[m - 1][p] = f[k][p]
        BY <2>1, <4>2, <4>3 DEF Begins
      <4>5. c <= a + b /\ \A p \in 1 .. c : p \in 1 .. a
        BY <4>4
      <4>6. \A p \in 1 .. c : f[m][p] = f[k][p]
        BY <2>1, <4>4, <4>5
      <4>7. QED
        BY <2>1, <4>2, <4>5, <4>6 DEF Begins
    <3>3. QED
      BY <3>1, <3>2
  <2>3. ASSUME NEW p \in 1 .. a + b PROVE Placed(f, u, p, m)
    <3>1. CASE p <= a
      <4>1. p \in 1 .. a
        BY <3>1
      <4>2. Placed(f, u, p, m - 1)
        <5>1. QED
          BY <1>4, <2>1, <4>1
      <4>3. PICK k \in 1 .. m - 1 : \E j \in 1 .. Len(u[k]) : p = Len(f[k - 1]) + j
        BY <4>2 DEF Placed
      <4>4. k \in 1 .. m
        BY <1>0
      <4>5. QED
        BY <4>3, <4>4 DEF Placed
    <3>2. CASE ~(p <= a)
      <4>1. PICK j \in 1 .. b : p = a + j
        <5>1. p - a \in 1 .. b /\ p = a + (p - a)
          BY <3>2
        <5>2. QED
          BY <5>1
      <4>2. m \in 1 .. m
        BY <1>0
      <4>3. QED
        BY <2>1, <4>1, <4>2 DEF Placed
    <3>3. QED
      BY <3>1, <3>2
  <2>4. QED
    BY <2>1, <2>2, <2>3
<1>5. \A m \in 0 .. n : m \in P
  <2>1. 0 \in P
    <3> HIDE DEF Q
    <3>1. QED
      BY <1>0, <1>3
  <2>2. \A m \in 1 .. n : m - 1 \in P => m \in P
    <3> HIDE DEF Q
    <3>1. QED
      BY <1>0, <1>4
  <2> HIDE DEF P
  <2>3. QED
    BY <1>0, <2>1, <2>2, Along
<1>6. QED
  BY <1>5

\* The pieces up to one of them.
FlatUpto(f, u, k) == FlattenSeq(Upto(u, k)) = f[k]

LEMMA FlattenPart ==
  ASSUME NEW T, NEW n, NEW u, NEW f, IsFlat(f, u, n, T), u \in Seq(Seq(T)), Len(u) = n,
         NEW k \in 0 .. n
  PROVE  FlatUpto(f, u, k)
<1> DEFINE v == Upto(u, k)
           h == [i \in 0 .. k |-> f[i]]
<1>0. n \in Nat /\ f \in [0 .. n -> Seq(T)]
  BY DEF IsFlat
<1>1. v \in Seq(Seq(T)) /\ Len(v) = k /\ \A i \in 1 .. k : v[i] = u[i]
  BY <1>0, UptoIs
<1>2. k = 0 => v = <<>>
  <2> HIDE DEF v
  <2>1. QED
    BY <1>1
<1> HIDE DEF v
<1>3. IsFlat(h, v, k, T)
  <2>1. \A i \in 0 .. k : h[i] = f[i] /\ i \in 0 .. n
    BY <1>0
  <2>2. h \in [0 .. k -> Seq(T)]
    BY <1>0, <2>1
  <2> HIDE DEF h
  <2>3. \A i \in 1 .. k : i \in 1 .. n /\ i \in 0 .. k /\ i - 1 \in 0 .. k
    BY <1>0
  <2>4. \A i \in 1 .. k : u[i] \in Seq(T) /\ f[i] = f[i - 1] \o u[i]
    BY <2>3 DEF IsFlat
  <2>5. \A i \in 1 .. k : h[i] = h[i - 1] \o v[i]
    BY <1>1, <2>1, <2>3, <2>4
  <2>6. h[0] = <<>>
    BY <2>1 DEF IsFlat
  <2>7. k \in Nat
    BY <1>0
  <2>8. QED
    BY <1>1, <2>2, <2>4, <2>5, <2>6, <2>7 DEF IsFlat
<1>4. FlattenSeq(v) = h[k]
  <2> HIDE DEF h
  <2>1. QED
    BY <1>1, <1>2, <1>3, FlattenIs
<1>5. QED
  BY <1>4 DEF v, FlatUpto

\* A concatenation, and what it has where.
Joined(z, x, y) == z = x \o y
JoinFits(c, a, b) ==
  /\ Len(c) = Len(a) + Len(b)
  /\ \A i \in 1 .. Len(a) : c[i] = a[i]
  /\ \A i \in 1 .. Len(b) : c[Len(a) + i] = b[i]

LEMMA JoinedIs ==
  ASSUME NEW T, NEW a \in Seq(T), NEW b \in Seq(T), NEW c, Joined(c, a, b)
  PROVE  c \in Seq(T) /\ JoinFits(c, a, b)
<1>0. PICK p \in Nat, q \in Nat : p = Len(a) /\ q = Len(b)
  BY LenIsNat
<1>1. c = a \o b
  BY DEF Joined
<1>2. /\ a \o b \in Seq(T) /\ Len(a \o b) = Len(a) + Len(b)
      /\ \A i \in 1 .. Len(a) + Len(b) : (a \o b)[i] = IF i <= Len(a) THEN a[i] ELSE b[i - Len(a)]
  BY ConcatProperties
<1>3. c \in Seq(T) /\ Len(c) = p + q /\ \A i \in 1 .. p + q : c[i] = IF i <= p THEN a[i] ELSE b[i - p]
  BY <1>0, <1>1, <1>2
<1>4. \A i \in 1 .. p : c[i] = a[i]
  BY <1>3
<1>5. \A i \in 1 .. q : c[p + i] = b[i]
  <2> SUFFICES ASSUME NEW i \in 1 .. q PROVE c[p + i] = b[i]
    OBVIOUS
  <2>1. p + i \in 1 .. p + q /\ ~(p + i <= p) /\ (p + i) - p = i
    OBVIOUS
  <2>2. QED
    BY <1>3, <2>1
<1>6. QED
  BY <1>0, <1>3, <1>4, <1>5 DEF JoinFits

LEMMA JoinedAgain ==
  ASSUME NEW T, NEW a \in Seq(T), NEW x \in Seq(T), NEW y \in Seq(T),
         NEW z, NEW b, NEW c, Joined(z, a, b), Joined(b, x, y), Joined(c, a, x)
  PROVE  Joined(z, c, y)
<1>1. (a \o x) \o y = a \o (x \o y)
  BY ConcatAssociative
<1>2. QED
  BY <1>1 DEF Joined

\* One more piece.
LEMMA FlattenLonger ==
  ASSUME NEW T, NEW w \in Seq(Seq(T)), NEW u \in Seq(Seq(T)), NEW n \in Nat,
         Len(w) = n, Len(u) = n + 1, \A i \in 1 .. n : u[i] = w[i]
  PROVE  FlattenSeq(w) \in Seq(T) /\ Joined(FlattenSeq(u), FlattenSeq(w), u[n + 1])
<1>1. PICK m \in Nat : m = n + 1 /\ n \in 0 .. m /\ m \in 1 .. m /\ m - 1 = n
  OBVIOUS
<1>2. \A i \in 1 .. m : u[i] \in Seq(T)
  BY <1>1, ElementOfSeq
<1>3. PICK f : IsFlat(f, u, m, T)
  BY <1>2, FlatExists
<1>4. FlattenSeq(u) = f[m]
  <2>1. PICK v : v = u /\ IsFlat(f, v, m, T) /\ Len(v) = m /\ (m = 0 => v = <<>>)
    BY <1>1, <1>3
  <2>2. FlattenSeq(v) = f[m]
    BY <2>1, FlattenIs
  <2>3. QED
    BY <2>1, <2>2
<1>5. FlattenSeq(Upto(u, n)) = f[n]
  <2>1. IsFlat(f, u, m, T) /\ u \in Seq(Seq(T)) /\ Len(u) = m /\ n \in 0 .. m
    BY <1>1, <1>3
  <2>2. FlatUpto(f, u, n)
    BY <2>1, FlattenPart
  <2>3. QED
    BY <2>2 DEF FlatUpto
<1>6. Upto(u, n) = w
  <2>1. PICK y : y = Upto(u, n)
    OBVIOUS
  <2>2. y \in Seq(Seq(T)) /\ Len(y) = n /\ \A i \in 1 .. n : y[i] = u[i]
    <3>1. n \in 0 .. Len(u)
      BY <1>1
    <3>2. QED
      BY <2>1, <3>1, UptoIs
  <2>3. \A i \in 1 .. n : y[i] = w[i]
    BY <2>2
  <2>4. y = w
    BY <2>2, <2>3, SeqEqual
  <2>5. QED
    BY <2>1, <2>4
<1>7. f[n] \in Seq(T) /\ f[m] = f[n] \o u[m]
  BY <1>1, <1>3 DEF IsFlat
<1>8. QED
  BY <1>1, <1>4, <1>5, <1>6, <1>7 DEF Joined

-----------------------------------------------------------------------------
(* Comments and blanks                                                       *)

LEMMA CommentCut ==
  ASSUME NEW T, NEW s \in Seq(T)
  PROVE  \E c \in 0 .. Len(s) :
           /\ TrimComments(s) = Upto(s, c)
           /\ \A i \in 1 .. c : s[i] # Comment
           /\ c < Len(s) => s[c + 1] = Comment
<1>1. PICK n \in Nat : n = Len(s)
  BY LenIsNat
<1>2. /\ Find(s, Comment) \in 0 .. n
      /\ Find(s, Comment) = 0 => \A i \in 1 .. n : s[i] # Comment
      /\ Find(s, Comment) # 0 =>
           s[Find(s, Comment)] = Comment /\ \A i \in 1 .. Find(s, Comment) - 1 : s[i] # Comment
  BY <1>1, FindIs
<1>3. CASE Find(s, Comment) = 0
  <2>1. TrimComments(s) = s
    BY <1>3 DEF TrimComments, Holds
  <2>2. Upto(s, n) = s
    BY <1>1, WholeIs
  <2>3. n \in 0 .. n /\ ~(n < n)
    OBVIOUS
  <2>4. QED
    BY <1>1, <1>2, <1>3, <2>1, <2>2, <2>3
<1>4. CASE Find(s, Comment) # 0
  <2>1. PICK c \in Nat : c = Find(s, Comment) - 1 /\ c \in 0 .. n /\ c + 1 = Find(s, Comment)
    BY <1>2, <1>4
  <2>2. TrimComments(s) = Upto(s, c)
    BY <1>4, <2>1 DEF TrimComments, Holds
  <2>3. QED
    BY <1>1, <1>2, <1>4, <2>1, <2>2
<1>5. QED
  BY <1>3, <1>4

\* Trimming leaves what is between the blanks at the ends.
LEMMA TrimIs ==
  ASSUME NEW T, NEW s \in Seq(T)
  PROVE  \E a, b \in 0 .. Len(s) :
           /\ TrimF(s) = SubSeq(s, a + 1, b)
           /\ \A i \in (1 .. a) \cup (b + 1 .. Len(s)) : IsBlank(s[i])
           /\ TrimF(s) # <<>> => ~IsBlank(TrimF(s)[1]) /\ ~IsBlank(TrimF(s)[Len(TrimF(s))])
<1> DEFINE e == Append(s, "end")
           first == {i \in 1 .. Len(e) : ~IsBlank(e[i])}
           front == TrimFront(s)
           rest == {i \in 1 .. Len(front) : ~IsBlank(front[i])}
           m == SelectLastInSeq(front, LAMBDA c : ~IsBlank(c))
<1>1. PICK l \in Nat : l = Len(s)
  BY LenIsNat
<1>2. e \in Seq(T \cup {"end"}) /\ Len(e) = l + 1 /\ (\A i \in 1 .. l : e[i] = s[i]) /\ e[l + 1] = "end"
  <2>1. s \in Seq(T \cup {"end"}) /\ "end" \in T \cup {"end"}
    OBVIOUS
  <2>2. /\ e \in Seq(T \cup {"end"}) /\ Len(e) = Len(s) + 1
        /\ (\A i \in 1 .. Len(s) : e[i] = s[i]) /\ e[Len(s) + 1] = "end"
    BY <2>1, AppendProperties
  <2> HIDE DEF e
  <2>3. QED
    BY <1>1, <2>2
<1>3. ~IsBlank("end")
  BY DEF IsBlank, Blank, CR, LF, SP
<1>4. PICK a \in 0 .. l : /\ front = From(s, a + 1)
                          /\ \A i \in 1 .. a : IsBlank(s[i])
                          /\ a < l => ~IsBlank(s[a + 1])
  <2> HIDE DEF e
  <2>1. front = From(s, IF first # {} THEN Min(first) ELSE 0)
    BY DEF TrimFront, SelectInSeq, e
  <2>2. l + 1 \in first
    BY <1>2, <1>3
  <2>3. first \in SUBSET Nat /\ first # {}
    BY <2>2
  <2>4. Min(first) \in first /\ \A y \in first : Min(first) <= y
    BY <2>3, MinIs
  <2>5. PICK x \in 1 .. l + 1 : x = Min(first) /\ ~IsBlank(e[x]) /\ \A y \in first : x <= y
    BY <1>2, <2>4
  <2>6. x - 1 \in 0 .. l /\ front = From(s, (x - 1) + 1)
    BY <2>1, <2>3, <2>5
  <2>7. \A i \in 1 .. x - 1 : IsBlank(s[i])
    <3>1. \A i \in 1 .. x - 1 : i \in 1 .. Len(e) /\ i \notin first /\ e[i] = s[i]
      BY <1>2, <2>5
    <3>2. QED
      BY <3>1
  <2>8. x - 1 < l => ~IsBlank(s[(x - 1) + 1])
    BY <1>2, <2>5
  <2>9. QED
    BY <2>6, <2>7, <2>8
<1>5. front \in Seq(T) /\ Len(front) = l - a /\ \A i \in 1 .. l - a : front[i] = s[a + i]
  <2>1. a \in 0 .. Len(s)
    BY <1>1
  <2>2. /\ From(s, a + 1) \in Seq(T) /\ Len(From(s, a + 1)) = Len(s) - a
        /\ \A i \in 1 .. Len(s) - a : From(s, a + 1)[i] = s[a + i]
    BY <2>1, FromIs
  <2> HIDE DEF front
  <2>3. QED
    BY <1>1, <1>4, <2>2
<1> HIDE DEF front
<1>6. /\ m \in 0 .. l - a
      /\ m # 0 => ~IsBlank(front[m])
      /\ \A i \in m + 1 .. l - a : IsBlank(front[i])
  <2>1. l - a \in Nat /\ rest \in SUBSET (1 .. l - a)
    BY <1>4, <1>5
  <2>2. m = IF rest # {} THEN Max(rest) ELSE 0
    BY DEF SelectLastInSeq
  <2> HIDE DEF m, rest
  <2>3. /\ m \in 0 .. l - a
        /\ m # 0 => m \in rest
        /\ \A y \in rest : y <= m
    BY <2>1, <2>2, LastPlace
  <2>4. \A i \in m + 1 .. l - a : i \notin rest /\ i \in 1 .. l - a
    BY <1>4, <2>3
  <2>5. QED
    BY <1>5, <2>3, <2>4 DEF rest
<1>7. TrimF(s) = Upto(front, m)
  BY DEF TrimF, Upto, front
<1> HIDE DEF m
<1>8. TrimF(s) = SubSeq(s, a + 1, a + m)
  <2>1. m \in 0 .. Len(front)
    BY <1>5, <1>6
  <2>2. Upto(front, m) \in Seq(T) /\ Len(Upto(front, m)) = m /\ \A i \in 1 .. m : Upto(front, m)[i] = front[i]
    BY <1>5, <2>1, UptoIs
  <2>3. a + m \in 0 .. Len(s) /\ a \in 0 .. a + m
    BY <1>1, <1>4, <1>6
  <2>4. /\ SubSeq(s, a + 1, a + m) \in Seq(T) /\ Len(SubSeq(s, a + 1, a + m)) = (a + m) - a
        /\ \A i \in 1 .. (a + m) - a : SubSeq(s, a + 1, a + m)[i] = s[a + i]
    BY <2>3, SuffixIs
  <2>5. (a + m) - a = m /\ \A i \in 1 .. m : i \in 1 .. l - a
    BY <1>4, <1>6
  <2>6. \A i \in 1 .. m : Upto(front, m)[i] = SubSeq(s, a + 1, a + m)[i]
    BY <1>5, <2>2, <2>4, <2>5
  <2>7. Upto(front, m) = SubSeq(s, a + 1, a + m)
    BY <2>2, <2>4, <2>5, <2>6, SeqEqual
  <2>8. QED
    BY <1>7, <2>7
<1>9. TrimF(s) \in Seq(T) /\ Len(TrimF(s)) = m /\ \A i \in 1 .. m : TrimF(s)[i] = s[a + i]
  <2>1. m \in 0 .. Len(front)
    BY <1>5, <1>6
  <2>2. Upto(front, m) \in Seq(T) /\ Len(Upto(front, m)) = m /\ \A i \in 1 .. m : Upto(front, m)[i] = front[i]
    BY <1>5, <2>1, UptoIs
  <2>3. \A i \in 1 .. m : i \in 1 .. l - a
    BY <1>4, <1>6
  <2>4. QED
    BY <1>5, <1>7, <2>2, <2>3
<1>10. a + m \in 0 .. l
  BY <1>4, <1>6
<1>11. \A i \in (1 .. a) \cup (a + m + 1 .. l) : IsBlank(s[i])
  <2>1. ASSUME NEW i \in a + m + 1 .. l PROVE IsBlank(s[i])
    <3>1. i - a \in m + 1 .. l - a /\ i - a \in 1 .. l - a /\ a + (i - a) = i
      BY <1>4, <1>6
    <3>2. QED
      BY <1>5, <1>6, <3>1
  <2>2. QED
    BY <1>4, <2>1
<1>12. TrimF(s) # <<>> => ~IsBlank(TrimF(s)[1]) /\ ~IsBlank(TrimF(s)[Len(TrimF(s))])
  <2>1. SUFFICES ASSUME TrimF(s) # <<>> PROVE ~IsBlank(s[a + 1]) /\ ~IsBlank(s[a + m])
    <3>1. TrimF(s) # <<>> => m # 0
      BY <1>9
    <3>2. m # 0 => 1 \in 1 .. m /\ m \in 1 .. m
      BY <1>6
    <3>3. QED
      BY <1>9, <3>1, <3>2
  <2>2. m # 0
    BY <1>9, <2>1
  <2>3. m \in 1 .. l - a /\ a < l
    BY <1>4, <1>6, <2>2
  <2>4. QED
    BY <1>4, <1>5, <1>6, <2>3
<1>13. QED
  BY <1>1, <1>4, <1>8, <1>10, <1>11, <1>12

\* w is s from the a-th character on without that, as long as m, and what is
\* left out are blanks.
TrimmedOf(T, s, w, a, m) ==
  /\ a + m <= Len(s)
  /\ w \in Seq(T) /\ Len(w) = m
  /\ \A i \in 1 .. m : w[i] = s[a + i]
  /\ \A i \in (1 .. a) \cup (a + m + 1 .. Len(s)) : IsBlank(s[i])
  /\ m # 0 => ~IsBlank(s[a + 1]) /\ ~IsBlank(s[a + m])

LEMMA TrimPlacesOf ==
  ASSUME NEW T, NEW s \in Seq(T)
  PROVE  \E a, m \in Nat : TrimmedOf(T, s, TrimF(s), a, m)
<1>1. PICK n \in Nat : n = Len(s)
  BY LenIsNat
<1>2. PICK a \in 0 .. n, b \in 0 .. n :
        /\ TrimF(s) = SubSeq(s, a + 1, b)
        /\ \A i \in (1 .. a) \cup (b + 1 .. n) : IsBlank(s[i])
        /\ TrimF(s) # <<>> => ~IsBlank(TrimF(s)[1]) /\ ~IsBlank(TrimF(s)[Len(TrimF(s))])
  BY <1>1, TrimIs
<1>3. CASE a <= b
  <2>1. PICK m \in Nat : m = b - a /\ a + m = b
    BY <1>3
  <2>2. b \in 0 .. Len(s) /\ a \in 0 .. b
    BY <1>1, <1>3
  <2>3. /\ SubSeq(s, a + 1, b) \in Seq(T) /\ Len(SubSeq(s, a + 1, b)) = b - a
        /\ \A i \in 1 .. b - a : SubSeq(s, a + 1, b)[i] = s[a + i]
    BY <2>2, SuffixIs
  <2>4. PICK w \in Seq(T) : w = TrimF(s) /\ Len(w) = m /\ \A i \in 1 .. m : w[i] = s[a + i]
    BY <1>2, <2>1, <2>3
  <2>5. m # 0 => ~IsBlank(s[a + 1]) /\ ~IsBlank(s[a + m])
    <3>1. SUFFICES ASSUME m # 0 PROVE ~IsBlank(s[a + 1]) /\ ~IsBlank(s[a + m])
      OBVIOUS
    <3>2. w # <<>>
      BY <2>4, <3>1, EmptySeq
    <3>3. ~IsBlank(w[1]) /\ ~IsBlank(w[m])
      BY <1>2, <2>4, <3>2
    <3>4. 1 \in 1 .. m /\ m \in 1 .. m
      BY <3>1
    <3>5. QED
      BY <2>4, <3>3, <3>4
  <2>6. \A i \in (1 .. a) \cup (a + m + 1 .. n) : IsBlank(s[i])
    BY <1>2, <2>1
  <2>7. a + m <= n
    BY <2>1
  <2>8. TrimmedOf(T, s, TrimF(s), a, m)
    BY <1>1, <2>4, <2>5, <2>6, <2>7 DEF TrimmedOf
  <2>9. QED
    BY <2>8
<1>4. CASE ~(a <= b)
  <2>1. TrimF(s) = <<>>
    <3>1. b < a + 1
      BY <1>4
    <3>2. QED
      BY <1>2, <3>1, SubSeqEmpty
  <2>2. \A i \in (1 .. a) \cup (a + 0 + 1 .. n) : IsBlank(s[i])
    BY <1>2, <1>4
  <2>3. TrimF(s) \in Seq(T) /\ Len(TrimF(s)) = 0
    BY <2>1
  <2>4. a + 0 <= n /\ \A i \in 1 .. 0 : FALSE
    OBVIOUS
  <2>5. TrimmedOf(T, s, TrimF(s), a, 0)
    BY <1>1, <2>2, <2>3, <2>4 DEF TrimmedOf
  <2>6. QED
    BY <2>5
<1>5. QED
  BY <1>3, <1>4

\* Characters, whatever STRING is to a prover.
Chars == STRING \cup Blank \cup {"{", "}", ";"}

LEMMA StringsAreChars ==
  ASSUME NEW s \in Seq(STRING)
  PROVE  s \in Seq(Chars)
<1>1. STRING \subseteq Chars
  BY DEF Chars
<1>2. QED
  BY <1>1, SeqMonotonic

LEMMA ReplacedIs ==
  ASSUME NEW w \in Seq(Chars)
  PROVE  /\ ReplaceF(w) \in Seq(Chars) /\ Len(ReplaceF(w)) = Len(w)
         /\ \A i \in 1 .. Len(w) : ReplaceF(w)[i] = IF IsBlank(w[i]) THEN SP ELSE w[i]
         /\ \A i \in 1 .. Len(w) : IsBlank(ReplaceF(w)[i]) <=> IsBlank(w[i])
<1>1. PICK m \in Nat : m = Len(w) /\ \A i \in 1 .. m : w[i] \in Chars
  OBVIOUS
<1>2. SP \in Chars /\ IsBlank(SP)
  BY DEF Chars, Blank, IsBlank
<1>3. ReplaceF(w) = [i \in 1 .. m |-> IF IsBlank(w[i]) THEN SP ELSE w[i]]
  BY <1>1 DEF ReplaceF
<1>4. \A i \in 1 .. m : (IF IsBlank(w[i]) THEN SP ELSE w[i]) \in Chars
  BY <1>1, <1>2 DEF Chars
<1>5. ReplaceF(w) \in [1 .. m -> Chars]
  BY <1>3, <1>4
<1>6. ReplaceF(w) \in Seq(Chars) /\ Len(ReplaceF(w)) = m
  BY <1>5, FunctionIsSeq
<1>7. \A i \in 1 .. m : ReplaceF(w)[i] = IF IsBlank(w[i]) THEN SP ELSE w[i]
  BY <1>3
<1>8. QED
  BY <1>1, <1>2, <1>6, <1>7

\* What AddChar() makes of a text, step by step.
Adds(g, v, n) ==
  /\ n \in Nat /\ v \in Seq(Chars) /\ Len(v) = n
  /\ g \in [0 .. n -> Seq(Chars)] /\ g[0] = <<>>
  /\ \A i \in 1 .. n : g[i] = AddChar(g[i - 1], v[i])

LEMMA AddsAre ==
  ASSUME NEW v \in Seq(Chars)
  PROVE  \E g : Adds(g, v, Len(v)) /\ DelMultiplSp(v) = g[Len(v)]
<1> DEFINE S == Seq(Chars)
<1>1. PICK n \in Nat : n = Len(v)
  BY LenIsNat
<1> DEFINE step == [i \in 1 .. n |-> [x \in S |-> AddChar(x, v[i])]]
           F(h) == [i \in 0 .. n |-> IF i = 0 THEN <<>> ELSE AddChar(h[i - 1], v[i])]
           g == CHOOSE h : h = F(h)
<1>2. step \in [1 .. n -> [S -> S]]
  <2>1. \A i \in 1 .. n, x \in S : AddChar(x, v[i]) \in S
    <3> SUFFICES ASSUME NEW i \in 1 .. n, NEW x \in S PROVE AddChar(x, v[i]) \in S
      OBVIOUS
    <3>1. v[i] \in Chars
      BY <1>1, ElementOfSeq
    <3>2. Append(x, v[i]) \in S
      BY <3>1, AppendProperties
    <3>3. QED
      BY <3>2 DEF AddChar
  <2> HIDE DEF S
  <2>2. QED
    BY <2>1
<1>3. <<>> \in S
  OBVIOUS
<1>4. PICK f \in [0 .. n -> S] : Steps(f, n, <<>>, step)
  <2> HIDE DEF step, S
  <2>1. QED
    BY <1>2, <1>3, RecursionExists
<1>5. \A i \in 1 .. n : f[i] = AddChar(f[i - 1], v[i])
  <2>1. \A i \in 1 .. n : f[i - 1] \in S
    <3> HIDE DEF S
    <3>1. QED
      OBVIOUS
  <2>2. \A i \in 1 .. n : f[i] = step[i][f[i - 1]]
    BY <1>4 DEF Steps
  <2> HIDE DEF S
  <2>3. QED
    BY <2>1, <2>2
<1>6. f[0] = <<>>
  BY <1>4 DEF Steps
<1>7. f = F(f)
  <2> HIDE DEF S
  <2>1. QED
    BY <1>5, <1>6
<1>8. g = F(g)
  <2> HIDE DEF F, S
  <2>1. QED
    BY <1>7
<1>9. DelMultiplSp(v) = g[n]
  BY <1>1 DEF DelMultiplSp
<1> HIDE DEF g
<1>10. g \in [0 .. n -> S] /\ g[0] = <<>> /\ \A i \in 1 .. n : g[i] = AddChar(g[i - 1], v[i])
  <2>1. g[0] = <<>> /\ \A i \in 1 .. n : g[i] = AddChar(g[i - 1], v[i])
    BY <1>8
  <2>2. \A i \in 0 .. n : g[i] \in S
    <3> DEFINE P == {i \in 0 .. n : g[i] \in S}
    <3>1. 0 \in P
      <4>1. 0 \in 0 .. n /\ g[0] = <<>>
        BY <2>1
      <4> HIDE DEF S
      <4>2. QED
        BY <1>3, <4>1
    <3>2. ASSUME NEW i \in 1 .. n, i - 1 \in P PROVE i \in P
      <4>1. g[i] = step[i][g[i - 1]]
        BY <2>1, <3>2
      <4>2. g[i - 1] \in S /\ step[i] \in [S -> S]
        <5> HIDE DEF S, step
        <5>1. QED
          BY <1>2, <3>2
      <4> HIDE DEF S, step
      <4>3. QED
        BY <4>1, <4>2
    <3>3. \A i \in 0 .. n : i \in P
      <4> HIDE DEF P
      <4>1. QED
        BY <3>1, <3>2, Along
    <3>4. QED
      BY <3>3
  <2>3. g = [i \in 0 .. n |-> g[i]]
    BY <1>8
  <2> HIDE DEF S
  <2>4. QED
    BY <2>1, <2>2, <2>3
<1>11. Adds(g, v, n)
  BY <1>1, <1>10 DEF Adds
<1>12. QED
  BY <1>1, <1>9, <1>11
=============================================================================
