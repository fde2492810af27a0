-------------------------------- MODULE Text --------------------------------
(***************************************************************************)
(* The helpers of string.cpp.                                              *)
(***************************************************************************)
EXTENDS StdString

CONSTANT Lower     \* the upper-case letters in use, and what they become

Comment == "#"

\* Letters are neither blanks nor marks.
ASSUME LowerAssumption ==
  \A c \in DOMAIN Lower :
    Lower[c] \in STRING /\ {c, Lower[c]} \cap (Blank \cup {Comment, ":"}) = {}

TrimComments(s) == IF Holds(s, Comment) THEN Upto(s, Find(s, Comment) - 1) ELSE s

TrimFront(s) == From(s, SelectInSeq(Append(s, "end"), LAMBDA c : ~IsBlank(c)))
TrimF(s) == SubSeq(TrimFront(s), 1, SelectLastInSeq(TrimFront(s), LAMBDA c : ~IsBlank(c)))

ReplaceF(s) == [i \in 1 .. Len(s) |-> IF IsBlank(s[i]) THEN SP ELSE s[i]]

\* Of a run of blanks one stays, and none at the beginning.
AddChar(acc, c) ==
  IF IsBlank(c) /\ (acc = <<>> \/ IsBlank(acc[Len(acc)])) THEN acc ELSE Append(acc, c)
DelMultiplSp(s) ==
  LET upto[i \in 0 .. Len(s)] == IF i = 0 THEN <<>> ELSE AddChar(upto[i - 1], s[i])
  IN upto[Len(s)]

\* Mutations: the runs of blanks stay; the comments do.
NormalizeRuns(s) == ReplaceF(TrimF(TrimComments(s)))
NormalizeComments(s) == DelMultiplSp(ReplaceF(TrimF(s)))
Normalize(s) == DelMultiplSp(ReplaceF(TrimF(TrimComments(s))))

StrToLower(s) ==
  [i \in 1 .. Len(s) |-> IF s[i] \in DOMAIN Lower THEN Lower[s[i]] ELSE s[i]]

\* Words begin where a blank comes after none; the end counts as one.
HowManyWords(s) ==
  IF s = <<>> THEN 0
  ELSE 1 + Cardinality({i \in 2 .. Len(s) : IsBlank(s[i]) /\ ~IsBlank(s[i - 1])})
=============================================================================
