------------------------------ MODULE StdString -----------------------------
(***************************************************************************)
(* Characters, and what the code uses of std::string.  A text is a         *)
(* sequence of characters, which are strings: one of Blank, or a printable *)
(* one.  A sequence of anything else can be cut and searched just as well. *)
(***************************************************************************)
EXTENDS Naturals, Sequences, SequencesExt, FiniteSetsExt

CR == "cr"
LF == "lf"
SP == "sp"
Blank == {CR, LF, SP, "tab"}
IsBlank(c) == c \in Blank

\* find_first_of(), as an index from 1; 0 is npos.
Find(s, c) == SelectInSeq(s, LAMBDA x : x = c)
Upto(s, n) == SubSeq(s, 1, n)
From(s, n) == SubSeq(s, n, Len(s))
Holds(s, c) == Find(s, c) # 0

\* substr( 0, n ) and erase( 0, n ): what lies beyond the end is not missed.
Substr(s, n) == SubSeq(s, 1, Min({n, Len(s)}))
Erase(s, n) == SubSeq(s, n + 1, Len(s))
=============================================================================
