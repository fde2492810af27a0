------------------------------ MODULE MCOverlap -----------------------------
(***************************************************************************)
(* Connections and processes that overlap, in two parts of which one takes *)
(* all steps of a behaviour; the other stays as it was.  Webserv: two      *)
(* connections and two processes.  Replies: one connection with up to two  *)
(* requests, in one or two segments each, and two processes.               *)
(***************************************************************************)
EXTENDS Webserv, Replies, TLC

CONSTANT Parts      \* the parts that may take steps: "events", "replies"

VARIABLE part

KindOf(head, body, cgiPass) == [head |-> head, body |-> body, cgi |-> cgiPass]
MCKinds ==
  {KindOf(FALSE, "none", FALSE), KindOf(TRUE, "none", FALSE),
   KindOf(FALSE, "chunks", TRUE), KindOf(FALSE, "length", TRUE)}

\* Connections, descriptors and processes are interchangeable.
Symmetry == Permutations(Http) \cup Permutations(Fd) \cup Permutations(Cgi)

PartsInit == part \in Parts /\ Init /\ RepliesInit

EventsPart == part = "events" /\ Next /\ UNCHANGED <<part, repliesVars>>
RepliesPart == part = "replies" /\ RepliesNext /\ UNCHANGED <<part, vars>>

PartsSpec == PartsInit /\ [][EventsPart \/ RepliesPart]_<<part, vars, repliesVars>>
=============================================================================
