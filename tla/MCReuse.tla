------------------------------- MODULE MCReuse ------------------------------
(***************************************************************************)
(* Descriptors and objects that are used again or never given back, in two *)
(* parts of which one takes all steps of a behaviour; the other stays as   *)
(* it was.  WebservCycle: three connections on two descriptors, and one    *)
(* process.  Descriptors: three connections and three CGI objects, with    *)
(* room for two processes and for seven descriptors, so that every failure *)
(* of execute() happens.                                                   *)
(***************************************************************************)
EXTENDS MCCycle, Descriptors

CONSTANT Parts    \* the parts that may take steps: "events", "descriptors"

VARIABLE part

\* Client and Http are the same values.
ReuseSymmetry == Symmetry \cup Permutations(Script)

PartsInit == part \in Parts /\ Init /\ DescriptorsInit

EventsPart == part = "events" /\ Next /\ UNCHANGED <<part, descriptors>>
DescriptorsPart == part = "descriptors" /\ DescriptorsNext /\ UNCHANGED <<part, vars>>

PartsSpec == PartsInit /\ [][EventsPart \/ DescriptorsPart]_<<part, vars, descriptors>>
=============================================================================
