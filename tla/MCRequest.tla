------------------------------ MODULE MCRequest -----------------------------
(***************************************************************************)
(* What becomes of a request that has arrived, in four parts of which one  *)
(* takes all steps of a behaviour; the others stay as they were.  Vhosts:  *)
(* two contexts that share an address, and one on an address of its own    *)
(* that has a name of each; the empty name is that of a request without a  *)
(* host.  Routing: targets up to three names deep against every choice of  *)
(* four directories, one with a dot in its name, and one extension, once   *)
(* for the default server and once for the one whose routes replace its.   *)
(* Methods: every request a method tells apart, and a target that names    *)
(* nothing, a file, or a directory with an index file or without.          *)
(* CgiOutput: one line of up to four characters, and up to four lines of   *)
(* nine kinds.                                                             *)
(***************************************************************************)
EXTENDS Vhosts, Routing, Methods, CgiOutput, TLC

CONSTANTS
  Parts,       \* the parts that may take steps: "server", "route", "method",
               \* "output"
  n1, n2, empty, a1, a2, k1, k2,
  old, new

VARIABLE part

server == <<slot, cgi, last>>

-----------------------------------------------------------------------------
(* Vhosts *)

MCName == {n1, n2, empty}
MCNameOf == <<{n1}, {n2}, {n1, n2}>>
MCAddrOf == <<a1, a1, a2>>
MCVia == (k1 :> a1) @@ (k2 :> a2)

-----------------------------------------------------------------------------
(* Routing *)

MCDirKeys == {<<>>, <<"a">>, <<"a", "b">>, <<"c.e">>}
MCExtOf == "a" :> Nothing @@ "b" :> Nothing @@ "c.e" :> "e"

-----------------------------------------------------------------------------
(* Methods *)

Rq(m, c, ch, sl, h) == [method |-> m, content |-> c, chunked |-> ch, slash |-> sl, host |-> h]

MCRequests ==
  {Rq(m, Empty, FALSE, sl, h) : m \in {"GET", "HEAD"}, sl \in BOOLEAN, h \in BOOLEAN}
  \cup {Rq(m, new, TRUE, TRUE, TRUE) : m \in {"GET", "HEAD", "POST", "PUT"}}
  \cup {Rq("POST", Bad, ch, TRUE, TRUE) : ch \in BOOLEAN}
  \cup {Rq("POST", new, FALSE, TRUE, TRUE)}
  \cup {Rq("PUT", c, FALSE, sl, TRUE) : c \in {Empty, new}, sl \in BOOLEAN}
  \cup {Rq("DELETE", Empty, FALSE, sl, TRUE) : sl \in BOOLEAN}

MCLocations ==
  {[kind |-> "plain", autoindex |-> a, index |-> i, upload |-> (a # i)] :
     a \in BOOLEAN, i \in BOOLEAN}
  \cup [kind : {"forbidden", "cgi", "redirection"}, autoindex : {FALSE},
        index : {TRUE}, upload : {FALSE}]

DiskOf(named, index, glued, up, deleted) ==
  [p \in Path |->
     CASE p = "named" -> named
       [] p = "index" -> index
       [] p = "glued" -> glued
       [] p = "target" -> deleted
       [] p = "up_named" -> up
       [] OTHER -> "none"]

MCDisks ==
  {DiskOf(ni[1], ni[2], glued, up, deleted) :
     ni \in {<<"none", "none">>, <<"empty", "none">>, <<old, "none">>,
             <<"dir", "none">>, <<"dir", old>>},
     glued \in {"none", old}, up \in {"none", old}, deleted \in {"none", old}}

-----------------------------------------------------------------------------
(* CgiOutput *)

MCLower == ("Status" :> "status") @@ ("A" :> "a")

Kinds ==
  { <<>>, <<SP>>, <<CR>>, <<"A">>,
    <<"Status", ":", SP, "A", CR>>, <<"Status", ":", "A">>, <<"x", ":", SP, "A">>,
    <<"x", ":", SP>>, <<"x", ":", SP, "a", SP, SP, "A", "#", "a">> }

MCChunks == {<<>>, <<"q">>}

MCOutputs ==
  {Output(<<l>>, e) : l \in BoundedSeq({"Status", "A", "a", ":", SP, "#"}, 4), e \in BOOLEAN}
  \cup {Output(ls, e) : ls \in BoundedSeq(Kinds, 4), e \in BOOLEAN}

-----------------------------------------------------------------------------
\* A part that takes no steps has one state.
RouteRests == keys = {DefaultKey} /\ asked = [dirs |-> <<>>, leaf |-> Nothing] /\ RouteInit
MethodRests ==
  /\ loc = [kind |-> "forbidden", autoindex |-> FALSE, index |-> TRUE, upload |-> FALSE]
  /\ disk = DiskOf("none", "none", "none", "none", "none")
  /\ closed = {}
  /\ MethodInit
OutputRests == written = Output(<<>>, TRUE) /\ echoed = <<>> /\ OutputInit

PartsInit ==
  \/ part \in Parts \cap {"server"} /\ RouteRests /\ MethodRests /\ OutputRests /\ Init
  \/ part \in Parts \cap {"route"} /\ MethodRests /\ OutputRests /\ Init /\ RouteInit
  \/ part \in Parts \cap {"method"} /\ RouteRests /\ OutputRests /\ Init /\ MethodInit
  \/ part \in Parts \cap {"output"} /\ RouteRests /\ MethodRests /\ Init /\ OutputInit

ServerPart == part = "server" /\ Next /\ UNCHANGED <<part, routeVars, methodVars, outputVars>>
RoutePart == part = "route" /\ RouteNext /\ UNCHANGED <<part, server, methodVars, outputVars>>
MethodPart == part = "method" /\ MethodNext /\ UNCHANGED <<part, server, routeVars, outputVars>>
OutputPart == part = "output" /\ OutputNext /\ UNCHANGED <<part, server, routeVars, methodVars>>

PartsSpec ==
  /\ PartsInit
  /\ [][ServerPart \/ RoutePart \/ MethodPart \/ OutputPart]_<<part, server, routeVars, methodVars, outputVars>>

=============================================================================
