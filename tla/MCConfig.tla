------------------------------ MODULE MCConfig ------------------------------
(***************************************************************************)
(* Reading a configuration, in three parts of which one takes all steps of *)
(* a behaviour; the others stay as they were.  Config: files of a few      *)
(* directives, enough for two servers of which one has a location with     *)
(* both kinds of flags, or for one with two locations.  ConfigText: files  *)
(* of up to three directives in every layout of a few kinds, and every     *)
(* file of up to four characters.  Directives: up to three directives with *)
(* arguments that are well formed, short of a word, too long, or beyond    *)
(* the eleven bits an int has here, or the fifteen of a long.              *)
(***************************************************************************)
EXTENDS Config, ConfigText, Directives, TLC

CONSTANT Parts   \* the parts that may take steps: "servers", "text", "arguments"

VARIABLE part

-----------------------------------------------------------------------------
(* Config *)

\* Nothing in a configuration is put in lower case.
MCLower == [c \in {} |-> c]

MCLimits == {{"GET"}, {"POST", "HEAD"}}
Symmetry == Permutations(Addr) \cup Permutations(Name) \cup Permutations(Key)

-----------------------------------------------------------------------------
(* ConfigText *)

Say == { Says(<<"server">>, <<>>, "{"), Says(<<"root">>, <<"a">>, ";"),
         Says(<<"root">>, <<"a", SP, "a">>, ";"), Says(<<>>, <<>>, "}") }

Between == {<<LF>>, <<SP, "tab", SP>>, <<"#", ";", LF>>}
Around == {<<>>, <<LF, SP>>}
Behind == Around \cup {<<"#", ";", LF>>}

\* The directive with g between its words, a before its end and b behind it.
Spaced(d, g) ==
  LET value == FlattenSeq([i \in 1 .. Len(d.value) |->
                             IF d.value[i] = SP THEN g ELSE <<d.value[i]>>])
  IN d.name \o (IF value = <<>> THEN <<>> ELSE g \o value)
Laid(d, g, a, b) == Spaced(d, g) \o a \o <<d.end>> \o b

Texts(says) ==
  {FlattenSeq([i \in 1 .. Len(says) |-> Laid(says[i], g, a, behind[i])]) :
     g \in Between, a \in Around, behind \in [1 .. Len(says) -> Behind]}

MCFiles ==
  UNION {{File("regular", says, t) : t \in Texts(says)} : says \in BoundedSeq(Say, 3) \ {<<>>}}
  \cup {File("regular", <<>>, t) :
          t \in BoundedSeq({"server", "root", SP, "{", "}", ";", "#", LF}, 4)}
  \cup {File(k, <<>>, <<"root">>) : k \in {"directory", "none"}}

-----------------------------------------------------------------------------
(* Directives *)

Three == <<"3", "0", "1">>
Four == <<"4", "0", "4">>
Wrapped == <<"2", "4", "5", "2">>       \* 404 and 2 ^ 11

Sizes ==
  BoundedSeq({"1", "k", "M", "x"}, 3)
  \cup {<<"0">>, <<"9", "9">>, <<"1", SP, "1">>, <<"2", "0", "4", "7">>,
        <<"2", "0", "4", "8">>, <<"2", "0", "4", "8", "K">>, <<"2", "0", "4", "9">>,
        <<"9", "9", "9", "9", "9">>}
Paths == {p \in BoundedSeq({"/", "a", SP}, 4) : p = Normalize(p)}
ServerNames == {s \in BoundedSeq({"a", "-", "1", "_", SP}, 3) : s = Normalize(s)}

MCArgs ==
  [client_max_body_size |-> Sizes,
   root |-> Paths,
   upload_directory |-> Paths,
   index |-> {<<>>, <<"a">>, <<"a", SP, "b">>},
   cgi_pass |-> {<<>>, <<"a">>},
   redirection |-> {<<>>, Three, Three \o <<SP, "a">>, Three \o <<SP, "a", SP, "b">>,
                    <<"+">> \o Three \o <<SP, "a">>,
                    Four \o <<SP, "a">>, <<"a">>},
   error_page |-> {<<>>, Four, Four \o <<SP, "a">>, Four \o <<SP, "b">>,
                   Four \o <<SP, "b", SP, "c">>, Wrapped \o <<SP, "c">>,
                   <<"4", "x", SP, "a">>, <<"3", "9", "9", SP, "a">>,
                   <<"5", "5", "5", SP, "a">>, <<"5", "5", "6", SP, "a">>},
   listen |-> {<<>>, <<"8", "0">>, <<"a", ":", "8", "0">>, <<"a", ":">>, <<"1", ".", "1">>, <<"a">>},
   server_name |-> ServerNames]

MCDirs == {<<"/">>, <<"/", "a", "/">>, <<"a", "/">>}

MCResolved ==
  {<<<<"any">>, <<"8", "0">>>>, <<<<"a">>, <<"8", "0">>>>, <<<<"1", ".", "1">>, <<"8", "0">>>>}

-----------------------------------------------------------------------------
\* A part that takes no steps has one state.
TextRests == file = File("none", <<>>, <<"root">>) /\ TextInit

PartsInit ==
  \/ part \in Parts \cap {"servers"} /\ ArgsInit /\ TextRests /\ Init
  \/ part \in Parts \cap {"text"} /\ ArgsInit /\ Init /\ TextInit
  \/ part \in Parts \cap {"arguments"} /\ TextRests /\ Init /\ ArgsInit

ServersPart == part = "servers" /\ Next /\ UNCHANGED <<part, textVars, argVars>>
TextPart == part = "text" /\ TextNext /\ UNCHANGED <<part, vars, argVars>>
ArgumentsPart == part = "arguments" /\ ArgsNext /\ UNCHANGED <<part, vars, textVars>>

PartsSpec ==
  PartsInit /\ [][ServersPart \/ TextPart \/ ArgumentsPart]_<<part, vars, textVars, argVars>>

-----------------------------------------------------------------------------
\* Router.cpp:184-300, Location.cpp, Server.cpp: every variable of every part
\* has its type.
PartsTypeOK == TypeOK /\ TextTypeOK /\ ArgsTypeOK
=============================================================================
