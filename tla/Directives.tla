----------------------------- MODULE Directives -----------------------------
(***************************************************************************)
(* The arguments of the directives: what the setters of Router.cpp, Server *)
(* and Location take, what they make of it and what they refuse.  Config   *)
(* has the order of the directives and the block each of them applies to;  *)
(* here it is one server with one location.  An argument is a text as      *)
(* ConfigText leaves it: single blanks, none at its ends.                  *)
(***************************************************************************)
EXTENDS Text, Integers

CONSTANTS
  Args,          \* the arguments given, by directive
  Unset,
  Dirs,          \* the directories of the file system, with a `/' at the end
  Resolved,      \* what getaddrinfo() resolves: pairs of a node and a service
  IntMax,        \* the greatest int,
  LongMax,       \* long
  SizeMax,       \* and size_t
  Kilo,          \* 1024
  MaxArguments   \* bound: directives given

Setters ==
  {"client_max_body_size", "root", "upload_directory", "index", "cgi_pass",
   "redirection", "error_page", "listen", "server_name"}

\* The blanks of an argument are single, and between words.
Parted(arg) ==
  \A i \in 1 .. Len(arg) :
    IsBlank(arg[i]) => arg[i] = SP /\ i \in 2 .. Len(arg) - 1 /\ ~IsBlank(arg[i + 1])

ASSUME ArgsAssumption ==
  /\ DOMAIN Args = Setters
  /\ \A d \in Setters : \A arg \in Args[d] : arg \in Seq(STRING) /\ Parted(arg)
  /\ MaxArguments \in Nat

\* Location(), in which 1 * 1024 * 1204 is the limit, and Server().
DefaultLimit == 1024 * 1204
DefaultPages == {400, 403, 404, 405, 410, 413, 500}

\* A long has the values of an int several times over, a size_t those of an
\* int in any unit.
ASSUME WidthAssumption ==
  /\ IntMax \in Nat /\ LongMax \in Nat /\ SizeMax \in Nat
  /\ Kilo \in Nat \ {0}
  /\ LongMax % (2 * (IntMax + 1)) = 2 * IntMax + 1
  /\ (IntMax + 1) * (Kilo * Kilo) <= SizeMax
  /\ DefaultLimit <= SizeMax

ASSUME UnsetAssumption == Unset \notin [code : Nat, target : Seq(STRING)]

VARIABLES
  loc,        \* the Location
  srv,        \* address, names and error pages of the Server
  taken,      \* history: the arguments that were taken, by directive
  argCount,   \* directives read
  argStatus   \* "reading"; "rejected", which ends the program

argVars == <<loc, srv, taken, argCount, argStatus>>

ArgsInit ==
  /\ loc = [limit |-> DefaultLimit, root |-> <<>>, index |-> <<>>,
            redirection |-> Unset, upload |-> <<>>, cgi |-> <<>>]
  /\ srv = [addr |-> Unset, names |-> <<>>,
            pages |-> [n \in DefaultPages |-> <<"default">>]]
  /\ taken = [d \in Setters |-> <<>>]
  /\ argCount = 0
  /\ argStatus = "reading"

-----------------------------------------------------------------------------
(* Numbers and words *)

Digits == <<"0", "1", "2", "3", "4", "5", "6", "7", "8", "9">>
IsDigit(c) == Holds(Digits, c)

\* The digits at the beginning of a text, and their number.
PrefixLength(s) ==
  LET i == SelectInSeq(s, LAMBDA c : ~IsDigit(c)) IN IF i = 0 THEN Len(s) ELSE i - 1
Number(s) ==
  LET upto[i \in 0 .. PrefixLength(s)] ==
        IF i = 0 THEN 0 ELSE 10 * upto[i - 1] + (Find(Digits, s[i]) - 1)
  IN upto[PrefixLength(s)]

\* atoi(): the number as a long, or the greatest long; the bits an int has of
\* it, as a signed number.
Ints == 2 * (IntMax + 1)
Atoi(s) ==
  LET n == (IF Number(s) <= LongMax THEN Number(s) ELSE LongMax) % Ints
  IN IF n <= IntMax THEN n ELSE n - Ints

NextWord(words, c) ==
  IF c = SP THEN Append(words, <<>>) ELSE [words EXCEPT ![Len(words)] = Append(@, c)]
WordsOf(s) ==
  LET upto[i \in 0 .. Len(s)] == IF i = 0 THEN <<<<>>>> ELSE NextWord(upto[i - 1], s[i])
  IN IF s = <<>> THEN <<>> ELSE upto[Len(s)]

-----------------------------------------------------------------------------
(* The setters *)

\* The argument is taken, or the file is rejected.
Takes(d, arg, ok) ==
  /\ argCount' = argCount + 1
  /\ taken' = IF ok THEN [taken EXCEPT ![d] = Append(@, arg)] ELSE taken
  /\ argStatus' = IF ok THEN argStatus ELSE "rejected"

SetLoc(d, arg, ok, new) ==
  /\ Takes(d, arg, ok)
  /\ loc' = IF ok THEN new ELSE loc
  /\ UNCHANGED srv

SetSrv(d, arg, ok, new) ==
  /\ Takes(d, arg, ok)
  /\ srv' = IF ok THEN new ELSE srv
  /\ UNCHANGED loc

\* Digits with at most one letter, at the end; there may be no digit.
Unit == [c \in {"k", "K", "m", "M"} |-> IF c \in {"k", "K"} THEN Kilo ELSE Kilo * Kilo]
SizeOk(arg) ==
  /\ arg # <<>>
  /\ \A i \in 1 .. Len(arg) :
       IsDigit(arg[i]) \/ (i = Len(arg) /\ arg[i] \in DOMAIN Unit)
UnitOf(arg) == IF IsDigit(arg[Len(arg)]) THEN 1 ELSE Unit[arg[Len(arg)]]
SizeOf(arg) == (Atoi(arg) * UnitOf(arg)) % (SizeMax + 1)

SetClientMaxBodySize(arg) ==
  SetLoc("client_max_body_size", arg, SizeOk(arg), [loc EXCEPT !.limit = SizeOf(arg)])

\* All `/' at the end but a first one.
Off(s) ==
  IF s = <<>> THEN s
  ELSE Upto(s, Max({1} \cup {i \in 1 .. Len(s) : s[i] # "/"}))

SetRoot(arg) ==
  SetLoc("root", arg, arg # <<>> /\ ~Holds(arg, SP) /\ arg[1] = "/",
         [loc EXCEPT !.root = Off(arg)])

UploadDir(arg) ==
  IF Off(arg) = <<>> \/ Off(arg)[Len(Off(arg))] # "/" THEN Append(Off(arg), "/") ELSE Off(arg)

SetUploadDirectory(arg) ==
  SetLoc("upload_directory", arg, UploadDir(arg) \in Dirs,
         [loc EXCEPT !.upload = UploadDir(arg)])

SetIndex(arg) ==
  SetLoc("index", arg, TRUE, [loc EXCEPT !.index = @ \o WordsOf(arg)])

SetCGIpass(arg) == SetLoc("cgi_pass", arg, TRUE, [loc EXCEPT !.cgi = arg])

\* The number before the first blank, and what comes after it; without a
\* blank, all of it.  A sign may come first.  Of an empty argument no number
\* is read: statusCode has no value.
Redirects == {301, 302, 303, 307, 308}
TargetAfter(arg) == IF Holds(arg, SP) THEN From(arg, Find(arg, SP) + 1) ELSE arg
CodeOf(arg) == Number(IF arg[1] = "+" THEN From(arg, 2) ELSE arg)

SetRedirection(arg) ==
  \E code \in IF arg = <<>> THEN {0, 301} ELSE {CodeOf(arg)} :
    SetLoc("redirection", arg, code \in Redirects,
           [loc EXCEPT !.redirection = [code |-> code, target |-> TargetAfter(arg)]])

\* Two words, the first one of digits.
PageOk(arg) ==
  /\ arg # <<>> /\ HowManyWords(arg) = 2
  /\ \A i \in 1 .. Len(WordsOf(arg)[1]) : IsDigit(WordsOf(arg)[1][i])
  /\ Atoi(arg) \in 400 .. 555

\* Mutation: a page that is there stays.
PageInsert(pages, n, p) == pages @@ (n :> p)
PageSet(pages, n, p) == [m \in {n} \cup DOMAIN pages |-> IF m = n THEN p ELSE pages[m]]

SetErrorPage(arg) ==
  SetSrv("error_page", arg, PageOk(arg),
         [srv EXCEPT !.pages = PageSet(@, Atoi(arg), WordsOf(arg)[2])])

\* "a:80" is both, "1.2" an address, anything else a port.
Node(arg) ==
  IF Holds(arg, ":") THEN Upto(arg, Find(arg, ":") - 1)
  ELSE IF Holds(arg, ".") THEN arg ELSE <<"any">>
Service(arg) ==
  IF Holds(arg, ":") THEN From(arg, Find(arg, ":") + 1)
  ELSE IF Holds(arg, ".") THEN <<"8", "0">> ELSE arg

SetListen(arg) ==
  SetSrv("listen", arg,
         /\ arg # <<>> /\ ~Holds(arg, SP)
         /\ <<Node(arg), Service(arg)>> \in Resolved,
         [srv EXCEPT !.addr = <<Node(arg), Service(arg)>>])

\* Letters, digits, `-' and `.', with a letter first.
NameOk(w) ==
  /\ w # <<>> /\ w[1] \notin {"-", ".", "_"} /\ ~IsDigit(w[1])
  /\ \A i \in 1 .. Len(w) : w[i] # "_"

SetServerName(arg) ==
  SetSrv("server_name", arg,
         arg # <<>> /\ \A i \in 1 .. Len(WordsOf(arg)) : NameOk(WordsOf(arg)[i]),
         [srv EXCEPT !.names = @ \o WordsOf(arg)])

ArgsNext ==
  /\ argStatus = "reading"
  /\ argCount < MaxArguments
  /\ \/ \E arg \in Args["client_max_body_size"] : SetClientMaxBodySize(arg)
     \/ \E arg \in Args["root"] : SetRoot(arg)
     \/ \E arg \in Args["upload_directory"] : SetUploadDirectory(arg)
     \/ \E arg \in Args["index"] : SetIndex(arg)
     \/ \E arg \in Args["cgi_pass"] : SetCGIpass(arg)
     \/ \E arg \in Args["redirection"] : SetRedirection(arg)
     \/ \E arg \in Args["error_page"] : SetErrorPage(arg)
     \/ \E arg \in Args["listen"] : SetListen(arg)
     \/ \E arg \in Args["server_name"] : SetServerName(arg)

ArgsSpec == ArgsInit /\ [][ArgsNext]_argVars

-----------------------------------------------------------------------------
(* Properties *)

\* Every variable has its type.
ArgsTypeOK ==
  /\ loc.limit \in 0 .. SizeMax
  /\ loc.redirection = Unset \/ loc.redirection.code \in Redirects
  /\ srv.addr \in Resolved \cup {Unset}
  /\ DOMAIN srv.pages \subseteq 400 .. 555
  /\ \A i \in 1 .. Len(srv.names) : srv.names[i] # <<>>
  /\ DOMAIN taken = Setters
  /\ argCount \in 0 .. MaxArguments
  /\ argStatus \in {"reading", "rejected"}

LastOf(d) == taken[d][Len(taken[d])]

\* A limit is the number that was written times its unit if an int holds the
\* number; and no limit at all, which 0 is for recv_request(), only if it was
\* written as 0, as a unit alone, or as a multiple of what an int can tell
\* apart (Location.cpp:120-160).
LimitAsWritten ==
  taken["client_max_body_size"] # <<>> =>
    LET arg == LastOf("client_max_body_size")
        n == Number(arg)
        unit == IF arg[Len(arg)] \in {"m", "M"} THEN Kilo * Kilo
                ELSE IF arg[Len(arg)] \in {"k", "K"} THEN Kilo ELSE 1
    IN /\ n <= IntMax => loc.limit = n * unit
       /\ loc.limit = 0 => n % Ints = 0

\* The root of a location joined with a target, which begins with `/', names a
\* file below that root, with one `/' between them, unless the root is `/';
\* the upload directory joined with the name after the last `/' of a target
\* names a file in a directory that was there when the file was read.
PathsJoin ==
  /\ loc.root # <<>> => loc.root[1] = "/" /\ (loc.root = <<"/">> \/ Last(loc.root) # "/")
  /\ loc.upload # <<>> => loc.upload \in Dirs

\* Index names and server names add up over all directives and words, in
\* order; of the error pages of a status the last one counts; the number of a
\* status is what an int holds of it (Server.cpp:290-323).
AllAddUp ==
  LET words(d) == FlattenSeq([i \in 1 .. Len(taken[d]) |-> WordsOf(taken[d][i])])
      pages == taken["error_page"]
      code(i) == Number(pages[i]) % Ints
  IN /\ loc.index = words("index")
     /\ srv.names = words("server_name")
     /\ DOMAIN srv.pages = DefaultPages \cup {code(i) : i \in 1 .. Len(pages)}
     /\ \A i \in 1 .. Len(pages) :
          (\A j \in i + 1 .. Len(pages) : code(j) # code(i)) =>
            srv.pages[code(i)] = Last(WordsOf(pages[i]))

\* A redirection leads to what was written after its code; written without a
\* target it leads to its own code, and without either it may be taken, but
\* then compute_response() sees none (Location.cpp:191-204, HTTP_response.cpp:26-31).
RedirectionTarget ==
  loc.redirection # Unset =>
    LET arg == LastOf("redirection")
        words == WordsOf(arg)
    IN IF Len(words) < 2 THEN loc.redirection.target = arg
       ELSE arg = words[1] \o <<SP>> \o loc.redirection.target

\* Location.cpp:109-230, Router.cpp:534-691: a limit is the number that was
\* written, paths can be joined, what is given again is added, and a
\* redirection leads to what was written.
ArgumentsAsWritten == LimitAsWritten /\ PathsJoin /\ AllAddUp /\ RedirectionTarget
=============================================================================
