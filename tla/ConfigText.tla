----------------------------- MODULE ConfigText -----------------------------
(***************************************************************************)
(* From the configuration file to the directives Config takes one by one:  *)
(* Router::load() normalises the lines and joins them, the loop of         *)
(* Router::parse() cuts off a directive per turn, and main() ends or       *)
(* listens.  A word is one character.                                      *)
(***************************************************************************)
EXTENDS Text

CONSTANTS
  ContextNames,     \* the identifiers of type CONTEXT in Router::_opts
  DirectiveNames,   \* those of type DIRECTIVE
  Files             \* the configuration files, see File

\* What a file says, if it was made to say something, and how it is laid out.
File(kind, says, text) == [kind |-> kind, says |-> says, text |-> text]
Says(name, value, end) == [name |-> name, value |-> value, end |-> end]

-----------------------------------------------------------------------------
(* What a file says *)

\* A text without its comments, with each run of blanks made one, but for the
\* blanks at its end.
BlankAfter(out) == IF out = <<>> \/ out[Len(out)] = SP THEN out ELSE Append(out, SP)
PlainStep(acc, c) ==
  IF c = LF THEN [out |-> BlankAfter(acc.out), comment |-> FALSE]
  ELSE IF acc.comment \/ c = Comment THEN [out |-> acc.out, comment |-> TRUE]
  ELSE [out |-> IF IsBlank(c) THEN BlankAfter(acc.out) ELSE Append(acc.out, c), comment |-> FALSE]
Plains(s) ==
  LET upto[i \in 0 .. Len(s)] ==
        IF i = 0 THEN [out |-> <<>>, comment |-> FALSE] ELSE PlainStep(upto[i - 1], s[i])
  IN upto
Plain(s) ==
  LET p == Plains(s)[Len(s)].out
  IN IF p # <<>> /\ p[Len(p)] = SP THEN Upto(p, Len(p) - 1) ELSE p

\* What is in a text that is not blank.
Solid(s) ==
  LET upto[i \in 0 .. Len(s)] ==
        IF i = 0 THEN <<>>
        ELSE IF IsBlank(s[i]) THEN upto[i - 1] ELSE Append(upto[i - 1], s[i])
  IN upto[Len(s)]

Punctuation == {"{", "}", ";"}
IsWord(c) == ~IsBlank(c) /\ c \notin Punctuation \cup {Comment}

\* The directives a file can be made to say, and how it may write one of them,
\* when comments are left out and runs of blanks are one: words with a blank
\* between them, a mark with or without blanks around it.
Sayable(d) ==
  \/ d = Says(<<>>, <<>>, "}")
  \/ \E x \in ContextNames \cup DirectiveNames :
       /\ d = Says(<<x>>, d.value, IF x \in ContextNames THEN "{" ELSE ";")
       /\ d.value \in Seq(STRING)
       /\ \A i \in 1 .. Len(d.value) :
            IsWord(d.value[i]) \/ (d.value[i] = SP /\ i \in 2 .. Len(d.value) - 1)

Beside == {"before", "behind"}
BlankIf(there) == IF there THEN <<SP>> ELSE <<>>
WrittenAs(d, blanks) ==
  d.name \o (IF d.value = <<>> THEN <<>> ELSE <<SP>> \o d.value)
    \o BlankIf(d.name # <<>> /\ "before" \in blanks) \o <<d.end>>
    \o BlankIf("behind" \in blanks)
Writings(says) ==
  {FlattenSeq([i \in 1 .. Len(says) |-> WrittenAs(says[i], blanks[i])]) :
     blanks \in [1 .. Len(says) -> SUBSET Beside]}

ASSUME NamesAssumption ==
  \A x \in ContextNames \cup DirectiveNames : x \in STRING /\ IsWord(x)

ASSUME FilesAssumption ==
  \A f \in Files :
    /\ f = File(f.kind, f.says, f.text)
    /\ f.text \in Seq(STRING)
    /\ f.says # <<>> =>
         /\ f.says \in Seq([name : Seq(STRING), value : Seq(STRING), end : Punctuation])
         /\ \A i \in 1 .. Len(f.says) : Sayable(f.says[i])
         /\ Plain(f.text) \in Writings(f.says)

-----------------------------------------------------------------------------
(* From the file to directives *)

VARIABLES
  file,         \* the file
  unread,       \* what std::getline() has not read yet
  buffer,       \* the joined lines, less the directives cut off
  directives,   \* history: what parse() saw
  good,         \* _good
  stage,        \* "load", "parse"; "loaded"; "listen", when load() returned
                \* EXIT_FAILURE, which main() ignores; "ended"
  exitCode      \* the exit code

textVars == <<file, unread, buffer, directives, good, stage, exitCode>>

EXIT_SUCCESS == 0
EXIT_FAILURE == 1

TextInit ==
  /\ file \in Files
  /\ unread = file.text
  /\ buffer = <<>>
  /\ directives = <<>>
  /\ good = TRUE
  /\ stage = "load"
  /\ exitCode = EXIT_SUCCESS

NoFile ==
  /\ stage = "load"
  /\ \/ file.kind # "regular"
     \/ unread # <<>>          \* a read that fails
  /\ stage' = "listen"
  /\ UNCHANGED <<file, unread, buffer, directives, good, exitCode>>

\* One turn of the loop over the lines; the last one needs no LF.  Mutation:
\* the lines are joined without a blank.
Join(b, l) == b \o l
Add(b, l) == Append(b \o l, SP)

ReadLine ==
  LET end == IF Holds(unread, LF) THEN Find(unread, LF) ELSE Len(unread) + 1
      line == Normalize(Upto(unread, end - 1))
  IN
  /\ stage = "load"
  /\ file.kind = "regular"
  /\ unread # <<>>
  /\ unread' = From(unread, end + 1)
  /\ buffer' = IF line = <<>> THEN buffer ELSE Add(buffer, line)
  /\ UNCHANGED <<file, directives, good, stage, exitCode>>

LinesEnd ==
  /\ stage = "load"
  /\ file.kind = "regular"
  /\ unread = <<>>
  /\ buffer' = TrimF(buffer)
  /\ stage' = "parse"
  /\ UNCHANGED <<file, unread, directives, good, exitCode>>

FindFirstOf(s, marks) == SelectInSeq(s, LAMBDA c : c \in marks)

\* get_directive_length(): up to a `;' or a `{', or to before a `}' that is
\* not all of it, and the blanks after it.  Mutation: these are left.
DirectiveEnd(b) ==
  LET i == FindFirstOf(b, Punctuation)
  IN IF i = 0 THEN Len(b) ELSE IF b[i] = "}" /\ i > 1 THEN i - 1 ELSE i
WithoutBlanks(b, end) == end
WithBlanks(b, end) ==
  IF \A i \in end + 1 .. Len(b) : IsBlank(b[i]) THEN Len(b)
  ELSE CHOOSE n \in end .. Len(b) - 1 :
         ~IsBlank(b[n + 1]) /\ \A i \in end + 1 .. n : IsBlank(b[i])

\* get_word( , " \f\n\r\t\v;{}" ): nothing, if none of these follows.
Delimiter == Blank \cup Punctuation
NameOf(d) == SubSeq(d, 1, FindFirstOf(d, Delimiter) - 1)

\* validate_directive()
Known(d) ==
  /\ Len(d) > 1
  /\ d[1] \in ContextNames \cup DirectiveNames
  /\ d[2] \in Delimiter
Valid(d) ==
  \/ d = <<"}">>
  \/ Known(d) /\ d[Len(d)] = IF d[1] \in ContextNames THEN "{" ELSE ";"

NextDirective ==
  LET n == WithBlanks(buffer, DirectiveEnd(buffer))
      directive == TrimF(Upto(buffer, n))
  IN
  /\ stage = "parse"
  /\ buffer # <<>>
  /\ directives' = Append(directives, directive)
  /\ buffer' = From(buffer, n + 1)
  /\ IF Valid(directive)
     THEN UNCHANGED <<good, stage>>
     ELSE /\ good' = FALSE
          /\ stage' = "listen"
  /\ UNCHANGED <<file, unread, exitCode>>

\* What Config says of the contexts and the arguments comes on top.
Loaded ==
  /\ stage = "parse"
  /\ buffer = <<>>
  /\ stage' = "loaded"
  /\ UNCHANGED <<file, unread, buffer, directives, good, exitCode>>

\* main(): listen() of a router without servers returns EXIT_SUCCESS.  What
\* becomes of directives that were loaded is in Config.
\* Mutation: it is not asked if the router is good.
CodeOfListen(isGood) == EXIT_SUCCESS
CodeOfMain(isGood) == IF isGood THEN EXIT_SUCCESS ELSE EXIT_FAILURE

MainEnds ==
  /\ \/ stage = "listen"
     \/ stage = "loaded" /\ directives = <<>>
  /\ exitCode' = CodeOfMain(good)
  /\ stage' = "ended"
  /\ UNCHANGED <<file, unread, buffer, directives, good>>

TextNext == NoFile \/ ReadLine \/ LinesEnd \/ NextDirective \/ Loaded \/ MainEnds

TextSpec == TextInit /\ [][TextNext]_textVars

-----------------------------------------------------------------------------
(* Properties *)

\* Every variable has its type; the buffer has no blanks at its ends and no
\* two in a row when parse() gets it, so that no directive begins with one.
TextTypeOK ==
  /\ unread = From(file.text, Len(file.text) - Len(unread) + 1)
  /\ stage \in {"load", "parse", "loaded", "listen", "ended"}
  /\ stage = "parse" => buffer = Normalize(buffer)
  /\ good \/ directives # <<>>
  /\ exitCode \in {EXIT_SUCCESS, EXIT_FAILURE}

\* While parse() cuts the buffer up every word and punctuation mark of the
\* file that is not in a comment is in one directive or still to come, in the
\* order of the file, and words that a line's end parts stay apart.
NothingLost ==
  stage \in {"parse", "loaded"} =>
    /\ FlattenSeq([i \in 1 .. Len(directives) |-> Solid(directives[i])]) \o Solid(buffer)
         = Solid(Plain(file.text))
    /\ \A i \in 1 .. Len(directives) : directives[i] # <<>>

\* What Router::parse() takes for the name and the value of a directive.
Read(d) ==
  IF d = <<"}">> THEN Says(<<>>, <<>>, "}")
  ELSE Says(NameOf(d), TrimF(SubSeq(d, Len(NameOf(d)) + 1, Len(d) - 1)), d[Len(d)])

\* A file says the same whatever its layout: with its words parted by blanks,
\* lines and comments, and its punctuation with or without blanks around it,
\* it is loaded, and as the directives it was made of.
LayoutIrrelevant ==
  file.says # <<>> =>
    /\ good
    /\ stage = "loaded" => [i \in 1 .. Len(directives) |-> Read(directives[i])] = file.says

\* A program that ends with success has seen no directive: its file is not a
\* regular one, could not be read to its end, or says nothing (main.cpp:50).
SuccessUnread ==
  stage = "ended" /\ exitCode = EXIT_SUCCESS =>
    /\ directives = <<>>
    /\ file.kind # "regular" \/ unread # <<>> \/ Plain(file.text) = <<>>

\* string.cpp:8-84, Router.cpp:80-133, main.cpp:50: no word of a file is lost or
\* joined with another, its layout makes no difference, and a program that ends
\* with success has read none.
TextAsWritten == NothingLost /\ LayoutIrrelevant /\ SuccessUnread
=============================================================================
