------------------------------ MODULE CgiOutput -----------------------------
(***************************************************************************)
(* What CGI::dispatch() makes of the output of a process that has ended:   *)
(* it reads the pipe, parse_headers() takes the output apart one line per  *)
(* turn of its loop, check_headers() looks at what it found.  CgiProcess   *)
(* has the life of the process and takes an output that can be parsed.     *)
(***************************************************************************)
EXTENDS Text

CONSTANTS
  Outputs,     \* what processes write: lines, and if the last one has its LF
  Chunks       \* bodies of chunked requests, left in _response.body

Output(lines, ended) == [lines |-> lines, ended |-> ended]
TextOf(o) ==
  LET joined == FlattenSeq([i \in 1 .. Len(o.lines) |-> Append(o.lines[i], LF)])
  IN IF o.ended \/ joined = <<>> THEN joined ELSE Front(joined)

\* A LF is what ends a line.
ASSUME OutputsAssumption ==
  \A o \in Outputs :
    /\ o.lines \in Seq(Seq(STRING)) /\ o.ended \in BOOLEAN
    /\ \A i \in 1 .. Len(o.lines) : \A j \in 1 .. Len(o.lines[i]) : o.lines[i][j] # LF

ASSUME ChunksAssumption == \A c \in Chunks : c \in Seq(STRING)

VARIABLES
  written,       \* what the process wrote
  echoed,        \* _response.body before
  unparsed,      \* what of the output is not parsed yet
  replyHeaders,  \* _response.headers
  replyBody,     \* _response.body
  replyStatus,   \* _response.status_code
  outputStage    \* "read", "headers", "check"; "composed"; "failed", a read that
                 \* did; "terminated" by an exception that nothing catches

outputVars ==
  <<written, echoed, unparsed, replyHeaders, replyBody, replyStatus, outputStage>>

STATUS_NO_CONTENT == 204
UNPROCESSABLE_CONTENT == 422
STATUS_BAD_GATEWAY == 502

OutputInit ==
  /\ written \in Outputs
  /\ echoed \in Chunks
  /\ unparsed = TextOf(written)
  /\ replyHeaders = [n \in {} |-> <<>>]
  /\ replyBody = echoed
  /\ replyStatus = 0
  /\ outputStage = "read"

\* Reading may fail at any time, and nothing is composed then.  No output is
\* no content, for now.  Otherwise the first line may do without its LF.
Read ==
  /\ outputStage = "read"
  /\ \/ /\ outputStage' = "failed"
        /\ replyStatus' = STATUS_BAD_GATEWAY
     \/ /\ outputStage' = IF unparsed = <<>> THEN "check" ELSE "headers"
        /\ replyStatus' = IF unparsed = <<>> THEN STATUS_NO_CONTENT ELSE replyStatus
  /\ UNCHANGED <<written, echoed, unparsed, replyHeaders, replyBody>>

AtFirst == unparsed = TextOf(written)
LineEnd == IF Holds(unparsed, LF) THEN Find(unparsed, LF) ELSE Len(unparsed) + 1
Line == StrToLower(TrimF(Upto(unparsed, LineEnd - 1)))
InHeaders == outputStage = "headers" /\ (AtFirst \/ Holds(unparsed, LF))

\* Two characters are dropped, whatever the second one is; if there is no
\* second one, substr() throws.  Mutation: it throws at the end, too.
Value(l) == Normalize(From(l, Find(l, ":") + 2))
ThrowsAtEnd(l) == Len(l) <= Find(l, ":") + 1
Throws(l) == Find(l, ":") = Len(l)

\* Of lines with the same name the last one counts.
SetHeader(name, value) ==
  [n \in {name} \cup DOMAIN replyHeaders |-> IF n = name THEN value ELSE replyHeaders[n]]

HeaderLine ==
  /\ InHeaders
  /\ Holds(Line, ":")
  /\ IF Throws(Line)
     THEN /\ outputStage' = "terminated"
          /\ UNCHANGED <<unparsed, replyHeaders>>
     ELSE /\ replyHeaders' = SetHeader(Upto(Line, Find(Line, ":") - 1), Value(Line))
          /\ unparsed' = From(unparsed, LineEnd + 1)
          /\ UNCHANGED outputStage
  /\ UNCHANGED <<written, echoed, replyBody, replyStatus>>

\* The empty line: the rest is added to the body.  If the LF was the end of
\* the text and not there, substr() throws.  Mutation: it replaces the body.
SetReplaced(before, text) == text
SetMessageBody(before, text) == before \o text

EmptyLine ==
  /\ InHeaders
  /\ Line = <<>>
  /\ IF Holds(unparsed, LF)
     THEN /\ replyBody' = SetMessageBody(replyBody, From(unparsed, LineEnd + 1))
          /\ outputStage' = "check"
     ELSE /\ outputStage' = "terminated"
          /\ UNCHANGED replyBody
  /\ UNCHANGED <<written, echoed, unparsed, replyHeaders, replyStatus>>

\* A line that is neither is passed over.
OtherLine ==
  /\ InHeaders
  /\ Line # <<>>
  /\ ~Holds(Line, ":")
  /\ unparsed' = From(unparsed, LineEnd + 1)
  /\ UNCHANGED <<written, echoed, replyHeaders, replyBody, replyStatus, outputStage>>

\* What comes after the last LF is passed over, too.
NoMoreLines ==
  /\ outputStage = "headers"
  /\ ~AtFirst
  /\ ~Holds(unparsed, LF)
  /\ outputStage' = "check"
  /\ UNCHANGED <<written, echoed, unparsed, replyHeaders, replyBody, replyStatus>>

Required == {<<"status">>, <<"content-type">>, <<"location">>}

\* Any of the three will do.  Mutations: a status that is set already stays; all
\* of the three are required.
CheckedKeeps(code, hs) ==
  IF code = 0 /\ Required \cap DOMAIN hs = {} THEN UNPROCESSABLE_CONTENT ELSE code
CheckedAll(code, hs) == IF ~(Required \subseteq DOMAIN hs) THEN UNPROCESSABLE_CONTENT ELSE 0
Checked(code, hs) == IF Required \cap DOMAIN hs = {} THEN UNPROCESSABLE_CONTENT ELSE code

CheckHeaders ==
  /\ outputStage = "check"
  /\ replyStatus' = Checked(replyStatus, replyHeaders)
  /\ outputStage' = "composed"
  /\ UNCHANGED <<written, echoed, unparsed, replyHeaders, replyBody>>

OutputNext ==
  \/ Read
  \/ HeaderLine
  \/ EmptyLine
  \/ OtherLine
  \/ NoMoreLines
  \/ CheckHeaders

OutputSpec == OutputInit /\ [][OutputNext]_outputVars

-----------------------------------------------------------------------------
(* Properties *)

\* Every variable has its type, and what is not parsed is an end of the output.
OutputTypeOK ==
  /\ unparsed = From(TextOf(written), Len(TextOf(written)) - Len(unparsed) + 1)
  /\ \A n \in DOMAIN replyHeaders : Len(n) + Len(replyHeaders[n]) < Len(TextOf(written))
  /\ replyStatus \in {0, STATUS_NO_CONTENT, UNPROCESSABLE_CONTENT, STATUS_BAD_GATEWAY}
  /\ outputStage \in {"read", "headers", "check", "composed", "failed", "terminated"}
  /\ replyStatus = STATUS_NO_CONTENT => outputStage = "check"

\* The lines with their LF, and the first of them that is blank, or the number
\* after the last.  A single line counts without its LF.
Blanks(l) == \A i \in 1 .. Len(l) : IsBlank(l[i])
Ended ==
  IF written.ended \/ Len(written.lines) < 2 THEN written.lines ELSE Front(written.lines)
BlankAt ==
  LET i == SelectInSeq(Ended, Blanks) IN IF i = 0 THEN Len(Ended) + 1 ELSE i
Lines == SubSeq(Ended, 1, BlankAt - 1)

HeaderName(l) == StrToLower(SubSeq(TrimF(l), 1, Find(TrimF(l), ":") - 1))
After(l) == From(TrimF(l), Find(TrimF(l), ":") + 1)

\* t has the words of s, separated by one SP: a blank stays if it comes after
\* a word and before another, and a character that stays is as far from the
\* beginning as there are others before it.
Stays(s, i) ==
  \/ ~IsBlank(s[i])
  \/ /\ i > 1 /\ ~IsBlank(s[i - 1])
     /\ \E j \in i + 1 .. Len(s) : ~IsBlank(s[j])
StayUpto(s, n) == {i \in 1 .. n : Stays(s, i)}
SameWords(s, t) ==
  /\ Len(t) = Cardinality(StayUpto(s, Len(s)))
  /\ \A i \in StayUpto(s, Len(s)) :
       t[Cardinality(StayUpto(s, i))] = IF IsBlank(s[i]) THEN SP ELSE s[i]

\* Every line before the empty one that puts a blank after the colon gives the
\* response a header, unless a later one has its name: what comes before a `#'
\* in it, word for word, in small letters.  Without the blank the first
\* character would be lost (CGI.cpp:261).
HeadersAsWritten ==
  outputStage = "composed" =>
    /\ DOMAIN replyHeaders =
         {HeaderName(Lines[i]) : i \in {j \in 1 .. Len(Lines) : Holds(Lines[j], ":")}}
    /\ \A i \in 1 .. Len(Lines) :
         /\ Holds(Lines[i], ":")
         /\ IsBlank(After(Lines[i])[1])
         /\ \A j \in i + 1 .. Len(Lines) :
              Holds(Lines[j], ":") => HeaderName(Lines[j]) # HeaderName(Lines[i])
         => SameWords(StrToLower(TrimComments(After(Lines[i]))), replyHeaders[HeaderName(Lines[i])])

\* The body is what the process wrote after the first empty line, all of it
\* and as it was, after the body of a chunked request (CGI.cpp:266-275).
BodyAfterEmptyLine ==
  outputStage = "composed" =>
    replyBody = echoed \o TextOf(Output(From(written.lines, BlankAt + 1), written.ended))

\* The server is ended by an output exactly if it has a line with nothing but
\* blanks after the colon before the empty line, or is one blank line without
\* its LF (CGI.cpp:261, 271).
OutputThrowCause ==
  LET bad == \/ \E i \in 1 .. Len(Lines) : Holds(Lines[i], ":") /\ After(Lines[i]) = <<>>
             \/ Len(written.lines) = 1 /\ ~written.ended /\ Blanks(written.lines[1])
                  /\ written.lines[1] # <<>>
  IN /\ outputStage = "terminated" => bad
     /\ outputStage = "composed" => ~bad

\* The status of a reply is never 204, not for an empty output either: it is
\* 422 unless a line before the empty one names one of the three headers, and
\* it is 0 if one does, whatever status that line gives (CGI.cpp:209-228).
StatusOfOutput ==
  outputStage = "composed" =>
    replyStatus =
      IF \E i \in 1 .. Len(Lines) : Holds(Lines[i], ":") /\ HeaderName(Lines[i]) \in Required
      THEN 0 ELSE UNPROCESSABLE_CONTENT

\* CGI.cpp:209-275: the status, the headers and the body of a reply are those
\* that follow from the lines a process wrote, and the lines at which an
\* exception ends the server are those named.
OutputAsWritten ==
  OutputTypeOK /\ StatusOfOutput /\ HeadersAsWritten /\ BodyAfterEmptyLine /\ OutputThrowCause
=============================================================================
