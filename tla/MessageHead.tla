----------------------------- MODULE MessageHead ----------------------------
(***************************************************************************)
(* parse_start_line() and parse_field_line(): what becomes of the lines of *)
(* a request's head, character by character where the parser looks at      *)
(* characters.  A method and a version are one character each.  HttpParser *)
(* decides which lines are complete; here each line is, less its LF.       *)
(***************************************************************************)
EXTENDS Text

CONSTANTS
  Methods,      \* the names in HTTP::methods
  NoMethod,
  OctetOf,      \* what stoi( , 0, 16 ) makes of two characters, for those of
                \* which it makes something
  Heads         \* what clients send: a request line, the units its target was
                \* built from, if it was, and the lines of the fields

\* A unit is one character, or an escape for one octet.
RequestLine(method, units, version) ==
  <<method, SP>> \o FlattenSeq(units) \o <<SP, version, CR>>
Built(method, units, version, fields) ==
  [line |-> RequestLine(method, units, version), units |-> units, fields |-> fields]
Written(line) == [line |-> line, units |-> <<>>, fields |-> <<>>]

\* Not a character: stoi() has thrown.
Invalid == "invalid"

\* A unit of a target that was built is no blank, and an escape is one that
\* can be decoded, of characters that mean nothing in a target.
UnitAllowed(u) ==
  \/ Len(u) = 1 /\ u[1] # SP
  \/ /\ Len(u) = 3
     /\ u[1] = "%"
     /\ <<u[2], u[3]>> \in DOMAIN OctetOf
     /\ {u[2], u[3]} \cap {SP, "?", "#", "/"} = {}

ASSUME OctetAssumption == \A p \in DOMAIN OctetOf : OctetOf[p] # Invalid

ASSUME NoMethodAssumption == NoMethod \notin Methods

ASSUME HeadsAssumption ==
  \A h \in Heads :
    /\ h.line \in Seq(STRING) /\ \A i \in 1 .. Len(h.line) : h.line[i] # Invalid
    /\ h.units \in Seq(Seq(STRING)) /\ h.fields \in Seq(Seq(STRING))
    /\ h.units # <<>> =>
         /\ \E m, v \in {h.line[i] : i \in 1 .. Len(h.line)} :
              m # SP /\ h.line = RequestLine(m, h.units, v)
         /\ \A i \in 1 .. Len(h.units) : UnitAllowed(h.units[i])

VARIABLES
  head,         \* the head the client sends
  line,         \* the request line, less what was consumed
  fieldsTaken,  \* how many lines of fields were taken
  message,      \* method, target and query of t_request
  headers,      \* _request.headers
  headStatus,   \* _response.status_code
  headStage     \* the next function to run; "rejected", or "terminated" by an
                \* exception that nothing catches

headVars == <<head, line, fieldsTaken, message, headers, headStatus, headStage>>

STATUS_BAD_REQUEST == 400
NOT_IMPLEMENTED == 501
EXIT_SUCCESS == 0
EXIT_FAILURE == 1

HeadInit ==
  /\ head \in Heads
  /\ line = head.line
  /\ fieldsTaken = 0
  /\ message = [method |-> NoMethod, target |-> <<>>, query |-> <<>>]
  /\ headers = [n \in {} |-> <<>>]
  /\ headStatus = EXIT_SUCCESS
  /\ headStage = "method"

\* The function returns this status; the line is bad unless it is
\* EXIT_SUCCESS.  recv_request() puts 400 for a status that was not set.
\* Mutation: what is no status of HTTP is taken for none.
ReturnsStatus(code, next) ==
  /\ headStatus' = code
  /\ headStage' = IF code < STATUS_BAD_REQUEST THEN next ELSE "rejected"
Returns(code, next) ==
  /\ headStatus' = code
  /\ headStage' = IF code = EXIT_SUCCESS THEN next ELSE "rejected"

\* line.erase( 0, line.find_first_of( SP, 0 ) + 1 ): without a SP nothing.
Word(l) == IF Holds(l, SP) THEN Upto(l, Find(l, SP) - 1) ELSE l
AfterWord(l) == From(l, Find(l, SP) + 1)

ParseMethod ==
  LET value == Word(line)
      code == IF ~Holds(line, SP) THEN STATUS_BAD_REQUEST
              ELSE IF Len(value) = 1 /\ value[1] \in Methods THEN EXIT_SUCCESS
              ELSE NOT_IMPLEMENTED
  IN
  /\ headStage = "method"
  /\ Returns(code, "target")
  /\ message' = IF code = EXIT_SUCCESS THEN [message EXCEPT !.method = value[1]] ELSE message
  /\ line' = AfterWord(line)
  /\ UNCHANGED <<head, fieldsTaken, headers>>

\* From the first `?' to the first `#', wherever that is: a length that wraps
\* takes the rest.
ParseQuery(target) ==
  LET pos == Find(target, "?")
      end == Find(target, "#")
  IN IF pos = 0 THEN <<>>
     ELSE IF end > pos THEN SubSeq(target, pos, end - 1) ELSE From(target, pos)

\* As many characters as the query has are cut off at the end.
WithoutQuery(target) == Upto(target, Len(target) - Len(ParseQuery(target)))

\* All `/' at the end but one.  Mutation: all.
SlashesOff(value) == Upto(value, SelectLastInSeq(value, LAMBDA c : c # "/"))
OneSlash(value) ==
  IF value # <<>> /\ value[Len(value)] = "/" THEN Append(SlashesOff(value), "/") ELSE value

\* stoi() throws if the first of the two characters begins no number.
Decoded(a, b) == IF <<a, b>> \in DOMAIN OctetOf THEN OctetOf[<<a, b>>] ELSE Invalid

\* urldecode(), up to the i-th character: an octet that was decoded is not
\* looked at again, and an escape that is cut short stays as it is.
DecodeStep(s, acc, i) ==
  IF acc.skip > 0 THEN [acc EXCEPT !.skip = @ - 1]
  ELSE IF s[i] = "%" /\ i + 2 <= Len(s)
  THEN [out |-> Append(acc.out, Decoded(s[i + 1], s[i + 2])), skip |-> 2]
  ELSE [acc EXCEPT !.out = Append(@, s[i])]
UrlDecode(s) ==
  LET upto[i \in 0 .. Len(s)] ==
        IF i = 0 THEN [out |-> <<>>, skip |-> 0] ELSE DecodeStep(s, upto[i - 1], i)
  IN upto[Len(s)].out

\* Mutation: a target is decoded before its query is found.
TargetOfDecoded(value) == OneSlash(WithoutQuery(UrlDecode(value)))
TargetOf(value) == UrlDecode(OneSlash(WithoutQuery(value)))

ParseTarget ==
  LET value == Word(line)
      code == IF ~Holds(line, SP) THEN STATUS_BAD_REQUEST
              ELSE IF value = <<>> \/ value[1] # "/" THEN EXIT_FAILURE
              ELSE EXIT_SUCCESS
  IN
  /\ headStage = "target"
  /\ IF code = EXIT_SUCCESS
     THEN /\ message' = [message EXCEPT !.query = ParseQuery(value),
                                        !.target = TargetOf(value)]
          /\ IF Holds(TargetOf(value), Invalid)
             THEN /\ headStage' = "terminated"
                  /\ UNCHANGED headStatus
             ELSE Returns(code, "version")
     ELSE /\ Returns(code, "version")
          /\ UNCHANGED message
  /\ line' = AfterWord(line)
  /\ UNCHANGED <<head, fieldsTaken, headers>>

\* HTTP/1.0 is the one version that is refused.  Mutation: a line that does
\* not end with CR fails without a status of its own.
VersionCodeFails(l) ==
  IF ~Holds(l, CR) \/ Upto(l, Find(l, CR) - 1) = <<"HTTP/1.0">> THEN STATUS_BAD_REQUEST
  ELSE IF l[Len(l)] # CR THEN EXIT_FAILURE
  ELSE EXIT_SUCCESS
VersionCode(l) ==
  IF ~Holds(l, CR) \/ Upto(l, Find(l, CR) - 1) = <<"HTTP/1.0">> THEN STATUS_BAD_REQUEST
  ELSE IF l[Len(l)] # CR THEN STATUS_BAD_REQUEST
  ELSE EXIT_SUCCESS

ParseHttpVersion ==
  /\ headStage = "version"
  /\ Returns(VersionCode(line), "fields")
  /\ UNCHANGED <<head, line, fieldsTaken, message, headers>>

-----------------------------------------------------------------------------
(* The field lines *)

\* A line without a colon is the name and the value both: ++pos wraps to 0.
\* Mutation: the name is not put in lower case.
FieldName(l) == IF Holds(l, ":") THEN Upto(l, Find(l, ":") - 1) ELSE l
FieldAsWritten(l) == [name |-> FieldName(l), value |-> TrimF(From(l, Find(l, ":") + 1))]
FieldOf(l) == [name |-> StrToLower(FieldName(l)), value |-> TrimF(From(l, Find(l, ":") + 1))]

\* The lines before the empty one, one after the other.  map::insert() keeps
\* what is there.
ParseField ==
  LET field == FieldOf(head.fields[fieldsTaken + 1]) IN
  /\ headStage = "fields"
  /\ fieldsTaken < Len(head.fields)
  /\ fieldsTaken' = fieldsTaken + 1
  /\ headers' = [n \in DOMAIN headers \cup {field.name} |->
                   IF n \in DOMAIN headers THEN headers[n] ELSE field.value]
  /\ UNCHANGED <<head, line, message, headStatus, headStage>>

HeadNext == ParseMethod \/ ParseTarget \/ ParseHttpVersion \/ ParseField

HeadSpec == HeadInit /\ [][HeadNext]_headVars

-----------------------------------------------------------------------------
(* Properties *)

\* Every variable has its type; what is left of the line is an end of it.
HeadTypeOK ==
  /\ line = From(head.line, Len(head.line) - Len(line) + 1)
  /\ fieldsTaken \in 0 .. Len(head.fields)
  /\ message.method \in Methods \cup {NoMethod}
  /\ Len(message.target) + Len(message.query) <= Len(head.line)
  /\ Cardinality(DOMAIN headers) <= fieldsTaken
  /\ headStatus \in {EXIT_SUCCESS, EXIT_FAILURE, STATUS_BAD_REQUEST, NOT_IMPLEMENTED}
  /\ headStage \in {"method", "target", "version", "fields", "rejected", "terminated"}
  /\ headStage # "rejected" => headStatus = EXIT_SUCCESS

Accepted == headStage = "fields"
HasUnit(u) == \E i \in 1 .. Len(head.units) : head.units[i] = u

\* The units of the path, before the first `?'; with one `/' for those at its
\* end; and what they stand for.
PathUnits ==
  LET pos == SelectInSeq(head.units, LAMBDA u : u = <<"?">>)
  IN IF pos = 0 THEN head.units ELSE SubSeq(head.units, 1, pos - 1)
Collapsed(units) ==
  LET other == SelectLastInSeq(units, LAMBDA u : u # <<"/">>)
  IN IF other = Len(units) THEN units ELSE SubSeq(units, 1, other + 1)
Octet(unit) == IF Len(unit) = 1 THEN unit[1] ELSE OctetOf[<<unit[2], unit[3]>>]

\* A target that is made of characters and whole escapes and has no fragment
\* is taken apart and decoded, once: the path is what its units stand for,
\* with one `/' for those at its end, and the query is as it was sent.
TargetAsSent ==
  Accepted /\ head.units # <<>> /\ ~HasUnit(<<"%">>) /\ ~HasUnit(<<"#">>) =>
    /\ message.target = [i \in 1 .. Len(Collapsed(PathUnits)) |-> Octet(Collapsed(PathUnits)[i])]
    /\ FlattenSeq(PathUnits) \o message.query = FlattenSeq(head.units)

\* What stoi() throws ends the server: only for an escape without a digit, and
\* in the path if there is no fragment, never for one in the query or for one
\* that the end of the target cuts short (string.cpp:105).
ThrowCause ==
  LET text == FlattenSeq(IF HasUnit(<<"#">>) THEN head.units ELSE PathUnits) IN
  headStage = "terminated" /\ head.units # <<>> =>
    \E i \in 1 .. Len(text) - 2 :
      text[i] = "%" /\ <<text[i + 1], text[i + 2]>> \notin DOMAIN OctetOf

\* A line that is rejected has an error of HTTP for its status, which tells a
\* method that is not known from everything else, but for a target that does
\* not begin with `/': its status is EXIT_FAILURE (HTTP_parse.cpp:134).
StatusUnlessNoSlash ==
  headStage = "rejected" =>
    IF message.method = NoMethod
    THEN headStatus = IF Holds(head.line, SP) THEN NOT_IMPLEMENTED ELSE STATUS_BAD_REQUEST
    ELSE (headStatus = EXIT_FAILURE) <=>
           /\ Cardinality({i \in 1 .. Len(head.line) : head.line[i] = SP}) > 1
           /\ head.line[3] # "/"

\* t is what is left of s without the blanks at both its ends.
Stripped(s, t) ==
  \E a, b \in 0 .. Len(s) :
    /\ t = SubSeq(s, a + 1, b)
    /\ \A i \in (1 .. a) \cup (b + 1 .. Len(s)) : IsBlank(s[i])
    /\ t # <<>> => ~IsBlank(t[1]) /\ ~IsBlank(t[Len(t)])

\* A field is found under its name in small letters, with its value less the
\* blanks around it, whatever comes before and after it, unless an earlier
\* line has the same name; a line without a colon hides no other field
\* (HTTP_parse.cpp:213-238).
FieldsFound ==
  \A i \in 1 .. fieldsTaken :
    LET l == head.fields[i]
        name(k) == StrToLower(FieldName(head.fields[k]))
    IN Holds(l, ":") /\ (\A j \in 1 .. i - 1 : name(j) # name(i)) =>
         /\ name(i) \in DOMAIN headers
         /\ Stripped(From(l, Find(l, ":") + 1), headers[name(i)])

\* HTTP_parse.cpp:123-238: a target that is accepted is taken apart and decoded
\* once, and a field is found under its name, whatever is around it.
HeadAsSent == TargetAsSent /\ FieldsFound

\* HTTP_parse.cpp:75-172, string.cpp:105: which request lines are rejected with
\* which status, and which of them end the server.
HeadRejected == StatusUnlessNoSlash /\ ThrowCause

\* HTTP_parse.cpp:151-153: the version is compared with the supported one.
OnlySupportedVersion == Accepted => Holds(head.line, "HTTP/1.1")
=============================================================================
