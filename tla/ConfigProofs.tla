---------------------------- MODULE ConfigProofs ----------------------------
(***************************************************************************)
(* Proofs about Config, for any addresses, names, locations and sets of    *)
(* methods, and files of any length: the setters reach the block whose     *)
(* braces are open, and the flags of a location are those that were        *)
(* written.  About Directives, for any arguments of any length, any widths *)
(* of the numbers and any number of directives: what the setters keep of   *)
(* them is what was written.  And about ConfigText, for files of any       *)
(* length in any layout: no word is lost or joined with another.           *)
(***************************************************************************)
EXTENDS Config, ConfigText, Directives, StringProofs

Routes == UNION {[D -> SUBSET Flags] : D \in SUBSET RouteKeys}
ServerType == [addr : Addr \cup {None}, names : SUBSET Name, routes : Routes]

Given == [methods : {{}} \cup Limits, autoindex : {None, "on", "off"}, twice : BOOLEAN]
GivenType == UNION {[D -> Given] : D \in SUBSET RouteKeys}

\* The history has the routes of each server.
Shapes ==
  /\ servers \in Seq(ServerType)
  /\ given \in Seq(GivenType)
  /\ Len(given) = Len(servers)
  /\ \A i \in 1 .. Len(servers) :
       /\ DOMAIN given[i] = DOMAIN servers[i].routes
       /\ Default \in DOMAIN given[i]

Contexts == {<<>>, <<"main">>, <<"main", "server">>, <<"main", "server", "location">>}

\* Where the braces are, and what is open there.
Nested ==
  /\ stack \in Contexts
  /\ location \in RouteKeys
  /\ Len(stack) > 1 => servers # <<>>
  /\ Len(stack) = 3 => location \in Key /\ location \in DOMAIN servers[Current].routes
  /\ Len(stack) # 3 => location = Default

IInv == Shapes /\ Nested /\ FlagsAsWritten

-----------------------------------------------------------------------------
\* A sequence of two or three elements without its last one.
LEMMA WithoutLast ==
  ASSUME NEW x, NEW y, NEW z
  PROVE  SubSeq(<<x, y>>, 1, 1) = <<x>> /\ SubSeq(<<x, y, z>>, 1, 2) = <<x, y>>
<1> DEFINE S == {x, y, z}
           s == SubSeq(<<x, y>>, 1, 1)
           t == SubSeq(<<x, y, z>>, 1, 2)
<1>1. s = <<x>>
  <2>1. s \in Seq(S) /\ Len(s) = 1 /\ s[1] = x
    OBVIOUS
  <2>2. <<x>> \in Seq(S)
    OBVIOUS
  <2> HIDE DEF s, S
  <2>3. Len(s) = Len(<<x>>) /\ \A i \in 1 .. Len(s) : s[i] = <<x>>[i]
    BY <2>1
  <2>4. QED
    BY <2>1, <2>2, <2>3, SeqEqual
<1>2. t = <<x, y>>
  <2>1. t \in Seq(S) /\ Len(t) = 2 /\ t[1] = x /\ t[2] = y
    OBVIOUS
  <2>2. <<x, y>> \in Seq(S)
    OBVIOUS
  <2> HIDE DEF t, S
  <2>3. Len(t) = Len(<<x, y>>) /\ \A i \in 1 .. Len(t) : t[i] = <<x, y>>[i]
    BY <2>1
  <2>4. QED
    BY <2>1, <2>2, <2>3, SeqEqual
<1>3. QED
  BY <1>1, <1>2

LEMMA Appended == ASSUME NEW x, NEW y PROVE Append(<<x>>, y) = <<x, y>>
<1> DEFINE S == {x, y}
           t == Append(<<x>>, y)
<1>1. t \in Seq(S) /\ Len(t) = 2 /\ t[1] = x /\ t[2] = y
  OBVIOUS
<1>2. <<x, y>> \in Seq(S)
  OBVIOUS
<1> HIDE DEF t, S
<1>3. Len(t) = Len(<<x, y>>) /\ \A i \in 1 .. Len(t) : t[i] = <<x, y>>[i]
  BY <1>1
<1>4. t = <<x, y>>
  BY <1>1, <1>2, <1>3, SeqEqual
<1>5. QED
  BY <1>4 DEF t

\* The contexts, the one around each, and the last element of each.
LEMMA Around ==
  /\ Front(<<"main">>) = <<>>
  /\ Front(<<"main", "server">>) = <<"main">>
  /\ Front(<<"main", "server", "location">>) = <<"main", "server">>
<1>1. Front(<<"main">>) = <<>>
  BY DEF Front
<1>2. Front(<<"main", "server">>) = <<"main">>
  <2>1. Len(<<"main", "server">>) - 1 = 1
    OBVIOUS
  <2>2. QED
    BY ONLY <2>1, WithoutLast, Zenon DEF Front
<1>3. Front(<<"main", "server", "location">>) = <<"main", "server">>
  <2>1. Len(<<"main", "server", "location">>) - 1 = 2
    OBVIOUS
  <2>2. QED
    BY ONLY <2>1, WithoutLast, Zenon DEF Front
<1>4. QED
  BY <1>1, <1>2, <1>3

LEMMA FlagFacts ==
  /\ "AUTOINDEX" \notin Words \cup {"DELETE"}
  /\ Words \subseteq Flags /\ NewRoute = Words \cup {"DELETE"}
  /\ NewRoute \subseteq Flags
  BY DEF Words, Flags, NewRoute

\* limit_except, given once, leaves the methods it names; autoindex on adds
\* its own flag.
LEMMA FlagArithmetic ==
  ASSUME NEW words \in Limits, NEW ai \in SUBSET {"AUTOINDEX"}
  PROVE  /\ SetFlag(NewRoute \cup ai, LimitMask(words), FALSE) = words \cup ai
         /\ words # {} /\ words \subseteq Words
  BY LimitAssumption DEF SetFlag, SymDiff, LimitMask, NewRoute, Flags, Words

LEMMA InitInv == Init => IInv
<1> SUFFICES ASSUME Init PROVE IInv
  OBVIOUS
<1>1. Shapes
  BY DEF Init, Shapes
<1>2. Nested
  BY DEF Init, Nested, Contexts, RouteKeys
<1>3. FlagsAsWritten
  BY DEF Init, FlagsAsWritten
<1>4. QED
  BY <1>1, <1>2, <1>3 DEF IInv

-----------------------------------------------------------------------------
\* What FlagsAsWritten says of one route.
RouteAsWritten(flags, g) == ~g.twice /\ g.autoindex # "off" => flags = Written(g)

\* A server that is replaced by one whose routes are as written.
LEMMA ReplaceOK ==
  ASSUME IInv, NEW i \in 1 .. Len(servers), NEW s \in ServerType, NEW g \in GivenType,
         DOMAIN g = DOMAIN s.routes, Default \in DOMAIN g,
         \A k \in DOMAIN g : RouteAsWritten(s.routes[k], g[k]),
         servers' = [servers EXCEPT ![i] = s],
         given' = [given EXCEPT ![i] = g]
  PROVE  Shapes' /\ FlagsAsWritten'
<1>1. Shapes /\ FlagsAsWritten
  BY DEF IInv
<1>2. /\ servers' \in Seq(ServerType) /\ given' \in Seq(GivenType)
      /\ Len(servers') = Len(servers) /\ Len(given') = Len(servers)
      /\ \A j \in 1 .. Len(servers) :
           /\ servers'[j] = IF j = i THEN s ELSE servers[j]
           /\ given'[j] = IF j = i THEN g ELSE given[j]
  BY <1>1 DEF Shapes
<1>3. Shapes'
  BY <1>1, <1>2 DEF Shapes
<1>4. FlagsAsWritten'
  <2> SUFFICES ASSUME NEW j \in 1 .. Len(servers), NEW k \in DOMAIN servers'[j].routes
               PROVE  RouteAsWritten(servers'[j].routes[k], given'[j][k])
    BY <1>2 DEF FlagsAsWritten, RouteAsWritten
  <2>1. CASE j = i
    BY <1>2, <2>1
  <2>2. CASE j # i
    BY <1>1, <1>2, <2>2 DEF FlagsAsWritten, RouteAsWritten
  <2>3. QED
    BY <2>1, <2>2
<1>5. QED
  BY <1>3, <1>4

\* The server a setter applies to, and its routes.
LEMMA CurrentFacts ==
  ASSUME IInv, Len(stack) > 1
  PROVE  /\ Current \in 1 .. Len(servers)
         /\ servers[Current] \in ServerType /\ given[Current] \in GivenType
         /\ DOMAIN given[Current] = DOMAIN servers[Current].routes
         /\ Default \in DOMAIN given[Current] /\ location \in DOMAIN given[Current]
         /\ \A k \in DOMAIN given[Current] :
              RouteAsWritten(servers[Current].routes[k], given[Current][k])
<1>1. Shapes /\ Nested /\ FlagsAsWritten
  BY DEF IInv
<1>2. Current \in 1 .. Len(servers)
  BY <1>1 DEF Shapes, Nested, Current
<1>3. /\ servers[Current] \in ServerType /\ given[Current] \in GivenType
      /\ DOMAIN given[Current] = DOMAIN servers[Current].routes
      /\ Default \in DOMAIN given[Current]
  BY <1>1, <1>2 DEF Shapes
<1>4. location \in DOMAIN given[Current]
  BY <1>1, <1>3 DEF Nested, Contexts
<1>5. \A k \in DOMAIN given[Current] :
        RouteAsWritten(servers[Current].routes[k], given[Current][k])
  BY <1>1, <1>2, <1>3 DEF FlagsAsWritten, RouteAsWritten
<1>6. QED
  BY <1>2, <1>3, <1>4, <1>5

-----------------------------------------------------------------------------
(* The actions *)

\* Where each directive is allowed.
LEMMA NestFacts ==
  ASSUME NEW c
  PROVE  /\ "server" \in Nest(c) => c = "main"
         /\ "location" \in Nest(c) => c = "server"
         /\ "listen" \in Nest(c) => c = "server"
         /\ "server_name" \in Nest(c) => c = "server"
         /\ "limit_except" \in Nest(c) => c # "main" /\ c # "server"
         /\ "autoindex" \in Nest(c) => c # "main"
<1>1. CASE c = "main"
  BY <1>1 DEF Nest
<1>2. CASE c # "main" /\ c = "server"
  BY <1>2 DEF Nest
<1>3. CASE c # "main" /\ c # "server"
  BY <1>3 DEF Nest
<1>4. QED
  BY <1>1, <1>2, <1>3

\* What a directive that is read says of the braces.
LEMMA ReadsFacts ==
  ASSUME IInv
  PROVE  /\ Reads("server") => stack = <<"main">>
         /\ Reads("location") \/ Reads("listen") \/ Reads("server_name")
              => stack = <<"main", "server">>
         /\ Reads("limit_except") => stack = <<"main", "server", "location">>
         /\ Reads("autoindex") => stack \in {<<"main", "server">>, <<"main", "server", "location">>}
<1>1. stack \in Contexts
  BY DEF IInv, Nested
<1>2. stack # <<>> => stack \in {<<"main">>, <<"main", "server">>, <<"main", "server", "location">>}
  BY <1>1 DEF Contexts
<1>3. Last(<<"main">>) = "main"
  BY DEF Last
<1>4. Last(<<"main", "server">>) = "server"
  BY DEF Last
<1>5. Last(<<"main", "server", "location">>) = "location"
  BY DEF Last
<1>6. QED
  BY <1>2, <1>3, <1>4, <1>5, NestFacts DEF Reads

\* The lengths of the contexts.
LEMMA Lengths ==
  /\ Len(<<"main">>) = 1
  /\ Len(<<"main", "server">>) = 2
  /\ Len(<<"main", "server", "location">>) = 3
  OBVIOUS

\* A new server and a new location have the flags of a file that says nothing.
LEMMA NewFacts ==
  /\ NewServer \in ServerType /\ NewServer.routes = [k \in {Default} |-> NewRoute]
  /\ NotGiven \in Given /\ [k \in {Default} |-> NotGiven] \in GivenType
  /\ RouteAsWritten(NewRoute, NotGiven)
<1>1. NewRoute \subseteq Flags /\ NewRoute = Words \cup {"DELETE"}
  BY FlagFacts
<1>2. [k \in {Default} |-> NewRoute] \in Routes
  <2>1. [k \in {Default} |-> NewRoute] \in [{Default} -> SUBSET Flags]
    BY <1>1
  <2>2. QED
    BY <2>1 DEF Routes, RouteKeys
<1>3. NewServer \in ServerType /\ NewServer.routes = [k \in {Default} |-> NewRoute]
  BY <1>2 DEF NewServer, ServerType
<1>4. NotGiven \in Given
  BY DEF NotGiven, Given
<1>5. [k \in {Default} |-> NotGiven] \in GivenType
  <2>1. [k \in {Default} |-> NotGiven] \in [{Default} -> Given]
    BY <1>4
  <2>2. QED
    BY <2>1 DEF GivenType, RouteKeys
<1>6. RouteAsWritten(NewRoute, NotGiven)
  <2>1. NotGiven.methods = {} /\ NotGiven.autoindex = None
    BY DEF NotGiven
  <2>2. None # "on"
    BY ConfigAssumption
  <2>3. QED
    BY <1>1, <2>1, <2>2 DEF RouteAsWritten, Written
<1>7. QED
  BY <1>3, <1>4, <1>5, <1>6

LEMMA OpenServerOK == ASSUME IInv, OpenServer PROVE IInv'
<1>1. Shapes /\ Nested /\ FlagsAsWritten
  BY DEF IInv
<1>2. stack = <<"main">>
  BY ReadsFacts DEF OpenServer
<1>3. stack' = <<"main", "server">> /\ location' = Default
  <2>1. stack' = <<"main", "server">>
    BY <1>2, Appended DEF OpenServer
  <2>2. location' = Default
    BY <1>1, <1>2, Lengths DEF OpenServer, Nested
  <2>3. QED
    BY <2>1, <2>2
<1>4. /\ servers' \in Seq(ServerType) /\ given' \in Seq(GivenType)
      /\ Len(servers') = Len(servers) + 1 /\ Len(given') = Len(servers) + 1
      /\ \A i \in 1 .. Len(servers) : servers'[i] = servers[i] /\ given'[i] = given[i]
      /\ servers'[Len(servers) + 1] = NewServer
      /\ given'[Len(servers) + 1] = [k \in {Default} |-> NotGiven]
  BY <1>1, NewFacts DEF OpenServer, Shapes
<1>5. Shapes'
  BY <1>1, <1>4, NewFacts DEF Shapes
<1>6. Nested'
  <2>1. servers' # <<>>
    BY <1>1, <1>4 DEF Shapes
  <2>2. QED
    BY <1>3, <2>1, Lengths DEF Nested, Contexts, RouteKeys
<1>7. FlagsAsWritten'
  <2> SUFFICES ASSUME NEW i \in 1 .. Len(servers) + 1, NEW k \in DOMAIN servers'[i].routes
               PROVE  RouteAsWritten(servers'[i].routes[k], given'[i][k])
    BY <1>4 DEF FlagsAsWritten, RouteAsWritten
  <2>1. CASE i = Len(servers) + 1
    BY <1>4, <2>1, NewFacts
  <2>2. CASE i # Len(servers) + 1
    <3>1. i \in 1 .. Len(servers)
      BY <1>1, <2>2 DEF Shapes
    <3>2. QED
      BY <1>1, <1>4, <3>1 DEF FlagsAsWritten, RouteAsWritten
  <2>3. QED
    BY <2>1, <2>2
<1>8. QED
  BY <1>5, <1>6, <1>7 DEF IInv

LEMMA OpenLocationOK == ASSUME IInv, NEW k \in Key, OpenLocation(k) PROVE IInv'
<1>1. Shapes /\ Nested /\ FlagsAsWritten
  BY DEF IInv
<1>2. stack = <<"main", "server">>
  BY ReadsFacts DEF OpenLocation
<1>3. CASE k \in DOMAIN servers[Current].routes
  BY <1>1, <1>3 DEF OpenLocation, IInv, Shapes, Nested, FlagsAsWritten, Current
<1>4. CASE k \notin DOMAIN servers[Current].routes
  <2> DEFINE routes == servers[Current].routes
             r == [x \in DOMAIN routes \cup {k} |-> IF x = k THEN NewRoute ELSE routes[x]]
             s == [servers[Current] EXCEPT !.routes = r]
             g == [x \in DOMAIN routes \cup {k} |-> IF x = k THEN NotGiven ELSE given[Current][x]]
  <2>1. Len(stack) > 1
    BY <1>2, Lengths
  <2>2. s \in ServerType /\ g \in GivenType
    <3>1. servers[Current] \in ServerType /\ given[Current] \in GivenType
          /\ DOMAIN given[Current] = DOMAIN routes
      BY <2>1, CurrentFacts
    <3>2. PICK D \in SUBSET RouteKeys : routes \in [D -> SUBSET Flags]
      BY <3>1 DEF ServerType, Routes
    <3>3. given[Current] \in [D -> Given]
      BY <3>1, <3>2 DEF GivenType
    <3>4. D \cup {k} \in SUBSET RouteKeys
      BY DEF RouteKeys
    <3>5. r \in [D \cup {k} -> SUBSET Flags] /\ g \in [D \cup {k} -> Given]
      BY <3>2, <3>3, NewFacts, FlagFacts
    <3>6. r \in Routes /\ g \in GivenType
      BY <3>4, <3>5 DEF Routes, GivenType
    <3>7. QED
      BY <3>1, <3>6 DEF ServerType
  <2>3. DOMAIN g = DOMAIN s.routes /\ Default \in DOMAIN g
    BY <2>1, CurrentFacts DEF ServerType
  <2>4. \A x \in DOMAIN g : RouteAsWritten(s.routes[x], g[x])
    <3> SUFFICES ASSUME NEW x \in DOMAIN routes \cup {k}
                 PROVE  RouteAsWritten(r[x], g[x])
      BY <2>1, CurrentFacts DEF ServerType
    <3>1. CASE x = k
      BY <3>1, NewFacts
    <3>2. CASE x # k
      BY <2>1, <3>2, CurrentFacts
    <3>3. QED
      BY <3>1, <3>2
  <2>5. servers' = [servers EXCEPT ![Current] = s] /\ given' = [given EXCEPT ![Current] = g]
    BY <1>4 DEF OpenLocation
  <2>6. Shapes' /\ FlagsAsWritten'
    <3> HIDE DEF s, g
    <3>1. QED
      BY <2>1, <2>2, <2>3, <2>4, <2>5, CurrentFacts, ReplaceOK
  <2>7. Nested'
    <3>1. stack' = <<"main", "server", "location">> /\ location' = k
      BY <1>2, <1>4 DEF OpenLocation
    <3>2. Current' = Current /\ servers'[Current] = s /\ servers' # <<>>
      <4> HIDE DEF s
      <4>1. QED
        BY <1>1, <2>1, <2>2, <2>5, CurrentFacts DEF Current, Shapes
    <3>3. k \in DOMAIN servers'[Current'].routes
      BY <2>1, <3>2, CurrentFacts DEF ServerType
    <3>4. QED
      BY <3>1, <3>2, <3>3, Lengths DEF Nested, Contexts, RouteKeys
  <2>8. QED
    BY <2>6, <2>7 DEF IInv
<1>5. QED
  BY <1>3, <1>4

LEMMA CloseBraceOK == ASSUME IInv, CloseBrace PROVE IInv'
<1>1. Shapes /\ Nested /\ FlagsAsWritten
  BY DEF IInv
<1>2. Shapes' /\ FlagsAsWritten'
  BY <1>1 DEF CloseBrace, Shapes, FlagsAsWritten
<1>3. servers' = servers /\ Current' = Current
  BY DEF CloseBrace, Current
<1>4. ASSUME stack' = stack, location' = location PROVE Nested'
  BY <1>1, <1>3, <1>4 DEF Nested
<1>5. ASSUME stack # <<>>, stack' = Front(stack), location' = Default PROVE Nested'
  <2>1. /\ stack' \in Contexts /\ Len(stack') # 3
        /\ Len(stack') > 1 => Len(stack) > 1
    BY <1>1, <1>5, Around, Lengths DEF Nested, Contexts
  <2>2. QED
    BY <1>1, <1>3, <1>5, <2>1 DEF Nested, RouteKeys
<1>6. Nested'
  BY <1>4, <1>5 DEF CloseBrace, AfterBrace
<1>7. QED
  BY <1>2, <1>6 DEF IInv

\* Setters of the server, which leave its routes alone.
LEMMA ServerSetterOK ==
  ASSUME IInv, (\E a \in Addr : Listen(a)) \/ (\E n \in Name : ServerName(n))
  PROVE  IInv'
<1>1. Shapes /\ Nested /\ FlagsAsWritten
  BY DEF IInv
<1>2. stack = <<"main", "server">> /\ Len(stack) > 1
  BY ReadsFacts, Lengths DEF Listen, ServerName
<1>3. PICK s : /\ servers' = [servers EXCEPT ![Current] = s]
               /\ s \in ServerType /\ s.routes = servers[Current].routes
  <2>1. servers[Current] \in ServerType
    BY <1>2, CurrentFacts
  <2>2. ASSUME NEW a \in Addr, Listen(a) PROVE servers' = [servers EXCEPT ![Current] =
                                                    [servers[Current] EXCEPT !.addr = a]]
    BY <2>2 DEF Listen
  <2>3. ASSUME NEW n \in Name, ServerName(n) PROVE servers' = [servers EXCEPT ![Current] =
                    [servers[Current] EXCEPT !.names = servers[Current].names \cup {n}]]
    BY <2>3 DEF ServerName
  <2>4. \A a \in Addr : LET s == [servers[Current] EXCEPT !.addr = a] IN
          s \in ServerType /\ s.routes = servers[Current].routes
    BY <2>1 DEF ServerType
  <2>5. \A n \in Name :
          LET s == [servers[Current] EXCEPT !.names = servers[Current].names \cup {n}] IN
          s \in ServerType /\ s.routes = servers[Current].routes
    BY <2>1 DEF ServerType
  <2>6. QED
    BY <2>2, <2>3, <2>4, <2>5
<1>4. given' = given /\ stack' = stack /\ location' = location
  BY DEF Listen, ServerName
<1>5. given' = [given EXCEPT ![Current] = given[Current]]
  BY <1>1, <1>2, <1>4, CurrentFacts DEF Shapes
<1>6. Shapes' /\ FlagsAsWritten'
  BY <1>2, <1>3, <1>5, CurrentFacts, ReplaceOK
<1>7. Nested'
  <2>1. Current' = Current /\ servers'[Current] = s /\ servers' # <<>>
    BY <1>1, <1>2, <1>3, CurrentFacts DEF Current, Shapes
  <2>2. QED
    BY <1>1, <1>3, <1>4, <2>1 DEF Nested
<1>8. QED
  BY <1>6, <1>7 DEF IInv

\* What a setter of a route must leave: the route of the open location, and
\* what was given for it.
LEMMA RouteSetterOK ==
  ASSUME IInv, Len(stack) > 1, NEW flags \in SUBSET Flags, NEW gives \in Given,
         RouteAsWritten(flags, gives),
         servers' = [servers EXCEPT ![Current].routes[location] = flags],
         given' = [given EXCEPT ![Current][location] = gives],
         stack' = stack, location' = location
  PROVE  IInv'
<1>1. Shapes /\ Nested /\ FlagsAsWritten
  BY DEF IInv
<1> DEFINE r == [servers[Current].routes EXCEPT ![location] = flags]
           s == [servers[Current] EXCEPT !.routes = r]
           g == [given[Current] EXCEPT ![location] = gives]
<1>2. s \in ServerType /\ g \in GivenType /\ s.routes = r
  <2>1. servers[Current] \in ServerType /\ given[Current] \in GivenType
        /\ DOMAIN given[Current] = DOMAIN servers[Current].routes
    BY CurrentFacts
  <2>2. PICK D \in SUBSET RouteKeys : servers[Current].routes \in [D -> SUBSET Flags]
    BY <2>1 DEF ServerType, Routes
  <2>3. given[Current] \in [D -> Given]
    BY <2>1, <2>2 DEF GivenType
  <2>4. r \in [D -> SUBSET Flags] /\ g \in [D -> Given]
    BY <2>2, <2>3
  <2>5. r \in Routes /\ g \in GivenType
    BY <2>4 DEF Routes, GivenType
  <2>6. QED
    BY <2>1, <2>5 DEF ServerType
<1>3. DOMAIN g = DOMAIN s.routes /\ Default \in DOMAIN g /\ location \in DOMAIN g
  BY <1>2, CurrentFacts
<1>4. \A k \in DOMAIN g : RouteAsWritten(s.routes[k], g[k])
  BY <1>2, CurrentFacts
<1>5. servers' = [servers EXCEPT ![Current] = s] /\ given' = [given EXCEPT ![Current] = g]
  OBVIOUS
<1> HIDE DEF s, g, r
<1>6. Shapes' /\ FlagsAsWritten'
  BY <1>2, <1>3, <1>4, <1>5, CurrentFacts, ReplaceOK
<1>7. Nested'
  <2>1. Current' = Current /\ servers'[Current] = s /\ servers' # <<>>
    BY <1>1, <1>2, <1>5, CurrentFacts DEF Current, Shapes
  <2>2. QED
    BY <1>1, <1>3, <2>1 DEF Nested
<1>8. QED
  BY <1>6, <1>7 DEF IInv

\* limit_except and autoindex: a flag is what was written, if each is given
\* once and autoindex is not off.
LEMMA LimitExceptOK ==
  ASSUME IInv, NEW words \in Limits, LimitExcept(words)
  PROVE  IInv'
<1> DEFINE old == servers[Current].routes[location]
           was == given[Current][location]
           flags == SetFlag(old, LimitMask(words), FALSE)
           gives == [was EXCEPT !.methods = words, !.twice = was.twice \/ was.methods # {}]
<1>1. Len(stack) > 1
  <2>1. Reads("limit_except")
    BY Zenon DEF LimitExcept
  <2>2. QED
    BY <2>1, ReadsFacts, Lengths
<1>2. old \in SUBSET Flags /\ was \in Given /\ RouteAsWritten(old, was)
  BY <1>1, CurrentFacts DEF ServerType, Routes, GivenType
<1>3. flags \in SUBSET Flags
  BY <1>2 DEF SetFlag, SymDiff, LimitMask
<1>4. gives \in Given /\ gives.methods = words /\ gives.autoindex = was.autoindex
      /\ gives.twice = (was.twice \/ was.methods # {})
  BY <1>2 DEF Given
<1>5. RouteAsWritten(flags, gives)
  <2> SUFFICES ASSUME ~gives.twice, gives.autoindex # "off" PROVE flags = Written(gives)
    BY DEF RouteAsWritten
  <2>1. ~was.twice /\ was.methods = {} /\ was.autoindex # "off"
    BY <1>2, <1>4 DEF Given
  <2> DEFINE ai == IF was.autoindex = "on" THEN {"AUTOINDEX"} ELSE {}
  <2>2. old = NewRoute \cup ai
    BY <1>2, <2>1, FlagFacts DEF RouteAsWritten, Written
  <2>3. flags = words \cup ai /\ words # {}
    BY <2>2, FlagArithmetic
  <2>4. QED
    BY <1>4, <2>3 DEF Written
<1>6. /\ servers' = [servers EXCEPT ![Current].routes[location] = flags]
      /\ given' = [given EXCEPT ![Current][location] = gives]
      /\ stack' = stack /\ location' = location
  <2>1. servers' = [servers EXCEPT ![Current].routes[location] = flags]
    BY Zenon DEF LimitExcept, SetRouteFlag
  <2>2. stack' = stack /\ location' = location
    BY Zenon DEF LimitExcept, SetRouteFlag
  <2>3. given' = [given EXCEPT ![Current][location] = gives]
    BY Zenon DEF LimitExcept
  <2>4. QED
    BY <2>1, <2>2, <2>3
<1> HIDE DEF flags, gives
<1>7. QED
  BY <1>1, <1>3, <1>4, <1>5, <1>6, RouteSetterOK

LEMMA AutoindexOK ==
  ASSUME IInv, NEW word \in {"on", "off"}, Autoindex(word)
  PROVE  IInv'
<1> DEFINE old == servers[Current].routes[location]
           was == given[Current][location]
           flags == SetFlag(old, {"AUTOINDEX"}, word = "on")
           gives == [was EXCEPT !.autoindex = word, !.twice = was.twice \/ was.autoindex # None]
<1>1. Len(stack) > 1
  <2>1. Reads("autoindex")
    BY Zenon DEF Autoindex
  <2>2. QED
    BY <2>1, ReadsFacts, Lengths
<1>2. old \in SUBSET Flags /\ was \in Given /\ RouteAsWritten(old, was)
  BY <1>1, CurrentFacts DEF ServerType, Routes, GivenType
<1>3. flags \in SUBSET Flags
  BY <1>2 DEF SetFlag, SymDiff, Flags
<1>4. gives \in Given /\ gives.methods = was.methods /\ gives.autoindex = word
      /\ gives.twice = (was.twice \/ was.autoindex # None)
  BY <1>2 DEF Given
<1>5. RouteAsWritten(flags, gives)
  <2> SUFFICES ASSUME ~gives.twice, gives.autoindex # "off" PROVE flags = Written(gives)
    BY DEF RouteAsWritten
  <2>1. ~was.twice /\ was.autoindex = None /\ word = "on"
    BY <1>2, <1>4 DEF Given
  <2>2. None # "off" /\ None # "on"
    BY ConfigAssumption
  <2>3. old = IF was.methods = {} THEN Words \cup {"DELETE"} ELSE was.methods
    BY <1>2, <2>1, <2>2 DEF RouteAsWritten, Written
  <2>4. flags = old \cup {"AUTOINDEX"}
    BY <2>1 DEF SetFlag
  <2>5. QED
    BY <1>4, <2>1, <2>3, <2>4 DEF Written
<1>6. /\ servers' = [servers EXCEPT ![Current].routes[location] = flags]
      /\ given' = [given EXCEPT ![Current][location] = gives]
      /\ stack' = stack /\ location' = location
  <2>1. servers' = [servers EXCEPT ![Current].routes[location] = flags]
    BY Zenon DEF Autoindex, SetRouteFlag
  <2>2. stack' = stack /\ location' = location
    BY Zenon DEF Autoindex, SetRouteFlag
  <2>3. given' = [given EXCEPT ![Current][location] = gives]
    BY Zenon DEF Autoindex
  <2>4. QED
    BY <2>1, <2>2, <2>3
<1> HIDE DEF flags, gives
<1>7. QED
  BY <1>1, <1>3, <1>4, <1>5, <1>6, RouteSetterOK

\* Every step keeps the invariant.
LEMMA NextInv == IInv /\ [Next]_vars => IInv'
<1> SUFFICES ASSUME IInv, [Next]_vars PROVE IInv'
  OBVIOUS
<1>1. ASSUME UNCHANGED <<stack, location, servers, given>> PROVE IInv'
  BY <1>1 DEF IInv, Shapes, Nested, FlagsAsWritten, Current
<1>2. CASE Other \/ Reject \/ Undefined \/ EndOfFile \/ OpenSockets \/ UNCHANGED vars
  BY <1>1, <1>2 DEF Other, Reject, Undefined, EndOfFile, OpenSockets, vars
<1>3. CASE OpenServer \/ CloseBrace \/ \E k \in Key : OpenLocation(k)
  BY <1>3, OpenServerOK, CloseBraceOK, OpenLocationOK
<1>4. CASE (\E a \in Addr : Listen(a)) \/ (\E n \in Name : ServerName(n))
  BY <1>4, ServerSetterOK
<1>5. CASE (\E words \in Limits : LimitExcept(words)) \/ (\E word \in {"on", "off"} : Autoindex(word))
  BY <1>5, LimitExceptOK, AutoindexOK
<1>6. QED
  BY <1>2, <1>3, <1>4, <1>5 DEF Next, Directive

LEMMA InvAlways == Spec => []IInv
  BY InitInv, NextInv, PTL DEF Spec

-----------------------------------------------------------------------------
\* Whatever the braces do, a setter applies to a server that exists and to the
\* location whose braces are open, or else to the default route
\* (Router.cpp:257-276).
THEOREM SettersAlwaysHaveTarget == Spec => []SettersHaveTarget
<1>1. IInv => SettersHaveTarget
  <2> SUFFICES ASSUME IInv PROVE SettersHaveTarget
    OBVIOUS
  <2>1. Len(stack) > 1 => servers # <<>> /\ location \in DOMAIN servers[Current].routes
    BY CurrentFacts DEF IInv, Nested
  <2>2. location # Default <=> Len(stack) = 3
    BY ConfigAssumption DEF IInv, Nested
  <2>3. QED
    BY <2>1, <2>2 DEF SettersHaveTarget
<1>2. QED
  BY InvAlways, <1>1, PTL

\* The flags of a location are what the file says, in whatever order, unless it
\* says a thing twice or "autoindex off" (Location.cpp:91-99).
THEOREM FlagsAlwaysAsWritten == Spec => []FlagsAsWritten
<1>1. IInv => FlagsAsWritten
  BY DEF IInv
<1>2. QED
  BY InvAlways, <1>1, PTL

\* No server repeats a name of the one before it.
NoneRepeats == \A i \in 2 .. Len(servers) : ~Repeats(servers[i - 1], servers[i])

\* The file has been read to its end outside of every block, its servers were
\* compared, and every one's address is among those that were opened.
Reached ==
  /\ status \in {"loaded", "listening"} => stack = <<"main">> /\ NoneRepeats
  /\ status = "listening" => \A i \in 1 .. Len(servers) : servers[i].addr \in conns

\* Only the end of the file and listen() come after the last directive.
LEMMA ReachedKept == IInv /\ Reached /\ [Next]_vars => Reached'
<1> SUFFICES ASSUME IInv, Reached, [Next]_vars PROVE Reached'
  OBVIOUS
<1>1. CASE UNCHANGED vars
  BY <1>1 DEF vars, Reached, NoneRepeats
<1>2. CASE Directive
  <2>1. status = "reading"
    BY <1>2 DEF Directive, OpenServer, OpenLocation, CloseBrace, Listen, ServerName,
                LimitExcept, Autoindex, Other, Reads
  <2>2. status' \in {status, "rejected"}
    BY <1>2 DEF Directive, OpenServer, OpenLocation, CloseBrace, Listen, ServerName,
                LimitExcept, Autoindex, Other, SetRouteFlag
  <2>3. QED
    BY <2>1, <2>2 DEF Reached
<1>3. CASE Reject \/ Undefined
  BY <1>3 DEF Reject, Undefined, Reached
<1>4. CASE EndOfFile
  <2>1. stack \in Contexts /\ stack # <<>> /\ status' \in {"rejected", "loaded"}
        /\ (Len(stack) # 1 => status' = "rejected") /\ stack' = stack /\ servers' = servers
        /\ (status' = "loaded" => NoneRepeats)
    BY <1>4 DEF EndOfFile, IInv, Nested, NoneRepeats
  <2>2. Len(stack) = 1 => stack = <<"main">>
    BY <2>1 DEF Contexts
  <2>3. QED
    BY <2>1, <2>2 DEF Reached, NoneRepeats
<1>5. CASE OpenSockets
  <2>1. stack = <<"main">> /\ NoneRepeats /\ stack' = stack /\ servers' = servers
    BY <1>5 DEF OpenSockets, Reached
  <2>2. status' = "rejected" \/ (status' = "listening" /\ conns' = Addresses)
    BY <1>5 DEF OpenSockets
  <2>3. \A i \in 1 .. Len(servers) : servers[i].addr \in Addresses
    BY DEF Addresses
  <2>4. QED
    BY <2>1, <2>2, <2>3 DEF Reached, NoneRepeats
<1>6. QED
  BY <1>1, <1>2, <1>3, <1>4, <1>5 DEF Next

\* A program that listens has read all of its file, and listens at the address
\* of every server the file has, the last one's, too; no server repeats a name of
\* the one before it (Router.cpp:297-315).
THEOREM ListeningAlwaysReachesAll == Spec => []ListeningReachesAll
<1>1. Init => Reached
  BY DEF Init, Reached
<1>2. Reached => ListeningReachesAll
  BY DEF Reached, NoneRepeats, ListeningReachesAll
<1>3. QED
  BY InvAlways, ReachedKept, <1>1, <1>2, PTL DEF Spec

-----------------------------------------------------------------------------
(* The arguments: numbers                                                    *)

LEMMA PrefixIs ==
  ASSUME NEW s \in Seq(STRING)
  PROVE  PrefixLength(s) \in 0 .. Len(s) /\ \A i \in 1 .. PrefixLength(s) : IsDigit(s[i])
<1> DEFINE at == {i \in 1 .. Len(s) : ~IsDigit(s[i])}
           p == SelectInSeq(s, LAMBDA c : ~IsDigit(c))
<1>1. p = IF at # {} THEN Min(at) ELSE 0
  BY DEF SelectInSeq
<1>2. PICK l \in Nat : l = Len(s)
  BY LenIsNat
<1>3. PrefixLength(s) = IF p = 0 THEN l ELSE p - 1
  BY <1>2 DEF PrefixLength
<1> HIDE DEF p
<1>4. CASE at = {}
  <2>1. p = 0
    BY <1>1, <1>4
  <2>2. PrefixLength(s) = l /\ \A i \in 1 .. l : IsDigit(s[i])
    BY <1>2, <1>3, <1>4, <2>1
  <2>3. QED
    BY <1>2, <2>2
<1>5. CASE at # {}
  <2>1. at \in SUBSET Nat
    OBVIOUS
  <2>2. p \in at /\ \A y \in at : p <= y
    <3> HIDE DEF at
    <3>1. QED
      BY <1>1, <1>5, <2>1, MinIs
  <2>3. p \in 1 .. l /\ PrefixLength(s) = p - 1
    BY <1>2, <1>3, <2>2
  <2>4. \A i \in 1 .. p - 1 : IsDigit(s[i])
    <3> SUFFICES ASSUME NEW i \in 1 .. p - 1 PROVE IsDigit(s[i])
      OBVIOUS
    <3>1. i \in 1 .. Len(s) /\ ~(p <= i)
      BY <1>2, <2>3
    <3>2. QED
      BY <2>2, <3>1
  <2>5. p - 1 \in 0 .. l
    BY <2>3
  <2>6. QED
    BY <1>2, <2>3, <2>4, <2>5
<1>6. QED
  BY <1>4, <1>5

LEMMA DigitIs ==
  ASSUME NEW c, IsDigit(c)
  PROVE  Find(Digits, c) - 1 \in Nat
<1> DEFINE at == {i \in 1 .. Len(Digits) : Digits[i] = c}
<1>1. Find(Digits, c) = IF at # {} THEN Min(at) ELSE 0
  BY DEF Find, SelectInSeq
<1>2. Find(Digits, c) # 0
  BY DEF IsDigit, Holds
<1>3. at \in SUBSET Nat /\ at # {}
  BY <1>1, <1>2
<1>4. \A i \in at : i - 1 \in Nat
  OBVIOUS
<1>5. Min(at) \in at
  <2> HIDE DEF at
  <2>1. QED
    BY <1>3, MinIs
<1>6. QED
  BY <1>1, <1>3, <1>4, <1>5

LEMMA NumberIs ==
  ASSUME NEW s \in Seq(STRING)
  PROVE  Number(s) \in Nat
<1>1. PICK n \in Nat : n = PrefixLength(s)
  BY PrefixIs
<1>2. \A i \in 1 .. n : Find(Digits, s[i]) - 1 \in Nat
  BY <1>1, PrefixIs, DigitIs
<1> DEFINE step == [i \in 1 .. n |-> [x \in Nat |-> 10 * x + (Find(Digits, s[i]) - 1)]]
           F(h) == [i \in 0 .. n |-> IF i = 0 THEN 0 ELSE 10 * h[i - 1] + (Find(Digits, s[i]) - 1)]
           g == CHOOSE h : h = F(h)
<1>3. step \in [1 .. n -> [Nat -> Nat]]
  <2>1. \A i \in 1 .. n, x \in Nat : 10 * x + (Find(Digits, s[i]) - 1) \in Nat
    BY <1>2
  <2>2. QED
    BY <2>1
<1>4. PICK f \in [0 .. n -> Nat] : Steps(f, n, 0, step)
  <2> HIDE DEF step
  <2>1. QED
    BY <1>3, RecursionExists
<1>5. f[0] = 0 /\ \A i \in 1 .. n : f[i] = 10 * f[i - 1] + (Find(Digits, s[i]) - 1)
  <2>1. \A i \in 1 .. n : f[i - 1] \in Nat
    OBVIOUS
  <2>2. QED
    BY <1>4, <2>1 DEF Steps
<1>6. f = F(f)
  BY <1>5
<1>7. g = F(g)
  <2> HIDE DEF F
  <2>1. QED
    BY <1>6
<1>8. Number(s) = g[n]
  BY <1>1 DEF Number
<1> HIDE DEF g
<1>9. g[0] = 0 /\ \A i \in 1 .. n : g[i] = 10 * g[i - 1] + (Find(Digits, s[i]) - 1)
  BY <1>7
<1>10. \A i \in 0 .. n : g[i] \in Nat
  <2> DEFINE P == {i \in 0 .. n : g[i] \in Nat}
  <2>1. 0 \in P
    BY <1>9
  <2>2. ASSUME NEW i \in 1 .. n, i - 1 \in P PROVE i \in P
    <3>1. PICK d \in Nat, x \in Nat : g[i] = 10 * x + d
      BY <1>2, <1>9, <2>2
    <3>2. 10 * x + d \in Nat
      OBVIOUS
    <3>3. QED
      BY <3>1, <3>2
  <2>3. \A i \in 0 .. n : i \in P
    <3> HIDE DEF P
    <3>1. QED
      BY <2>1, <2>2, Along
  <2>4. QED
    BY <2>3
<1>11. QED
  BY <1>8, <1>10

LEMMA ProductGrows ==
  ASSUME NEW a \in Nat, NEW b \in Nat, NEW u \in Nat, NEW v \in Nat, a <= b, u <= v
  PROVE  a * u \in Nat /\ a * u <= b * v
<1>1. a * u <= b * u
  BY SMTT(30)
<1>2. b * u <= b * v
  BY SMTT(30)
<1>3. QED
  BY <1>1, <1>2, SMTT(30)

\* What is left of a number by a division.
LEMMA RestOf ==
  ASSUME NEW x \in Int, NEW M \in Nat, -M <= x, x < M
  PROVE  x % M = IF x < 0 THEN x + M ELSE x
<1>1. M > 0
  OBVIOUS
<1>2. QED
  BY <1>1, SMTT(30)

LEMMA SmallRest ==
  ASSUME NEW x \in Nat, NEW M \in Nat, M > 0
  PROVE  x % M \in 0 .. M - 1 /\ x % M <= x
BY SMTT(30)

\* The number of a text as an int, and what the text tells apart.
LEMMA AtoiIs ==
  ASSUME NEW s \in Seq(STRING)
  PROVE  /\ Atoi(s) \in -(IntMax + 1) .. IntMax
         /\ Number(s) <= IntMax => Atoi(s) = Number(s)
         /\ Atoi(s) >= 0 => Atoi(s) = Number(s) % Ints
<1>1. PICK N \in Nat : N = Number(s)
  BY NumberIs
<1>2. PICK I \in Nat, L \in Nat, M \in Nat :
        I = IntMax /\ L = LongMax /\ M = Ints /\ M = 2 * (I + 1) /\ L % M = 2 * I + 1
  <2>1. IntMax \in Nat /\ LongMax \in Nat /\ LongMax % (2 * (IntMax + 1)) = 2 * IntMax + 1
    BY WidthAssumption
  <2>2. 2 * (IntMax + 1) \in Nat
    BY <2>1
  <2>3. QED
    BY <2>1, <2>2 DEF Ints
<1>3. M > 0
  BY <1>2
<1>4. L % M <= L /\ N % M \in 0 .. M - 1
  BY <1>3, SmallRest
<1>5. I <= L
  BY <1>2, <1>4
<1>6. N <= I => N % M = N
  <2>1. ASSUME N <= I PROVE -M <= N /\ N < M
    BY <1>2, <2>1
  <2>2. QED
    BY <2>1, RestOf
<1> DEFINE n == (IF N <= L THEN N ELSE L) % M
<1>7. Atoi(s) = IF n <= I THEN n ELSE n - M
  BY <1>1, <1>2 DEF Atoi
<1>8. n \in 0 .. M - 1
  BY <1>2, <1>4
<1>9. N <= L => n = N % M
  OBVIOUS
<1>10. ~(N <= L) => n = 2 * I + 1
  BY <1>2
<1> HIDE DEF n
<1>11. n - M \in Int /\ (n - M < 0)
  BY <1>8
<1>12. ~(N <= L) => ~(n <= I)
  BY <1>2, <1>10
<1>13. Atoi(s) \in -(I + 1) .. I
  BY <1>2, <1>7, <1>8
<1>14. N <= I => Atoi(s) = N
  BY <1>2, <1>5, <1>6, <1>7, <1>9
<1>15. Atoi(s) >= 0 => Atoi(s) = N % M
  BY <1>7, <1>9, <1>11, <1>12
<1>16. QED
  BY <1>1, <1>2, <1>13, <1>14, <1>15

\* A limit is the number in its unit; it is none only if the int is 0.
LEMMA LimitIs ==
  ASSUME NEW a \in -(IntMax + 1) .. IntMax, NEW u \in {1, Kilo, Kilo * Kilo}
  PROVE  LET x == (a * u) % (SizeMax + 1)
         IN /\ x \in 0 .. SizeMax
            /\ a >= 0 => x = a * u
            /\ x = 0 => a = 0
<1>1. PICK I \in Nat, S \in Nat, K \in Nat \ {0}, Q \in Nat :
        /\ I = IntMax /\ S = SizeMax /\ K = Kilo /\ Q = Kilo * Kilo /\ Q = K * K
        /\ (I + 1) * Q <= S
  <2>1. Kilo * Kilo \in Nat
    BY WidthAssumption
  <2>2. QED
    BY <2>1, WidthAssumption
<1>2. K <= Q /\ 1 <= Q
  BY <1>1, SMTT(30)
<1>3. u \in Nat /\ 1 <= u /\ u <= Q
  BY <1>1, <1>2
<1>4. \A b \in Nat : b <= I + 1 => b * u \in Nat /\ b * u <= S
  <2> SUFFICES ASSUME NEW b \in Nat, b <= I + 1 PROVE b * u \in Nat /\ b * u <= S
    OBVIOUS
  <2>1. b * u \in Nat /\ b * u <= (I + 1) * Q
    BY <1>3, ProductGrows
  <2>2. (I + 1) * Q \in Nat
    BY <1>1
  <2>3. QED
    BY <1>1, <2>1, <2>2
<1>5. PICK M \in Nat : M = S + 1
  OBVIOUS
<1>6. CASE a >= 0
  <2>1. a \in Nat /\ a <= I + 1
    BY <1>1, <1>6
  <2>2. PICK y \in Nat : y = a * u /\ y <= S
    BY <1>4, <2>1
  <2>3. y % M = y
    <3>1. y \in Int /\ -M <= y /\ y < M /\ ~(y < 0)
      BY <1>5, <2>2
    <3>2. QED
      BY <3>1, RestOf
  <2>4. y = 0 => a = 0
    <3>1. a * 1 <= a * u
      BY <1>3, <2>1, ProductGrows
    <3>2. QED
      BY <2>1, <2>2, <3>1
  <2>5. y \in 0 .. S
    BY <2>2
  <2>6. QED
    BY <1>1, <1>5, <2>2, <2>3, <2>4, <2>5
<1>7. CASE ~(a >= 0)
  <2>1. PICK b \in Nat : a = -b /\ 1 <= b /\ b <= I + 1
    <3>1. -a \in Nat /\ a = -(-a) /\ 1 <= -a /\ -a <= I + 1
      BY <1>1, <1>7
    <3>2. QED
      BY <3>1
  <2>2. PICK y \in Nat : y = b * u /\ y <= S
    BY <1>4, <2>1
  <2>3. 1 <= y
    <3>1. 1 * 1 <= b * u
      BY <1>3, <2>1, ProductGrows
    <3>2. QED
      BY <2>2, <3>1
  <2>4. a * u = -y
    BY <1>3, <2>1, <2>2, SMTT(30)
  <2>5. (-y) % M = M - y
    <3>1. -y \in Int /\ -M <= -y /\ -y < M /\ -y < 0
      BY <1>5, <2>2, <2>3
    <3>2. (-y) % M = -y + M
      BY <3>1, RestOf
    <3>3. QED
      BY <3>2
  <2>6. M - y \in 0 .. S /\ M - y # 0
    BY <1>5, <2>2, <2>3
  <2>7. QED
    BY <1>1, <1>5, <1>7, <2>4, <2>5, <2>6
<1>8. QED
  BY <1>6, <1>7

-----------------------------------------------------------------------------
(* Words                                                                     *)

WordLists == Seq(Seq(STRING)) \ {<<>>}

\* g is what WordsOf() has of s after each character.
WordsUpto(g, s, n) ==
  /\ n \in Nat /\ n = Len(s) /\ s \in Seq(STRING)
  /\ g \in [0 .. n -> WordLists]
  /\ g[0] = <<<<>>>>
  /\ \A i \in 1 .. n : g[i] = NextWord(g[i - 1], s[i])

LEMMA NextWordIs ==
  ASSUME NEW w \in WordLists, NEW c \in STRING
  PROVE  /\ NextWord(w, c) \in WordLists
         /\ Len(w) \in Nat \ {0}
         /\ c = SP => Len(NextWord(w, c)) = Len(w) + 1 /\ NextWord(w, c)[1] = w[1]
         /\ c # SP => /\ Len(NextWord(w, c)) = Len(w)
                      /\ Len(w) # 1 => NextWord(w, c)[1] = w[1]
                      /\ Len(w) = 1 => NextWord(w, c)[1] = Append(w[1], c)
<1>1. w \in Seq(Seq(STRING)) /\ w # <<>>
  BY DEF WordLists
<1>2. PICK n \in Nat : n = Len(w)
  BY <1>1, LenIsNat
<1>3. n # 0
  BY <1>1, <1>2, EmptySeq
<1>4. CASE c = SP
  <2>1. NextWord(w, c) = Append(w, <<>>)
    BY <1>4 DEF NextWord
  <2>2. <<>> \in Seq(STRING)
    OBVIOUS
  <2>3. PICK a \in Seq(Seq(STRING)) : a = Append(w, <<>>) /\ Len(a) = n + 1 /\ a[1] = w[1]
    <3>1. PICK e \in Seq(STRING) : e = <<>>
      BY <2>2
    <3>2. 1 \in 1 .. Len(w)
      BY <1>2, <1>3
    <3>3. /\ Append(w, e) \in Seq(Seq(STRING)) /\ Len(Append(w, e)) = Len(w) + 1
          /\ Append(w, e)[1] = w[1]
      BY <1>1, <3>2, AppendProperties
    <3>4. QED
      BY <1>2, <3>1, <3>3
  <2>4. a # <<>>
    BY <1>2, <2>3, EmptySeq
  <2>5. QED
    BY <1>2, <1>3, <1>4, <2>1, <2>3, <2>4 DEF WordLists
<1>5. CASE c # SP
  <2> DEFINE v == [w EXCEPT ![n] = Append(w[n], c)]
  <2>1. NextWord(w, c) = v
    BY <1>2, <1>5 DEF NextWord
  <2>2. w[n] \in Seq(STRING)
    BY <1>1, <1>2, <1>3, ElementOfSeq
  <2>3. Append(w[n], c) \in Seq(STRING)
    BY <2>2, AppendProperties
  <2>4. v \in Seq(Seq(STRING)) /\ Len(v) = n
    <3> HIDE DEF v
    <3>1. DOMAIN w = 1 .. n
      BY <1>1, <1>2, LenProperties
    <3>2. v = [i \in 1 .. n |-> IF i = n THEN Append(w[n], c) ELSE w[i]]
      BY <1>3, <3>1 DEF v
    <3>3. \A i \in 1 .. n : w[i] \in Seq(STRING)
      BY <1>1, <1>2, ElementOfSeq
    <3>4. v \in [1 .. n -> Seq(STRING)]
      BY <2>3, <3>2, <3>3
    <3>5. QED
      BY <1>2, <3>4, FunctionIsSeq
  <2>5. v[1] = IF n = 1 THEN Append(w[n], c) ELSE w[1]
    <3>1. 1 \in DOMAIN w
      BY <1>1, <1>2, <1>3, LenProperties
    <3>2. QED
      BY <3>1
  <2>6. v # <<>>
    <3> HIDE DEF v
    <3>1. QED
      BY <1>3, <2>4, EmptySeq
  <2> HIDE DEF v
  <2>7. QED
    BY <1>2, <1>3, <1>5, <2>1, <2>4, <2>5, <2>6 DEF WordLists
<1>6. QED
  BY <1>4, <1>5

LEMMA WordsAre ==
  ASSUME NEW s \in Seq(STRING)
  PROVE  \E g : WordsUpto(g, s, Len(s)) /\ WordsOf(s) = IF s = <<>> THEN <<>> ELSE g[Len(s)]
<1>1. PICK n \in Nat : n = Len(s)
  BY LenIsNat
<1> DEFINE v == <<<<>>>>
           step == [i \in 1 .. n |-> [x \in WordLists |-> NextWord(x, s[i])]]
           F(h) == [i \in 0 .. n |-> IF i = 0 THEN v ELSE NextWord(h[i - 1], s[i])]
           g == CHOOSE h : h = F(h)
<1>2. step \in [1 .. n -> [WordLists -> WordLists]]
  <2>1. \A i \in 1 .. n, x \in WordLists : NextWord(x, s[i]) \in WordLists
    <3> SUFFICES ASSUME NEW i \in 1 .. n, NEW x \in WordLists PROVE NextWord(x, s[i]) \in WordLists
      OBVIOUS
    <3>1. s[i] \in STRING
      BY <1>1, ElementOfSeq
    <3>2. QED
      BY <3>1, NextWordIs
  <2>2. QED
    BY <2>1
<1>3. v \in WordLists
  <2>1. <<>> \in Seq(STRING)
    OBVIOUS
  <2>2. v \in Seq(Seq(STRING)) /\ v # <<>>
    BY <2>1
  <2>3. QED
    BY <2>2 DEF WordLists
<1>4. PICK f \in [0 .. n -> WordLists] : Steps(f, n, v, step)
  <2> HIDE DEF step, v
  <2>1. QED
    BY <1>2, <1>3, RecursionExists
<1>5. \A i \in 1 .. n : f[i] = NextWord(f[i - 1], s[i])
  <2>1. \A i \in 1 .. n : f[i - 1] \in WordLists
    OBVIOUS
  <2>2. \A i \in 1 .. n : f[i] = step[i][f[i - 1]]
    BY <1>4 DEF Steps
  <2>3. QED
    BY <2>1, <2>2
<1>6. f[0] = v
  BY <1>4 DEF Steps
<1>7. f = F(f)
  <2> HIDE DEF v
  <2>1. QED
    BY <1>5, <1>6
<1>8. g = F(g)
  <2> HIDE DEF F
  <2>1. QED
    BY <1>7
<1>9. WordsOf(s) = IF s = <<>> THEN <<>> ELSE g[n]
  BY <1>1 DEF WordsOf
<1> HIDE DEF g
<1>10. g \in [0 .. n -> WordLists] /\ g[0] = v /\ \A i \in 1 .. n : g[i] = NextWord(g[i - 1], s[i])
  <2>1. g[0] = v /\ \A i \in 1 .. n : g[i] = NextWord(g[i - 1], s[i])
    <3> HIDE DEF v
    <3>1. QED
      BY <1>8
  <2>2. \A i \in 0 .. n : g[i] \in WordLists
    <3> DEFINE P == {i \in 0 .. n : g[i] \in WordLists}
    <3>1. 0 \in P
      <4> HIDE DEF v
      <4>1. QED
        BY <1>3, <2>1
    <3>2. ASSUME NEW i \in 1 .. n, i - 1 \in P PROVE i \in P
      <4>1. g[i] = step[i][g[i - 1]]
        BY <2>1, <3>2
      <4>2. g[i - 1] \in WordLists /\ step[i] \in [WordLists -> WordLists]
        <5> HIDE DEF step
        <5>1. QED
          BY <1>2, <3>2
      <4> HIDE DEF step
      <4>3. QED
        BY <4>1, <4>2
    <3>3. \A i \in 0 .. n : i \in P
      <4> HIDE DEF P
      <4>1. QED
        BY <3>1, <3>2, Along
    <3>4. QED
      BY <3>3
  <2>3. g = [i \in 0 .. n |-> g[i]]
    <3> HIDE DEF v
    <3>1. QED
      BY <1>8
  <2> HIDE DEF v
  <2>4. QED
    BY <2>1, <2>2, <2>3
<1>11. WordsUpto(g, s, n)
  BY <1>1, <1>10 DEF WordsUpto
<1>12. QED
  BY <1>1, <1>9, <1>11

\* There is a word more for each blank.
BlanksUpto(s, k) == {j \in 1 .. k : s[j] = SP}

LEMMA BlankCount ==
  ASSUME NEW s, NEW k \in Nat
  PROVE  /\ IsFiniteSet(BlanksUpto(s, k)) /\ Cardinality(BlanksUpto(s, k)) \in Nat
         /\ k > 0 => Cardinality(BlanksUpto(s, k)) =
                       Cardinality(BlanksUpto(s, k - 1)) + (IF s[k] = SP THEN 1 ELSE 0)
<1>1. \A m \in Nat : IsFiniteSet(BlanksUpto(s, m)) /\ Cardinality(BlanksUpto(s, m)) \in Nat
  <2> SUFFICES ASSUME NEW m \in Nat
               PROVE IsFiniteSet(BlanksUpto(s, m)) /\ Cardinality(BlanksUpto(s, m)) \in Nat
    OBVIOUS
  <2>1. IsFiniteSet(1 .. m)
    BY FS_Interval
  <2>2. BlanksUpto(s, m) \in SUBSET (1 .. m)
    BY DEF BlanksUpto
  <2>3. IsFiniteSet(BlanksUpto(s, m))
    BY <2>1, <2>2, FS_Subset
  <2>4. QED
    BY <2>3, FS_CardinalityType
<1>2. ASSUME k > 0
      PROVE  Cardinality(BlanksUpto(s, k)) =
               Cardinality(BlanksUpto(s, k - 1)) + (IF s[k] = SP THEN 1 ELSE 0)
  <2>1. k - 1 \in Nat
    BY <1>2
  <2>2. CASE s[k] = SP
    <3>1. BlanksUpto(s, k) = BlanksUpto(s, k - 1) \cup {k} /\ k \notin BlanksUpto(s, k - 1)
      BY <1>2, <2>2 DEF BlanksUpto
    <3>2. Cardinality(BlanksUpto(s, k - 1) \cup {k}) = Cardinality(BlanksUpto(s, k - 1)) + 1
      BY <1>1, <2>1, <3>1, FS_AddElement
    <3>3. QED
      BY <2>2, <3>1, <3>2
  <2>3. CASE s[k] # SP
    <3>1. BlanksUpto(s, k) = BlanksUpto(s, k - 1)
      BY <1>2, <2>3 DEF BlanksUpto
    <3>2. QED
      BY <1>1, <2>1, <2>3, <3>1
  <2>4. QED
    BY <2>2, <2>3
<1>3. QED
  BY <1>1, <1>2

\* As many words as blanks and one; the first of them is what comes before the
\* first blank.
FirstWord(g, s, k) ==
  /\ Len(g[k]) = Cardinality(BlanksUpto(s, k)) + 1
  /\ LET b == Find(s, SP) IN g[k][1] = IF b # 0 /\ b <= k THEN Upto(s, b - 1) ELSE Upto(s, k)

LEMMA FirstWordIs ==
  ASSUME NEW g, NEW s, NEW n, WordsUpto(g, s, n)
  PROVE  \A k \in 0 .. n : FirstWord(g, s, k)
<1> DEFINE P == {k \in 0 .. n : FirstWord(g, s, k)}
<1>1. /\ n \in Nat /\ n = Len(s) /\ s \in Seq(STRING)
      /\ g[0] = <<<<>>>> /\ \A i \in 1 .. n : g[i] = NextWord(g[i - 1], s[i])
      /\ \A i \in 0 .. n : g[i] \in WordLists
  BY DEF WordsUpto
<1>2. PICK b \in Nat : /\ b = Find(s, SP) /\ b \in 0 .. n
                       /\ b = 0 => \A i \in 1 .. n : s[i] # SP
                       /\ b # 0 => s[b] = SP /\ \A i \in 1 .. b - 1 : s[i] # SP
  <2>1. PICK b : b = Find(s, SP)
    OBVIOUS
  <2>2. n \in Nat /\ n = Len(s) /\ s \in Seq(STRING)
    BY <1>1
  <2>3. /\ b \in 0 .. n
        /\ b = 0 => \A i \in 1 .. n : s[i] # SP
        /\ b # 0 => s[b] = SP /\ \A i \in 1 .. b - 1 : s[i] # SP
    BY <2>1, <2>2, FindIs
  <2>4. b \in Nat
    BY <2>2, <2>3
  <2>5. QED
    BY <2>1, <2>3, <2>4
<1>3. 0 \in P
  <2>1. BlanksUpto(s, 0) = {}
    BY DEF BlanksUpto
  <2>2. Cardinality(BlanksUpto(s, 0)) = 0
    BY <2>1, FS_EmptySet
  <2>3. Len(g[0]) = 1 /\ g[0][1] = <<>>
    BY <1>1
  <2>4. Upto(s, 0) = <<>>
    <3>1. Upto(s, 0) \in Seq(STRING) /\ Len(Upto(s, 0)) = 0
      BY <1>1, UptoIs
    <3>2. QED
      BY <3>1, EmptySeq
  <2>5. ~(b # 0 /\ b <= 0)
    BY <1>2
  <2>6. FirstWord(g, s, 0)
    BY <1>2, <2>2, <2>3, <2>4, <2>5 DEF FirstWord
  <2>7. QED
    BY <1>1, <2>6
<1>4. ASSUME NEW k \in 1 .. n, k - 1 \in P PROVE k \in P
  <2>1. PICK w \in WordLists, c \in STRING, m \in Nat :
          /\ w = g[k - 1] /\ c = s[k] /\ g[k] = NextWord(w, c) /\ m = Cardinality(BlanksUpto(s, k - 1))
    <3>1. s[k] \in STRING /\ k - 1 \in 0 .. n /\ k - 1 \in Nat
      BY <1>1, ElementOfSeq
    <3>2. Cardinality(BlanksUpto(s, k - 1)) \in Nat
      BY <3>1, BlankCount
    <3>3. QED
      BY <1>1, <3>1, <3>2
  <2>2. Len(w) = m + 1 /\ w[1] = IF b # 0 /\ b <= k - 1 THEN Upto(s, b - 1) ELSE Upto(s, k - 1)
    BY <1>2, <1>4, <2>1 DEF FirstWord
  <2>3. Cardinality(BlanksUpto(s, k)) = m + (IF c = SP THEN 1 ELSE 0)
    <3>1. k \in Nat /\ k > 0
      OBVIOUS
    <3>2. QED
      BY <2>1, <3>1, BlankCount
  <2>4. CASE c = SP
    <3>1. Len(g[k]) = m + 2 /\ g[k][1] = w[1]
      <4>1. Len(NextWord(w, c)) = Len(w) + 1 /\ NextWord(w, c)[1] = w[1]
        BY <2>4, NextWordIs
      <4>2. Len(g[k]) = Len(w) + 1 /\ g[k][1] = w[1]
        BY <2>1, <4>1
      <4>3. QED
        BY <2>2, <4>2
    <3>2. b # 0 /\ b <= k
      <4>1. s[k] = SP
        BY <2>1, <2>4
      <4>2. b # 0
        BY <1>2, <4>1
      <4>3. ~(k \in 1 .. b - 1)
        BY <1>2, <4>1, <4>2
      <4>4. QED
        BY <4>2, <4>3
    <3>3. ~(b <= k - 1) => b = k
      BY <3>2
    <3>4. w[1] = Upto(s, b - 1)
      BY <2>2, <3>2, <3>3
    <3>5. FirstWord(g, s, k)
      BY <1>2, <2>3, <2>4, <3>1, <3>2, <3>4 DEF FirstWord
    <3>6. QED
      BY <1>1, <3>5
  <2>5. CASE c # SP
    <3>1. Len(g[k]) = m + 1
      BY <2>1, <2>2, <2>5, NextWordIs
    <3>2. b # k
      BY <1>2, <2>1, <2>5
    <3>3. CASE b # 0 /\ b <= k - 1
      <4>1. m # 0
        <5>1. b \in BlanksUpto(s, k - 1)
          BY <1>2, <3>3 DEF BlanksUpto
        <5>2. IsFiniteSet(BlanksUpto(s, k - 1))
          <6>1. k - 1 \in Nat
            OBVIOUS
          <6>2. QED
            BY <6>1, BlankCount
        <5>3. QED
          BY <2>1, <5>1, <5>2, FS_EmptySet
      <4>2. Len(w) # 1
        BY <2>2, <4>1
      <4>3. g[k][1] = w[1]
        BY <2>1, <2>5, <4>2, NextWordIs
      <4>4. b <= k
        BY <3>3
      <4>5. FirstWord(g, s, k)
        BY <1>2, <2>2, <2>3, <2>5, <3>1, <3>3, <4>3, <4>4 DEF FirstWord
      <4>6. QED
        BY <4>5
    <3>4. CASE ~(b # 0 /\ b <= k - 1)
      <4>1. m = 0
        <5>1. \A j \in 1 .. k - 1 : s[j] # SP
          BY <1>1, <1>2, <3>4
        <5>2. BlanksUpto(s, k - 1) = {}
          BY <5>1 DEF BlanksUpto
        <5>3. QED
          BY <2>1, <5>2, FS_EmptySet
      <4>2. Len(w) = 1
        BY <2>2, <4>1
      <4>3. g[k][1] = Append(w[1], c)
        BY <2>1, <2>5, <4>2, NextWordIs
      <4>4. ~(b # 0 /\ b <= k)
        BY <3>2, <3>4
      <4>5. Append(Upto(s, k - 1), s[k]) = Upto(s, k)
        BY <1>1, UptoGrows
      <4>6. g[k][1] = Upto(s, k)
        BY <2>1, <2>2, <3>4, <4>3, <4>5
      <4>7. FirstWord(g, s, k)
        BY <1>2, <2>3, <2>5, <3>1, <4>4, <4>6 DEF FirstWord
      <4>8. QED
        BY <4>7
    <3>5. QED
      BY <3>3, <3>4
  <2>6. QED
    BY <2>4, <2>5
<1>5. \A k \in 0 .. n : k \in P
  <2> HIDE DEF P
  <2>1. QED
    BY <1>1, <1>3, <1>4, Along
<1>6. QED
  BY <1>5

\* The words of a text: how many there are, and the first of them.
LEMMA WordsOfIs ==
  ASSUME NEW s \in Seq(STRING)
  PROVE  /\ WordsOf(s) \in Seq(Seq(STRING))
         /\ s = <<>> => WordsOf(s) = <<>>
         /\ s # <<>> => /\ Len(WordsOf(s)) = Cardinality(BlanksUpto(s, Len(s))) + 1
                        /\ ~Holds(s, SP) => Len(WordsOf(s)) = 1
                        /\ Holds(s, SP) => /\ Len(WordsOf(s)) > 1
                                           /\ WordsOf(s)[1] = Upto(s, Find(s, SP) - 1)
<1>1. PICK g : WordsUpto(g, s, Len(s)) /\ WordsOf(s) = IF s = <<>> THEN <<>> ELSE g[Len(s)]
  BY WordsAre
<1>2. PICK n \in Nat : n = Len(s) /\ g[n] \in WordLists
  BY <1>1 DEF WordsUpto
<1>3. FirstWord(g, s, n)
  BY <1>1, <1>2, FirstWordIs
<1>4. WordsOf(s) \in Seq(Seq(STRING))
  <2>1. <<>> \in Seq(Seq(STRING))
    OBVIOUS
  <2>2. QED
    BY <1>1, <1>2, <2>1 DEF WordLists
<1>5. ASSUME s # <<>>
      PROVE  /\ Len(WordsOf(s)) = Cardinality(BlanksUpto(s, n)) + 1
             /\ ~Holds(s, SP) => Len(WordsOf(s)) = 1
             /\ Holds(s, SP) => Len(WordsOf(s)) > 1 /\ WordsOf(s)[1] = Upto(s, Find(s, SP) - 1)
  <2>1. Len(WordsOf(s)) = Cardinality(BlanksUpto(s, n)) + 1
    BY <1>1, <1>2, <1>3, <1>5 DEF FirstWord
  <2>2. IsFiniteSet(BlanksUpto(s, n)) /\ Cardinality(BlanksUpto(s, n)) \in Nat
    BY BlankCount
  <2>3. ASSUME ~Holds(s, SP) PROVE Len(WordsOf(s)) = 1
    <3>1. BlanksUpto(s, n) = {}
      BY <1>2, <2>3, FindIs DEF Holds, BlanksUpto
    <3>2. QED
      BY <2>1, <3>1, FS_EmptySet
  <2>4. ASSUME Holds(s, SP) PROVE Len(WordsOf(s)) > 1 /\ WordsOf(s)[1] = Upto(s, Find(s, SP) - 1)
    <3>1. PICK b \in 1 .. n : b = Find(s, SP) /\ s[b] = SP
      BY <1>2, <2>4, FindIs DEF Holds
    <3>2. b \in BlanksUpto(s, n)
      BY <3>1 DEF BlanksUpto
    <3>3. Cardinality(BlanksUpto(s, n)) # 0
      BY <2>2, <3>2, FS_EmptySet
    <3>4. b # 0 /\ b <= n
      OBVIOUS
    <3>5. WordsOf(s)[1] = Upto(s, b - 1)
      BY <1>1, <1>2, <1>3, <1>5, <3>1, <3>4 DEF FirstWord
    <3>6. QED
      BY <2>1, <2>2, <3>1, <3>3, <3>5
  <2>5. QED
    BY <2>1, <2>3, <2>4
<1>6. QED
  BY <1>1, <1>2, <1>4, <1>5

\* how_many_words() counts them, if the blanks are single and between words.
LEMMA HowManyAre ==
  ASSUME NEW s \in Seq(STRING), s # <<>>, Parted(s)
  PROVE  HowManyWords(s) = Len(WordsOf(s))
<1>1. PICK n \in Nat : n = Len(s)
  BY LenIsNat
<1> DEFINE ends == {i \in 2 .. n : IsBlank(s[i]) /\ ~IsBlank(s[i - 1])}
<1>2. HowManyWords(s) = 1 + Cardinality(ends)
  BY <1>1 DEF HowManyWords
<1>3. IsBlank(SP)
  BY DEF IsBlank, Blank
<1>4. \A i \in 1 .. n : IsBlank(s[i]) => s[i] = SP /\ i \in 2 .. n - 1 /\ ~IsBlank(s[i + 1])
  BY <1>1 DEF Parted
<1>5. ends = BlanksUpto(s, n)
  <2>1. ASSUME NEW i \in ends PROVE i \in BlanksUpto(s, n)
    BY <1>4 DEF BlanksUpto
  <2>2. ASSUME NEW i \in BlanksUpto(s, n) PROVE i \in ends
    <3>1. i \in 1 .. n /\ IsBlank(s[i])
      BY <1>3 DEF BlanksUpto
    <3>2. i \in 2 .. n /\ i - 1 \in 1 .. n /\ (i - 1) + 1 = i
      BY <1>4, <3>1
    <3>3. ~IsBlank(s[i - 1])
      BY <1>4, <3>1, <3>2
    <3>4. QED
      BY <3>1, <3>2, <3>3
  <2> HIDE DEF ends
  <2>3. QED
    BY <2>1, <2>2
<1>6. Cardinality(BlanksUpto(s, n)) \in Nat
  BY BlankCount
<1> HIDE DEF ends
<1>7. QED
  BY <1>1, <1>2, <1>5, <1>6, WordsOfIs

-----------------------------------------------------------------------------
(* Paths and targets                                                         *)

LEMMA OffIs ==
  ASSUME NEW s \in Seq(STRING), s # <<>>
  PROVE  /\ Off(s) \in Seq(STRING) /\ Off(s) # <<>> /\ Len(Off(s)) \in Nat \ {0}
         /\ Off(s)[1] = s[1]
         /\ Len(Off(s)) > 1 => Off(s)[Len(Off(s))] # "/"
<1> DEFINE at == {1} \cup {i \in 1 .. Len(s) : s[i] # "/"}
<1>1. PICK n \in Nat : n = Len(s)
  BY LenIsNat
<1>2. n # 0
  BY <1>1, EmptySeq
<1>3. PICK m \in 1 .. n : m = Max(at) /\ m \in at
  <2>1. at \in SUBSET Nat /\ at # {} /\ \A x \in at : x <= n
    BY <1>1, <1>2
  <2>2. Max(at) \in at
    <3> HIDE DEF at
    <3>1. QED
      BY <1>1, <2>1, MaxIs
  <2>3. \A x \in at : x \in 1 .. n
    BY <1>1, <1>2
  <2>4. QED
    BY <2>2, <2>3
<1>4. Off(s) = Upto(s, m)
  BY <1>3 DEF Off
<1>5. PICK o \in Seq(STRING) : o = Off(s) /\ Len(o) = m /\ \A i \in 1 .. m : o[i] = s[i]
  <2>1. m \in 0 .. Len(s)
    BY <1>1
  <2>2. QED
    BY <1>4, <2>1, UptoIs
<1>6. o # <<>>
  BY <1>5, EmptySeq
<1>7. m > 1 => o[m] # "/"
  BY <1>3, <1>5
<1>8. o[1] = s[1]
  BY <1>5
<1>9. QED
  BY <1>5, <1>6, <1>7, <1>8

LEMMA OneIs ==
  ASSUME NEW T, NEW c \in T, NEW s \in Seq(T), Len(s) = 1, s[1] = c
  PROVE  s = <<c>>
<1>1. <<c>> \in Seq(T) /\ Len(<<c>>) = 1 /\ <<c>>[1] = c
  OBVIOUS
<1>2. PICK w \in Seq(T) : w = <<c>> /\ Len(w) = 1 /\ w[1] = c
  BY <1>1
<1>3. \A i \in 1 .. Len(s) : s[i] = w[i]
  BY <1>2
<1>4. s = w
  BY <1>2, <1>3, SeqEqual
<1>5. QED
  BY <1>2, <1>4

\* A text is what comes before a place, what is there, and what comes after.
LEMMA PartedAt ==
  ASSUME NEW T, NEW s \in Seq(T), NEW n \in Nat, n = Len(s), NEW b \in 1 .. n
  PROVE  s = Upto(s, b - 1) \o <<s[b]>> \o From(s, b + 1)
<1>1. b \in 0 .. n /\ b - 1 \in 0 .. n /\ b - 1 \in Nat
  OBVIOUS
<1>2. PICK u \in Seq(T) : u = Upto(s, b - 1) /\ Len(u) = b - 1 /\ \A i \in 1 .. b - 1 : u[i] = s[i]
  <2>1. b - 1 \in 0 .. Len(s)
    BY <1>1
  <2>2. QED
    BY <1>1, <2>1, UptoIs
<1>3. PICK v \in Seq(T) : /\ v = From(s, b + 1) /\ Len(v) = n - b
                          /\ \A i \in 1 .. n - b : v[i] = s[b + i]
  <2>1. b \in 0 .. Len(s)
    BY <1>1
  <2>2. /\ From(s, b + 1) \in Seq(T) /\ Len(From(s, b + 1)) = Len(s) - b
        /\ \A i \in 1 .. Len(s) - b : From(s, b + 1)[i] = s[b + i]
    BY <2>1, FromIs
  <2>3. QED
    BY <2>2
<1>4. PICK c \in T : c = s[b]
  BY ElementOfSeq
<1>5. PICK w \in Seq(T) : w = <<c>> /\ Len(w) = 1 /\ w[1] = c
  <2>1. <<c>> \in Seq(T)
    OBVIOUS
  <2>2. Len(<<c>>) = 1 /\ <<c>>[1] = c
    OBVIOUS
  <2>3. QED
    BY <2>1, <2>2
<1>6. PICK x \in Seq(T) : x = u \o w /\ Len(x) = b /\ \A i \in 1 .. b : x[i] = s[i]
  <2>1. u \o w \in Seq(T) /\ Len(u \o w) = b
    <3>1. u \o w \in Seq(T) /\ Len(u \o w) = Len(u) + Len(w)
      BY ConcatProperties
    <3>2. QED
      BY <1>2, <1>5, <3>1
  <2>2. ASSUME NEW i \in 1 .. b PROVE (u \o w)[i] = s[i]
    <3>1. CASE i <= b - 1
      <4>1. i \in 1 .. Len(u) + Len(w) /\ i <= Len(u)
        BY <1>2, <1>5, <3>1
      <4>2. (u \o w)[i] = u[i]
        BY <4>1, ConcatProperties
      <4>3. QED
        BY <1>2, <3>1, <4>2
    <3>2. CASE ~(i <= b - 1)
      <4>1. i = b /\ i - Len(u) = 1 /\ i \in 1 .. Len(u) + Len(w) /\ ~(i <= Len(u))
        BY <1>2, <1>5, <3>2
      <4>2. (u \o w)[i] = w[1]
        BY <4>1, ConcatProperties
      <4>3. QED
        BY <1>4, <1>5, <4>1, <4>2
    <3>3. QED
      BY <3>1, <3>2
  <2>3. QED
    BY <2>1, <2>2
<1>7. x \o v \in Seq(T) /\ Len(x \o v) = n
  <2>1. x \o v \in Seq(T) /\ Len(x \o v) = Len(x) + Len(v)
    BY ConcatProperties
  <2>2. Len(x) = b
    BY <1>6
  <2>3. Len(v) = n - b
    BY <1>3
  <2>4. b + (n - b) = n
    BY <1>1
  <2>5. QED
    BY <2>1, <2>2, <2>3, <2>4
<1>8. ASSUME NEW i \in 1 .. n PROVE (x \o v)[i] = s[i]
  <2>1. CASE i <= b
    BY <1>3, <1>6, <2>1, ConcatProperties
  <2>2. CASE ~(i <= b)
    <3>1. PICK j \in 1 .. n - b : j = i - b /\ i = b + j
      <4>1. i - b \in 1 .. n - b /\ i = b + (i - b)
        BY <1>1, <2>2
      <4>2. QED
        BY <4>1
    <3>2. (x \o v)[i] = v[j]
      BY <1>1, <1>3, <1>6, <2>2, <3>1, ConcatProperties
    <3>3. QED
      BY <1>3, <3>1, <3>2
  <2>3. QED
    BY <2>1, <2>2
<1>9. x \o v = s
  BY <1>1, <1>7, <1>8, SeqEqual
<1>10. QED
  BY <1>2, <1>3, <1>4, <1>5, <1>6, <1>9

\* The words of a sequence of texts, with one text more.
AllWords(texts) == FlattenSeq([i \in 1 .. Len(texts) |-> WordsOf(texts[i])])

LEMMA NoWords == AllWords(<<>>) = <<>>
<1> DEFINE u == [i \in 1 .. Len(<<>>) |-> WordsOf(<<>>[i])]
<1>1. AllWords(<<>>) = FlattenSeq(u)
  BY DEF AllWords
<1>2. u \in [1 .. 0 -> Seq(Seq(STRING))]
  OBVIOUS
<1> HIDE DEF u
<1>3. u \in Seq(Seq(Seq(STRING))) /\ Len(u) = 0
  BY <1>2, FunctionIsSeq
<1>4. u = <<>>
  BY <1>3, EmptySeq
<1>5. PICK f \in [0 .. 0 -> Seq(Seq(STRING))] : IsFlat(f, u, 0, Seq(STRING))
  <2>1. \A i \in 1 .. 0 : u[i] \in Seq(Seq(STRING))
    OBVIOUS
  <2>2. QED
    BY <2>1, FlatExists
<1>6. FlattenSeq(u) = f[0]
  BY <1>3, <1>4, <1>5, FlattenIs
<1>7. QED
  BY <1>1, <1>5, <1>6 DEF IsFlat

LEMMA WordsAppended ==
  ASSUME NEW t \in Seq(Seq(STRING)), NEW s \in Seq(STRING)
  PROVE  AllWords(Append(t, s)) = AllWords(t) \o WordsOf(s)
<1>1. PICK n \in Nat : n = Len(t)
  BY LenIsNat
<1>2. PICK a \in Seq(Seq(STRING)) :
        a = Append(t, s) /\ Len(a) = n + 1 /\ a[n + 1] = s /\ \A i \in 1 .. n : a[i] = t[i]
  <2>1. /\ Append(t, s) \in Seq(Seq(STRING)) /\ Len(Append(t, s)) = n + 1
        /\ Append(t, s)[n + 1] = s
        /\ \A i \in 1 .. n : Append(t, s)[i] = t[i]
    BY <1>1, AppendProperties
  <2>2. QED
    BY <2>1
<1> DEFINE u == [i \in 1 .. n + 1 |-> WordsOf(a[i])]
           w == [i \in 1 .. n |-> WordsOf(t[i])]
<1>3. AllWords(Append(t, s)) = FlattenSeq(u) /\ AllWords(t) = FlattenSeq(w)
  BY <1>1, <1>2 DEF AllWords
<1>4. /\ \A i \in 1 .. n + 1 : u[i] \in Seq(Seq(STRING))
      /\ \A i \in 1 .. n : w[i] \in Seq(Seq(STRING)) /\ u[i] = w[i]
      /\ u[n + 1] = WordsOf(s)
  <2>1. \A i \in 1 .. n + 1 : a[i] \in Seq(STRING)
    BY <1>2, ElementOfSeq
  <2>2. \A i \in 1 .. n + 1 : WordsOf(a[i]) \in Seq(Seq(STRING))
    BY <2>1, WordsOfIs
  <2>3. \A i \in 1 .. n : i \in 1 .. n + 1
    OBVIOUS
  <2>4. n + 1 \in 1 .. n + 1
    OBVIOUS
  <2>5. QED
    BY <1>2, <2>2, <2>3, <2>4
<1>5. Len(u) = n + 1 /\ Len(w) = n /\ w \in Seq(Seq(Seq(STRING)))
  <2>1. u \in [1 .. n + 1 -> Seq(Seq(STRING))] /\ w \in [1 .. n -> Seq(Seq(STRING))]
    BY <1>4
  <2> HIDE DEF u, w
  <2>2. QED
    BY <2>1, FunctionIsSeq
<1> HIDE DEF u, w
<1>6. PICK f \in [0 .. n + 1 -> Seq(Seq(STRING))] : IsFlat(f, u, n + 1, Seq(STRING))
  <2>1. PICK m \in Nat : m = n + 1
    OBVIOUS
  <2>2. \A i \in 1 .. m : u[i] \in Seq(Seq(STRING))
    BY <1>4, <2>1
  <2>3. \E f \in [0 .. m -> Seq(Seq(STRING))] : IsFlat(f, u, m, Seq(STRING))
    BY <2>2, FlatExists
  <2>4. QED
    BY <2>1, <2>3
<1>7. FlattenSeq(u) = f[n + 1]
  <2>1. PICK m \in Nat : m = n + 1 /\ ~(m = 0)
    OBVIOUS
  <2>2. IsFlat(f, u, m, Seq(STRING)) /\ Len(u) = m /\ (m = 0 => u = <<>>)
    BY <1>5, <1>6, <2>1
  <2>3. QED
    BY <2>1, <2>2, FlattenIs
<1> DEFINE h == [i \in 0 .. n |-> f[i]]
<1>8. IsFlat(h, w, n, Seq(STRING)) /\ h[n] = f[n]
  <2>1. h \in [0 .. n -> Seq(Seq(STRING))] /\ h[0] = <<>> /\ h[n] = f[n]
    BY <1>6 DEF IsFlat
  <2>2. \A i \in 1 .. n : h[i] = h[i - 1] \o w[i]
    <3> SUFFICES ASSUME NEW i \in 1 .. n PROVE h[i] = h[i - 1] \o w[i]
      OBVIOUS
    <3>1. h[i] = f[i] /\ h[i - 1] = f[i - 1] /\ i \in 1 .. n + 1
      OBVIOUS
    <3>2. f[i] = f[i - 1] \o u[i]
      BY <1>6, <3>1 DEF IsFlat
    <3> HIDE DEF h
    <3>3. QED
      BY <1>4, <3>1, <3>2
  <2> HIDE DEF h
  <2>3. QED
    BY <1>4, <2>1, <2>2 DEF IsFlat
<1>9. FlattenSeq(w) = f[n]
  <2>1. n = 0 => w = <<>>
    BY <1>5, EmptySeq
  <2> HIDE DEF h
  <2>2. PICK e : IsFlat(e, w, n, Seq(STRING)) /\ e[n] = f[n]
    BY <1>8
  <2>3. PICK v : v = w /\ IsFlat(e, v, n, Seq(STRING)) /\ Len(v) = n /\ (n = 0 => v = <<>>)
    BY <1>5, <2>1, <2>2
  <2>4. FlattenSeq(v) = e[n]
    BY <2>3, FlattenIs
  <2>5. QED
    BY <2>2, <2>3, <2>4
<1>10. f[n + 1] = f[n] \o u[n + 1]
  <2>1. n + 1 \in 1 .. n + 1 /\ (n + 1) - 1 = n
    OBVIOUS
  <2>2. QED
    BY <1>6, <2>1 DEF IsFlat
<1>11. QED
  BY <1>3, <1>4, <1>7, <1>9, <1>10

-----------------------------------------------------------------------------
(* The invariant                                                             *)

\* What the parts of the state have of the arguments that were taken.
LimitFits(texts, limit) ==
  texts # <<>> =>
    LET arg == texts[Len(texts)]
        n == Number(arg)
        unit == IF arg[Len(arg)] \in {"m", "M"} THEN Kilo * Kilo
                ELSE IF arg[Len(arg)] \in {"k", "K"} THEN Kilo ELSE 1
    IN /\ n <= IntMax => limit = n * unit
       /\ limit = 0 => n % Ints = 0

PathsFit(l) ==
  /\ l.root # <<>> => l.root[1] = "/" /\ (l.root = <<"/">> \/ Last(l.root) # "/")
  /\ l.upload # <<>> => l.upload \in Dirs

StatusCode(arg) == Number(arg) % Ints
PagesFit(texts, pages) ==
  /\ DOMAIN pages = DefaultPages \cup {StatusCode(texts[i]) : i \in 1 .. Len(texts)}
  /\ \A i \in 1 .. Len(texts) :
       (\A j \in i + 1 .. Len(texts) : StatusCode(texts[j]) # StatusCode(texts[i])) =>
         pages[StatusCode(texts[i])] = Last(WordsOf(texts[i]))

TargetFits(texts, redirection) ==
  redirection # Unset =>
    LET arg == texts[Len(texts)]
        words == WordsOf(arg)
    IN IF Len(words) < 2 THEN redirection.target = arg
       ELSE arg = words[1] \o <<SP>> \o redirection.target

LocType ==
  [limit : 0 .. SizeMax, root : Seq(STRING), index : Seq(Seq(STRING)),
   redirection : {Unset} \cup [code : Redirects, target : Seq(STRING)],
   upload : {<<>>} \cup Dirs, cgi : Seq(STRING)]
PagesType == UNION {[D -> Seq(STRING) \cup {<<"default">>}] : D \in SUBSET (400 .. 555)}
SrvType ==
  [addr : Resolved \cup {Unset}, names : Seq(Seq(STRING) \ {<<>>}), pages : PagesType]
TakenType == [Setters -> Seq(Seq(STRING))]

LocFits(l, t) ==
  /\ LimitFits(t["client_max_body_size"], l.limit)
  /\ PathsFit(l)
  /\ l.index = AllWords(t["index"])
  /\ TargetFits(t["redirection"], l.redirection)

SrvFits(s, t) ==
  /\ s.names = AllWords(t["server_name"])
  /\ PagesFit(t["error_page"], s.pages)

ArgsIInv ==
  /\ loc \in LocType /\ srv \in SrvType /\ taken \in TakenType
  /\ argCount \in 0 .. MaxArguments
  /\ argStatus \in {"reading", "rejected"}
  /\ LocFits(loc, taken)
  /\ SrvFits(srv, taken)

\* The arguments that were taken, with one more of a directive.
With(t, d, arg) == [t EXCEPT ![d] = Append(@, arg)]

LEMMA WithIs ==
  ASSUME NEW t \in TakenType, NEW d \in Setters, NEW arg \in Seq(STRING)
  PROVE  /\ With(t, d, arg) \in TakenType
         /\ With(t, d, arg)[d] = Append(t[d], arg)
         /\ \A e \in Setters \ {d} : With(t, d, arg)[e] = t[e]
<1>1. t[d] \in Seq(Seq(STRING))
  BY DEF TakenType
<1>2. Append(t[d], arg) \in Seq(Seq(STRING))
  BY <1>1, AppendProperties
<1>3. QED
  BY <1>2 DEF With, TakenType

\* The last of the arguments.
LEMMA LastTaken ==
  ASSUME NEW t \in Seq(Seq(STRING)), NEW arg \in Seq(STRING), NEW a, a = Append(t, arg)
  PROVE  /\ a \in Seq(Seq(STRING)) /\ a # <<>> /\ Len(a) = Len(t) + 1 /\ Len(t) \in Nat
         /\ a[Len(a)] = arg
         /\ \A i \in 1 .. Len(t) : a[i] = t[i]
<1>1. PICK n \in Nat : n = Len(t)
  BY LenIsNat
<1>2. PICK b \in Seq(Seq(STRING)) :
        b = a /\ Len(b) = n + 1 /\ b[n + 1] = arg /\ \A i \in 1 .. n : b[i] = t[i]
  <2>1. /\ Append(t, arg) \in Seq(Seq(STRING)) /\ Len(Append(t, arg)) = n + 1
        /\ Append(t, arg)[n + 1] = arg
        /\ \A i \in 1 .. n : Append(t, arg)[i] = t[i]
    BY <1>1, AppendProperties
  <2>2. QED
    BY <2>1
<1>3. b # <<>>
  BY <1>2, EmptySeq
<1>4. QED
  BY <1>1, <1>2, <1>3

\* A setter that refuses an argument, or takes it.
LEMMA SetLocKeeps ==
  ASSUME ArgsIInv, argStatus = "reading", argCount < MaxArguments,
         NEW d \in Setters \ {"server_name", "error_page"}, NEW arg \in Seq(STRING),
         NEW ok \in BOOLEAN, NEW new, SetLoc(d, arg, ok, new),
         ok => new \in LocType /\ LocFits(new, With(taken, d, arg))
  PROVE  ArgsIInv'
<1>1. argCount' \in 0 .. MaxArguments
  BY ArgsAssumption DEF ArgsIInv, SetLoc, Takes
<1>2. argStatus' \in {"reading", "rejected"}
  BY DEF ArgsIInv, SetLoc, Takes
<1>3. CASE ~ok
  <2>1. UNCHANGED <<loc, srv, taken>>
    BY <1>3 DEF SetLoc, Takes
  <2>2. /\ loc' \in LocType /\ srv' \in SrvType /\ taken' \in TakenType
        /\ LocFits(loc', taken') /\ SrvFits(srv', taken')
    BY <2>1 DEF ArgsIInv
  <2>3. QED
    BY <1>1, <1>2, <2>2 DEF ArgsIInv
<1>4. CASE ok
  <2>1. loc' = new /\ srv' = srv /\ taken' = With(taken, d, arg)
    BY <1>4 DEF SetLoc, Takes, With
  <2>2. /\ taken' \in TakenType
        /\ taken'["server_name"] = taken["server_name"]
        /\ taken'["error_page"] = taken["error_page"]
    <3>1. {"server_name", "error_page"} \subseteq Setters \ {d}
      BY DEF Setters
    <3>2. taken \in TakenType
      BY DEF ArgsIInv
    <3>3. QED
      BY <2>1, <3>1, <3>2, WithIs
  <2>3. loc' \in LocType /\ LocFits(loc', taken')
    BY <1>4, <2>1
  <2>4. srv' \in SrvType /\ SrvFits(srv', taken')
    BY <2>1, <2>2 DEF ArgsIInv, SrvFits
  <2>5. QED
    BY <1>1, <1>2, <2>2, <2>3, <2>4 DEF ArgsIInv
<1>5. QED
  BY <1>3, <1>4

LEMMA SetSrvKeeps ==
  ASSUME ArgsIInv, argStatus = "reading", argCount < MaxArguments,
         NEW d \in {"server_name", "error_page", "listen"}, NEW arg \in Seq(STRING),
         NEW ok \in BOOLEAN, NEW new, SetSrv(d, arg, ok, new),
         ok => new \in SrvType /\ SrvFits(new, With(taken, d, arg))
  PROVE  ArgsIInv'
<1>1. argCount' \in 0 .. MaxArguments
  BY ArgsAssumption DEF ArgsIInv, SetSrv, Takes
<1>2. argStatus' \in {"reading", "rejected"}
  BY DEF ArgsIInv, SetSrv, Takes
<1>3. CASE ~ok
  <2>1. UNCHANGED <<loc, srv, taken>>
    BY <1>3 DEF SetSrv, Takes
  <2>2. /\ loc' \in LocType /\ srv' \in SrvType /\ taken' \in TakenType
        /\ LocFits(loc', taken') /\ SrvFits(srv', taken')
    BY <2>1 DEF ArgsIInv
  <2>3. QED
    BY <1>1, <1>2, <2>2 DEF ArgsIInv
<1>4. CASE ok
  <2>1. srv' = new /\ loc' = loc /\ taken' = With(taken, d, arg)
    BY <1>4 DEF SetSrv, Takes, With
  <2>2. /\ taken' \in TakenType
        /\ \A e \in {"client_max_body_size", "index", "redirection"} : taken'[e] = taken[e]
    <3>1. d \in Setters /\ {"client_max_body_size", "index", "redirection"} \subseteq Setters \ {d}
      BY DEF Setters
    <3>2. taken \in TakenType
      BY DEF ArgsIInv
    <3>3. QED
      BY <2>1, <3>1, <3>2, WithIs
  <2>3. srv' \in SrvType /\ SrvFits(srv', taken')
    BY <1>4, <2>1
  <2>4. loc' \in LocType /\ LocFits(loc', taken')
    BY <2>1, <2>2 DEF ArgsIInv, LocFits
  <2>5. QED
    BY <1>1, <1>2, <2>2, <2>3, <2>4 DEF ArgsIInv
<1>5. QED
  BY <1>3, <1>4

\* What a setter of the location leaves as it was fits as it did.
LEMMA OthersFit ==
  ASSUME NEW l \in LocType, NEW new \in LocType, NEW t \in TakenType, LocFits(l, t),
         NEW d \in Setters, NEW arg \in Seq(STRING)
  PROVE  LET u == With(t, d, arg) IN
         /\ d # "client_max_body_size" /\ new.limit = l.limit
              => LimitFits(u["client_max_body_size"], new.limit)
         /\ new.root = l.root /\ new.upload = l.upload => PathsFit(new)
         /\ d # "index" /\ new.index = l.index => new.index = AllWords(u["index"])
         /\ d # "redirection" /\ new.redirection = l.redirection
              => TargetFits(u["redirection"], new.redirection)
<1>1. \A e \in Setters : e # d => With(t, d, arg)[e] = t[e]
  BY WithIs
<1>2. {"client_max_body_size", "index", "redirection"} \subseteq Setters
  BY DEF Setters
<1>3. new.root = l.root /\ new.upload = l.upload => PathsFit(new)
  BY DEF LocFits, PathsFit
<1>4. QED
  BY <1>1, <1>2, <1>3 DEF LocFits

LEMMA ArgsInitInv == ArgsInit => ArgsIInv
<1> SUFFICES ASSUME ArgsInit PROVE ArgsIInv
  OBVIOUS
<1>1. taken \in TakenType /\ \A d \in Setters : taken[d] = <<>>
  BY DEF ArgsInit, TakenType
<1>2. /\ taken["client_max_body_size"] = <<>> /\ taken["index"] = <<>>
      /\ taken["redirection"] = <<>> /\ taken["server_name"] = <<>> /\ taken["error_page"] = <<>>
  BY <1>1 DEF Setters
<1>3. DefaultLimit \in 0 .. SizeMax
  BY WidthAssumption DEF DefaultLimit
<1>4. loc \in LocType
  <2>1. <<>> \in Seq(STRING) /\ <<>> \in Seq(Seq(STRING))
    OBVIOUS
  <2>2. QED
    BY <1>3, <2>1 DEF ArgsInit, LocType
<1>5. srv \in SrvType
  <2> DEFINE p == [n \in DefaultPages |-> <<"default">>]
  <2>1. DefaultPages \in SUBSET (400 .. 555)
    BY DEF DefaultPages
  <2>2. p \in [DefaultPages -> Seq(STRING) \cup {<<"default">>}]
    OBVIOUS
  <2> HIDE DEF p
  <2>3. p \in PagesType
    BY <2>1, <2>2 DEF PagesType
  <2>4. <<>> \in Seq(Seq(STRING) \ {<<>>})
    OBVIOUS
  <2>5. QED
    BY <2>3, <2>4 DEF ArgsInit, SrvType, p
<1>6. LocFits(loc, taken)
  <2>1. LimitFits(taken["client_max_body_size"], loc.limit)
    BY <1>2 DEF LimitFits
  <2>2. PathsFit(loc)
    BY DEF PathsFit, ArgsInit
  <2>3. loc.index = AllWords(taken["index"])
    BY <1>2, NoWords DEF ArgsInit
  <2>4. TargetFits(taken["redirection"], loc.redirection)
    BY DEF TargetFits, ArgsInit
  <2>5. QED
    BY <2>1, <2>2, <2>3, <2>4 DEF LocFits
<1>7. SrvFits(srv, taken)
  <2>1. srv.names = AllWords(taken["server_name"])
    BY <1>2, NoWords DEF ArgsInit
  <2>2. PagesFit(<<>>, srv.pages)
    <3>1. DOMAIN srv.pages = DefaultPages
      BY DEF ArgsInit
    <3>2. 1 .. Len(<<>>) = {}
      OBVIOUS
    <3>3. QED
      BY <3>1, <3>2 DEF PagesFit
  <2>3. QED
    BY <1>2, <2>1, <2>2 DEF SrvFits
<1>8. argCount \in 0 .. MaxArguments /\ argStatus \in {"reading", "rejected"}
  BY ArgsAssumption DEF ArgsInit
<1>9. QED
  BY <1>1, <1>4, <1>5, <1>6, <1>7, <1>8 DEF ArgsIInv

\* The arguments of every directive are texts.
LEMMA ArgIs ==
  ASSUME NEW d \in Setters, NEW arg \in Args[d]
  PROVE  arg \in Seq(STRING) /\ Parted(arg)
BY ArgsAssumption

-----------------------------------------------------------------------------
(* The setters of a location                                                 *)

\* The letters of the units are no digits.
LEMMA UnitsAre ==
  /\ DOMAIN Unit = {"k", "K", "m", "M"}
  /\ \A c \in DOMAIN Unit : ~IsDigit(c)
  /\ Unit["k"] = Kilo /\ Unit["K"] = Kilo /\ Unit["m"] = Kilo * Kilo /\ Unit["M"] = Kilo * Kilo
<1>1. DOMAIN Unit = {"k", "K", "m", "M"}
  BY DEF Unit
<1>2. ASSUME NEW c \in DOMAIN Unit PROVE ~IsDigit(c)
  <2> DEFINE at == {i \in 1 .. Len(Digits) : Digits[i] = c}
  <2>1. Find(Digits, c) = IF at # {} THEN Min(at) ELSE 0
    BY DEF Find, SelectInSeq
  <2>2. at = {}
    <3>1. c \in {"k", "K", "m", "M"}
      BY <1>1
    <3>2. Len(Digits) = 10
      BY DEF Digits
    <3>3. \A i \in 1 .. 10 : Digits[i] # c
      BY <3>1 DEF Digits
    <3>4. QED
      BY <3>2, <3>3
  <2>3. Find(Digits, c) = 0
    BY <2>1, <2>2
  <2>4. QED
    BY <2>3 DEF IsDigit, Holds
<1>3. QED
  BY <1>1, <1>2 DEF Unit

LEMMA SetClientMaxBodySizeOK ==
  ASSUME ArgsIInv, argStatus = "reading", argCount < MaxArguments,
         NEW arg \in Args["client_max_body_size"], SetClientMaxBodySize(arg)
  PROVE  ArgsIInv'
<1> DEFINE d == "client_max_body_size"
           new == [loc EXCEPT !.limit = SizeOf(arg)]
           u == With(taken, d, arg)
<1>1. d \in Setters /\ arg \in Seq(STRING)
  BY ArgIs DEF Setters
<1>2. loc \in LocType /\ taken \in TakenType /\ LocFits(loc, taken)
  BY DEF ArgsIInv
<1>3. ASSUME SizeOk(arg) PROVE new \in LocType /\ LocFits(new, u)
  <2>1. PICK l \in Nat : l = Len(arg) /\ l \in 1 .. Len(arg)
    <3>1. PICK l \in Nat : l = Len(arg)
      BY <1>1, LenIsNat
    <3>2. l # 0
      BY <1>1, <1>3, <3>1, EmptySeq DEF SizeOk
    <3>3. QED
      BY <3>1, <3>2
  <2>2. PICK c : c = arg[l] /\ (IsDigit(c) \/ c \in DOMAIN Unit)
    BY <1>3, <2>1 DEF SizeOk
  <2>3. PICK k : k = IF c \in {"m", "M"} THEN Kilo * Kilo ELSE IF c \in {"k", "K"} THEN Kilo ELSE 1
    OBVIOUS
  <2>4. UnitOf(arg) = k /\ k \in {1, Kilo, Kilo * Kilo}
    <3>1. UnitOf(arg) = IF IsDigit(c) THEN 1 ELSE Unit[c]
      BY <2>1, <2>2 DEF UnitOf
    <3>2. CASE IsDigit(c)
      <4>1. c \notin {"k", "K", "m", "M"}
        BY <3>2, UnitsAre
      <4>2. QED
        BY <2>3, <3>1, <3>2, <4>1
    <3>3. CASE ~IsDigit(c)
      <4>1. c \in {"k", "K", "m", "M"}
        BY <2>2, <3>3, UnitsAre
      <4>2. Unit[c] = k /\ k \in {Kilo, Kilo * Kilo}
        BY <2>3, <4>1, UnitsAre
      <4>3. QED
        BY <3>1, <3>3, <4>2
    <3>4. QED
      BY <3>2, <3>3
  <2>5. PICK a \in -(IntMax + 1) .. IntMax :
          /\ a = Atoi(arg)
          /\ Number(arg) <= IntMax => a = Number(arg)
          /\ a >= 0 => a = Number(arg) % Ints
    BY <1>1, AtoiIs
  <2>6. PICK x \in 0 .. SizeMax :
          x = SizeOf(arg) /\ (a >= 0 => x = a * k) /\ (x = 0 => a = 0)
    BY <2>4, <2>5, LimitIs DEF SizeOf
  <2>7. new \in LocType
    BY <1>2, <2>6 DEF LocType
  <2>8. new.limit = x /\ new.index = loc.index /\ new.redirection = loc.redirection
        /\ new.root = loc.root /\ new.upload = loc.upload
    BY <1>2, <2>6 DEF LocType
  <2> HIDE DEF new
  <2>9. LimitFits(u[d], x)
    <3>1. taken[d] \in Seq(Seq(STRING)) /\ u[d] = Append(taken[d], arg)
      BY <1>1, <1>2, WithIs DEF TakenType
    <3>2. PICK t \in Seq(Seq(STRING)) : t = u[d] /\ t[Len(t)] = arg
      <4>1. PICK t : t = u[d] /\ t = Append(taken[d], arg)
        BY <3>1
      <4>2. t \in Seq(Seq(STRING)) /\ t[Len(t)] = arg
        BY <1>1, <3>1, <4>1, LastTaken
      <4>3. QED
        BY <4>1, <4>2
    <3>3. Number(arg) <= IntMax => x = Number(arg) * k
      <4>1. Number(arg) \in Nat
        BY <1>1, NumberIs
      <4>2. Number(arg) <= IntMax => a >= 0 /\ a = Number(arg)
        BY <2>5, <4>1
      <4>3. QED
        BY <2>6, <4>2
    <3>4. x = 0 => Number(arg) % Ints = 0
      <4>1. x = 0 => a = 0 /\ a >= 0
        BY <2>6
      <4>2. QED
        BY <2>5, <4>1
    <3>5. QED
      BY <2>1, <2>2, <2>3, <3>2, <3>3, <3>4 DEF LimitFits
  <2>10. QED
    <3>1. d # "index" /\ d # "redirection"
      OBVIOUS
    <3>2. PathsFit(new) /\ new.index = AllWords(u["index"])
          /\ TargetFits(u["redirection"], new.redirection)
      BY <1>1, <1>2, <2>7, <2>8, <3>1, OthersFit
    <3>3. QED
      BY <2>7, <2>8, <2>9, <3>2 DEF LocFits
<1>4. SetLoc(d, arg, SizeOk(arg), new)
  BY DEF SetClientMaxBodySize
<1>5. SizeOk(arg) \in BOOLEAN /\ d \in Setters \ {"server_name", "error_page"}
  BY <1>1 DEF SizeOk
<1> HIDE DEF new, d
<1>6. QED
  BY <1>1, <1>3, <1>4, <1>5, SetLocKeeps

LEMMA SetRootOK ==
  ASSUME ArgsIInv, argStatus = "reading", argCount < MaxArguments,
         NEW arg \in Args["root"], SetRoot(arg)
  PROVE  ArgsIInv'
<1> DEFINE d == "root"
           ok == arg # <<>> /\ ~Holds(arg, SP) /\ arg[1] = "/"
           new == [loc EXCEPT !.root = Off(arg)]
           u == With(taken, d, arg)
<1>1. d \in Setters /\ arg \in Seq(STRING)
  BY ArgIs DEF Setters
<1>2. loc \in LocType /\ taken \in TakenType /\ LocFits(loc, taken)
  BY DEF ArgsIInv
<1>3. ASSUME ok PROVE new \in LocType /\ LocFits(new, u)
  <2>1. PICK r \in Seq(STRING), n \in Nat \ {0} :
          /\ r = Off(arg) /\ n = Len(r) /\ r[1] = "/"
          /\ n > 1 => r[n] # "/"
    <3>1. arg # <<>> /\ arg[1] = "/"
      BY <1>3
    <3>2. QED
      BY <1>1, <3>1, OffIs
  <2>2. r = <<"/">> \/ Last(r) # "/"
    <3>1. CASE n = 1
      <4>1. PICK s \in Seq(STRING \cup {"/"}), c \in STRING \cup {"/"} :
              s = r /\ c = "/" /\ Len(s) = 1 /\ s[1] = c
        <5>1. r \in Seq(STRING \cup {"/"})
          BY SeqMonotonic
        <5>2. QED
          BY <2>1, <3>1, <5>1
      <4>2. s = <<c>>
        BY <4>1, OneIs
      <4>3. QED
        BY <4>1, <4>2
    <3>2. CASE n # 1
      <4>1. n > 1
        BY <3>2
      <4>2. QED
        BY <2>1, <4>1 DEF Last
    <3>3. QED
      BY <3>1, <3>2
  <2>3. new \in LocType
    BY <1>2, <2>1 DEF LocType
  <2>4. /\ new.root = r /\ new.upload = loc.upload /\ new.index = loc.index
        /\ new.redirection = loc.redirection /\ new.limit = loc.limit
    BY <1>2, <2>1 DEF LocType
  <2> HIDE DEF new
  <2>5. PathsFit(new)
    BY <1>2, <2>1, <2>2, <2>4 DEF PathsFit, LocFits
  <2>6. LimitFits(u["client_max_body_size"], new.limit) /\ new.index = AllWords(u["index"])
        /\ TargetFits(u["redirection"], new.redirection)
    <3>1. d # "index" /\ d # "redirection" /\ d # "client_max_body_size"
      OBVIOUS
    <3>2. QED
      BY <1>1, <1>2, <2>3, <2>4, <3>1, OthersFit
  <2>7. QED
    BY <2>3, <2>5, <2>6 DEF LocFits
<1>4. SetLoc(d, arg, ok, new)
  BY DEF SetRoot
<1>5. ok \in BOOLEAN /\ d \in Setters \ {"server_name", "error_page"}
  BY <1>1
<1> HIDE DEF new, d, ok
<1>6. QED
  BY <1>1, <1>3, <1>4, <1>5, SetLocKeeps

LEMMA SetUploadDirectoryOK ==
  ASSUME ArgsIInv, argStatus = "reading", argCount < MaxArguments,
         NEW arg \in Args["upload_directory"], SetUploadDirectory(arg)
  PROVE  ArgsIInv'
<1> DEFINE d == "upload_directory"
           ok == UploadDir(arg) \in Dirs
           new == [loc EXCEPT !.upload = UploadDir(arg)]
           u == With(taken, d, arg)
<1>1. d \in Setters /\ arg \in Seq(STRING)
  BY ArgIs DEF Setters
<1>2. loc \in LocType /\ taken \in TakenType /\ LocFits(loc, taken)
  BY DEF ArgsIInv
<1>3. ASSUME ok PROVE new \in LocType /\ LocFits(new, u)
  <2>1. PICK p \in Dirs : p = UploadDir(arg)
    BY <1>3
  <2>2. new \in LocType
    BY <1>2, <2>1 DEF LocType
  <2>3. /\ new.root = loc.root /\ new.upload = p /\ new.index = loc.index
        /\ new.redirection = loc.redirection /\ new.limit = loc.limit
    BY <1>2, <2>1 DEF LocType
  <2> HIDE DEF new
  <2>4. PathsFit(new)
    BY <1>2, <2>1, <2>3 DEF PathsFit, LocFits
  <2>5. LimitFits(u["client_max_body_size"], new.limit) /\ new.index = AllWords(u["index"])
        /\ TargetFits(u["redirection"], new.redirection)
    <3>1. d # "index" /\ d # "redirection" /\ d # "client_max_body_size"
      OBVIOUS
    <3>2. QED
      BY <1>1, <1>2, <2>2, <2>3, <3>1, OthersFit
  <2>6. QED
    BY <2>2, <2>4, <2>5 DEF LocFits
<1>4. SetLoc(d, arg, ok, new)
  BY DEF SetUploadDirectory
<1>5. ok \in BOOLEAN /\ d \in Setters \ {"server_name", "error_page"}
  BY <1>1
<1> HIDE DEF new, d, ok
<1>6. QED
  BY <1>1, <1>3, <1>4, <1>5, SetLocKeeps

LEMMA SetCGIpassOK ==
  ASSUME ArgsIInv, argStatus = "reading", argCount < MaxArguments,
         NEW arg \in Args["cgi_pass"], SetCGIpass(arg)
  PROVE  ArgsIInv'
<1> DEFINE d == "cgi_pass"
           new == [loc EXCEPT !.cgi = arg]
           u == With(taken, d, arg)
<1>1. d \in Setters /\ arg \in Seq(STRING)
  BY ArgIs DEF Setters
<1>2. loc \in LocType /\ taken \in TakenType /\ LocFits(loc, taken)
  BY DEF ArgsIInv
<1>3. new \in LocType
  BY <1>1, <1>2 DEF LocType
<1>4. /\ new.root = loc.root /\ new.upload = loc.upload /\ new.index = loc.index
      /\ new.redirection = loc.redirection /\ new.limit = loc.limit
  BY <1>2 DEF LocType
<1>5. SetLoc(d, arg, TRUE, new)
  BY DEF SetCGIpass
<1>6. d \in Setters \ {"server_name", "error_page"}
  BY <1>1
<1>7. d # "index" /\ d # "redirection" /\ d # "client_max_body_size"
  OBVIOUS
<1> HIDE DEF new, d
<1>8. LocFits(new, u)
  BY <1>1, <1>2, <1>3, <1>4, <1>7, OthersFit DEF LocFits
<1>9. QED
  BY <1>1, <1>3, <1>5, <1>6, <1>8, SetLocKeeps

LEMMA SetIndexOK ==
  ASSUME ArgsIInv, argStatus = "reading", argCount < MaxArguments,
         NEW arg \in Args["index"], SetIndex(arg)
  PROVE  ArgsIInv'
<1> DEFINE d == "index"
           new == [loc EXCEPT !.index = @ \o WordsOf(arg)]
           u == With(taken, d, arg)
<1>1. d \in Setters /\ arg \in Seq(STRING)
  BY ArgIs DEF Setters
<1>2. loc \in LocType /\ taken \in TakenType /\ LocFits(loc, taken)
  BY DEF ArgsIInv
<1>3. PICK x \in Seq(Seq(STRING)) : x = loc.index \o WordsOf(arg)
  <2>1. loc.index \in Seq(Seq(STRING)) /\ WordsOf(arg) \in Seq(Seq(STRING))
    BY <1>1, <1>2, WordsOfIs DEF LocType
  <2>2. QED
    BY <2>1, ConcatProperties
<1>4. new \in LocType
  BY <1>2, <1>3 DEF LocType
<1>5. /\ new.root = loc.root /\ new.upload = loc.upload /\ new.index = x
      /\ new.redirection = loc.redirection /\ new.limit = loc.limit
  BY <1>2, <1>3 DEF LocType
<1>6. SetLoc(d, arg, TRUE, new)
  BY DEF SetIndex
<1>7. d \in Setters \ {"server_name", "error_page"}
  BY <1>1
<1>8. d # "redirection" /\ d # "client_max_body_size"
  OBVIOUS
<1> HIDE DEF new
<1>9. x = AllWords(u[d])
  <2>1. taken[d] \in Seq(Seq(STRING)) /\ u[d] = Append(taken[d], arg)
    BY <1>1, <1>2, WithIs DEF TakenType
  <2>2. loc.index = AllWords(taken[d])
    BY <1>2 DEF LocFits
  <2>3. AllWords(Append(taken[d], arg)) = AllWords(taken[d]) \o WordsOf(arg)
    BY <1>1, <2>1, WordsAppended
  <2>4. QED
    BY <1>3, <2>1, <2>2, <2>3
<1>10. PathsFit(new) /\ LimitFits(u["client_max_body_size"], new.limit)
       /\ TargetFits(u["redirection"], new.redirection)
  BY <1>1, <1>2, <1>4, <1>5, <1>8, OthersFit
<1>11. LocFits(new, u)
  BY <1>5, <1>9, <1>10 DEF LocFits
<1> HIDE DEF d
<1>12. QED
  BY <1>1, <1>4, <1>6, <1>7, <1>11, SetLocKeeps

LEMMA SetRedirectionOK ==
  ASSUME ArgsIInv, argStatus = "reading", argCount < MaxArguments,
         NEW arg \in Args["redirection"], SetRedirection(arg)
  PROVE  ArgsIInv'
<1> DEFINE d == "redirection"
           u == With(taken, d, arg)
<1>1. d \in Setters /\ arg \in Seq(STRING)
  BY ArgIs DEF Setters
<1>2. loc \in LocType /\ taken \in TakenType /\ LocFits(loc, taken)
  BY DEF ArgsIInv
<1>3. PICK code :
        SetLoc(d, arg, code \in Redirects,
               [loc EXCEPT !.redirection = [code |-> code, target |-> TargetAfter(arg)]])
  BY DEF SetRedirection
<1> DEFINE red == [code |-> code, target |-> TargetAfter(arg)]
           new == [loc EXCEPT !.redirection = red]
<1>4. PICK n \in Nat, b \in Nat :
        /\ b \in 0 .. n /\ n = Len(arg) /\ b = Find(arg, SP)
        /\ b # 0 => arg[b] = SP
        /\ Holds(arg, SP) <=> b # 0
  <2>1. PICK n \in Nat : n = Len(arg)
    BY <1>1, LenIsNat
  <2>2. QED
    BY <1>1, <2>1, FindIs DEF Holds
<1>5. TargetAfter(arg) = IF b # 0 THEN From(arg, b + 1) ELSE arg
  BY <1>4 DEF TargetAfter
<1>6. TargetAfter(arg) \in Seq(STRING)
  <2>1. b \in 0 .. Len(arg)
    BY <1>4
  <2>2. From(arg, b + 1) \in Seq(STRING)
    BY <1>1, <2>1, FromIs
  <2>3. QED
    BY <1>1, <1>5, <2>2
<1>7. ASSUME code \in Redirects PROVE new \in LocType /\ LocFits(new, u)
  <2>1. red \in [code : Redirects, target : Seq(STRING)]
    BY <1>6, <1>7
  <2>2. /\ new \in LocType
        /\ new.root = loc.root /\ new.upload = loc.upload /\ new.index = loc.index
        /\ new.redirection = red /\ new.limit = loc.limit
    <3> HIDE DEF red
    <3>1. QED
      BY <1>2, <2>1 DEF LocType
  <2> HIDE DEF new
  <2>3. TargetFits(u[d], red)
    <3>1. taken[d] \in Seq(Seq(STRING)) /\ u[d] = Append(taken[d], arg)
      BY <1>1, <1>2, WithIs DEF TakenType
    <3>2. PICK t \in Seq(Seq(STRING)) : t = u[d] /\ t[Len(t)] = arg
      <4>1. PICK t : t = u[d] /\ t = Append(taken[d], arg)
        BY <3>1
      <4>2. t \in Seq(Seq(STRING)) /\ t[Len(t)] = arg
        BY <1>1, <3>1, <4>1, LastTaken
      <4>3. QED
        BY <4>1, <4>2
    <3>3. IF Len(WordsOf(arg)) < 2 THEN red.target = arg
          ELSE arg = WordsOf(arg)[1] \o <<SP>> \o red.target
      <4>1. CASE b = 0
        <5>1. Len(WordsOf(arg)) < 2
          <6>1. CASE arg = <<>>
            <7>1. WordsOf(arg) = <<>>
              BY <1>1, <6>1, WordsOfIs
            <7>2. QED
              BY <7>1
          <6>2. CASE arg # <<>>
            <7>1. Len(WordsOf(arg)) = 1
              BY <1>1, <1>4, <4>1, <6>2, WordsOfIs
            <7>2. QED
              BY <7>1
          <6>3. QED
            BY <6>1, <6>2
        <5>2. QED
          BY <1>5, <4>1, <5>1
      <4>2. CASE b # 0
        <5>1. n # 0 /\ b \in 1 .. n
          BY <1>4, <4>2
        <5>2. arg # <<>>
          <6>1. Len(arg) # 0
            BY <1>4, <5>1
          <6>2. QED
            BY <1>1, <6>1, EmptySeq
        <5>3. Len(WordsOf(arg)) > 1 /\ WordsOf(arg)[1] = Upto(arg, b - 1)
          BY <1>1, <1>4, <4>2, <5>2, WordsOfIs
        <5>4. Len(WordsOf(arg)) \in Nat
          <6>1. WordsOf(arg) \in Seq(Seq(STRING))
            BY <1>1, WordsOfIs
          <6>2. QED
            BY <6>1, LenIsNat
        <5>5. ~(Len(WordsOf(arg)) < 2)
          BY <5>3, <5>4
        <5>6. arg = Upto(arg, b - 1) \o <<arg[b]>> \o From(arg, b + 1)
          BY <1>1, <1>4, <5>1, PartedAt
        <5>7. arg = WordsOf(arg)[1] \o <<SP>> \o red.target
          BY <1>4, <1>5, <4>2, <5>3, <5>6
        <5>8. QED
          BY <5>5, <5>7
      <4>3. QED
        BY <4>1, <4>2
    <3> HIDE DEF red
    <3>4. QED
      BY <3>2, <3>3 DEF TargetFits
  <2>4. d # "index" /\ d # "client_max_body_size"
    OBVIOUS
  <2>5. PathsFit(new) /\ LimitFits(u["client_max_body_size"], new.limit)
        /\ new.index = AllWords(u["index"])
    BY <1>1, <1>2, <2>2, <2>4, OthersFit
  <2>6. QED
    BY <2>2, <2>3, <2>5 DEF LocFits
<1> DEFINE ok == code \in Redirects
<1>8. ok \in BOOLEAN /\ d \in Setters \ {"server_name", "error_page"}
  BY <1>1
<1>9. SetLoc(d, arg, ok, new) /\ (ok => new \in LocType /\ LocFits(new, u))
  BY <1>3, <1>7
<1> HIDE DEF d, new, ok
<1>10. QED
  BY <1>1, <1>8, <1>9, SetLocKeeps

-----------------------------------------------------------------------------
(* The setters of a server                                                   *)

LEMMA SetListenOK ==
  ASSUME ArgsIInv, argStatus = "reading", argCount < MaxArguments,
         NEW arg \in Args["listen"], SetListen(arg)
  PROVE  ArgsIInv'
<1> DEFINE d == "listen"
           ok == /\ arg # <<>> /\ ~Holds(arg, SP)
                 /\ <<Node(arg), Service(arg)>> \in Resolved
           new == [srv EXCEPT !.addr = <<Node(arg), Service(arg)>>]
           u == With(taken, d, arg)
<1>1. d \in Setters /\ arg \in Seq(STRING)
  BY ArgIs DEF Setters
<1>2. srv \in SrvType /\ taken \in TakenType /\ SrvFits(srv, taken)
  BY DEF ArgsIInv
<1>3. u["server_name"] = taken["server_name"] /\ u["error_page"] = taken["error_page"]
  <2>1. {"server_name", "error_page"} \subseteq Setters \ {d}
    BY DEF Setters
  <2>2. QED
    BY <1>1, <1>2, <2>1, WithIs
<1>4. ASSUME ok PROVE new \in SrvType /\ SrvFits(new, u)
  <2>1. PICK a \in Resolved : a = <<Node(arg), Service(arg)>>
    BY <1>4
  <2>2. new \in SrvType /\ new.names = srv.names /\ new.pages = srv.pages
    BY <1>2, <2>1 DEF SrvType
  <2> HIDE DEF new, u
  <2>3. QED
    BY <1>2, <1>3, <2>2 DEF SrvFits
<1>5. SetSrv(d, arg, ok, new)
  BY DEF SetListen
<1>6. ok \in BOOLEAN /\ d \in {"server_name", "error_page", "listen"}
  OBVIOUS
<1> HIDE DEF new, d, ok
<1>7. QED
  BY <1>1, <1>4, <1>5, <1>6, SetSrvKeeps

LEMMA SetServerNameOK ==
  ASSUME ArgsIInv, argStatus = "reading", argCount < MaxArguments,
         NEW arg \in Args["server_name"], SetServerName(arg)
  PROVE  ArgsIInv'
<1> DEFINE d == "server_name"
           ok == arg # <<>> /\ \A i \in 1 .. Len(WordsOf(arg)) : NameOk(WordsOf(arg)[i])
           new == [srv EXCEPT !.names = @ \o WordsOf(arg)]
           u == With(taken, d, arg)
<1>1. d \in Setters /\ arg \in Seq(STRING)
  BY ArgIs DEF Setters
<1>2. srv \in SrvType /\ taken \in TakenType /\ SrvFits(srv, taken)
  BY DEF ArgsIInv
<1>3. u["error_page"] = taken["error_page"]
  <2>1. "error_page" \in Setters \ {d}
    BY DEF Setters
  <2>2. QED
    BY <1>1, <1>2, <2>1, WithIs
<1>4. ASSUME ok PROVE new \in SrvType /\ SrvFits(new, u)
  <2>1. PICK w \in Seq(Seq(STRING)) : w = WordsOf(arg)
    BY <1>1, WordsOfIs
  <2>2. w \in Seq(Seq(STRING) \ {<<>>})
    <3>1. PICK n \in Nat : n = Len(w)
      BY LenIsNat
    <3>2. \A i \in 1 .. n : w[i] \in Seq(STRING)
      BY <3>1, ElementOfSeq
    <3>3. \A i \in 1 .. n : w[i] # <<>>
      BY <1>4, <2>1, <3>1 DEF NameOk
    <3>4. w = [i \in 1 .. n |-> w[i]]
      BY <3>1, SeqDef
    <3>5. PICK v \in [1 .. n -> Seq(STRING) \ {<<>>}] : v = w
      BY <3>2, <3>3, <3>4
    <3>6. QED
      BY <3>5, FunctionIsSeq
  <2>3. PICK x \in Seq(Seq(STRING) \ {<<>>}) : x = srv.names \o WordsOf(arg)
    <3>1. srv.names \in Seq(Seq(STRING) \ {<<>>})
      BY <1>2 DEF SrvType
    <3>2. QED
      BY <2>1, <2>2, <3>1, ConcatProperties
  <2>4. new \in SrvType /\ new.names = x /\ new.pages = srv.pages
    BY <1>2, <2>3 DEF SrvType
  <2> HIDE DEF new
  <2>5. x = AllWords(u[d])
    <3>1. taken[d] \in Seq(Seq(STRING)) /\ u[d] = Append(taken[d], arg)
      BY <1>1, <1>2, WithIs DEF TakenType
    <3>2. srv.names = AllWords(taken[d])
      BY <1>2 DEF SrvFits
    <3>3. AllWords(Append(taken[d], arg)) = AllWords(taken[d]) \o WordsOf(arg)
      BY <1>1, <3>1, WordsAppended
    <3>4. QED
      BY <2>3, <3>1, <3>2, <3>3
  <2>6. QED
    BY <1>2, <1>3, <2>4, <2>5 DEF SrvFits
<1>5. SetSrv(d, arg, ok, new)
  BY DEF SetServerName
<1>6. ok \in BOOLEAN /\ d \in {"server_name", "error_page", "listen"}
  OBVIOUS
<1> HIDE DEF new, d, ok
<1>7. QED
  BY <1>1, <1>4, <1>5, <1>6, SetSrvKeeps

\* A page more: it counts for its status, the others for theirs.
LEMMA PageAppended ==
  ASSUME NEW t \in Seq(Seq(STRING)), NEW arg \in Seq(STRING), NEW pages, NEW p,
         PagesFit(t, pages), p = Last(WordsOf(arg))
  PROVE  PagesFit(Append(t, arg), PageSet(pages, StatusCode(arg), p))
<1>1. PICK n \in Nat : n = Len(t)
  BY LenIsNat
<1>2. PICK a \in Seq(Seq(STRING)) :
        a = Append(t, arg) /\ Len(a) = n + 1 /\ a[n + 1] = arg /\ \A i \in 1 .. n : a[i] = t[i]
  <2>1. PICK a : a = Append(t, arg)
    OBVIOUS
  <2>2. a \in Seq(Seq(STRING)) /\ Len(a) = Len(t) + 1 /\ a[Len(a)] = arg
        /\ \A i \in 1 .. Len(t) : a[i] = t[i]
    BY <2>1, LastTaken
  <2>3. QED
    BY <1>1, <2>1, <2>2
<1> DEFINE code(i) == StatusCode(a[i])
           c == StatusCode(arg)
           new == PageSet(pages, c, p)
<1>3. /\ DOMAIN pages = DefaultPages \cup {code(i) : i \in 1 .. n}
      /\ \A i \in 1 .. n : (\A j \in i + 1 .. n : code(j) # code(i)) =>
           pages[code(i)] = Last(WordsOf(a[i]))
  <2>1. \A i \in 1 .. n : code(i) = StatusCode(t[i]) /\ WordsOf(a[i]) = WordsOf(t[i])
    BY <1>2
  <2>2. DOMAIN pages = DefaultPages \cup {StatusCode(t[i]) : i \in 1 .. n}
    BY <1>1 DEF PagesFit
  <2>3. \A i \in 1 .. n : (\A j \in i + 1 .. n : StatusCode(t[j]) # StatusCode(t[i])) =>
          pages[StatusCode(t[i])] = Last(WordsOf(t[i]))
    BY <1>1 DEF PagesFit
  <2>4. \A i \in 1 .. n : \A j \in i + 1 .. n : j \in 1 .. n
    OBVIOUS
  <2> HIDE DEF code
  <2>5. {code(i) : i \in 1 .. n} = {StatusCode(t[i]) : i \in 1 .. n}
    BY <2>1
  <2>6. QED
    BY <2>1, <2>2, <2>3, <2>4, <2>5
<1>4. code(n + 1) = c /\ n + 1 \in 1 .. n + 1
  BY <1>2
<1>5. DOMAIN new = {c} \cup DOMAIN pages
      /\ \A m \in DOMAIN new : new[m] = IF m = c THEN p ELSE pages[m]
  BY DEF PageSet
<1> HIDE DEF new, c, code
<1>6. DOMAIN new = DefaultPages \cup {code(i) : i \in 1 .. n + 1}
  <2>1. {code(i) : i \in 1 .. n + 1} = {code(i) : i \in 1 .. n} \cup {c}
    <3>1. \A i \in 1 .. n + 1 : i \in 1 .. n \/ i = n + 1
      OBVIOUS
    <3>2. \A i \in 1 .. n : i \in 1 .. n + 1
      OBVIOUS
    <3>3. QED
      BY <1>4, <3>1, <3>2
  <2>2. QED
    BY <1>3, <1>5, <2>1
<1>7. ASSUME NEW i \in 1 .. n + 1, \A j \in i + 1 .. n + 1 : code(j) # code(i)
      PROVE  new[code(i)] = Last(WordsOf(a[i]))
  <2>1. code(i) \in DOMAIN new
    BY <1>6
  <2>2. CASE i = n + 1
    BY <1>2, <1>4, <1>5, <2>1, <2>2
  <2>3. CASE i # n + 1
    <3>1. i \in 1 .. n /\ n + 1 \in i + 1 .. n + 1
      BY <2>3
    <3>2. code(i) # c
      BY <1>4, <1>7, <3>1
    <3>3. \A j \in i + 1 .. n : code(j) # code(i)
      <4>1. \A j \in i + 1 .. n : j \in i + 1 .. n + 1
        OBVIOUS
      <4>2. QED
        BY <1>7, <4>1
    <3>4. pages[code(i)] = Last(WordsOf(a[i]))
      BY <1>3, <3>1, <3>3
    <3>5. QED
      BY <1>5, <2>1, <3>2, <3>4
  <2>4. QED
    BY <2>2, <2>3
<1>8. PagesFit(a, new)
  BY <1>2, <1>6, <1>7 DEF PagesFit, code
<1>9. QED
  BY <1>2, <1>8 DEF new, c

LEMMA PagesAre ==
  ASSUME NEW D, D \in SUBSET (400 .. 555), NEW q, q \in [D -> Seq(STRING) \cup {<<"default">>}]
  PROVE  q \in PagesType
<1>1. [D -> Seq(STRING) \cup {<<"default">>}] \in
        {[E -> Seq(STRING) \cup {<<"default">>}] : E \in SUBSET (400 .. 555)}
  OBVIOUS
<1>2. QED
  BY <1>1 DEF PagesType

LEMMA SetErrorPageOK ==
  ASSUME ArgsIInv, argStatus = "reading", argCount < MaxArguments,
         NEW arg \in Args["error_page"], SetErrorPage(arg)
  PROVE  ArgsIInv'
<1> DEFINE d == "error_page"
           ok == PageOk(arg)
           new == [srv EXCEPT !.pages = PageSet(@, Atoi(arg), WordsOf(arg)[2])]
           u == With(taken, d, arg)
<1>1. d \in Setters /\ arg \in Seq(STRING) /\ Parted(arg)
  BY ArgIs DEF Setters
<1>2. srv \in SrvType /\ taken \in TakenType /\ SrvFits(srv, taken)
  BY DEF ArgsIInv
<1>3. u["server_name"] = taken["server_name"]
  <2>1. "server_name" \in Setters \ {d}
    BY DEF Setters
  <2>2. QED
    BY <1>1, <1>2, <2>1, WithIs
<1>4. ASSUME ok PROVE new \in SrvType /\ SrvFits(new, u)
  <2>1. PICK w \in Seq(Seq(STRING)), p \in Seq(STRING) :
          w = WordsOf(arg) /\ p = w[2] /\ p = Last(w)
    <3>1. PICK w \in Seq(Seq(STRING)) : w = WordsOf(arg)
      BY <1>1, WordsOfIs
    <3>2. Len(w) = 2
      BY <1>1, <1>4, <3>1, HowManyAre DEF PageOk
    <3>3. w[2] \in Seq(STRING)
      <4>1. 2 \in 1 .. Len(w)
        BY <3>2
      <4>2. QED
        BY <4>1, ElementOfSeq
    <3>4. QED
      BY <3>1, <3>2, <3>3 DEF Last
  <2>2. PICK c \in 400 .. 555 : c = Atoi(arg) /\ c = StatusCode(arg)
    <3>1. PICK a \in -(IntMax + 1) .. IntMax : a = Atoi(arg) /\ (a >= 0 => a = StatusCode(arg))
      BY <1>1, AtoiIs DEF StatusCode
    <3>2. a \in 400 .. 555
      BY <1>4, <3>1 DEF PageOk
    <3>3. a >= 0
      BY <3>2
    <3>4. QED
      BY <3>1, <3>2, <3>3
  <2>3. PICK q : q = PageSet(srv.pages, c, p)
    OBVIOUS
  <2>4. q \in PagesType
    <3>1. srv.pages \in PagesType
      BY <1>2 DEF SrvType
    <3>2. PICK D \in SUBSET (400 .. 555) : srv.pages \in [D -> Seq(STRING) \cup {<<"default">>}]
      BY <3>1 DEF PagesType
    <3>3. PICK E : E \in SUBSET (400 .. 555) /\ E = {c} \cup D
      <4>1. {c} \cup D \subseteq 400 .. 555
        OBVIOUS
      <4> DEFINE E == {c} \cup D
      <4>2. E \in SUBSET (400 .. 555)
        BY <4>1
      <4> HIDE DEF E
      <4>3. \E X : X \in SUBSET (400 .. 555) /\ X = E
        BY <4>2
      <4>4. QED
        BY <4>3 DEF E
    <3>4. q \in [E -> Seq(STRING) \cup {<<"default">>}]
      BY <2>3, <3>2, <3>3 DEF PageSet
    <3>5. E \in SUBSET (400 .. 555)
      BY <3>3
    <3>6. QED
      BY <3>4, <3>5, PagesAre, Zenon
  <2>5. new = [srv EXCEPT !.pages = q]
    BY <2>1, <2>2, <2>3
  <2> HIDE DEF new
  <2>6. new \in SrvType /\ new.names = srv.names /\ new.pages = q
    BY <1>2, <2>4, <2>5 DEF SrvType
  <2>7. PagesFit(u[d], q)
    <3>1. taken[d] \in Seq(Seq(STRING)) /\ u[d] = Append(taken[d], arg)
      BY <1>1, <1>2, WithIs DEF TakenType
    <3>2. PagesFit(taken[d], srv.pages)
      BY <1>2 DEF SrvFits
    <3>3. p = Last(WordsOf(arg))
      BY <2>1
    <3>4. PagesFit(Append(taken[d], arg), PageSet(srv.pages, StatusCode(arg), p))
      BY <1>1, <3>1, <3>2, <3>3, PageAppended
    <3>5. QED
      BY <2>2, <2>3, <3>1, <3>4
  <2>8. QED
    BY <1>2, <1>3, <2>6, <2>7 DEF SrvFits
<1>5. SetSrv(d, arg, ok, new)
  BY DEF SetErrorPage
<1>6. ok \in BOOLEAN /\ d \in {"server_name", "error_page", "listen"}
  BY DEF PageOk
<1> HIDE DEF new, d, ok
<1>7. QED
  BY <1>1, <1>4, <1>5, <1>6, SetSrvKeeps

-----------------------------------------------------------------------------
(* The theorems                                                              *)

LEMMA ArgsNextInv == ArgsIInv /\ [ArgsNext]_argVars => ArgsIInv'
<1> SUFFICES ASSUME ArgsIInv, [ArgsNext]_argVars PROVE ArgsIInv'
  OBVIOUS
<1>1. CASE ArgsNext
  <2>1. argStatus = "reading" /\ argCount < MaxArguments
    BY <1>1 DEF ArgsNext
  <2>2. ASSUME NEW arg \in Args["client_max_body_size"], SetClientMaxBodySize(arg) PROVE ArgsIInv'
    BY <2>1, <2>2, SetClientMaxBodySizeOK
  <2>3. ASSUME NEW arg \in Args["root"], SetRoot(arg) PROVE ArgsIInv'
    BY <2>1, <2>3, SetRootOK
  <2>4. ASSUME NEW arg \in Args["upload_directory"], SetUploadDirectory(arg) PROVE ArgsIInv'
    BY <2>1, <2>4, SetUploadDirectoryOK
  <2>5. ASSUME NEW arg \in Args["index"], SetIndex(arg) PROVE ArgsIInv'
    BY <2>1, <2>5, SetIndexOK
  <2>6. ASSUME NEW arg \in Args["cgi_pass"], SetCGIpass(arg) PROVE ArgsIInv'
    BY <2>1, <2>6, SetCGIpassOK
  <2>7. ASSUME NEW arg \in Args["redirection"], SetRedirection(arg) PROVE ArgsIInv'
    BY <2>1, <2>7, SetRedirectionOK
  <2>8. ASSUME NEW arg \in Args["error_page"], SetErrorPage(arg) PROVE ArgsIInv'
    BY <2>1, <2>8, SetErrorPageOK
  <2>9. ASSUME NEW arg \in Args["listen"], SetListen(arg) PROVE ArgsIInv'
    BY <2>1, <2>9, SetListenOK
  <2>10. ASSUME NEW arg \in Args["server_name"], SetServerName(arg) PROVE ArgsIInv'
    BY <2>1, <2>10, SetServerNameOK
  <2>11. QED
    BY <1>1, <2>2, <2>3, <2>4, <2>5, <2>6, <2>7, <2>8, <2>9, <2>10 DEF ArgsNext
<1>2. CASE UNCHANGED argVars
  <2>1. UNCHANGED <<loc, srv, taken, argCount, argStatus>>
    BY <1>2 DEF argVars
  <2>2. LocFits(loc', taken') /\ SrvFits(srv', taken')
    BY <2>1 DEF ArgsIInv
  <2>3. QED
    BY <2>1, <2>2 DEF ArgsIInv
<1>3. QED
  BY <1>1, <1>2

LEMMA ArgsInvAlways == ArgsSpec => []ArgsIInv
<1>1. ArgsInit => ArgsIInv
  BY ArgsInitInv
<1>2. ArgsIInv /\ [ArgsNext]_argVars => ArgsIInv'
  BY ArgsNextInv
<1>3. QED
  BY <1>1, <1>2, PTL DEF ArgsSpec

\* Router.cpp:534-691, Location.cpp:109-230, Server.cpp:290-323: a limit fits
\* into a size_t and is never negative, a redirection that is taken has one of
\* five codes, an error page a status from 400 to 555, a server no empty name,
\* and its address one that resolves.
THEOREM ArgumentsTypeCorrect == ArgsSpec => []ArgsTypeOK
<1>1. ArgsIInv => ArgsTypeOK
  <2> SUFFICES ASSUME ArgsIInv PROVE ArgsTypeOK
    OBVIOUS
  <2>1. loc.limit \in 0 .. SizeMax /\ (loc.redirection = Unset \/ loc.redirection.code \in Redirects)
    BY DEF ArgsIInv, LocType
  <2>2. srv.addr \in Resolved \cup {Unset}
    BY DEF ArgsIInv, SrvType
  <2>3. DOMAIN srv.pages \subseteq 400 .. 555
    <3>1. srv.pages \in PagesType
      BY DEF ArgsIInv, SrvType
    <3>2. PICK D \in SUBSET (400 .. 555) : srv.pages \in [D -> Seq(STRING) \cup {<<"default">>}]
      BY <3>1 DEF PagesType
    <3>3. QED
      BY <3>2
  <2>4. \A i \in 1 .. Len(srv.names) : srv.names[i] # <<>>
    <3>1. srv.names \in Seq(Seq(STRING) \ {<<>>})
      BY DEF ArgsIInv, SrvType
    <3>2. QED
      BY <3>1, ElementOfSeq
  <2>5. DOMAIN taken = Setters
    BY DEF ArgsIInv, TakenType
  <2>6. argCount \in 0 .. MaxArguments /\ argStatus \in {"reading", "rejected"}
    BY DEF ArgsIInv
  <2>7. QED
    BY <2>1, <2>2, <2>3, <2>4, <2>5, <2>6 DEF ArgsTypeOK
<1>2. QED
  BY <1>1, ArgsInvAlways, PTL

\* Location.cpp:109-230, Router.cpp:534-691: whatever arguments are given, in
\* whatever order and as often, a limit is the number that was written in its
\* unit if an int holds it, a root ends with no `/' that would be doubled and an
\* upload directory is there, index names, server names and error pages add up,
\* and a redirection leads to what was written after its code.
THEOREM ArgumentsAlwaysAsWritten == ArgsSpec => []ArgumentsAsWritten
<1>1. ArgsIInv => ArgumentsAsWritten
  <2> SUFFICES ASSUME ArgsIInv PROVE ArgumentsAsWritten
    OBVIOUS
  <2>1. LocFits(loc, taken) /\ SrvFits(srv, taken)
    BY DEF ArgsIInv
  <2>2. LimitAsWritten
    BY <2>1 DEF LocFits, LimitFits, LimitAsWritten, LastOf
  <2>3. PathsJoin
    BY <2>1 DEF LocFits, PathsFit, PathsJoin
  <2>4. AllAddUp
    BY <2>1 DEF LocFits, SrvFits, PagesFit, StatusCode, AllWords, AllAddUp
  <2>5. RedirectionTarget
    BY <2>1 DEF LocFits, TargetFits, RedirectionTarget, LastOf
  <2>6. QED
    BY <2>2, <2>3, <2>4, <2>5 DEF ArgumentsAsWritten
<1>2. QED
  BY <1>1, ArgsInvAlways, PTL

-----------------------------------------------------------------------------
(* The text of a file: what it says                                          *)

PlainStates == [out : Seq(Chars), comment : BOOLEAN]

\* g is what Plains() has of s after each character.
PlainsUpto(g, s, n) ==
  /\ n \in Nat /\ n = Len(s) /\ s \in Seq(Chars)
  /\ g \in [0 .. n -> PlainStates]
  /\ g[0] = [out |-> <<>>, comment |-> FALSE]
  /\ \A i \in 1 .. n : g[i] = PlainStep(g[i - 1], s[i])

LEMMA BlankIsChar == SP \in Chars /\ IsBlank(SP) /\ IsBlank(LF) /\ ~IsBlank(Comment) /\ SP # LF
BY DEF Chars, Blank, IsBlank, SP, LF, CR, Comment

LEMMA BlankAfterIs ==
  ASSUME NEW o \in Seq(Chars)
  PROVE  /\ BlankAfter(o) \in Seq(Chars)
         /\ BlankAfter(BlankAfter(o)) = BlankAfter(o)
<1>1. PICK a \in Seq(Chars) : a = Append(o, SP) /\ a # <<>> /\ a[Len(a)] = SP
  <2>1. PICK n \in Nat : n = Len(o)
    BY LenIsNat
  <2>2. Append(o, SP) \in Seq(Chars) /\ Len(Append(o, SP)) = n + 1 /\ Append(o, SP)[n + 1] = SP
    BY <2>1, BlankIsChar, AppendProperties
  <2>3. Append(o, SP) # <<>>
    BY <2>1, <2>2, EmptySeq
  <2>4. QED
    BY <2>2, <2>3
<1>2. CASE o = <<>> \/ o[Len(o)] = SP
  <2>1. BlankAfter(o) = o
    BY <1>2 DEF BlankAfter
  <2>2. QED
    BY <2>1
<1>3. CASE ~(o = <<>> \/ o[Len(o)] = SP)
  <2>1. BlankAfter(o) = a
    BY <1>1, <1>3 DEF BlankAfter
  <2>2. BlankAfter(a) = a
    BY <1>1 DEF BlankAfter
  <2>3. QED
    BY <2>1, <2>2
<1>4. QED
  BY <1>2, <1>3

\* A step leaves a state.
LEMMA PlainStepIs ==
  ASSUME NEW acc \in PlainStates, NEW c \in Chars
  PROVE  /\ PlainStep(acc, c) \in PlainStates
         /\ c = LF => PlainStep(acc, c) = [out |-> BlankAfter(acc.out), comment |-> FALSE]
         /\ c # LF /\ (acc.comment \/ c = Comment) =>
              PlainStep(acc, c) = [out |-> acc.out, comment |-> TRUE]
         /\ c # LF /\ ~acc.comment /\ c # Comment =>
              PlainStep(acc, c) = [out |-> IF IsBlank(c) THEN BlankAfter(acc.out) ELSE Append(acc.out, c),
                                   comment |-> FALSE]
<1>1. PICK x \in Seq(Chars), b \in BOOLEAN : acc = [out |-> x, comment |-> b]
  BY DEF PlainStates
<1>2. acc.out = x /\ acc.comment = b
  BY <1>1
<1>3. BlankAfter(x) \in Seq(Chars) /\ Append(x, c) \in Seq(Chars)
  BY BlankAfterIs, AppendProperties
<1>4. \A y \in Seq(Chars), d \in BOOLEAN : [out |-> y, comment |-> d] \in PlainStates
  BY DEF PlainStates
<1>5. CASE c = LF
  BY <1>2, <1>3, <1>4, <1>5 DEF PlainStep
<1>6. CASE c # LF /\ (acc.comment \/ c = Comment)
  BY <1>2, <1>4, <1>6 DEF PlainStep
<1>7. CASE c # LF /\ ~acc.comment /\ c # Comment
  BY <1>2, <1>3, <1>4, <1>7 DEF PlainStep
<1>8. QED
  BY <1>5, <1>6, <1>7

LEMMA PlainsAre ==
  ASSUME NEW s \in Seq(Chars)
  PROVE  PlainsUpto(Plains(s), s, Len(s))
<1> DEFINE S == PlainStates
           z == [out |-> <<>>, comment |-> FALSE]
<1>1. PICK n \in Nat : n = Len(s)
  BY LenIsNat
<1> DEFINE step == [i \in 1 .. n |-> [x \in S |-> PlainStep(x, s[i])]]
           F(h) == [i \in 0 .. n |-> IF i = 0 THEN z ELSE PlainStep(h[i - 1], s[i])]
           g == CHOOSE h : h = F(h)
<1>2. step \in [1 .. n -> [S -> S]]
  <2>1. \A i \in 1 .. n, x \in S : PlainStep(x, s[i]) \in S
    <3> SUFFICES ASSUME NEW i \in 1 .. n, NEW x \in S PROVE PlainStep(x, s[i]) \in S
      OBVIOUS
    <3>1. s[i] \in Chars
      BY <1>1, ElementOfSeq
    <3>2. QED
      BY <3>1, PlainStepIs
  <2> HIDE DEF S
  <2>2. QED
    BY <2>1
<1>3. z \in S
  BY DEF PlainStates
<1>4. PICK f \in [0 .. n -> S] : Steps(f, n, z, step)
  <2> HIDE DEF step, S, z
  <2>1. QED
    BY <1>2, <1>3, RecursionExists
<1>5. \A i \in 1 .. n : f[i] = PlainStep(f[i - 1], s[i])
  <2>1. \A i \in 1 .. n : f[i - 1] \in S
    <3> HIDE DEF S
    <3>1. QED
      OBVIOUS
  <2>2. \A i \in 1 .. n : f[i] = step[i][f[i - 1]]
    BY <1>4 DEF Steps
  <2> HIDE DEF S
  <2>3. QED
    BY <2>1, <2>2
<1>6. f[0] = z
  BY <1>4 DEF Steps
<1>7. f = F(f)
  <2> HIDE DEF S, z
  <2>1. QED
    BY <1>5, <1>6
<1>8. g = F(g)
  <2> HIDE DEF F, S
  <2>1. QED
    BY <1>7
<1>9. Plains(s) = g
  BY <1>1 DEF Plains
<1> HIDE DEF g
<1>10. g \in [0 .. n -> S] /\ g[0] = z /\ \A i \in 1 .. n : g[i] = PlainStep(g[i - 1], s[i])
  <2>1. g[0] = z /\ \A i \in 1 .. n : g[i] = PlainStep(g[i - 1], s[i])
    <3> HIDE DEF z
    <3>1. QED
      BY <1>8
  <2>2. \A i \in 0 .. n : g[i] \in S
    <3> DEFINE P == {i \in 0 .. n : g[i] \in S}
    <3>1. 0 \in P
      <4>1. 0 \in 0 .. n /\ g[0] = z
        BY <2>1
      <4> HIDE DEF S, z
      <4>2. QED
        BY <1>3, <4>1
    <3>2. ASSUME NEW i \in 1 .. n, i - 1 \in P PROVE i \in P
      <4>1. g[i] = step[i][g[i - 1]]
        BY <2>1, <3>2
      <4>2. g[i - 1] \in S /\ step[i] \in [S -> S]
        <5> HIDE DEF S, step
        <5>1. QED
          BY <1>2, <3>2
      <4> HIDE DEF S, step
      <4>3. QED
        BY <4>1, <4>2
    <3>3. \A i \in 0 .. n : i \in P
      <4> HIDE DEF P
      <4>1. QED
        BY <3>1, <3>2, Along
    <3>4. QED
      BY <3>3
  <2>3. g = [i \in 0 .. n |-> g[i]]
    <3> HIDE DEF z
    <3>1. QED
      BY <1>8
  <2> HIDE DEF S, z
  <2>4. QED
    BY <2>1, <2>2, <2>3
<1>11. PlainsUpto(g, s, n)
  BY <1>1, <1>10 DEF PlainsUpto
<1>12. QED
  BY <1>1, <1>9, <1>11

\* h is what Solid() has of s after each character.
SolidsUpto(h, s, n) ==
  /\ n \in Nat /\ n = Len(s) /\ s \in Seq(Chars)
  /\ h \in [0 .. n -> Seq(Chars)]
  /\ h[0] = <<>>
  /\ \A i \in 1 .. n : h[i] = IF IsBlank(s[i]) THEN h[i - 1] ELSE Append(h[i - 1], s[i])

LEMMA SolidsAre ==
  ASSUME NEW s \in Seq(Chars)
  PROVE  \E h : SolidsUpto(h, s, Len(s)) /\ Solid(s) = h[Len(s)]
<1> DEFINE S == Seq(Chars)
           N(x, c) == IF IsBlank(c) THEN x ELSE Append(x, c)
<1>1. PICK n \in Nat : n = Len(s)
  BY LenIsNat
<1> DEFINE step == [i \in 1 .. n |-> [x \in S |-> N(x, s[i])]]
           F(h) == [i \in 0 .. n |-> IF i = 0 THEN <<>> ELSE N(h[i - 1], s[i])]
           g == CHOOSE h : h = F(h)
<1>2. step \in [1 .. n -> [S -> S]]
  <2>1. \A i \in 1 .. n, x \in S : N(x, s[i]) \in S
    <3> SUFFICES ASSUME NEW i \in 1 .. n, NEW x \in S PROVE N(x, s[i]) \in S
      OBVIOUS
    <3>1. s[i] \in Chars
      BY <1>1, ElementOfSeq
    <3>2. Append(x, s[i]) \in S
      BY <3>1, AppendProperties
    <3>3. QED
      BY <3>2
  <2> HIDE DEF S, N
  <2>2. QED
    BY <2>1
<1>3. <<>> \in S
  OBVIOUS
<1>4. PICK f \in [0 .. n -> S] : Steps(f, n, <<>>, step)
  <2> HIDE DEF step, S
  <2>1. QED
    BY <1>2, <1>3, RecursionExists
<1>5. \A i \in 1 .. n : f[i] = N(f[i - 1], s[i])
  <2>1. \A i \in 1 .. n : f[i - 1] \in S
    <3> HIDE DEF S
    <3>1. QED
      OBVIOUS
  <2>2. \A i \in 1 .. n : f[i] = step[i][f[i - 1]]
    BY <1>4 DEF Steps
  <2> HIDE DEF S, N
  <2>3. QED
    BY <2>1, <2>2
<1>6. f[0] = <<>>
  BY <1>4 DEF Steps
<1>7. f = F(f)
  <2> HIDE DEF S, N
  <2>1. QED
    BY <1>5, <1>6
<1>8. g = F(g)
  <2> HIDE DEF F, S
  <2>1. QED
    BY <1>7
<1>9. Solid(s) = g[n]
  BY <1>1 DEF Solid
<1> HIDE DEF g
<1>10. g \in [0 .. n -> S] /\ g[0] = <<>> /\ \A i \in 1 .. n : g[i] = N(g[i - 1], s[i])
  <2>1. g[0] = <<>> /\ \A i \in 1 .. n : g[i] = N(g[i - 1], s[i])
    <3> HIDE DEF N
    <3>1. QED
      BY <1>8
  <2>2. \A i \in 0 .. n : g[i] \in S
    <3> DEFINE P == {i \in 0 .. n : g[i] \in S}
    <3>1. 0 \in P
      <4>1. 0 \in 0 .. n /\ g[0] = <<>>
        BY <2>1
      <4> HIDE DEF S
      <4>2. QED
        BY <1>3, <4>1
    <3>2. ASSUME NEW i \in 1 .. n, i - 1 \in P PROVE i \in P
      <4>1. g[i] = step[i][g[i - 1]]
        <5> HIDE DEF N
        <5>1. QED
          BY <2>1, <3>2
      <4>2. g[i - 1] \in S /\ step[i] \in [S -> S]
        <5> HIDE DEF S, step
        <5>1. QED
          BY <1>2, <3>2
      <4> HIDE DEF S, step
      <4>3. QED
        BY <4>1, <4>2
    <3>3. \A i \in 0 .. n : i \in P
      <4> HIDE DEF P
      <4>1. QED
        BY <3>1, <3>2, Along
    <3>4. QED
      BY <3>3
  <2>3. g = [i \in 0 .. n |-> g[i]]
    <3> HIDE DEF N
    <3>1. QED
      BY <1>8
  <2> HIDE DEF S, N
  <2>4. QED
    BY <2>1, <2>2, <2>3
<1>11. SolidsUpto(g, s, n)
  BY <1>1, <1>10 DEF SolidsUpto
<1>12. QED
  BY <1>1, <1>9, <1>11

-----------------------------------------------------------------------------
(* A line                                                                    *)

LEMMA CharAppended ==
  ASSUME NEW x \in Seq(Chars), NEW y \in Seq(Chars), NEW c \in Chars
  PROVE  Append(x \o y, c) = x \o Append(y, c)
BY SMTT(60)

\* Where no word is begun.
Parting(o) == o = <<>> \/ o[Len(o)] = SP

LEMMA BlankAfterParts ==
  ASSUME NEW o \in Seq(Chars)
  PROVE  /\ Parting(BlankAfter(o)) \/ o = <<>>
         /\ Parting(o) => BlankAfter(o) = o
         /\ ~Parting(o) => BlankAfter(o) = Append(o, SP)
<1>1. CASE Parting(o)
  BY <1>1 DEF Parting, BlankAfter
<1>2. CASE ~Parting(o)
  <2>1. BlankAfter(o) = Append(o, SP)
    BY <1>2 DEF Parting, BlankAfter
  <2>2. PICK n \in Nat : n = Len(o)
    BY LenIsNat
  <2>3. PICK a : a = Append(o, SP)
    OBVIOUS
  <2>4. Len(a) = n + 1 /\ a[n + 1] = SP
    BY <2>2, <2>3, BlankIsChar, AppendProperties
  <2>5. QED
    BY <1>2, <2>1, <2>3, <2>4 DEF Parting
<1>3. QED
  BY <1>1, <1>2

\* Blanks of a line come to one.
BlankRun(s, k, m, e) == e = k + m /\ \A i \in 1 .. m : IsBlank(s[k + i]) /\ s[k + i] # LF

LEMMA BlanksPlain ==
  ASSUME NEW g, NEW s, NEW n, PlainsUpto(g, s, n), NEW k \in 0 .. n, NEW m \in Nat,
         NEW e \in 0 .. n, BlankRun(s, k, m, e), ~g[k].comment
  PROVE  /\ ~g[e].comment
         /\ g[e].out = IF m = 0 THEN g[k].out ELSE BlankAfter(g[k].out)
<1> DEFINE P == {i \in 0 .. m : /\ ~g[k + i].comment
                                /\ g[k + i].out = IF i = 0 THEN g[k].out ELSE BlankAfter(g[k].out)}
<1>1. 0 \in P
  OBVIOUS
<1>2. ASSUME NEW i \in 1 .. m, i - 1 \in P PROVE i \in P
  <2>1. PICK j \in 0 .. n, l \in 1 .. n : j = k + (i - 1) /\ l = k + i /\ l - 1 = j
    BY DEF PlainsUpto, BlankRun
  <2>2. g[j] \in PlainStates /\ g[k] \in PlainStates /\ s[l] \in Chars
    BY <2>1, ElementOfSeq DEF PlainsUpto
  <2>3. g[l] = PlainStep(g[j], s[l])
    BY <2>1 DEF PlainsUpto
  <2>4. ~g[j].comment /\ g[j].out = IF i - 1 = 0 THEN g[k].out ELSE BlankAfter(g[k].out)
    BY <1>2, <2>1
  <2>5. IsBlank(s[l]) /\ s[l] # LF /\ s[l] # Comment
    BY <2>1, BlankIsChar DEF BlankRun
  <2>6. g[l] = [out |-> BlankAfter(g[j].out), comment |-> FALSE]
    BY <2>2, <2>3, <2>4, <2>5, PlainStepIs
  <2>7. g[k].out \in Seq(Chars)
    BY <2>2 DEF PlainStates
  <2>8. BlankAfter(BlankAfter(g[k].out)) = BlankAfter(g[k].out)
    BY <2>7, BlankAfterIs
  <2>9. g[l].out = BlankAfter(g[k].out) /\ ~g[l].comment
    BY <2>4, <2>6, <2>8
  <2>10. QED
    BY <2>1, <2>9
<1>3. \A i \in 0 .. m : i \in P
  <2> HIDE DEF P
  <2>1. QED
    BY <1>1, <1>2, Along
<1>4. m \in P
  BY <1>3
<1>5. QED
  BY <1>4 DEF BlankRun

\* A comment leaves nothing.
CommentRun(s, k, m, e) ==
  e = k + m /\ (m # 0 => s[k + 1] = Comment) /\ \A i \in 1 .. m : s[k + i] # LF

LEMMA CommentPlain ==
  ASSUME NEW g, NEW s, NEW n, PlainsUpto(g, s, n), NEW k \in 0 .. n, NEW m \in Nat,
         NEW e \in 0 .. n, CommentRun(s, k, m, e)
  PROVE  g[e].out = g[k].out
<1> DEFINE P == {i \in 0 .. m : g[k + i].out = g[k].out /\ (i # 0 => g[k + i].comment)}
<1>1. 0 \in P
  OBVIOUS
<1>2. ASSUME NEW i \in 1 .. m, i - 1 \in P PROVE i \in P
  <2>1. PICK j \in 0 .. n, l \in 1 .. n : j = k + (i - 1) /\ l = k + i /\ l - 1 = j
    BY DEF PlainsUpto, CommentRun
  <2>2. g[j] \in PlainStates /\ s[l] \in Chars
    BY <2>1, ElementOfSeq DEF PlainsUpto
  <2>3. g[l] = PlainStep(g[j], s[l])
    BY <2>1 DEF PlainsUpto
  <2>4. g[j].out = g[k].out /\ (i - 1 # 0 => g[j].comment)
    BY <1>2, <2>1
  <2>5. s[l] # LF /\ (i = 1 => s[l] = Comment)
    BY <2>1 DEF CommentRun
  <2>6. g[j].comment \/ s[l] = Comment
    BY <2>4, <2>5
  <2>7. g[l] = [out |-> g[j].out, comment |-> TRUE]
    BY <2>2, <2>3, <2>5, <2>6, PlainStepIs
  <2>8. g[l].out = g[k].out /\ g[l].comment
    BY <2>4, <2>7
  <2>9. QED
    BY <2>1, <2>8
<1>3. \A i \in 0 .. m : i \in P
  <2> HIDE DEF P
  <2>1. QED
    BY <1>1, <1>2, Along
<1>4. m \in P
  BY <1>3
<1>5. QED
  BY <1>4 DEF CommentRun

\* The words of a line stay, and what AddChar() makes of its blanks.
WordTaken(g, h, o, j, i) ==
  /\ ~g[j].comment
  /\ g[j].out = o \o h[i]
  /\ h[i] # <<>> => (IsBlank(h[i][Len(h[i])]) <=> h[i][Len(h[i])] = SP)

WordRun(s, k, m, e, v) ==
  /\ e = k + m
  /\ \A i \in 1 .. m : /\ s[k + i] # LF /\ s[k + i] # Comment
                       /\ v[i] = IF IsBlank(s[k + i]) THEN SP ELSE s[k + i]

LEMMA WordsPlain ==
  ASSUME NEW g, NEW s, NEW n, PlainsUpto(g, s, n), NEW k \in 0 .. n, NEW m \in Nat,
         NEW e \in 0 .. n, ~g[k].comment, Parting(g[k].out),
         NEW h, NEW v, Adds(h, v, m), WordRun(s, k, m, e, v)
  PROVE  WordTaken(g, h, g[k].out, e, m)
<1> DEFINE o == g[k].out
           P == {i \in 0 .. m : WordTaken(g, h, o, k + i, i)}
<1>1. o \in Seq(Chars)
  BY DEF PlainsUpto, PlainStates
<1> HIDE DEF o
<1>2. 0 \in P
  <2>1. h[0] = <<>> /\ 0 \in 0 .. m /\ k + 0 = k
    BY DEF Adds, PlainsUpto
  <2>2. o \o <<>> = o
    BY <1>1, ConcatEmptySeq
  <2>3. QED
    BY <2>1, <2>2 DEF o, WordTaken
<1>3. ASSUME NEW i \in 1 .. m, i - 1 \in P PROVE i \in P
  <2>1. WordTaken(g, h, o, k + (i - 1), i - 1)
    BY <1>3
  <2> HIDE DEF P
  <2>2. PICK j \in 0 .. n, l \in 1 .. n : j = k + (i - 1) /\ l = k + i /\ l - 1 = j
    <3>1. n \in Nat /\ e = k + m
      BY DEF PlainsUpto, WordRun
    <3>2. k + (i - 1) \in 0 .. n /\ k + i \in 1 .. n /\ (k + i) - 1 = k + (i - 1)
      BY <3>1
    <3>3. QED
      BY <3>2
  <2>3. g[j] \in PlainStates /\ s[l] \in Chars
    BY <2>2, ElementOfSeq DEF PlainsUpto
  <2>4. g[l] = PlainStep(g[j], s[l])
    BY <2>2 DEF PlainsUpto
  <2>5. PICK a \in Seq(Chars) : a = h[i - 1]
    <3>1. i - 1 \in 0 .. m
      OBVIOUS
    <3>2. QED
      BY <3>1 DEF Adds
  <2>6. ~g[j].comment /\ g[j].out = o \o a /\ (a # <<>> => (IsBlank(a[Len(a)]) <=> a[Len(a)] = SP))
    BY <2>1, <2>2, <2>5 DEF WordTaken
  <2>7. s[l] # LF /\ s[l] # Comment /\ v[i] = IF IsBlank(s[l]) THEN SP ELSE s[l]
    BY <2>2 DEF WordRun
  <2>8. h[i] = AddChar(a, v[i])
    BY <2>5 DEF Adds
  <2>9. g[l] = [out |-> IF IsBlank(s[l]) THEN BlankAfter(o \o a) ELSE Append(o \o a, s[l]), comment |-> FALSE]
    BY <2>3, <2>4, <2>6, <2>7, PlainStepIs
  <2>10. \A c \in Chars : /\ Append(o \o a, c) = o \o Append(a, c)
                          /\ Append(a, c) # <<>> /\ Append(a, c)[Len(Append(a, c))] = c
    <3> SUFFICES ASSUME NEW c \in Chars
                 PROVE  /\ Append(o \o a, c) = o \o Append(a, c)
                        /\ Append(a, c) # <<>> /\ Append(a, c)[Len(Append(a, c))] = c
      OBVIOUS
    <3>1. PICK p \in Nat, q \in Nat : p = Len(o) /\ q = Len(a)
      BY <1>1, <2>5, LenIsNat
    <3>2. Append(a, c) \in Seq(Chars) /\ Len(Append(a, c)) = q + 1 /\ Append(a, c)[q + 1] = c
      BY <2>5, <3>1, AppendProperties
    <3>3. Append(o \o a, c) = o \o Append(a, c)
      BY <1>1, <2>5, CharAppended
    <3>4. Append(a, c) # <<>>
      BY <2>5, AppendProperties
    <3>5. QED
      BY <3>2, <3>3, <3>4
  <2>11. Parting(o \o a) <=> a = <<>> \/ a[Len(a)] = SP
    <3>1. CASE a = <<>>
      <4>1. o \o a = o
        BY <1>1, <3>1, ConcatEmptySeq
      <4>2. QED
        BY <3>1, <4>1 DEF o
    <3>2. CASE a # <<>>
      <4>1. PICK p \in Nat, q \in Nat : p = Len(o) /\ q = Len(a)
        BY <1>1, <2>5, LenIsNat
      <4>2. q \in 1 .. q
        BY <2>5, <3>2, <4>1, EmptySeq
      <4>3. o \o a \in Seq(Chars) /\ Len(o \o a) = p + q /\ (o \o a)[p + q] = a[q]
        BY <1>1, <2>5, <4>1, <4>2, ConcatProperties
      <4>4. o \o a # <<>>
        BY <4>2, <4>3, EmptySeq
      <4>5. QED
        BY <3>2, <4>1, <4>3, <4>4 DEF Parting
    <3>3. QED
      BY <3>1, <3>2
  <2>12. o \o a \in Seq(Chars)
    BY <1>1, <2>5, ConcatProperties
  <2> SUFFICES WordTaken(g, h, o, l, i)
    BY <2>2 DEF P
  <2>13. CASE IsBlank(s[l])
    <3>1. v[i] = SP
      BY <2>7, <2>13
    <3>2. CASE Parting(o \o a)
      <4>1. h[i] = a
        BY <2>6, <2>8, <2>11, <3>1, <3>2, BlankIsChar DEF AddChar
      <4>2. BlankAfter(o \o a) = o \o a
        BY <2>12, <3>2, BlankAfterParts
      <4>3. g[l].out = o \o a /\ ~g[l].comment
        BY <2>9, <2>13, <4>2
      <4>4. QED
        BY <2>6, <4>1, <4>3 DEF WordTaken
    <3>3. CASE ~Parting(o \o a)
      <4>1. h[i] = Append(a, SP)
        BY <2>6, <2>8, <2>11, <3>1, <3>3, BlankIsChar DEF AddChar
      <4>2. BlankAfter(o \o a) = Append(o \o a, SP)
        BY <2>12, <3>3, BlankAfterParts
      <4>3. g[l].out = Append(o \o a, SP) /\ ~g[l].comment
        BY <2>9, <2>13, <4>2
      <4>4. g[l].out = o \o h[i] /\ h[i][Len(h[i])] = SP
        BY <2>10, <4>1, <4>3, BlankIsChar
      <4>5. QED
        BY <4>3, <4>4, BlankIsChar DEF WordTaken
    <3>4. QED
      BY <3>2, <3>3
  <2>14. CASE ~IsBlank(s[l])
    <3>1. v[i] = s[l]
      BY <2>7, <2>14
    <3>2. h[i] = Append(a, s[l])
      BY <2>8, <2>14, <3>1 DEF AddChar
    <3>3. g[l].out = Append(o \o a, s[l]) /\ ~g[l].comment
      BY <2>9, <2>14
    <3>4. g[l].out = o \o h[i] /\ h[i][Len(h[i])] = s[l]
      BY <2>3, <2>10, <3>2, <3>3
    <3>5. IsBlank(h[i][Len(h[i])]) <=> h[i][Len(h[i])] = SP
      BY <2>14, <3>4, BlankIsChar
    <3>6. QED
      BY <3>3, <3>4, <3>5 DEF WordTaken
  <2>15. QED
    BY <2>13, <2>14
<1>4. \A i \in 0 .. m : i \in P
  <2> HIDE DEF P
  <2>1. QED
    BY <1>2, <1>3, Along
<1>5. m \in P
  BY <1>4 DEF Adds
<1>6. WordTaken(g, h, o, e, m)
  BY <1>5 DEF WordRun
<1>7. QED
  BY <1>6 DEF o

\* What is made of a text that begins no word, by a line behind it.
LineAdded(o, out, line) == BlankAfter(out) = IF line = <<>> THEN o ELSE Add(o, line)

\* A text that does not end in a blank stays so behind another.
LEMMA EndKept ==
  ASSUME NEW o \in Seq(Chars), NEW a \in Seq(Chars), a # <<>>, ~IsBlank(a[Len(a)])
  PROVE  o \o a \in Seq(Chars) /\ o \o a # <<>> /\ ~Parting(o \o a)
<1>1. PICK p \in Nat, q \in Nat : p = Len(o) /\ q = Len(a)
  BY LenIsNat
<1>2. q \in 1 .. q
  BY <1>1, EmptySeq
<1>3. PICK z : z = o \o a
  OBVIOUS
<1>4. z \in Seq(Chars) /\ Len(z) = p + q /\ z[p + q] = a[q]
  BY <1>1, <1>2, <1>3, ConcatProperties
<1>5. z # <<>>
  BY <1>2, <1>4, EmptySeq
<1>6. z[Len(z)] # SP
  BY <1>1, <1>4, BlankIsChar
<1>7. QED
  BY <1>3, <1>4, <1>5, <1>6 DEF Parting

LEMMA LinePlain ==
  ASSUME NEW g, NEW s, NEW n, PlainsUpto(g, s, n), NEW k \in 0 .. n, NEW d \in Nat, k + d <= n,
         ~g[k].comment, Parting(g[k].out),
         NEW L \in Seq(Chars), Len(L) = d, \A i \in 1 .. d : L[i] = s[k + i] /\ L[i] # LF
  PROVE  Normalize(L) \in Seq(Chars) /\ LineAdded(g[k].out, g[k + d].out, Normalize(L))
<1>1. n \in Nat /\ k \in Nat /\ \A i \in 0 .. n : g[i] \in PlainStates /\ g[i].out \in Seq(Chars)
  BY DEF PlainsUpto, PlainStates
<1>2. PICK c \in 0 .. d : /\ TrimComments(L) = Upto(L, c)
                          /\ \A i \in 1 .. c : L[i] # Comment
                          /\ c < d => L[c + 1] = Comment
  BY CommentCut
<1>3. PICK y \in Seq(Chars) : y = TrimComments(L) /\ Len(y) = c /\ \A i \in 1 .. c : y[i] = L[i]
  <2>1. c \in 0 .. Len(L)
    BY <1>2
  <2>2. QED
    BY <1>2, <2>1, UptoIs
<1>4. PICK a \in Nat, m \in Nat : TrimmedOf(Chars, y, TrimF(y), a, m)
  BY TrimPlacesOf
<1>5. PICK w \in Seq(Chars) :
        /\ w = TrimF(y) /\ Len(w) = m /\ a + m <= c
        /\ \A i \in 1 .. m : w[i] = y[a + i]
        /\ \A i \in (1 .. a) \cup (a + m + 1 .. c) : IsBlank(y[i])
        /\ m # 0 => ~IsBlank(y[a + m])
  BY <1>3, <1>4 DEF TrimmedOf
<1>6. PICK v \in Seq(Chars) :
        /\ v = ReplaceF(w) /\ Len(v) = m
        /\ \A i \in 1 .. m : v[i] = IF IsBlank(w[i]) THEN SP ELSE w[i]
        /\ \A i \in 1 .. m : IsBlank(v[i]) <=> IsBlank(w[i])
  BY <1>5, ReplacedIs
<1>7. PICK h : Adds(h, v, m) /\ DelMultiplSp(v) = h[m]
  BY <1>6, AddsAre
<1>8. PICK N \in Seq(Chars) : N = Normalize(L) /\ N = h[m]
  <2>1. h[m] \in Seq(Chars)
    BY <1>7 DEF Adds
  <2>2. Normalize(L) = h[m]
    BY <1>3, <1>5, <1>6, <1>7 DEF Normalize
  <2>3. QED
    BY <2>1, <2>2
<1>9. PICK o \in Seq(Chars) : o = g[k].out /\ Parting(o) /\ BlankAfter(o) = o
  BY <1>1, BlankAfterParts
<1>10. PICK k1 \in 0 .. n, k2 \in 0 .. n, k3 \in 0 .. n, k4 \in 0 .. n, b \in Nat, r \in Nat :
         /\ k1 = k + a /\ k2 = k1 + m /\ k3 = k2 + b /\ k4 = k3 + r /\ k4 = k + d
         /\ b = c - (a + m) /\ r = d - c /\ k3 = k + c
  BY <1>1, <1>2, <1>5
<1>11. ~g[k1].comment /\ g[k1].out = o
  <2>1. \A i \in 1 .. a : IsBlank(s[k + i]) /\ s[k + i] # LF
    <3> SUFFICES ASSUME NEW i \in 1 .. a PROVE IsBlank(s[k + i]) /\ s[k + i] # LF
      OBVIOUS
    <3>1. i \in 1 .. c /\ i \in 1 .. d /\ i \in (1 .. a) \cup (a + m + 1 .. c)
      BY <1>2, <1>5
    <3>2. QED
      BY <1>3, <1>5, <3>1
  <2>2. BlankRun(s, k, a, k1)
    BY <1>10, <2>1 DEF BlankRun
  <2>3. ~g[k1].comment /\ g[k1].out = IF a = 0 THEN g[k].out ELSE BlankAfter(g[k].out)
    BY <2>2, BlanksPlain
  <2>4. QED
    BY <1>9, <2>3
<1>12. PICK x \in Seq(Chars) : x = o \o N /\ ~g[k2].comment /\ g[k2].out = x
  <2>1. \A i \in 1 .. m : /\ s[k1 + i] # LF /\ s[k1 + i] # Comment
                          /\ v[i] = IF IsBlank(s[k1 + i]) THEN SP ELSE s[k1 + i]
    <3> SUFFICES ASSUME NEW i \in 1 .. m
                 PROVE  /\ s[k1 + i] # LF /\ s[k1 + i] # Comment
                        /\ v[i] = IF IsBlank(s[k1 + i]) THEN SP ELSE s[k1 + i]
      OBVIOUS
    <3>1. PICK j \in 1 .. c : j = a + i /\ k1 + i = k + j
      BY <1>1, <1>2, <1>5, <1>10
    <3>2. w[i] = y[j]
      BY <1>5, <3>1
    <3>3. j \in 1 .. d
      BY <1>2, <3>1
    <3>4. y[j] = L[j] /\ L[j] = s[k + j] /\ L[j] # LF /\ L[j] # Comment
      BY <1>2, <1>3, <3>3
    <3>5. QED
      BY <1>6, <3>1, <3>2, <3>4
  <2>2. ~g[k1].comment /\ Adds(h, v, m)
    BY <1>7, <1>11
  <2>3. WordRun(s, k1, m, k2, v) /\ Parting(g[k1].out)
    BY <1>9, <1>10, <1>11, <2>1 DEF WordRun
  <2>4. WordTaken(g, h, g[k1].out, k2, m)
    BY <2>2, <2>3, WordsPlain
  <2>5. g[k2].out = o \o N /\ ~g[k2].comment
    BY <1>8, <1>11, <2>4 DEF WordTaken
  <2>6. QED
    BY <1>1, <2>5
<1>13. ~g[k3].comment /\ g[k3].out = IF b = 0 THEN x ELSE BlankAfter(x)
  <2>1. \A i \in 1 .. b : IsBlank(s[k2 + i]) /\ s[k2 + i] # LF
    <3> SUFFICES ASSUME NEW i \in 1 .. b PROVE IsBlank(s[k2 + i]) /\ s[k2 + i] # LF
      OBVIOUS
    <3>1. PICK j \in Nat : j = a + m + i /\ k2 + i = k + j
      BY <1>1, <1>5, <1>10
    <3>2. j \in 1 .. c /\ j \in a + m + 1 .. c
      BY <1>2, <1>5, <1>10, <3>1
    <3>3. j \in 1 .. d
      BY <1>2, <3>2
    <3>4. y[j] = L[j] /\ L[j] = s[k + j] /\ L[j] # LF /\ IsBlank(y[j])
      BY <1>3, <1>5, <3>2, <3>3
    <3>5. QED
      BY <3>1, <3>4
  <2>2. ~g[k2].comment
    BY <1>12
  <2>3. BlankRun(s, k2, b, k3)
    BY <1>10, <2>1 DEF BlankRun
  <2>4. ~g[k3].comment /\ g[k3].out = IF b = 0 THEN g[k2].out ELSE BlankAfter(g[k2].out)
    BY <2>2, <2>3, BlanksPlain
  <2>5. QED
    BY <1>12, <2>4
<1>14. g[k + d].out = g[k3].out
  <2>1. \A i \in 1 .. r : s[k3 + i] # LF
    <3> SUFFICES ASSUME NEW i \in 1 .. r PROVE s[k3 + i] # LF
      OBVIOUS
    <3>1. PICK j \in 1 .. d : j = c + i /\ k3 + i = k + j
      BY <1>1, <1>2, <1>10
    <3>2. QED
      BY <3>1
  <2>2. r # 0 => s[k3 + 1] = Comment
    <3>1. SUFFICES ASSUME r # 0 PROVE s[k3 + 1] = Comment
      OBVIOUS
    <3>2. PICK j \in 1 .. d : j = c + 1 /\ k3 + 1 = k + j /\ c < d
      BY <1>1, <1>2, <1>10, <3>1
    <3>3. QED
      BY <1>2, <3>2
  <2>3. CommentRun(s, k3, r, k4)
    BY <1>10, <2>1, <2>2 DEF CommentRun
  <2>4. g[k4].out = g[k3].out
    BY <2>3, CommentPlain
  <2>5. QED
    BY <1>10, <2>4
<1>15. BlankAfter(g[k + d].out) = BlankAfter(x)
  BY <1>13, <1>14, BlankAfterIs
<1>16. BlankAfter(x) = IF N = <<>> THEN o ELSE Append(x, SP)
  <2>1. CASE m = 0
    <3>1. N = <<>>
      BY <1>7, <1>8, <2>1 DEF Adds
    <3>2. x = o
      BY <1>12, <3>1, ConcatEmptySeq
    <3>3. QED
      BY <1>9, <3>1, <3>2
  <2>2. CASE m # 0
    <3>1. PICK e \in Seq(Chars) : e = h[m - 1] /\ N = AddChar(e, v[m])
      <4>1. m - 1 \in 0 .. m /\ m \in 1 .. m
        BY <2>2
      <4>2. QED
        BY <1>7, <1>8, <4>1 DEF Adds
    <3>2. ~IsBlank(v[m]) /\ v[m] \in Chars
      <4>1. m \in 1 .. m
        BY <2>2
      <4>2. QED
        BY <1>5, <1>6, <2>2, <4>1, ElementOfSeq
    <3>3. N = Append(e, v[m])
      BY <3>1, <3>2 DEF AddChar
    <3>4. PICK q \in Nat : q = Len(e)
      BY LenIsNat
    <3>5. N # <<>> /\ Len(N) = q + 1 /\ N[q + 1] = v[m]
      <4>1. PICK z : z = v[m]
        OBVIOUS
      <4>2. z \in Chars
        BY <3>2, <4>1
      <4>3. /\ Append(e, z) # <<>> /\ Len(Append(e, z)) = Len(e) + 1
            /\ Append(e, z)[Len(e) + 1] = z
        BY <4>2, AppendProperties
      <4>4. QED
        BY <3>3, <3>4, <4>1, <4>3
    <3>6. ~Parting(x)
      BY <1>12, <3>2, <3>5, EndKept
    <3>7. QED
      BY <3>5, <3>6, BlankAfterParts
  <2>3. QED
    BY <2>1, <2>2
<1>17. LineAdded(o, g[k + d].out, N)
  BY <1>12, <1>15, <1>16 DEF LineAdded, Add
<1>18. QED
  BY <1>8, <1>9, <1>17

-----------------------------------------------------------------------------
(* What is left of a text is neat                                            *)

\* No comment, one blank at most between two others, and none before them.
Neat(o) ==
  \A i \in 1 .. Len(o) :
    o[i] # Comment /\ (IsBlank(o[i]) => o[i] = SP /\ i # 1 /\ ~IsBlank(o[i - 1]))

LEMMA NeatAppended ==
  ASSUME NEW o \in Seq(Chars), Neat(o), NEW c \in Chars, c # Comment,
         IsBlank(c) => c = SP /\ o # <<>> /\ ~IsBlank(o[Len(o)])
  PROVE  Neat(Append(o, c))
<1>1. PICK n \in Nat : n = Len(o)
  BY LenIsNat
<1>2. PICK a \in Seq(Chars) : a = Append(o, c)
  BY AppendProperties
<1>3. Len(a) = n + 1 /\ a[n + 1] = c /\ \A i \in 1 .. n : a[i] = o[i]
  BY <1>1, <1>2, AppendProperties
<1>4. \A i \in 1 .. n : IsBlank(a[i]) => a[i] = SP /\ i # 1 /\ ~IsBlank(a[i - 1])
  <2> SUFFICES ASSUME NEW i \in 1 .. n, IsBlank(a[i]) PROVE a[i] = SP /\ i # 1 /\ ~IsBlank(a[i - 1])
    OBVIOUS
  <2>1. o[i] = SP /\ i # 1 /\ ~IsBlank(o[i - 1])
    BY <1>1, <1>3 DEF Neat
  <2>2. i - 1 \in 1 .. n
    BY <2>1
  <2>3. QED
    BY <1>3, <2>1, <2>2
<1>5. IsBlank(a[n + 1]) => a[n + 1] = SP /\ n + 1 # 1 /\ ~IsBlank(a[(n + 1) - 1])
  <2> SUFFICES ASSUME IsBlank(a[n + 1]) PROVE a[n + 1] = SP /\ n + 1 # 1 /\ ~IsBlank(a[(n + 1) - 1])
    OBVIOUS
  <2>1. c = SP /\ o # <<>> /\ ~IsBlank(o[n])
    BY <1>1, <1>3
  <2>2. n # 0
    BY <1>1, <2>1, EmptySeq
  <2>3. n \in 1 .. n /\ (n + 1) - 1 = n
    BY <2>2
  <2>4. QED
    BY <1>3, <2>1, <2>2, <2>3
<1>6. \A i \in 1 .. n + 1 : i \in 1 .. n \/ i = n + 1
  OBVIOUS
<1>7. \A i \in 1 .. n + 1 : IsBlank(a[i]) => a[i] = SP /\ i # 1 /\ ~IsBlank(a[i - 1])
  BY <1>4, <1>5, <1>6
<1>8. \A i \in 1 .. n : a[i] # Comment
  BY <1>1, <1>3 DEF Neat
<1>9. \A i \in 1 .. n + 1 : a[i] # Comment
  BY <1>3, <1>6, <1>8
<1>10. QED
  BY <1>2, <1>3, <1>7, <1>9 DEF Neat

\* In a neat text, to end in a blank is to end in SP.
LEMMA NeatEnd ==
  ASSUME NEW o \in Seq(Chars), Neat(o), o # <<>>
  PROVE  /\ Len(o) \in Nat \ {0} /\ ~IsBlank(o[1])
         /\ IsBlank(o[Len(o)]) <=> o[Len(o)] = SP
         /\ IsBlank(o[Len(o)]) => Len(o) > 1 /\ ~IsBlank(o[Len(o) - 1])
<1>1. PICK n \in Nat : n = Len(o)
  BY LenIsNat
<1>2. n # 0
  BY <1>1, EmptySeq
<1>3. 1 \in 1 .. n /\ n \in 1 .. n
  BY <1>2
<1>4. ~IsBlank(o[1])
  BY <1>1, <1>3 DEF Neat
<1>5. IsBlank(o[n]) => o[n] = SP /\ n # 1 /\ ~IsBlank(o[n - 1])
  BY <1>1, <1>3 DEF Neat
<1>6. QED
  BY <1>1, <1>2, <1>4, <1>5, BlankIsChar

LEMMA NeatBlankAfter ==
  ASSUME NEW o \in Seq(Chars), Neat(o)
  PROVE  Neat(BlankAfter(o))
<1>1. CASE Parting(o)
  BY <1>1, BlankAfterParts
<1>2. CASE ~Parting(o)
  <2>1. o # <<>> /\ ~IsBlank(o[Len(o)])
    BY <1>2, NeatEnd DEF Parting
  <2>2. Neat(Append(o, SP))
    BY <2>1, BlankIsChar, NeatAppended
  <2>3. QED
    BY <1>2, <2>2, BlankAfterParts
<1>3. QED
  BY <1>1, <1>2

LEMMA PlainNeat ==
  ASSUME NEW g, NEW s, NEW n, PlainsUpto(g, s, n)
  PROVE  \A i \in 0 .. n : Neat(g[i].out)
<1> DEFINE P == {i \in 0 .. n : Neat(g[i].out)}
<1>1. n \in Nat
  BY DEF PlainsUpto
<1>2. 0 \in P
  <2>1. g[0].out = <<>> /\ 0 \in 0 .. n
    BY DEF PlainsUpto
  <2>2. Neat(<<>>)
    BY DEF Neat
  <2>3. QED
    BY <2>1, <2>2
<1>3. ASSUME NEW i \in 1 .. n, i - 1 \in P PROVE i \in P
  <2>1. PICK acc \in PlainStates : acc = g[i - 1] /\ Neat(acc.out)
    BY <1>3 DEF PlainsUpto
  <2>2. PICK c \in Chars : c = s[i] /\ g[i] = PlainStep(acc, c)
    BY <2>1, ElementOfSeq DEF PlainsUpto
  <2>3. acc.out \in Seq(Chars)
    BY DEF PlainStates
  <2> HIDE DEF P
  <2>4. Neat(BlankAfter(acc.out))
    BY <2>1, <2>3, NeatBlankAfter
  <2>5. ~IsBlank(c) /\ c # Comment => Neat(Append(acc.out, c))
    BY <2>1, <2>3, NeatAppended
  <2>6. CASE c = LF
    <3>1. g[i].out = BlankAfter(acc.out)
      BY <2>2, <2>6, PlainStepIs
    <3>2. QED
      BY <2>4, <3>1 DEF P
  <2>7. CASE c # LF /\ (acc.comment \/ c = Comment)
    <3>1. g[i].out = acc.out
      BY <2>2, <2>7, PlainStepIs
    <3>2. QED
      BY <2>1, <3>1 DEF P
  <2>8. CASE c # LF /\ ~acc.comment /\ c # Comment
    <3>1. PlainStep(acc, c) = [out |-> IF IsBlank(c) THEN BlankAfter(acc.out) ELSE Append(acc.out, c),
                               comment |-> FALSE]
      BY <2>8, PlainStepIs
    <3>2. g[i].out = IF IsBlank(c) THEN BlankAfter(acc.out) ELSE Append(acc.out, c)
      BY <2>2, <3>1
    <3>3. Neat(g[i].out)
      BY <2>4, <2>5, <2>8, <3>2
    <3>4. QED
      BY <3>3 DEF P
  <2>9. QED
    BY <2>6, <2>7, <2>8
<1>4. \A i \in 0 .. n : i \in P
  <2> HIDE DEF P
  <2>1. QED
    BY <1>1, <1>2, <1>3, Along
<1>5. QED
  BY <1>4

\* What is trimmed can be told from what it is.
LEMMA TrimFits ==
  ASSUME NEW T, NEW s \in Seq(T), NEW w, NEW a \in Nat, NEW m \in Nat, TrimmedOf(T, s, w, a, m)
  PROVE  TrimF(s) = w
<1>1. PICK n \in Nat : n = Len(s)
  BY LenIsNat
<1>2. PICK b \in Nat, k \in Nat : TrimmedOf(T, s, TrimF(s), b, k)
  BY TrimPlacesOf
<1> DEFINE v == TrimF(s)
<1> HIDE DEF v
<1>3. /\ a + m <= n /\ w \in Seq(T) /\ Len(w) = m
      /\ \A i \in 1 .. m : w[i] = s[a + i]
      /\ \A i \in (1 .. a) \cup (a + m + 1 .. n) : IsBlank(s[i])
      /\ m # 0 => ~IsBlank(s[a + 1]) /\ ~IsBlank(s[a + m])
  BY <1>1 DEF TrimmedOf
<1>4. /\ b + k <= n /\ v \in Seq(T) /\ Len(v) = k
      /\ \A i \in 1 .. k : v[i] = s[b + i]
      /\ \A i \in (1 .. b) \cup (b + k + 1 .. n) : IsBlank(s[i])
      /\ k # 0 => ~IsBlank(s[b + 1]) /\ ~IsBlank(s[b + k])
  BY <1>1, <1>2 DEF TrimmedOf, v
<1>5. m # 0 => k # 0 /\ a + 1 \in b + 1 .. b + k /\ a + m \in b + 1 .. b + k
  <2> SUFFICES ASSUME m # 0 PROVE k # 0 /\ a + 1 \in b + 1 .. b + k /\ a + m \in b + 1 .. b + k
    OBVIOUS
  <2>1. a + 1 \in 1 .. n /\ a + m \in 1 .. n
    BY <1>3
  <2>2. a + 1 \notin (1 .. b) \cup (b + k + 1 .. n) /\ a + m \notin (1 .. b) \cup (b + k + 1 .. n)
    BY <1>3, <1>4
  <2>3. QED
    BY <2>1, <2>2
<1>6. k # 0 => m # 0 /\ b + 1 \in a + 1 .. a + m /\ b + k \in a + 1 .. a + m
  <2> SUFFICES ASSUME k # 0 PROVE m # 0 /\ b + 1 \in a + 1 .. a + m /\ b + k \in a + 1 .. a + m
    OBVIOUS
  <2>1. b + 1 \in 1 .. n /\ b + k \in 1 .. n
    BY <1>4
  <2>2. b + 1 \notin (1 .. a) \cup (a + m + 1 .. n) /\ b + k \notin (1 .. a) \cup (a + m + 1 .. n)
    BY <1>3, <1>4
  <2>3. QED
    BY <2>1, <2>2
<1>7. m = k /\ (m # 0 => a = b)
  BY <1>5, <1>6
<1>8. \A i \in 1 .. m : w[i] = v[i]
  <2> SUFFICES ASSUME NEW i \in 1 .. m PROVE w[i] = v[i]
    OBVIOUS
  <2>1. a = b /\ i \in 1 .. k
    BY <1>7
  <2>2. w[i] = s[a + i] /\ v[i] = s[b + i]
    BY <1>3, <1>4, <2>1
  <2>3. QED
    BY <2>1, <2>2
<1>9. w = v
  BY <1>3, <1>4, <1>7, <1>8, SeqEqual
<1>10. QED
  BY <1>9 DEF v

\* Trimmed, what is left of a text is what it says.
LEMMA PlainTrimmed ==
  ASSUME NEW p \in Seq(Chars), Neat(p)
  PROVE  TrimF(BlankAfter(p)) = IF p # <<>> /\ p[Len(p)] = SP THEN Upto(p, Len(p) - 1) ELSE p
<1>1. PICK n \in Nat : n = Len(p)
  BY LenIsNat
<1>2. CASE p = <<>>
  <2>1. BlankAfter(p) = p
    BY <1>2 DEF BlankAfter
  <2>2. 0 + 0 <= Len(p) /\ Len(p) = 0 /\ \A i \in (1 .. 0) \cup (0 + 0 + 1 .. 0) : FALSE
    BY <1>2
  <2>3. TrimmedOf(Chars, p, p, 0, 0)
    BY <2>2 DEF TrimmedOf
  <2>4. TrimF(p) = p
    BY <2>3, TrimFits
  <2>5. QED
    BY <1>2, <2>1, <2>4
<1>3. CASE p # <<>> /\ p[n] = SP
  <2>1. BlankAfter(p) = p
    BY <1>1, <1>3 DEF BlankAfter
  <2>2. n > 1 /\ ~IsBlank(p[1]) /\ ~IsBlank(p[n - 1])
    BY <1>1, <1>3, BlankIsChar, NeatEnd
  <2>3. PICK m \in Nat : m = n - 1
    BY <2>2
  <2>4. PICK w \in Seq(Chars) : w = Upto(p, m) /\ Len(w) = m /\ \A i \in 1 .. m : w[i] = p[i]
    <3>1. m \in 0 .. Len(p)
      BY <1>1, <2>3
    <3>2. QED
      BY <3>1, UptoIs
  <2>5. 0 + m <= n /\ \A i \in 1 .. m : w[i] = p[0 + i]
    BY <2>3, <2>4
  <2>6. \A i \in (1 .. 0) \cup (0 + m + 1 .. n) : IsBlank(p[i])
    BY <1>3, <2>3, BlankIsChar
  <2>7. ~IsBlank(p[0 + 1]) /\ ~IsBlank(p[0 + m])
    BY <2>2, <2>3
  <2>8. TrimmedOf(Chars, p, w, 0, m)
    BY <1>1, <2>4, <2>5, <2>6, <2>7 DEF TrimmedOf
  <2>9. TrimF(p) = w
    BY <2>8, TrimFits
  <2>10. QED
    BY <1>1, <1>3, <2>1, <2>3, <2>4, <2>9
<1>4. CASE p # <<>> /\ p[n] # SP
  <2>1. n # 0 /\ ~IsBlank(p[1]) /\ ~IsBlank(p[n])
    BY <1>1, <1>4, NeatEnd
  <2>2. PICK b \in Seq(Chars) : b = BlankAfter(p) /\ b = Append(p, SP)
    BY <1>1, <1>4, BlankIsChar, AppendProperties DEF BlankAfter
  <2>3. Len(b) = n + 1 /\ b[n + 1] = SP /\ \A i \in 1 .. n : b[i] = p[i]
    BY <1>1, <2>2, BlankIsChar, AppendProperties
  <2>4. 0 + n <= n + 1 /\ \A i \in 1 .. n : p[i] = b[0 + i]
    BY <2>3
  <2>5. \A i \in (1 .. 0) \cup (0 + n + 1 .. n + 1) : IsBlank(b[i])
    BY <2>3, BlankIsChar
  <2>6. ~IsBlank(b[0 + 1]) /\ ~IsBlank(b[0 + n])
    BY <2>1, <2>3
  <2>7. TrimmedOf(Chars, b, p, 0, n)
    BY <1>1, <2>3, <2>4, <2>5, <2>6 DEF TrimmedOf
  <2>8. TrimF(b) = p
    BY <2>7, TrimFits
  <2>9. QED
    BY <1>1, <1>4, <2>2, <2>8
<1>5. QED
  BY <1>2, <1>3, <1>4

-----------------------------------------------------------------------------
(* What is not blank                                                         *)

LEMMA SolidIsSeq ==
  ASSUME NEW s \in Seq(Chars)
  PROVE  Solid(s) \in Seq(Chars)
<1>1. PICK h : SolidsUpto(h, s, Len(s)) /\ Solid(s) = h[Len(s)]
  BY SolidsAre
<1>2. PICK n \in Nat : n = Len(s)
  BY LenIsNat
<1>3. n \in 0 .. n
  OBVIOUS
<1>4. QED
  BY <1>1, <1>2, <1>3 DEF SolidsUpto

SolidPart(h, f, i, o, j) == h[i] = o \o f[j]

LEMMA SolidParts ==
  ASSUME NEW s \in Seq(Chars), NEW k \in 0 .. Len(s), NEW x, x = Upto(s, k), NEW y, y = From(s, k + 1)
  PROVE  /\ x \in Seq(Chars) /\ y \in Seq(Chars)
         /\ Solid(x) \in Seq(Chars) /\ Solid(y) \in Seq(Chars)
         /\ Joined(Solid(s), Solid(x), Solid(y))
<1>1. PICK n \in Nat : n = Len(s) /\ k \in 0 .. n
  BY LenIsNat
<1>2. PICK m \in Nat : n = k + m /\ m = n - k
  <2>1. n - k \in Nat /\ n = k + (n - k)
    BY <1>1
  <2>2. QED
    BY <2>1
<1>3. x \in Seq(Chars) /\ Len(x) = k /\ \A i \in 1 .. k : x[i] = s[i]
  BY UptoIs
<1>4. y \in Seq(Chars) /\ Len(y) = m /\ \A i \in 1 .. m : y[i] = s[k + i]
  BY <1>1, <1>2, FromIs
<1>5. PICK h : SolidsUpto(h, s, n) /\ Solid(s) = h[n]
  BY <1>1, SolidsAre
<1>6. PICK hx : SolidsUpto(hx, x, k) /\ Solid(x) = hx[k]
  BY <1>3, SolidsAre
<1>7. PICK hy : SolidsUpto(hy, y, m) /\ Solid(y) = hy[m]
  BY <1>4, SolidsAre
<1>8. /\ h[0] = <<>> /\ hx[0] = <<>> /\ hy[0] = <<>>
      /\ \A i \in 1 .. n : h[i] = IF IsBlank(s[i]) THEN h[i - 1] ELSE Append(h[i - 1], s[i])
      /\ \A i \in 1 .. k : hx[i] = IF IsBlank(x[i]) THEN hx[i - 1] ELSE Append(hx[i - 1], x[i])
      /\ \A i \in 1 .. m : hy[i] = IF IsBlank(y[i]) THEN hy[i - 1] ELSE Append(hy[i - 1], y[i])
  BY <1>5, <1>6, <1>7 DEF SolidsUpto
<1>9. \A i \in 0 .. n : h[i] \in Seq(Chars)
  BY <1>5 DEF SolidsUpto
<1>10. \A i \in 0 .. m : hy[i] \in Seq(Chars)
  BY <1>7 DEF SolidsUpto
<1>11. h[k] = hx[k]
  <2> DEFINE P == {i \in 0 .. k : h[i] = hx[i]}
  <2>1. 0 \in P
    BY <1>1, <1>8
  <2>2. ASSUME NEW i \in 1 .. k, i - 1 \in P PROVE i \in P
    <3>1. h[i - 1] = hx[i - 1] /\ i \in 1 .. n /\ x[i] = s[i]
      BY <1>1, <1>3, <2>2
    <3>2. h[i] = hx[i]
      BY <1>8, <3>1
    <3>3. QED
      BY <3>2
  <2>3. \A i \in 0 .. k : i \in P
    <3> HIDE DEF P
    <3>1. k \in Nat
      BY <1>1
    <3>2. QED
      BY <2>1, <2>2, <3>1, Along
  <2>4. k \in P
    BY <1>1, <2>3
  <2>5. QED
    BY <2>4
<1>12. PICK o \in Seq(Chars) : o = h[k]
  BY <1>1, <1>9
<1>13. h[n] = o \o hy[m]
  <2> DEFINE P == {i \in 0 .. m : SolidPart(h, hy, k + i, o, i)}
  <2>1. 0 \in P
    <3>1. o \o <<>> = o /\ k + 0 = k /\ 0 \in 0 .. m
      BY <1>1, ConcatEmptySeq
    <3>2. QED
      BY <1>8, <1>12, <3>1 DEF SolidPart
  <2>2. ASSUME NEW i \in 1 .. m, i - 1 \in P PROVE i \in P
    <3>1. SolidPart(h, hy, k + (i - 1), o, i - 1)
      BY <2>2
    <3> HIDE DEF P
    <3>2. PICK j \in 0 .. n, l \in 1 .. n : j = k + (i - 1) /\ l = k + i /\ l - 1 = j
      <4>1. k + (i - 1) \in 0 .. n /\ k + i \in 1 .. n /\ (k + i) - 1 = k + (i - 1)
        BY <1>1, <1>2
      <4>2. QED
        BY <4>1
    <3>3. PICK a \in Seq(Chars) : a = hy[i - 1] /\ h[j] = o \o a
      <4>1. i - 1 \in 0 .. m
        OBVIOUS
      <4>2. QED
        BY <1>10, <3>1, <3>2, <4>1 DEF SolidPart
    <3>4. PICK c \in Chars : c = s[l] /\ c = y[i]
      <4>1. s[l] \in Chars
        BY <1>1, ElementOfSeq
      <4>2. QED
        BY <1>4, <3>2, <4>1
    <3>5. h[l] = IF IsBlank(c) THEN o \o a ELSE Append(o \o a, c)
      BY <1>8, <3>2, <3>3, <3>4
    <3>6. hy[i] = IF IsBlank(c) THEN a ELSE Append(a, c)
      BY <1>8, <3>3, <3>4
    <3>7. Append(o \o a, c) = o \o Append(a, c)
      BY CharAppended
    <3>8. h[l] = o \o hy[i]
      BY <3>5, <3>6, <3>7
    <3>9. QED
      BY <3>2, <3>8 DEF P, SolidPart
  <2>3. \A i \in 0 .. m : i \in P
    <3> HIDE DEF P
    <3>1. QED
      BY <2>1, <2>2, Along
  <2>4. m \in P
    BY <2>3
  <2>5. QED
    BY <1>2, <2>4 DEF SolidPart
<1>14. Solid(x) \in Seq(Chars) /\ Solid(y) \in Seq(Chars)
  BY <1>3, <1>4, SolidIsSeq
<1>15. Solid(s) = Solid(x) \o Solid(y)
  BY <1>5, <1>6, <1>7, <1>11, <1>12, <1>13
<1>16. QED
  BY <1>3, <1>4, <1>14, <1>15 DEF Joined

LEMMA SolidOfBlanks ==
  ASSUME NEW s \in Seq(Chars), \A i \in 1 .. Len(s) : IsBlank(s[i])
  PROVE  Solid(s) = <<>>
<1>1. PICK n \in Nat : n = Len(s)
  BY LenIsNat
<1>2. PICK h : SolidsUpto(h, s, n) /\ Solid(s) = h[n]
  BY <1>1, SolidsAre
<1> DEFINE P == {i \in 0 .. n : h[i] = <<>>}
<1>3. 0 \in P
  BY <1>2 DEF SolidsUpto
<1>4. ASSUME NEW i \in 1 .. n, i - 1 \in P PROVE i \in P
  <2>1. h[i] = h[i - 1]
    BY <1>1, <1>2 DEF SolidsUpto
  <2>2. QED
    BY <1>4, <2>1
<1>5. \A i \in 0 .. n : i \in P
  <2> HIDE DEF P
  <2>1. QED
    BY <1>3, <1>4, Along
<1>6. n \in P
  BY <1>5
<1>7. QED
  BY <1>2, <1>6

LEMMA SolidBegins ==
  ASSUME NEW s \in Seq(Chars), s # <<>>, ~IsBlank(s[1])
  PROVE  Solid(s) # <<>>
<1>1. PICK n \in Nat : n = Len(s)
  BY LenIsNat
<1>2. PICK h : SolidsUpto(h, s, n) /\ Solid(s) = h[n]
  BY <1>1, SolidsAre
<1>3. n # 0
  BY <1>1, EmptySeq
<1> DEFINE P == {i \in 0 .. n : i # 0 => h[i] # <<>>}
<1>4. 0 \in P
  OBVIOUS
<1>5. ASSUME NEW i \in 1 .. n, i - 1 \in P PROVE i \in P
  <2>1. PICK a \in Seq(Chars) : a = h[i - 1] /\ h[i] = IF IsBlank(s[i]) THEN a ELSE Append(a, s[i])
    <3>1. i - 1 \in 0 .. n
      OBVIOUS
    <3>2. QED
      BY <1>2, <3>1 DEF SolidsUpto
  <2>2. i # 1 => a # <<>>
    BY <1>5, <2>1
  <2>3. s[i] \in Chars
    BY <1>1, ElementOfSeq
  <2>4. Append(a, s[i]) # <<>>
    BY <2>3, AppendProperties
  <2>5. h[i] # <<>>
    BY <2>1, <2>2, <2>4
  <2>6. QED
    BY <2>5
<1>6. \A i \in 0 .. n : i \in P
  <2> HIDE DEF P
  <2>1. QED
    BY <1>4, <1>5, Along
<1>7. n \in P
  BY <1>6
<1>8. QED
  BY <1>2, <1>3, <1>7

LEMMA SolidTrimmed ==
  ASSUME NEW s \in Seq(Chars)
  PROVE  TrimF(s) \in Seq(Chars) /\ Solid(TrimF(s)) = Solid(s)
<1>1. PICK n \in Nat : n = Len(s)
  BY LenIsNat
<1>2. PICK a \in Nat, m \in Nat : TrimmedOf(Chars, s, TrimF(s), a, m)
  BY TrimPlacesOf
<1>3. PICK w \in Seq(Chars) :
        /\ w = TrimF(s) /\ a + m <= n /\ Len(w) = m
        /\ \A i \in 1 .. m : w[i] = s[a + i]
        /\ \A i \in (1 .. a) \cup (a + m + 1 .. n) : IsBlank(s[i])
  BY <1>1, <1>2 DEF TrimmedOf
<1>4. PICK e \in 0 .. n : e = a + m
  BY <1>3
<1>5. PICK x \in Seq(Chars) : x = Upto(s, e) /\ Len(x) = e /\ \A i \in 1 .. e : x[i] = s[i]
  BY <1>1, UptoIs
<1>6. e \in 0 .. Len(s)
  BY <1>1
<1>7. PICK y \in Seq(Chars) : y = From(s, e + 1) /\ Len(y) = n - e /\ \A i \in 1 .. n - e : y[i] = s[e + i]
  <2>1. PICK y : y = From(s, e + 1)
    OBVIOUS
  <2>2. y \in Seq(Chars) /\ Len(y) = Len(s) - e /\ \A i \in 1 .. Len(s) - e : y[i] = s[e + i]
    BY <1>6, <2>1, FromIs
  <2>3. QED
    BY <1>1, <2>1, <2>2
<1>8. a \in 0 .. Len(x)
  BY <1>4, <1>5
<1>9. PICK u \in Seq(Chars) : u = Upto(x, a) /\ Len(u) = a /\ \A i \in 1 .. a : u[i] = x[i]
  BY <1>8, UptoIs
<1>10. PICK v \in Seq(Chars) : v = From(x, a + 1) /\ Len(v) = e - a /\ \A i \in 1 .. e - a : v[i] = x[a + i]
  <2>1. PICK v : v = From(x, a + 1)
    OBVIOUS
  <2>2. v \in Seq(Chars) /\ Len(v) = Len(x) - a /\ \A i \in 1 .. Len(x) - a : v[i] = x[a + i]
    BY <1>8, <2>1, FromIs
  <2>3. QED
    BY <1>5, <2>1, <2>2
<1>11. v = w
  <2>1. Len(v) = m
    BY <1>4, <1>10
  <2>2. \A i \in 1 .. m : v[i] = w[i]
    <3> SUFFICES ASSUME NEW i \in 1 .. m PROVE v[i] = w[i]
      OBVIOUS
    <3>1. i \in 1 .. e - a /\ a + i \in 1 .. e
      BY <1>4
    <3>2. QED
      BY <1>3, <1>5, <1>10, <3>1
  <2>3. QED
    BY <1>3, <2>1, <2>2, SeqEqual
<1>12. Solid(u) = <<>>
  <2>1. \A i \in 1 .. a : IsBlank(u[i])
    <3> SUFFICES ASSUME NEW i \in 1 .. a PROVE IsBlank(u[i])
      OBVIOUS
    <3>1. i \in 1 .. e /\ i \in (1 .. a) \cup (a + m + 1 .. n)
      BY <1>4
    <3>2. QED
      BY <1>3, <1>5, <1>9, <3>1
  <2>2. QED
    BY <1>9, <2>1, SolidOfBlanks
<1>13. Solid(y) = <<>>
  <2>1. \A i \in 1 .. n - e : IsBlank(y[i])
    <3> SUFFICES ASSUME NEW i \in 1 .. n - e PROVE IsBlank(y[i])
      OBVIOUS
    <3>1. e + i \in a + m + 1 .. n
      BY <1>4
    <3>2. QED
      BY <1>3, <1>7, <3>1
  <2>2. QED
    BY <1>7, <2>1, SolidOfBlanks
<1>14. Solid(x) \in Seq(Chars) /\ Joined(Solid(s), Solid(x), Solid(y))
  <2>1. x = Upto(s, e) /\ y = From(s, e + 1)
    BY <1>5, <1>7
  <2>2. QED
    BY <1>6, <2>1, SolidParts
<1>15. Solid(v) \in Seq(Chars) /\ Joined(Solid(x), Solid(u), Solid(v))
  <2>1. u = Upto(x, a) /\ v = From(x, a + 1)
    BY <1>9, <1>10
  <2>2. QED
    BY <1>8, <2>1, SolidParts
<1>16. Solid(s) = Solid(x)
  BY <1>13, <1>14, ConcatEmptySeq DEF Joined
<1>17. Solid(x) = Solid(v)
  BY <1>12, <1>15, ConcatEmptySeq DEF Joined
<1>18. QED
  BY <1>3, <1>11, <1>16, <1>17

-----------------------------------------------------------------------------
(* What is cut off                                                           *)

\* The first of a text that is in a set.
LEMMA FirstOf ==
  ASSUME NEW T, NEW s \in Seq(T), NEW D, NEW n \in Nat, n = Len(s),
         NEW p, p = FindFirstOf(s, D)
  PROVE  /\ p \in 0 .. n
         /\ p = 0 => \A i \in 1 .. n : s[i] \notin D
         /\ p # 0 => s[p] \in D /\ \A i \in 1 .. p - 1 : s[i] \notin D
<1> DEFINE at == {i \in 1 .. n : s[i] \in D}
<1>1. p = IF at # {} THEN Min(at) ELSE 0
  BY DEF FindFirstOf, SelectInSeq
<1>2. at # {} => Min(at) \in at /\ \A y \in at : Min(at) <= y
  <2>1. at \in SUBSET Nat
    OBVIOUS
  <2> HIDE DEF at
  <2>2. QED
    BY <2>1, MinIs
<1>3. at = {} => \A i \in 1 .. n : s[i] \notin D
  OBVIOUS
<1>4. CASE at = {}
  BY <1>1, <1>4, <1>3
<1>5. CASE at # {}
  <2>1. p \in 1 .. n /\ s[p] \in D /\ \A y \in at : p <= y
    BY <1>1, <1>2, <1>5
  <2>2. \A i \in 1 .. p - 1 : s[i] \notin D
    <3> SUFFICES ASSUME NEW i \in 1 .. p - 1, s[i] \in D PROVE FALSE
      OBVIOUS
    <3>1. i \in at /\ ~(p <= i)
      BY <2>1
    <3>2. QED
      BY <2>1, <3>1
  <2>3. QED
    BY <2>1, <2>2
<1>6. QED
  BY <1>4, <1>5

\* Blanks from e to n, and none behind.
BlanksTo(b, e, n) ==
  /\ n \in e .. Len(b)
  /\ \A i \in e + 1 .. n : IsBlank(b[i])
  /\ n # Len(b) => ~IsBlank(b[n + 1])

LEMMA WithBlanksIs ==
  ASSUME NEW b \in Seq(Chars), NEW e \in 0 .. Len(b)
  PROVE  BlanksTo(b, e, WithBlanks(b, e))
<1>1. PICK l \in Nat : l = Len(b) /\ e \in 0 .. l
  BY LenIsNat
<1>2. CASE \A i \in e + 1 .. l : IsBlank(b[i])
  BY <1>1, <1>2 DEF WithBlanks, BlanksTo
<1>3. CASE ~ \A i \in e + 1 .. l : IsBlank(b[i])
  <2> DEFINE at == {i \in e + 1 .. l : ~IsBlank(b[i])}
             Fits(n) == ~IsBlank(b[n + 1]) /\ \A i \in e + 1 .. n : IsBlank(b[i])
  <2>1. PICK x \in at : \A y \in at : x <= y
    <3>1. at # {} /\ at \in SUBSET Nat
      BY <1>1, <1>3
    <3> HIDE DEF at
    <3>2. QED
      BY <3>1, LeastNat
  <2>2. x - 1 \in e .. l - 1 /\ ~IsBlank(b[(x - 1) + 1])
    BY <1>1, <2>1
  <2>3. \A i \in e + 1 .. x - 1 : IsBlank(b[i])
    <3> SUFFICES ASSUME NEW i \in e + 1 .. x - 1, ~IsBlank(b[i]) PROVE FALSE
      OBVIOUS
    <3>1. i \in at /\ ~(x <= i)
      BY <1>1, <2>2
    <3>2. QED
      BY <2>1, <3>1
  <2>4. \E n \in e .. l - 1 : Fits(n)
    BY <2>2, <2>3
  <2>5. WithBlanks(b, e) = CHOOSE n \in e .. l - 1 : Fits(n)
    BY <1>1, <1>3 DEF WithBlanks
  <2> HIDE DEF Fits
  <2>6. PICK n \in e .. l - 1 : n = WithBlanks(b, e) /\ Fits(n)
    BY <2>4, <2>5
  <2>7. n \in e .. l /\ n # l
    BY <1>1, <2>6
  <2>8. QED
    BY <1>1, <2>6, <2>7 DEF BlanksTo, Fits
<1>4. QED
  BY <1>2, <1>3

LEMMA DirectiveEndIs ==
  ASSUME NEW b \in Seq(Chars), b # <<>>
  PROVE  DirectiveEnd(b) \in 1 .. Len(b)
<1>1. PICK l \in Nat : l = Len(b)
  BY LenIsNat
<1>2. l # 0
  BY <1>1, EmptySeq
<1>3. PICK p : p = FindFirstOf(b, Punctuation)
  OBVIOUS
<1>4. p \in 0 .. l
  BY <1>1, <1>3, FirstOf
<1>5. DirectiveEnd(b) = IF p = 0 THEN l ELSE IF b[p] = "}" /\ p > 1 THEN p - 1 ELSE p
  BY <1>1, <1>3 DEF DirectiveEnd
<1>6. DirectiveEnd(b) \in 1 .. l
  <2>1. p # 0 => p \in 1 .. l /\ (p > 1 => p - 1 \in 1 .. l)
    BY <1>4
  <2>2. l \in 1 .. l
    BY <1>2
  <2>3. \/ DirectiveEnd(b) = l
        \/ p # 0 /\ p > 1 /\ DirectiveEnd(b) = p - 1
        \/ p # 0 /\ DirectiveEnd(b) = p
    BY <1>5
  <2>4. QED
    BY <2>1, <2>2, <2>3
<1>7. QED
  BY <1>1, <1>6

\* One turn of the loop of parse(): b is cut at n, d is what is taken.
IsCut(b, n, d) ==
  /\ n \in 1 .. Len(b)
  /\ d \in Seq(Chars) /\ d # <<>>
  /\ From(b, n + 1) \in Seq(Chars)
  /\ From(b, n + 1) # <<>> => ~IsBlank(From(b, n + 1)[1])
  /\ Joined(Solid(b), Solid(d), Solid(From(b, n + 1)))

LEMMA CutIs ==
  ASSUME NEW b \in Seq(Chars), b # <<>>, ~IsBlank(b[1]),
         NEW n, n = WithBlanks(b, DirectiveEnd(b))
  PROVE  IsCut(b, n, TrimF(Upto(b, n)))
<1>1. PICK l \in Nat : l = Len(b) /\ l # 0
  BY EmptySeq, LenIsNat
<1>2. PICK e \in 1 .. l : e = DirectiveEnd(b)
  BY <1>1, DirectiveEndIs
<1>3. n \in e .. l /\ (n # l => ~IsBlank(b[n + 1]))
  <2>1. e \in 0 .. Len(b)
    BY <1>1, <1>2
  <2>2. BlanksTo(b, e, n)
    BY <1>2, <2>1, WithBlanksIs
  <2>3. QED
    BY <1>1, <2>2 DEF BlanksTo
<1>4. n \in 1 .. l /\ n \in 0 .. Len(b)
  BY <1>1, <1>2, <1>3
<1>5. PICK x : x = Upto(b, n)
  OBVIOUS
<1>6. x \in Seq(Chars) /\ Len(x) = n /\ \A i \in 1 .. n : x[i] = b[i]
  BY <1>4, <1>5, UptoIs
<1>7. PICK y : y = From(b, n + 1)
  OBVIOUS
<1>8. y \in Seq(Chars) /\ Len(y) = l - n /\ \A i \in 1 .. l - n : y[i] = b[n + i]
  BY <1>1, <1>4, <1>7, FromIs
<1>9. PICK d : d = TrimF(x)
  OBVIOUS
<1>10. d \in Seq(Chars) /\ Solid(d) = Solid(x)
  BY <1>6, <1>9, SolidTrimmed
<1>11. Joined(Solid(b), Solid(x), Solid(y))
  BY <1>4, <1>5, <1>7, SolidParts
<1>12. d # <<>>
  <2>1. x # <<>> /\ x[1] = b[1]
    BY <1>4, <1>6, EmptySeq
  <2>2. Solid(x) # <<>>
    BY <1>6, <2>1, SolidBegins
  <2>3. Solid(<<>>) = <<>>
    <3>1. PICK z \in Seq(Chars) : z = <<>> /\ Len(z) = 0
      BY EmptySeq
    <3>2. \A i \in 1 .. Len(z) : IsBlank(z[i])
      BY <3>1
    <3>3. Solid(z) = <<>>
      BY <3>2, SolidOfBlanks
    <3>4. QED
      BY <3>1, <3>3
  <2>4. QED
    BY <1>10, <2>2, <2>3
<1>13. y # <<>> => ~IsBlank(y[1])
  <2>1. SUFFICES ASSUME y # <<>> PROVE ~IsBlank(y[1])
    OBVIOUS
  <2>2. l - n # 0 /\ l - n \in Nat
    BY <1>4, <1>8, <2>1, EmptySeq
  <2>3. y[1] = b[n + 1] /\ n # l
    BY <1>4, <1>8, <2>2
  <2>4. QED
    BY <1>3, <2>3
<1>14. QED
  BY <1>1, <1>4, <1>5, <1>7, <1>8, <1>9, <1>10, <1>11, <1>12, <1>13 DEF IsCut

-----------------------------------------------------------------------------
(* A directive as it is written                                              *)

\* What comes before the end of a directive with a name.
HeadOf(x, v, there) == <<x>> \o (IF v = <<>> THEN <<>> ELSE <<SP>> \o v) \o BlankIf(there)

HeadFits(a, x, v) ==
  /\ a \in Seq(Chars) /\ Len(a) \in Nat \ {0}
  /\ a[1] = x
  /\ \A i \in 2 .. Len(a) : a[i] = SP \/ IsWord(a[i])
  /\ Len(a) > 1 => a[2] = SP
  /\ TrimF(From(a, 2)) = v

IsValue(v) ==
  /\ v \in Seq(Chars)
  /\ \A i \in 1 .. Len(v) : IsWord(v[i]) \/ (v[i] = SP /\ i \in 2 .. Len(v) - 1)

LEMMA OneOf ==
  ASSUME NEW T, NEW c \in T
  PROVE  <<c>> \in Seq(T) /\ Len(<<c>>) = 1 /\ <<c>>[1] = c
OBVIOUS

LEMMA BlankIfIs ==
  ASSUME NEW there \in BOOLEAN
  PROVE  /\ BlankIf(there) \in Seq(Chars) /\ Len(BlankIf(there)) \in {0, 1}
         /\ \A i \in 1 .. Len(BlankIf(there)) : BlankIf(there)[i] = SP
<1>1. CASE there
  <2>1. BlankIf(there) = <<SP>>
    BY <1>1 DEF BlankIf
  <2>2. <<SP>> \in Seq(Chars) /\ Len(<<SP>>) = 1 /\ <<SP>>[1] = SP
    BY BlankIsChar, OneOf
  <2>3. \A i \in 1 .. 1 : i = 1
    OBVIOUS
  <2>4. QED
    BY <2>1, <2>2, <2>3
<1>2. CASE ~there
  <2>1. BlankIf(there) = <<>>
    BY <1>2 DEF BlankIf
  <2>2. QED
    BY <2>1
<1>3. QED
  BY <1>1, <1>2

\* The value, with a blank before it, if there is one.
MiddleFits(m, o, v, n) ==
  /\ m = IF v = <<>> THEN <<>> ELSE <<SP>> \o v
  /\ Len(m) = o + n
  /\ o = 0 => n = 0
  /\ o = 1 => n # 0 /\ m[1] = SP
  /\ \A i \in 1 .. n : m[o + i] = v[i]

LEMMA HeadIs ==
  ASSUME NEW x \in Chars, NEW v, IsValue(v), NEW there \in BOOLEAN
  PROVE  HeadFits(HeadOf(x, v, there), x, v)
<1>1. PICK n \in Nat : n = Len(v) /\ v \in Seq(Chars)
  BY LenIsNat DEF IsValue
<1>2. PICK b \in Seq(Chars), j \in {0, 1} :
        b = BlankIf(there) /\ j = Len(b) /\ \A i \in 1 .. j : b[i] = SP
  BY BlankIfIs
<1>3. PICK m \in Seq(Chars), o \in {0, 1} : MiddleFits(m, o, v, n)
  <2>1. CASE v = <<>>
    <3>1. PICK y \in Seq(Chars) : y = <<>> /\ Len(y) = 0
      BY EmptySeq
    <3>2. n = 0
      BY <1>1, <2>1, <3>1
    <3>3. MiddleFits(y, 0, v, n)
      BY <2>1, <3>1, <3>2 DEF MiddleFits
    <3>4. QED
      BY <3>3
  <2>2. CASE v # <<>>
    <3>1. n # 0
      BY <1>1, <2>2, EmptySeq
    <3>2. PICK y : y = <<SP>>
      OBVIOUS
    <3>3. y \in Seq(Chars) /\ Len(y) = 1 /\ y[1] = SP
      BY <3>2, BlankIsChar, OneOf
    <3>4. PICK m : m = y \o v
      OBVIOUS
    <3>5. Joined(m, y, v)
      BY <3>4 DEF Joined
    <3>6. /\ m \in Seq(Chars) /\ Len(m) = 1 + n
          /\ \A i \in 1 .. 1 : m[i] = y[i]
          /\ \A i \in 1 .. n : m[1 + i] = v[i]
      <4>1. m \in Seq(Chars) /\ JoinFits(m, y, v)
        BY <1>1, <3>3, <3>5, JoinedIs
      <4>2. QED
        BY <1>1, <3>3, <4>1 DEF JoinFits
    <3>7. m[1] = SP
      BY <3>3, <3>6
    <3>8. MiddleFits(m, 1, v, n)
      BY <2>2, <3>1, <3>2, <3>4, <3>6, <3>7 DEF MiddleFits
    <3>9. QED
      BY <3>6, <3>8
  <2>3. QED
    BY <2>1, <2>2
<1>4. /\ m = IF v = <<>> THEN <<>> ELSE <<SP>> \o v
      /\ Len(m) = o + n
      /\ o = 0 => n = 0
      /\ o = 1 => n # 0 /\ m[1] = SP
      /\ \A i \in 1 .. n : m[o + i] = v[i]
  BY <1>3 DEF MiddleFits
<1>5. PICK y : y = <<x>>
  OBVIOUS
<1>6. y \in Seq(Chars) /\ Len(y) = 1 /\ y[1] = x
  BY <1>5, OneOf
<1>7. PICK u : u = y \o m
  OBVIOUS
<1>8. PICK k \in Nat : k = o + n /\ k = Len(m)
  BY <1>4
<1>9. /\ u \in Seq(Chars) /\ Len(u) = 1 + k
      /\ \A i \in 1 .. 1 : u[i] = y[i]
      /\ \A i \in 1 .. k : u[1 + i] = m[i]
  <2>1. Joined(u, y, m)
    BY <1>7 DEF Joined
  <2>2. u \in Seq(Chars) /\ JoinFits(u, y, m)
    BY <1>6, <2>1, JoinedIs
  <2>3. QED
    BY <1>6, <1>8, <2>2 DEF JoinFits
<1>10. PICK a : a = u \o b
  OBVIOUS
<1>11. PICK l \in Nat : l = 1 + k
  OBVIOUS
<1>12. /\ a \in Seq(Chars) /\ Len(a) = l + j
       /\ \A i \in 1 .. l : a[i] = u[i]
       /\ \A i \in 1 .. j : a[l + i] = b[i]
  <2>1. Joined(a, u, b)
    BY <1>10 DEF Joined
  <2>2. l = Len(u) /\ j \in Nat
    BY <1>9, <1>11
  <2>3. a \in Seq(Chars) /\ JoinFits(a, u, b)
    BY <1>9, <2>1, JoinedIs
  <2>4. QED
    BY <1>2, <2>2, <2>3 DEF JoinFits
<1>13. a = HeadOf(x, v, there)
  BY <1>2, <1>5, <1>7, <1>10, <1>4 DEF HeadOf
<1>14. a[1] = x /\ l + j \in Nat \ {0}
  <2>1. 1 \in 1 .. l /\ 1 \in 1 .. 1 /\ l + j \in Nat \ {0}
    BY <1>11
  <2>2. QED
    BY <1>6, <1>9, <1>12, <2>1
<1>15. \A i \in 1 .. k : a[1 + i] = m[i]
  <2> SUFFICES ASSUME NEW i \in 1 .. k PROVE a[1 + i] = m[i]
    OBVIOUS
  <2>1. 1 + i \in 1 .. l
    BY <1>11
  <2>2. QED
    BY <1>9, <1>12, <2>1
<1>16. \A i \in 1 .. j : a[l + i] = SP
  BY <1>2, <1>12
<1>17. \A i \in 1 .. k : m[i] = SP \/ IsWord(m[i])
  <2> SUFFICES ASSUME NEW i \in 1 .. k PROVE m[i] = SP \/ IsWord(m[i])
    OBVIOUS
  <2>1. CASE o = 1 /\ i = 1
    BY <1>4, <2>1
  <2>2. CASE ~(o = 1 /\ i = 1)
    <3>1. PICK h \in 1 .. n : i = o + h
      <4>1. i - o \in 1 .. n /\ i = o + (i - o)
        BY <1>8, <2>2
      <4>2. QED
        BY <4>1
    <3>2. m[i] = v[h]
      BY <1>4, <3>1
    <3>3. v[h] = SP \/ IsWord(v[h])
      BY <1>1 DEF IsValue
    <3>4. QED
      BY <3>2, <3>3
  <2>3. QED
    BY <2>1, <2>2
<1>18. \A i \in 2 .. l + j : a[i] = SP \/ IsWord(a[i])
  <2> SUFFICES ASSUME NEW i \in 2 .. l + j PROVE a[i] = SP \/ IsWord(a[i])
    OBVIOUS
  <2>1. CASE i <= l
    <3>1. PICK h \in 1 .. k : i = 1 + h
      <4>1. i - 1 \in 1 .. k /\ i = 1 + (i - 1)
        BY <1>11, <2>1
      <4>2. QED
        BY <4>1
    <3>2. QED
      BY <1>15, <1>17, <3>1
  <2>2. CASE ~(i <= l)
    <3>1. PICK h \in 1 .. j : i = l + h
      <4>1. i - l \in 1 .. j /\ i = l + (i - l)
        BY <1>11, <2>2
      <4>2. QED
        BY <4>1
    <3>2. QED
      BY <1>16, <3>1
  <2>3. QED
    BY <2>1, <2>2
<1>19. l + j > 1 => a[2] = SP
  <2>1. CASE o = 1
    <3>1. 1 \in 1 .. k /\ 1 + 1 = 2
      BY <1>8, <1>4, <2>1
    <3>2. QED
      BY <1>15, <1>4, <2>1, <3>1
  <2>2. CASE o = 0
    <3>1. k = 0 /\ l = 1
      BY <1>8, <1>11, <1>4, <2>2
    <3>2. j = 1 => a[2] = SP
      <4>1. 1 \in 1 .. 1 /\ 1 + 1 = 2
        OBVIOUS
      <4>2. QED
        BY <1>16, <3>1, <4>1
    <3>3. QED
      BY <3>1, <3>2
  <2>3. QED
    BY <2>1, <2>2
<1>20. TrimF(From(a, 2)) = v
  <2>1. 1 \in 0 .. Len(a) /\ 1 + 1 = 2 /\ Len(a) - 1 = k + j
    BY <1>11, <1>12
  <2>2. From(a, 1 + 1) \in Seq(Chars) /\ Len(From(a, 1 + 1)) = Len(a) - 1
        /\ \A i \in 1 .. Len(a) - 1 : From(a, 1 + 1)[i] = a[1 + i]
    BY <1>12, <2>1, FromIs
  <2>3. PICK r : r = From(a, 2)
    OBVIOUS
  <2>4. r \in Seq(Chars) /\ Len(r) = k + j /\ \A i \in 1 .. k + j : r[i] = a[1 + i]
    BY <2>1, <2>3, <2>2
  <2>5. o + n <= k + j
    BY <1>8
  <2>6. \A i \in 1 .. n : v[i] = r[o + i]
    <3> SUFFICES ASSUME NEW i \in 1 .. n PROVE v[i] = r[o + i]
      OBVIOUS
    <3>1. o + i \in 1 .. k /\ o + i \in 1 .. k + j
      BY <1>8
    <3>2. r[o + i] = a[1 + (o + i)]
      BY <2>4, <3>1
    <3>3. a[1 + (o + i)] = m[o + i]
      BY <1>15, <3>1
    <3>4. QED
      BY <1>4, <3>2, <3>3
  <2>7. \A i \in (1 .. o) \cup (o + n + 1 .. k + j) : IsBlank(r[i])
    <3> SUFFICES ASSUME NEW i \in (1 .. o) \cup (o + n + 1 .. k + j) PROVE IsBlank(r[i])
      OBVIOUS
    <3>1. CASE i \in 1 .. o
      <4>1. i = 1 /\ o = 1 /\ 1 \in 1 .. k + j /\ 1 \in 1 .. k
        BY <1>8, <1>4, <3>1
      <4>2. r[1] = a[1 + 1] /\ a[1 + 1] = m[1]
        BY <1>15, <2>4, <4>1
      <4>3. QED
        BY <1>4, <4>1, <4>2, BlankIsChar
    <3>2. CASE i \in o + n + 1 .. k + j
      <4>1. PICK h \in 1 .. j : i = k + h
        <5>1. i - k \in 1 .. j /\ i = k + (i - k)
          BY <1>8, <3>2
        <5>2. QED
          BY <5>1
      <4>2. i \in 1 .. k + j /\ 1 + i = l + h
        BY <1>11, <4>1
      <4>3. r[i] = a[l + h]
        BY <2>4, <4>2
      <4>4. QED
        BY <1>16, <4>3, BlankIsChar
    <3>3. QED
      BY <3>1, <3>2
  <2>8. n # 0 => ~IsBlank(r[o + 1]) /\ ~IsBlank(r[o + n])
    <3> SUFFICES ASSUME n # 0 PROVE ~IsBlank(r[o + 1]) /\ ~IsBlank(r[o + n])
      OBVIOUS
    <3>1. 1 \in 1 .. n /\ n \in 1 .. n /\ 1 \notin 2 .. n - 1 /\ n \notin 2 .. n - 1
      OBVIOUS
    <3>2. IsWord(v[1]) /\ IsWord(v[n])
      BY <1>1, <3>1 DEF IsValue
    <3>3. ~IsBlank(v[1]) /\ ~IsBlank(v[n])
      BY <3>2 DEF IsWord
    <3>4. QED
      BY <2>6, <3>1, <3>3
  <2>9. TrimmedOf(Chars, r, v, o, n)
    BY <1>1, <2>4, <2>5, <2>6, <2>7, <2>8 DEF TrimmedOf
  <2>10. TrimF(r) = v
    BY <2>4, <2>9, TrimFits
  <2>11. QED
    BY <2>3, <2>10
<1>21. HeadFits(a, x, v)
  BY <1>12, <1>14, <1>18, <1>19, <1>20 DEF HeadFits
<1>22. QED
  BY <1>13, <1>21

-----------------------------------------------------------------------------
(* What is cut off, and what it is read as                                   *)

\* c is all of the directive d but the blank behind it.
CoreOf(c, d) ==
  /\ c \in Seq(Chars) /\ Len(c) \in Nat \ {0}
  /\ c[Len(c)] = d.end /\ d.end \in Punctuation
  /\ \A i \in 1 .. Len(c) - 1 : c[i] \notin Punctuation
  /\ ~IsBlank(c[1])
  /\ Valid(c) /\ Read(c) = d
  /\ d.end = "}" => Len(c) = 1

\* p is c with or without a blank behind it.
PieceOf(p, c) ==
  /\ p \in Seq(Chars) /\ Len(p) \in Len(c) .. Len(c) + 1
  /\ \A i \in 1 .. Len(c) : p[i] = c[i]
  /\ Len(p) # Len(c) => p[Len(p)] = SP

LEMMA MarkIs ==
  ASSUME NEW c \in Punctuation
  PROVE  c \in Chars /\ ~IsBlank(c) /\ ~IsWord(c) /\ SP \notin Punctuation
BY DEF Punctuation, Chars, IsWord, IsBlank, Blank, SP, LF, CR

LEMMA PieceFits ==
  ASSUME NEW c \in Seq(Chars), Len(c) # 0, NEW there \in BOOLEAN, NEW p, Joined(p, c, BlankIf(there))
  PROVE  PieceOf(p, c)
<1>1. PICK l \in Nat : l = Len(c) /\ l # 0
  BY LenIsNat
<1>2. PICK b \in Seq(Chars), j \in {0, 1} :
        b = BlankIf(there) /\ j = Len(b) /\ \A i \in 1 .. j : b[i] = SP
  BY BlankIfIs
<1>3. Joined(p, c, b)
  BY <1>2
<1>4. p \in Seq(Chars) /\ JoinFits(p, c, b)
  BY <1>3, JoinedIs
<1>5. Len(p) = l + j /\ (\A i \in 1 .. l : p[i] = c[i]) /\ \A i \in 1 .. j : p[l + i] = SP
  <2>1. Len(p) = l + j /\ (\A i \in 1 .. l : p[i] = c[i]) /\ \A i \in 1 .. j : p[l + i] = b[i]
    BY <1>1, <1>2, <1>4 DEF JoinFits
  <2>2. QED
    BY <1>2, <2>1
<1>6. Len(p) # l => p[Len(p)] = SP
  <2>1. Len(p) # l => j = 1 /\ 1 \in 1 .. j
    BY <1>5
  <2>2. QED
    BY <1>5, <2>1
<1>7. QED
  BY <1>1, <1>4, <1>5, <1>6 DEF PieceOf

\* A directive that closes a context.
LEMMA ClosingIs ==
  ASSUME NEW blanks
  PROVE  LET d == Says(<<>>, <<>>, "}")
         IN \E c : CoreOf(c, d) /\ PieceOf(WrittenAs(d, blanks), c)
<1> DEFINE d == Says(<<>>, <<>>, "}")
           there == "behind" \in blanks
<1>1. d.name = <<>> /\ d.value = <<>> /\ d.end = "}"
  BY DEF Says
<1>2. PICK c : c = <<"}">>
  OBVIOUS
<1>3. "}" \in Punctuation /\ "}" \in Chars
  BY DEF Punctuation, Chars
<1>4. c \in Seq(Chars) /\ Len(c) = 1 /\ c[1] = "}"
  BY <1>2, <1>3, OneOf
<1>5. Len(c) # 0
  <2>1. 1 # 0
    OBVIOUS
  <2>2. QED
    BY <1>4, <2>1
<1>6. Valid(c) /\ Read(c) = d
  BY <1>2 DEF Valid, Read
<1>7. CoreOf(c, d)
  <2> HIDE DEF d
  <2>1. ~IsBlank(c[1])
    BY <1>3, <1>4, MarkIs
  <2>2. \A i \in 1 .. 1 - 1 : c[i] \notin Punctuation
    OBVIOUS
  <2>3. 1 \in Nat \ {0}
    OBVIOUS
  <2>4. c[Len(c)] = d.end /\ d.end \in Punctuation /\ Len(c) \in Nat \ {0}
    BY <1>1, <1>3, <1>4, <2>3
  <2>5. \A i \in 1 .. Len(c) - 1 : c[i] \notin Punctuation
    BY <1>4, <2>2
  <2>6. QED
    BY <1>4, <1>6, <2>1, <2>4, <2>5 DEF CoreOf
<1>8. Joined(WrittenAs(d, blanks), c, BlankIf(there))
  <2> HIDE DEF d
  <2>1. WrittenAs(d, blanks) = <<>> \o <<>> \o <<>> \o c \o BlankIf(there)
    BY <1>1, <1>2 DEF WrittenAs, BlankIf
  <2>2. <<>> \o <<>> = <<>> /\ <<>> \o c = c
    <3>1. <<>> \in Seq(Chars)
      BY EmptySeq
    <3>2. QED
      BY <1>4, <3>1, ConcatEmptySeq
  <2>3. QED
    BY <2>1, <2>2 DEF Joined
<1>9. PieceOf(WrittenAs(d, blanks), c)
  <2>1. PICK p : p = WrittenAs(d, blanks)
    OBVIOUS
  <2> HIDE DEF d
  <2>2. there \in BOOLEAN
    OBVIOUS
  <2>3. Joined(p, c, BlankIf(there))
    BY <1>8, <2>1
  <2> HIDE DEF there
  <2>4. PieceOf(p, c)
    BY <1>4, <1>5, <2>2, <2>3, PieceFits
  <2>5. QED
    BY <2>1, <2>4
<1>10. QED
  BY <1>7, <1>9

\* One with a name: the name, its value, its end.
NamedCore(c, x, v, e) ==
  /\ c \in Seq(Chars) /\ Len(c) \in Nat \ {0} /\ Len(c) > 1
  /\ c[1] = x /\ c[2] \in Delimiter /\ c[Len(c)] = e
  /\ \A i \in 1 .. Len(c) - 1 : c[i] \notin Punctuation
  /\ TrimF(SubSeq(c, 2, Len(c) - 1)) = v

LEMMA NamedCoreIs ==
  ASSUME NEW x \in Chars, IsWord(x), NEW v, IsValue(v), NEW e \in Punctuation,
         NEW a, HeadFits(a, x, v), NEW c, Joined(c, a, <<e>>)
  PROVE  NamedCore(c, x, v, e)
<1>1. /\ a \in Seq(Chars) /\ a[1] = x
      /\ \A i \in 2 .. Len(a) : a[i] = SP \/ IsWord(a[i])
      /\ Len(a) > 1 => a[2] = SP
      /\ TrimF(From(a, 2)) = v
  BY DEF HeadFits
<1>2. PICK l \in Nat : l = Len(a) /\ l # 0
  BY DEF HeadFits
<1>3. PICK y \in Seq(Chars) : y = <<e>> /\ Len(y) = 1 /\ y[1] = e
  <2>1. e \in Chars
    BY MarkIs
  <2>2. QED
    BY <2>1, OneOf
<1>4. c \in Seq(Chars) /\ JoinFits(c, a, y)
  BY <1>1, <1>3, JoinedIs
<1>5. Len(c) = l + 1 /\ (\A i \in 1 .. l : c[i] = a[i]) /\ c[l + 1] = e
  <2>1. Len(c) = l + 1 /\ (\A i \in 1 .. l : c[i] = a[i]) /\ \A i \in 1 .. 1 : c[l + i] = y[i]
    BY <1>2, <1>3, <1>4 DEF JoinFits
  <2>2. 1 \in 1 .. 1
    OBVIOUS
  <2>3. QED
    BY <1>3, <2>1, <2>2
<1>6. c[1] = x
  BY <1>1, <1>2, <1>5
<1>7. \A i \in 1 .. l : c[i] \notin Punctuation
  <2> SUFFICES ASSUME NEW i \in 1 .. l PROVE c[i] \notin Punctuation
    OBVIOUS
  <2>1. CASE i = 1
    BY <1>6, <2>1 DEF IsWord
  <2>2. CASE i # 1
    <3>1. i \in 2 .. l
      BY <2>2
    <3>2. a[i] = SP \/ IsWord(a[i])
      BY <1>1, <1>2, <3>1
    <3>3. a[i] \notin Punctuation
      BY <3>2, MarkIs DEF IsWord
    <3>4. QED
      BY <1>5, <3>3
  <2>3. QED
    BY <2>1, <2>2
<1>8. c[2] \in Delimiter
  <2>1. CASE l = 1
    BY <1>5, <2>1 DEF Delimiter
  <2>2. CASE l # 1
    <3>1. 2 \in 1 .. l /\ l > 1
      BY <1>2, <2>2
    <3>2. c[2] = SP
      BY <1>1, <1>2, <1>5, <3>1
    <3>3. QED
      BY <3>2, BlankIsChar DEF Delimiter, IsBlank
  <2>3. QED
    BY <2>1, <2>2
<1>9. SubSeq(c, 2, l) = From(a, 2)
  <2>1. PICK r : r = From(a, 1 + 1)
    OBVIOUS
  <2>2. r \in Seq(Chars) /\ Len(r) = l - 1 /\ \A i \in 1 .. l - 1 : r[i] = a[1 + i]
    <3>1. 1 \in 0 .. Len(a)
      BY <1>2
    <3>2. QED
      BY <1>1, <1>2, <2>1, <3>1, FromIs
  <2>3. PICK z : z = SubSeq(c, 1 + 1, l)
    OBVIOUS
  <2>4. z \in Seq(Chars) /\ Len(z) = l - 1 /\ \A i \in 1 .. l - 1 : z[i] = c[1 + i]
    <3>1. l \in 0 .. Len(c) /\ 1 \in 0 .. l
      BY <1>2, <1>5
    <3>2. QED
      BY <1>4, <2>3, <3>1, SuffixIs
  <2>5. \A i \in 1 .. l - 1 : z[i] = r[i]
    <3> SUFFICES ASSUME NEW i \in 1 .. l - 1 PROVE z[i] = r[i]
      OBVIOUS
    <3>1. 1 + i \in 1 .. l
      OBVIOUS
    <3>2. QED
      BY <1>5, <2>2, <2>4, <3>1
  <2>6. z = r
    BY <1>2, <2>2, <2>4, <2>5, SeqEqual
  <2>7. 1 + 1 = 2
    OBVIOUS
  <2>8. QED
    BY <2>1, <2>3, <2>6, <2>7
<1>10. (l + 1) - 1 = l /\ l + 1 \in Nat \ {0} /\ l + 1 > 1
  BY <1>2
<1>11. QED
  BY <1>1, <1>4, <1>5, <1>6, <1>7, <1>8, <1>9, <1>10 DEF NamedCore

LEMMA NamedIs ==
  ASSUME NEW x \in Chars, IsWord(x), NEW v, NEW e \in Punctuation,
         NEW c, NamedCore(c, x, v, e)
  PROVE  NameOf(c) = <<x>> /\ Read(c) = Says(<<x>>, v, e)
<1>1. PICK n \in Nat : n = Len(c) /\ n > 1 /\ c \in Seq(Chars)
  BY DEF NamedCore
<1>2. c[1] = x /\ c[2] \in Delimiter /\ c[n] = e /\ TrimF(SubSeq(c, 2, n - 1)) = v
  BY <1>1 DEF NamedCore
<1>3. PICK p : p = FindFirstOf(c, Delimiter)
  OBVIOUS
<1>4. /\ p \in 0 .. n
      /\ p = 0 => \A i \in 1 .. n : c[i] \notin Delimiter
      /\ p # 0 => c[p] \in Delimiter /\ \A i \in 1 .. p - 1 : c[i] \notin Delimiter
  BY <1>1, <1>3, FirstOf
<1>5. x \notin Delimiter
  BY DEF IsWord, IsBlank, Delimiter
<1>6. p = 2
  <2>1. 2 \in 1 .. n
    BY <1>1
  <2>2. p # 0 /\ p # 1
    BY <1>2, <1>4, <1>5, <2>1
  <2>3. ~(p > 2)
    <3> SUFFICES ASSUME p > 2 PROVE FALSE
      OBVIOUS
    <3>1. 2 \in 1 .. p - 1
      BY <1>4
    <3>2. QED
      BY <1>2, <1>4, <2>2, <3>1
  <2>4. QED
    BY <1>4, <2>2, <2>3
<1>7. PICK z : z = Upto(c, 1)
  OBVIOUS
<1>8. z \in Seq(Chars) /\ Len(z) = 1 /\ z[1] = x
  <2>1. 1 \in 0 .. Len(c) /\ 1 \in 1 .. 1
    BY <1>1
  <2>2. z \in Seq(Chars) /\ Len(z) = 1 /\ \A i \in 1 .. 1 : z[i] = c[i]
    BY <1>1, <1>7, <2>1, UptoIs
  <2>3. QED
    BY <1>2, <2>1, <2>2
<1>9. PICK y \in Seq(Chars) : y = <<x>> /\ Len(y) = 1 /\ y[1] = x
  BY OneOf
<1>10. z = y
  <2>1. \A i \in 1 .. 1 : z[i] = y[i]
    BY <1>8, <1>9
  <2>2. QED
    BY <1>8, <1>9, <2>1, SeqEqual
<1>11. NameOf(c) = y
  <2>1. NameOf(c) = SubSeq(c, 1, p - 1) /\ p - 1 = 1
    BY <1>3, <1>6 DEF NameOf
  <2>2. QED
    BY <1>7, <1>10, <2>1 DEF Upto
<1>12. c # <<"}">>
  <2>1. "}" \in Punctuation /\ x # "}"
    BY DEF Punctuation, IsWord
  <2>2. <<"}">>[1] = "}"
    OBVIOUS
  <2>3. QED
    BY <1>2, <2>1, <2>2
<1>13. Len(NameOf(c)) + 1 = 2
  BY <1>9, <1>11
<1>14. Read(c) = Says(NameOf(c), TrimF(SubSeq(c, Len(NameOf(c)) + 1, Len(c) - 1)), c[Len(c)])
  BY <1>12 DEF Read
<1>15. Read(c) = Says(y, v, e)
  BY <1>1, <1>2, <1>11, <1>13, <1>14
<1>16. QED
  BY <1>9, <1>11, <1>15

LEMMA NamedIsCore ==
  ASSUME NEW x \in ContextNames \cup DirectiveNames, x \in Chars, IsWord(x), NEW v,
         NEW e, e = IF x \in ContextNames THEN "{" ELSE ";", NEW c, NamedCore(c, x, v, e)
  PROVE  CoreOf(c, Says(<<x>>, v, e))
<1>1. PICK n \in Nat \ {0} : n = Len(c) /\ n > 1 /\ c \in Seq(Chars)
  BY DEF NamedCore
<1>2. c[1] = x /\ c[2] \in Delimiter /\ c[n] = e /\ \A i \in 1 .. n - 1 : c[i] \notin Punctuation
  BY <1>1 DEF NamedCore
<1>3. e \in Punctuation /\ e # "}"
  BY DEF Punctuation
<1>4. Read(c) = Says(<<x>>, v, e)
  BY <1>3, NamedIs
<1>5. Known(c)
  BY <1>1, <1>2 DEF Known
<1>6. Valid(c)
  BY <1>1, <1>2, <1>5 DEF Valid
<1>7. ~IsBlank(c[1])
  BY <1>2 DEF IsWord
<1>8. PICK d : d = Says(<<x>>, v, e)
  OBVIOUS
<1>9. d.end = e
  BY <1>8 DEF Says
<1>10. CoreOf(c, d)
  BY <1>1, <1>2, <1>3, <1>4, <1>6, <1>7, <1>8, <1>9 DEF CoreOf
<1>11. QED
  BY <1>8, <1>10

LEMMA NamesAreWords ==
  ASSUME NEW x \in ContextNames \cup DirectiveNames
  PROVE  x \in Chars /\ IsWord(x)
BY NamesAssumption DEF Chars

\* However a directive is written, it is itself and a blank at most.
LEMMA PieceIs ==
  ASSUME NEW d, Sayable(d), NEW blanks
  PROVE  \E c : CoreOf(c, d) /\ PieceOf(WrittenAs(d, blanks), c)
<1>1. CASE d = Says(<<>>, <<>>, "}")
  BY <1>1, ClosingIs
<1>2. CASE d # Says(<<>>, <<>>, "}")
  <2>1. PICK x \in ContextNames \cup DirectiveNames :
          /\ d = Says(<<x>>, d.value, IF x \in ContextNames THEN "{" ELSE ";")
          /\ d.value \in Seq(STRING)
          /\ \A i \in 1 .. Len(d.value) :
               IsWord(d.value[i]) \/ (d.value[i] = SP /\ i \in 2 .. Len(d.value) - 1)
    BY <1>2 DEF Sayable
  <2>2. PICK v : v = d.value
    OBVIOUS
  <2>3. PICK e : e = IF x \in ContextNames THEN "{" ELSE ";"
    OBVIOUS
  <2>4. d = Says(<<x>>, v, e)
    BY <2>1, <2>2, <2>3
  <2>5. IsValue(v)
    <3>1. v \in Seq(Chars)
      BY <2>1, <2>2, StringsAreChars
    <3>2. QED
      BY <2>1, <2>2, <3>1 DEF IsValue
  <2>6. x \in Chars /\ IsWord(x)
    BY NamesAreWords
  <2>7. e \in Punctuation
    BY <2>3 DEF Punctuation
  <2>8. PICK there \in BOOLEAN, behind \in BOOLEAN :
          there = ("before" \in blanks) /\ behind = ("behind" \in blanks)
    <3>1. ("before" \in blanks) \in BOOLEAN
      OBVIOUS
    <3>2. ("behind" \in blanks) \in BOOLEAN
      OBVIOUS
    <3>3. \E there \in BOOLEAN : there = ("before" \in blanks)
      BY <3>1, Zenon
    <3>4. \E behind \in BOOLEAN : behind = ("behind" \in blanks)
      BY <3>2, Zenon
    <3>5. QED
      BY <3>3, <3>4, Zenon
  <2>9. PICK a : a = HeadOf(x, v, there)
    OBVIOUS
  <2>10. HeadFits(a, x, v)
    BY <2>5, <2>6, <2>9, HeadIs
  <2>11. PICK c : c = a \o <<e>>
    OBVIOUS
  <2>12. NamedCore(c, x, v, e)
    <3>1. Joined(c, a, <<e>>)
      BY <2>11 DEF Joined
    <3>2. QED
      BY <2>5, <2>6, <2>7, <2>10, <3>1, NamedCoreIs
  <2>13. CoreOf(c, d)
    BY <2>3, <2>4, <2>6, <2>12, NamedIsCore
  <2>14. PICK p : p = WrittenAs(d, blanks)
    OBVIOUS
  <2>15. Joined(p, c, BlankIf(behind))
    <3>1. d.name = <<x>> /\ d.value = v /\ d.end = e /\ <<x>> # <<>>
      BY <2>4 DEF Says
    <3>2. (d.name # <<>> /\ "before" \in blanks) = there
      BY <2>8, <3>1
    <3>3. p = <<x>> \o (IF v = <<>> THEN <<>> ELSE <<SP>> \o v) \o BlankIf(there) \o <<e>> \o BlankIf(behind)
      BY <2>8, <2>14, <3>1, <3>2 DEF WrittenAs
    <3>4. QED
      BY <2>9, <2>11, <3>3 DEF HeadOf, Joined
  <2>16. c \in Seq(Chars) /\ Len(c) # 0
    BY <2>12 DEF NamedCore
  <2>17. PieceOf(p, c)
    BY <2>15, <2>16, PieceFits
  <2>18. QED
    BY <2>13, <2>14, <2>17
<1>3. QED
  BY <1>1, <1>2

\* b begins with p, and what follows that is not blank.
StartsWith(b, p) ==
  /\ Len(p) <= Len(b)
  /\ \A i \in 1 .. Len(p) : b[i] = p[i]
  /\ Len(b) # Len(p) => ~IsBlank(b[Len(p) + 1])

\* What is cut off a text is the directive it begins with.
LEMMA PieceCut ==
  ASSUME NEW d, NEW c, CoreOf(c, d), NEW p, PieceOf(p, c), NEW b \in Seq(Chars), StartsWith(b, p)
  PROVE  WithBlanks(b, DirectiveEnd(b)) = Len(p) /\ TrimF(Upto(b, Len(p))) = c
<1>1. PICK l \in Nat : l = Len(c) /\ l # 0 /\ c \in Seq(Chars)
  BY DEF CoreOf
<1>2. PICK m \in l .. l + 1 : m = Len(p) /\ p \in Seq(Chars)
  BY <1>1 DEF PieceOf
<1>3. PICK n \in Nat : n = Len(b)
  BY LenIsNat
<1>4. /\ c[l] \in Punctuation
      /\ \A i \in 1 .. l - 1 : c[i] \notin Punctuation
      /\ ~IsBlank(c[1])
      /\ c[l] = "}" => l = 1
  BY <1>1 DEF CoreOf
<1>5. (\A i \in 1 .. l : p[i] = c[i]) /\ (m # l => p[m] = SP)
  BY <1>1, <1>2 DEF PieceOf
<1>6. m <= n /\ (\A i \in 1 .. m : b[i] = p[i]) /\ (n # m => ~IsBlank(b[m + 1]))
  BY <1>2, <1>3 DEF StartsWith
<1>7. /\ \A i \in 1 .. l : b[i] = c[i]
      /\ m # l => m = l + 1 /\ b[l + 1] = SP
  <2>1. \A i \in 1 .. l : i \in 1 .. m
    BY <1>2
  <2>2. m # l => m = l + 1 /\ m \in 1 .. m
    BY <1>2
  <2>3. QED
    BY <1>5, <1>6, <2>1, <2>2
<1>8. l \in 1 .. n /\ l \in 1 .. l
  BY <1>1, <1>2, <1>6
<1>9. DirectiveEnd(b) = l
  <2>1. PICK i : i = FindFirstOf(b, Punctuation)
    OBVIOUS
  <2>2. /\ i \in 0 .. n
        /\ i = 0 => \A j \in 1 .. n : b[j] \notin Punctuation
        /\ i # 0 => b[i] \in Punctuation /\ \A j \in 1 .. i - 1 : b[j] \notin Punctuation
    BY <1>3, <2>1, FirstOf
  <2>3. b[l] \in Punctuation
    BY <1>4, <1>7, <1>8
  <2>4. i # 0 /\ ~(l < i)
    BY <1>8, <2>2, <2>3
  <2>5. ~(i < l)
    <3> SUFFICES ASSUME i < l PROVE FALSE
      OBVIOUS
    <3>1. i \in 1 .. l - 1 /\ i \in 1 .. l
      BY <2>2, <2>4
    <3>2. QED
      BY <1>4, <1>7, <2>2, <2>4, <3>1
  <2>6. i = l
    BY <2>2, <2>4, <2>5
  <2>7. ~(b[i] = "}" /\ i > 1)
    <3>1. b[i] = c[l]
      BY <1>7, <1>8, <2>6
    <3>2. l = 1 => ~(i > 1)
      BY <2>6
    <3>3. c[l] = "}" => l = 1
      BY <1>4
    <3>4. QED
      BY <3>1, <3>2, <3>3
  <2>8. QED
    BY <2>1, <2>4, <2>6, <2>7 DEF DirectiveEnd
<1>10. PICK w : w = WithBlanks(b, l)
  OBVIOUS
<1>11. /\ w \in l .. n
       /\ \A i \in l + 1 .. w : IsBlank(b[i])
       /\ w # n => ~IsBlank(b[w + 1])
  <2>1. l \in 0 .. Len(b)
    BY <1>3, <1>8
  <2>2. BlanksTo(b, l, w)
    BY <1>10, <2>1, WithBlanksIs
  <2>3. QED
    BY <1>3, <2>2 DEF BlanksTo
<1>12. w = m
  <2>1. ~(w < m)
    <3> SUFFICES ASSUME w < m PROVE FALSE
      OBVIOUS
    <3>1. w = l /\ m # l /\ w # n
      BY <1>2, <1>6, <1>11
    <3>2. QED
      BY <1>7, <1>11, <3>1, BlankIsChar
  <2>2. ~(m < w)
    <3> SUFFICES ASSUME m < w PROVE FALSE
      OBVIOUS
    <3>1. m + 1 \in l + 1 .. w /\ n # m
      BY <1>2, <1>11
    <3>2. QED
      BY <1>6, <1>11, <3>1
  <2>3. QED
    BY <1>2, <1>11, <2>1, <2>2
<1>13. PICK y : y = Upto(b, m)
  OBVIOUS
<1>14. y \in Seq(Chars) /\ Len(y) = m /\ \A i \in 1 .. m : y[i] = b[i]
  <2>1. m \in 0 .. Len(b)
    BY <1>2, <1>3, <1>6
  <2>2. QED
    BY <1>13, <2>1, UptoIs
<1>15. TrimmedOf(Chars, y, c, 0, l)
  <2>1. 0 + l <= m
    BY <1>2
  <2>2. \A i \in 1 .. l : c[i] = y[0 + i]
    <3>1. \A i \in 1 .. l : i \in 1 .. m /\ 0 + i = i
      BY <1>2
    <3>2. QED
      BY <1>7, <1>14, <3>1
  <2>3. \A i \in (1 .. 0) \cup (0 + l + 1 .. m) : IsBlank(y[i])
    <3> SUFFICES ASSUME NEW i \in (1 .. 0) \cup (0 + l + 1 .. m) PROVE IsBlank(y[i])
      OBVIOUS
    <3>1. i = l + 1 /\ m # l /\ i \in 1 .. m
      BY <1>2
    <3>2. QED
      BY <1>7, <1>14, <3>1, BlankIsChar
  <2>4. ~IsBlank(y[0 + 1]) /\ ~IsBlank(y[0 + l])
    <3>1. 0 + 1 \in 1 .. l /\ 0 + l = l /\ 0 + 1 = 1
      BY <1>8
    <3>2. y[0 + 1] = c[1] /\ y[0 + l] = c[l]
      BY <1>8, <2>2, <3>1
    <3>3. ~IsBlank(c[l])
      BY <1>4, MarkIs
    <3>4. QED
      BY <1>4, <3>2, <3>3
  <2>5. QED
    BY <1>1, <1>14, <2>1, <2>2, <2>3, <2>4 DEF TrimmedOf
<1>16. TrimF(y) = c
  BY <1>1, <1>14, <1>15, TrimFits
<1>17. QED
  BY <1>2, <1>9, <1>10, <1>12, <1>13, <1>16

-----------------------------------------------------------------------------
(* Directives that are put behind others                                     *)

SolidsOf(ds) == [i \in 1 .. Len(ds) |-> Solid(ds[i])]

LEMMA SolidsOfIs ==
  ASSUME NEW ds \in Seq(Seq(Chars))
  PROVE  /\ SolidsOf(ds) \in Seq(Seq(Chars)) /\ Len(SolidsOf(ds)) = Len(ds)
         /\ \A i \in 1 .. Len(ds) : SolidsOf(ds)[i] = Solid(ds[i])
<1>1. PICK n \in Nat : n = Len(ds)
  BY LenIsNat
<1>2. \A i \in 1 .. n : Solid(ds[i]) \in Seq(Chars)
  <2> SUFFICES ASSUME NEW i \in 1 .. n PROVE Solid(ds[i]) \in Seq(Chars)
    OBVIOUS
  <2>1. ds[i] \in Seq(Chars)
    BY <1>1, ElementOfSeq
  <2>2. QED
    BY <2>1, SolidIsSeq
<1>3. SolidsOf(ds) = [i \in 1 .. n |-> Solid(ds[i])]
  BY <1>1 DEF SolidsOf
<1>4. SolidsOf(ds) \in [1 .. n -> Seq(Chars)] /\ \A i \in 1 .. n : SolidsOf(ds)[i] = Solid(ds[i])
  BY <1>2, <1>3
<1>5. SolidsOf(ds) \in Seq(Seq(Chars)) /\ Len(SolidsOf(ds)) = n
  BY <1>4, FunctionIsSeq
<1>6. QED
  BY <1>1, <1>4, <1>5

LEMMA SolidsAppended ==
  ASSUME NEW ds \in Seq(Seq(Chars)), NEW d \in Seq(Chars), NEW e, e = Append(ds, d)
  PROVE  /\ FlattenSeq(SolidsOf(ds)) \in Seq(Chars)
         /\ Joined(FlattenSeq(SolidsOf(e)), FlattenSeq(SolidsOf(ds)), Solid(d))
<1>1. PICK n \in Nat : n = Len(ds)
  BY LenIsNat
<1>2. PICK a \in Seq(Seq(Chars)) :
        a = e /\ Len(a) = n + 1 /\ a[n + 1] = d /\ \A i \in 1 .. n : a[i] = ds[i]
  <2>1. /\ Append(ds, d) \in Seq(Seq(Chars)) /\ Len(Append(ds, d)) = n + 1
        /\ Append(ds, d)[n + 1] = d
        /\ \A i \in 1 .. n : Append(ds, d)[i] = ds[i]
    BY <1>1, AppendProperties
  <2>2. QED
    BY <2>1
<1>3. PICK w \in Seq(Seq(Chars)) :
        w = SolidsOf(ds) /\ Len(w) = n /\ \A i \in 1 .. n : w[i] = Solid(ds[i])
  BY <1>1, SolidsOfIs
<1>4. PICK m \in Nat : m = n + 1 /\ m \in 1 .. m /\ \A i \in 1 .. n : i \in 1 .. m
  OBVIOUS
<1>5. PICK u \in Seq(Seq(Chars)) :
        u = SolidsOf(a) /\ Len(u) = m /\ \A i \in 1 .. m : u[i] = Solid(a[i])
  <2>1. Len(a) = m
    BY <1>2, <1>4
  <2>2. /\ SolidsOf(a) \in Seq(Seq(Chars)) /\ Len(SolidsOf(a)) = Len(a)
        /\ \A i \in 1 .. Len(a) : SolidsOf(a)[i] = Solid(a[i])
    BY SolidsOfIs
  <2>3. QED
    BY <2>1, <2>2
<1>6. u[m] = Solid(d)
  BY <1>2, <1>4, <1>5
<1>7. \A i \in 1 .. n : u[i] = w[i]
  BY <1>2, <1>3, <1>4, <1>5
<1>8. Len(u) = n + 1
  BY <1>4, <1>5
<1>9. FlattenSeq(w) \in Seq(Chars) /\ Joined(FlattenSeq(u), FlattenSeq(w), u[n + 1])
  BY <1>3, <1>7, <1>8, FlattenLonger
<1>10. QED
  BY <1>2, <1>3, <1>4, <1>5, <1>6, <1>9

LEMMA NoSolids ==
  ASSUME NEW s \in Seq(Chars)
  PROVE  Joined(s, FlattenSeq(SolidsOf(<<>>)), s)
<1>1. PICK e \in Seq(Seq(Chars)) : e = <<>> /\ Len(e) = 0
  BY EmptySeq
<1>2. SolidsOf(e) \in Seq(Seq(Chars)) /\ Len(SolidsOf(e)) = 0
  BY <1>1, SolidsOfIs
<1>3. SolidsOf(e) = <<>>
  BY <1>2, EmptySeq
<1>4. FlattenSeq(<<>>) = <<>>
  BY DEF FlattenSeq
<1>5. <<>> \o s = s
  BY ConcatEmptySeq
<1>6. QED
  BY <1>1, <1>3, <1>4, <1>5 DEF Joined

-----------------------------------------------------------------------------
(* The inductive invariant                                                   *)

\* What load() has read and joined is what the text says up to there.
Gathered(t, rest, b) ==
  \E k \in 0 .. Len(t) :
    /\ rest = From(t, k + 1)
    /\ b \in Seq(Chars) /\ Parting(b)
    /\ \/ ~Plains(t)[k].comment /\ b = Plains(t)[k].out
       \/ k = Len(t) /\ b = BlankAfter(Plains(t)[k].out)

\* Everything the text says is in one of the directives ds or in the rest b.
Shared(t, ds, b) ==
  /\ ds \in Seq(Seq(Chars)) /\ \A i \in 1 .. Len(ds) : ds[i] # <<>>
  /\ b \in Seq(Chars) /\ (b # <<>> => ~IsBlank(b[1]))
  /\ Joined(Solid(Plain(t)), FlattenSeq(SolidsOf(ds)), Solid(b))
  /\ ds = <<>> => b = Plain(t)

\* The directives ds are read as what the text was made to say, and b is what
\* was written of the rest.
Pieces(says, blanks) == [i \in 1 .. Len(says) |-> WrittenAs(says[i], blanks[i])]
ReadTo(k, f, t, says, ds, b) ==
  /\ k = Len(ds) /\ Len(f[k]) \in 0 .. Len(Plain(t))
  /\ b = From(Plain(t), Len(f[k]) + 1)
  /\ \A i \in 1 .. k : Read(ds[i]) = says[i]
ReadAsSaid(t, says, ds, b) ==
  \E blanks, f :
    /\ IsFlat(f, Pieces(says, blanks), Len(says), Chars)
    /\ f[Len(says)] = Plain(t)
    /\ \E k \in 0 .. Len(says) : ReadTo(k, f, t, says, ds, b)

TextIInv ==
  /\ file \in Files
  /\ stage \in {"load", "parse", "loaded", "listen", "ended"}
  /\ good \in BOOLEAN
  /\ stage = "load" => good /\ directives = <<>> /\ Gathered(file.text, unread, buffer)
  /\ stage \in {"parse", "loaded"} =>
       /\ good /\ Shared(file.text, directives, buffer)
       /\ file.says # <<>> => ReadAsSaid(file.text, file.says, directives, buffer)
  /\ stage = "loaded" => buffer = <<>>
  /\ file.says # <<>> => good
  /\ stage = "listen" /\ good => directives = <<>> /\ (file.kind # "regular" \/ unread # <<>>)
  /\ stage = "ended" =>
       /\ exitCode = CodeOfMain(good)
       /\ good => /\ directives = <<>>
                  /\ file.kind # "regular" \/ unread # <<>> \/ Plain(file.text) = <<>>

-----------------------------------------------------------------------------
(* The steps                                                                 *)

LEMMA FileText ==
  ASSUME NEW t \in {f.text : f \in Files}
  PROVE  t \in Seq(Chars)
<1>1. t \in Seq(STRING)
  BY FilesAssumption
<1>2. QED
  BY <1>1, StringsAreChars

LEMMA GatheredFirst ==
  ASSUME NEW t \in Seq(Chars)
  PROVE  Gathered(t, t, <<>>)
<1>1. PICK n \in Nat : n = Len(t)
  BY LenIsNat
<1>2. PlainsUpto(Plains(t), t, n)
  BY <1>1, PlainsAre
<1>3. Plains(t)[0] = [out |-> <<>>, comment |-> FALSE]
  BY <1>2 DEF PlainsUpto
<1>4. t = From(t, 0 + 1)
  <2>1. From(t, 1) = t
    BY WholeIs
  <2>2. 0 + 1 = 1
    OBVIOUS
  <2>3. QED
    BY <2>1, <2>2
<1>5. <<>> \in Seq(Chars) /\ Parting(<<>>)
  BY EmptySeq DEF Parting
<1>6. ~Plains(t)[0].comment /\ <<>> = Plains(t)[0].out
  BY <1>3
<1>7. 0 \in 0 .. Len(t)
  BY <1>1
<1>8. QED
  BY <1>4, <1>5, <1>6, <1>7 DEF Gathered

LEMMA TextStarts == TextInit => TextIInv
<1> SUFFICES ASSUME TextInit PROVE TextIInv
  OBVIOUS
<1>1. PICK t \in Seq(Chars) : t = file.text
  BY FileText DEF TextInit
<1>2. Gathered(t, t, <<>>)
  BY GatheredFirst
<1>3. QED
  BY <1>1, <1>2 DEF TextInit, TextIInv

\* A line: the text up to the next LF, or all there is.
LineEnd(rest) == IF Holds(rest, LF) THEN Find(rest, LF) ELSE Len(rest) + 1

LEMMA LineGathered ==
  ASSUME NEW t \in Seq(Chars), NEW rest, NEW b, Gathered(t, rest, b), rest # <<>>,
         NEW e, e = LineEnd(rest), NEW line, line = Normalize(Upto(rest, e - 1)),
         NEW c, c = IF line = <<>> THEN b ELSE Add(b, line)
  PROVE  Gathered(t, From(rest, e + 1), c)
<1>1. PICK n \in Nat : n = Len(t)
  BY LenIsNat
<1>2. PICK g : g = Plains(t)
  OBVIOUS
<1>3. PlainsUpto(g, t, n)
  BY <1>1, <1>2, PlainsAre
<1>4. PICK k \in 0 .. n :
        /\ rest = From(t, k + 1)
        /\ b \in Seq(Chars) /\ Parting(b)
        /\ \/ ~g[k].comment /\ b = g[k].out
           \/ k = n /\ b = BlankAfter(g[k].out)
  BY <1>1, <1>2 DEF Gathered
<1>5. PICK m \in Nat :
        /\ m = n - k
        /\ rest \in Seq(Chars) /\ Len(rest) = m /\ \A i \in 1 .. m : rest[i] = t[k + i]
  <2>1. k \in 0 .. Len(t) /\ n - k \in Nat
    BY <1>1
  <2>2. QED
    BY <1>1, <1>4, <2>1, FromIs
<1>6. m # 0
  BY <1>5, EmptySeq
<1>7. ~g[k].comment /\ b = g[k].out
  BY <1>4, <1>5, <1>6
<1>8. /\ e \in 1 .. m + 1
      /\ \A i \in 1 .. e - 1 : rest[i] # LF
      /\ e # m + 1 => rest[e] = LF
  <2>1. /\ Find(rest, LF) \in 0 .. m
        /\ Find(rest, LF) = 0 => \A i \in 1 .. m : rest[i] # LF
        /\ Find(rest, LF) # 0 => rest[Find(rest, LF)] = LF /\ \A i \in 1 .. Find(rest, LF) - 1 : rest[i] # LF
    BY <1>5, FindIs
  <2>2. CASE Find(rest, LF) = 0
    <3>1. e = m + 1
      BY <1>5, <2>2 DEF LineEnd, Holds
    <3>2. QED
      BY <2>1, <2>2, <3>1
  <2>3. CASE Find(rest, LF) # 0
    <3>1. e = Find(rest, LF)
      BY <2>3 DEF LineEnd, Holds
    <3>2. QED
      BY <2>1, <2>3, <3>1
  <2>4. QED
    BY <2>2, <2>3
<1>9. PICK d \in Nat : d = e - 1 /\ e = d + 1 /\ d \in 0 .. m /\ k + d \in 0 .. n /\ k + d <= n
  BY <1>5, <1>8
<1>10. PICK L : L = Upto(rest, d)
  OBVIOUS
<1>11. L \in Seq(Chars) /\ Len(L) = d /\ \A i \in 1 .. d : L[i] = t[k + i] /\ L[i] # LF
  <2>1. d \in 0 .. Len(rest)
    BY <1>5, <1>9
  <2>2. L \in Seq(Chars) /\ Len(L) = d /\ \A i \in 1 .. d : L[i] = rest[i]
    BY <1>5, <1>10, <2>1, UptoIs
  <2>3. \A i \in 1 .. d : i \in 1 .. m /\ i \in 1 .. e - 1
    BY <1>9
  <2>4. QED
    BY <1>5, <1>8, <2>2, <2>3
<1>12. line = Normalize(L)
  BY <1>9, <1>10
<1>13. line \in Seq(Chars) /\ LineAdded(g[k].out, g[k + d].out, line)
  <2>1. Parting(g[k].out)
    BY <1>4, <1>7
  <2>2. Normalize(L) \in Seq(Chars) /\ LineAdded(g[k].out, g[k + d].out, Normalize(L))
    BY <1>3, <1>7, <1>9, <1>11, <2>1, LinePlain
  <2>3. QED
    BY <1>12, <2>2
<1>14. PICK j \in 0 .. n : j = k + d
  BY <1>9
<1>15. n = k + m /\ e = d + 1 /\ j = k + d
  <2>1. n = k + m
    BY <1>5
  <2>2. e = d + 1
    BY <1>9
  <2>3. QED
    BY <1>14, <2>1, <2>2
<1>16. PICK acc \in PlainStates : acc = g[j]
  BY <1>3 DEF PlainsUpto
<1>17. c = BlankAfter(acc.out)
  BY <1>7, <1>13, <1>14, <1>16 DEF LineAdded
<1>18. c \in Seq(Chars) /\ Parting(c)
  <2>1. acc.out \in Seq(Chars)
    BY DEF PlainStates
  <2>2. BlankAfter(acc.out) \in Seq(Chars)
    BY <2>1, BlankAfterIs
  <2>3. acc.out = <<>> => Parting(BlankAfter(acc.out))
    BY DEF Parting, BlankAfter
  <2>4. QED
    BY <1>17, <2>1, <2>2, <2>3, BlankAfterParts
<1>19. CASE e = m + 1
  <2>1. j = n
    BY <1>19, <1>15
  <2>2. From(rest, e + 1) = <<>>
    <3>1. Len(rest) < e + 1 /\ e + 1 \in Int /\ Len(rest) \in Int
      BY <1>5, <1>19
    <3>2. QED
      BY <3>1, SubSeqEmpty DEF From
  <2>3. From(t, n + 1) = <<>>
    <3>1. Len(t) < n + 1 /\ n + 1 \in Int /\ Len(t) \in Int
      BY <1>1
    <3>2. QED
      BY <3>1, SubSeqEmpty DEF From
  <2>4. n \in 0 .. Len(t)
    BY <1>1
  <2>5. c = BlankAfter(Plains(t)[n].out)
    BY <1>2, <1>16, <1>17, <2>1
  <2>6. QED
    BY <1>1, <1>18, <2>2, <2>3, <2>4, <2>5 DEF Gathered
<1>20. CASE e # m + 1
  <2>1. PICK i \in 1 .. n : i = k + e /\ i - 1 = j /\ i = j + 1
    <3>1. e \in 1 .. m
      BY <1>8, <1>20
    <3>2. k + e \in 1 .. n /\ (k + e) - 1 = j /\ k + e = j + 1
      BY <1>15, <3>1
    <3>3. QED
      BY <3>2
  <2>2. t[i] = LF
    <3>1. e \in 1 .. m
      BY <1>8, <1>20
    <3>2. QED
      BY <1>5, <1>8, <1>20, <2>1, <3>1
  <2>3. g[i] = PlainStep(acc, LF)
    BY <1>3, <1>16, <2>1, <2>2 DEF PlainsUpto
  <2>4. LF \in Chars
    BY DEF Chars, Blank
  <2>5. g[i] = [out |-> BlankAfter(acc.out), comment |-> FALSE]
    BY <2>3, <2>4, PlainStepIs
  <2>6. ~Plains(t)[i].comment /\ c = Plains(t)[i].out
    BY <1>2, <1>17, <2>5
  <2>7. From(rest, e + 1) = From(t, i + 1)
    <3>1. k \in 0 .. Len(t) /\ e \in 0 .. Len(t) - k /\ k + e + 1 = i + 1
      BY <1>1, <1>5, <1>8, <1>20, <2>1
    <3>2. From(From(t, k + 1), e + 1) = From(t, k + e + 1)
      BY <3>1, FromFrom
    <3>3. QED
      BY <1>4, <3>1, <3>2
  <2>8. i \in 0 .. Len(t)
    BY <1>1
  <2>9. QED
    BY <1>18, <2>6, <2>7, <2>8 DEF Gathered
<1>21. QED
  BY <1>19, <1>20


LEMMA NoFileKeeps == TextIInv /\ NoFile => TextIInv'
<1> SUFFICES ASSUME TextIInv, NoFile PROVE TextIInv'
  OBVIOUS
<1>1. good /\ directives = <<>> /\ (file.kind # "regular" \/ unread # <<>>)
  BY DEF TextIInv, NoFile
<1>2. QED
  BY <1>1 DEF TextIInv, NoFile

LEMMA ReadLineKeeps == TextIInv /\ ReadLine => TextIInv'
<1> SUFFICES ASSUME TextIInv, ReadLine PROVE TextIInv'
  OBVIOUS
<1>1. stage = "load" /\ stage' = "load" /\ good /\ directives = <<>> /\ unread # <<>>
      /\ UNCHANGED <<file, directives, good>>
  BY DEF TextIInv, ReadLine
<1>2. PICK t \in Seq(Chars) : t = file.text
  BY FileText DEF TextIInv
<1>3. Gathered(t, unread, buffer)
  BY <1>1, <1>2 DEF TextIInv
<1>4. PICK e, line : e = LineEnd(unread) /\ line = Normalize(Upto(unread, e - 1))
  OBVIOUS
<1>5. unread' = From(unread, e + 1) /\ buffer' = IF line = <<>> THEN buffer ELSE Add(buffer, line)
  BY <1>4 DEF ReadLine, LineEnd
<1>6. Gathered(t, From(unread, e + 1), buffer')
  BY <1>1, <1>3, <1>4, <1>5, LineGathered
<1>7. Gathered(file'.text, unread', buffer')
  BY <1>1, <1>2, <1>5, <1>6
<1>8. QED
  BY <1>1, <1>7 DEF TextIInv

\* What is trimmed when there are no more lines is what the text says.
LEMMA AllGathered ==
  ASSUME NEW t \in Seq(Chars), NEW b, Gathered(t, <<>>, b)
  PROVE  TrimF(b) = Plain(t) /\ Shared(t, <<>>, Plain(t))
<1>1. PICK n \in Nat : n = Len(t)
  BY LenIsNat
<1>2. PICK g : g = Plains(t)
  OBVIOUS
<1>3. PlainsUpto(g, t, n)
  BY <1>1, <1>2, PlainsAre
<1>4. PICK k \in 0 .. n :
        /\ <<>> = From(t, k + 1)
        /\ b \in Seq(Chars) /\ Parting(b)
        /\ b = g[k].out \/ (k = n /\ b = BlankAfter(g[k].out))
  BY <1>1, <1>2 DEF Gathered
<1>5. k = n
  <2>1. k \in 0 .. Len(t)
    BY <1>1
  <2>2. Len(From(t, k + 1)) = n - k
    BY <1>1, <2>1, FromIs
  <2>3. QED
    BY <1>4, <2>2
<1>6. PICK p \in Seq(Chars) : p = g[n].out /\ Neat(p)
  <2>1. n \in 0 .. n
    OBVIOUS
  <2>2. g[n].out \in Seq(Chars)
    BY <1>3, <2>1 DEF PlainsUpto, PlainStates
  <2>3. Neat(g[n].out)
    BY <1>3, <2>1, PlainNeat
  <2>4. QED
    BY <2>2, <2>3
<1>7. b = BlankAfter(p)
  BY <1>4, <1>5, <1>6, BlankAfterParts
<1>8. Plain(t) = IF p # <<>> /\ p[Len(p)] = SP THEN Upto(p, Len(p) - 1) ELSE p
  BY <1>1, <1>2, <1>6 DEF Plain
<1>9. TrimF(b) = Plain(t)
  BY <1>6, <1>7, <1>8, PlainTrimmed
<1>10. PICK w : w = Plain(t)
  OBVIOUS
<1>11. w \in Seq(Chars) /\ (w # <<>> => ~IsBlank(w[1]))
  <2>1. PICK a \in Nat, m \in Nat : TrimmedOf(Chars, b, w, a, m)
    BY <1>4, <1>9, <1>10, TrimPlacesOf
  <2>2. /\ w \in Seq(Chars) /\ Len(w) = m
        /\ \A i \in 1 .. m : w[i] = b[a + i]
        /\ m # 0 => ~IsBlank(b[a + 1])
    BY <2>1 DEF TrimmedOf
  <2>3. w # <<>> => m # 0 /\ 1 \in 1 .. m
    BY <2>2, EmptySeq
  <2>4. QED
    BY <2>2, <2>3
<1>12. Solid(w) \in Seq(Chars)
  BY <1>11, SolidIsSeq
<1>13. Joined(Solid(w), FlattenSeq(SolidsOf(<<>>)), Solid(w))
  BY <1>12, NoSolids
<1>14. <<>> \in Seq(Seq(Chars)) /\ \A i \in 1 .. Len(<<>>) : FALSE
  BY EmptySeq
<1>15. Shared(t, <<>>, w)
  BY <1>10, <1>11, <1>13, <1>14 DEF Shared
<1>16. QED
  BY <1>9, <1>10, <1>15

\* Nothing is read yet.
LEMMA ReadFirst ==
  ASSUME NEW t, Plain(t) \in Seq(Chars), NEW says, Len(says) \in Nat,
         \A i \in 1 .. Len(says) : Sayable(says[i]), Plain(t) \in Writings(says)
  PROVE  ReadAsSaid(t, says, <<>>, Plain(t))
<1>1. PICK n \in Nat : n = Len(says)
  OBVIOUS
<1>2. PICK blanks \in [1 .. n -> SUBSET Beside] :
        Plain(t) = FlattenSeq([i \in 1 .. n |-> WrittenAs(says[i], blanks[i])])
  BY <1>1 DEF Writings
<1>3. PICK u : u = Pieces(says, blanks)
  OBVIOUS
<1>4. u = [i \in 1 .. n |-> WrittenAs(says[i], blanks[i])]
  BY <1>1, <1>3 DEF Pieces
<1>5. \A i \in 1 .. n : u[i] \in Seq(Chars)
  <2> SUFFICES ASSUME NEW i \in 1 .. n PROVE u[i] \in Seq(Chars)
    OBVIOUS
  <2>1. \E c : CoreOf(c, says[i]) /\ PieceOf(WrittenAs(says[i], blanks[i]), c)
    BY <1>1, PieceIs
  <2>2. WrittenAs(says[i], blanks[i]) \in Seq(Chars)
    BY <2>1 DEF PieceOf
  <2>3. QED
    BY <1>4, <2>2
<1>6. u \in Seq(Seq(Chars)) /\ Len(u) = n
  <2>1. u \in [1 .. n -> Seq(Chars)]
    BY <1>4, <1>5
  <2>2. QED
    BY <2>1, FunctionIsSeq
<1>7. PICK f : IsFlat(f, u, n, Chars)
  BY <1>5, FlatExists
<1>8. Plain(t) = f[n]
  <2>1. n = 0 => u = <<>>
    BY <1>6, EmptySeq
  <2>2. PICK v : v = u /\ IsFlat(f, v, n, Chars) /\ Len(v) = n /\ (n = 0 => v = <<>>)
    BY <1>6, <1>7, <2>1
  <2>3. FlattenSeq(v) = f[n]
    BY <2>2, FlattenIs
  <2>4. QED
    BY <1>2, <1>4, <2>2, <2>3
<1>9. ReadTo(0, f, t, says, <<>>, Plain(t))
  <2>1. Len(f[0]) = 0
    BY <1>7, FlatLengths
  <2>2. From(Plain(t), 1) = Plain(t) /\ 0 + 1 = 1 /\ 0 \in 0 .. Len(Plain(t))
    BY LenIsNat, WholeIs
  <2>3. 0 = Len(<<>>) /\ \A i \in 1 .. 0 : FALSE
    OBVIOUS
  <2>4. QED
    BY <2>1, <2>2, <2>3 DEF ReadTo
<1>10. 0 \in 0 .. n
  OBVIOUS
<1>11. QED
  BY <1>1, <1>3, <1>7, <1>8, <1>9, <1>10 DEF ReadAsSaid

LEMMA FileSays ==
  ASSUME NEW f \in Files, f.says # <<>>
  PROVE  /\ Len(f.says) \in Nat
         /\ \A i \in 1 .. Len(f.says) : Sayable(f.says[i])
         /\ Plain(f.text) \in Writings(f.says)
<1>1. /\ f.says \in Seq([name : Seq(STRING), value : Seq(STRING), end : Punctuation])
      /\ \A i \in 1 .. Len(f.says) : Sayable(f.says[i])
      /\ Plain(f.text) \in Writings(f.says)
  BY FilesAssumption
<1>2. Len(f.says) \in Nat
  BY <1>1, LenIsNat
<1>3. QED
  BY <1>1, <1>2

LEMMA LinesEndKeeps == TextIInv /\ LinesEnd => TextIInv'
<1> SUFFICES ASSUME TextIInv, LinesEnd PROVE TextIInv'
  OBVIOUS
<1>1. /\ stage = "load" /\ stage' = "parse" /\ good /\ directives = <<>>
      /\ unread = <<>> /\ buffer' = TrimF(buffer) /\ UNCHANGED <<file, directives, good>>
  BY DEF TextIInv, LinesEnd
<1>2. PICK t \in Seq(Chars) : t = file.text
  BY FileText DEF TextIInv
<1>3. Gathered(t, <<>>, buffer)
  BY <1>1, <1>2 DEF TextIInv
<1>4. TrimF(buffer) = Plain(t) /\ Shared(t, <<>>, Plain(t))
  BY <1>3, AllGathered
<1>5. Shared(file'.text, directives', buffer')
  BY <1>1, <1>2, <1>4
<1>6. file.says # <<>> => ReadAsSaid(t, file.says, <<>>, Plain(t))
  <2> SUFFICES ASSUME file.says # <<>> PROVE ReadAsSaid(t, file.says, <<>>, Plain(t))
    OBVIOUS
  <2>1. /\ Len(file.says) \in Nat
        /\ \A i \in 1 .. Len(file.says) : Sayable(file.says[i])
        /\ Plain(t) \in Writings(file.says)
    BY <1>2, FileSays DEF TextIInv
  <2>2. Plain(t) \in Seq(Chars)
    BY <1>4 DEF Shared
  <2>3. QED
    BY <2>1, <2>2, ReadFirst
<1>7. file'.says # <<>> => ReadAsSaid(file'.text, file'.says, directives', buffer')
  BY <1>1, <1>2, <1>4, <1>6
<1>8. QED
  BY <1>1, <1>5, <1>7 DEF TextIInv


\* Where a piece is in the whole.
PieceIn(f, u, n, k) ==
  /\ Len(f[k - 1]) \in Nat /\ Len(u[k]) \in Nat
  /\ Len(f[k]) = Len(f[k - 1]) + Len(u[k])
  /\ Len(f[k]) <= Len(f[n])
  /\ \A j \in 1 .. Len(u[k]) : f[n][Len(f[k - 1]) + j] = u[k][j]

LEMMA PieceIsIn ==
  ASSUME NEW f, NEW u, NEW n, IsFlat(f, u, n, Chars), NEW k \in 1 .. n
  PROVE  PieceIn(f, u, n, k)
<1>1. PieceAt(f, u, k)
  BY FlatLengths
<1>2. PICK a \in Nat, m \in Nat :
        /\ a = Len(f[k - 1]) /\ m = Len(u[k]) /\ Len(f[k]) = a + m
        /\ \A j \in 1 .. m : f[k][a + j] = u[k][j]
  BY <1>1 DEF PieceAt
<1>3. n \in 0 .. n /\ k \in 0 .. n
  BY DEF IsFlat
<1>4. Begins(f, k, n)
  BY <1>3, FlatPrefixes
<1>5. Len(f[k]) <= Len(f[n]) /\ \A i \in 1 .. a + m : f[n][i] = f[k][i]
  BY <1>2, <1>4 DEF Begins
<1>6. \A j \in 1 .. m : f[n][a + j] = u[k][j]
  <2> SUFFICES ASSUME NEW j \in 1 .. m PROVE f[n][a + j] = u[k][j]
    OBVIOUS
  <2>1. a + j \in 1 .. a + m
    OBVIOUS
  <2>2. QED
    BY <1>2, <1>5, <2>1
<1>7. QED
  BY <1>2, <1>5, <1>6 DEF PieceIn

\* What is written of a directive that a file says.
LEMMA PieceWritten ==
  ASSUME NEW says, NEW blanks, NEW i \in 1 .. Len(says), Sayable(says[i])
  PROVE  \E c : CoreOf(c, says[i]) /\ PieceOf(Pieces(says, blanks)[i], c)
<1>1. Pieces(says, blanks)[i] = WrittenAs(says[i], blanks[i])
  BY DEF Pieces
<1>2. QED
  BY <1>1, PieceIs

LEMMA PieceBegins ==
  ASSUME NEW p, NEW c, NEW d, CoreOf(c, d), PieceOf(p, c)
  PROVE  p \in Seq(Chars) /\ Len(p) \in Nat \ {0} /\ p[1] = c[1] /\ ~IsBlank(p[1])
<1>1. PICK l \in Nat : l = Len(c) /\ l # 0 /\ ~IsBlank(c[1])
  BY DEF CoreOf
<1>2. p \in Seq(Chars) /\ Len(p) \in l .. l + 1 /\ \A i \in 1 .. l : p[i] = c[i]
  BY <1>1 DEF PieceOf
<1>3. 1 \in 1 .. l /\ \A i \in l .. l + 1 : i \in Nat \ {0}
  BY <1>1
<1>4. QED
  BY <1>1, <1>2, <1>3

\* The text P, piece by piece, and what is left of it after k of them.
WrittenSo(P, says, n, blanks, u, f) ==
  /\ P \in Seq(Chars)
  /\ n \in Nat /\ n = Len(says) /\ \A i \in 1 .. n : Sayable(says[i])
  /\ u = Pieces(says, blanks)
  /\ IsFlat(f, u, n, Chars) /\ f[n] = P
LeftOf(P, f, k, b) == Len(f[k]) \in 0 .. Len(P) /\ b = From(P, Len(f[k]) + 1)

\* One piece: what is left begins with it.
OneRead(P, says, u, f, k, b) ==
  \E c : /\ CoreOf(c, says[k]) /\ PieceOf(u[k], c)
         /\ b \in Seq(Chars) /\ StartsWith(b, u[k])
         /\ LeftOf(P, f, k, From(b, Len(u[k]) + 1))

LEMMA ReadOne ==
  ASSUME NEW P, NEW says, NEW n, NEW blanks, NEW u, NEW f, WrittenSo(P, says, n, blanks, u, f),
         NEW k \in 1 .. n, NEW b, LeftOf(P, f, k - 1, b)
  PROVE  OneRead(P, says, u, f, k, b)
<1>1. /\ P \in Seq(Chars)
      /\ n \in Nat /\ n = Len(says) /\ (\A i \in 1 .. n : Sayable(says[i]))
      /\ u = Pieces(says, blanks)
      /\ IsFlat(f, u, n, Chars) /\ f[n] = P
      /\ b = From(P, Len(f[k - 1]) + 1)
  BY DEF WrittenSo, LeftOf
<1>2. PICK c : CoreOf(c, says[k]) /\ PieceOf(u[k], c)
  <2>1. k \in 1 .. Len(says) /\ Sayable(says[k])
    BY <1>1
  <2>2. QED
    BY <1>1, <2>1, PieceWritten
<1>3. PICK N \in Nat : N = Len(P)
  BY <1>1, LenIsNat
<1>4. PieceIn(f, u, n, k)
  BY <1>1, PieceIsIn
<1>5. PICK a \in Nat, m \in Nat :
        /\ a = Len(f[k - 1]) /\ m = Len(u[k]) /\ Len(f[k]) = a + m /\ a + m <= N
        /\ \A j \in 1 .. m : P[a + j] = u[k][j]
  BY <1>1, <1>3, <1>4 DEF PieceIn
<1>6. PICK x \in Nat : x = Len(f[k]) /\ x = a + m
  <2>1. Len(f[k]) = a + m
    BY <1>5
  <2>2. a + m \in Nat
    OBVIOUS
  <2>3. QED
    BY <2>1, <2>2
<1>7. a + m <= N
  BY <1>5
<1>8. a \in 0 .. N /\ m \in 0 .. N - a /\ a + m \in 0 .. N /\ N - a \in Nat
  BY <1>7
<1>9. b \in Seq(Chars) /\ Len(b) = N - a /\ \A i \in 1 .. N - a : b[i] = P[a + i]
  <2>1. a \in 0 .. Len(P)
    BY <1>3, <1>8
  <2>2. b = From(P, a + 1)
    BY <1>1, <1>5
  <2>3. /\ From(P, a + 1) \in Seq(Chars) /\ Len(From(P, a + 1)) = Len(P) - a
        /\ \A i \in 1 .. Len(P) - a : From(P, a + 1)[i] = P[a + i]
    BY <1>1, <2>1, FromIs
  <2>4. QED
    BY <1>3, <2>2, <2>3
<1>10. \A i \in 1 .. m : b[i] = u[k][i]
  <2> SUFFICES ASSUME NEW i \in 1 .. m PROVE b[i] = u[k][i]
    OBVIOUS
  <2>1. i \in 1 .. N - a
    BY <1>8
  <2>2. QED
    BY <1>5, <1>9, <2>1
<1>11. N - a # m => ~IsBlank(b[m + 1])
  <2> SUFFICES ASSUME N - a # m PROVE ~IsBlank(b[m + 1])
    OBVIOUS
  <2>1. a + m < N
    BY <1>7
  <2>2. k # n
    <3>1. Len(f[k]) # N
      BY <1>6, <2>1
    <3>2. Len(f[n]) = N
      BY <1>1, <1>3
    <3>3. QED
      BY <3>1, <3>2
  <2>3. PICK l \in 1 .. n : l = k + 1 /\ l - 1 = k
    <3>1. k + 1 \in 1 .. n /\ (k + 1) - 1 = k
      BY <1>1, <2>2
    <3>2. QED
      BY <3>1
  <2>4. PICK e : CoreOf(e, says[l]) /\ PieceOf(u[l], e)
    <3>1. l \in 1 .. Len(says) /\ Sayable(says[l])
      BY <1>1
    <3>2. QED
      BY <1>1, <3>1, PieceWritten
  <2>5. Len(u[l]) \in Nat \ {0} /\ ~IsBlank(u[l][1])
    BY <2>4, PieceBegins
  <2>6. PieceIn(f, u, n, l)
    BY <1>1, PieceIsIn
  <2>7. P[(a + m) + 1] = u[l][1]
    <3>1. \A j \in 1 .. Len(u[l]) : f[n][Len(f[l - 1]) + j] = u[l][j]
      BY <2>6 DEF PieceIn
    <3>2. \A j \in 1 .. Len(u[l]) : P[x + j] = u[l][j]
      BY <1>1, <1>6, <2>3, <3>1
    <3>3. 1 \in 1 .. Len(u[l])
      BY <2>5
    <3>4. QED
      BY <1>6, <3>2, <3>3
  <2>8. m + 1 \in 1 .. N - a /\ a + (m + 1) = (a + m) + 1
    BY <2>1
  <2>9. b[m + 1] = u[l][1]
    BY <1>9, <2>7, <2>8
  <2>10. QED
    BY <2>5, <2>9
<1>12. StartsWith(b, u[k])
  <2>1. m <= N - a
    BY <1>8
  <2>2. QED
    BY <1>5, <1>9, <1>10, <1>11, <2>1 DEF StartsWith
<1>13. From(b, m + 1) = From(P, a + m + 1)
  <2>1. a \in 0 .. Len(P) /\ m \in 0 .. Len(P) - a
    BY <1>3, <1>8
  <2>2. From(From(P, a + 1), m + 1) = From(P, a + m + 1)
    BY <1>1, <2>1, FromFrom
  <2>3. QED
    BY <1>1, <1>5, <2>2
<1>14. a + m \in 0 .. Len(P)
  BY <1>3, <1>8
<1>15. LeftOf(P, f, k, From(b, Len(u[k]) + 1))
  BY <1>5, <1>13, <1>14 DEF LeftOf
<1>16. QED
  BY <1>2, <1>9, <1>12, <1>15 DEF OneRead

LEMMA ReadNext ==
  ASSUME NEW t, Plain(t) \in Seq(Chars), NEW says, Len(says) \in Nat,
         \A i \in 1 .. Len(says) : Sayable(says[i]),
         NEW ds \in Seq(Seq(Chars)), NEW b, ReadAsSaid(t, says, ds, b), b # <<>>,
         NEW w, w = WithBlanks(b, DirectiveEnd(b)), NEW d \in Seq(Chars), d = TrimF(Upto(b, w))
  PROVE  Valid(d) /\ ReadAsSaid(t, says, Append(ds, d), From(b, w + 1))
<1>1. PICK n \in Nat : n = Len(says)
  OBVIOUS
<1>2. PICK P \in Seq(Chars) : P = Plain(t)
  OBVIOUS
<1>3. PICK N \in Nat : N = Len(P)
  BY LenIsNat
<1>4. PICK blanks, f :
        /\ IsFlat(f, Pieces(says, blanks), n, Chars)
        /\ f[n] = P
        /\ \E k \in 0 .. n : ReadTo(k, f, t, says, ds, b)
  BY <1>1, <1>2 DEF ReadAsSaid
<1>5. PICK k \in 0 .. n : ReadTo(k, f, t, says, ds, b)
  BY <1>4
<1>6. PICK u : u = Pieces(says, blanks)
  OBVIOUS
<1>7. /\ k = Len(ds) /\ Len(f[k]) \in 0 .. N
      /\ b = From(P, Len(f[k]) + 1)
      /\ \A i \in 1 .. k : Read(ds[i]) = says[i]
  BY <1>2, <1>3, <1>5 DEF ReadTo
<1>8. k # n
  <2> SUFFICES ASSUME k = n PROVE FALSE
    OBVIOUS
  <2>1. b = From(P, N + 1)
    BY <1>3, <1>4, <1>7
  <2>2. Len(P) < N + 1 /\ N + 1 \in Int /\ Len(P) \in Int
    BY <1>3
  <2>3. b = <<>>
    BY <2>1, <2>2, SubSeqEmpty DEF From
  <2>4. QED
    BY <2>3
<1>9. PICK l \in 1 .. n : l = k + 1 /\ l - 1 = k
  <2>1. k + 1 \in 1 .. n /\ (k + 1) - 1 = k
    BY <1>8
  <2>2. QED
    BY <2>1
<1>10. PICK c : /\ CoreOf(c, says[l]) /\ PieceOf(u[l], c)
                /\ b \in Seq(Chars) /\ StartsWith(b, u[l])
                /\ Len(f[l]) \in 0 .. N
                /\ From(b, Len(u[l]) + 1) = From(P, Len(f[l]) + 1)
  <2>1. LeftOf(P, f, l - 1, b)
    BY <1>3, <1>7, <1>9 DEF LeftOf
  <2>2. WrittenSo(P, says, n, blanks, u, f)
    BY <1>1, <1>4, <1>6 DEF WrittenSo
  <2>3. OneRead(P, says, u, f, l, b)
    BY <2>1, <2>2, ReadOne
  <2>4. QED
    BY <1>3, <2>3 DEF OneRead, LeftOf
<1>11. w = Len(u[l]) /\ d = c
  <2>1. WithBlanks(b, DirectiveEnd(b)) = Len(u[l]) /\ TrimF(Upto(b, Len(u[l]))) = c
    BY <1>10, PieceCut
  <2>2. QED
    BY <2>1
<1>12. Valid(d) /\ Read(d) = says[l]
  BY <1>10, <1>11 DEF CoreOf
<1>13. PICK e \in Seq(Seq(Chars)) :
         e = Append(ds, d) /\ Len(e) = k + 1 /\ e[k + 1] = d /\ \A i \in 1 .. k : e[i] = ds[i]
  <2>1. /\ Append(ds, d) \in Seq(Seq(Chars)) /\ Len(Append(ds, d)) = Len(ds) + 1
        /\ Append(ds, d)[Len(ds) + 1] = d
        /\ \A i \in 1 .. Len(ds) : Append(ds, d)[i] = ds[i]
    BY AppendProperties
  <2>2. QED
    BY <1>7, <2>1
<1>14. \A i \in 1 .. l : Read(e[i]) = says[i]
  <2> SUFFICES ASSUME NEW i \in 1 .. l PROVE Read(e[i]) = says[i]
    OBVIOUS
  <2>1. CASE i = l
    BY <1>9, <1>12, <1>13, <2>1
  <2>2. CASE i # l
    <3>1. i \in 1 .. k
      BY <1>9, <2>2
    <3>2. QED
      BY <1>7, <1>13, <3>1
  <2>3. QED
    BY <2>1, <2>2
<1>15. ReadTo(l, f, t, says, e, From(b, w + 1))
  BY <1>2, <1>3, <1>9, <1>10, <1>11, <1>13, <1>14 DEF ReadTo
<1>16. l \in 0 .. n
  OBVIOUS
<1>17. ReadAsSaid(t, says, e, From(b, w + 1))
  BY <1>1, <1>2, <1>4, <1>15, <1>16 DEF ReadAsSaid
<1>18. QED
  BY <1>12, <1>13, <1>17

\* A directive more, that much less of the rest.
LEMMA SharedNext ==
  ASSUME NEW t, Plain(t) \in Seq(Chars), NEW ds, NEW b, Shared(t, ds, b), b # <<>>,
         NEW w, w = WithBlanks(b, DirectiveEnd(b)), NEW d, d = TrimF(Upto(b, w))
  PROVE  d \in Seq(Chars) /\ Shared(t, Append(ds, d), From(b, w + 1))
<1>1. /\ ds \in Seq(Seq(Chars)) /\ \A i \in 1 .. Len(ds) : ds[i] # <<>>
      /\ b \in Seq(Chars) /\ ~IsBlank(b[1])
      /\ Joined(Solid(Plain(t)), FlattenSeq(SolidsOf(ds)), Solid(b))
  BY DEF Shared
<1>2. IsCut(b, w, d)
  BY <1>1, CutIs
<1>3. PICK r \in Seq(Chars) : r = From(b, w + 1) /\ (r # <<>> => ~IsBlank(r[1]))
  BY <1>2 DEF IsCut
<1>4. d \in Seq(Chars) /\ d # <<>> /\ Joined(Solid(b), Solid(d), Solid(r))
  BY <1>2, <1>3 DEF IsCut
<1>5. PICK e : e = Append(ds, d)
  OBVIOUS
<1>6. FlattenSeq(SolidsOf(ds)) \in Seq(Chars)
      /\ Joined(FlattenSeq(SolidsOf(e)), FlattenSeq(SolidsOf(ds)), Solid(d))
  BY <1>1, <1>4, <1>5, SolidsAppended
<1>7. Solid(d) \in Seq(Chars) /\ Solid(r) \in Seq(Chars)
  BY <1>4, SolidIsSeq
<1>8. Joined(Solid(Plain(t)), FlattenSeq(SolidsOf(e)), Solid(r))
  BY <1>1, <1>4, <1>6, <1>7, JoinedAgain
<1>9. e \in Seq(Seq(Chars)) /\ (\A i \in 1 .. Len(e) : e[i] # <<>>) /\ e # <<>>
  <2>1. PICK n \in Nat : n = Len(ds)
    BY <1>1, LenIsNat
  <2>2. e \in Seq(Seq(Chars)) /\ Len(e) = n + 1 /\ e[n + 1] = d /\ \A i \in 1 .. n : e[i] = ds[i]
    BY <1>1, <1>4, <1>5, <2>1, AppendProperties
  <2>3. \A i \in 1 .. n + 1 : i \in 1 .. n \/ i = n + 1
    OBVIOUS
  <2>4. \A i \in 1 .. n + 1 : e[i] # <<>>
    BY <1>1, <1>4, <2>1, <2>2, <2>3
  <2>5. e # <<>>
    BY <2>1, <2>2, EmptySeq
  <2>6. QED
    BY <2>2, <2>4, <2>5
<1>10. Shared(t, e, r)
  BY <1>3, <1>8, <1>9 DEF Shared
<1>11. QED
  BY <1>3, <1>4, <1>5, <1>10


LEMMA PlainIsText ==
  ASSUME NEW t \in Seq(Chars)
  PROVE  Plain(t) \in Seq(Chars)
<1>1. PICK n \in Nat : n = Len(t)
  BY LenIsNat
<1>2. PICK p \in Seq(Chars) : p = Plains(t)[n].out
  <2>1. PlainsUpto(Plains(t), t, n) /\ n \in 0 .. n
    BY <1>1, PlainsAre
  <2>2. Plains(t)[n].out \in Seq(Chars)
    BY <2>1 DEF PlainsUpto, PlainStates
  <2>3. QED
    BY <2>2
<1>3. Plain(t) = IF p # <<>> /\ p[Len(p)] = SP THEN Upto(p, Len(p) - 1) ELSE p
  BY <1>1, <1>2 DEF Plain
<1>4. p # <<>> => Upto(p, Len(p) - 1) \in Seq(Chars)
  <2> SUFFICES ASSUME p # <<>> PROVE Upto(p, Len(p) - 1) \in Seq(Chars)
    OBVIOUS
  <2>1. PICK m \in 0 .. Len(p) : m = Len(p) - 1
    <3>1. Len(p) \in Nat \ {0}
      BY EmptySeq
    <3>2. Len(p) - 1 \in 0 .. Len(p)
      BY <3>1
    <3>3. QED
      BY <3>2
  <2>2. QED
    BY <2>1, UptoIs
<1>5. QED
  BY <1>3, <1>4

LEMMA NextDirectiveKeeps == TextIInv /\ NextDirective => TextIInv'
<1> SUFFICES ASSUME TextIInv, NextDirective PROVE TextIInv'
  OBVIOUS
<1>1. PICK t \in Seq(Chars) : t = file.text
  BY FileText DEF TextIInv
<1>2. Plain(t) \in Seq(Chars)
  BY <1>1, PlainIsText
<1>3. PICK w : w = WithBlanks(buffer, DirectiveEnd(buffer))
  OBVIOUS
<1>4. PICK d : d = TrimF(Upto(buffer, w))
  OBVIOUS
<1>5. /\ stage = "parse" /\ buffer # <<>>
      /\ directives' = Append(directives, d)
      /\ buffer' = From(buffer, w + 1)
      /\ Valid(d) => UNCHANGED <<good, stage>>
      /\ ~Valid(d) => good' = FALSE /\ stage' = "listen"
      /\ UNCHANGED <<file, unread, exitCode>>
  BY <1>3, <1>4 DEF NextDirective
<1>6. good /\ Shared(t, directives, buffer)
  BY <1>1, <1>5 DEF TextIInv
<1>7. d \in Seq(Chars) /\ Shared(t, directives', buffer')
  BY <1>2, <1>3, <1>4, <1>5, <1>6, SharedNext
<1>8. file.says # <<>> => Valid(d) /\ ReadAsSaid(t, file.says, directives', buffer')
  <2> SUFFICES ASSUME file.says # <<>>
               PROVE  Valid(d) /\ ReadAsSaid(t, file.says, directives', buffer')
    OBVIOUS
  <2>1. ReadAsSaid(t, file.says, directives, buffer)
    BY <1>1, <1>5 DEF TextIInv
  <2>2. Len(file.says) \in Nat /\ \A i \in 1 .. Len(file.says) : Sayable(file.says[i])
    BY FileSays DEF TextIInv
  <2>3. directives \in Seq(Seq(Chars))
    BY <1>6 DEF Shared
  <2>4. QED
    BY <1>2, <1>3, <1>4, <1>5, <1>7, <2>1, <2>2, <2>3, ReadNext
<1>9. Shared(file'.text, directives', buffer')
  BY <1>1, <1>5, <1>7
<1>10. file'.says # <<>> => ReadAsSaid(file'.text, file'.says, directives', buffer')
  BY <1>1, <1>5, <1>8
<1>11. CASE Valid(d)
  BY <1>5, <1>6, <1>9, <1>10, <1>11 DEF TextIInv
<1>12. CASE ~Valid(d)
  <2>1. file.says = <<>>
    BY <1>8, <1>12
  <2>2. QED
    BY <1>5, <1>12, <2>1 DEF TextIInv
<1>13. QED
  BY <1>11, <1>12

LEMMA LoadedKeeps == TextIInv /\ Loaded => TextIInv'
<1> SUFFICES ASSUME TextIInv, Loaded PROVE TextIInv'
  OBVIOUS
<1>1. /\ stage = "parse" /\ stage' = "loaded" /\ buffer' = <<>>
      /\ UNCHANGED <<file, unread, buffer, directives, good, exitCode>>
  BY DEF Loaded
<1>2. /\ good /\ Shared(file.text, directives, buffer)
      /\ file.says # <<>> => ReadAsSaid(file.text, file.says, directives, buffer)
  BY <1>1 DEF TextIInv
<1>3. QED
  BY <1>1, <1>2 DEF TextIInv

LEMMA MainEndsKeeps == TextIInv /\ MainEnds => TextIInv'
<1> SUFFICES ASSUME TextIInv, MainEnds PROVE TextIInv'
  OBVIOUS
<1>1. /\ stage' = "ended" /\ exitCode' = CodeOfMain(good)
      /\ UNCHANGED <<file, unread, buffer, directives, good>>
      /\ stage = "listen" \/ (stage = "loaded" /\ directives = <<>>)
  BY DEF MainEnds
<1>2. good => directives = <<>> /\ (file.kind # "regular" \/ unread # <<>> \/ Plain(file.text) = <<>>)
  <2>1. CASE stage = "listen"
    BY <2>1 DEF TextIInv
  <2>2. CASE stage = "loaded" /\ directives = <<>>
    <3>1. Plain(file.text) = buffer /\ buffer = <<>>
      BY <2>2 DEF TextIInv, Shared
    <3>2. QED
      BY <2>2, <3>1
  <2>3. QED
    BY <1>1, <2>1, <2>2
<1>3. exitCode' = CodeOfMain(good')
  BY <1>1
<1>4. QED
  BY <1>1, <1>2, <1>3 DEF TextIInv

LEMMA TextKept == TextIInv /\ [TextNext]_textVars => TextIInv'
<1> SUFFICES ASSUME TextIInv, [TextNext]_textVars PROVE TextIInv'
  OBVIOUS
<1>1. CASE NoFile
  BY <1>1, NoFileKeeps
<1>2. CASE ReadLine
  BY <1>2, ReadLineKeeps
<1>3. CASE LinesEnd
  BY <1>3, LinesEndKeeps
<1>4. CASE NextDirective
  BY <1>4, NextDirectiveKeeps
<1>5. CASE Loaded
  BY <1>5, LoadedKeeps
<1>6. CASE MainEnds
  BY <1>6, MainEndsKeeps
<1>7. CASE UNCHANGED textVars
  BY <1>7 DEF textVars, TextIInv
<1>8. QED
  BY <1>1, <1>2, <1>3, <1>4, <1>5, <1>6, <1>7 DEF TextNext

-----------------------------------------------------------------------------
(* What it is for                                                            *)

\* When nothing is left, everything the file says was read.
LEMMA ReadAll ==
  ASSUME NEW t, Plain(t) \in Seq(Chars), NEW S, NEW says \in Seq(S),
         \A i \in 1 .. Len(says) : Sayable(says[i]),
         NEW ds, ReadAsSaid(t, says, ds, <<>>)
  PROVE  [i \in 1 .. Len(ds) |-> Read(ds[i])] = says
<1>1. PICK n \in Nat : n = Len(says)
  BY LenIsNat
<1>2. PICK P \in Seq(Chars) : P = Plain(t)
  OBVIOUS
<1>3. PICK blanks, f :
        /\ IsFlat(f, Pieces(says, blanks), n, Chars)
        /\ f[n] = P
        /\ \E k \in 0 .. n : ReadTo(k, f, t, says, ds, <<>>)
  BY <1>1, <1>2 DEF ReadAsSaid
<1>4. PICK k \in 0 .. n : ReadTo(k, f, t, says, ds, <<>>)
  BY <1>3
<1>5. PICK N \in Nat : N = Len(P)
  BY LenIsNat
<1>6. PICK a \in 0 .. N : a = Len(f[k]) /\ <<>> = From(P, a + 1)
  BY <1>2, <1>4, <1>5 DEF ReadTo
<1>7. a = N
  <2>1. a \in 0 .. Len(P)
    BY <1>5
  <2>2. Len(From(P, a + 1)) = N - a
    BY <1>5, <2>1, FromIs
  <2>3. N - a = 0
    <3>1. Len(From(P, a + 1)) = 0
      BY <1>6
    <3>2. QED
      BY <2>2, <3>1
  <2>4. QED
    BY <2>3
<1>8. k = n
  <2> SUFFICES ASSUME k # n PROVE FALSE
    OBVIOUS
  <2>1. PICK l \in 1 .. n : l - 1 = k
    <3>1. k + 1 \in 1 .. n /\ (k + 1) - 1 = k
      OBVIOUS
    <3>2. QED
      BY <3>1
  <2>2. PICK u : u = Pieces(says, blanks)
    OBVIOUS
  <2>3. PICK c : CoreOf(c, says[l]) /\ PieceOf(u[l], c)
    <3>1. l \in 1 .. Len(says) /\ Sayable(says[l])
      BY <1>1
    <3>2. QED
      BY <2>2, <3>1, PieceWritten
  <2>4. Len(u[l]) \in Nat \ {0}
    BY <2>3, PieceBegins
  <2>5. PieceIn(f, u, n, l)
    BY <1>3, <2>2, PieceIsIn
  <2>6. a + Len(u[l]) <= N
    BY <1>3, <1>5, <1>6, <2>1, <2>5 DEF PieceIn
  <2>7. QED
    BY <1>7, <2>4, <2>6
<1>9. n = Len(ds) /\ \A i \in 1 .. n : Read(ds[i]) = says[i]
  BY <1>4, <1>8 DEF ReadTo
<1>10. says = [i \in 1 .. n |-> says[i]]
  BY <1>1
<1>11. [i \in 1 .. n |-> Read(ds[i])] = [i \in 1 .. n |-> says[i]]
  BY <1>9
<1>12. QED
  BY <1>9, <1>10, <1>11

LEMMA TextSuffices == TextIInv => TextAsWritten
<1> SUFFICES ASSUME TextIInv PROVE TextAsWritten
  OBVIOUS
<1>1. PICK t \in Seq(Chars) : t = file.text
  BY FileText DEF TextIInv
<1>2. NothingLost
  <2> SUFFICES ASSUME stage \in {"parse", "loaded"} PROVE NothingLost
    BY DEF NothingLost
  <2>1. Shared(file.text, directives, buffer)
    BY DEF TextIInv
  <2>2. /\ Solid(Plain(file.text)) = FlattenSeq(SolidsOf(directives)) \o Solid(buffer)
        /\ \A i \in 1 .. Len(directives) : directives[i] # <<>>
    BY <2>1 DEF Shared, Joined
  <2>3. QED
    BY <2>2 DEF NothingLost, SolidsOf
<1>3. LayoutIrrelevant
  <2> SUFFICES ASSUME file.says # <<>>
               PROVE  /\ good
                      /\ stage = "loaded" =>
                           [i \in 1 .. Len(directives) |-> Read(directives[i])] = file.says
    BY DEF LayoutIrrelevant
  <2>1. good
    BY DEF TextIInv
  <2>2. ASSUME stage = "loaded"
        PROVE  [i \in 1 .. Len(directives) |-> Read(directives[i])] = file.says
    <3>1. ReadAsSaid(t, file.says, directives, <<>>)
      BY <1>1, <2>2 DEF TextIInv
    <3>2. file.says \in Seq([name : Seq(STRING), value : Seq(STRING), end : Punctuation])
      BY FilesAssumption DEF TextIInv
    <3>3. \A i \in 1 .. Len(file.says) : Sayable(file.says[i])
      BY FileSays DEF TextIInv
    <3>4. Plain(t) \in Seq(Chars)
      BY PlainIsText
    <3>5. QED
      BY <3>1, <3>2, <3>3, <3>4, ReadAll
  <2>3. QED
    BY <2>1, <2>2
<1>4. SuccessUnread
  <2>1. EXIT_FAILURE # EXIT_SUCCESS
    BY DEF EXIT_FAILURE, EXIT_SUCCESS
  <2>2. QED
    BY <2>1 DEF TextIInv, SuccessUnread, CodeOfMain
<1>5. QED
  BY <1>2, <1>3, <1>4 DEF TextAsWritten

\* Of every file, no word is lost or joined with another, its layout makes no
\* difference, and a program that ends with success has read none
\* (string.cpp:8-84, Router.cpp:80-133, main.cpp:50).
THEOREM TextAlwaysAsWritten == TextSpec => []TextAsWritten
<1>1. TextInit => TextIInv
  BY TextStarts
<1>2. TextIInv /\ [TextNext]_textVars => TextIInv'
  BY TextKept
<1>3. TextIInv => TextAsWritten
  BY TextSuffices
<1>4. QED
  BY <1>1, <1>2, <1>3, PTL DEF TextSpec

-----------------------------------------------------------------------------
(* The types                                                                 *)

\* A neat text with no blank at its end is what Normalize() leaves as it is.
Tidy(b) == b \in Seq(Chars) /\ Neat(b) /\ (b # <<>> => ~IsBlank(b[Len(b)]))

LEMMA UptoNext ==
  ASSUME NEW T, NEW s \in Seq(T), NEW n \in Nat, n = Len(s), NEW i \in 1 .. n
  PROVE  /\ Upto(s, i - 1) \in Seq(T) /\ Len(Upto(s, i - 1)) = i - 1
         /\ i # 1 => Upto(s, i - 1)[i - 1] = s[i - 1]
         /\ Append(Upto(s, i - 1), s[i]) = Upto(s, i)
<1>1. PICK j \in 0 .. n : j = i - 1
  BY i - 1 \in 0 .. n
<1>2. PICK u \in Seq(T) : u = Upto(s, j) /\ Len(u) = j /\ \A x \in 1 .. j : u[x] = s[x]
  <2>1. j \in 0 .. Len(s)
    OBVIOUS
  <2>2. QED
    BY <2>1, UptoIs
<1>3. Append(Upto(s, i - 1), s[i]) = Upto(s, i)
  BY UptoGrows
<1>4. i # 1 => j \in 1 .. j
  BY <1>1
<1>5. QED
  BY <1>1, <1>2, <1>3, <1>4

LEMMA TidyNormal ==
  ASSUME NEW b, Tidy(b)
  PROVE  b = Normalize(b)
<1>1. PICK n \in Nat : n = Len(b) /\ b \in Seq(Chars) /\ (n # 0 => ~IsBlank(b[n]))
  <2>1. b \in Seq(Chars) /\ (b # <<>> => ~IsBlank(b[Len(b)]))
    BY DEF Tidy
  <2>2. Len(b) \in Nat /\ (Len(b) # 0 => b # <<>>)
    BY <2>1, LenIsNat, EmptySeq
  <2>3. QED
    BY <2>1, <2>2
<1>2. \A i \in 1 .. n :
        b[i] # Comment /\ (IsBlank(b[i]) => b[i] = SP /\ i # 1 /\ ~IsBlank(b[i - 1]))
  BY <1>1 DEF Tidy, Neat
<1>3. TrimComments(b) = b
  <2>1. PICK c \in 0 .. n : TrimComments(b) = Upto(b, c) /\ (c < n => b[c + 1] = Comment)
    BY <1>1, CommentCut
  <2>2. ~(c < n)
    <3> SUFFICES ASSUME c < n PROVE FALSE
      OBVIOUS
    <3>1. c + 1 \in 1 .. n
      OBVIOUS
    <3>2. QED
      BY <1>2, <2>1, <3>1
  <2>3. c = n
    BY <2>2
  <2>4. QED
    BY <1>1, <2>1, <2>3, WholeIs
<1>4. TrimF(b) = b
  <2>1. 0 + n <= n /\ \A i \in 1 .. n : 0 + i = i
    OBVIOUS
  <2>2. \A i \in (1 .. 0) \cup (0 + n + 1 .. n) : FALSE
    OBVIOUS
  <2>3. n # 0 => ~IsBlank(b[0 + 1]) /\ ~IsBlank(b[0 + n])
    <3> SUFFICES ASSUME n # 0 PROVE ~IsBlank(b[0 + 1]) /\ ~IsBlank(b[0 + n])
      OBVIOUS
    <3>1. 1 \in 1 .. n /\ 0 + 1 = 1 /\ 0 + n = n
      OBVIOUS
    <3>2. QED
      BY <1>1, <1>2, <3>1
  <2>4. TrimmedOf(Chars, b, b, 0, n)
    BY <1>1, <2>1, <2>2, <2>3 DEF TrimmedOf
  <2>5. QED
    BY <1>1, <2>4, TrimFits
<1>5. ReplaceF(b) = b
  <2>1. PICK r \in Seq(Chars) : r = ReplaceF(b) /\ Len(r) = n
                                /\ \A i \in 1 .. n : r[i] = IF IsBlank(b[i]) THEN SP ELSE b[i]
    BY <1>1, ReplacedIs
  <2>2. \A i \in 1 .. n : r[i] = b[i]
    BY <1>2, <2>1
  <2>3. r = b
    BY <1>1, <2>1, <2>2, SeqEqual
  <2>4. QED
    BY <2>1, <2>3
<1>6. DelMultiplSp(b) = b
  <2>1. PICK g : Adds(g, b, n) /\ DelMultiplSp(b) = g[n]
    BY <1>1, AddsAre
  <2> DEFINE P == {i \in 0 .. n : g[i] = Upto(b, i)}
  <2>2. 0 \in P
    <3>1. g[0] = <<>> /\ 0 \in 0 .. n
      BY <2>1 DEF Adds
    <3>2. Len(Upto(b, 0)) = 0 /\ Upto(b, 0) \in Seq(Chars)
      <4>1. 0 \in 0 .. Len(b)
        BY <1>1
      <4>2. QED
        BY <1>1, <4>1, UptoIs
    <3>3. Upto(b, 0) = <<>>
      BY <3>2, EmptySeq
    <3>4. QED
      BY <3>1, <3>3
  <2>3. ASSUME NEW i \in 1 .. n, i - 1 \in P PROVE i \in P
    <3>1. PICK u \in Seq(Chars) : u = Upto(b, i - 1) /\ Len(u) = i - 1
                                  /\ (i # 1 => u[i - 1] = b[i - 1])
                                  /\ Append(u, b[i]) = Upto(b, i)
      BY <1>1, UptoNext
    <3>2. g[i - 1] = u
      BY <2>3, <3>1
    <3> HIDE DEF P
    <3>3. g[i] = AddChar(u, b[i])
      BY <2>1, <3>2 DEF Adds
    <3>4. IsBlank(b[i]) => u # <<>> /\ ~IsBlank(u[Len(u)])
      <4> SUFFICES ASSUME IsBlank(b[i]) PROVE u # <<>> /\ ~IsBlank(u[Len(u)])
        OBVIOUS
      <4>1. i # 1 /\ ~IsBlank(b[i - 1])
        BY <1>2
      <4>2. i - 1 # 0
        BY <4>1
      <4>3. u # <<>>
        BY <3>1, <4>2, EmptySeq
      <4>4. QED
        BY <3>1, <4>1, <4>3
    <3>5. g[i] = Upto(b, i)
      BY <3>1, <3>3, <3>4 DEF AddChar
    <3>6. QED
      BY <3>5 DEF P
  <2>4. \A i \in 0 .. n : i \in P
    <3> HIDE DEF P
    <3>1. QED
      BY <2>2, <2>3, Along
  <2>5. n \in P
    BY <2>4
  <2>6. QED
    BY <1>1, <2>1, <2>5, WholeIs
<1>7. QED
  BY <1>3, <1>4, <1>5, <1>6 DEF Normalize

LEMMA PlainIsTidy ==
  ASSUME NEW t \in Seq(Chars)
  PROVE  Tidy(Plain(t))
<1>1. PICK n \in Nat : n = Len(t)
  BY LenIsNat
<1>2. PICK p \in Seq(Chars) : p = Plains(t)[n].out /\ Neat(p)
  <2>1. PlainsUpto(Plains(t), t, n) /\ n \in 0 .. n
    BY <1>1, PlainsAre
  <2>2. Plains(t)[n].out \in Seq(Chars)
    BY <2>1 DEF PlainsUpto, PlainStates
  <2>3. Neat(Plains(t)[n].out)
    BY <2>1, PlainNeat
  <2>4. QED
    BY <2>2, <2>3
<1>3. Plain(t) = IF p # <<>> /\ p[Len(p)] = SP THEN Upto(p, Len(p) - 1) ELSE p
  BY <1>1, <1>2 DEF Plain
<1>4. CASE ~(p # <<>> /\ p[Len(p)] = SP)
  <2>1. p # <<>> => ~IsBlank(p[Len(p)])
    BY <1>2, <1>4, NeatEnd
  <2>2. QED
    BY <1>2, <1>3, <1>4, <2>1 DEF Tidy
<1>5. CASE p # <<>> /\ p[Len(p)] = SP
  <2>1. PICK l \in Nat : l = Len(p) /\ l > 1 /\ ~IsBlank(p[l - 1])
    BY <1>2, <1>5, BlankIsChar, NeatEnd
  <2>2. PICK m \in Nat : m = l - 1 /\ m # 0
    BY <2>1
  <2>3. PICK w \in Seq(Chars) : w = Upto(p, m) /\ Len(w) = m /\ \A i \in 1 .. m : w[i] = p[i]
    <3>1. m \in 0 .. Len(p)
      BY <2>1, <2>2
    <3>2. QED
      BY <3>1, UptoIs
  <2>4. w = Plain(t)
    BY <1>3, <1>5, <2>1, <2>2, <2>3
  <2>5. Neat(w)
    <3> SUFFICES ASSUME NEW i \in 1 .. m
                 PROVE  w[i] # Comment /\ (IsBlank(w[i]) => w[i] = SP /\ i # 1 /\ ~IsBlank(w[i - 1]))
      BY <2>3 DEF Neat
    <3>1. i \in 1 .. l
      BY <2>2
    <3>2. p[i] # Comment /\ (IsBlank(p[i]) => p[i] = SP /\ i # 1 /\ ~IsBlank(p[i - 1]))
      BY <1>2, <2>1, <3>1 DEF Neat
    <3>3. i # 1 => i - 1 \in 1 .. m
      OBVIOUS
    <3>4. QED
      BY <2>3, <3>2, <3>3
  <2>6. ~IsBlank(w[Len(w)])
    <3>1. m \in 1 .. m
      BY <2>2
    <3>2. QED
      BY <2>1, <2>2, <2>3, <3>1
  <2>7. QED
    BY <2>4, <2>5, <2>6 DEF Tidy
<1>6. QED
  BY <1>4, <1>5

\* What is left when a directive is cut off.
LEMMA TidyRest ==
  ASSUME NEW b, Tidy(b), NEW n \in 0 .. Len(b),
         NEW r, r = From(b, n + 1), r # <<>> => ~IsBlank(r[1])
  PROVE  Tidy(r)
<1>1. PICK l \in Nat : l = Len(b) /\ b \in Seq(Chars)
  BY LenIsNat DEF Tidy
<1>2. PICK m \in Nat : m = l - n /\ r \in Seq(Chars) /\ Len(r) = m /\ \A i \in 1 .. m : r[i] = b[n + i]
  <2>1. l - n \in Nat
    BY <1>1
  <2>2. r \in Seq(Chars) /\ Len(r) = l - n /\ \A i \in 1 .. l - n : r[i] = b[n + i]
    BY <1>1, FromIs
  <2>3. QED
    BY <2>1, <2>2
<1>3. Neat(r)
  <2> SUFFICES ASSUME NEW i \in 1 .. m
               PROVE  r[i] # Comment /\ (IsBlank(r[i]) => r[i] = SP /\ i # 1 /\ ~IsBlank(r[i - 1]))
    BY <1>2 DEF Neat
  <2>1. PICK j \in 1 .. l : j = n + i
    <3>1. n + i \in 1 .. l
      BY <1>1, <1>2
    <3>2. QED
      BY <3>1
  <2>2. b[j] # Comment /\ (IsBlank(b[j]) => b[j] = SP /\ j # 1 /\ ~IsBlank(b[j - 1]))
    BY <1>1 DEF Tidy, Neat
  <2>3. r[i] = b[j]
    BY <1>2, <2>1
  <2>4. IsBlank(r[i]) => i # 1
    <3>1. r # <<>>
      BY <1>2, EmptySeq
    <3>2. QED
      BY <3>1
  <2>5. i # 1 => r[i - 1] = b[j - 1]
    <3>1. i # 1 => i - 1 \in 1 .. m /\ n + (i - 1) = j - 1
      BY <2>1
    <3>2. QED
      BY <1>2, <3>1
  <2>6. QED
    BY <2>2, <2>3, <2>4, <2>5
<1>4. r # <<>> => ~IsBlank(r[Len(r)])
  <2> SUFFICES ASSUME r # <<>> PROVE ~IsBlank(r[Len(r)])
    OBVIOUS
  <2>1. m # 0
    BY <1>2, EmptySeq
  <2>2. m \in 1 .. m /\ n + m = l
    BY <1>1, <1>2, <2>1
  <2>3. r[m] = b[l]
    BY <1>2, <2>2
  <2>4. b # <<>>
    BY <1>1, <2>1, <2>2
  <2>5. QED
    BY <1>1, <1>2, <2>3, <2>4 DEF Tidy
<1>5. QED
  BY <1>2, <1>3, <1>4 DEF Tidy

EndOf(t, r) == \E k \in 0 .. Len(t) : r = From(t, k + 1)

TextTypeIInv ==
  /\ TextIInv
  /\ EndOf(file.text, unread)
  /\ stage = "parse" => Tidy(buffer)
  /\ good \/ directives # <<>>
  /\ exitCode \in {EXIT_SUCCESS, EXIT_FAILURE}

LEMMA TypeStarts == TextInit => TextTypeIInv
<1> SUFFICES ASSUME TextInit PROVE TextTypeIInv
  OBVIOUS
<1>1. TextIInv
  BY TextStarts
<1>2. PICK t \in Seq(Chars) : t = file.text
  BY FileText DEF TextInit
<1>3. Gathered(t, t, <<>>)
  BY GatheredFirst
<1>4. EndOf(t, t)
  BY <1>3 DEF Gathered, EndOf
<1>5. QED
  BY <1>1, <1>2, <1>4 DEF TextInit, TextTypeIInv

LEMMA TypeKept == TextTypeIInv /\ [TextNext]_textVars => TextTypeIInv'
<1> SUFFICES ASSUME TextTypeIInv, [TextNext]_textVars PROVE TextTypeIInv'
  OBVIOUS
<1>1. TextIInv /\ TextIInv'
  BY TextKept DEF TextTypeIInv
<1>2. /\ EndOf(file.text, unread)
      /\ stage = "parse" => Tidy(buffer)
      /\ good \/ directives # <<>>
      /\ exitCode \in {EXIT_SUCCESS, EXIT_FAILURE}
  BY DEF TextTypeIInv
<1>3. PICK t \in Seq(Chars) : t = file.text
  BY <1>1, FileText DEF TextIInv
<1>4. CASE ReadLine
  <2>1. stage' = "load" /\ UNCHANGED <<file, directives, good, exitCode>>
    BY <1>4 DEF ReadLine
  <2>2. Gathered(file'.text, unread', buffer')
    BY <1>1, <2>1 DEF TextIInv
  <2>3. EndOf(file'.text, unread')
    BY <2>2 DEF Gathered, EndOf
  <2>4. QED
    BY <1>1, <1>2, <2>1, <2>3 DEF TextTypeIInv
<1>5. CASE LinesEnd
  <2>1. /\ stage = "load" /\ unread = <<>> /\ buffer' = TrimF(buffer)
        /\ UNCHANGED <<file, unread, directives, good, exitCode>>
    BY <1>5 DEF LinesEnd
  <2>2. Gathered(t, <<>>, buffer)
    BY <1>1, <1>3, <2>1 DEF TextIInv
  <2>3. Tidy(buffer')
    BY <2>1, <2>2, AllGathered, PlainIsTidy
  <2>4. QED
    BY <1>1, <1>2, <2>1, <2>3 DEF TextTypeIInv
<1>6. CASE NextDirective
  <2>1. PICK w, d : /\ w = WithBlanks(buffer, DirectiveEnd(buffer))
                    /\ d = TrimF(Upto(buffer, w))
    OBVIOUS
  <2>2. /\ stage = "parse" /\ buffer # <<>>
        /\ directives' = Append(directives, d) /\ buffer' = From(buffer, w + 1)
        /\ UNCHANGED <<file, unread, exitCode>>
    BY <1>6, <2>1 DEF NextDirective
  <2>3. Shared(t, directives, buffer)
    BY <1>1, <1>3, <2>2 DEF TextIInv
  <2>4. directives' # <<>>
    <3>1. directives \in Seq(Seq(Chars))
      BY <2>3 DEF Shared
    <3>2. d \in Seq(Chars)
      BY <1>3, <2>1, <2>2, <2>3, PlainIsText, SharedNext
    <3>3. Append(directives, d) # <<>>
      BY <3>1, <3>2, AppendProperties
    <3>4. QED
      BY <2>2, <3>3
  <2>5. IsCut(buffer, w, d)
    <3>1. buffer \in Seq(Chars) /\ ~IsBlank(buffer[1])
      BY <2>2, <2>3 DEF Shared
    <3>2. QED
      BY <2>1, <2>2, <3>1, CutIs
  <2>6. Tidy(buffer')
    <3>1. w \in 1 .. Len(buffer) /\ (buffer' # <<>> => ~IsBlank(buffer'[1]))
      BY <2>2, <2>5 DEF IsCut
    <3>2. w \in 0 .. Len(buffer) /\ Tidy(buffer)
      BY <1>2, <2>2, <3>1
    <3>3. QED
      BY <2>2, <3>1, <3>2, TidyRest
  <2>7. QED
    BY <1>1, <1>2, <2>2, <2>4, <2>6 DEF TextTypeIInv
<1>7. CASE NoFile
  BY <1>1, <1>2, <1>7 DEF NoFile, TextTypeIInv
<1>8. CASE Loaded
  BY <1>1, <1>2, <1>8 DEF Loaded, TextTypeIInv
<1>9. CASE MainEnds
  <2>1. /\ stage' = "ended" /\ exitCode' = CodeOfMain(good)
        /\ UNCHANGED <<file, unread, buffer, directives, good>>
    BY <1>9 DEF MainEnds
  <2>2. exitCode' \in {EXIT_SUCCESS, EXIT_FAILURE}
    BY <2>1 DEF CodeOfMain
  <2>3. QED
    BY <1>1, <1>2, <2>1, <2>2 DEF TextTypeIInv
<1>10. CASE UNCHANGED textVars
  BY <1>1, <1>2, <1>10 DEF textVars, TextTypeIInv
<1>11. QED
  BY <1>4, <1>5, <1>6, <1>7, <1>8, <1>9, <1>10 DEF TextNext

\* Every variable of ConfigText has its type, and what is left of the buffer is
\* as Normalize() leaves it (Router.cpp:80-133, main.cpp:38-53).
THEOREM TextTypeCorrect == TextSpec => []TextTypeOK
<1>1. TextTypeIInv => TextTypeOK
  <2> SUFFICES ASSUME TextTypeIInv PROVE TextTypeOK
    OBVIOUS
  <2>1. PICK t \in Seq(Chars) : t = file.text
    BY FileText DEF TextIInv, TextTypeIInv
  <2>2. PICK k \in 0 .. Len(t) : unread = From(t, k + 1)
    BY <2>1 DEF TextTypeIInv, EndOf
  <2>3. PICK n \in Nat : n = Len(t)
    BY LenIsNat
  <2>4. Len(unread) = n - k
    BY <2>2, <2>3, FromIs
  <2>5. n - (n - k) = k
    BY <2>3
  <2>6. unread = From(t, Len(t) - Len(unread) + 1)
    BY <2>2, <2>3, <2>4, <2>5
  <2>7. stage = "parse" => buffer = Normalize(buffer)
    BY TidyNormal DEF TextTypeIInv
  <2>8. QED
    BY <2>1, <2>6, <2>7 DEF TextTypeIInv, TextIInv, TextTypeOK
<1>2. QED
  BY <1>1, TypeStarts, TypeKept, PTL DEF TextSpec
=============================================================================
