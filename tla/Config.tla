------------------------------- MODULE Config -------------------------------
(***************************************************************************)
(* Router::load(), parse() and listen() up to the event loop: a file is a  *)
(* sequence of directives, of which one is taken per turn of the loop in   *)
(* parse(), validated against the table Router::_opts, and applied to the  *)
(* last server and to the location whose braces are open.  Of what the     *)
(* directives configure the model keeps the address, the names and, per    *)
(* location, the flags of limit_except and autoindex.                      *)
(***************************************************************************)
EXTENDS Naturals, Sequences, FiniteSets, FiniteSetsExt, SequencesExt

CONSTANTS
  Addr,            \* what listen can name
  Name,            \* what server_name can name
  Key,             \* the arguments of location, as keys of Server::_routes
  Default,         \* the key "" of the default route
  None,
  Limits,          \* the sets of methods that limit_except names
  MaxDirectives    \* bound: directives in a file

ASSUME ConfigAssumption ==
  /\ Default \notin Key
  /\ None \notin Addr \cup Name \cup Key \cup {Default, "on", "off"}
  /\ MaxDirectives \in Nat

VARIABLES
  stack,       \* context, innermost last
  location,    \* the open location, Default if none is
  servers,     \* _servers
  given,       \* history: the directives of each block that set flags
  conns,       \* _connections, by address
  count,       \* directives read
  status       \* "reading"; "rejected", a diagnostic and EXIT_FAILURE;
               \* "undefined", top() of an empty stack; "loaded"; "listening"

vars == <<stack, location, servers, given, conns, count, status>>

Words == {"GET", "POST", "PUT", "HEAD"}
Flags == Words \cup {"DELETE", "AUTOINDEX"}

ASSUME LimitAssumption == {} \notin Limits /\ Limits \subseteq SUBSET Words

\* Server(), and the Location of its default route and of every other one.
NewRoute == Flags \ {"AUTOINDEX"}
NewServer == [addr |-> None, names |-> {}, routes |-> [k \in {Default} |-> NewRoute]]

NotGiven == [methods |-> {}, autoindex |-> None, twice |-> FALSE]

\* Location::setFlag(): enabling sets the bits, disabling flips them.
SetFlag(flags, mask, enable) ==
  IF enable THEN flags \cup mask ELSE SymDiff(flags, mask)

\* limit_flag of set_limit_except(): everything but AUTOINDEX and the methods
\* named.  Naming a method twice flips it back, so words is the set of those
\* named an odd number of times.  Mutation: AUTOINDEX is not taken out.
LimitAndIndex(words) == Flags \ words
LimitMask(words) == (Flags \ {"AUTOINDEX"}) \ words

\* The nest column of _opts.  Mutation: a location in a location, too.
NestDeeper(context) ==
  IF context = "main" THEN {"server"}
  ELSE {"location", "listen", "server_name", "limit_except", "autoindex", "other"}
Nest(context) ==
  IF context = "main" THEN {"server"}
  ELSE IF context = "server"
       THEN {"location", "listen", "server_name", "autoindex", "other"}
  ELSE {"limit_except", "autoindex", "other"}

\* The directive is well formed and allowed in the innermost context.
Reads(directive) ==
  /\ status = "reading"
  /\ count < MaxDirectives
  /\ stack # <<>>
  /\ directive \in Nest(Last(stack))
  /\ count' = count + 1
  /\ UNCHANGED <<conns>>

Current == Len(servers)

-----------------------------------------------------------------------------
OpenServer ==
  /\ Reads("server")
  /\ stack' = Append(stack, "server")
  /\ servers' = Append(servers, NewServer)
  /\ given' = Append(given, [k \in {Default} |-> NotGiven])
  /\ UNCHANGED <<location, status>>

\* setRoute() fails if the server has the location already.
OpenLocation(k) ==
  LET routes == servers[Current].routes IN
  /\ Reads("location")
  /\ IF k \in DOMAIN routes
     THEN /\ status' = "rejected"
          /\ UNCHANGED <<stack, location, servers, given>>
     ELSE /\ stack' = Append(stack, "location")
          /\ location' = k
          /\ servers' = [servers EXCEPT ![Current].routes =
                           [x \in DOMAIN routes \cup {k} |->
                              IF x = k THEN NewRoute ELSE routes[x]]]
          /\ given' = [given EXCEPT ![Current] =
                         [x \in DOMAIN routes \cup {k} |->
                            IF x = k THEN NotGiven ELSE given[Current][x]]]
          /\ UNCHANGED status

\* Server::check(); a server without a name gets the empty one, here {}.
Complete(s) == s.addr # None

\* "}" pops a context, the outermost one too; on the empty stack it is an
\* error.  Mutation: the location is not cleared.
AfterBraceKeeps == location
AfterBrace == Default

CloseBrace ==
  /\ status = "reading"
  /\ count < MaxDirectives
  /\ count' = count + 1
  /\ IF stack = <<>> \/ (Last(stack) = "server" /\ ~Complete(servers[Current]))
     THEN /\ status' = "rejected"
          /\ UNCHANGED <<stack, location>>
     ELSE /\ stack' = Front(stack)
          /\ location' = AfterBrace
          /\ UNCHANGED status
  /\ UNCHANGED <<servers, given, conns>>

-----------------------------------------------------------------------------
(* The setters *)

Listen(a) ==
  /\ Reads("listen")
  /\ servers' = [servers EXCEPT ![Current].addr = a]
  /\ UNCHANGED <<stack, location, given, status>>

ServerName(n) ==
  /\ Reads("server_name")
  /\ servers' = [servers EXCEPT ![Current].names = @ \cup {n}]
  /\ UNCHANGED <<stack, location, given, status>>

SetRouteFlag(mask, enable) ==
  /\ servers' = [servers EXCEPT ![Current].routes[location] =
                   SetFlag(@, mask, enable)]
  /\ UNCHANGED <<stack, location, status>>

LimitExcept(words) ==
  /\ Reads("limit_except")
  /\ SetRouteFlag(LimitMask(words), FALSE)
  /\ LET was == given[Current][location] IN
     given' = [given EXCEPT ![Current][location] =
                [was EXCEPT !.methods = words,
                            !.twice = was.twice \/ was.methods # {}]]

Autoindex(word) ==
  /\ Reads("autoindex")
  /\ SetRouteFlag({"AUTOINDEX"}, word = "on")
  /\ LET was == given[Current][location] IN
     given' = [given EXCEPT ![Current][location] =
                [was EXCEPT !.autoindex = word,
                            !.twice = was.twice \/ was.autoindex # None]]

\* Any other directive, which the model has no state for.
Other ==
  /\ Reads("other")
  /\ UNCHANGED <<stack, location, servers, given, status>>

\* A directive that is unknown, not terminated, in the wrong context or with
\* arguments its setter does not take.
Reject ==
  /\ status = "reading"
  /\ status' = "rejected"
  /\ UNCHANGED <<stack, location, servers, given, conns, count>>

\* A valid directive after one "}" too many, or the end of the file there:
\* context.top() of an empty stack.
Undefined ==
  /\ status = "reading"
  /\ stack = <<>>
  /\ status' = "undefined"
  /\ UNCHANGED <<stack, location, servers, given, conns, count>>

-----------------------------------------------------------------------------
\* compare_servers(): each server and the one before it.
Repeats(s, t) == s.addr = t.addr /\ (s.names \cap t.names # {} \/ s.names \cup t.names = {})

EndOfFile ==
  /\ status = "reading"
  /\ stack # <<>>
  /\ status' = IF Len(stack) # 1
                  \/ \E i \in 2 .. Len(servers) : Repeats(servers[i - 1], servers[i])
               THEN "rejected" ELSE "loaded"
  /\ UNCHANGED <<stack, location, servers, given, conns, count>>

\* listen(): one socket per address; any of them may fail, and the program
\* ends.  Mutation: the last server's address is not looked at.
AddressesButLast == {servers[i].addr : i \in 1 .. Len(servers) - 1}
Addresses == {servers[i].addr : i \in 1 .. Len(servers)}

OpenSockets ==
  /\ status = "loaded"
  /\ servers # <<>>
  /\ \/ /\ conns' = Addresses
        /\ status' = "listening"
     \/ /\ conns' \in SUBSET Addresses
        /\ status' = "rejected"
  /\ UNCHANGED <<stack, location, servers, given, count>>

Init ==
  /\ stack = <<"main">>
  /\ location = Default
  /\ servers = <<>>
  /\ given = <<>>
  /\ conns = {}
  /\ count = 0
  /\ status = "reading"

Directive ==
  \/ OpenServer
  \/ \E k \in Key : OpenLocation(k)
  \/ CloseBrace
  \/ \E a \in Addr : Listen(a)
  \/ \E n \in Name : ServerName(n)
  \/ \E words \in Limits : LimitExcept(words)
  \/ \E word \in {"on", "off"} : Autoindex(word)
  \/ Other

Next == Directive \/ Reject \/ Undefined \/ EndOfFile \/ OpenSockets

Spec == Init /\ [][Next]_vars

-----------------------------------------------------------------------------
(* Properties *)

RouteKeys == Key \cup {Default}

\* Every variable has its type.
TypeOK ==
  /\ stack \in {<<>>, <<"main">>, <<"main", "server">>, <<"main", "server", "location">>}
  /\ location \in RouteKeys
  /\ \A i \in 1 .. Len(servers) :
       /\ servers[i].addr \in Addr \cup {None}
       /\ servers[i].names \subseteq Name
       /\ DOMAIN servers[i].routes \subseteq RouteKeys
       /\ \A k \in DOMAIN servers[i].routes : servers[i].routes[k] \subseteq Flags
  /\ DOMAIN given = DOMAIN servers
  /\ conns \subseteq Addr
  /\ count \in 0 .. MaxDirectives
  /\ status \in {"reading", "rejected", "undefined", "loaded", "listening"}

\* Whatever the braces do, a setter applies to a server that exists, and to
\* the route of the location whose braces are open or else to the default
\* route: Router::parse() keeps that in two variables of its own (lines
\* 257, 270) next to the stack.
SettersHaveTarget ==
  /\ Len(stack) > 1 => servers # <<>> /\ location \in DOMAIN servers[Current].routes
  /\ (location # Default) <=> Len(stack) = 3

\* Once the program listens every server has an address it is reached at and
\* no server repeats a name of the one before it.
ListeningReachesAll ==
  status = "listening" =>
    /\ stack = <<"main">>
    /\ \A i \in 1 .. Len(servers) : servers[i].addr \in conns
    /\ \A i \in 2 .. Len(servers) : ~Repeats(servers[i - 1], servers[i])

Written(g) ==
  (IF g.methods = {} THEN Words \cup {"DELETE"} ELSE g.methods)
    \cup (IF g.autoindex = "on" THEN {"AUTOINDEX"} ELSE {})

\* The flags of a route are what the file says, in whatever order it says it,
\* unless a block says it twice or says "autoindex off", which setFlag() flips
\* to on (Location.cpp:91-99).
FlagsAsWritten ==
  \A i \in 1 .. Len(servers) : \A k \in DOMAIN servers[i].routes :
    LET g == given[i][k] IN
    ~g.twice /\ g.autoindex # "off" => servers[i].routes[k] = Written(g)

\* Router.cpp:14, 19 and 22: limit_except and autoindex have "no" in the column
\* "duplicated".
NoneGivenTwice ==
  status \in {"loaded", "listening"} =>
    \A i \in 1 .. Len(given) : \A k \in DOMAIN given[i] : ~given[i][k].twice
=============================================================================
