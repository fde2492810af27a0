------------------------------- MODULE Vhosts -------------------------------
(***************************************************************************)
(* Virtual hosts.  Router::_servers holds one Server per server context;   *)
(* getServer() picks one by the request's host and the address the         *)
(* connection came in on.  HTTP::_server is a reference, bound to          *)
(* _servers[0] by the constructor of every HTTP object, so the assignment  *)
(*     this->_server = this->_router.getServer( ... );                     *)
(* in recv_request() does not rebind it: Server::operator= copies the      *)
(* chosen server over _servers[0], for all connections at once.            *)
(*                                                                         *)
(* A server is its number; what its context configured is abstracted to    *)
(* that number too.  slot[i] is the configuration that _servers[i] now     *)
(* holds.                                                                  *)
(***************************************************************************)
EXTENDS Naturals

CONSTANTS
  N,            \* how many server contexts; server 1 is _servers[0]
  Name,         \* host names, the empty one included
  Addr,         \* addresses listened on, as host and port
  Conn,         \* connections
  nameOf,       \* the names each context configures
  addrOf,       \* the address each context listens on
  via,          \* the address each connection came in on
  None          \* nothing replied yet

Server == 1 .. N

ASSUME ServerAssumption == N \in Nat \ {0}

ASSUME ConfigAssumption ==
  /\ nameOf \in [Server -> SUBSET Name]
  /\ addrOf \in [Server -> Addr]
  /\ via \in [Conn -> Addr]
  /\ None \notin Name \cup Conn

\* What compare_servers() means to reject, though it compares neighbours only:
\* no two contexts with a name and the address in common.
ASSUME NoRepeatedName ==
  \A i, j \in Server : i # j /\ addrOf[i] = addrOf[j] => nameOf[i] \cap nameOf[j] = {}

VARIABLES
  slot,     \* slot[i]: the configuration held by _servers[i]
  cgi,      \* the host of the request a CGI is working on, per connection
  last      \* the last reply

vars == <<slot, cgi, last>>

\* host: what the request named; by: the configuration the reply was made
\* from; kind: "routed", whatever compute_response() answered at once; "late",
\* the error page for a CGI that failed; "too large", judged before routing.
NoReply == [conn |-> None, host |-> None, by |-> 1, kind |-> "late"]
Reply == [conn : Conn \cup {None}, host : Name \cup {None}, by : Server,
          kind : {"routed", "late", "too large"}]

\* Server::hasServerName(), getPort() and getHost() of a configuration.
Serves(i, host, addr) == host \in nameOf[i] /\ addrOf[i] = addr

\* getServer() on the servers as they now are: the first that serves the host
\* and the address, _servers[0] if none does.  Mutation: a server that only
\* listens on the address will do.
GetServerByAddr(s, host, addr) ==
  {k \in Server : addrOf[s[k]] = addr /\ \A j \in Server : j < k => addrOf[s[j]] # addr}
GetServer(s, host, addr) ==
  LET M == {k \in Server : Serves(s[k], host, addr)} IN
  IF M = {} THEN {1} ELSE {k \in M : \A j \in M : k <= j}

\* this->_server = getServer( ... ).  Mutations: the chosen server is moved
\* from, and holds nothing afterwards; the servers trade places; the
\* configuration is read again.
RouteMoves(s, k) == [s EXCEPT ![1] = s[k], ![k] = 0]
RouteReloads(s, k) == [s EXCEPT ![1] = k]
RouteSwaps(s, k) == [s EXCEPT ![1] = s[k], ![k] = s[1]]
Route(s, k) == [s EXCEPT ![1] = s[k]]

\* The server the configuration means: that of the host and address, or the
\* default one.
Meant(host, addr) ==
  IF \E i \in Server : Serves(i, host, addr)
  THEN CHOOSE i \in Server : Serves(i, host, addr)
  ELSE 1

-----------------------------------------------------------------------------
\* recv_request() on a complete request that names host: 413, checked against
\* _servers[0] before routing; or routed, and answered at once or by a CGI.
\* A request of the same connection may complete while its CGI still works.
TooLarge(c, host) ==
  /\ last' = [conn |-> c, host |-> host, by |-> slot[1], kind |-> "too large"]
  /\ UNCHANGED <<slot, cgi>>

Answer(c, host) ==
  \E k \in GetServer(slot, host, via[c]) :
    /\ slot' = Route(slot, k)
    /\ last' = [conn |-> c, host |-> host, by |-> slot'[1], kind |-> "routed"]
    /\ UNCHANGED cgi

StartCgi(c, host) ==
  \E k \in GetServer(slot, host, via[c]) :
    /\ slot' = Route(slot, k)
    /\ cgi' = [cgi EXCEPT ![c] = host]
    /\ UNCHANGED last

\* CGI::dispatch: the process' own output, or 422 or 504 with the error page
\* of _servers[0], whatever was routed since.
CgiError(c) ==
  /\ cgi[c] # None
  /\ last' = [conn |-> c, host |-> cgi[c], by |-> slot[1], kind |-> "late"]
  /\ cgi' = [cgi EXCEPT ![c] = None]
  /\ UNCHANGED slot

CgiDone(c) ==
  /\ cgi[c] # None
  /\ cgi' = [cgi EXCEPT ![c] = None]
  /\ UNCHANGED <<slot, last>>

Init ==
  /\ slot = [i \in Server |-> i]
  /\ cgi = [c \in Conn |-> None]
  /\ last = NoReply

Next ==
  \E c \in Conn :
    \/ \E host \in Name : TooLarge(c, host) \/ Answer(c, host) \/ StartCgi(c, host)
    \/ CgiError(c)
    \/ CgiDone(c)

Spec == Init /\ [][Next]_vars

-----------------------------------------------------------------------------
(* Properties *)

\* Every variable has its type.
TypeOK ==
  /\ slot \in [Server -> Server]
  /\ cgi \in [Conn -> Name \cup {None}]
  /\ last \in Reply

\* Only _servers[0] is ever overwritten: however requests for different hosts
\* follow each other, every other server keeps what its context configured.
OthersKeepTheirs == \A i \in Server \ {1} : slot[i] = i

\* A request for a server other than the default one is answered by that
\* server, whatever copy _servers[0] holds when getServer() looks there first.
NamedServerAnswers ==
  last.kind = "routed" =>
    \A i \in Server \ {1} : Serves(i, last.host, via[last.conn]) => last.by = i

\* Once a request has been routed away from the default server nothing brings
\* its configuration back: its root, routes, names and error pages are gone
\* for every later request, until the program is restarted.
DefaultGoneForGood == [][slot[1] # 1 => slot'[1] # 1]_vars

\* Router.hpp:70, "Once a connection is received, routes it to its
\* corresponding server".
CorrespondingServer ==
  last.kind = "routed" => last.by = Meant(last.host, via[last.conn])
=============================================================================
