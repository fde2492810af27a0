------------------------------ MODULE Routing ------------------------------
(***************************************************************************)
(* From the target of a complete request to the file it names:             *)
(* Server::getRoute() and getRouteString(), and recv_request()'s,          *)
(* translate_target()'s, check_index()'s and compute_response()'s look-ups *)
(* on the way.  The first is in the routes that the default server has     *)
(* from the request before, of any connection; the others are in those of  *)
(* the server this request is for, which recv_request() copies over them   *)
(* (see Vhosts).                                                           *)
(*                                                                         *)
(* A target is the names between its slashes and what follows the last     *)
(* slash (the leaf, if anything does).  The key of a route is a            *)
(* directory "/d1/.../dn/", an extension "*.e", or "" for the default      *)
(* route; setRoute() gives every directory its final `/'.                  *)
(***************************************************************************)
EXTENDS Naturals, Sequences, SequencesExt

CONSTANTS
  Segment,     \* names of directories and files
  Ext,         \* extensions
  extOf,       \* the extension of each name, Nothing if it has none
  Index,       \* the name of an index file
  Nothing,
  Depth,       \* bound: directories in a target
  DirKeys,     \* the directory keys a server may have
  ExtKeys      \* the extensions a server may have a location for

ASSUME RouteAssumption ==
  /\ extOf \in [Segment -> Ext \cup {Nothing}]
  /\ Nothing \notin Segment \cup Ext \cup ExtKeys
  /\ DirKeys \subseteq Seq(Segment)
  /\ Depth \in Nat

Dirs == UNION {[1 .. n -> Segment] : n \in 0 .. Depth}
Target == [dirs : Dirs, leaf : Segment \cup {Nothing}]

\* The dot must be after the last slash.
Extension(t) == IF t.leaf = Nothing THEN Nothing ELSE extOf[t.leaf]

DirKey(d) == [kind |-> "dir", dirs |-> d]
ExtKey(e) == [kind |-> "ext", ext |-> e]
DefaultKey == [kind |-> "default"]

\* compare_file_extension(), and target.compare( 0, key.length(), key ) == 0.
SameExtension(e, k) == k.kind = "ext" /\ e = k.ext
BeginsWith(t, k) ==
  \/ k.kind = "default"
  \/ k.kind = "dir" /\ IsPrefix(k.dirs, t.dirs)

\* The map is ordered by std::greater, so that a key comes before those it
\* begins with; "*" comes after "/" and "" at the end.  Mutation: std::less.
BeforeLess(j, k) ==
  \/ j.kind = "default" /\ k.kind # "default"
  \/ j.kind = "ext" /\ k.kind = "dir"
  \/ j.kind = "dir" /\ k.kind = "dir" /\ j # k /\ IsPrefix(j.dirs, k.dirs)
Before(j, k) ==
  \/ j.kind = "dir" /\ k.kind \in {"ext", "default"}
  \/ j.kind = "ext" /\ k.kind = "default"
  \/ j.kind = "dir" /\ k.kind = "dir" /\ j # k /\ IsPrefix(k.dirs, j.dirs)

\* The first key of the map that passes the test: no other one that passes
\* comes before it.
First(keys, Passes(_)) ==
  {k \in keys : Passes(k) /\ ~ \E j \in keys : Passes(j) /\ Before(j, k)}

\* The two look-ups, each with its own copy of the loops: extensions first,
\* then prefixes.  Mutation: getRouteString() looks at prefixes only.
ByExtension(keys, e) == First(keys, LAMBDA k : SameExtension(e, k))
ByPrefix(keys, t) == First(keys, LAMBDA k : BeginsWith(t, k))
LookUp(keys, t, e) ==
  CHOOSE k \in IF ByExtension(keys, e) # {} THEN ByExtension(keys, e) ELSE ByPrefix(keys, t) :
    TRUE

GetRoute(keys, t) == LookUp(keys, t, Extension(t))
StringByPrefix(keys, t) == CHOOSE k \in ByPrefix(keys, t) : TRUE
GetRouteString(keys, t) == LookUp(keys, t, Extension(t))

\* getRoot( location ): a key looked up as if it were a target.
RouteOfKey(keys, k) ==
  LET t == [dirs |-> IF k.kind = "dir" THEN k.dirs ELSE <<>>, leaf |-> Nothing]
  IN LookUp(keys, t, IF k.kind = "ext" THEN k.ext ELSE Nothing)

VARIABLES
  keys,      \* the keys of the default server's routes
  before,    \* history: what they were when the limit was looked up
  replaced,  \* history: the routes were replaced by those of another server
  asked,     \* the target the client asked for
  target,    \* _request.target
  used,      \* the route each look-up returned, Nothing before it
  step       \* what recv_request() does next

routeVars == <<keys, before, replaced, asked, target, used, step>>

LookUps == {"limit", "root", "index", "again", "method"}

\* The keys a server's routes may have.
KeySets ==
  {{DirKey(d) : d \in D} \cup {ExtKey(e) : e \in E} \cup {DefaultKey} :
     D \in SUBSET DirKeys, E \in SUBSET ExtKeys}

RouteInit ==
  /\ keys \in KeySets
  /\ before = keys
  /\ replaced = FALSE
  /\ asked \in Target
  /\ target = asked
  /\ used = [l \in LookUps |-> Nothing]
  /\ step = "limit"

Use(l, k) == used' = [used EXCEPT ![l] = k]

\* getClientMaxBodySize( target ); 413 ends it here.
CheckLimit ==
  /\ step = "limit"
  /\ Use("limit", GetRoute(keys, target))
  /\ step' \in {"route", "end"}
  /\ UNCHANGED <<keys, before, replaced, asked, target>>

\* _server = getServer( ... ): it is the default server itself, or another
\* one, whose routes then take the place of those of the default server.
TakeServer ==
  /\ step = "route"
  /\ replaced' \in BOOLEAN
  /\ IF replaced' THEN keys' \in KeySets ELSE keys' = keys
  /\ step' = "translate"
  /\ UNCHANGED <<before, asked, target, used>>

\* translate_target(): the root is that of the route whose key is
\* getRouteString( target ).  check_index() is called there if the file is a
\* directory, and again by recv_request().
Translate ==
  /\ step = "translate"
  /\ Use("root", RouteOfKey(keys, GetRouteString(keys, target)))
  /\ step' \in {"index", "again"}
  /\ UNCHANGED <<keys, before, replaced, asked, target>>

\* If the directory holds one of the index files of the route, `/' is appended
\* to the target.  The second call finds nothing in a file that is not a
\* directory.  Mutation: what is appended is the name of the index file.
AsDirs(t) == IF t.leaf = Nothing THEN t.dirs ELSE Append(t.dirs, t.leaf)
WithIndex(t) == [dirs |-> AsDirs(t), leaf |-> Index]
WithSlash(t) == [dirs |-> AsDirs(t), leaf |-> Nothing]

CheckIndex(call, next) ==
  /\ step = call
  /\ Use(call, GetRoute(keys, target))
  /\ \/ /\ call = "index" \/ used["index"] # Nothing
        /\ target' = WithSlash(target)
     \/ UNCHANGED target
  /\ step' = next
  /\ UNCHANGED <<keys, before, replaced, asked>>

\* compute_response(): getFlag(), getCGIpass(), getRedirection() and the
\* methods look up the target as it now is.
Compute ==
  /\ step = "compute"
  /\ Use("method", GetRoute(keys, target))
  /\ step' = "end"
  /\ UNCHANGED <<keys, before, replaced, asked, target>>

RouteNext ==
  \/ CheckLimit
  \/ TakeServer
  \/ Translate
  \/ CheckIndex("index", "again")
  \/ CheckIndex("again", "compute")
  \/ Compute

RouteSpec == RouteInit /\ [][RouteNext]_routeVars

-----------------------------------------------------------------------------
(* Properties *)

Keys == {DirKey(d) : d \in DirKeys} \cup {ExtKey(e) : e \in ExtKeys} \cup {DefaultKey}

\* The target of the directory that t names, with its `/'.
Directory(t) == [dirs |-> AsDirs(t), leaf |-> Nothing]

\* Every variable has its type, and the target is the one asked for or that
\* of the directory it names.
RouteTypeOK ==
  /\ keys \in SUBSET Keys
  /\ before \in SUBSET Keys
  /\ replaced \in BOOLEAN
  /\ asked \in Target
  /\ target \in {asked, Directory(asked)}
  /\ used \in [LookUps -> Keys \cup {Nothing}]
  /\ step \in LookUps \cup {"route", "translate", "compute", "end"}

\* What the locations K mean: that of the target's extension or, without one,
\* the longest directory the target is below.
Means(K, t, k) ==
  IF \E e \in ExtKeys : ExtKey(e) \in K /\ Extension(t) = e
  THEN k = ExtKey(Extension(t))
  ELSE LET above == {d \in DirKeys : DirKey(d) \in K /\ IsPrefix(d, t.dirs)} IN
       IF above = {} THEN k = DefaultKey
       ELSE k.kind = "dir" /\ k.dirs \in above /\ \A d \in above : Len(d) <= Len(k.dirs)

\* The order of the map makes the first match the most specific one
\* (Server.cpp:49-79, Server.hpp:60-61).  The body is held against the limit of
\* the most specific location that the default server had before this request
\* was routed; the file is below the root of the most specific one of the
\* server it is for, though the root is looked up by the key that
\* getRouteString() returns and not by the target (HTTP_request.cpp:49-60,
\* 76-87).
MostSpecific ==
  /\ RouteTypeOK
  /\ used["limit"] # Nothing => Means(before, asked, used["limit"])
  /\ used["root"] # Nothing => Means(keys, asked, used["root"])

\* The file, the index and the method are those of one route, unless a
\* directory with an index file was asked for without its `/': then
\* check_index() changes the target after the file was chosen, and the methods
\* are those of the directory's own location (HTTP_request.cpp:115).  The limit
\* is that of the same route, unless the routes were replaced since, by the
\* assignment between the two (HTTP_request.cpp:58).
OneRoute ==
  /\ used["method"] # Nothing =>
       \/ \A l \in LookUps \ {"limit"} : used[l] \in {used["method"], Nothing}
       \/ /\ asked.leaf # Nothing
          /\ target = Directory(asked)
          /\ Means(keys, target, used["method"])
  /\ used["root"] # Nothing /\ used["root"] # used["limit"] => replaced

\* Server.cpp:47, "Locations, a.k.a routes, are stored without ending `/'": a
\* target that names a location is routed to it.
LocationCoversItself ==
  used["limit"] # Nothing /\ Extension(asked) = Nothing /\ DirKey(AsDirs(asked)) \in before
    => used["limit"] = DirKey(AsDirs(asked))
=============================================================================
