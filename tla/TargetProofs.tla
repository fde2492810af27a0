---------------------------- MODULE TargetProofs ----------------------------
(***************************************************************************)
(* Proofs about what becomes of a target.  Vhosts, for any number of       *)
(* servers, names, addresses and connections, provided no two servers have *)
(* a name and an address in common (NoRepeatedName).  Routing, for any     *)
(* names, extensions and routes, and targets of any depth: the look-up     *)
(* that stops at the first match of an ordered map returns the most        *)
(* specific route, and a request is judged by one route, with the          *)
(* exceptions OneRoute names.  Methods, for any requests, file systems and *)
(* other writers: a reply says what was done, and two exceptions end the   *)
(* server.                                                                 *)
(***************************************************************************)
EXTENDS Vhosts, Routing, Methods, StringProofs

-----------------------------------------------------------------------------
(* Directories: those a target is below are ordered by their length.         *)

Dir == Seq(Segment)

LEMMA PrefixIsSubSeq ==
  ASSUME NEW d \in Dir, NEW t \in Dir
  PROVE  IsPrefix(d, t) <=> Len(d) <= Len(t) /\ d = SubSeq(t, 1, Len(d))
  BY SubSeqFull DEF IsPrefix, Dir

LEMMA PrefixesOrdered ==
  ASSUME NEW t \in Dir, NEW d \in Dir, NEW c \in Dir, IsPrefix(d, t), IsPrefix(c, t),
         Len(d) <= Len(c)
  PROVE  IsPrefix(d, c) /\ (Len(d) = Len(c) => d = c)
<1>1. d = SubSeq(t, 1, Len(d)) /\ c = SubSeq(t, 1, Len(c)) /\ Len(c) <= Len(t)
  BY PrefixIsSubSeq
<1>2. CASE Len(d) = 0
  <2>1. d = <<>> /\ SubSeq(c, 1, Len(d)) = <<>>
    BY <1>2, EmptySeq, SubSeqEmpty DEF Dir
  <2>2. QED
    BY <1>1, <1>2, <2>1, PrefixIsSubSeq
<1>3. CASE Len(d) > 0
  <2>1. /\ Len(d) \in 1 .. Len(c) - 1 + 1 /\ 1 \in 1 .. Len(t) /\ Len(c) \in 1 .. Len(t)
        /\ 1 \in 1 .. Len(c) - 1 + 1
    BY <1>1, <1>3 DEF Dir
  <2>2. SubSeq(SubSeq(t, 1, Len(c)), 1, Len(d)) = SubSeq(t, 1 + 1 - 1, 1 + Len(d) - 1)
    BY <2>1, SubSeqOfSubSeq DEF Dir
  <2>3. 1 + 1 - 1 = 1 /\ 1 + Len(d) - 1 = Len(d)
    BY DEF Dir
  <2>4. SubSeq(c, 1, Len(d)) = d
    BY <1>1, <2>2, <2>3
  <2>5. QED
    BY <1>1, <2>4, PrefixIsSubSeq
<1>4. QED
  BY <1>2, <1>3 DEF Dir

LEMMA LongestPrefix ==
  ASSUME NEW t \in Dir, NEW D \in SUBSET Dir, D # {}, \A d \in D : IsPrefix(d, t)
  PROVE  \E c \in D : \A d \in D : Len(d) <= Len(c)
<1> DEFINE L == {n \in Nat : \E d \in D : n = Len(d)}
<1>1. \A d \in D : Len(d) \in L
  BY DEF Dir
<1>2. \A n \in L : n <= Len(t)
  BY DEF IsPrefix
<1>3. Len(t) \in Nat
  BY DEF Dir
<1>4. PICK n \in L : \A k \in L : k <= n
  <2> HIDE DEF L
  <2>1. L # {}
    BY <1>1
  <2>2. L \in SUBSET Nat
    BY DEF L
  <2>3. QED
    BY <1>2, <1>3, <2>1, <2>2, GreatestNat
<1>5. PICK c \in D : n = Len(c)
  OBVIOUS
<1>6. QED
  BY <1>1, <1>4, <1>5

-----------------------------------------------------------------------------
(* The look-ups.                                                             *)

\* The directories of a set of keys that a target is below.
Above(K, t) == {d \in DirKeys : DirKey(d) \in K /\ IsPrefix(d, t.dirs)}

\* A key is one of three kinds.
LEMMA KeyKinds ==
  ASSUME NEW k \in Keys
  PROVE  \/ k.kind = "dir" /\ k.dirs \in DirKeys /\ k = DirKey(k.dirs)
         \/ k.kind = "ext" /\ k.ext \in ExtKeys /\ k = ExtKey(k.ext)
         \/ k.kind = "default" /\ k = DefaultKey
  BY DEF Keys, DirKey, ExtKey, DefaultKey

LEMMA ByExtensionIs ==
  ASSUME NEW K \in SUBSET Keys, NEW e
  PROVE  ByExtension(K, e) = K \cap {ExtKey(e)}
<1>1. \A k \in K : SameExtension(e, k) <=> k = ExtKey(e)
  BY KeyKinds DEF SameExtension, ExtKey
<1>2. ~ Before(ExtKey(e), ExtKey(e))
  BY DEF Before, ExtKey
<1>3. QED
  BY <1>1, <1>2 DEF ByExtension, First

LEMMA ByPrefixIs ==
  ASSUME NEW K \in SUBSET Keys, DefaultKey \in K, NEW t, t.dirs \in Dir
  PROVE  /\ Above(K, t) = {} => ByPrefix(K, t) = {DefaultKey}
         /\ Above(K, t) # {} =>
              \E c \in Above(K, t) :
                /\ \A d \in Above(K, t) : Len(d) <= Len(c)
                /\ ByPrefix(K, t) = {DirKey(c)}
<1>1. \A k \in K : BeginsWith(t, k) <=> k = DefaultKey \/ \E d \in Above(K, t) : k = DirKey(d)
  BY KeyKinds DEF BeginsWith, Above, DirKey, DefaultKey
<1>2. \A d \in Above(K, t) : DirKey(d) \in K /\ Before(DirKey(d), DefaultKey)
  BY DEF Above, Before, DirKey, DefaultKey
<1>3. ~ Before(DefaultKey, DefaultKey) /\ \A d : ~ Before(DefaultKey, DirKey(d))
  BY DEF Before, DirKey, DefaultKey
<1>4. \A c, d : Before(DirKey(d), DirKey(c)) <=> DirKey(d) # DirKey(c) /\ IsPrefix(c, d)
  BY DEF Before, DirKey
<1>5. \A c, d : DirKey(c) = DirKey(d) <=> c = d
  BY DEF DirKey
<1>6. ByPrefix(K, t) = {k \in K : BeginsWith(t, k) /\ ~ \E j \in K : BeginsWith(t, j) /\ Before(j, k)}
  BY DEF ByPrefix, First
<1>7. ASSUME Above(K, t) # {}
      PROVE  \E c \in Above(K, t) :
               (\A d \in Above(K, t) : Len(d) <= Len(c)) /\ ByPrefix(K, t) = {DirKey(c)}
  <2>1. Above(K, t) \in SUBSET Dir /\ \A d \in Above(K, t) : IsPrefix(d, t.dirs)
    BY RouteAssumption DEF Above, Dir
  <2>2. PICK c \in Above(K, t) : \A d \in Above(K, t) : Len(d) <= Len(c)
    BY <1>7, <2>1, LongestPrefix
  <2>3. \A d \in Above(K, t) : IsPrefix(d, c) /\ (IsPrefix(c, d) => d = c)
    <3> SUFFICES ASSUME NEW d \in Above(K, t) PROVE IsPrefix(d, c) /\ (IsPrefix(c, d) => d = c)
      OBVIOUS
    <3>1. IsPrefix(d, c) /\ (Len(d) = Len(c) => d = c)
      BY <2>1, <2>2, PrefixesOrdered
    <3>2. IsPrefix(c, d) => Len(c) = Len(d)
      BY <2>1, <2>2, LenProperties DEF IsPrefix, Dir
    <3>3. QED
      BY <3>1, <3>2
  <2>4. DirKey(c) \in ByPrefix(K, t)
    BY <1>1, <1>2, <1>3, <1>4, <1>5, <1>6, <2>2, <2>3
  <2>5. \A k \in ByPrefix(K, t) : k = DirKey(c)
    BY <1>1, <1>2, <1>4, <1>5, <1>6, <2>2, <2>3
  <2>6. QED
    BY <2>2, <2>4, <2>5
<1>8. ASSUME Above(K, t) = {} PROVE ByPrefix(K, t) = {DefaultKey}
  BY <1>1, <1>3, <1>6, <1>8
<1>9. QED
  BY <1>7, <1>8

\* What a look-up returns: the key of the extension, or else the longest
\* directory, or else the default route.
LEMMA LookUpIs ==
  ASSUME NEW K \in SUBSET Keys, DefaultKey \in K, NEW t, t.dirs \in Dir, NEW e
  PROVE  /\ LookUp(K, t, e) \in K
         /\ ExtKey(e) \in K => LookUp(K, t, e) = ExtKey(e)
         /\ ExtKey(e) \notin K /\ Above(K, t) = {} => LookUp(K, t, e) = DefaultKey
         /\ ExtKey(e) \notin K /\ Above(K, t) # {} =>
              \E c \in Above(K, t) :
                (\A d \in Above(K, t) : Len(d) <= Len(c)) /\ LookUp(K, t, e) = DirKey(c)
<1> DEFINE S == IF ByExtension(K, e) # {} THEN ByExtension(K, e) ELSE ByPrefix(K, t)
<1>1. \A x : S = {x} => LookUp(K, t, e) = x
  BY DEF LookUp
<1>2. ExtKey(e) \in K => S = {ExtKey(e)}
  BY ByExtensionIs
<1>3. ExtKey(e) \notin K => S = ByPrefix(K, t)
  BY ByExtensionIs
<1> HIDE DEF S
<1>4. /\ ExtKey(e) \in K => LookUp(K, t, e) = ExtKey(e)
      /\ ExtKey(e) \notin K /\ Above(K, t) = {} => LookUp(K, t, e) = DefaultKey
  BY <1>1, <1>2, <1>3, ByPrefixIs
<1>5. ExtKey(e) \notin K /\ Above(K, t) # {} =>
        \E c \in Above(K, t) :
          (\A d \in Above(K, t) : Len(d) <= Len(c)) /\ LookUp(K, t, e) = DirKey(c)
  BY <1>1, <1>3, ByPrefixIs
<1>6. LookUp(K, t, e) \in K
  BY <1>4, <1>5 DEF Above
<1>7. QED
  BY <1>4, <1>5, <1>6

LEMMA ExtensionKeys == \A e : ExtKey(e) \in Keys => e \in ExtKeys
  BY DEF Keys, DirKey, ExtKey, DefaultKey

\* What GetRoute() returns is what a location means.
LEMMA GetRouteMeans ==
  ASSUME NEW K \in SUBSET Keys, DefaultKey \in K, NEW t, t.dirs \in Dir
  PROVE  GetRoute(K, t) \in K /\ Means(K, t, GetRoute(K, t))
<1> DEFINE e == Extension(t)
           k == LookUp(K, t, e)
<1>1. k \in K
  BY LookUpIs
<1>2. (\E x \in ExtKeys : ExtKey(x) \in K /\ e = x) <=> ExtKey(e) \in K
  BY ExtensionKeys
<1>3. Above(K, t) = {d \in DirKeys : DirKey(d) \in K /\ IsPrefix(d, t.dirs)}
  BY DEF Above
<1>4. CASE ExtKey(e) \in K
  <2>1. k = ExtKey(e)
    BY <1>4, LookUpIs
  <2>2. QED
    BY <1>1, <1>2, <1>4, <2>1 DEF Means, GetRoute
<1>5. CASE ExtKey(e) \notin K /\ Above(K, t) = {}
  <2>1. k = DefaultKey
    BY <1>5, LookUpIs
  <2>2. QED
    BY <1>1, <1>2, <1>3, <1>5, <2>1 DEF Means, GetRoute
<1>6. CASE ExtKey(e) \notin K /\ Above(K, t) # {}
  <2>1. PICK c \in Above(K, t) :
               (\A d \in Above(K, t) : Len(d) <= Len(c)) /\ k = DirKey(c)
    BY <1>6, LookUpIs
  <2>2. k.kind = "dir" /\ k.dirs = c
    BY <2>1 DEF DirKey
  <2> HIDE DEF k
  <2>3. QED
    BY <1>1, <1>2, <1>3, <1>6, <2>1, <2>2 DEF Means, GetRoute, k
<1>7. QED
  BY <1>4, <1>5, <1>6

\* The key of the route that GetRoute() returned leads back to that route, when
\* it is looked up as if it were a target.
LEMMA KeyLeadsBack ==
  ASSUME NEW K \in SUBSET Keys, DefaultKey \in K, NEW t, t.dirs \in Dir
  PROVE  RouteOfKey(K, GetRoute(K, t)) = GetRoute(K, t)
<1> DEFINE e == Extension(t)
           k == LookUp(K, t, e)
           s == [dirs |-> IF k.kind = "dir" THEN k.dirs ELSE <<>>, leaf |-> Nothing]
           x == IF k.kind = "ext" THEN k.ext ELSE Nothing
<1>1. ExtKey(Nothing) \notin K
  BY ExtensionKeys, RouteAssumption
<1>2. k \in K /\ RouteOfKey(K, GetRoute(K, t)) = LookUp(K, s, x)
  BY LookUpIs DEF RouteOfKey, GetRoute
<1>3. CASE ExtKey(e) \in K
  <2>1. k = ExtKey(e)
    BY <1>3, LookUpIs
  <2>2. x = e /\ s.dirs \in Dir
    BY <2>1 DEF ExtKey, Dir
  <2> HIDE DEF k, s, x
  <2>3. LookUp(K, s, x) = ExtKey(e)
    BY <1>3, <2>2, LookUpIs
  <2>4. QED
    BY <1>2, <2>1, <2>3 DEF GetRoute, k
<1>4. CASE ExtKey(e) \notin K /\ Above(K, t) = {}
  <2>1. k = DefaultKey
    BY <1>4, LookUpIs
  <2>2. x = Nothing /\ s.dirs = <<>> /\ s.dirs \in Dir
    BY <2>1 DEF DefaultKey, Dir
  <2> HIDE DEF k, s, x
  <2>3. \A d \in Above(K, s) : IsPrefix(d, t.dirs)
    <3>1. \A d \in Dir : IsPrefix(d, <<>>) => d = <<>>
      BY DEF IsPrefix, Dir
    <3>2. IsPrefix(<<>>, t.dirs)
      BY SubSeqEmpty DEF IsPrefix, Dir
    <3>3. QED
      BY <2>2, <3>1, <3>2, RouteAssumption DEF Above, Dir
  <2>4. Above(K, s) = {}
    BY <1>4, <2>3 DEF Above
  <2>5. LookUp(K, s, x) = DefaultKey
    BY <1>1, <2>2, <2>4, LookUpIs
  <2>6. QED
    BY <1>2, <2>1, <2>5 DEF GetRoute, k
<1>5. CASE ExtKey(e) \notin K /\ Above(K, t) # {}
  <2>1. PICK c \in Above(K, t) : k = DirKey(c)
    BY <1>5, LookUpIs
  <2>2. x = Nothing /\ s.dirs = c /\ c \in Dir /\ DirKey(c) \in K
    BY <2>1, RouteAssumption DEF DirKey, Above, Dir
  <2> HIDE DEF k, s, x
  <2>3. c \in Above(K, s)
    BY <2>1, <2>2 DEF Above, IsPrefix
  <2>4. PICK b \in Above(K, s) :
               (\A d \in Above(K, s) : Len(d) <= Len(b)) /\ LookUp(K, s, x) = DirKey(b)
    BY <1>1, <2>2, <2>3, LookUpIs
  <2>5. b \in Dir /\ IsPrefix(b, c) /\ IsPrefix(c, c) /\ Len(c) <= Len(b)
    BY <2>2, <2>3, <2>4, RouteAssumption DEF Above, Dir
  <2>6. Len(b) = Len(c)
    BY <2>2, <2>5, LenProperties DEF IsPrefix, Dir
  <2>7. b = c
    BY <2>2, <2>5, <2>6, PrefixesOrdered DEF Dir
  <2>8. QED
    BY <1>2, <2>1, <2>4, <2>7 DEF GetRoute, k
<1>6. QED
  BY <1>3, <1>4, <1>5

-----------------------------------------------------------------------------
(* The inductive invariant.                                                  *)

Asked == GetRoute(keys, asked)
AskedBefore == GetRoute(before, asked)

\* The target is the one asked for until check_index() has been called; only
\* what is looked up after it became that of a directory may have another
\* route than the one asked for.
RouteInv ==
  /\ RouteTypeOK
  /\ DefaultKey \in keys /\ DefaultKey \in before
  /\ step \in {"limit", "route"} => keys = before
  /\ keys = before \/ replaced
  /\ step \in {"limit", "route", "translate", "index"} => target = asked
  /\ used["limit"] \in {Nothing, AskedBefore} /\ used["root"] \in {Nothing, Asked}
  /\ step # "limit" => used["limit"] = AskedBefore
  /\ step \in {"limit", "route"} => \A l \in LookUps \ {"limit"} : used[l] = Nothing
  /\ target = asked => \A l \in LookUps \ {"limit"} : used[l] \in {Nothing, Asked}
  /\ used["method"] # Nothing => step = "end" /\ used["method"] = GetRoute(keys, target)

LEMMA TargetsAreDirs ==
  ASSUME asked \in Target, target \in {asked, Directory(asked)}
  PROVE  /\ asked.dirs \in Dir /\ target.dirs \in Dir
         /\ WithSlash(target) = Directory(asked)
         /\ asked.leaf = Nothing => Directory(asked) = asked
         /\ asked.leaf # Nothing => Directory(asked) # asked
<1>1. asked = [dirs |-> asked.dirs, leaf |-> asked.leaf] /\ asked.leaf \in Segment \cup {Nothing}
  BY DEF Target
<1>2. asked.dirs \in Dir
  <2>1. PICK n \in 0 .. Depth : asked.dirs \in [1 .. n -> Segment]
    BY DEF Target, Dirs
  <2>2. n \in Nat
    BY RouteAssumption
  <2>3. QED
    BY <2>1, <2>2 DEF Dir
<1>3. AsDirs(asked) \in Dir
  BY <1>1, <1>2 DEF AsDirs, Dir
<1>4. Directory(asked).dirs = AsDirs(asked) /\ Directory(asked).leaf = Nothing
  BY DEF Directory
<1>5. WithSlash(asked) = Directory(asked) /\ WithSlash(Directory(asked)) = Directory(asked)
  BY <1>4 DEF WithSlash, Directory, AsDirs
<1>6. asked.leaf = Nothing => Directory(asked) = asked
  BY <1>1 DEF Directory, AsDirs
<1>7. QED
  BY <1>2, <1>3, <1>4, <1>5, <1>6

LEMMA KeySetsAre == \A K \in KeySets : K \in SUBSET Keys /\ DefaultKey \in K
  BY DEF KeySets, Keys

LEMMA RouteInitInv == RouteInit => RouteInv
<1> SUFFICES ASSUME RouteInit PROVE RouteInv
  OBVIOUS
<1>1. keys \in SUBSET Keys /\ DefaultKey \in keys /\ before = keys /\ replaced = FALSE
  BY KeySetsAre DEF RouteInit
<1>2. used \in [LookUps -> Keys \cup {Nothing}] /\ \A l \in LookUps : used[l] = Nothing
  BY DEF RouteInit
<1>3. step = "limit" /\ target = asked /\ asked \in Target
  BY DEF RouteInit
<1>4. QED
  BY <1>1, <1>2, <1>3 DEF RouteInv, RouteTypeOK, LookUps

LEMMA RouteNextInv == RouteInv /\ [RouteNext]_routeVars => RouteInv'
<1> SUFFICES ASSUME RouteInv, [RouteNext]_routeVars PROVE RouteInv'
  OBVIOUS
<1> USE DEF RouteInv
<1> DEFINE Same == keys' = keys /\ before' = before /\ replaced' = replaced /\ asked' = asked
<1>1. /\ keys \in SUBSET Keys /\ asked.dirs \in Dir /\ target.dirs \in Dir
      /\ before \in SUBSET Keys
      /\ GetRoute(keys, target) \in Keys /\ Asked \in Keys /\ AskedBefore \in Keys
  BY TargetsAreDirs, GetRouteMeans DEF RouteTypeOK, Asked, AskedBefore
<1>2. RouteOfKey(keys, GetRouteString(keys, asked)) = Asked
  BY <1>1, KeyLeadsBack DEF GetRouteString, GetRoute, Asked
<1>3. CASE CheckLimit
  <2>1. keys = before
    BY <1>3 DEF CheckLimit
  <2>2. Same /\ target' = target /\ step' \in {"route", "end"}
        /\ used' = [used EXCEPT !["limit"] = GetRoute(keys, asked)] /\ step = "limit"
    BY <1>3 DEF CheckLimit, Use
  <2>3. QED
    BY <1>1, <2>1, <2>2 DEF RouteTypeOK, LookUps, Asked, AskedBefore
<1>4. CASE Translate
  <2>1. Same /\ target' = target /\ step' \in {"index", "again"}
        /\ used' = [used EXCEPT !["root"] = Asked] /\ step = "translate"
    BY <1>2, <1>4 DEF Translate, Use
  <2>2. QED
    BY <1>1, <2>1 DEF RouteTypeOK, LookUps, Asked, AskedBefore
<1>5. ASSUME NEW call \in {"index", "again"}, NEW next \in {"again", "compute"},
             CheckIndex(call, next)
      PROVE  RouteInv'
  <2>1. Same /\ target' \in {target, Directory(asked)} /\ step' = next
        /\ used' = [used EXCEPT ![call] = GetRoute(keys, target)] /\ step = call
    BY <1>5, TargetsAreDirs DEF CheckIndex, Use, RouteTypeOK
  <2>2. target' = asked => target = asked
    BY <2>1 DEF RouteTypeOK
  <2>3. QED
    BY <1>1, <2>1, <2>2 DEF RouteTypeOK, LookUps, Asked, AskedBefore
<1>6. CASE Compute
  <2>1. Same /\ target' = target /\ step' = "end"
        /\ used' = [used EXCEPT !["method"] = GetRoute(keys, target)] /\ step = "compute"
    BY <1>6 DEF Compute, Use
  <2>2. QED
    BY <1>1, <2>1 DEF RouteTypeOK, LookUps, Asked, AskedBefore
<1>7. CASE UNCHANGED routeVars
  BY <1>7 DEF routeVars, RouteTypeOK, Asked, AskedBefore
<1>8. CASE TakeServer
  <2>1. replaced' \in BOOLEAN
    BY <1>8, Zenon DEF TakeServer
  <2>2. keys' \in SUBSET Keys /\ DefaultKey \in keys'
    BY <1>1, <1>8, KeySetsAre DEF TakeServer
  <2>3. replaced' \/ keys' = keys
    BY <1>8 DEF TakeServer
  <2>4. before' = before /\ asked' = asked /\ target' = target /\ used' = used
        /\ step = "route" /\ step' = "translate"
    BY <1>8 DEF TakeServer
  <2>5. keys' = before' \/ replaced'
    <3>1. keys = before
      BY <2>4
    <3>2. QED
      BY <2>3, <2>4, <3>1, Zenon
  <2>6. \A l \in LookUps \ {"limit"} : used[l] = Nothing
    BY <2>4
  <2>7. QED
    BY <1>1, <2>1, <2>2, <2>4, <2>5, <2>6 DEF RouteTypeOK, LookUps, AskedBefore
<1>9. QED
  BY <1>3, <1>4, <1>5, <1>6, <1>7, <1>8 DEF RouteNext

LEMMA RouteInvAlways == RouteSpec => []RouteInv
  BY RouteInitInv, RouteNextInv, PTL DEF RouteSpec

-----------------------------------------------------------------------------
\* Whatever locations the servers have, the first key of the map that matches
\* is the most specific one, among those the default server had for the limit
\* and among those of the server the request is for for the root
\* (Server.cpp:49-79, HTTP_request.cpp:49-60, 76-87).
THEOREM AlwaysMostSpecific == RouteSpec => []MostSpecific
<1>1. RouteInv => MostSpecific
  <2> SUFFICES ASSUME RouteInv PROVE MostSpecific
    OBVIOUS
  <2>1. Means(keys, asked, Asked) /\ Means(before, asked, AskedBefore)
    BY TargetsAreDirs, GetRouteMeans DEF RouteInv, RouteTypeOK, Asked, AskedBefore
  <2>2. QED
    BY <2>1 DEF RouteInv, MostSpecific
<1>2. QED
  BY RouteInvAlways, <1>1, PTL

\* The file, the index and the method are those of one route, unless
\* check_index() has made the target that of a directory; the limit too, unless
\* the routes were replaced after it (HTTP_request.cpp:58, 115).
THEOREM OneRouteAlways == RouteSpec => []OneRoute
<1>1. RouteInv => OneRoute
  <2> SUFFICES ASSUME RouteInv PROVE OneRoute
    OBVIOUS
  <2> DEFINE One == \/ \A l \in LookUps \ {"limit"} : used[l] \in {used["method"], Nothing}
                    \/ /\ asked.leaf # Nothing
                       /\ target = Directory(asked)
                       /\ Means(keys, target, used["method"])
  <2>1. ASSUME used["method"] # Nothing PROVE One
    <3>1. used["method"] = GetRoute(keys, target)
      BY <2>1 DEF RouteInv
    <3>2. Means(keys, target, used["method"])
      BY <3>1, TargetsAreDirs, GetRouteMeans DEF RouteInv, RouteTypeOK
    <3>3. CASE target = asked
      BY <3>1, <3>3 DEF RouteInv, Asked
    <3>4. CASE target # asked
      BY <3>2, <3>4, TargetsAreDirs DEF RouteInv, RouteTypeOK
    <3>5. QED
      BY <3>3, <3>4
  <2>2. ASSUME used["root"] # Nothing, used["root"] # used["limit"] PROVE replaced
    <3>1. used["root"] = Asked /\ step # "limit"
      BY <2>2 DEF RouteInv, LookUps
    <3>2. used["limit"] = AskedBefore
      BY <3>1 DEF RouteInv
    <3>3. keys # before
      BY <2>2, <3>1, <3>2 DEF Asked, AskedBefore
    <3>4. QED
      BY <3>3, Zenon DEF RouteInv
  <2> HIDE DEF One
  <2>3. QED
    BY <2>1, <2>2 DEF OneRoute, One
<1>2. QED
  BY RouteInvAlways, <1>1, PTL

-----------------------------------------------------------------------------
(* Methods                                                                   *)

\* The inductive invariant of Methods: between stat() and the reply there is a
\* request, and an index file was found in a directory, which stays one.
MethodInv ==
  /\ MethodTypeOK
  /\ stage # "idle" => rq \in Request
  /\ file = "index" => disk["named"] = "dir"
  /\ stage \in {"stated", "raced"} => loc.kind = "plain" /\ rq.method = "PUT"
  /\ stage = "stated" /\ info = "none" => At(Uploaded) = "none"
  /\ TerminationCause

LEMMA KindIs ==
  ASSUME NEW node \in Node
  PROVE  /\ Kind(node) = "none" <=> node = "none"
         /\ Kind(node) = "dir" <=> node \in DirNode
         /\ Kind(node) = "reg" <=> node \in Content
         /\ Kind(node) \in {"none", "dir", "reg"}
  BY MethodAssumption DEF Kind, Node, DirNode

LEMMA SeenIs ==
  ASSUME disk \in Disk, NEW r, NEW f, NEW path \in Path
  PROVE  /\ disk[path] \in Node
         /\ Seen(r, f, path) \in Node
         /\ Seen(r, f, path) # "none" => Seen(r, f, path) = disk[path]
         /\ path \notin Slashed(r, f) => Seen(r, f, path) = disk[path]
<1>1. disk[path] \in Node
  BY DEF Disk
<1>2. QED
  BY <1>1 DEF Seen, Node

LEMMA StatIs ==
  ASSUME NEW node \in Node, NEW info0 \in {"none", "dir", "reg"}
  PROVE  /\ Stat(node, info0) \in {"none", "dir", "reg"}
         /\ Stat(node, info0) = "none" <=> node = "none" /\ info0 = "none"
  BY KindIs DEF Stat

\* What was sent is what was computed, or the page of an error.
LEMMA SendIs ==
  ASSUME NEW status, NEW body, Send(status, body)
  PROVE  /\ reply'.status = status
         /\ \/ reply'.body = body
            \/ /\ reply'.body = <<"page">>
               /\ status \in 300 .. 511 \cap ErrorPages
               /\ rq.method \notin {Null, "HEAD"}
         /\ rq' = Null /\ file' = "named" /\ info' = "none" /\ stage' = "idle"
  BY DEF Send, Compose

LEMMA PathsAre ==
  /\ Named \subseteq Path
  /\ \A f \in Named : InUpload[f] \in Path /\ InUpload[f] \notin Named \cup {"target"}
  BY DEF Named, Path, InUpload

LEMMA UploadedIs ==
  ASSUME file \in Named
  PROVE  Uploaded \in Path /\ (Uploaded \in Named => Uploaded = file)
  BY PathsAre DEF Uploaded

\* The replies of compute_response(), each with what it does to the disk.
Refused ==
  /\ disk' = disk
  /\ \E status \in {METHOD_NOT_ALLOWED, BAD_GATEWAY, NOT_FOUND, 0, MOVED_PERMANENTLY} :
       Send(status, Chunked(rq))

GetReply ==
  /\ disk' = disk
  /\ Send(GetStatus,
          IF Listed THEN Append(Chunked(rq), "listing")
          ELSE IF info = "reg" THEN Load(file, Chunked(rq)) ELSE Chunked(rq))

PostReply == disk' = disk /\ Send(OK, Append(Chunked(rq), "form"))

LEMMA ComputeIs ==
  ASSUME MethodInv, ComputeResponse
  PROVE  \/ loc.kind # "plain" /\ Refused
         \/ loc.kind = "plain" /\ rq.method = "HEAD" /\ HttpHead
         \/ loc.kind = "plain" /\ rq.method = "GET" /\ GetReply
         \/ loc.kind = "plain" /\ rq.method = "POST" /\ PostReply
         \/ loc.kind = "plain" /\ rq.method = "PUT" /\ StatUpload
         \/ loc.kind = "plain" /\ rq.method = "DELETE" /\ HttpDelete
         \/ /\ stage' \in {"forked", "terminated"}
            /\ UNCHANGED <<rq, file, info, reply, disk>>
            /\ stage' = "terminated" =>
                 \/ rq.method = "GET" /\ ~rq.host /\ info = "dir" /\ loc.autoindex
                 \/ rq.method = "POST" /\ rq.content = Bad /\ ~rq.chunked
<1>1. CASE loc.kind = "plain" /\ Method
  <2>1. CASE rq.method = "GET" /\ HttpGet
    BY <1>1, <2>1 DEF HttpGet, GetReply, Terminate, Listed
  <2>2. CASE rq.method = "POST" /\ HttpPost
    <3>1. RequestBody = Bad => rq.content = Bad /\ ~rq.chunked
      BY MethodAssumption, <2>2 DEF RequestBody
    <3>2. QED
      BY <1>1, <2>2, <3>1 DEF HttpPost, PostReply, Terminate
  <2>3. QED
    BY <1>1, <2>1, <2>2 DEF Method
<1>2. CASE loc.kind = "cgi" /\ Execute /\ UNCHANGED disk
  BY <1>2 DEF Execute, Refused
<1>3. CASE loc.kind = "forbidden" /\ Send(METHOD_NOT_ALLOWED, Chunked(rq)) /\ UNCHANGED disk
  BY <1>3 DEF Refused
<1>4. CASE loc.kind = "redirection" /\ Send(MOVED_PERMANENTLY, Chunked(rq)) /\ UNCHANGED disk
  BY <1>4 DEF Refused
<1>5. QED
  BY <1>1, <1>2, <1>3, <1>4 DEF ComputeResponse

\* A request is answered by compute_response(), or in the last step of a PUT.
LEMMA AnswerIs ==
  ASSUME MethodInv, MethodNext, Answered
  PROVE  \/ loc.kind = "plain" /\ rq.method = "PUT" /\ HttpPut
         \/ loc.kind # "plain" /\ Refused
         \/ loc.kind = "plain" /\ rq.method = "HEAD" /\ HttpHead
         \/ loc.kind = "plain" /\ rq.method = "GET" /\ GetReply
         \/ loc.kind = "plain" /\ rq.method = "POST" /\ PostReply
         \/ loc.kind = "plain" /\ rq.method = "DELETE" /\ HttpDelete
<1>1. \A r \in Requests : ~Reject(r) /\ ~TranslateTarget(r)
  BY DEF Answered, Reject, TranslateTarget
<1>2. ~External
  BY DEF Answered, External
<1>3. ComputeResponse \/ (loc.kind = "plain" /\ rq.method = "PUT" /\ HttpPut)
  BY <1>1, <1>2 DEF MethodNext, MethodInv, HttpPut
<1>4. ~StatUpload
  BY DEF StatUpload, Answered
<1>5. QED
  BY <1>3, <1>4, ComputeIs DEF Answered

-----------------------------------------------------------------------------
(* The action properties                                                     *)

LEMMA RefusedChangesNothingStep ==
  ASSUME MethodInv, MethodNext, Answered, reply'.status >= 400
  PROVE  disk' = disk
<1>1. CASE HttpPut
  <2>1. reply'.status = PutStatus
    BY <1>1, SendIs DEF HttpPut
  <2>2. ~Writable(Uploaded)
    BY <2>1 DEF PutStatus, NO_CONTENT, OK, CREATED
  <2>3. QED
    BY <1>1, <2>2 DEF HttpPut
<1>2. CASE HttpDelete
  <2>1. reply'.status = DeleteStatus
    BY <1>2, SendIs DEF HttpDelete
  <2>2. ~ (info = "reg" /\ Removes("target"))
    BY <2>1 DEF DeleteStatus, OK
  <2>3. QED
    BY <1>2, <2>2 DEF HttpDelete
<1>3. CASE HttpHead
  BY <1>3 DEF HttpHead
<1>4. QED
  BY <1>1, <1>2, <1>3, AnswerIs DEF Refused, GetReply, PostReply

\* Only HttpPut answers a PUT of a location that is none of the other kinds.
LEMMA PutIs ==
  ASSUME MethodInv, MethodNext, Answers("PUT")
  PROVE  HttpPut /\ reply'.status = PutStatus
<1>1. HttpPut
  BY AnswerIs DEF Answers
<1>2. QED
  BY <1>1, SendIs DEF HttpPut

LEMMA PutStoredStep ==
  ASSUME MethodInv, MethodNext, Answers("PUT")
  PROVE  \/ /\ \E left \in Written(RequestBody) : disk' = [disk EXCEPT ![Uploaded] = left]
            /\ reply'.status \in IF RequestBody = Empty THEN {NO_CONTENT} ELSE {OK, CREATED}
         \/ /\ disk' = disk
            /\ reply'.status = IF RequestBody = Empty THEN NO_CONTENT ELSE FORBIDDEN
<1>1. CASE Writable(Uploaded)
  <2>1. \E left \in Written(RequestBody) : disk' = [disk EXCEPT ![Uploaded] = left]
    BY <1>1, PutIs DEF HttpPut
  <2>2. reply'.status \in IF RequestBody = Empty THEN {NO_CONTENT} ELSE {OK, CREATED}
    BY <1>1, PutIs DEF PutStatus
  <2>3. QED
    BY <2>1, <2>2
<1>2. CASE ~Writable(Uploaded)
  BY <1>2, PutIs DEF HttpPut, PutStatus
<1>3. QED
  BY <1>1, <1>2

LEMMA CreatedIsNewStep ==
  ASSUME MethodInv, MethodNext
  PROVE  /\ stage' = "stated" =>
              (info' = "none" <=> At(Uploaded) = "none" /\ info = "none")
         /\ Answers("PUT") /\ reply'.status = CREATED => disk[Uploaded] = "none" \/ stage = "raced"
         /\ Answers("PUT") /\ reply'.status = OK => info # "none"
<1>1. Uploaded \in Path /\ disk \in Disk /\ info \in {"none", "dir", "reg"}
  BY UploadedIs DEF MethodInv, MethodTypeOK
<1>2. At(Uploaded) \in Node
  BY <1>1, SeenIs DEF At
<1>3. ASSUME stage' = "stated"
      PROVE  info' = "none" <=> At(Uploaded) = "none" /\ info = "none"
  <2>1. CASE ComputeResponse
    <3>1. StatUpload
      BY <1>3, <2>1, ComputeIs, SendIs DEF Refused, HttpHead, GetReply, PostReply, HttpDelete
    <3>2. QED
      BY <1>1, <1>2, <3>1, StatIs DEF StatUpload
  <2>2. ~ComputeResponse => FALSE
    <3>1. ~External
      BY <1>3 DEF External
    <3>2. ~HttpPut
      BY <1>3, SendIs DEF HttpPut
    <3>3. \A r \in Requests : ~TranslateTarget(r) /\ ~Reject(r)
      BY <1>3 DEF TranslateTarget, Reject
    <3>4. QED
      BY <3>1, <3>2, <3>3 DEF MethodNext
  <2>3. QED
    BY <2>1, <2>2
<1>4. ASSUME Answers("PUT"), reply'.status = CREATED
      PROVE  disk[Uploaded] = "none" \/ stage = "raced"
  <2>1. HttpPut /\ PutStatus = CREATED
    BY <1>4, PutIs
  <2>2. Writable(Uploaded) /\ info = "none"
    BY <2>1 DEF PutStatus, OK, CREATED, NO_CONTENT, FORBIDDEN
  <2>3. At(Uploaded) = disk[Uploaded]
    BY <1>1, <2>2, SeenIs DEF Writable, At
  <2>4. QED
    BY <2>1, <2>2, <2>3 DEF MethodInv, HttpPut
<1>5. ASSUME Answers("PUT"), reply'.status = OK PROVE info # "none"
  BY <1>5, PutIs DEF PutStatus, OK, CREATED, NO_CONTENT, FORBIDDEN
<1>6. QED
  BY <1>3, <1>4, <1>5

LEMMA ServedIsFileStep ==
  ASSUME MethodInv, MethodNext, Answers("GET"), reply'.status = OK, info = "reg"
  PROVE  reply'.body = IF disk[file] = Empty THEN <<>> ELSE <<disk[file]>>
<1>1. GetReply
  BY AnswerIs DEF Answers
<1>2. ~Listed
  BY DEF Listed
<1>3. Send(GetStatus, Load(file, Chunked(rq)))
  BY <1>1, <1>2 DEF GetReply
<1>4. reply'.status = GetStatus
  BY <1>3, SendIs
<1>5. Readable(file)
  BY <1>4 DEF GetStatus, OK, FORBIDDEN
<1>6. OK \notin ErrorPages
  BY DEF OK, ErrorPages
<1>7. reply'.body = Load(file, Chunked(rq))
  BY <1>3, <1>4, <1>6, SendIs
<1>8. QED
  BY <1>5, <1>7 DEF Load

LEMMA BodilessRepliesStep ==
  ASSUME MethodInv, MethodNext, Answered, ~rq.chunked,
         rq.method = "HEAD" \/ reply'.status = NO_CONTENT
  PROVE  reply'.body = <<>>
<1>1. Chunked(rq) = <<>>
  BY DEF Chunked
<1>2. ASSUME NEW status, Send(status, <<>>)
      PROVE  reply'.body = <<>>
  <2>1. status = NO_CONTENT \/ rq.method = "HEAD"
    BY <1>2, SendIs
  <2>2. NO_CONTENT \notin ErrorPages
    BY DEF NO_CONTENT, ErrorPages
  <2>3. QED
    BY <1>2, <2>1, <2>2, SendIs
<1>3. CASE loc.kind # "plain" /\ Refused
  BY <1>1, <1>2, <1>3 DEF Refused
<1>4. CASE HttpHead
  BY <1>1, <1>2, <1>4 DEF HttpHead
<1>5. CASE HttpPut
  BY <1>1, <1>2, <1>5 DEF HttpPut
<1>6. CASE rq.method = "GET" /\ GetReply
  <2>1. reply'.status = GetStatus
    BY <1>6, SendIs DEF GetReply
  <2>2. GetStatus # NO_CONTENT
    BY DEF GetStatus, NO_CONTENT, OK, FORBIDDEN, NOT_FOUND
  <2>3. QED
    BY <1>6, <2>1, <2>2
<1>7. CASE rq.method = "POST" /\ PostReply
  <2>1. reply'.status = OK
    BY <1>7, SendIs DEF PostReply
  <2>2. QED
    BY <1>7, <2>1 DEF OK, NO_CONTENT
<1>8. CASE rq.method = "DELETE" /\ HttpDelete
  <2>1. reply'.status = DeleteStatus
    BY <1>8, SendIs DEF HttpDelete
  <2>2. DeleteStatus # NO_CONTENT
    BY DEF DeleteStatus, NO_CONTENT, OK, FORBIDDEN, NOT_FOUND
  <2>3. QED
    BY <1>8, <2>1, <2>2
<1>9. QED
  BY <1>3, <1>4, <1>5, <1>6, <1>7, <1>8, AnswerIs

-----------------------------------------------------------------------------
(* The inductive invariant                                                   *)

ReplyBodies == Bodies({"page"} \cup (Content \ {Empty}), {"listing", "form", "deleted"})

LEMMA BodiesAre ==
  /\ <<>> \in ReplyBodies /\ <<"page">> \in ReplyBodies
  /\ \A r : Chunked(r) \in ReplyBodies
  /\ \A r : \A p \in {"listing", "form", "deleted"} : Append(Chunked(r), p) \in ReplyBodies
  /\ \A c \in Content : c # Empty => <<c>> \in ReplyBodies
<1>1. \A r : Chunked(r) \in {<<>>, <<"chunks">>}
  BY DEF Chunked
<1>2. \A p \in {"listing", "form", "deleted"} :
        Append(<<>>, p) = <<p>> /\ Append(<<"chunks">>, p) = <<"chunks", p>>
  <2> TAKE p \in {"listing", "form", "deleted"}
  <2> DEFINE W == {"chunks", "listing", "form", "deleted"}
  <2>1. /\ <<>> \in Seq(W) /\ <<p>> \in Seq(W) /\ <<"chunks">> \in Seq(W)
        /\ <<"chunks", p>> \in Seq(W)
    OBVIOUS
  <2>2. Append(<<>>, p) = <<p>>
    BY <2>1, AppendProperties, SeqEqual
  <2>3. Append(<<"chunks">>, p) = <<"chunks", p>>
    <3>1. /\ Append(<<"chunks">>, p) \in Seq(W) /\ Len(Append(<<"chunks">>, p)) = 2
          /\ Append(<<"chunks">>, p)[1] = "chunks" /\ Append(<<"chunks">>, p)[2] = p
      BY <2>1, AppendProperties
    <3>2. Len(<<"chunks", p>>) = 2 /\ <<"chunks", p>>[1] = "chunks" /\ <<"chunks", p>>[2] = p
      OBVIOUS
    <3> DEFINE s == Append(<<"chunks">>, p)
    <3> DEFINE t == <<"chunks", p>>
    <3> HIDE DEF s, t
    <3>3. \A i \in 1 .. Len(s) : s[i] = t[i]
      BY <3>1, <3>2 DEF s, t
    <3>4. QED
      BY <2>1, <3>1, <3>2, <3>3, SeqEqual DEF s, t
  <2>4. QED
    BY <2>2, <2>3
<1>3. \A r : \A p \in {"listing", "form", "deleted"} : Append(Chunked(r), p) \in ReplyBodies
  BY <1>1, <1>2 DEF ReplyBodies, Bodies
<1>4. QED
  BY <1>1, <1>3 DEF ReplyBodies, Bodies

\* A reply leaves the server as before a request.
LEMMA SendInv ==
  ASSUME MethodInv, NEW status \in Nat, NEW body \in ReplyBodies, Send(status, body),
         loc' = loc, closed' = closed, disk' \in Disk
  PROVE  MethodInv'
<1>1. reply'.status \in Nat /\ reply'.body \in ReplyBodies
  BY BodiesAre DEF Send, Compose
<1>2. MethodTypeOK'
  BY <1>1, SendIs DEF MethodInv, MethodTypeOK, ReplyBodies, Named
<1>3. QED
  BY <1>2, SendIs DEF MethodInv, TerminationCause

LEMMA MethodInitInv == MethodInit => MethodInv
<1> SUFFICES ASSUME MethodInit PROVE MethodInv
  OBVIOUS
<1>1. reply.status \in Nat /\ reply.body \in ReplyBodies
  BY BodiesAre DEF MethodInit, NothingSent, OK
<1>2. loc \in Location /\ disk \in Disk /\ closed \subseteq Path
  BY MethodAssumption DEF MethodInit
<1>3. QED
  BY <1>1, <1>2 DEF MethodInit, MethodInv, MethodTypeOK, ReplyBodies, Named, TerminationCause

LEMMA RejectInv ==
  ASSUME MethodInv, NEW r \in Requests, Reject(r)
  PROVE  MethodInv'
<1>1. reply'.status \in Nat /\ reply'.body \in ReplyBodies
  BY BodiesAre DEF Reject, Compose, BAD_REQUEST, NOT_IMPLEMENTED, EXIT_FAILURE
<1>2. QED
  BY <1>1 DEF Reject, MethodInv, MethodTypeOK, ReplyBodies, TerminationCause

LEMMA TranslateTargetInv ==
  ASSUME MethodInv, NEW r \in Requests, TranslateTarget(r)
  PROVE  MethodInv'
<1>1. r \in Request /\ disk \in Disk
  BY MethodAssumption DEF MethodInv, MethodTypeOK
<1> DEFINE found == Kind(Seen(r, "named", "named"))
<1> DEFINE path == IF found = "dir" /\ loc.index /\ disk["index"] # "none"
                   THEN Indexed(r) ELSE "named"
<1>2. path \in Named
  BY DEF Named, Indexed
<1>3. Seen(r, "named", "named") \in Node /\ Seen(r, path, path) \in Node
  BY <1>1, <1>2, SeenIs, PathsAre DEF Named
<1>4. Stat(Seen(r, path, path), found) \in {"none", "dir", "reg"}
  BY <1>3, KindIs, StatIs
<1>5. path = "index" => disk["named"] = "dir"
  BY <1>1 DEF Disk, Indexed
<1>6. reply'.status \in Nat /\ reply'.body \in ReplyBodies
  BY BodiesAre DEF TranslateTarget, NothingSent, OK
<1>7. /\ rq' = r /\ file' = path /\ info' = Stat(Seen(r, path, path), found)
      /\ stage' = "translated" /\ UNCHANGED <<loc, disk, closed>>
  BY DEF TranslateTarget
<1> HIDE DEF path
<1>8. QED
  BY <1>1, <1>2, <1>4, <1>5, <1>6, <1>7 DEF MethodInv, MethodTypeOK, ReplyBodies, TerminationCause

LEMMA ExternalInv ==
  ASSUME MethodInv, External
  PROVE  MethodInv'
<1>1. PICK p \in Path, node \in {"none"} \cup Others :
        disk[p] \notin DirNode /\ disk' = [disk EXCEPT ![p] = node] /\ disk' \in Disk
  BY DEF External
<1>2. disk["named"] = "dir" => disk'["named"] = "dir"
  BY <1>1 DEF MethodInv, MethodTypeOK, Disk, DirNode
<1>3. stage # "terminated" /\ rq' = rq /\ stage \in {"translated", "stated"}
      /\ stage' = (IF stage = "translated" THEN "changed" ELSE "raced")
      /\ UNCHANGED <<loc, closed, file, info, reply>>
  BY DEF External
<1>4. QED
  BY <1>1, <1>2, <1>3 DEF MethodInv, MethodTypeOK, TerminationCause

LEMMA PutKeepsDisk ==
  ASSUME MethodInv, rq \in Request, HttpPut
  PROVE  disk' \in Disk
<1>1. disk \in Disk /\ file \in Named /\ Written(RequestBody) \subseteq Content
  BY MethodAssumption DEF MethodInv, MethodTypeOK, RequestBody, Request, Written
<1>2. CASE ~Writable(Uploaded)
  BY <1>1, <1>2 DEF HttpPut
<1>3. CASE Writable(Uploaded)
  <2>1. PICK left \in Content :
               disk' = [disk EXCEPT ![Uploaded] = left] /\ disk[Uploaded] \notin DirNode
    BY <1>1, <1>3 DEF HttpPut, Writable
  <2>2. Uploaded \in Path /\ (Uploaded \in Named => Uploaded = file)
    BY <1>1, UploadedIs
  <2>3. disk' \in [Path -> Node]
    BY <1>1, <2>1, <2>2 DEF Disk, Node
  <2>4. CASE Uploaded = "named"
    <3>1. disk["named"] # "dir" /\ disk["index"] = "none"
      BY <1>1, <2>1, <2>4 DEF Disk, DirNode
    <3>2. QED
      BY <1>1, <2>1, <2>3, <2>4, <3>1 DEF Disk, Path, Named
  <2>5. CASE Uploaded = "index"
    <3>1. disk["named"] = "dir"
      BY <2>2, <2>5 DEF MethodInv, Named
    <3>2. QED
      BY <1>1, <2>1, <2>3, <2>5, <3>1 DEF Disk, Path, Named
  <2>6. CASE Uploaded \notin {"named", "index"}
    BY <1>1, <2>1, <2>3, <2>6 DEF Disk, Path, Named
  <2>7. QED
    BY <2>4, <2>5, <2>6
<1>4. QED
  BY <1>2, <1>3

LEMMA DeleteKeepsDisk ==
  ASSUME disk \in Disk, HttpDelete
  PROVE  disk' \in Disk
<1>1. disk' = disk \/ disk' = [disk EXCEPT !["target"] = "none"]
  BY DEF HttpDelete
<1>2. "target" \in Path /\ "index" \in Path /\ "named" \in Path
  BY DEF Path, Named
<1>3. QED
  BY <1>1, <1>2 DEF Disk, Node

LEMMA ComputeResponseInv ==
  ASSUME MethodInv, ComputeResponse
  PROVE  MethodInv'
<1>1. loc' = loc /\ closed' = closed /\ rq \in Request /\ disk \in Disk /\ file \in Named
  BY DEF ComputeResponse, MethodInv, MethodTypeOK
<1>2. {METHOD_NOT_ALLOWED, BAD_GATEWAY, NOT_FOUND, 0, MOVED_PERMANENTLY, OK, FORBIDDEN,
       NO_CONTENT, CREATED} \subseteq Nat
  BY DEF METHOD_NOT_ALLOWED, BAD_GATEWAY, NOT_FOUND, MOVED_PERMANENTLY, OK, FORBIDDEN,
         NO_CONTENT, CREATED
<1>3. CASE Refused
  BY <1>1, <1>2, <1>3, SendInv, BodiesAre DEF Refused
<1>4. CASE HttpHead
  <2>1. HeadStatus \in Nat
    BY <1>2 DEF HeadStatus
  <2>2. QED
    BY <1>1, <1>4, <2>1, SendInv, BodiesAre DEF HttpHead
<1>5. CASE GetReply
  <2>1. GetStatus \in Nat
    BY <1>2 DEF GetStatus
  <2>2. Load(file, Chunked(rq)) \in ReplyBodies
    <3>1. Readable(file) => disk[file] \in Content
      BY <1>1, SeenIs, PathsAre, MethodAssumption DEF Readable, At
    <3>2. QED
      BY <3>1, BodiesAre DEF Load
  <2>3. QED
    BY <1>1, <1>5, <2>1, <2>2, SendInv, BodiesAre DEF GetReply
<1>6. CASE PostReply
  BY <1>1, <1>2, <1>6, SendInv, BodiesAre DEF PostReply
<1>7. CASE loc.kind = "plain" /\ rq.method = "PUT" /\ StatUpload
  <2>1. Uploaded \in Path /\ disk \in Disk /\ info \in {"none", "dir", "reg"}
    BY UploadedIs DEF MethodInv, MethodTypeOK
  <2>2. At(Uploaded) \in Node
    BY <2>1, SeenIs DEF At
  <2>3. info' \in {"none", "dir", "reg"} /\ (info' = "none" => At(Uploaded) = "none")
    BY <1>7, <2>1, <2>2, StatIs DEF StatUpload
  <2>4. At(Uploaded)' = At(Uploaded)
    BY <1>1, <1>7 DEF StatUpload, At, Seen, Slashed, Uploaded
  <2>5. QED
    BY <1>1, <1>7, <2>3, <2>4 DEF StatUpload, MethodInv, MethodTypeOK, TerminationCause
<1>8. CASE HttpDelete
  <2>1. DeleteStatus \in Nat
    BY <1>2 DEF DeleteStatus
  <2>2. disk' \in Disk
    BY <1>1, <1>8, DeleteKeepsDisk
  <2>3. QED
    BY <1>1, <1>8, <2>1, <2>2, SendInv, BodiesAre DEF HttpDelete
<1>9. CASE /\ stage' \in {"forked", "terminated"}
           /\ UNCHANGED <<rq, file, info, reply, disk>>
           /\ stage' = "terminated" =>
                \/ rq.method = "GET" /\ ~rq.host /\ info = "dir" /\ loc.autoindex
                \/ rq.method = "POST" /\ rq.content = Bad /\ ~rq.chunked
  BY <1>1, <1>9 DEF MethodInv, MethodTypeOK, TerminationCause
<1>10. QED
  BY <1>3, <1>4, <1>5, <1>6, <1>7, <1>8, <1>9, ComputeIs

LEMMA HttpPutInv ==
  ASSUME MethodInv, HttpPut
  PROVE  MethodInv'
<1>1. rq \in Request
  BY DEF MethodInv, HttpPut
<1>2. PutStatus \in Nat
  BY DEF PutStatus, OK, CREATED, NO_CONTENT, FORBIDDEN
<1>3. disk' \in Disk
  BY <1>1, PutKeepsDisk
<1>4. QED
  BY <1>2, <1>3, SendInv, BodiesAre DEF HttpPut

LEMMA MethodNextInv == MethodInv /\ [MethodNext]_methodVars => MethodInv'
<1> SUFFICES ASSUME MethodInv, [MethodNext]_methodVars PROVE MethodInv'
  OBVIOUS
<1>1. CASE UNCHANGED methodVars
  BY <1>1 DEF methodVars, MethodInv, MethodTypeOK, TerminationCause, At, Seen, Slashed, Uploaded
<1>2. QED
  BY <1>1, RejectInv, TranslateTargetInv, ComputeResponseInv, HttpPutInv, ExternalInv
  DEF MethodNext

LEMMA MethodInvAlways == MethodSpec => []MethodInv
  BY MethodInitInv, MethodNextInv, PTL DEF MethodSpec

-----------------------------------------------------------------------------
\* Whatever a file or a request holds, HEAD has the status of GET, unless the
\* file can not be read or changed after stat() (HTTP_methods.cpp:8-50).
THEOREM HeadAlwaysTellsGet == MethodSpec => []HeadTellsGet
<1>1. MethodInv => HeadTellsGet
  <2> SUFFICES ASSUME MethodInv, file \notin closed, Kind(At(file)) = info
               PROVE  HeadStatus = GetStatus
    BY DEF MethodInv, HeadTellsGet
  <2>1. disk \in Disk /\ file \in Path
    BY PathsAre DEF MethodInv, MethodTypeOK
  <2>2. /\ At(file) \in Node /\ disk[file] \in Node
        /\ At(file) # "none" => At(file) = disk[file]
    BY <2>1, SeenIs DEF At
  <2>3. info = "reg" => Readable(file)
    BY <2>2, KindIs DEF Readable
  <2>4. info = "dir" => Opens(file)
    BY <2>2, KindIs DEF Opens
  <2>5. QED
    BY <2>3, <2>4 DEF HeadStatus, GetStatus
<1>2. QED
  BY MethodInvAlways, <1>1, PTL

\* A reply says what was done, for any requests, files and other writers
\* (HTTP_methods.cpp:52-121, file.cpp:32-53).
THEOREM RepliesAlwaysAsDone == MethodSpec => RepliesAsDone
<1>1. MethodInv /\ [MethodNext]_methodVars
        => [Answered /\ reply'.status >= 400 => disk' = disk]_methodVars
  BY RefusedChangesNothingStep
<1>2. MethodInv /\ [MethodNext]_methodVars
        => [Answers("PUT") =>
              \/ /\ \E left \in Written(RequestBody) : disk' = [disk EXCEPT ![Uploaded] = left]
                 /\ reply'.status \in IF RequestBody = Empty THEN {NO_CONTENT} ELSE {OK, CREATED}
              \/ /\ disk' = disk
                 /\ reply'.status = IF RequestBody = Empty THEN NO_CONTENT
                                    ELSE FORBIDDEN]_methodVars
  BY PutStoredStep
<1>3. MethodInv /\ [MethodNext]_methodVars
        => [/\ stage' = "stated" =>
                 (info' = "none" <=> At(Uploaded) = "none" /\ info = "none")
            /\ Answers("PUT") /\ reply'.status = CREATED
                 => disk[Uploaded] = "none" \/ stage = "raced"
            /\ Answers("PUT") /\ reply'.status = OK => info # "none"]_methodVars
  BY CreatedIsNewStep
<1>4. MethodInv /\ [MethodNext]_methodVars
        => [Answers("GET") /\ reply'.status = OK /\ info = "reg" =>
              reply'.body = IF disk[file] = Empty THEN <<>> ELSE <<disk[file]>>]_methodVars
  BY ServedIsFileStep
<1>5. MethodInv /\ [MethodNext]_methodVars
        => [Answered /\ ~rq.chunked /\ (rq.method = "HEAD" \/ reply'.status = NO_CONTENT)
              => reply'.body = <<>>]_methodVars
  BY BodilessRepliesStep
<1>6. QED
  BY MethodInvAlways, <1>1, <1>2, <1>3, <1>4, <1>5, PTL
  DEF MethodSpec, RepliesAsDone, RefusedChangesNothing, PutStored, CreatedIsNew, ServedIsFile,
      BodilessReplies

\* The exceptions that end the server while a reply is computed are the two
\* that TerminationCause names (file.cpp:191, string.cpp:105).
THEOREM TerminationAlwaysHasCause == MethodSpec => []TerminationCause
  BY MethodInvAlways, PTL DEF MethodInv

-----------------------------------------------------------------------------
(* Vhosts.                                                                   *)

VhostsInv == TypeOK /\ OthersKeepTheirs /\ NamedServerAnswers

-----------------------------------------------------------------------------
\* getServer() returns one of the servers: if the one it returns is not the
\* default one, it serves the host, and so it is when any server does.
LEMMA GetServerFacts ==
  ASSUME NEW s \in [Server -> Server], NEW host, NEW addr,
         NEW k \in GetServer(s, host, addr)
  PROVE  /\ k \in Server
         /\ (\E i \in Server : Serves(s[i], host, addr)) => Serves(s[k], host, addr)
<1> DEFINE M == {i \in Server : Serves(s[i], host, addr)}
<1>1. CASE M = {}
  <2>1. k = 1
    BY <1>1 DEF GetServer
  <2>2. QED
    BY <1>1, <2>1, ServerAssumption DEF Server
<1>2. CASE M # {}
  <2>1. k \in M
    BY <1>2 DEF GetServer
  <2>2. QED
    BY <2>1
<1>3. QED
  BY <1>1, <1>2

\* What the assignment through the reference leaves in the servers.
LEMMA RouteFacts ==
  ASSUME NEW s \in [Server -> Server], NEW k \in Server
  PROVE  /\ Route(s, k) \in [Server -> Server]
         /\ Route(s, k)[1] = s[k]
         /\ \A i \in Server \ {1} : Route(s, k)[i] = s[i]
  BY ServerAssumption DEF Route, Server

\* The server routed to is the one meant, if that is not the default one.
LEMMA RoutedRight ==
  ASSUME TypeOK, OthersKeepTheirs,
         NEW host, NEW addr, NEW k \in GetServer(slot, host, addr),
         NEW i \in Server \ {1}, Serves(i, host, addr)
  PROVE  slot[k] = i
<1>1. slot \in [Server -> Server] /\ slot[i] = i
  BY DEF TypeOK, OthersKeepTheirs
<1>2. k \in Server /\ Serves(slot[k], host, addr)
  BY <1>1, GetServerFacts
<1>3. slot[k] \in Server
  BY <1>1, <1>2
<1>4. QED
  BY <1>2, <1>3, NoRepeatedName DEF Serves

-----------------------------------------------------------------------------
LEMMA VhostsInitInv == Init => VhostsInv
  BY ServerAssumption, ConfigAssumption
  DEF Init, VhostsInv, TypeOK, OthersKeepTheirs, NamedServerAnswers, NoReply, Reply, Server

LEMMA VhostsNextInv == VhostsInv /\ [Next]_vars => VhostsInv'
<1> SUFFICES ASSUME VhostsInv, [Next]_vars PROVE VhostsInv'
  OBVIOUS
<1> USE DEF VhostsInv
<1>1. ASSUME NEW c \in Conn, NEW host \in Name, TooLarge(c, host)
      PROVE  VhostsInv'
  <2>1. slot[1] \in Server
    BY ServerAssumption DEF TypeOK, Server
  <2>2. TypeOK'
    BY <1>1, <2>1 DEF TypeOK, TooLarge, Reply
  <2>3. OthersKeepTheirs' /\ NamedServerAnswers'
    BY <1>1 DEF TooLarge, OthersKeepTheirs, NamedServerAnswers
  <2>4. QED
    BY <2>2, <2>3
<1>2. ASSUME NEW c \in Conn, NEW host \in Name, Answer(c, host)
      PROVE  VhostsInv'
  <2>1. PICK k \in GetServer(slot, host, via[c]) :
          /\ slot' = Route(slot, k)
          /\ last' = [conn |-> c, host |-> host, by |-> slot'[1], kind |-> "routed"]
          /\ UNCHANGED cgi
    BY <1>2 DEF Answer
  <2>2. k \in Server
    BY GetServerFacts, <2>1 DEF TypeOK
  <2>3. /\ slot' \in [Server -> Server]
        /\ slot'[1] = slot[k]
        /\ \A i \in Server \ {1} : slot'[i] = slot[i]
    BY <2>1, <2>2, RouteFacts DEF TypeOK
  <2>4. TypeOK'
    BY <2>1, <2>2, <2>3, ServerAssumption DEF TypeOK, Reply, Server
  <2>5. OthersKeepTheirs'
    BY <2>3 DEF OthersKeepTheirs
  <2>6. NamedServerAnswers'
    BY <2>1, <2>3, RoutedRight DEF NamedServerAnswers
  <2>7. QED
    BY <2>4, <2>5, <2>6
<1>3. ASSUME NEW c \in Conn, NEW host \in Name, StartCgi(c, host)
      PROVE  VhostsInv'
  <2>1. PICK k \in GetServer(slot, host, via[c]) :
          /\ slot' = Route(slot, k)
          /\ cgi' = [cgi EXCEPT ![c] = host]
          /\ UNCHANGED last
    BY <1>3 DEF StartCgi
  <2>2. k \in Server
    BY GetServerFacts, <2>1 DEF TypeOK
  <2>3. /\ slot' \in [Server -> Server]
        /\ \A i \in Server \ {1} : slot'[i] = slot[i]
    BY <2>1, <2>2, RouteFacts DEF TypeOK
  <2>4. QED
    BY <2>1, <2>3 DEF TypeOK, OthersKeepTheirs, NamedServerAnswers
<1>4. ASSUME NEW c \in Conn, CgiError(c)
      PROVE  VhostsInv'
  <2>1. slot[1] \in Server /\ cgi[c] \in Name \cup {None}
    BY ServerAssumption DEF TypeOK, Server
  <2>2. TypeOK'
    BY <1>4, <2>1 DEF TypeOK, CgiError, Reply
  <2>3. OthersKeepTheirs' /\ NamedServerAnswers'
    BY <1>4 DEF CgiError, OthersKeepTheirs, NamedServerAnswers
  <2>4. QED
    BY <2>2, <2>3
<1>5. ASSUME NEW c \in Conn, CgiDone(c)
      PROVE  VhostsInv'
  BY <1>5 DEF CgiDone, TypeOK, OthersKeepTheirs, NamedServerAnswers
<1>6. CASE UNCHANGED vars
  BY <1>6 DEF vars, TypeOK, OthersKeepTheirs, NamedServerAnswers
<1>7. QED
  BY <1>1, <1>2, <1>3, <1>4, <1>5, <1>6 DEF Next

LEMMA VhostsInvAlways == Spec => []VhostsInv
  BY VhostsInitInv, VhostsNextInv, PTL DEF Spec

-----------------------------------------------------------------------------
\* Every variable keeps its type.
THEOREM VhostsTypeCorrect == Spec => []TypeOK
  BY VhostsInvAlways, PTL DEF VhostsInv

\* Server::operator= is only ever applied to _servers[0].
THEOREM OthersAlwaysKeep == Spec => []OthersKeepTheirs
  BY VhostsInvAlways, PTL DEF VhostsInv

\* Whatever was copied over _servers[0] before, a request for a server other
\* than the default one is answered by it.
THEOREM NamedServerAlways == Spec => []NamedServerAnswers
  BY VhostsInvAlways, PTL DEF VhostsInv

\* A copy over _servers[0] is never undone: once the default configuration is
\* lost, no sequence of requests brings it back.
THEOREM DefaultLostForGood == Spec => DefaultGoneForGood
<1>1. VhostsInv /\ [Next]_vars => [slot[1] # 1 => slot'[1] # 1]_vars
  <2> SUFFICES ASSUME VhostsInv, Next, slot[1] # 1 PROVE slot'[1] # 1
    BY DEF vars
  <2>1. ASSUME NEW c \in Conn, NEW host \in Name, NEW k \in GetServer(slot, host, via[c]),
               slot' = Route(slot, k)
        PROVE  slot'[1] # 1
    <3>1. k \in Server /\ slot \in [Server -> Server]
      BY <2>1, GetServerFacts DEF VhostsInv, TypeOK
    <3>2. slot'[1] = slot[k]
      BY <2>1, <3>1, RouteFacts
    <3>3. QED
      BY <3>1, <3>2 DEF VhostsInv, OthersKeepTheirs
  <2>2. QED
    BY <2>1 DEF Next, TooLarge, Answer, StartCgi, CgiError, CgiDone
<1>2. QED
  BY <1>1, VhostsInvAlways, PTL DEF Spec, DefaultGoneForGood

=============================================================================
