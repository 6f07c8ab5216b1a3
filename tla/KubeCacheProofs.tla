-------------------------- MODULE KubeCacheProofs --------------------------
(***************************************************************************)
(* The registry of scopes is exact, each scope is a true copy and those of *)
(* a key stay under the cap, for any number of resources, collections,     *)
(* viewers, scopes, edits and faults and any cap.                          *)
(***************************************************************************)
EXTENDS KubeCache, FiniteSetTheorems, TLAPS

ScopeRec == [state : {"none", "running", "asleep", "stopped"}, res : Resource,
             ver : Version, rv : Nat, hasData : BOOLEAN, objects : SUBSET Objects]
Waits == {"none", "pending", "ok", "forbidden", "failed"}
ViewerRec == [state : {"none", "opening", "waiting", "open", "ended"}, ver : Version,
              on : [Resource -> Ids \cup {None}], wait : [Resource -> Waits],
              over : BOOLEAN, left : BOOLEAN, pending : SUBSET Resource,
              seen : [Resource -> (SUBSET Objects) \cup {None}]]

(* The parts of TypeOK: the API server, the cache and the viewers, and that *)
(* the registry has the scopes that run.                                    *)
Server ==
    /\ now \in [Resource -> Nat] /\ oldest \in [Resource -> Nat]
    /\ \A r \in Resource : 1 <= oldest[r] /\ oldest[r] <= now[r] /\ now[r] <= Len(States[r])
    /\ version \in Version /\ faults \in 0 .. MaxFaults
Cache ==
    /\ scope \in [Ids -> ScopeRec] /\ older \subseteq Ids \X Ids
    /\ registry \in [Version -> [Resource -> Ids \cup {None}]]
Users == viewer \in [Viewers -> ViewerRec]
Registered ==
    \A v \in Version, r \in Resource, i \in Ids :
      registry[v][r] = i <=> (Lives(i) /\ scope[i].ver = v /\ scope[i].res = r)

(* Who waits or reads has a scope of every resource. *)
Follows == \A v \in Viewers : viewer[v].state \in {"waiting", "open"} => viewer[v].on \in [Resource -> Ids]

Inv == Server /\ Cache /\ Users /\ Registered /\ Follows /\ Copied

-----------------------------------------------------------------------------
(* The parts of a step                                                     *)

(* A collection of a resource is a set of objects. *)
LEMMA Collections ==
  ASSUME NEW r \in Resource, NEW k \in 1 .. Len(States[r])
  PROVE  States[r][k] \subseteq Objects
<1>1. k \in DOMAIN States[r] BY CacheAssumption
<1>2. States[r][k] \in Range(States[r]) BY <1>1 DEF Range
<1> QED BY <1>2 DEF Objects

(* A promise is settled as one may be. *)
LEMMA Settling ==
  ASSUME Users, NEW S, NEW how \in Waits, NEW v \in Viewers
  PROVE  Settled(v, S, how) \in [Resource -> Waits]
BY DEF Users, ViewerRec, Settled

(* What scopes that stop tell changes no viewer's state, nor his scopes. *)
LEMMA EndingTells ==
  ASSUME Users, NEW S, NEW v \in Viewers
  PROVE  /\ Ended(S)[v] \in ViewerRec
         /\ Ended(S)[v].state = viewer[v].state /\ Ended(S)[v].on = viewer[v].on
<1>1. viewer[v] \in ViewerRec BY DEF Users
<1>2. Settled(v, S, "failed") \in [Resource -> Waits] BY Settling DEF Waits
<1>3. Ended(S)[v] = [viewer[v] EXCEPT !.wait = Settled(v, S, "failed"),
                                      !.over = @ \/ (v \in Feeds /\ On(v, S))]
  BY DEF Ended
<1> QED BY <1>1, <1>2, <1>3 DEF ViewerRec

(* Nor does what a scope tells that has a new version. *)
LEMMA Telling ==
  ASSUME Cache, Users, NEW i \in Ids, NEW S
  PROVE  /\ Heard(i, S) \in [Viewers -> ViewerRec]
         /\ \A v \in Viewers : Heard(i, S)[v].state = viewer[v].state /\ Heard(i, S)[v].on = viewer[v].on
<1>2. ASSUME NEW v \in Viewers
      PROVE  /\ Heard(i, S)[v] \in ViewerRec
             /\ Heard(i, S)[v].state = viewer[v].state /\ Heard(i, S)[v].on = viewer[v].on
  <2> DEFINE w == [r \in Resource |->
                     IF viewer[v].wait[r] # "pending" \/ viewer[v].on[r] \notin S \cup {i} THEN viewer[v].wait[r]
                     ELSE IF viewer[v].on[r] \in S THEN "failed" ELSE "ok"]
             p == IF v \in Feeds /\ On(v, {i} \ S) THEN viewer[v].pending \cup {scope[i].res} ELSE viewer[v].pending
             o == viewer[v].over \/ (v \in Feeds /\ On(v, S))
  <2>1. viewer[v] \in ViewerRec BY DEF Users
  <2>2. w \in [Resource -> Waits] BY <2>1 DEF ViewerRec, Waits
  <2>3. p \subseteq Resource BY <2>1 DEF ViewerRec, Cache, ScopeRec
  <2>4. o \in BOOLEAN BY <2>1 DEF ViewerRec
  <2>5. Heard(i, S)[v] = [viewer[v] EXCEPT !.wait = w, !.pending = p, !.over = o] BY DEF Heard
  <2> HIDE DEF w, p, o
  <2> QED BY <2>1, <2>2, <2>3, <2>4, <2>5 DEF ViewerRec
<1> QED BY <1>2 DEF Heard

(* When scopes of S stop, and the others keep their key and whether they   *)
(* live, the registry stays exact.                                         *)
LEMMA Forgetting ==
  ASSUME Cache, Registered, NEW S, NEW all \in [Ids -> ScopeRec],
         \A i \in Ids : all[i].state = scope[i].state /\ all[i].ver = scope[i].ver /\ all[i].res = scope[i].res,
         scope' = Stopped(all, S), registry' = Forgotten(S)
  PROVE  /\ scope' \in [Ids -> ScopeRec]
         /\ registry' \in [Version -> [Resource -> Ids \cup {None}]]
         /\ Registered'
         /\ \A i \in Ids : Lives(i)' <=> Lives(i) /\ i \notin S
         /\ \A i \in Ids \ S : scope'[i] = all[i]
<1>1. [NoScope EXCEPT !.state = "stopped"] \in ScopeRec
  <2>1. 1 \in Resource /\ 0 \in Version BY CacheAssumption DEF Resource, Version
  <2> QED BY <2>1 DEF NoScope, ScopeRec
<1>2. scope' \in [Ids -> ScopeRec] BY <1>1 DEF Stopped
<1>3. registry' \in [Version -> [Resource -> Ids \cup {None}]] BY DEF Cache, Forgotten
<1>4. \A i \in Ids \ S : scope'[i] = all[i] BY DEF Stopped
<1>5. \A i \in Ids : i \in S => scope'[i].state = "stopped" BY DEF Stopped, NoScope
<1>6. \A i \in Ids : Lives(i)' <=> Lives(i) /\ i \notin S BY <1>4, <1>5 DEF Lives
<1>7. \A v \in Version, r \in Resource : registry'[v][r] = IF registry[v][r] \in S THEN None ELSE registry[v][r]
  BY DEF Forgotten
<1>8. Registered'
  BY <1>4, <1>6, <1>7, CacheAssumption DEF Registered
<1> QED BY <1>2, <1>3, <1>4, <1>6, <1>8

(* A list or an event brings the collection of a version. *)
LEMMA Arrives ==
  ASSUME Inv, NEW i \in Ids, ListOk(i) \/ Event(i)
  PROVE  /\ Lives(i) /\ scope[i].res \in Resource
         /\ \E k \in 1 .. now[scope[i].res] : Holds(i, States[scope[i].res][k], k)
<1> DEFINE r == scope[i].res
<1>1. r \in Resource /\ Lives(i) BY DEF Inv, Cache, ScopeRec, ListOk, Event, Lives
<1>2. CASE ListOk(i)
  <2>1. PICK k \in oldest[r] .. now[r] : Holds(i, Listed(i, k), k) BY <1>2 DEF ListOk
  <2>2. k \in 1 .. now[r] BY <1>1, <2>1 DEF Inv, Server
  <2> QED BY <1>1, <2>1, <2>2 DEF Listed
<1>3. CASE Event(i)
  <2> DEFINE k == scope[i].rv
             objects == (scope[i].objects \ (States[r][k] \ States[r][k + 1])) \cup (States[r][k + 1] \ States[r][k])
  <2>1. k \in Nat BY DEF Inv, Cache, ScopeRec
  <2>2. k \in oldest[r] .. now[r] - 1 /\ Holds(i, objects, k + 1) BY <1>3 DEF Event
  <2>3. oldest[r] \in Nat /\ now[r] \in Nat /\ 1 <= oldest[r] BY <1>1 DEF Inv, Server
  <2>4. k + 1 \in 1 .. now[r] /\ k # 0 BY <2>1, <2>2, <2>3
  <2>5. scope[i].objects = States[r][k] BY <1>1, <2>1, <2>4 DEF Inv, Copied
  <2>6. objects = States[r][k + 1] BY <2>5
  <2> HIDE DEF objects
  <2> QED BY <1>1, <2>2, <2>4, <2>6
<1> QED BY <1>2, <1>3

(* The scopes once i has these objects of version k. *)
With(i, objects, k) == [scope EXCEPT ![i].objects = objects, ![i].rv = k, ![i].hasData = TRUE]

(* A scope with the objects of another version is a scope. *)
LEMMA Filled ==
  ASSUME Inv, NEW i \in Ids, NEW k \in 1 .. now[scope[i].res], NEW objects, objects = States[scope[i].res][k]
  PROVE  LET all == With(i, objects, k) IN
         /\ all \in [Ids -> ScopeRec]
         /\ \A j \in Ids : all[j].state = scope[j].state /\ all[j].ver = scope[j].ver /\ all[j].res = scope[j].res
         /\ \A j \in Ids \ {i} : all[j] = scope[j]
         /\ all[i].objects = objects /\ all[i].rv = k
<1>1. scope[i].res \in Resource /\ k \in 1 .. Len(States[scope[i].res]) /\ k \in Nat
  BY DEF Inv, Server, Cache, ScopeRec
<1>2. objects \subseteq Objects BY <1>1, Collections
<1> QED BY ZenonT(40), <1>1, <1>2 DEF With, Inv, Cache, ScopeRec

(* After a list or an event the objects are those of the new version. *)
LEMMA Holding ==
  ASSUME Inv, NEW i \in Ids, Lives(i), NEW k \in 1 .. now[scope[i].res],
         NEW objects, objects = States[scope[i].res][k], Holds(i, objects, k)
  PROVE  Inv'
<1> DEFINE all == With(i, objects, k)
<1>3. /\ all \in [Ids -> ScopeRec]
      /\ \A j \in Ids : all[j].state = scope[j].state /\ all[j].ver = scope[j].ver /\ all[j].res = scope[j].res
      /\ \A j \in Ids \ {i} : all[j] = scope[j]
      /\ all[i].objects = objects /\ all[i].rv = k
  BY Filled
<1> HIDE DEF all
<1>4. PICK out : /\ scope' = Stopped(all, out) /\ registry' = Forgotten(out)
                 /\ older' = {p \in older : p[1] \notin out /\ p[2] \notin out}
                 /\ viewer' = Heard(i, out) /\ UNCHANGED api
  BY DEF Holds, With, all
<1>5. /\ scope' \in [Ids -> ScopeRec]
      /\ registry' \in [Version -> [Resource -> Ids \cup {None}]] /\ Registered'
      /\ \A j \in Ids : Lives(j)' <=> Lives(j) /\ j \notin out
      /\ \A j \in Ids \ out : scope'[j] = all[j]
  <2>1. Cache /\ Registered BY DEF Inv
  <2> QED BY <2>1, <1>3, <1>4, Forgetting
<1>6. Server' BY <1>4 DEF Inv, Server, api
<1>7. Cache' BY <1>4, <1>5 DEF Inv, Cache
<1>8. Users' /\ Follows' BY <1>4, Telling DEF Inv, Users, Follows
<1>9. Copied'
  <2> SUFFICES ASSUME NEW j \in Ids, Lives(j)', scope'[j].rv # 0
               PROVE  scope'[j].objects = States[scope'[j].res][scope'[j].rv]
    BY DEF Copied
  <2>1. Lives(j) /\ scope'[j] = all[j] BY <1>5
  <2> QED BY <2>1, <1>3 DEF Inv, Copied
<1> QED BY <1>5, <1>6, <1>7, <1>8, <1>9 DEF Inv

(* A scope that only falls asleep, wakes or must list again. *)
LEMMA Resting ==
  ASSUME Inv, NEW i \in Ids, Lives(i), NEW s \in {"running", "asleep"}, NEW rv \in {0, scope[i].rv},
         scope' = [scope EXCEPT ![i].state = s, ![i].rv = rv], UNCHANGED <<registry, older>>
  PROVE  Cache' /\ Registered' /\ Copied'
<1>1. scope[i] \in ScopeRec /\ rv \in Nat BY DEF Inv, Cache, ScopeRec
<1>2. scope' \in [Ids -> ScopeRec] BY <1>1 DEF Inv, Cache, ScopeRec
<1>3. \A j \in Ids \ {i} : scope'[j] = scope[j] BY DEF Inv, Cache
<1>4. /\ scope'[i].state = s /\ scope'[i].rv = rv /\ scope'[i].ver = scope[i].ver
      /\ scope'[i].res = scope[i].res /\ scope'[i].objects = scope[i].objects
  BY DEF Inv, Cache, ScopeRec
<1>5. \A j \in Ids : Lives(j)' <=> Lives(j) BY <1>3, <1>4 DEF Lives
<1>6. Cache' BY <1>2 DEF Inv, Cache
<1>7. Registered'
  <2>1. \A j \in Ids : scope'[j].ver = scope[j].ver /\ scope'[j].res = scope[j].res BY <1>3, <1>4
  <2> SUFFICES ASSUME NEW v \in Version, NEW r \in Resource, NEW j \in Ids
               PROVE  registry'[v][r] = j <=> (Lives(j)' /\ scope'[j].ver = v /\ scope'[j].res = r)
    BY DEF Registered
  <2>2. registry[v][r] = j <=> (Lives(j) /\ scope[j].ver = v /\ scope[j].res = r) BY DEF Inv, Registered
  <2>3. registry'[v][r] = registry[v][r] OBVIOUS
  <2> QED BY <2>1, <2>2, <2>3, <1>5
<1>8. Copied'
  <2> SUFFICES ASSUME NEW j \in Ids, Lives(j)', scope'[j].rv # 0
               PROVE  scope'[j].objects = States[scope'[j].res][scope'[j].rv]
    BY DEF Copied
  <2>1. Lives(j) BY <1>5
  <2>2. scope[j].rv # 0 => scope[j].objects = States[scope[j].res][scope[j].rv] BY <2>1 DEF Inv, Copied
  <2> QED BY ZenonT(40), <2>2, <1>3, <1>4
<1> QED BY <1>6, <1>7, <1>8

(* A step of a viewer leaves the cache and the API server alone. *)
LEMMA Viewing ==
  ASSUME Inv, UNCHANGED <<api, scope, registry>>, older' \subseteq Ids \X Ids, Users', Follows'
  PROVE  Inv'
<1>1. Server' BY DEF Inv, Server, api
<1>2. Cache' BY DEF Inv, Cache
<1>3. \A i \in Ids : Lives(i)' <=> Lives(i) BY DEF Lives
<1>4. Registered' BY DEF Inv, Registered, Lives
<1>5. Copied' BY DEF Inv, Copied, Lives
<1> QED BY <1>1, <1>2, <1>4, <1>5 DEF Inv

(* Scopes that a viewer takes or leaves are used last. *)
LEMMA Touching ==
  ASSUME Cache, NEW S \in SUBSET Ids
  PROVE  Touched(S) \subseteq Ids \X Ids
BY DEF Cache, Touched

(* A viewer who holds a scope of every resource reads sets of objects. *)
LEMMA Reading ==
  ASSUME Inv, NEW v \in Viewers, viewer[v].state \in {"waiting", "open"}
  PROVE  Items(v) \in [Resource -> SUBSET Objects]
BY DEF Inv, Cache, Follows, ScopeRec, Items

(* A viewer who leaves keeps what he has read. *)
LEMMA Leaving ==
  ASSUME Inv, NEW v \in Viewers, NEW seen \in [Resource -> (SUBSET Objects) \cup {None}], Leave(v, seen)
  PROVE  Inv'
<1> DEFINE new == [NoViewer EXCEPT !.state = "ended", !.seen = seen]
<1>1. 0 \in Version BY CacheAssumption DEF Version
<1>2. new \in ViewerRec /\ new.state = "ended" BY <1>1 DEF NoViewer, ViewerRec, Waits
<1>3. viewer' = [viewer EXCEPT ![v] = new] BY DEF Leave
<1> HIDE DEF new
<1>4. Users' BY <1>2, <1>3 DEF Inv, Users
<1>5. Follows' BY <1>2, <1>3 DEF Inv, Users, Follows
<1>6. older' \subseteq Ids \X Ids
  <2>1. Held(v) \intersect {i \in Ids : Lives(i)} \in SUBSET Ids OBVIOUS
  <2> QED BY <2>1, Touching DEF Leave, Inv
<1>7. UNCHANGED <<api, scope, registry>> BY DEF Leave
<1> QED BY <1>4, <1>5, <1>6, <1>7, Viewing

(* What v does when the scopes of its view are `on`. *)
Takes(v, on) ==
    /\ ScopesFor(v, on)
    /\ scope' = [i \in Ids |-> Followed(v, on, i)]
    /\ registry' = [registry EXCEPT ![viewer[v].ver] = on]
    /\ older' = Touched(Range(on))
    /\ viewer' = [viewer EXCEPT ![v].state = "waiting", ![v].on = on,
                    ![v].wait = [r \in Resource |-> IF scope[on[r]].hasData THEN "ok" ELSE "pending"]]

(* The missing scopes of the view are new ones, and no other scope changes but *)
(* that those of the view may wake.                                            *)
LEMMA Taking ==
  ASSUME Inv, NEW v \in Viewers, NEW on \in [Resource -> Ids], Takes(v, on)
  PROVE  /\ \A r \in Resource \ Missing(v) : on[r] = registry[viewer[v].ver][r]
         /\ \A r \in Missing(v) : scope[on[r]].state = "none"
         /\ \A q, r \in Missing(v) : on[q] = on[r] => q = r
         /\ \A i \in Ids : (\A r \in Missing(v) : on[r] # i) =>
              \/ scope'[i] = scope[i]
              \/ scope'[i] = [scope[i] EXCEPT !.state = "running"] /\ i \in Range(on)
<1> DEFINE ver == viewer[v].ver
<1>1. /\ ScopesFor(v, on) /\ scope' = [i \in Ids |-> Followed(v, on, i)]
  BY DEF Takes
<1>3. ver \in Version BY DEF Inv, Users, ViewerRec
<1> HIDE DEF ver
<1>4. /\ \A r \in Resource \ Missing(v) : on[r] = registry[ver][r]
      /\ \A r \in Missing(v) : scope[on[r]].state = "none"
      /\ \A q, r \in Missing(v) : on[q] = on[r] => q = r
  <2>1. \A r \in Missing(v) : \A q \in Missing(v) : q < r => on[q] < on[r]
    BY <1>1 DEF ScopesFor
  <2>2. Missing(v) \subseteq Resource /\ Resource \subseteq Int /\ Ids \subseteq Int
    BY DEF Missing, Resource, Ids
  <2>3. ASSUME NEW q \in Missing(v), NEW r \in Missing(v), on[q] = on[r]
        PROVE  q = r
    <3>1. q \in Int /\ r \in Int /\ on[q] \in Int /\ on[r] \in Int BY <2>2
    <3>2. ~(q < r) /\ ~(r < q) BY <2>1, <2>3, <3>1
    <3> QED BY <3>1, <3>2
  <2> QED BY <1>1, <2>3 DEF ScopesFor, ver
<1>6. ASSUME NEW i \in Ids, \A r \in Missing(v) : on[r] # i
      PROVE  \/ scope'[i] = scope[i]
             \/ scope'[i] = [scope[i] EXCEPT !.state = "running"] /\ i \in Range(on)
  BY <1>1, <1>6 DEF Followed
<1> QED BY <1>4, <1>6 DEF ver

(* A scope that starts is new, and that of its resource. *)
LEMMA Starting ==
  ASSUME Inv, NEW v \in Viewers, NEW on \in [Resource -> Ids], Takes(v, on), NEW r \in Missing(v)
  PROVE  /\ scope'[on[r]] = [NoScope EXCEPT !.state = "running", !.res = r, !.ver = viewer[v].ver]
         /\ r \in Resource /\ on[r] \in Ids
<1>1. r \in Resource /\ on[r] \in Ids BY DEF Missing
<1>2. \A q \in Missing(v) : on[q] = on[r] => q = r BY Taking
<1>3. (CHOOSE q \in Missing(v) : on[q] = on[r]) = r BY <1>2
<1>4. scope'[on[r]] = Followed(v, on, on[r]) BY <1>1 DEF Takes
<1> QED BY <1>1, <1>3, <1>4 DEF Followed

(* The other scopes of the view live already, under its keys. *)
LEMMA TakenBefore ==
  ASSUME Inv, NEW v \in Viewers, NEW on \in [Resource -> Ids], Takes(v, on), NEW r \in Resource \ Missing(v)
  PROVE  on[r] \in Ids /\ Lives(on[r]) /\ scope[on[r]].ver = viewer[v].ver /\ scope[on[r]].res = r
<1>1. viewer[v].ver \in Version BY DEF Inv, Users, ViewerRec
<1>2. on[r] \in Ids /\ registry[viewer[v].ver][r] = on[r] BY DEF Takes, ScopesFor
<1> QED BY <1>1, <1>2 DEF Inv, Registered

(* What another scope holds stays, whether it lives and whose it is. *)
LEMMA LeftAlone ==
  ASSUME Inv, NEW v \in Viewers, NEW on \in [Resource -> Ids], Takes(v, on),
         NEW i \in Ids, \A r \in Missing(v) : on[r] # i
  PROVE  /\ Lives(i)' <=> Lives(i)
         /\ scope'[i].ver = scope[i].ver /\ scope'[i].res = scope[i].res
         /\ scope'[i].rv = scope[i].rv /\ scope'[i].objects = scope[i].objects
         /\ i \in Range(on) => Lives(i)
<1>1. scope[i] \in ScopeRec BY DEF Inv, Cache
<1>2. \/ scope'[i] = scope[i]
      \/ scope'[i] = [scope[i] EXCEPT !.state = "running"] /\ i \in Range(on)
  BY Taking
<1>3. i \in Range(on) => Lives(i)
  <2> SUFFICES ASSUME NEW r \in Resource, on[r] = i
               PROVE  Lives(i)
    BY DEF Range
  <2>1. r \in Resource \ Missing(v) OBVIOUS
  <2> QED BY <2>1, TakenBefore
<1>4. CASE scope'[i] = scope[i] BY <1>3, <1>4 DEF Lives
<1>5. CASE scope'[i] = [scope[i] EXCEPT !.state = "running"] /\ i \in Range(on)
  BY <1>1, <1>3, <1>5 DEF Lives, ScopeRec
<1> QED BY <1>2, <1>4, <1>5

(* New scopes are under their keys, and the others stay as they are. *)
LEMMA Subscribing ==
  ASSUME Inv, NEW v \in Viewers, Subscribes(v)
  PROVE  Inv'
<1> DEFINE ver == viewer[v].ver
<1>0. PICK on \in [Resource -> Ids] : Takes(v, on) BY DEF Subscribes, Takes
<1>1. /\ scope' = [i \in Ids |-> Followed(v, on, i)]
      /\ registry' = [registry EXCEPT ![ver] = on]
      /\ older' = Touched(Range(on))
      /\ viewer' = [viewer EXCEPT ![v].state = "waiting", ![v].on = on,
                      ![v].wait = [r \in Resource |-> IF scope[on[r]].hasData THEN "ok" ELSE "pending"]]
  BY <1>0 DEF Takes
<1>2. UNCHANGED api BY DEF Subscribes
<1>3. ver \in Version BY DEF Inv, Users, ViewerRec
<1> HIDE DEF ver
<1>4. /\ \A r \in Resource \ Missing(v) : on[r] = registry[ver][r]
      /\ \A r \in Missing(v) : scope[on[r]].state = "none"
      /\ \A q, r \in Missing(v) : on[q] = on[r] => q = r
  BY <1>0, Taking DEF ver
<1>5. ASSUME NEW r \in Missing(v)
      PROVE  /\ scope'[on[r]] = [NoScope EXCEPT !.state = "running", !.res = r, !.ver = ver]
             /\ r \in Resource /\ on[r] \in Ids
  BY <1>0, Starting DEF ver
<1>6. ASSUME NEW i \in Ids, \A r \in Missing(v) : on[r] # i
      PROVE  \/ scope'[i] = scope[i]
             \/ scope'[i] = [scope[i] EXCEPT !.state = "running"] /\ i \in Range(on)
  BY <1>0, <1>6, Taking
<1>7. 1 \in Resource /\ 0 \in Version BY CacheAssumption DEF Resource, Version
<1>8. \A r \in Resource : registry'[ver][r] = on[r] BY <1>1, <1>3 DEF Inv, Cache
<1>9. \A w \in Version \ {ver} : registry'[w] = registry[w] BY <1>1 DEF Inv, Cache
<1>10. scope' \in [Ids -> ScopeRec]
  <2>1. ASSUME NEW i \in Ids
        PROVE  scope'[i] \in ScopeRec
    <3>1. CASE \E r \in Missing(v) : on[r] = i
      <4>1. PICK r \in Missing(v) : on[r] = i BY <3>1
      <4>2. scope'[i] = [NoScope EXCEPT !.state = "running", !.res = r, !.ver = ver] /\ r \in Resource
        BY <1>5, <4>1
      <4>3. scope'[i] = [state |-> "running", res |-> r, ver |-> ver, rv |-> 0, hasData |-> FALSE,
                         objects |-> {}]
        BY <4>2 DEF NoScope
      <4>4. r \in Resource BY <4>2
      <4> QED BY <1>3, <4>3, <4>4 DEF ScopeRec
    <3>2. CASE \A r \in Missing(v) : on[r] # i
      <4>1. scope[i] \in ScopeRec BY DEF Inv, Cache
      <4> QED BY <1>6, <3>2, <4>1 DEF ScopeRec
    <3> QED BY <3>1, <3>2
  <2>2. scope' = [i \in Ids |-> scope'[i]] BY <1>1
  <2> QED BY <2>1, <2>2
<1>11. Cache'
  <2>1. Range(on) \in SUBSET Ids BY DEF Range
  <2>2. older' \subseteq Ids \X Ids BY <1>1, <2>1, Touching DEF Inv
  <2>3. registry' \in [Version -> [Resource -> Ids \cup {None}]] BY <1>1 DEF Inv, Cache
  <2> QED BY <1>10, <2>2, <2>3 DEF Cache
<1>12. ASSUME NEW r \in Resource \ Missing(v)
       PROVE  on[r] \in Ids /\ Lives(on[r]) /\ scope[on[r]].ver = ver /\ scope[on[r]].res = r
  BY <1>0, TakenBefore DEF ver
<1>13. ASSUME NEW i \in Ids, \A r \in Missing(v) : on[r] # i
       PROVE  /\ Lives(i)' <=> Lives(i)
              /\ scope'[i].ver = scope[i].ver /\ scope'[i].res = scope[i].res
              /\ scope'[i].rv = scope[i].rv /\ scope'[i].objects = scope[i].objects
  BY <1>0, <1>13, LeftAlone
<1>14. Registered'
  <2> SUFFICES ASSUME NEW w \in Version, NEW r \in Resource, NEW i \in Ids
               PROVE  registry'[w][r] = i <=> (Lives(i)' /\ scope'[i].ver = w /\ scope'[i].res = r)
    BY DEF Registered
  <2>1. registry[w][r] = i <=> (Lives(i) /\ scope[i].ver = w /\ scope[i].res = r) BY DEF Inv, Registered
  <2>2. CASE \E q \in Missing(v) : on[q] = i
    <3>1. PICK q \in Missing(v) : on[q] = i BY <2>2
    <3>2. scope'[i].state = "running" /\ scope'[i].ver = ver /\ scope'[i].res = q BY <1>5, <3>1 DEF NoScope
    <3>3. ~Lives(i) /\ registry[w][r] # i BY <1>4, <2>1, <3>1 DEF Lives
    <3>4. CASE w = ver
      <4>1. registry'[w][r] = on[r] BY <1>8, <3>4
      <4>2. on[r] = i => r = q
        <5>1. CASE r \in Missing(v) BY <1>4, <3>1, <5>1
        <5>2. CASE r \notin Missing(v) BY <1>12, <3>3, <5>2
        <5> QED BY <5>1, <5>2
      <4> QED BY <3>1, <3>2, <3>4, <4>1, <4>2 DEF Lives
    <3>5. CASE w # ver BY <1>9, <3>2, <3>3, <3>5
    <3> QED BY <3>4, <3>5
  <2>3. CASE \A q \in Missing(v) : on[q] # i
    <3>1. registry'[w][r] = i <=> registry[w][r] = i
      <4>1. CASE w # ver BY <1>9, <4>1
      <4>2. CASE w = ver /\ r \in Missing(v)
        <5>1. registry[ver][r] = None BY <4>2 DEF Missing, ver
        <5> QED BY <1>8, <2>3, <4>2, <5>1, CacheAssumption
      <4>3. CASE w = ver /\ r \notin Missing(v) BY <1>4, <1>8, <4>3
      <4> QED BY <4>1, <4>2, <4>3
    <3> QED BY <1>13, <2>1, <2>3, <3>1
  <2> QED BY <2>2, <2>3
<1>15. Copied'
  <2> SUFFICES ASSUME NEW i \in Ids, Lives(i)', scope'[i].rv # 0
               PROVE  scope'[i].objects = States[scope'[i].res][scope'[i].rv]
    BY DEF Copied
  <2>1. \A r \in Missing(v) : on[r] # i
    <3>1. \A r \in Missing(v) : scope'[on[r]].rv = 0 BY <1>5 DEF NoScope
    <3> QED BY <3>1
  <2> QED BY <1>13, <2>1 DEF Inv, Copied
<1>16. Users' /\ Follows'
  <2> DEFINE w == [r \in Resource |-> IF scope[on[r]].hasData THEN "ok" ELSE "pending"]
  <2>1. w \in [Resource -> Waits] BY DEF Waits
  <2>2. viewer' = [viewer EXCEPT ![v].state = "waiting", ![v].on = on, ![v].wait = w] BY <1>1
  <2> HIDE DEF w
  <2>3. Users'
    <3>1. viewer[v] \in ViewerRec BY DEF Inv, Users
    <3>2. [viewer[v] EXCEPT !.state = "waiting", !.on = on, !.wait = w] \in ViewerRec
      BY <2>1, <3>1 DEF ViewerRec
    <3>3. viewer' = [viewer EXCEPT ![v] = [viewer[v] EXCEPT !.state = "waiting", !.on = on, !.wait = w]]
      BY <2>2, <3>1 DEF Inv, Users
    <3> QED BY <3>2, <3>3 DEF Inv, Users
  <2>4. Follows' BY <2>2 DEF Inv, Users, ViewerRec, Follows
  <2> QED BY <2>3, <2>4
<1>17. Server' BY <1>2 DEF Inv, Server, api
<1> QED BY <1>11, <1>14, <1>15, <1>16, <1>17 DEF Inv

(* Every step keeps Inv. *)
LEMMA Step ==
  ASSUME Inv, [Next]_vars
  PROVE  Inv'
<1>1. ASSUME NEW i \in Ids, ListOk(i) \/ Event(i)
      PROVE  Inv'
  <2>1. Lives(i) BY <1>1, Arrives
  <2>2. PICK k \in 1 .. now[scope[i].res] : Holds(i, States[scope[i].res][k], k) BY <1>1, Arrives
  <2> QED BY <2>1, <2>2, Holding
<1>3. ASSUME NEW i \in Ids, TooOld(i) \/ Wakes(i) \/ ListFails(i) \/ Breaks(i)
      PROVE  Inv'
  <2>1. scope[i] \in ScopeRec BY DEF Inv, Cache
  <2>2. Lives(i) BY <1>3 DEF TooOld, Wakes, ListFails, Breaks, Lives
  <2>3. \E s \in {"running", "asleep"}, rv \in {0, scope[i].rv} :
          scope' = [scope EXCEPT ![i].state = s, ![i].rv = rv]
    <3>1. CASE TooOld(i)
      <4>1. scope' = [scope EXCEPT ![i].state = "running", ![i].rv = 0] BY <2>1, <3>1 DEF TooOld, ScopeRec, Inv, Cache
      <4> QED BY <4>1
    <3>2. ASSUME NEW s \in {"running", "asleep"}, scope' = [scope EXCEPT ![i].state = s]
          PROVE  scope' = [scope EXCEPT ![i].state = s, ![i].rv = scope[i].rv]
      BY <2>1, <3>2 DEF ScopeRec, Inv, Cache
    <3>3. CASE Wakes(i) \/ ListFails(i) \/ Breaks(i)
      <4>1. PICK s \in {"running", "asleep"} : scope' = [scope EXCEPT ![i].state = s]
        BY <3>3 DEF Wakes, ListFails, Breaks
      <4> QED BY <3>2, <4>1
    <3> QED BY <1>3, <3>1, <3>3
  <2>4. UNCHANGED <<registry, older>> BY <1>3 DEF TooOld, Wakes, ListFails, Breaks
  <2>5. Cache' /\ Registered' /\ Copied' BY <2>2, <2>3, <2>4, Resting
  <2>6. Server'
    <3>1. UNCHANGED <<now, oldest, version>> BY <1>3 DEF TooOld, Wakes, ListFails, Breaks, api
    <3>2. faults' \in 0 .. MaxFaults
      BY <1>3, CacheAssumption DEF TooOld, Wakes, ListFails, Breaks, Fails, api, Inv, Server
    <3> QED BY <3>1, <3>2 DEF Inv, Server
  <2>7. Users' /\ Follows'
    <3>1. CASE UNCHANGED viewer BY <3>1 DEF Inv, Users, Follows
    <3>2. CASE ListFails(i)
      <4>1. PICK how \in {"forbidden", "failed"} :
              viewer' = [v \in Viewers |-> [viewer[v] EXCEPT !.wait = Settled(v, {i}, how)]]
        BY <3>2 DEF ListFails
      <4>2. \A v \in Viewers : Settled(v, {i}, how) \in [Resource -> Waits]
        BY Settling DEF Inv, Waits
      <4>3. \A v \in Viewers : viewer[v] \in ViewerRec BY DEF Inv, Users
      <4>4. \A v \in Viewers : /\ viewer'[v] \in ViewerRec
                               /\ viewer'[v].state = viewer[v].state /\ viewer'[v].on = viewer[v].on
        BY ZenonT(40), <4>1, <4>2, <4>3 DEF ViewerRec
      <4> QED BY <4>1, <4>4 DEF Inv, Users, Follows
    <3> QED BY <1>3, <3>1, <3>2 DEF TooOld, Wakes, Breaks
  <2> QED BY <2>5, <2>6, <2>7 DEF Inv
<1>4. ASSUME NEW i \in Ids, IdleStops(i)
      PROVE  Inv'
  <2>1. /\ scope' \in [Ids -> ScopeRec] /\ Registered'
        /\ registry' \in [Version -> [Resource -> Ids \cup {None}]]
        /\ \A j \in Ids : Lives(j)' <=> Lives(j) /\ j \notin {i}
        /\ \A j \in Ids \ {i} : scope'[j] = scope[j]
    <3>1. Cache /\ Registered /\ scope \in [Ids -> ScopeRec] BY DEF Inv, Cache
    <3>2. scope' = Stopped(scope, {i}) /\ registry' = Forgotten({i}) BY <1>4 DEF IdleStops
    <3> QED BY SMTT(30), <3>1, <3>2, Forgetting
  <2>2. Cache' BY <1>4, <2>1 DEF IdleStops, Inv, Cache
  <2>3. Copied'
    <3> SUFFICES ASSUME NEW j \in Ids, Lives(j)', scope'[j].rv # 0
                 PROVE  scope'[j].objects = States[scope'[j].res][scope'[j].rv]
      BY DEF Copied
    <3> QED BY <2>1 DEF Inv, Copied
  <2>4. Server' /\ Users' /\ Follows' BY <1>4 DEF IdleStops, Inv, Server, Users, Follows, api
  <2> QED BY <2>1, <2>2, <2>3, <2>4 DEF Inv
<1>5. ASSUME NEW v \in Viewers, Asks(v)
      PROVE  Inv'
  <2>1. viewer[v] \in ViewerRec /\ version \in Version BY DEF Inv, Users, Server
  <2>2. Users' /\ Follows' BY <1>5, <2>1 DEF Asks, Inv, Users, Follows, ViewerRec
  <2> QED BY <1>5, <2>2, Viewing DEF Asks, Inv, Cache
<1>6. ASSUME NEW f \in Viewers, FeedOpens(f) \/ Flush(f) \/ FeedLeaves(f)
      PROVE  Inv'
  <2>1. viewer[f] \in ViewerRec BY DEF Inv, Users
  <2>2. CASE FeedOpens(f)
    <3>1. viewer[f].state = "waiting" /\ viewer' = [viewer EXCEPT ![f].state = "open", ![f].pending = {}, ![f].seen = Items(f)]
      BY <2>2 DEF FeedOpens, Awaited
    <3>2. Items(f) \in [Resource -> SUBSET Objects] BY <3>1, Reading
    <3>3. Users' /\ Follows' BY <2>1, <3>1, <3>2 DEF Inv, Users, Follows, ViewerRec
    <3> QED BY <2>2, <3>3, Viewing DEF FeedOpens, Inv, Cache
  <2>3. CASE Flush(f)
    <3> DEFINE seen == [r \in Resource |-> IF r \in viewer[f].pending THEN Items(f)[r] ELSE viewer[f].seen[r]]
    <3>1. viewer[f].state = "open" /\ viewer' = [viewer EXCEPT ![f].pending = {}, ![f].seen = seen]
      BY <2>1, <2>3 DEF Flush, Inv, Users
    <3>2. Items(f) \in [Resource -> SUBSET Objects] BY <3>1, Reading
    <3>3. seen \in [Resource -> (SUBSET Objects) \cup {None}] BY <2>1, <3>2 DEF ViewerRec
    <3> HIDE DEF seen
    <3>4. Users' /\ Follows' BY <2>1, <3>1, <3>3 DEF Inv, Users, Follows, ViewerRec
    <3> QED BY <2>3, <3>4, Viewing DEF Flush, Inv, Cache
  <2>4. CASE FeedLeaves(f)
    <3>1. Users' /\ Follows' BY <2>1, <2>4 DEF FeedLeaves, Inv, Users, Follows, ViewerRec
    <3> QED BY <2>4, <3>1, Viewing DEF FeedLeaves, Inv, Cache
  <2> QED BY <1>6, <2>2, <2>3, <2>4
<1>7. ASSUME NEW v \in Viewers, FeedRefused(v) \/ FeedEnds(v) \/ ReadAnswers(v)
      PROVE  Inv'
  <2>1. CASE FeedRefused(v) \/ FeedEnds(v)
    <3>1. Leave(v, NoViewer.seen) BY <2>1 DEF FeedRefused, FeedEnds
    <3>2. NoViewer.seen \in [Resource -> (SUBSET Objects) \cup {None}] BY DEF NoViewer
    <3> QED BY <3>1, <3>2, Leaving
  <2>2. CASE ReadAnswers(v)
    <3> DEFINE seen == [r \in Resource |-> IF viewer[v].wait[r] = "ok" THEN Items(v)[r] ELSE None]
    <3>1. viewer[v].state = "waiting" /\ Leave(v, seen) BY <2>2 DEF ReadAnswers
    <3>2. Items(v) \in [Resource -> SUBSET Objects] BY <3>1, Reading
    <3>3. seen \in [Resource -> (SUBSET Objects) \cup {None}] BY <3>2
    <3> HIDE DEF seen
    <3> QED BY <3>1, <3>3, Leaving
  <2> QED BY <1>7, <2>1, <2>2
<1>8. ASSUME NEW r \in Resource, Change(r) \/ Compact(r)
      PROVE  Inv'
  <2>1. UNCHANGED <<version, scope, older, registry, viewer>> BY <1>8 DEF Change, Compact
  <2>2. Cache' /\ Users' /\ Follows' BY <2>1 DEF Inv, Cache, Users, Follows
  <2>3. Registered' /\ Copied' BY <2>1 DEF Inv, Registered, Copied, Lives
  <2>4. Len(States[r]) \in Nat /\ now[r] \in Nat /\ oldest[r] \in Nat BY CacheAssumption DEF Inv, Server
  <2>5. Server'
    <3>1. CASE Change(r) BY <2>4, <3>1 DEF Change, Inv, Server
    <3>2. CASE Compact(r) BY <2>4, <3>2, CacheAssumption DEF Compact, Fails, Inv, Server
    <3> QED BY <1>8, <3>1, <3>2
  <2> QED BY <2>2, <2>3, <2>5 DEF Inv
<1>9. ASSUME Edit
      PROVE  Inv'
  <2> DEFINE all == {i \in Ids : Lives(i)}
  <2>1. /\ scope' = Stopped(scope, all) /\ registry' = Forgotten(all) /\ older' = {}
        /\ viewer' = [v \in Viewers |-> [Ended(all)[v] EXCEPT !.over = @ \/ viewer[v].state = "open"]]
        /\ version < MaxEdits /\ version' = version + 1 /\ UNCHANGED <<now, oldest, faults>>
    BY <1>9 DEF Edit
  <2>2. /\ scope' \in [Ids -> ScopeRec] /\ Registered'
        /\ registry' \in [Version -> [Resource -> Ids \cup {None}]]
        /\ \A j \in Ids : Lives(j)' <=> Lives(j) /\ j \notin all
    <3>1. Cache /\ Registered /\ scope \in [Ids -> ScopeRec] BY DEF Inv, Cache
    <3> HIDE DEF all
    <3> QED BY <2>1, <3>1, Forgetting
  <2>3. \A j \in Ids : ~Lives(j)' BY <2>2
  <2>4. Cache' BY <2>1, <2>2 DEF Cache
  <2>5. Copied' BY <2>3 DEF Copied
  <2>6. Server' BY <2>1, CacheAssumption DEF Inv, Server, Version
  <2> HIDE DEF all
  <2>7. \A v \in Viewers : /\ Ended(all)[v] \in ViewerRec /\ Ended(all)[v].state = viewer[v].state
                           /\ Ended(all)[v].on = viewer[v].on
    BY EndingTells DEF Inv
  <2>8. ASSUME NEW v \in Viewers
        PROVE  /\ viewer'[v] \in ViewerRec /\ viewer'[v].state = viewer[v].state
               /\ viewer'[v].on = viewer[v].on
    <3>1. \A w \in ViewerRec, b \in BOOLEAN :
            LET x == [w EXCEPT !.over = b] IN x \in ViewerRec /\ x.state = w.state /\ x.on = w.on
      BY DEF ViewerRec
    <3> DEFINE b == Ended(all)[v].over \/ viewer[v].state = "open"
    <3>2. viewer'[v] = [Ended(all)[v] EXCEPT !.over = b] BY <2>1
    <3>3. b \in BOOLEAN OBVIOUS
    <3> HIDE DEF b
    <3> QED BY <2>7, <3>1, <3>2, <3>3
  <2>9. Users' /\ Follows' BY <2>1, <2>8 DEF Inv, Users, Follows
  <2> QED BY <2>2, <2>4, <2>5, <2>6, <2>9 DEF Inv
<1>10. CASE UNCHANGED vars
  <2>1. UNCHANGED <<api, scope, registry, older, viewer>> BY <1>10 DEF vars, api
  <2> QED BY <2>1, Viewing DEF Inv, Cache, Users, Follows
<1> QED
  BY <1>1, <1>3, <1>4, <1>5, <1>6, <1>7, <1>8, <1>9, <1>10, Subscribing
  DEF Next, Loop, Serve, Viewers

-----------------------------------------------------------------------------
(* The memory cap                                                          *)

Live == {i \in Ids : Lives(i)}

(* When the scopes that live were last used orders them, up to ties: of two  *)
(* of which one was used before the other, any third was used after the one  *)
(* or before the other.                                                      *)
Ages ==
    /\ older \subseteq Live \X Live
    /\ \A i, j \in Live : <<i, j>> \in older =>
         <<j, i>> \notin older /\ \A k \in Live : <<i, k>> \in older \/ <<k, j>> \in older

(* Scopes that stop leave the order of the others as it is. *)
LEMMA DroppedAges ==
  ASSUME Ages, NEW S, older' = {p \in older : p[1] \notin S /\ p[2] \notin S}, Live' = Live \ S
  PROVE  Ages'
<1>1. ASSUME NEW i, NEW j
      PROVE  <<i, j>> \in older' <=> <<i, j>> \in older /\ i \notin S /\ j \notin S
  OBVIOUS
<1>2. older' \subseteq Live' \X Live' BY DEF Ages
<1>3. ASSUME NEW i \in Live', NEW j \in Live', <<i, j>> \in older'
      PROVE  <<j, i>> \notin older' /\ \A k \in Live' : <<i, k>> \in older' \/ <<k, j>> \in older'
  BY <1>1, <1>3 DEF Ages
<1> QED BY <1>2, <1>3 DEF Ages

(* Scopes that are used now are used after the others. *)
LEMMA TouchedAges ==
  ASSUME Ages, NEW S, older' = Touched(S), Live' = Live \cup S
  PROVE  Ages'
<1>1. ASSUME NEW i, NEW j
      PROVE  <<i, j>> \in older' <=> \/ <<i, j>> \in older /\ i \notin S /\ j \notin S
                                     \/ i \in Live \ S /\ j \in S
  BY DEF Touched, Live
<1>2. older' \subseteq Live' \X Live'
  <2>1. Touched(S) \subseteq older \cup (Live \X S) BY DEF Touched, Live
  <2> QED BY <2>1 DEF Ages
<1>3. ASSUME NEW i \in Live', NEW j \in Live', <<i, j>> \in older'
      PROVE  <<j, i>> \notin older'
  BY <1>1, <1>3 DEF Ages
<1>4. ASSUME NEW i \in Live', NEW j \in Live', NEW k \in Live', <<i, j>> \in older'
      PROVE  <<i, k>> \in older' \/ <<k, j>> \in older'
  BY <1>1, <1>4 DEF Ages
<1> QED BY <1>2, <1>3, <1>4 DEF Ages

(* The order in which scopes are dropped is a total one. *)
LEMMA Ordered ==
  ASSUME Ages
  PROVE  /\ \A i, j \in Live : Before(i, j) => ~Before(j, i)
         /\ \A i, j \in Live : i # j => Before(i, j) \/ Before(j, i)
         /\ \A i, j, k \in Live : Before(i, j) /\ Before(j, k) => Before(i, k)
<1> DEFINE n(i) == Cardinality(Holders(i))
           o(i, j) == <<i, j>> \in older
<1>1. ASSUME NEW i
      PROVE  n(i) \in Nat
  <2>1. Holders(i) \in SUBSET Viewers BY DEF Holders
  <2>2. IsFiniteSet(Holders(i)) BY <2>1, FS_Subset, CacheAssumption
  <2> QED BY <2>2, FS_CardinalityType
<1>2. \A i, j : Before(i, j) <=> n(i) < n(j) \/ (n(i) = n(j) /\ (o(i, j) \/ (~o(j, i) /\ i < j)))
  BY DEF Before
<1>3. /\ \A i, j \in Live : o(i, j) => ~o(j, i)
      /\ \A i, j, k \in Live : o(i, j) => o(i, k) \/ o(k, j)
  BY DEF Ages
<1>4. Live \subseteq Int BY DEF Live, Ids
<1> HIDE DEF n, o
<1>5. ASSUME NEW i \in Live, NEW j \in Live
      PROVE  /\ Before(i, j) => ~Before(j, i)
             /\ i # j => Before(i, j) \/ Before(j, i)
  <2>1. n(i) \in Nat /\ n(j) \in Nat /\ i \in Int /\ j \in Int BY <1>1, <1>4
  <2> QED BY <2>1, <1>2, <1>3
<1>6. ASSUME NEW i \in Live, NEW j \in Live, NEW k \in Live, Before(i, j), Before(j, k)
      PROVE  Before(i, k)
  <2>1. n(i) \in Nat /\ n(j) \in Nat /\ n(k) \in Nat /\ i \in Int /\ j \in Int /\ k \in Int BY <1>1, <1>4
  <2>2. n(i) <= n(j) /\ n(j) <= n(k) BY <2>1, <1>2, <1>6
  <2>3. CASE n(i) < n(j) \/ n(j) < n(k) BY <2>1, <2>2, <2>3, <1>2
  <2>4. CASE n(i) = n(j) /\ n(j) = n(k)
    <3>1. (o(i, j) \/ (~o(j, i) /\ i < j)) /\ (o(j, k) \/ (~o(k, j) /\ j < k))
      BY <2>1, <2>4, <1>2, <1>6
    <3>2. o(i, k) \/ (~o(k, i) /\ i < k)
      <4>1. CASE o(i, j)
        <5>1. o(i, k) \/ o(k, j) BY <1>3, <4>1
        <5>2. ~o(k, j) BY <1>3, <3>1
        <5> QED BY <5>1, <5>2
      <4>2. CASE ~o(i, j) /\ o(j, k)
        <5>1. o(j, i) \/ o(i, k) BY <1>3, <4>2
        <5> QED BY <5>1, <3>1, <4>2
      <4>3. CASE ~o(i, j) /\ ~o(j, k)
        <5>1. ~o(j, i) /\ i < j /\ ~o(k, j) /\ j < k BY <3>1, <4>3
        <5>2. ~o(k, i) BY <1>3, <5>1
        <5> QED BY <5>1, <5>2, <2>1
      <4> QED BY <4>1, <4>2, <4>3
    <3> QED BY <2>4, <3>2, <1>2
  <2> QED BY <2>1, <2>2, <2>3, <2>4
<1> QED BY <1>5, <1>6

(* Of any scopes that live, one is the first to be dropped. *)
LEMMA Least ==
  ASSUME Ages, NEW S \in SUBSET Live, S # {}
  PROVE  \E m \in S : \A j \in S \ {m} : Before(m, j)
<1> DEFINE P(i) == {j \in S : Before(j, i)}
           T == {P(i) : i \in S}
<1>1. S \in SUBSET Ids /\ IsFiniteSet(S)
  <2>1. IsFiniteSet(Ids) BY FS_Interval, CacheAssumption DEF Ids
  <2>2. S \in SUBSET Ids BY DEF Live
  <2> QED BY <2>1, <2>2, FS_Subset
<1>2. IsWellFoundedOn(StrictSubsetOrdering(S), SUBSET S)
  BY <1>1, FS_StrictSubsetOrderingWellFounded, FS_FiniteSubsetsOfFinite
<1>3. T \subseteq SUBSET S /\ T # {} OBVIOUS
<1>4. PICK x \in T : \A y \in T : <<y, x>> \notin StrictSubsetOrdering(S)
  <2> HIDE DEF T
  <2> QED BY <1>2, <1>3, WFMin
<1>5. PICK m \in S : x = P(m) BY <1>4
<1>6. ASSUME NEW j \in S \ {m}
      PROVE  Before(m, j)
  <2> SUFFICES ASSUME ~Before(m, j) PROVE FALSE
    OBVIOUS
  <2>1. j \in Live /\ m \in Live /\ S \subseteq Live OBVIOUS
  <2>2. Before(j, m) BY <2>1, Ordered
  <2>3. P(j) \subseteq P(m) BY <2>1, <2>2, Ordered
  <2>4. j \in P(m) /\ j \notin P(j) BY <2>1, <2>2, Ordered
  <2>5. P(j) \in T /\ P(j) \in SUBSET S /\ P(m) \in SUBSET S OBVIOUS
  <2> HIDE DEF P, T
  <2>6. <<P(j), P(m)>> \in StrictSubsetOrdering(S) BY <2>3, <2>4, <2>5 DEF StrictSubsetOrdering
  <2> QED BY <2>5, <2>6, <1>4, <1>5
<1> QED BY <1>6

(* Less to keep needs no more memory. *)
LEMMA LessBytes ==
  ASSUME NEW a, NEW b \in [Ids -> ScopeRec], NEW A, NEW B \in SUBSET Ids,
         \A i \in A : a[i].objects = {} \/ (i \in B /\ a[i].objects = b[i].objects)
  PROVE  Bytes(b, B) \in Nat /\ Bytes(a, A) \in Nat /\ Bytes(a, A) <= Bytes(b, B)
<1> DEFINE X == UNION {{i} \X a[i].objects : i \in A}
           Y == UNION {{i} \X b[i].objects : i \in B}
<1>1. X \in SUBSET Y OBVIOUS
<1>2. Y \in SUBSET (Ids \X Objects) BY DEF ScopeRec
<1>3. IsFiniteSet(Ids \X Objects)
  <2>1. IsFiniteSet(Ids) BY FS_Interval, CacheAssumption DEF Ids
  <2> QED BY <2>1, FS_Product, CacheAssumption
<1> HIDE DEF X, Y
<1>4. IsFiniteSet(Y) BY <1>2, <1>3, FS_Subset
<1>5. IsFiniteSet(X) /\ Cardinality(X) <= Cardinality(Y) BY <1>1, <1>4, FS_Subset
<1>6. Cardinality(X) \in Nat /\ Cardinality(Y) \in Nat BY <1>4, <1>5, FS_CardinalityType
<1> QED BY <1>5, <1>6 DEF Bytes, X, Y

(* Scopes that keep what they have, or start or end with nothing, stay under *)
(* the cap.                                                                  *)
LEMMA Unladen ==
  ASSUME Cache, Capped,
         \A i \in Ids : Lives(i)' =>
           \/ scope'[i].objects = {}
           \/ Lives(i) /\ scope'[i].ver = scope[i].ver /\ scope'[i].objects = scope[i].objects
  PROVE  Capped'
<1> SUFFICES ASSUME NEW v \in Version
             PROVE  Bytes(scope', {i \in Ids : Lives(i)' /\ scope'[i].ver = v}) <= Cap
  BY DEF Capped, Bytes
<1> DEFINE A == {i \in Ids : Lives(i)' /\ scope'[i].ver = v}
           B == {i \in Ids : Lives(i) /\ scope[i].ver = v}
<1>1. \A i \in A : scope'[i].objects = {} \/ (i \in B /\ scope'[i].objects = scope[i].objects) OBVIOUS
<1>2. scope \in [Ids -> ScopeRec] /\ B \in SUBSET Ids BY DEF Cache
<1>3. Bytes(scope, B) <= Cap BY DEF Capped
<1> HIDE DEF A, B
<1>4. Bytes(scope, B) \in Nat /\ Bytes(scope', A) \in Nat /\ Bytes(scope', A) <= Bytes(scope, B)
  BY <1>1, <1>2, LessBytes
<1>5. Bytes(scope', A) <= Cap BY <1>3, <1>4, CacheAssumption
<1> QED BY <1>5 DEF A

(* enforceCap: the scopes that are kept are under the cap. *)
LEMMA Enforced ==
  ASSUME Ages, NEW all \in [Ids -> ScopeRec], NEW v,
         NEW mine, mine = {i \in Ids : Lives(i) /\ scope[i].ver = v}
  PROVE  Bytes(all, mine \ Victims(all, v)) <= Cap
<1> DEFINE S == mine \ Victims(all, v)
<1>1. CASE S = {}
  <2>1. Bytes(all, S) = Cardinality({}) BY <1>1 DEF Bytes
  <2> QED BY <2>1, FS_EmptySet, CacheAssumption
<1>2. CASE S # {}
  <2>1. S \in SUBSET Live BY DEF Live
  <2>2. PICK m \in S : \A j \in S \ {m} : Before(m, j)
    <3> HIDE DEF S
    <3> QED BY <1>2, <2>1, Least
  <2> DEFINE B == {j \in mine : j = m \/ Before(m, j)}
  <2>3. S \subseteq B /\ B \in SUBSET Ids BY <2>2
  <2>4. ~(Bytes(all, B) > Cap) BY <2>2 DEF Victims
  <2> HIDE DEF B, S
  <2>5. Bytes(all, B) \in Nat /\ Bytes(all, S) \in Nat /\ Bytes(all, S) <= Bytes(all, B)
    BY <2>3, LessBytes
  <2>6. Bytes(all, S) <= Cap BY <2>4, <2>5, CacheAssumption
  <2> QED BY <2>6 DEF S
<1> QED BY <1>1, <1>2

Tidy == Ages /\ Capped

(* A list or an event keeps the cap, and drops scopes in their order. *)
LEMMA HoldingTidy ==
  ASSUME Inv, Tidy, NEW i \in Ids, NEW k \in 1 .. now[scope[i].res],
         NEW objects, objects = States[scope[i].res][k], Holds(i, objects, k)
  PROVE  Tidy'
<1> DEFINE all == With(i, objects, k)
           ver == scope[i].ver
           out == Victims(all, ver)
           mine == {j \in Ids : Lives(j) /\ scope[j].ver = ver}
<1>1. /\ all \in [Ids -> ScopeRec]
      /\ \A j \in Ids : all[j].state = scope[j].state /\ all[j].ver = scope[j].ver /\ all[j].res = scope[j].res
      /\ \A j \in Ids \ {i} : all[j] = scope[j]
  BY Filled
<1>2. /\ scope' = Stopped(all, out) /\ registry' = Forgotten(out)
      /\ older' = {p \in older : p[1] \notin out /\ p[2] \notin out}
  BY DEF Holds, With
<1>3. out \subseteq mine BY DEF Victims
<1> HIDE DEF all, out
<1>4. /\ scope' \in [Ids -> ScopeRec]
      /\ \A j \in Ids : Lives(j)' <=> Lives(j) /\ j \notin out
      /\ \A j \in Ids \ out : scope'[j] = all[j]
  <2>1. Cache /\ Registered BY DEF Inv
  <2> QED BY <2>1, <1>1, <1>2, Forgetting
<1>5. Live' = Live \ out BY <1>4 DEF Live
<1>6. Ages' BY <1>2, <1>5, DroppedAges DEF Tidy
<1>7. ASSUME NEW v \in Version
      PROVE  Bytes(scope', {j \in Ids : Lives(j)' /\ scope'[j].ver = v}) <= Cap
  <2> DEFINE A == {j \in Ids : Lives(j)' /\ scope'[j].ver = v}
  <2>1. A \in SUBSET Ids /\ \A j \in A : scope'[j].objects = all[j].objects BY <1>4
  <2>2. CASE v = ver
    <3>1. A = mine \ out BY <2>2, <1>1, <1>4
    <3>2. Bytes(all, mine \ out) <= Cap BY <1>1, Enforced DEF Tidy, out
    <3> HIDE DEF A, mine
    <3>3. Bytes(all, A) \in Nat /\ Bytes(scope', A) \in Nat /\ Bytes(scope', A) <= Bytes(all, A)
      BY <2>1, <1>1, LessBytes
    <3>4. Bytes(scope', A) <= Cap BY <3>1, <3>2, <3>3, CacheAssumption
    <3> QED BY <3>4 DEF A
  <2>3. CASE v # ver
    <3> DEFINE B == {j \in Ids : Lives(j) /\ scope[j].ver = v}
    <3>1. \A j \in A : j \in B /\ scope'[j].objects = scope[j].objects BY <2>3, <1>1, <1>4
    <3>2. Bytes(scope, B) <= Cap BY DEF Tidy, Capped
    <3>3. scope \in [Ids -> ScopeRec] /\ B \in SUBSET Ids BY DEF Inv, Cache
    <3> HIDE DEF A, B
    <3>4. Bytes(scope, B) \in Nat /\ Bytes(scope', A) \in Nat /\ Bytes(scope', A) <= Bytes(scope, B)
      BY <3>1, <3>3, LessBytes
    <3>5. Bytes(scope', A) <= Cap BY <3>2, <3>4, CacheAssumption
    <3> QED BY <3>5 DEF A
  <2> QED BY <2>2, <2>3
<1>8. Capped' BY <1>7 DEF Capped, Bytes
<1> QED BY <1>6, <1>8 DEF Tidy

(* Scopes and order stay tidy where neither gets more to hold. *)
LEMMA StayingTidy ==
  ASSUME Inv, Tidy, Live' = Live, UNCHANGED older,
         \A i \in Ids : scope'[i].ver = scope[i].ver /\ scope'[i].objects = scope[i].objects
  PROVE  Tidy'
<1>0. older' = {p \in older : p[1] \notin {} /\ p[2] \notin {}} /\ Live' = Live \ {} OBVIOUS
<1>1. Ages' BY <1>0, DroppedAges DEF Tidy
<1>2. \A i \in Ids : Lives(i)' => Lives(i) BY DEF Live
<1>3. Cache /\ Capped BY DEF Inv, Tidy
<1>4. Capped' BY <1>2, <1>3, Unladen
<1> QED BY <1>1, <1>4 DEF Tidy

(* Every step keeps Tidy. *)
LEMMA TidyKept ==
  ASSUME Inv, Tidy, [Next]_vars
  PROVE  Tidy'
<1>1. ASSUME NEW i \in Ids, ListOk(i) \/ Event(i)
      PROVE  Tidy'
  <2>1. PICK k \in 1 .. now[scope[i].res] : Holds(i, States[scope[i].res][k], k) BY <1>1, Arrives
  <2> QED BY <2>1, HoldingTidy
<1>2. ASSUME NEW i \in Ids, TooOld(i) \/ Wakes(i) \/ ListFails(i) \/ Breaks(i)
      PROVE  Tidy'
  <2>1. scope \in [Ids -> ScopeRec] /\ UNCHANGED older
    BY <1>2 DEF Inv, Cache, TooOld, Wakes, ListFails, Breaks
  <2>2. \A j \in Ids \ {i} : scope'[j] = scope[j] BY <1>2, <2>1 DEF TooOld, Wakes, ListFails, Breaks
  <2>3. /\ scope'[i].ver = scope[i].ver /\ scope'[i].objects = scope[i].objects
        /\ Lives(i) /\ scope'[i].state \in {"running", "asleep"}
    BY <1>2, <2>1 DEF ScopeRec, TooOld, Wakes, ListFails, Breaks, Lives
  <2>4. Live' = Live BY <2>2, <2>3 DEF Live, Lives
  <2> QED BY <2>1, <2>2, <2>3, <2>4, StayingTidy
<1>3. ASSUME NEW S \in SUBSET Ids, scope' = Stopped(scope, S), registry' = Forgotten(S),
             older' = {p \in older : p[1] \notin S /\ p[2] \notin S}
      PROVE  Tidy'
  <2>1. scope \in [Ids -> ScopeRec] /\ Cache /\ Registered BY DEF Inv, Cache
  <2>2. /\ \A j \in Ids : Lives(j)' <=> Lives(j) /\ j \notin S
        /\ \A j \in Ids \ S : scope'[j] = scope[j]
    BY <1>3, <2>1, Forgetting
  <2>3. Live' = Live \ S BY <2>2 DEF Live
  <2>4. Ages' BY <1>3, <2>3, DroppedAges DEF Tidy
  <2>5. Capped' BY <2>1, <2>2, Unladen DEF Tidy
  <2> QED BY <2>4, <2>5 DEF Tidy
<1>4. ASSUME NEW i \in Ids, IdleStops(i)
      PROVE  Tidy'
  <2>1. /\ scope' = Stopped(scope, {i}) /\ registry' = Forgotten({i})
        /\ older' = {p \in older : p[1] \notin {i} /\ p[2] \notin {i}}
    BY <1>4 DEF IdleStops
  <2> QED BY <2>1, <1>3
<1>5. CASE Edit
  <2> DEFINE all == {i \in Ids : Lives(i)}
  <2>1. scope' = Stopped(scope, all) /\ registry' = Forgotten(all) /\ older' = {} BY <1>5 DEF Edit
  <2>2. older \subseteq all \X all BY DEF Tidy, Ages, Live
  <2>3. older' = {p \in older : p[1] \notin all /\ p[2] \notin all} BY <2>1, <2>2
  <2> QED BY <2>1, <2>3, <1>3
<1>6. ASSUME UNCHANGED <<scope, older>>
      PROVE  Tidy'
  <2>1. Live' = Live BY <1>6 DEF Live, Lives
  <2> QED BY <2>1, <1>6, StayingTidy
<1>7. ASSUME NEW v \in Viewers, NEW seen, Leave(v, seen)
      PROVE  Tidy'
  <2> DEFINE S == Held(v) \intersect {i \in Ids : Lives(i)}
  <2>1. older' = Touched(S) /\ UNCHANGED scope BY <1>7 DEF Leave
  <2>2. S \subseteq Live BY DEF Live
  <2>3. Live' = Live \cup S BY <2>1, <2>2 DEF Live, Lives
  <2> HIDE DEF S
  <2>4. Ages' BY <2>1, <2>3, TouchedAges DEF Tidy
  <2>5. Cache /\ Capped BY DEF Inv, Tidy
  <2>6. Capped' BY <2>1, <2>5, Unladen DEF Lives
  <2> QED BY <2>4, <2>6 DEF Tidy
<1>8. ASSUME NEW v \in Viewers, Subscribes(v)
      PROVE  Tidy'
  <2>1. PICK on \in [Resource -> Ids] : Takes(v, on) BY <1>8 DEF Subscribes, Takes
  <2>2. older' = Touched(Range(on)) BY <2>1 DEF Takes
  <2>3. ASSUME NEW i \in Ids, NEW r \in Missing(v), on[r] = i
        PROVE  scope'[i].objects = {} /\ Lives(i)' /\ i \in Range(on)
    <3>1. scope'[i].objects = {} /\ scope'[i].state = "running" /\ r \in Resource
      <4>1. /\ scope'[on[r]] = [NoScope EXCEPT !.state = "running", !.res = r, !.ver = viewer[v].ver]
            /\ r \in Resource
        BY <2>1, Starting
      <4> QED BY <4>1, <2>3 DEF NoScope
    <3> QED BY <2>3, <3>1 DEF Lives, Range
  <2>4. ASSUME NEW i \in Ids, \A r \in Missing(v) : on[r] # i
        PROVE  /\ Lives(i)' <=> Lives(i)
               /\ scope'[i].ver = scope[i].ver /\ scope'[i].objects = scope[i].objects
               /\ i \in Range(on) => Lives(i)
    BY <2>1, <2>4, LeftAlone
  <2>5. Live' = Live \cup Range(on)
    <3>1. Range(on) \subseteq Ids BY DEF Range
    <3> QED BY <2>3, <2>4, <3>1 DEF Live
  <2>6. Ages' BY <2>2, <2>5, TouchedAges DEF Tidy
  <2>7. Cache /\ Capped BY DEF Inv, Tidy
  <2>8. Capped' BY <2>3, <2>4, <2>7, Unladen
  <2> QED BY <2>6, <2>8 DEF Tidy
<1>9. ASSUME NEW v \in Viewers,
             \/ Asks(v) \/ FeedOpens(v) \/ Flush(v) \/ FeedLeaves(v)
             \/ FeedRefused(v) \/ FeedEnds(v) \/ ReadAnswers(v)
      PROVE  Tidy'
  <2>1. CASE Asks(v) \/ FeedOpens(v) \/ Flush(v) \/ FeedLeaves(v)
    BY <2>1, <1>6 DEF Asks, FeedOpens, Flush, FeedLeaves
  <2>2. CASE FeedRefused(v) \/ FeedEnds(v) \/ ReadAnswers(v)
    BY <2>2, <1>7 DEF FeedRefused, FeedEnds, ReadAnswers
  <2> QED BY <1>9, <2>1, <2>2
<1>10. ASSUME NEW r \in Resource, Change(r) \/ Compact(r)
       PROVE  Tidy'
  BY <1>10, <1>6 DEF Change, Compact
<1>11. CASE UNCHANGED vars BY <1>11, <1>6 DEF vars
<1> QED
  BY <1>1, <1>2, <1>4, <1>5, <1>8, <1>9, <1>10, <1>11 DEF Next, Loop, Serve, Viewers

-----------------------------------------------------------------------------
(* What holds at the start. *)
LEMMA Start ==
  ASSUME Init
  PROVE  Inv
<1>1. 1 \in Resource /\ 0 \in Version BY CacheAssumption DEF Resource, Version
<1>2. NoScope \in ScopeRec /\ NoViewer \in ViewerRec BY <1>1 DEF NoScope, ScopeRec, NoViewer, ViewerRec, Waits
<1>3. Server
  <2>1. \A r \in Resource : Len(States[r]) \in Nat /\ Len(States[r]) # 0 BY CacheAssumption
  <2> QED BY <1>1, <2>1, CacheAssumption DEF Init, Server
<1>4. Cache BY <1>2 DEF Init, Cache
<1>5. Users /\ Follows BY <1>2 DEF Init, Users, Follows, NoViewer
<1>6. \A i \in Ids : ~Lives(i) BY DEF Init, Lives, NoScope
<1>7. Registered /\ Copied BY <1>6, CacheAssumption DEF Init, Registered, Copied
<1> QED BY <1>3, <1>4, <1>5, <1>7 DEF Inv

(* Inv is inductive. *)
THEOREM Inductive == Spec => []Inv
<1>1. Inv /\ UNCHANGED vars => Inv' BY Step
<1> QED BY Start, Step, PTL DEF Spec

(* cache.ts: every variable keeps its type and the registry has exactly the *)
(* scopes that run, each under its key.                                     *)
THEOREM TypeCorrect == Spec => []TypeOK
<1>1. Inv => TypeOK
  BY DEF Inv, Server, Cache, Users, Registered, TypeOK, ScopeRec, ViewerRec, Waits
<1> QED BY <1>1, Inductive, PTL

(* Tidy is inductive on top of Inv. *)
LEMMA TidyAlways == Spec => []Tidy
<1>1. Init => Tidy
  <2> SUFFICES ASSUME Init PROVE Tidy
    OBVIOUS
  <2>1. \A i \in Ids : ~Lives(i) BY DEF Init, Lives, NoScope
  <2>2. Ages BY <2>1 DEF Init, Ages, Live
  <2>3. Bytes(scope, {}) = 0
    <3>1. {{i} \X scope[i].objects : i \in {}} = {} OBVIOUS
    <3>2. UNION {} = {} OBVIOUS
    <3> QED BY <3>1, <3>2, FS_EmptySet DEF Bytes
  <2>5. ASSUME NEW v \in Version
        PROVE  Bytes(scope, {i \in Ids : Lives(i) /\ scope[i].ver = v}) <= Cap
    <3> DEFINE X == {i \in Ids : Lives(i) /\ scope[i].ver = v}
    <3>1. X = {} BY <2>1
    <3> HIDE DEF X
    <3>2. Bytes(scope, X) = 0 BY <2>3, <3>1
    <3>3. Bytes(scope, X) <= Cap BY <3>2, CacheAssumption
    <3> QED BY <3>3 DEF X
  <2> QED BY <2>2, <2>5 DEF Tidy, Capped
<1>2. Inv /\ Tidy /\ [Next]_vars => Tidy' BY TidyKept
<1> QED BY <1>1, <1>2, Inductive, PTL DEF Spec

(* cache.ts: a scope that runs holds the collection of its resourceVersion, *)
(* and the scopes of a key stay under the cap, whichever are dropped.       *)
THEOREM CopiesTrue == Spec => []CopyTrue
<1>1. Inv /\ Tidy => CopyTrue BY DEF Inv, Tidy, CopyTrue
<1> QED BY <1>1, Inductive, TidyAlways, PTL
=============================================================================
