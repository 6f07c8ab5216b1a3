----------------------------- MODULE KubeCache -----------------------------
(***************************************************************************)
(* The Kubernetes watch cache of one cluster (kube/cache.ts) under the     *)
(* views that use it (routes/kube-views.ts): scopes that list and watch a  *)
(* resource, shared by everyone who looks at it, live feeds and one-off    *)
(* reads that subscribe to them, the memory cap that drops scopes, and     *)
(* edits of the cluster, after which scopes have another key.              *)
(***************************************************************************)
EXTENDS Naturals, Sequences, FiniteSets, Functions

CONSTANTS
    Kinds,      \* how many resources a view follows
    States,     \* per resource, the collections the API server goes through
    Feeds,      \* the streams that are opened
    Reads,      \* the JSON views that are asked for
    MaxScopes,  \* how many scopes are ever started
    Cap,        \* limits.maxClusterBytes; each object counts one
    MaxEdits,   \* how often the cluster is edited
    MaxFaults,  \* how often the API server or the way to it fails
    None

Resource == 1 .. Kinds      \* in the order a view asks for them
Ids == 1 .. MaxScopes       \* in the order they are started
Version == 0 .. MaxEdits    \* updatedAt, which is part of a scope's key
Viewers == Feeds \cup Reads
Objects == UNION {UNION Range(States[r]) : r \in Resource}

ASSUME CacheAssumption ==
    /\ Kinds \in Nat \ {0} /\ MaxScopes \in Nat /\ Cap \in Nat /\ MaxEdits \in Nat /\ MaxFaults \in Nat
    /\ States \in [Resource -> Seq(SUBSET Objects)]
    /\ \A r \in Resource : States[r] # <<>>
    /\ Feeds \intersect Reads = {}
    /\ IsFiniteSet(Viewers) /\ IsFiniteSet(Objects)
    /\ None \notin Ids

VARIABLES
    now,        \* per resource, which of its collections is the current one
    oldest,     \* the oldest version the API server still watches from
    version,    \* the cluster's row
    scope,      \* the scopes; resourceVersion 0 stands for null
    older,      \* <<i, j>>: scope i was used before scope j
    registry,   \* clusters and their scopes: the scope of a key and a resource
    viewer,     \* who subscribes, and what he was told
    faults

vars == <<now, oldest, version, scope, older, registry, viewer, faults>>
api == <<now, oldest, version, faults>>

NoScope == [state |-> "none", res |-> 1, ver |-> 0, rv |-> 0, hasData |-> FALSE, objects |-> {}]
NoViewer == [state |-> "none", ver |-> 0, on |-> [r \in Resource |-> None],
             wait |-> [r \in Resource |-> "none"], over |-> FALSE, left |-> FALSE, pending |-> {},
             seen |-> [r \in Resource |-> None]]

Init ==
    /\ now = [r \in Resource |-> 1] /\ oldest = [r \in Resource |-> 1]
    /\ version = 0
    /\ scope = [i \in Ids |-> NoScope] /\ older = {}
    /\ registry = [v \in Version |-> [r \in Resource |-> None]]
    /\ viewer = [v \in Viewers |-> NoViewer]
    /\ faults = 0

Fails == faults < MaxFaults /\ faults' = faults + 1

-----------------------------------------------------------------------------
(* Scopes                                                                  *)

Lives(i) == scope[i].state \in {"running", "asleep"}
Holders(i) == {v \in Viewers : \E r \in Resource : viewer[v].on[r] = i}

\* scope.lastUsed of each of S is now.
Touched(S) == {p \in older : p[1] \notin S /\ p[2] \notin S}
              \cup {p \in {i \in Ids : Lives(i)} \X S : p[1] \notin S}

\* Mutant: a scope that stops keeps its place.
Unregistered(S) == registry

\* A stopped scope is forgotten, if it is the one under its key.
Forgotten(S) ==
    [v \in Version |-> [r \in Resource |-> IF registry[v][r] \in S THEN None ELSE registry[v][r]]]

\* stopScope: the watch is aborted and the objects are let go.
Stopped(all, S) ==
    [i \in Ids |-> IF i \in S THEN [NoScope EXCEPT !.state = "stopped"] ELSE all[i]]

\* Dropped before j: fewer viewers, then not used for longer, then started earlier.
Before(i, j) ==
    LET n == Cardinality(Holders(i)) m == Cardinality(Holders(j)) IN
    n < m \/ (n = m /\ (<<i, j>> \in older \/ (<<j, i>> \notin older /\ i < j)))

Bytes(all, S) == Cardinality(UNION {{i} \X all[i].objects : i \in S})

\* enforceCap: scopes of one key are dropped in that order until the rest fit.
Victims(all, ver) ==
    LET mine == {i \in Ids : Lives(i) /\ scope[i].ver = ver} IN
    {i \in mine : Bytes(all, {j \in mine : j = i \/ Before(i, j)}) > Cap}

-----------------------------------------------------------------------------
(* What viewers hear                                                       *)

\* How a promise that v awaits for a scope of S is settled.
Settled(v, S, how) ==
    [r \in Resource |-> IF viewer[v].on[r] \in S /\ viewer[v].wait[r] = "pending" THEN how
                        ELSE viewer[v].wait[r]]

On(v, S) == \E r \in Resource : viewer[v].on[r] \in S

\* Scope i says `ready` or `changed`, then those of S stop and say why.
Heard(i, S) ==
    [v \in Viewers |->
       [viewer[v] EXCEPT
          !.wait = [r \in Resource |-> IF @[r] # "pending" \/ viewer[v].on[r] \notin S \cup {i} THEN @[r]
                                       ELSE IF viewer[v].on[r] \in S THEN "failed" ELSE "ok"],
          !.pending = IF v \in Feeds /\ On(v, {i} \ S) THEN @ \cup {scope[i].res} ELSE @,
          !.over = @ \/ (v \in Feeds /\ On(v, S))]]

\* Those of S stop with an error.
Ended(S) ==
    [v \in Viewers |-> [viewer[v] EXCEPT !.wait = Settled(v, S, "failed"),
                                        !.over = @ \/ (v \in Feeds /\ On(v, S))]]

-----------------------------------------------------------------------------
(* The loop of a scope                                                     *)

\* Mutant: what was cached stays when the list is read again.
ListedOver(i, k) == scope[i].objects \cup States[scope[i].res][k]

Listed(i, k) == States[scope[i].res][k]

\* After a list or an event: the scope has these objects of that version, and
\* its key may be over the cap.
Holds(i, objects, k) ==
    LET all == [scope EXCEPT ![i].objects = objects, ![i].rv = k, ![i].hasData = TRUE] IN
    \E out \in {Victims(all, scope[i].ver)} :
      /\ scope' = Stopped(all, out)
      /\ registry' = Forgotten(out)
      /\ older' = {p \in older : p[1] \notin out /\ p[2] \notin out}
      /\ viewer' = Heard(i, out)
      /\ UNCHANGED api

\* The list arrives, of a version the API server still has; changes after it
\* come as events.
ListOk(i) ==
    /\ scope[i].state = "running" /\ scope[i].rv = 0
    /\ \E k \in oldest[scope[i].res] .. now[scope[i].res] : Holds(i, Listed(i, k), k)

\* It fails: whoever waits for the first list hears it, and the loop sleeps.
ListFails(i) ==
    /\ scope[i].state = "running" /\ scope[i].rv = 0
    /\ Fails
    /\ scope' = [scope EXCEPT ![i].state = "asleep"]
    /\ \E how \in {"forbidden", "failed"} :
         viewer' = [v \in Viewers |-> [viewer[v] EXCEPT !.wait = Settled(v, {i}, how)]]
    /\ UNCHANGED <<now, oldest, version, older, registry>>

\* ADDED, MODIFIED or DELETED, while the API server still has the version.
Event(i) ==
    LET r == scope[i].res k == scope[i].rv
        gone == States[r][k] \ States[r][k + 1] new == States[r][k + 1] \ States[r][k] IN
    /\ scope[i].state = "running" /\ scope[i].rv \in oldest[r] .. now[r] - 1
    /\ Holds(i, (scope[i].objects \ gone) \cup new, k + 1)

\* Mutant: a 410 in the stream only ends the watch.
TooOldAgain(i) ==
    /\ scope[i].state = "running" /\ scope[i].rv \in 1 .. oldest[scope[i].res] - 1
    /\ UNCHANGED vars

\* 410 Gone, in the stream or instead of it.
TooOld(i) ==
    /\ scope[i].state = "running" /\ scope[i].rv \in 1 .. oldest[scope[i].res] - 1
    /\ scope' = [scope EXCEPT ![i].rv = 0]
    /\ UNCHANGED <<api, older, registry, viewer>>

\* The watch fails, or ends at once: the loop sleeps and watches again from
\* where it was.
Breaks(i) ==
    /\ scope[i].state = "running" /\ scope[i].rv # 0
    /\ Fails
    /\ scope' = [scope EXCEPT ![i].state = "asleep"]
    /\ UNCHANGED <<now, oldest, version, older, registry, viewer>>

Wakes(i) ==
    /\ scope[i].state = "asleep"
    /\ scope' = [scope EXCEPT ![i].state = "running"]
    /\ UNCHANGED <<api, older, registry, viewer>>

\* Nobody has looked at the scope for a while.
IdleStops(i) ==
    /\ Lives(i) /\ Holders(i) = {}
    /\ scope' = Stopped(scope, {i})
    /\ registry' = Forgotten({i})
    /\ older' = {p \in older : i \notin {p[1], p[2]}}
    /\ UNCHANGED <<api, viewer>>

-----------------------------------------------------------------------------
(* Viewers                                                                 *)

Held(v) == {viewer[v].on[r] : r \in Resource} \ {None}

\* A request reads the cluster's row, and awaits its credential.
Asks(v) ==
    /\ viewer[v].state = "none"
    /\ viewer' = [viewer EXCEPT ![v].state = "opening", ![v].ver = version]
    /\ UNCHANGED <<api, scope, older, registry>>

Missing(v) == {r \in Resource : registry[viewer[v].ver][r] = None}

\* The scopes of v's view: those under the keys, and for the missing ones the
\* next that are started, in the order asked.
ScopesFor(v, on) ==
    LET free == {i \in Ids : scope[i].state = "none"} IN
    /\ \A r \in Resource \ Missing(v) : on[r] = registry[viewer[v].ver][r]
    /\ \A r \in Missing(v) : on[r] \in free /\ \A q \in Missing(v) : q < r => on[q] < on[r]
    /\ \A r \in Missing(v) : \A i \in free : i < on[r] => \E q \in Missing(v) : on[q] = i

\* Scope i once v follows `on`: a new one starts, and one that sleeps without
\* data wakes.
Followed(v, on, i) ==
    IF \E r \in Missing(v) : on[r] = i
      THEN [NoScope EXCEPT !.state = "running", !.res = CHOOSE r \in Missing(v) : on[r] = i,
                           !.ver = viewer[v].ver]
    ELSE IF i \in Range(on) /\ ~scope[i].hasData THEN [scope[i] EXCEPT !.state = "running"]
    ELSE scope[i]

\* The request subscribes to every scope of its view.
Subscribes(v) ==
    /\ viewer[v].state = "opening"
    /\ \E on \in [Resource -> Ids] :
         /\ ScopesFor(v, on)
         /\ scope' = [i \in Ids |-> Followed(v, on, i)]
         /\ registry' = [registry EXCEPT ![viewer[v].ver] = on]
         /\ older' = Touched(Range(on))
         /\ viewer' = [viewer EXCEPT ![v].state = "waiting", ![v].on = on,
                         ![v].wait = [r \in Resource |-> IF scope[on[r]].hasData THEN "ok" ELSE "pending"]]
    /\ UNCHANGED api

Awaited(v) == viewer[v].state = "waiting" /\ \A r \in Resource : viewer[v].wait[r] # "pending"

\* Nothing failed, or what may not be read failed first.
Tolerated(v) == \A r \in Resource :
    viewer[v].wait[r] = "failed" => \E q \in 1 .. r - 1 : viewer[v].wait[q] = "forbidden"

\* What v reads of each scope it holds: nothing of one that has stopped.
Items(v) == [r \in Resource |-> scope[viewer[v].on[r]].objects]

\* v lets go of its scopes.
Leave(v, seen) ==
    /\ viewer' = [viewer EXCEPT ![v] = [NoViewer EXCEPT !.state = "ended", !.seen = seen]]
    /\ older' = Touched(Held(v) \intersect {i \in Ids : Lives(i)})
    /\ UNCHANGED <<api, scope, registry>>

\* Every first list arrived, or may not be read: the stream opens.
FeedOpens(f) ==
    /\ Awaited(f) /\ Tolerated(f)
    /\ viewer' = [viewer EXCEPT ![f].state = "open", ![f].pending = {}, ![f].seen = Items(f)]
    /\ UNCHANGED <<api, scope, older, registry>>

FeedRefused(f) == Awaited(f) /\ ~Tolerated(f) /\ Leave(f, NoViewer.seen)

\* The browser hears `changed`, and reads what changed.
Flush(f) ==
    /\ viewer[f].state = "open" /\ ~viewer[f].over /\ viewer[f].pending # {}
    /\ viewer' = [viewer EXCEPT ![f].pending = {},
                    ![f].seen = [r \in Resource |-> IF r \in viewer[f].pending THEN Items(f)[r] ELSE @[r]]]
    /\ UNCHANGED <<api, scope, older, registry>>

\* The browser leaves, which a request hears once it follows its scopes.
FeedLeaves(f) ==
    /\ viewer[f].state \in {"opening", "waiting", "open"} /\ ~viewer[f].left
    /\ viewer' = [viewer EXCEPT ![f].left = TRUE, ![f].over = viewer[f].state # "opening"]
    /\ UNCHANGED <<api, scope, older, registry>>

FeedEnds(f) == viewer[f].state = "open" /\ viewer[f].over /\ Leave(f, NoViewer.seen)

\* A read answers with what its scopes hold; late or failed ones are null.
ReadAnswers(v) ==
    /\ viewer[v].state = "waiting"
    /\ Leave(v, [r \in Resource |-> IF viewer[v].wait[r] = "ok" THEN Items(v)[r] ELSE None])

-----------------------------------------------------------------------------
(* The cluster                                                             *)

Change(r) ==
    /\ now[r] < Len(States[r])
    /\ now' = [now EXCEPT ![r] = @ + 1]
    /\ UNCHANGED <<oldest, version, scope, older, registry, viewer, faults>>

\* The API server forgets old versions.
Compact(r) ==
    /\ oldest[r] < now[r]
    /\ Fails
    /\ oldest' = [oldest EXCEPT ![r] = now[r]]
    /\ UNCHANGED <<now, version, scope, older, registry, viewer>>

\* The cluster is edited: every scope of it stops and its streams end.
Edit ==
    LET all == {i \in Ids : Lives(i)} IN
    /\ version < MaxEdits
    /\ version' = version + 1
    /\ scope' = Stopped(scope, all)
    /\ registry' = Forgotten(all)
    /\ older' = {}
    /\ viewer' = [v \in Viewers |-> [Ended(all)[v] EXCEPT !.over = @ \/ viewer[v].state = "open"]]
    /\ UNCHANGED <<now, oldest, faults>>

Loop(i) == ListOk(i) \/ Event(i) \/ TooOld(i) \/ Wakes(i)
Serve(f) == FeedOpens(f) \/ FeedRefused(f) \/ Flush(f) \/ FeedEnds(f)

Next ==
    \/ \E i \in Ids : Loop(i) \/ ListFails(i) \/ Breaks(i) \/ IdleStops(i)
    \/ \E v \in Viewers : Asks(v) \/ Subscribes(v)
    \/ \E f \in Feeds : Serve(f) \/ FeedLeaves(f)
    \/ \E v \in Reads : ReadAnswers(v)
    \/ \E r \in Resource : Change(r) \/ Compact(r)
    \/ Edit

Spec == Init /\ [][Next]_vars

\* Lists and events arrive, sleeps and debounces end, streams are served.
FairSpec ==
    /\ Spec
    /\ \A i \in Ids : WF_vars(Loop(i))
    /\ \A f \in Feeds : WF_vars(Serve(f))

-----------------------------------------------------------------------------
(* What the cache is for                                                   *)

\* Every variable has its type, and the scopes that run are those that a
\* later edit, or a later viewer, will find.
TypeOK ==
    /\ now \in [Resource -> Nat] /\ oldest \in [Resource -> Nat]
    /\ \A r \in Resource : 1 <= oldest[r] /\ oldest[r] <= now[r] /\ now[r] <= Len(States[r])
    /\ version \in Version /\ faults \in 0 .. MaxFaults
    /\ scope \in [Ids -> [state : {"none", "running", "asleep", "stopped"}, res : Resource,
                          ver : Version, rv : Nat, hasData : BOOLEAN, objects : SUBSET Objects]]
    /\ older \subseteq Ids \X Ids
    /\ registry \in [Version -> [Resource -> Ids \cup {None}]]
    /\ viewer \in [Viewers -> [state : {"none", "opening", "waiting", "open", "ended"}, ver : Version,
                               on : [Resource -> Ids \cup {None}],
                               wait : [Resource -> {"none", "pending", "ok", "forbidden", "failed"}],
                               over : BOOLEAN, left : BOOLEAN, pending : SUBSET Resource,
                               seen : [Resource -> (SUBSET Objects) \cup {None}]]]
    /\ \A v \in Version, r \in Resource, i \in Ids :
         registry[v][r] = i <=> (Lives(i) /\ scope[i].ver = v /\ scope[i].res = r)

Copied == \A i \in Ids : Lives(i) /\ scope[i].rv # 0 => scope[i].objects = States[scope[i].res][scope[i].rv]
Capped == \A v \in Version : Bytes(scope, {i \in Ids : Lives(i) /\ scope[i].ver = v}) <= Cap

\* cache.ts: whatever failed, was compacted, listed again or dropped between,
\* a scope holds the collection of its resourceVersion, nothing of before and
\* nothing of later, and the scopes of a key stay under the cap.
CopyTrue == Copied /\ Capped

\* Not open yet, not current, or still open when it is over.
Lags(f) ==
    \/ viewer[f].state = "waiting"
    \/ viewer[f].state = "open" /\ viewer[f].over
    \/ viewer[f].state = "open" /\ \E r \in Resource : viewer[f].seen[r] # States[r][now[r]]

\* kube-views.ts: the browser of a live view has read the latest state once
\* changes stop, through failed and repeated lists, sleeps and a scope that
\* could not be read at first, or its stream ends, as it does when a scope of
\* it was dropped, the cluster was edited or the browser left while it listened.
FeedCurrent == \A f \in Feeds : Lags(f) ~> ~Lags(f)
=============================================================================
