--------------------------- MODULE CronRunsProofs ---------------------------
(* For any schedules, clock and number of edits and faults: the types of    *)
(* CronRuns, that no occurrence runs twice (OncePerOccurrence), and that    *)
(* the schedule goes on (NextQueued): at every moment some entry, call or   *)
(* request is there that will queue the next run.                           *)
EXTENDS CronRuns, WellFoundedInduction, TLAPS

\* What an entry of the queue may be.
States == {"none", "delayed", "waiting", "done", "stalled"} \union Locked

\* A nonempty set of naturals has a least element.
LEMMA LeastNat ==
  ASSUME NEW S \in SUBSET Nat, S # {}
  PROVE  \E x \in S : \A y \in S : x <= y
<1>1. \E x \in S : \A y \in S : ~(<<y, x>> \in OpToRel(<, Nat))
  BY WFMin, NatLessThanWellFounded, Zenon
<1>2. PICK x \in S : \A y \in S : ~(<<y, x>> \in OpToRel(<, Nat)) BY <1>1
<1>3. \A y \in S : ~(y < x) BY <1>2 DEF OpToRel
<1> QED BY <1>3

\* getNextRun: the first time of the schedule after the given one, if any.
LEMMA NextFacts ==
  ASSUME NEW s \in Schedules, NEW a \in Time
  PROVE  /\ NextRun(s, a) \in 1 .. None /\ NextRun(s, a) > a
         /\ NextRun(s, a) # None => NextRun(s, a) \in Occurs[s]
         /\ \A q \in Occurs[s] : q > a => NextRun(s, a) <= q
<1> DEFINE later == {o \in Occurs[s] : o > a}
<1>1. Occurs[s] \subseteq 1 .. MaxTime /\ MaxTime \in Nat BY CronAssumptions DEF CronConstants
<1>2. CASE later = {}
  <2>1. NextRun(s, a) = None BY <1>2 DEF NextRun
  <2> QED BY <2>1, <1>1, <1>2 DEF None, Time
<1>3. CASE later # {}
  <2>1. later \in SUBSET Nat BY <1>1
  <2>2. \E o \in later : \A q \in later : o <= q BY <1>3, <2>1, LeastNat
  <2>3. NextRun(s, a) = CHOOSE o \in later : \A q \in later : o <= q BY <1>3 DEF NextRun
  <2>4. NextRun(s, a) \in later /\ \A q \in later : NextRun(s, a) <= q
    <3> HIDE DEF later
    <3> QED BY <2>2, <2>3
  <2> QED BY <2>4, <1>1 DEF None, Time
<1> QED BY <1>2, <1>3

\* queue.add: a new entry waits for its time, and no other is disturbed.
LEMMA AddFacts ==
  ASSUME entry \in [Time -> States], NEW t \in 1 .. None
  PROVE  /\ Add(t, entry) \in [Time -> States]
         /\ \A o \in Time : Add(t, entry)[o] = IF o = t /\ entry[o] = "none" THEN "delayed" ELSE entry[o]
<1>1. MaxTime \in Nat BY CronAssumptions DEF CronConstants
<1>2. t # None => t \in Time BY <1>1 DEF None, Time
<1>3. None \notin Time BY <1>1 DEF None, Time
<1> QED BY <1>2, <1>3 DEF Add, States

\* unscheduleCronJob leaves what a worker has.
LEMMA WithoutFacts ==
  ASSUME entry \in [Time -> States], NEW found
  PROVE  /\ Without(found) \in [Time -> States]
         /\ \A o \in Time : Without(found)[o] =
              IF o \in found /\ entry[o] \notin Locked THEN "none" ELSE entry[o]
BY DEF Without, States

\* A request or a re-queueing at one of its calls, with nothing found or aimed at.
At(p) == [pc |-> p, found |-> {}, target |-> None]

LEMMA IdleFacts ==
  /\ Idle = At("idle")
  /\ \A p : [Idle EXCEPT !.pc = p] = At(p)
  /\ \A p, t : [Idle EXCEPT !.pc = p, !.target = t] = [pc |-> p, found |-> {}, target |-> t]
<1>1. Idle = At("idle") BY DEF Idle, At
<1>2. \A p : [Idle EXCEPT !.pc = p] = At(p) BY DEF Idle, At
<1>3. ASSUME NEW p, NEW t PROVE [Idle EXCEPT !.pc = p, !.target = t] = [pc |-> p, found |-> {}, target |-> t]
  <2>1. PICK x : x = [pc |-> "idle", found |-> {}, target |-> None] OBVIOUS
  <2>2. PICK y : y = [x EXCEPT !.pc = p, !.target = t] OBVIOUS
  <2>3. DOMAIN y = {"pc", "found", "target"} BY <2>1, <2>2
  <2>4. y["pc"] = p /\ y["found"] = {} /\ y["target"] = t BY <2>1, <2>2
  <2>5. y = [i \in DOMAIN y |-> y[i]] BY <2>1, <2>2
  <2>6. y = [pc |-> p, found |-> {}, target |-> t] BY <2>3, <2>4, <2>5
  <2> QED BY <2>1, <2>2, <2>6 DEF Idle
<1> QED BY <1>1, <1>2, <1>3

\* What may be under way in the server and in a worker that starts.
Requests == [pc : {"idle", "list", "remove", "schedule"}, found : SUBSET Time, target : {None}]
Syncs == [pc : {"idle", "list", "remove", "read", "add"}, found : SUBSET Time, target : 1 .. None]

LEMMA AtFacts ==
  ASSUME NEW p
  PROVE  /\ p \in {"idle", "list", "remove", "schedule"} => At(p) \in Requests
         /\ p \in {"idle", "list", "remove", "read", "add"} => At(p) \in Syncs
         /\ At(p).found = {} /\ At(p).pc = p /\ At(p).target = None
<1>1. None \in 1 .. None BY CronAssumptions DEF CronConstants, None
<1> QED BY <1>1 DEF At, Requests, Syncs

\* TypeOK with its parts apart.
LEMMA TypeParts ==
  TypeOK <=>
    /\ setting \in Settings /\ now \in Time /\ up \in BOOLEAN /\ owed \in BOOLEAN
    /\ job \in [exists : BOOLEAN, enabled : BOOLEAN, schedule : Schedules]
    /\ entry \in [Time -> States]
    /\ target \in [Time -> 1 .. None] /\ stalled \subseteq Time /\ forgot \subseteq Time
    /\ req \in Requests /\ (req.found # {} => req.pc = "remove")
    /\ sync \in Syncs /\ (sync.found # {} => sync.pc = "remove")
    /\ ran \in [Time -> Nat] /\ edits \in 0 .. MaxEdits /\ faults \in 0 .. MaxFaults
    /\ \A o \in Time : entry[o] \in Locked => up
    /\ \A o \in Time : target[o] # None => entry[o] = "adding" /\ target[o] > o
BY DEF TypeOK, Requests, Syncs, States

\* Every variable of a cron job and its queue keeps its type.
LEMMA TypeInit == Init => TypeOK
<1> SUFFICES ASSUME Init PROVE TypeOK OBVIOUS
<1>1. MaxTime \in Nat \ {0} /\ MaxEdits \in Nat /\ MaxFaults \in Nat /\ Schedules # {}
  BY CronAssumptions DEF CronConstants
<1>2. (CHOOSE s \in Schedules : TRUE) \in Schedules BY <1>1
<1>3. None \in 1 .. None BY <1>1 DEF None
<1>4. 0 \in Time BY <1>1 DEF Time
<1>5. req = At("idle") /\ sync = At("idle") BY IdleFacts DEF Init
<1>6. req \in Requests /\ req.found = {} /\ sync \in Syncs /\ sync.found = {} BY <1>5, AtFacts
<1>7. job \in [exists : BOOLEAN, enabled : BOOLEAN, schedule : Schedules] BY <1>2 DEF Init
<1>8. \A o \in Time : entry[o] \notin Locked /\ target[o] = None BY DEF Init, Locked
<1>9. /\ entry \in [Time -> {"none", "delayed", "waiting", "done", "stalled"} \union Locked]
      /\ target \in [Time -> 1 .. None] /\ ran \in [Time -> Nat]
  BY <1>3 DEF Init
<1>10. /\ setting \in Settings /\ now \in Time /\ up \in BOOLEAN /\ owed \in BOOLEAN
       /\ stalled \subseteq Time /\ forgot \subseteq Time /\ edits \in 0 .. MaxEdits /\ faults \in 0 .. MaxFaults
  <2>1. edits \in 0 .. MaxEdits /\ faults \in 0 .. MaxFaults BY <1>1 DEF Init
  <2>2. up \in BOOLEAN /\ owed \in BOOLEAN BY Zenon DEF Init
  <2> QED BY <1>4, <2>1, <2>2 DEF Init
<1> QED BY <1>6, <1>7, <1>8, <1>9, <1>10 DEF TypeOK, Requests, Syncs

LEMMA TypeStep == TypeOK /\ [Next]_vars => TypeOK'
<1> SUFFICES ASSUME TypeOK, [Next]_vars PROVE TypeOK' OBVIOUS
<1>1. MaxTime \in Nat \ {0} /\ MaxEdits \in Nat /\ MaxFaults \in Nat
  BY CronAssumptions DEF CronConstants
<1>2. /\ None \in 1 .. None /\ None \notin Time /\ 0 \in Time /\ 1 .. MaxTime \subseteq Time
      /\ \A t \in 1 .. None : t # None => t \in Time
  BY <1>1 DEF None, Time
<1>3. entry \in [Time -> States] BY DEF TypeOK, States
<1>4. CASE UNCHANGED vars BY <1>4 DEF vars, TypeOK
<1>5. ASSUME NEW on \in BOOLEAN, NEW s \in Schedules, Create(on, s) \/ Patch(on, s) PROVE TypeOK'
  <2>1. \E p \in {"idle", "list", "schedule"} : req' = At(p) BY <1>5, IdleFacts DEF Create, Patch
  <2>2. req' \in Requests /\ req'.found = {} BY <2>1, AtFacts
  <2>3. job' \in [exists : BOOLEAN, enabled : BOOLEAN, schedule : Schedules]
    <3>1. job \in [exists : BOOLEAN, enabled : BOOLEAN, schedule : Schedules] BY DEF TypeOK
    <3>2. CASE Create(on, s) BY <3>2 DEF Create
    <3>3. CASE Patch(on, s) BY <3>1, <3>3 DEF Patch
    <3> QED BY <1>5, <3>2, <3>3
  <2>4. edits' \in 0 .. MaxEdits
    <3>1. edits \in 0 .. MaxEdits BY DEF TypeOK
    <3> QED BY <1>1, <1>5, <3>1 DEF Create, Patch, Edit
  <2>5. UNCHANGED <<setting, now, entry, target, stalled, forgot, sync, up, ran, owed, faults>>
    BY <1>5 DEF Create, Patch, queue
  <2> QED BY <2>2, <2>3, <2>4, <2>5 DEF TypeOK, Requests
<1>6. CASE Delete
  <2>1. req' = At("list") BY <1>6, IdleFacts DEF Delete
  <2>2. req' \in Requests /\ req'.found = {} BY <2>1, AtFacts
  <2>3. job' \in [exists : BOOLEAN, enabled : BOOLEAN, schedule : Schedules]
    BY <1>6 DEF TypeOK, Delete
  <2>4. edits' \in 0 .. MaxEdits
    <3>1. edits \in 0 .. MaxEdits BY DEF TypeOK
    <3> QED BY <1>1, <1>6, <3>1 DEF Delete, Edit
  <2>5. UNCHANGED <<setting, now, entry, target, stalled, forgot, sync, up, ran, owed, faults>>
    BY <1>6 DEF Delete, queue
  <2> QED BY <2>2, <2>3, <2>4, <2>5 DEF TypeOK, Requests
<1>7. CASE RunNow BY <1>1, <1>2, <1>7 DEF TypeOK, RunNow, Edit, Locked
<1>8. CASE List BY <1>1, <1>2, <1>8 DEF TypeOK, List, queue
<1>9. CASE Remove
  <2>1. req.found \subseteq Time BY DEF TypeOK
  <2>2. /\ Without(req.found) \in [Time -> States]
        /\ \A o \in Time : Without(req.found)[o] =
             IF o \in req.found /\ entry[o] \notin Locked THEN "none" ELSE entry[o]
    BY <1>3, WithoutFacts
  <2>3. forgot' \subseteq Time BY <2>1, <1>9 DEF TypeOK, Remove, Forget
  <2>4. \A o \in Time : entry'[o] \in Locked => entry[o] \in Locked BY <2>2, <1>9 DEF Remove, Locked
  <2>5. \A o \in Time : entry[o] = "adding" => entry'[o] = "adding" BY <2>2, <1>9 DEF Remove, Locked
  <2>6. entry' \in [Time -> {"none", "delayed", "waiting", "done", "stalled"} \union Locked]
    BY <2>2, <1>9 DEF Remove, States
  <2>7. owed' \in BOOLEAN BY <1>9 DEF TypeOK, Remove
  <2> QED BY <1>2, <1>9, <2>3, <2>4, <2>5, <2>6, <2>7 DEF TypeOK, Remove, Idle
<1>10. ASSUME NEW t \in 1 .. None, entry' = Add(t, entry)
       PROVE  /\ entry' \in [Time -> {"none", "delayed", "waiting", "done", "stalled"} \union Locked]
              /\ \A o \in Time : entry'[o] \in Locked => entry[o] \in Locked
              /\ \A o \in Time : entry[o] = "adding" => entry'[o] = "adding"
  <2>1. /\ Add(t, entry) \in [Time -> States]
        /\ \A o \in Time : Add(t, entry)[o] = IF o = t /\ entry[o] = "none" THEN "delayed" ELSE entry[o]
    BY <1>3, AddFacts
  <2> QED BY <1>10, <2>1 DEF States, Locked
<1>11. \A f : Fault(f) => faults' \in 0 .. MaxFaults
  <2>1. faults \in 0 .. MaxFaults BY DEF TypeOK
  <2> QED BY <1>1, <2>1 DEF Fault
<1>12. CASE Schedule
  <2>1. NextRun(job.schedule, now) \in 1 .. None BY NextFacts DEF TypeOK
  <2>2. CASE entry' = Add(NextRun(job.schedule, now), entry) /\ owed' = FALSE /\ NoFault
    <3>1. /\ entry' \in [Time -> {"none", "delayed", "waiting", "done", "stalled"} \union Locked]
          /\ \A o \in Time : entry'[o] \in Locked => entry[o] \in Locked
          /\ \A o \in Time : entry[o] = "adding" => entry'[o] = "adding"
      BY <1>10, <2>1, <2>2
    <3>2. req' = At("idle") BY <1>12, IdleFacts DEF Schedule
    <3>3. req' \in Requests /\ req'.found = {} BY <3>2, AtFacts
    <3> QED BY <1>12, <2>2, <3>1, <3>3 DEF TypeOK, Schedule, NoFault, Requests
  <2>3. CASE Fault("redis") /\ owed' = TRUE /\ UNCHANGED entry
    BY <1>2, <1>11, <1>12, <2>3 DEF TypeOK, Schedule, Idle
  <2> QED BY <1>12, <2>2, <2>3 DEF Schedule
<1>13. CASE KillServer BY <1>2, <1>11, <1>13 DEF TypeOK, KillServer, Idle, queue
<1>14. ASSUME NEW o \in Time, Promote(o) \/ Take(o) \/ Run(o) \/ Unstall(o) PROVE TypeOK'
  BY <1>1, <1>14 DEF TypeOK, Promote, Take, Run, Unstall, Locked
<1>15. ASSUME NEW o \in Time, Read(o) PROVE TypeOK'
  <2>1. Max2(now, o) \in Time /\ Max2(now, o) >= o /\ now \in Time
    BY <1>1 DEF TypeOK, Max2, Time
  <2>2. /\ NextRun(job.schedule, Max2(now, o)) \in 1 .. None
        /\ NextRun(job.schedule, Max2(now, o)) > Max2(now, o)
    BY <2>1, NextFacts DEF TypeOK
  <2>3. PICK t : /\ t = IF job.exists /\ job.enabled THEN NextRun(job.schedule, After(o)) ELSE None
                 /\ target' = [target EXCEPT ![o] = t]
    BY <1>15 DEF Read
  <2>4. t \in 1 .. None /\ t > o BY <1>1, <2>1, <2>2, <2>3 DEF After, None, Time
  <2>5. entry' = [entry EXCEPT ![o] = "adding"] /\ entry[o] \in Locked BY <1>15 DEF Read, Locked
  <2>6. up BY <2>5 DEF TypeOK
  <2> QED BY <1>15, <2>3, <2>4, <2>5, <2>6 DEF TypeOK, Read, Locked
<1>16. ASSUME NEW o \in Time, Finish(o) PROVE TypeOK'
  <2>1. target[o] \in 1 .. None BY DEF TypeOK
  <2>2. /\ Add(target[o], entry) \in [Time -> States]
        /\ \A q \in Time : Add(target[o], entry)[q] =
             IF q = target[o] /\ entry[q] = "none" THEN "delayed" ELSE entry[q]
    BY <1>3, <2>1, AddFacts
  <2>3. \/ entry' = [Add(target[o], entry) EXCEPT ![o] = "done"]
        \/ entry' = [entry EXCEPT ![o] = "done"]
    BY <1>16 DEF Finish
  <2>4. /\ entry' \in [Time -> {"none", "delayed", "waiting", "done", "stalled"} \union Locked]
        /\ \A q \in Time : entry'[q] \in Locked => entry[q] \in Locked
        /\ \A q \in Time : q # o /\ entry[q] = "adding" => entry'[q] = "adding"
    BY <1>3, <2>2, <2>3 DEF States, Locked
  <2>5. owed' \in BOOLEAN /\ faults' \in 0 .. MaxFaults
    BY <1>11, <1>16 DEF TypeOK, Finish, NoFault
  <2> QED BY <1>2, <1>16, <2>4, <2>5 DEF TypeOK, Finish
<1>17. CASE KillWorker
  <2>1. sync' = At("idle") BY <1>17, IdleFacts DEF KillWorker
  <2>2. sync' \in Syncs /\ sync'.found = {} BY <2>1, AtFacts
  <2>3. entry' \in [Time -> {"none", "delayed", "waiting", "done", "stalled"} \union Locked]
        /\ \A o \in Time : entry'[o] \notin Locked
    BY <1>3, <1>17 DEF KillWorker, States, Locked
  <2>4. target' \in [Time -> 1 .. None] /\ \A o \in Time : target'[o] = None BY <1>2, <1>17 DEF KillWorker
  <2>5. faults' \in 0 .. MaxFaults BY <1>11, <1>17 DEF KillWorker
  <2> QED BY <1>17, <2>2, <2>3, <2>4, <2>5 DEF TypeOK, KillWorker, Syncs
<1>18. CASE Start BY <1>2, <1>18 DEF TypeOK, Start, Idle, queue
<1>19. CASE Flush
  <2>1. /\ \A o \in Time : entry[o] \notin Locked
        /\ Fault("flush")
    BY <1>2, <1>19 DEF Flush
  <2>2. \A o \in Time : target[o] = None BY <2>1 DEF TypeOK, Locked
  <2> QED BY <1>11, <1>19, <2>1, <2>2 DEF TypeOK, Flush, Forget, Locked
<1>20. CASE SyncList BY <1>1, <1>2, <1>20 DEF TypeOK, SyncList, queue
<1>21. CASE SyncRemove
  <2>1. sync.found \subseteq Time BY DEF TypeOK
  <2>2. /\ Without(sync.found) \in [Time -> States]
        /\ \A o \in Time : Without(sync.found)[o] =
             IF o \in sync.found /\ entry[o] \notin Locked THEN "none" ELSE entry[o]
    BY <1>3, WithoutFacts
  <2>3. forgot' \subseteq Time BY <2>1, <1>21 DEF TypeOK, SyncRemove, Forget
  <2>4. \A o \in Time : entry'[o] \in Locked => entry[o] \in Locked BY <2>2, <1>21 DEF SyncRemove, Locked
  <2>5. \A o \in Time : entry[o] = "adding" => entry'[o] = "adding" BY <2>2, <1>21 DEF SyncRemove, Locked
  <2>6. entry' \in [Time -> {"none", "delayed", "waiting", "done", "stalled"} \union Locked]
    BY <2>2, <1>21 DEF SyncRemove, States
  <2>7. owed' \in BOOLEAN BY <1>21 DEF TypeOK, SyncRemove
  <2> QED BY <1>2, <1>21, <2>3, <2>4, <2>5, <2>6, <2>7 DEF TypeOK, SyncRemove, Idle
<1>22. CASE SyncRead
  <2>1. NextRun(job.schedule, now) \in 1 .. None BY NextFacts DEF TypeOK
  <2>2. sync' \in Syncs /\ sync'.found = {}
    <3>1. CASE job.exists /\ job.enabled
      <4>1. sync' = [pc |-> "add", found |-> {}, target |-> NextRun(job.schedule, now)]
        BY <1>22, <3>1, IdleFacts DEF SyncRead
      <4> QED BY <2>1, <4>1 DEF Syncs
    <3>2. CASE ~(job.exists /\ job.enabled)
      <4>1. sync' = At("idle") BY <1>22, <3>2, IdleFacts DEF SyncRead
      <4> QED BY <4>1, AtFacts
    <3> QED BY <3>1, <3>2
  <2> QED BY <1>22, <2>2 DEF TypeOK, SyncRead, Syncs, queue
<1>23. CASE SyncAdd
  <2>1. sync.target \in 1 .. None BY DEF TypeOK
  <2>2. CASE entry' = Add(sync.target, entry) /\ UNCHANGED owed /\ NoFault
    <3>1. /\ entry' \in [Time -> {"none", "delayed", "waiting", "done", "stalled"} \union Locked]
          /\ \A o \in Time : entry'[o] \in Locked => entry[o] \in Locked
          /\ \A o \in Time : entry[o] = "adding" => entry'[o] = "adding"
      BY <1>10, <2>1, <2>2
    <3> QED BY <1>2, <1>23, <2>2, <3>1 DEF TypeOK, SyncAdd, Idle, NoFault
  <2>3. CASE Fault("redis") /\ owed' = TRUE /\ UNCHANGED entry
    BY <1>2, <1>11, <1>23, <2>3 DEF TypeOK, SyncAdd, Idle
  <2> QED BY <1>23, <2>2, <2>3 DEF SyncAdd
<1>24. CASE Tick BY <1>1, <1>24 DEF TypeOK, Tick, Time, queue
<1> QED BY <1>4, <1>5, <1>6, <1>7, <1>8, <1>9, <1>12, <1>13, <1>14, <1>15, <1>16, <1>17, <1>18, <1>19,
          <1>20, <1>21, <1>22, <1>23, <1>24 DEF Next

THEOREM TypeCorrect == Spec => []TypeOK
BY TypeInit, TypeStep, PTL DEF Spec

----------------------------------------------------------------------------
(* The occurrences that ran *)

\* How the queue keeps the id of an occurrence that ran.
Kept == {"running", "adding", "done", "stalled"}

\* An occurrence that ran keeps its id, unless a worker was killed over it or
\* the queue has lost the id.
Traced ==
    \A o \in 1 .. MaxTime : ran[o] > 0 /\ o \notin stalled \union forgot => ran[o] = 1 /\ entry[o] \in Kept

\* Where nothing runs, it is enough that no id goes unnoticed.
LEMMA TracedKept ==
  ASSUME Traced, UNCHANGED ran, stalled \subseteq stalled', forgot \subseteq forgot',
         \A o \in 1 .. MaxTime : entry[o] \in Kept => entry'[o] \in Kept \/ o \in stalled' \union forgot'
  PROVE  Traced'
BY DEF Traced

LEMMA TracedStep == TypeOK /\ Traced /\ [Next]_vars => Traced'
<1> SUFFICES ASSUME TypeOK, Traced, [Next]_vars PROVE Traced' OBVIOUS
<1>1. MaxTime \in Nat \ {0} BY CronAssumptions DEF CronConstants
<1>2. 1 .. MaxTime \subseteq Time /\ 0 \notin 1 .. MaxTime /\ None \notin Time BY <1>1 DEF Time, None
<1>3. entry \in [Time -> States] /\ ran \in [Time -> Nat] BY DEF TypeOK, States
<1>4. ASSUME UNCHANGED <<entry, ran, stalled, forgot>> PROVE Traced' BY <1>4, TracedKept
<1>5. ASSUME NEW t \in 1 .. None, entry' = Add(t, entry), UNCHANGED <<ran, stalled, forgot>> PROVE Traced'
  <2>1. \A o \in Time : entry'[o] = IF o = t /\ entry[o] = "none" THEN "delayed" ELSE entry[o]
    BY <1>3, <1>5, AddFacts
  <2> QED BY <1>2, <1>5, <2>1, TracedKept DEF Kept
<1>6. ASSUME NEW found, entry' = Without(found), Forget(found), UNCHANGED <<ran, stalled>> PROVE Traced'
  <2>1. \A o \in Time : entry'[o] = IF o \in found /\ entry[o] \notin Locked THEN "none" ELSE entry[o]
    BY <1>3, <1>6, WithoutFacts
  <2>2. \A o \in Time : o \in found /\ entry[o] \in {"done", "stalled"} => o \in forgot' BY <1>6 DEF Forget
  <2>3. forgot \subseteq forgot' BY <1>6 DEF Forget
  <2> QED BY <1>2, <1>6, <2>1, <2>2, <2>3, TracedKept DEF Kept, Locked
<1>7. CASE UNCHANGED vars BY <1>4, <1>7 DEF vars
<1>8. ASSUME NEW on \in BOOLEAN, NEW s \in Schedules, Create(on, s) \/ Patch(on, s) PROVE Traced'
  BY <1>4, <1>8 DEF Create, Patch, queue
<1>9. CASE Delete \/ List \/ KillServer \/ Start \/ SyncList \/ SyncRead \/ Tick
  BY <1>4, <1>9 DEF Delete, List, KillServer, Start, SyncList, SyncRead, Tick, queue
<1>10. CASE RunNow
  <2>1. \A o \in 1 .. MaxTime : entry'[o] = entry[o] BY <1>2, <1>3, <1>10 DEF RunNow
  <2> QED BY <1>10, <2>1, TracedKept DEF RunNow
<1>11. CASE Remove BY <1>6, <1>11 DEF Remove
<1>12. CASE SyncRemove BY <1>6, <1>12 DEF SyncRemove
<1>13. CASE Schedule
  <2>1. NextRun(job.schedule, now) \in 1 .. None BY NextFacts DEF TypeOK
  <2> QED BY <1>4, <1>5, <1>13, <2>1 DEF Schedule
<1>14. CASE SyncAdd
  <2>1. sync.target \in 1 .. None BY DEF TypeOK
  <2> QED BY <1>4, <1>5, <1>14, <2>1 DEF SyncAdd
<1>15. ASSUME NEW o \in Time, Promote(o) \/ Take(o) \/ Read(o) PROVE Traced'
  <2>1. \A q \in Time : entry[q] \in Kept => entry'[q] \in Kept
    BY <1>3, <1>15 DEF Promote, Take, Read, Kept, Locked
  <2> QED BY <1>2, <1>15, <2>1, TracedKept DEF Promote, Take, Read
<1>16. ASSUME NEW o \in Time, Run(o) PROVE Traced'
  <2>1. entry[o] = "active" /\ entry' = [entry EXCEPT ![o] = "running"]
        /\ ran' = [ran EXCEPT ![o] = IF o = 0 THEN 0 ELSE ran[o] + 1] /\ UNCHANGED <<stalled, forgot>>
    BY <1>16 DEF Run
  <2>2. SUFFICES ASSUME NEW q \in 1 .. MaxTime, ran'[q] > 0, q \notin stalled \union forgot
                 PROVE  ran'[q] = 1 /\ entry'[q] \in Kept
    BY <2>1 DEF Traced
  <2>3. CASE q = o
    <3>1. entry[o] \notin Kept BY <2>1 DEF Kept
    <3>2. ~(ran[o] > 0) BY <2>2, <2>3, <3>1 DEF Traced
    <3>3. ran[o] \in Nat BY <1>3
    <3> QED BY <1>2, <1>3, <2>1, <2>3, <3>2, <3>3 DEF Kept
  <2>4. CASE q # o BY <1>2, <1>3, <2>1, <2>2, <2>4 DEF Traced
  <2> QED BY <2>3, <2>4
<1>17. ASSUME NEW o \in Time, Finish(o) PROVE Traced'
  <2>1. target[o] \in 1 .. None BY DEF TypeOK
  <2>2. /\ Add(target[o], entry) \in [Time -> States]
        /\ \A q \in Time : Add(target[o], entry)[q] =
             IF q = target[o] /\ entry[q] = "none" THEN "delayed" ELSE entry[q]
    BY <1>3, <2>1, AddFacts
  <2>3. \/ entry' = [Add(target[o], entry) EXCEPT ![o] = "done"]
        \/ entry' = [entry EXCEPT ![o] = "done"]
    BY <1>17 DEF Finish
  <2>4. \A q \in Time : entry[q] \in Kept => entry'[q] \in Kept
    BY <1>3, <2>2, <2>3 DEF Kept
  <2> QED BY <1>2, <1>17, <2>4, TracedKept DEF Finish
<1>18. ASSUME NEW o \in Time, Unstall(o) PROVE Traced'
  <2>1. \A q \in Time : entry[q] \in Kept => entry'[q] \in Kept \/ q \in stalled'
    BY <1>3, <1>18 DEF Unstall, Kept
  <2> QED BY <1>2, <1>18, <2>1, TracedKept DEF Unstall
<1>19. CASE KillWorker
  <2>1. \A q \in Time : entry[q] \in Kept => entry'[q] \in Kept
    BY <1>3, <1>19 DEF KillWorker, Kept, Locked
  <2> QED BY <1>2, <1>19, <2>1, TracedKept DEF KillWorker
<1>20. CASE Flush
  <2>1. \A q \in Time : entry[q] \in Kept => q \in forgot'
    BY <1>3, <1>20 DEF Flush, Forget, Kept, Locked
  <2>2. forgot \subseteq forgot' BY <1>20 DEF Flush, Forget
  <2> QED BY <1>2, <1>20, <2>1, <2>2, TracedKept DEF Flush
<1> QED BY <1>7, <1>8, <1>9, <1>10, <1>11, <1>12, <1>13, <1>14, <1>15, <1>16, <1>17, <1>18, <1>19, <1>20 DEF Next

\* scheduler.ts: no occurrence runs twice, unless a worker was killed over it
\* or the queue has lost the id it ran under.
THEOREM RunsOnce == Spec => []OncePerOccurrence
<1>1. Init => Traced
  <2>1. 1 .. MaxTime \subseteq Time BY CronAssumptions DEF CronConstants, Time
  <2> QED BY <2>1 DEF Init, Traced
<1>2. TypeOK /\ Traced => OncePerOccurrence
  <2>1. 1 .. MaxTime \subseteq Time BY CronAssumptions DEF CronConstants, Time
  <2>2. TypeOK => \A o \in 1 .. MaxTime : ran[o] \in Nat BY <2>1 DEF TypeOK
  <2> QED BY <2>2 DEF Traced, OncePerOccurrence
<1> QED BY <1>1, <1>2, TracedStep, TypeCorrect, PTL DEF Spec

----------------------------------------------------------------------------
(* What fires, and when                                                    *)

\* No worker has had the entry, or there is none.
Unfired == {"none", "delayed"}

\* The clock the queue goes by is at most one ahead.
Timely == \A o \in Time : o > now + 1 => entry[o] \in Unfired

\* Nothing has fired before its time.
Due == \A o \in Time : o > now => entry[o] \in Unfired

\* The times and the states used below.
LEMMA Times ==
  /\ MaxTime \in Nat \ {0} /\ 0 \in Time /\ 1 .. MaxTime \subseteq Time /\ None \notin Time
  /\ \A t \in 1 .. None : t # None => t \in 1 .. MaxTime
  /\ Time \subseteq Nat /\ None \in Nat /\ \A o \in Time : o < None
BY CronAssumptions DEF CronConstants, Time, None

\* A step fires an entry when its time has come, or one ahead by an early clock.
LEMMA Fires ==
  ASSUME TypeOK, [Next]_vars
  PROVE  /\ now' \in Nat /\ now' >= now
         /\ \A o \in Time : \/ entry[o] \in Unfired => entry'[o] \in Unfired
                            \/ o <= now
                            \/ o = now + 1 /\ "early" \in setting.faults
<1> DEFINE Late ==
             \A o \in Time :
                \/ entry[o] \in Unfired => entry'[o] \in Unfired
                \/ o <= now
                \/ o = now + 1 /\ "early" \in setting.faults
<1>1. entry \in [Time -> States] /\ now \in Nat /\ now \in Time /\ Time \subseteq Nat /\ 0 \in Time
  BY Times DEF TypeOK, States
<1>2. now' \in Nat /\ now' >= now
  <2>1. now' = now \/ now' = now + 1
    BY DEF Next, vars, Create, Patch, Delete, RunNow, List, Remove, Schedule, KillServer, Promote, Take, Run, Read,
           Finish, Unstall, KillWorker, Start, Flush, SyncList, SyncRemove, SyncRead, SyncAdd, Tick
  <2> QED BY <1>1, <2>1
<1> SUFFICES Late BY <1>2
<1> HIDE DEF Late
<1>3. ASSUME entry' = entry PROVE Late BY <1>3 DEF Late
<1>4. ASSUME NEW t \in 1 .. None, entry' = Add(t, entry) PROVE Late
  <2>1. \A o \in Time : entry'[o] = IF o = t /\ entry[o] = "none" THEN "delayed" ELSE entry[o]
    BY <1>1, <1>4, AddFacts
  <2> QED BY <2>1 DEF Unfired, Late
<1>5. ASSUME NEW found, entry' = Without(found) PROVE Late
  <2>1. \A o \in Time : entry'[o] = IF o \in found /\ entry[o] \notin Locked THEN "none" ELSE entry[o]
    BY <1>1, <1>5, WithoutFacts
  <2> QED BY <2>1 DEF Unfired, Late
<1>6. CASE UNCHANGED vars BY <1>3, <1>6 DEF vars
<1>7. ASSUME NEW on \in BOOLEAN, NEW s \in Schedules, Create(on, s) \/ Patch(on, s) PROVE Late
  BY <1>3, <1>7 DEF Create, Patch, queue
<1>8. CASE Delete \/ List \/ KillServer \/ Start \/ SyncList \/ SyncRead \/ Tick
  BY <1>3, <1>8 DEF Delete, List, KillServer, Start, SyncList, SyncRead, Tick, queue
<1>9. CASE RunNow
  <2>1. \A o \in Time : o # 0 => entry'[o] = entry[o] BY <1>1, <1>9 DEF RunNow
  <2> QED BY <1>1, <2>1 DEF Late
<1>10. CASE Remove BY <1>5, <1>10 DEF Remove
<1>11. CASE SyncRemove BY <1>5, <1>11 DEF SyncRemove
<1>12. CASE Schedule
  <2>1. NextRun(job.schedule, now) \in 1 .. None BY NextFacts DEF TypeOK
  <2> QED BY <1>3, <1>4, <1>12, <2>1 DEF Schedule
<1>13. CASE SyncAdd
  <2>1. sync.target \in 1 .. None BY DEF TypeOK
  <2> QED BY <1>3, <1>4, <1>13, <2>1 DEF SyncAdd
<1>14. ASSUME NEW o \in Time, Promote(o) PROVE Late
  <2>1. o <= now \/ (o = now + 1 /\ "early" \in setting.faults) BY <1>14 DEF Promote
  <2>2. \A q \in Time : q # o => entry'[q] = entry[q] BY <1>1, <1>14 DEF Promote
  <2> QED BY <2>1, <2>2 DEF Late
<1>15. ASSUME NEW o \in Time, Take(o) \/ Run(o) \/ Read(o) \/ Unstall(o) PROVE Late
  <2>1. entry[o] \notin Unfired BY <1>15 DEF Take, Run, Read, Unstall, Unfired
  <2>2. \A q \in Time : q # o => entry'[q] = entry[q] BY <1>1, <1>15 DEF Take, Run, Read, Unstall
  <2> QED BY <2>1, <2>2 DEF Late
<1>16. ASSUME NEW o \in Time, Finish(o) PROVE Late
  <2>1. target[o] \in 1 .. None BY DEF TypeOK
  <2>2. /\ Add(target[o], entry) \in [Time -> States]
        /\ \A q \in Time : Add(target[o], entry)[q] =
             IF q = target[o] /\ entry[q] = "none" THEN "delayed" ELSE entry[q]
    BY <1>1, <2>1, AddFacts
  <2>3. \/ entry' = [Add(target[o], entry) EXCEPT ![o] = "done"]
        \/ entry' = [entry EXCEPT ![o] = "done"]
    BY <1>16 DEF Finish
  <2>4. entry[o] = "adding" BY <1>16 DEF Finish
  <2> QED BY <1>1, <2>2, <2>3, <2>4 DEF Unfired, Late
<1>17. CASE KillWorker
  <2>1. \A q \in Time : entry[q] \in Unfired => entry'[q] = entry[q]
    BY <1>1, <1>17 DEF KillWorker, Locked, Unfired
  <2> QED BY <2>1 DEF Late
<1>18. CASE Flush BY <1>1, <1>18 DEF Flush, Unfired, Late
<1> QED BY <1>6, <1>7, <1>8, <1>9, <1>10, <1>11, <1>12, <1>13, <1>14, <1>15, <1>16, <1>17, <1>18 DEF Next

\* What has not fired early stays so, whatever happens.
LEMMA DueStep == TypeOK /\ Due /\ "early" \notin setting.faults /\ [Next]_vars => Due'
<1> SUFFICES ASSUME TypeOK, Due, "early" \notin setting.faults, [Next]_vars, NEW o \in Time, o > now'
             PROVE  entry'[o] \in Unfired
  BY DEF Due
<1>1. now' \in Nat /\ now' >= now /\ now \in Nat /\ o \in Nat BY Fires, Times DEF TypeOK
<1>2. o > now BY <1>1
<1>3. entry[o] \in Unfired BY <1>2 DEF Due
<1> QED BY <1>1, <1>2, <1>3, Fires

\* Nor does anything fire more than one ahead.
LEMMA TimelyStep == TypeOK /\ Timely /\ [Next]_vars => Timely'
<1> SUFFICES ASSUME TypeOK, Timely, [Next]_vars, NEW o \in Time, o > now' + 1
             PROVE  entry'[o] \in Unfired
  BY DEF Timely
<1>1. now' \in Nat /\ now' >= now /\ now \in Nat /\ o \in Nat BY Fires, Times DEF TypeOK
<1>2. o > now + 1 /\ ~(o <= now) /\ o # now + 1
  <2>1. PICK n \in Nat : n = now' BY <1>1
  <2>2. PICK m \in Nat : m = now BY <1>1
  <2>3. o > n + 1 /\ n >= m BY <1>1, <2>1, <2>2
  <2>4. o > m + 1 BY <1>1, <2>3
  <2> QED BY <1>1, <2>2, <2>4
<1>3. entry[o] \in Unfired BY <1>2 DEF Timely
<1> QED BY <1>1, <1>2, <1>3, Fires

----------------------------------------------------------------------------
(* The chain: each entry, when it fires or when its worker ends, queues the *)
(* next                                                                     *)

\* The job is to have its next run queued, and no call for it was lost.
Wanted == job.exists /\ job.enabled /\ ~owed

\* The occurrences to come that have not fired.
Pending == {o \in Occurs[job.schedule] : o > now /\ entry[o] \in Unfired}

\* An occurrence that keeps the chain: the first to come or, when none has fired
\* before its time, one that is past.
Fits(o) ==
    \/ o \in 1 .. now /\ Due
    \/ o \in Pending /\ \A q \in Pending : o <= q
Sends(t) == Fits(t) /\ entry[t] \in {"none", "delayed", "waiting"}

\* An entry that, when it fires or when its worker ends, queues the next one.
Source(o) ==
    \/ entry[o] = "delayed" /\ Fits(o)
    \/ entry[o] \in {"waiting", "active", "running"} /\ (Due \/ o > now)
    \/ entry[o] = "adding" /\ Sends(target[o])

Goes ==
    \/ Pending = {}
    \/ \E o \in Time : Source(o)
    \/ sync.pc = "read"
    \/ sync.pc = "add" /\ Sends(sync.target)

\* Somebody will queue the next occurrence.  A call that finds an entry in a
\* worker's hands queues nothing: then the chain goes on by itself.
Chained ==
    Wanted =>
        /\ Goes \/ (req.pc # "idle" /\ Due) \/ ~up \/ sync.pc \in {"list", "remove"}
        /\ req.pc = "remove" /\ Refused(req.found) => Goes
        /\ sync.pc = "remove" /\ Refused(sync.found) => Goes \/ req.pc # "idle"

\* What is to come has its time, and so has what keeps the chain.
LEMMA PendingTimes ==
  ASSUME TypeOK
  PROVE  Pending \subseteq 1 .. MaxTime /\ \A o : Fits(o) => o \in 1 .. MaxTime /\ o \in Time /\ o # None
<1>1. Occurs[job.schedule] \subseteq 1 .. MaxTime BY CronAssumptions DEF CronConstants, TypeOK
<1>2. now \in 0 .. MaxTime BY DEF TypeOK, Time
<1> QED BY <1>1, <1>2, Times DEF Pending, Fits

\* What is to come depends on the job, the clock and what has fired ahead of it.
LEMMA SameAhead ==
  ASSUME TypeOK, UNCHANGED <<job, now>>,
         \A q \in Time : q > now => (entry'[q] \in Unfired <=> entry[q] \in Unfired)
  PROVE  /\ Due' <=> Due
         /\ Pending' = Pending
         /\ \A t : Fits(t)' <=> Fits(t)
<1>1. Due' <=> Due BY DEF Due
<1>2. Occurs[job.schedule] \subseteq Time BY CronAssumptions, Times DEF CronConstants, TypeOK
<1>3. Pending' = Pending BY <1>2 DEF Pending
<1> QED BY <1>1, <1>3 DEF Fits

\* What keeps each entry of the chain keeps the chain.
LEMMA GoesKept ==
  ASSUME TypeOK, Goes, Pending = {} => Pending' = {},
         \A o \in Time : Source(o) => \E q \in Time : Source(q)',
         \A t \in Time : Sends(t) => Sends(t)',
         sync' = sync \/ sync.pc \notin {"read", "add"}
  PROVE  Goes'
<1>1. Pending = {} => Goes' BY DEF Goes
<1>2. (\E o \in Time : Source(o)) => Goes' BY DEF Goes
<1>3. sync.pc = "read" => Goes' BY DEF Goes
<1>4. sync.pc = "add" /\ Sends(sync.target) => Goes'
  <2>1. Sends(sync.target) => sync.target \in Time BY PendingTimes DEF Sends
  <2> QED BY <2>1 DEF Goes
<1> QED BY <1>1, <1>2, <1>3, <1>4 DEF Goes

\* No step but of the queue and the worker.
LEMMA GoesSame ==
  ASSUME TypeOK, Goes, UNCHANGED <<job, now, entry, target>>, sync' = sync \/ sync.pc \notin {"read", "add"}
  PROVE  Goes'
<1>1. (Due' <=> Due) /\ Pending' = Pending /\ \A t : Fits(t)' <=> Fits(t) BY SameAhead
<1>2. \A t : Sends(t)' <=> Sends(t) BY <1>1 DEF Sends
<1>3. \A o : Source(o)' <=> Source(o) BY <1>1, <1>2 DEF Source
<1> QED BY <1>1, <1>2, <1>3, GoesKept

\* An entry is added: the chain has one more.
LEMMA Added ==
  ASSUME TypeOK, NEW t \in 1 .. None, entry' = Add(t, entry), UNCHANGED <<job, now, target>>
  PROVE  /\ Pending' = Pending /\ (Due' <=> Due)
         /\ \A o \in Time : Source(o) => Source(o)'
         /\ \A q \in Time : Sends(q) => Sends(q)'
         /\ Sends(t) /\ entry[t] # "waiting" => Source(t)'
         /\ Sends(t) /\ Due => Source(t)'
         /\ \A o \in Time : entry'[o] \in Locked <=> entry[o] \in Locked
<1>1. entry \in [Time -> States] BY DEF TypeOK, States
<1>2. \A o \in Time : entry'[o] = IF o = t /\ entry[o] = "none" THEN "delayed" ELSE entry[o]
  BY <1>1, AddFacts
<1>3. (Due' <=> Due) /\ Pending' = Pending /\ \A q : Fits(q)' <=> Fits(q)
  <2>1. \A q \in Time : entry'[q] \in Unfired <=> entry[q] \in Unfired BY <1>2 DEF Unfired
  <2> QED BY <2>1, SameAhead
<1>4. \A q \in Time : Sends(q) => Sends(q)' BY <1>2, <1>3 DEF Sends
<1>5. \A q : Sends(q) => q \in Time BY PendingTimes DEF Sends
<1>6. ASSUME NEW o \in Time, Source(o) PROVE Source(o)'
  <2>1. target'[o] = target[o] OBVIOUS
  <2>2. entry[o] # "none" => entry'[o] = entry[o] BY <1>2
  <2> QED BY <1>3, <1>4, <1>5, <1>6, <2>1, <2>2 DEF Source
<1>7. Sends(t) /\ entry[t] # "waiting" => Source(t)' BY <1>2, <1>3, <1>5 DEF Sends, Source
<1>8. Sends(t) /\ Due => Source(t)' BY <1>2, <1>3, <1>5 DEF Sends, Source
<1>9. \A o \in Time : entry'[o] \in Locked <=> entry[o] \in Locked BY <1>2 DEF Locked
<1> QED BY <1>3, <1>4, <1>6, <1>7, <1>8, <1>9

\* What sends while something has fired early sends to the first to come.
LEMMA SendsOn ==
  ASSUME TypeOK, NEW t \in 1 .. None, Sends(t), entry' = Add(t, entry), UNCHANGED <<job, now, target>>
  PROVE  t \in Time /\ Source(t)'
<1>1. t \in Time BY PendingTimes DEF Sends
<1>2. Due \/ entry[t] # "waiting" BY DEF Sends, Fits, Pending, Unfired
<1> QED BY <1>1, <1>2, Added

LEMMA GoesAdded ==
  ASSUME TypeOK, Goes, NEW t \in 1 .. None, entry' = Add(t, entry), UNCHANGED <<job, now, target>>,
         sync' = sync \/ sync.pc \notin {"read", "add"} \/ (sync.pc = "add" /\ sync.target = t)
  PROVE  Goes'
<1>1. CASE sync.pc = "add" /\ sync.target = t /\ Sends(t)
  <2>1. Source(t)' /\ t \in Time BY <1>1, SendsOn
  <2> QED BY <2>1 DEF Goes
<1>2. CASE sync' = sync \/ sync.pc \notin {"read", "add"} BY <1>2, Added, GoesKept
<1>3. CASE sync.pc = "add" /\ ~Sends(sync.target)
  <2>1. Pending = {} \/ \E o \in Time : Source(o) BY <1>3 DEF Goes
  <2> QED BY <2>1, Added DEF Goes
<1> QED BY <1>1, <1>2, <1>3

\* The first occurrence after a time by which everything to come has fired, and
\* nothing after it, is the first to come.
LEMMA FirstToCome ==
  ASSUME TypeOK, NEW a \in Time, a >= now,
         \A q \in Time : q > a => entry[q] \in Unfired,
         \A q \in Time : q > now /\ q <= a => entry[q] \notin Unfired
  PROVE  /\ NextRun(job.schedule, a) \in 1 .. None /\ NextRun(job.schedule, a) > a
         /\ NextRun(job.schedule, a) = None => Pending = {}
         /\ NextRun(job.schedule, a) # None => Sends(NextRun(job.schedule, a))
<1>1. PICK n : n = NextRun(job.schedule, a) OBVIOUS
<1>2. /\ n \in 1 .. None /\ n > a /\ (n # None => n \in Occurs[job.schedule])
      /\ \A q \in Occurs[job.schedule] : q > a => n <= q
  BY <1>1, NextFacts DEF TypeOK
<1>3. Occurs[job.schedule] \subseteq Time BY CronAssumptions, Times DEF CronConstants, TypeOK
<1>4. Time \subseteq Nat /\ now \in Nat /\ None \in Nat /\ \A o \in Time : o < None BY Times DEF TypeOK
<1>5. \A q \in Pending : q \in Occurs[job.schedule] /\ q > a
  <2>1. SUFFICES ASSUME NEW q \in Pending PROVE q \in Occurs[job.schedule] /\ q > a OBVIOUS
  <2>2. q \in Occurs[job.schedule] /\ q \in Time /\ q > now /\ entry[q] \in Unfired
    BY <1>3, <2>1 DEF Pending
  <2>3. ~(q <= a) BY <2>2
  <2> QED BY <1>4, <2>2, <2>3
<1>6. n = None => Pending = {}
  <2>1. SUFFICES ASSUME n = None, NEW q \in Pending PROVE FALSE OBVIOUS
  <2>2. None <= q /\ q \in Time BY <1>2, <1>3, <1>5, <2>1
  <2> QED BY <1>4, <2>2
<1>7. n # None => Sends(n)
  <2>1. SUFFICES ASSUME n # None PROVE Sends(n) OBVIOUS
  <2>2. n \in Occurs[job.schedule] /\ n \in Time BY <1>2, <1>3, <2>1
  <2>3. n > now /\ entry[n] \in Unfired BY <1>2, <1>4, <2>2
  <2>4. n \in Pending BY <2>2, <2>3 DEF Pending
  <2>5. \A q \in Pending : n <= q BY <1>2, <1>5
  <2> QED BY <2>3, <2>4, <2>5 DEF Sends, Fits, Unfired
<1> QED BY <1>1, <1>2, <1>6, <1>7

\* scheduleCronJob: when nothing has fired early, the occurrence after now is
\* the first to come.
LEMMA AfterNowFirst ==
  ASSUME TypeOK, Due
  PROVE  /\ NextRun(job.schedule, now) \in 1 .. None
         /\ NextRun(job.schedule, now) = None => Pending = {}
         /\ NextRun(job.schedule, now) # None => Sends(NextRun(job.schedule, now))
<1>1. now \in Time /\ now \in Nat /\ Time \subseteq Nat BY Times DEF TypeOK
<1>2. PICK a \in Time : a = now BY <1>1
<1>3. /\ a >= now /\ \A q \in Time : q > a => entry[q] \in Unfired
      /\ \A q \in Time : q > now /\ q <= a => entry[q] \notin Unfired
  BY <1>1, <1>2 DEF Due
<1> QED BY <1>2, <1>3, FirstToCome

\* The next occurrence is queued: the chain goes on.
LEMMA GoesQueued ==
  ASSUME TypeOK, Due, entry' = Add(NextRun(job.schedule, now), entry), UNCHANGED <<job, now, target>>
  PROVE  Goes'
<1>1. PICK a \in 1 .. None : a = NextRun(job.schedule, now) BY AfterNowFirst
<1>2. entry' = Add(a, entry) BY <1>1
<1>3. CASE a = None
  <2>1. Pending = {} BY <1>1, <1>3, AfterNowFirst
  <2> QED BY <1>2, <2>1, Added DEF Goes
<1>4. CASE a # None
  <2>1. Sends(a) BY <1>1, <1>4, AfterNowFirst
  <2>2. a \in Time /\ Source(a)' BY <1>2, <2>1, SendsOn
  <2> QED BY <2>2 DEF Goes
<1> QED BY <1>3, <1>4

\* As time passes nothing is fired early any more, and what keeps the chain
\* still does.
LEMMA GoesOn ==
  ASSUME TypeOK, Timely, Tick
  PROVE  Due' /\ (Goes => Goes')
<1>1. /\ now \in 0 .. MaxTime /\ now < MaxTime /\ now' = now + 1 /\ now' \in Time /\ now \in Nat /\ now' \in Nat
      /\ MaxTime \in Nat /\ Time \subseteq Nat
  BY Times DEF TypeOK, Tick, Time
<1>2. UNCHANGED <<job, entry, target, sync>> BY DEF Tick, queue
<1>3. Due' BY <1>1, <1>2 DEF Due, Timely
<1>4. Pending \subseteq 1 .. MaxTime BY PendingTimes
<1>5. Pending' = {o \in Pending : o # now'}
  <2>1. Occurs[job.schedule] \subseteq Time BY CronAssumptions, Times DEF CronConstants, TypeOK
  <2>2. ASSUME NEW o \in Occurs[job.schedule] PROVE o > now' <=> (o > now /\ o # now')
    <3>1. PICK n \in Nat : n = now BY <1>1
    <3>2. o \in Nat /\ now' = n + 1 BY <1>1, <2>1, <3>1
    <3>3. o > n + 1 <=> (o > n /\ o # n + 1) BY <3>2
    <3> QED BY <3>1, <3>2, <3>3
  <2> QED BY <1>2, <2>2 DEF Pending
<1>6. \A o : Fits(o) => Fits(o)'
  <2>1. SUFFICES ASSUME NEW o, Fits(o) PROVE Fits(o)' OBVIOUS
  <2>2. CASE o \in 1 .. now
    <3>1. o \in 1 .. now' BY <1>1, <2>2
    <3> QED BY <1>3, <3>1 DEF Fits
  <2>3. CASE o = now'
    <3>1. o \in 1 .. now' BY <1>1, <2>3
    <3> QED BY <1>3, <3>1 DEF Fits
  <2>4. CASE o # now' /\ o \in Pending /\ \A q \in Pending : o <= q
    <3>1. o \in Pending' /\ \A q \in Pending' : o <= q BY <1>5, <2>4
    <3> QED BY <3>1 DEF Fits
  <2> QED BY <2>1, <2>2, <2>3, <2>4 DEF Fits
<1>7. \A t : Sends(t) => Sends(t)' BY <1>2, <1>6 DEF Sends
<1>8. \A o : Source(o) => Source(o)' BY <1>2, <1>3, <1>6, <1>7 DEF Source
<1>9. Pending = {} => Pending' = {} BY <1>5
<1> QED BY <1>2, <1>3, <1>7, <1>8, <1>9, GoesKept


----------------------------------------------------------------------------
(* The chain, step by step                                                 *)

\* With a clock ahead and nothing else that goes wrong, no worker starts or is
\* killed, no call is lost, and only a creation is under way.
Plain ==
    /\ up /\ sync = Idle /\ ~owed /\ req.pc \in {"idle", "schedule"}
    /\ ~job.exists => req.pc = "idle" /\ \A o \in Time : entry[o] = "none"

Alone == setting = [faults |-> {"early"}, edits |-> FALSE]

\* Either nothing fires early, or that is all that goes wrong.
Ordered == ("early" \notin setting.faults /\ Due) \/ (Alone /\ Plain)

\* A step keeps the chain.
LEMMA ChainedStep ==
  ASSUME TypeOK, TypeOK', Timely, Ordered, Chained, [Next]_vars
  PROVE  Chained'
<1> SUFFICES ASSUME Wanted'
             PROVE  /\ (Goes \/ (req.pc # "idle" /\ Due) \/ ~up \/ sync.pc \in {"list", "remove"})'
                    /\ (req.pc = "remove" /\ Refused(req.found) => Goes)'
                    /\ (sync.pc = "remove" /\ Refused(sync.found) => Goes \/ req.pc # "idle")'
  BY DEF Chained
<1> DEFINE Main == Goes \/ (req.pc # "idle" /\ Due) \/ ~up \/ sync.pc \in {"list", "remove"}
           Ask == req.pc = "remove" /\ Refused(req.found) => Goes
           Start2 == sync.pc = "remove" /\ Refused(sync.found) => Goes \/ req.pc # "idle"
<1>a. /\ entry \in [Time -> States] /\ req.found \subseteq Time /\ sync.found \subseteq Time
      /\ target \in [Time -> 1 .. None] /\ now \in Time /\ now \in Nat /\ Time \subseteq Nat
  BY Times DEF TypeOK, States
<1>b. entry' \in [Time -> States] /\ req'.found \subseteq Time /\ sync'.found \subseteq Time BY DEF TypeOK, States
<1>c. ASSUME Goes' PROVE Main' /\ Ask' /\ Start2' BY <1>c
<1>d. ASSUME Wanted PROVE Main /\ Ask /\ Start2 BY <1>d DEF Chained
<1>e. ASSUME UNCHANGED <<job, owed>> PROVE Wanted BY <1>e DEF Wanted
<1>f. ASSUME UNCHANGED <<req, sync, up>>, Wanted, Goes => Goes', Due => Due',
             \A o \in Time : entry'[o] \in Locked => entry[o] \in Locked
      PROVE  Main' /\ Ask' /\ Start2'
  <2>1. (Refused(req.found))' => Refused(req.found)
    BY <1>a, <1>f DEF Refused
  <2>2. (Refused(sync.found))' => Refused(sync.found)
    BY <1>a, <1>f DEF Refused
  <2> QED BY <1>d, <1>f, <2>1, <2>2
\* What fired early goes with a chain that goes on.
<1>g. ASSUME ~Due, Wanted PROVE Goes
  <2>1. up /\ sync = At("idle") BY <1>g, IdleFacts DEF Ordered, Plain
  <2> QED BY <1>d, <1>g, <2>1, AtFacts
\* Where something else goes wrong, nothing has fired early.
<1>h. ASSUME req.pc \in {"list", "remove"} \/ sync.pc # "idle" \/ ~up \/ setting.edits PROVE Due /\ Due'
  <2>1. Alone => ~setting.edits BY DEF Alone
  <2>2. Plain => up /\ req.pc \in {"idle", "schedule"} /\ sync.pc = "idle" BY DEF Plain, Idle
  <2>3. ~(Alone /\ Plain) BY <1>h, <2>1, <2>2
  <2> QED BY <2>3, DueStep DEF Ordered
<1>1. CASE UNCHANGED vars
  <2>1. Goes => Goes' BY <1>1, GoesSame DEF vars
  <2>2. Due => Due' BY <1>1 DEF vars, Due
  <2> QED BY <1>1, <1>e, <1>f, <2>1, <2>2 DEF vars
<1>2. ASSUME NEW on \in BOOLEAN, NEW s \in Schedules, Create(on, s) PROVE Main' /\ Ask' /\ Start2'
  <2>1. on BY <1>2 DEF Create, Wanted
  <2>2. req' = At("schedule") BY <1>2, <2>1, IdleFacts DEF Create
  <2>3. Due'
    <3>1. CASE Due BY <1>2, <3>1 DEF Create, queue, Due
    <3>2. CASE Plain
      <4>1. \A o \in Time : entry'[o] = "none" BY <1>2, <3>2 DEF Create, queue, Plain
      <4> QED BY <4>1 DEF Due, Unfired
    <3> QED BY <3>1, <3>2 DEF Ordered
  <2> QED BY <2>2, <2>3, AtFacts
<1>3. ASSUME NEW on \in BOOLEAN, NEW s \in Schedules, Patch(on, s) PROVE Main' /\ Ask' /\ Start2'
  <2>1. req' = At("list") BY <1>3, IdleFacts DEF Patch
  <2>2. Due' BY <1>3, <1>h DEF Patch
  <2> QED BY <2>1, <2>2, AtFacts
<1>4. CASE Delete
  <2>1. ~job'.exists BY <1>4 DEF Delete, TypeOK
  <2> QED BY <2>1 DEF Wanted
<1>5. CASE RunNow
  <2>1. \A o \in Time : o # 0 => entry'[o] = entry[o] BY <1>a, <1>5, Times DEF RunNow
  <2>2. 0 \in Time /\ entry[0] \in {"none", "done"} /\ entry'[0] = "waiting" BY <1>a, <1>5, Times DEF RunNow
  <2>3. UNCHANGED <<job, now, target, req, sync, up, owed>> BY <1>5 DEF RunNow
  <2>4. (Due' <=> Due) /\ Pending' = Pending /\ \A q : Fits(q)' <=> Fits(q)
    <3>1. \A q \in Time : q > now => entry'[q] = entry[q] BY <1>a, <2>1
    <3> QED BY <2>3, <3>1, SameAhead
  <2>5. CASE Due
    <3>1. Source(0)' BY <2>2, <2>4, <2>5 DEF Source
    <3>2. Goes' BY <2>2, <3>1 DEF Goes
    <3> QED BY <1>c, <3>2
  <2>6. CASE ~Due
    <3>1. Goes BY <1>e, <1>g, <2>3, <2>6
    <3>2. \A t \in Time : Sends(t) => Sends(t)' BY <2>1, <2>2, <2>4 DEF Sends
    <3>3. ASSUME NEW q \in Time, Source(q) PROVE Source(q)'
      <4>1. q # 0 BY <2>2, <3>3 DEF Source
      <4>2. Sends(target[q]) => Sends(target[q])'
        <5>1. PICK t : t = target[q] /\ t = target'[q] BY <2>3
        <5>2. Sends(t) => t \in Time BY PendingTimes DEF Sends
        <5> QED BY <3>2, <5>1, <5>2
      <4> QED BY <2>1, <2>3, <2>4, <3>3, <4>1, <4>2 DEF Source
    <3>4. Goes' BY <2>3, <2>4, <3>1, <3>2, <3>3, GoesKept
    <3> QED BY <1>c, <3>4
  <2> QED BY <2>5, <2>6
<1>6. CASE List
  <2>1. req'.pc = "remove" /\ req'.found = {o \in Time : entry[o] = "delayed"} /\ entry' = entry
    BY <1>6 DEF List, TypeOK, queue
  <2>2. ~(Refused(req.found))' BY <2>1 DEF Refused, Locked
  <2>3. Due' BY <1>6, <1>h DEF List
  <2> QED BY <2>1, <2>2, <2>3
<1>7. CASE Remove
  <2>1. UNCHANGED <<job, now, target, sync, up>> /\ req.pc = "remove" BY <1>7 DEF Remove
  <2>2. job.exists /\ job.enabled /\ ~owed /\ (Refused(req.found) => entry' = entry)
    BY <1>7, <2>1 DEF Remove, Wanted
  <2>3. CASE ~Refused(req.found)
    <3>1. req' = At("schedule") BY <1>7, <2>2, <2>3, IdleFacts DEF Remove
    <3>2. Due' BY <1>h, <2>1
    <3> QED BY <3>1, <3>2, AtFacts
  <2>4. CASE Refused(req.found)
    <3>1. Goes BY <1>d, <2>1, <2>2, <2>4 DEF Wanted
    <3>2. Goes' BY <2>1, <2>2, <2>4, <3>1, GoesSame
    <3> QED BY <1>c, <3>2
  <2> QED BY <2>3, <2>4
<1>8. CASE Schedule
  <2>1. entry' = Add(NextRun(job.schedule, now), entry) /\ UNCHANGED <<job, now, target, sync>>
    BY <1>8 DEF Schedule, Wanted
  <2>2. CASE Due BY <1>c, <2>1, <2>2, GoesQueued
  <2>3. CASE ~Due
    <3>1. Wanted BY <2>1, <2>3 DEF Ordered, Plain, Wanted
    <3>2. PICK t \in 1 .. None : t = NextRun(job.schedule, now) BY <1>a, NextFacts DEF TypeOK
    <3>3. Goes' BY <1>g, <2>1, <2>3, <3>1, <3>2, GoesAdded
    <3> QED BY <1>c, <3>3
  <2> QED BY <2>2, <2>3
<1>9. CASE KillServer BY <1>9 DEF KillServer, Wanted
\* What fires or goes on by itself, or is not what keeps the chain.
<1>i. ASSUME NEW o \in Time, entry[o] \in {"delayed", "waiting", "active"},
             entry'[o] \in {"waiting", "active", "running"},
             \A q \in Time : q # o => entry'[q] = entry[q],
             UNCHANGED <<job, now, target, sync, req, up, owed>>
      PROVE  Main' /\ Ask' /\ Start2'
  <2>1. CASE o > now \/ Due
    <3>a. o > now \/ Due' BY <1>i, <2>1 DEF Due
    <3>1. Source(o)' BY <1>i, <3>a DEF Source
    <3>2. Goes' BY <3>1 DEF Goes
    <3> QED BY <1>c, <3>2
  <2>2. CASE ~(o > now) /\ ~Due
    <3>1. (Due' <=> Due) /\ Pending' = Pending /\ \A q : Fits(q)' <=> Fits(q)
      <4>1. \A q \in Time : q > now => entry'[q] = entry[q] BY <1>i, <2>2
      <4> QED BY <1>i, <4>1, SameAhead
    <3>2. ~Fits(o) BY <2>2 DEF Fits, Pending
    <3>3. Goes BY <1>e, <1>g, <1>i, <2>2
    <3>4. \A t \in Time : Sends(t) => Sends(t)' BY <1>i, <3>1, <3>2 DEF Sends
    <3>5. ASSUME NEW q \in Time, Source(q) PROVE Source(q)'
      <4>1. q # o BY <1>i, <2>2, <3>2, <3>5 DEF Source
      <4>2. Sends(target[q]) => Sends(target[q])'
        <5>1. PICK t : t = target[q] /\ t = target'[q] BY <1>i
        <5>2. Sends(t) => t \in Time BY PendingTimes DEF Sends
        <5> QED BY <3>4, <5>1, <5>2
      <4> QED BY <1>i, <3>1, <3>5, <4>1, <4>2 DEF Source
    <3>6. Goes' BY <1>i, <3>1, <3>3, <3>4, <3>5, GoesKept
    <3> QED BY <1>c, <3>6
  <2> QED BY <2>1, <2>2

<1>10. ASSUME NEW o \in Time, Promote(o) \/ Take(o) \/ Run(o) PROVE Main' /\ Ask' /\ Start2'
  <2>1. \A q \in Time : q # o => entry'[q] = entry[q] BY <1>a, <1>10 DEF Promote, Take, Run
  <2>2. entry[o] \in {"delayed", "waiting", "active"} /\ entry'[o] \in {"waiting", "active", "running"}
    BY <1>a, <1>10 DEF Promote, Take, Run
  <2>3. UNCHANGED <<job, now, target, sync, req, up, owed>> BY <1>10 DEF Promote, Take, Run
  <2> QED BY <1>i, <2>1, <2>2, <2>3
<1>11. ASSUME NEW o \in Time, Read(o) PROVE Main' /\ Ask' /\ Start2'
  <2>1. /\ UNCHANGED <<job, now, owed, sync, req, up>> /\ entry' = [entry EXCEPT ![o] = "adding"]
        /\ entry[o] \in {"active", "running"}
    BY <1>11 DEF Read
  <2>2. entry'[o] = "adding" /\ \A q \in Time : q # o => entry'[q] = entry[q] BY <1>a, <2>1
  <2>3. target' = [target EXCEPT ![o] = NextRun(job.schedule, After(o))]
    BY <1>11, <2>1 DEF Read, Wanted
  <2>4. (Due' <=> Due) /\ Pending' = Pending /\ \A q : Fits(q)' <=> Fits(q)
    <3>1. \A q \in Time : entry'[q] \in Unfired <=> entry[q] \in Unfired BY <2>1, <2>2 DEF Unfired
    <3> QED BY <2>1, <3>1, SameAhead
  <2>5. \A t \in Time : Sends(t) => t # o /\ Sends(t)' BY <2>1, <2>2, <2>4 DEF Sends
  <2>6. CASE o > now \/ Due
    <3>1. /\ After(o) \in Time /\ After(o) >= now
          /\ \A q \in Time : q > After(o) => entry[q] \in Unfired
          /\ \A q \in Time : q > now /\ q <= After(o) => entry[q] \notin Unfired
      <4>1. o \in Nat BY <1>a
      <4>2. CASE o > now
        <5>1. entry[o] \notin Unfired BY <2>1 DEF Unfired
        <5>2. o = now + 1 BY <1>a, <4>1, <4>2, <5>1 DEF Timely
        <5>3. After(o) = o BY <1>a, <4>1, <4>2 DEF After, Max2
        <5>4. \A q \in Time : q > now /\ q <= o => q = o BY <1>a, <4>1, <5>2
        <5> QED BY <1>a, <4>1, <4>2, <5>1, <5>2, <5>3, <5>4 DEF Timely
      <4>3. CASE ~(o > now)
        <5>1. After(o) = now BY <1>a, <4>1, <4>3 DEF After, Max2
        <5>2. Due BY <2>6, <4>3
        <5> QED BY <1>a, <5>1, <5>2 DEF Due
      <4> QED BY <4>2, <4>3
    <3>2. PICK a \in Time : a = After(o) BY <3>1
    <3>3. PICK n : n = NextRun(job.schedule, a) OBVIOUS
    <3>4. (n = None => Pending = {}) /\ (n # None => Sends(n)) BY <3>1, <3>2, <3>3, FirstToCome
    <3>5. target'[o] = n BY <1>a, <2>3, <3>2, <3>3
    <3>6. CASE n = None BY <1>c, <2>4, <3>4, <3>6 DEF Goes
    <3>7. CASE n # None
      <4>1. n \in Time /\ Sends(n) BY <3>4, <3>7, PendingTimes DEF Sends
      <4>2. Sends(n)' BY <2>5, <4>1
      <4>3. Source(o)' BY <2>2, <3>5, <4>2 DEF Source
      <4>4. Goes' BY <4>3 DEF Goes
      <4> QED BY <1>c, <4>4
    <3> QED BY <3>6, <3>7
  <2>7. CASE ~(o > now) /\ ~Due
    <3>1. Goes BY <1>e, <1>g, <2>1, <2>7
    <3>2. ASSUME NEW q \in Time, Source(q) PROVE Source(q)'
      <4>1. q # o BY <2>1, <2>7, <3>2 DEF Source
      <4>2. target'[q] = target[q] BY <1>a, <2>3, <4>1
      <4>3. Sends(target[q]) => Sends(target[q])'
        <5>1. PICK t : t = target[q] /\ t = target'[q] BY <4>2
        <5>2. Sends(t) => t \in Time BY PendingTimes DEF Sends
        <5> QED BY <2>5, <5>1, <5>2
      <4> QED BY <2>1, <2>2, <2>4, <3>2, <4>1, <4>2, <4>3 DEF Source
    <3>3. Goes' BY <2>1, <2>4, <2>5, <3>1, <3>2, GoesKept
    <3> QED BY <1>c, <3>3
  <2> QED BY <2>6, <2>7
<1>12. ASSUME NEW o \in Time, Finish(o) PROVE Main' /\ Ask' /\ Start2'
  <2>1. entry[o] = "adding" /\ UNCHANGED <<job, now, sync, req, up>> /\ target' = [target EXCEPT ![o] = None]
    BY <1>12 DEF Finish
  <2>2. entry' = [Add(target[o], entry) EXCEPT ![o] = "done"] /\ owed' = owed
    BY <1>12 DEF Finish, Wanted
  <2>3. target[o] \in 1 .. None BY <1>a
  <2>4. /\ Add(target[o], entry) \in [Time -> States]
        /\ \A q \in Time : Add(target[o], entry)[q] =
             IF q = target[o] /\ entry[q] = "none" THEN "delayed" ELSE entry[q]
    BY <1>a, <2>3, AddFacts
  <2>5. /\ entry'[o] = "done"
        /\ \A q \in Time : q # o => entry'[q] = IF q = target[o] /\ entry[q] = "none" THEN "delayed" ELSE entry[q]
    BY <2>2, <2>4
  <2>6. \A q \in Time : entry'[q] \in Locked => entry[q] \in Locked BY <2>5 DEF Locked
  <2>7. (Due' <=> Due) /\ Pending' = Pending /\ \A q : Fits(q)' <=> Fits(q)
    <3>1. \A q \in Time : entry'[q] \in Unfired <=> entry[q] \in Unfired BY <2>1, <2>5 DEF Unfired
    <3> QED BY <2>1, <3>1, SameAhead
  <2>8. \A t \in Time : Sends(t) => Sends(t)' BY <2>1, <2>5, <2>7 DEF Sends
  <2>9. ASSUME NEW q \in Time, Source(q) PROVE \E r \in Time : Source(r)'
    <3>1. CASE q = o
      <4>1. Sends(target[o]) BY <2>1, <2>9, <3>1 DEF Source
      <4>2. PICK t : t = target[o] OBVIOUS
      <4>3. Fits(t) /\ entry[t] \in {"none", "delayed", "waiting"} BY <4>1, <4>2 DEF Sends
      <4>4. t \in Time /\ t # o BY <2>1, <4>3, PendingTimes
      <4>5. Fits(t)' BY <2>7, <4>3
      <4>6. entry'[t] \in {"delayed", "waiting"} BY <2>5, <4>2, <4>3, <4>4
      <4>7. entry[t] = "waiting" => Due BY <4>3 DEF Fits, Pending, Unfired
      <4>8. entry'[t] = "waiting" => Due' BY <2>5, <2>7, <4>2, <4>4, <4>7
      <4>9. Source(t)' BY <4>5, <4>6, <4>8 DEF Source
      <4> QED BY <4>4, <4>9
    <3>2. CASE q # o
      <4>1. target'[q] = target[q] BY <1>a, <2>1, <3>2
      <4>2. entry[q] # "none" => entry'[q] = entry[q] BY <2>5, <3>2
      <4>3. Sends(target[q]) => Sends(target[q])'
        <5>1. PICK t : t = target[q] OBVIOUS
        <5>2. t = target'[q] BY <4>1, <5>1
        <5>3. Sends(t) => t \in Time BY PendingTimes DEF Sends
        <5>4. Sends(t) => Sends(t)' BY <2>8, <5>3
        <5> QED BY <5>1, <5>2, <5>4
      <4>4. Source(q)' BY <2>1, <2>7, <2>9, <4>1, <4>2, <4>3 DEF Source
      <4> QED BY <4>4
    <3> QED BY <3>1, <3>2
  <2>10. Goes => Goes' BY <2>1, <2>7, <2>8, <2>9, GoesKept
  <2> QED BY <1>e, <1>f, <2>1, <2>2, <2>6, <2>7, <2>10
<1>13. ASSUME NEW o \in Time, Unstall(o) PROVE Main' /\ Ask' /\ Start2'
  <2>1. /\ entry[o] = "stalled" /\ UNCHANGED <<job, now, target, req, sync, up, owed>>
        /\ entry'[o] \in {"waiting", "done"} /\ \A q \in Time : q # o => entry'[q] = entry[q]
    BY <1>a, <1>13 DEF Unstall
  <2>2. (Due' <=> Due) /\ Pending' = Pending /\ \A q : Fits(q)' <=> Fits(q)
    <3>1. \A q \in Time : entry'[q] \in Unfired <=> entry[q] \in Unfired BY <2>1 DEF Unfired
    <3> QED BY <2>1, <3>1, SameAhead
  <2>3. \A t \in Time : Sends(t) => Sends(t)' BY <2>1, <2>2 DEF Sends
  <2>4. ASSUME NEW q \in Time, Source(q) PROVE Source(q)'
    <3>1. q # o BY <2>1, <2>4 DEF Source
    <3>2. Sends(target[q]) => Sends(target[q])'
      <4>1. PICK t : t = target[q] /\ t = target'[q] BY <2>1
      <4>2. Sends(t) => t \in Time BY PendingTimes DEF Sends
      <4> QED BY <2>3, <4>1, <4>2
    <3> QED BY <2>1, <2>2, <2>4, <3>1, <3>2 DEF Source
  <2>5. Goes => Goes' BY <2>1, <2>2, <2>3, <2>4, GoesKept
  <2>6. \A q \in Time : entry'[q] \in Locked => entry[q] \in Locked BY <2>1 DEF Locked
  <2> QED BY <1>e, <1>f, <2>1, <2>2, <2>5, <2>6
<1>14. CASE KillWorker
  <2>1. \A o \in Time : entry'[o] \notin Locked BY <1>a, <1>14 DEF KillWorker, Locked
  <2>2. ~(Refused(req.found))' /\ ~(Refused(sync.found))' BY <1>b, <2>1 DEF Refused
  <2>3. ~up' BY <1>14 DEF KillWorker
  <2> QED BY <2>2, <2>3
<1>15. CASE Start
  <2>1. UNCHANGED <<job, entry, owed, req>> /\ ~up BY <1>15 DEF Start, queue
  <2>2. \A o \in Time : entry'[o] \notin Locked BY <2>1 DEF TypeOK
  <2>3. ~(Refused(req.found))' /\ ~(Refused(sync.found))' BY <1>b, <2>2 DEF Refused
  <2>4. sync' = At("list") BY <1>15, <2>1, IdleFacts DEF Start, Wanted
  <2> QED BY <2>3, <2>4, AtFacts
<1>16. CASE Flush BY <1>16 DEF Flush, Wanted
<1>17. CASE SyncList
  <2>1. /\ sync'.pc = "remove" /\ sync'.found = {o \in Time : entry[o] = "delayed"} /\ sync.pc = "list"
        /\ UNCHANGED <<job, now, entry, target, req, up, owed>>
    BY <1>17 DEF SyncList, TypeOK, queue
  <2>2. ~(Refused(sync.found))' BY <2>1 DEF Refused, Locked
  <2>3. Goes => Goes' BY <2>1, GoesSame
  <2>4. (Refused(req.found))' => Refused(req.found) BY <2>1 DEF Refused
  <2>5. Ask BY <1>d, <1>e, <2>1
  <2> QED BY <2>1, <2>2, <2>3, <2>4, <2>5
<1>18. CASE SyncRemove
  <2>1. UNCHANGED <<job, now, target, req, up>> /\ sync.pc = "remove" BY <1>18 DEF SyncRemove
  <2>2. ~owed /\ (Refused(sync.found) => entry' = entry) /\ Wanted
    BY <1>18, <2>1 DEF SyncRemove, Wanted
  <2>3. CASE ~Refused(sync.found)
    <3>1. sync' = At("read") BY <1>18, <2>3, IdleFacts DEF SyncRemove
    <3>2. Goes' BY <3>1, AtFacts DEF Goes
    <3> QED BY <1>c, <3>2
  <2>4. CASE Refused(sync.found)
    <3>1. sync' = At("idle") BY <1>18, <2>4, IdleFacts DEF SyncRemove
    <3>2. Goes => Goes' BY <2>1, <2>2, <2>4, GoesSame
    <3>3. (Refused(req.found))' => Refused(req.found) BY <2>1, <2>2, <2>4 DEF Refused
    <3>4. Ask /\ Start2 BY <1>d, <2>2
    <3>5. Due' BY <1>h, <2>1
    <3> QED BY <2>1, <2>4, <3>1, <3>2, <3>3, <3>4, <3>5, AtFacts
  <2> QED BY <2>3, <2>4
<1>19. CASE SyncRead
  <2>1. UNCHANGED <<job, now, entry, target>> /\ sync.pc = "read" BY <1>19 DEF SyncRead, queue
  <2>2. sync' = [pc |-> "add", found |-> {}, target |-> NextRun(job.schedule, now)]
    BY <1>19, <2>1, IdleFacts DEF SyncRead, Wanted
  <2>3. Due BY <1>h, <2>1
  <2>4. Pending' = Pending /\ \A q : Fits(q)' <=> Fits(q) BY <2>1, SameAhead
  <2>5. PICK n : n = NextRun(job.schedule, now) OBVIOUS
  <2>6. (n = None => Pending = {}) /\ (n # None => Sends(n)) BY <2>3, <2>5, AfterNowFirst
  <2>7. Sends(n) => Sends(n)' BY <2>1, <2>4 DEF Sends
  <2>8. sync'.pc = "add" /\ sync'.target = n BY <2>2, <2>5
  <2>9. Goes' BY <2>4, <2>6, <2>7, <2>8 DEF Goes
  <2> QED BY <1>c, <2>9
<1>20. CASE SyncAdd
  <2>1. UNCHANGED <<job, now, target, req, up>> /\ sync.pc = "add" /\ sync' = At("idle")
    BY <1>20, IdleFacts DEF SyncAdd
  <2>2. entry' = Add(sync.target, entry) /\ owed' = owed BY <1>20 DEF SyncAdd, Wanted
  <2>3. PICK t \in 1 .. None : t = sync.target BY DEF TypeOK
  <2>4. entry' = Add(t, entry) BY <2>2, <2>3
  <2>5. Goes => Goes' BY <2>1, <2>3, <2>4, GoesAdded
  <2>6. (\A o \in Time : entry'[o] \in Locked => entry[o] \in Locked) /\ (Due => Due') BY <2>1, <2>4, Added
  <2>7. (Refused(req.found))' => Refused(req.found) BY <1>a, <2>1, <2>6 DEF Refused
  <2>8. Main /\ Ask BY <1>d, <1>e, <2>1, <2>2
  <2> QED BY <2>1, <2>5, <2>6, <2>7, <2>8, AtFacts
<1>21. CASE Tick
  <2>1. UNCHANGED <<job, entry, req, sync, up, owed>> BY <1>21 DEF Tick, queue
  <2>2. Due' /\ (Goes => Goes') BY <1>21, GoesOn
  <2> QED BY <1>e, <1>f, <2>1, <2>2
<1> QED BY <1>1, <1>2, <1>3, <1>4, <1>5, <1>6, <1>7, <1>8, <1>9, <1>10, <1>11, <1>12, <1>13, <1>14, <1>15,
          <1>16, <1>17, <1>18, <1>19, <1>20, <1>21 DEF Next


\* With a clock ahead and nothing else, nothing else goes on.
LEMMA PlainStep == TypeOK /\ Alone /\ Plain /\ [Next]_vars => Plain'
<1> SUFFICES ASSUME TypeOK, Alone, Plain, [Next]_vars PROVE Plain' OBVIOUS
<1>a. \A kind : Fault(kind) => kind = "early" BY DEF Alone, Fault
<1>b. ~setting.edits BY DEF Alone
<1>c. /\ up /\ sync.pc = "idle" /\ sync = Idle /\ ~owed /\ req.pc \in {"idle", "schedule"}
      /\ (~job.exists => req.pc = "idle" /\ \A o \in Time : entry[o] = "none")
  BY DEF Plain, Idle
<1>d. entry \in [Time -> States] /\ 0 \in Time BY Times DEF TypeOK, States
<1>e. ASSUME UNCHANGED <<up, sync, job>>, ~owed', req'.pc = "idle" \/ req' = req, job.exists PROVE Plain'
  BY <1>c, <1>e DEF Plain
<1>1. CASE UNCHANGED vars BY <1>1 DEF vars, Plain
<1>2. ASSUME NEW on \in BOOLEAN, NEW s \in Schedules, Create(on, s) PROVE Plain'
  <2>1. UNCHANGED <<up, sync, owed>> BY <1>2 DEF Create
  <2>2. job'.exists BY <1>2 DEF Create
  <2>3. req'.pc \in {"idle", "schedule"}
    <3>1. CASE on
      <4>1. req' = At("schedule") BY <1>2, <3>1, IdleFacts DEF Create
      <4> QED BY <4>1, AtFacts
    <3>2. CASE ~on
      <4>1. req' = At("idle") BY <1>2, <3>2, IdleFacts DEF Create
      <4> QED BY <4>1, AtFacts
    <3> QED BY <3>1, <3>2
  <2> QED BY <1>c, <2>1, <2>2, <2>3 DEF Plain
<1>3. ASSUME NEW on \in BOOLEAN, NEW s \in Schedules, Patch(on, s) PROVE Plain'
  BY <1>3, <1>b DEF Patch
<1>4. CASE Delete BY <1>4, <1>b DEF Delete
<1>5. CASE List \/ Remove BY <1>5, <1>c DEF List, Remove
<1>6. CASE KillServer \/ KillWorker \/ Flush BY <1>6, <1>a, <1>d DEF KillServer, KillWorker, Flush
<1>7. CASE Start BY <1>7, <1>c DEF Start
<1>8. CASE SyncList \/ SyncRemove \/ SyncRead \/ SyncAdd
  BY <1>8, <1>c DEF SyncList, SyncRemove, SyncRead, SyncAdd
<1>9. CASE RunNow BY <1>9, <1>c, <1>e DEF RunNow
<1>10. CASE Schedule
  <2>1. UNCHANGED <<up, sync, job>> /\ req' = At("idle") /\ ~owed'
    BY <1>10, <1>a, IdleFacts DEF Schedule
  <2>2. job.exists BY <1>10, <1>c DEF Schedule
  <2> QED BY <1>e, <2>1, <2>2, AtFacts
<1>11. ASSUME NEW o \in Time, Promote(o) \/ Take(o) \/ Run(o) \/ Read(o) \/ Unstall(o) PROVE Plain'
  <2>1. UNCHANGED <<up, sync, job, owed, req>> BY <1>11 DEF Promote, Take, Run, Read, Unstall
  <2>2. entry[o] # "none" BY <1>11 DEF Promote, Take, Run, Read, Unstall
  <2> QED BY <1>c, <1>e, <2>1, <2>2
<1>12. ASSUME NEW o \in Time, Finish(o) PROVE Plain'
  <2>1. UNCHANGED <<up, sync, job, req>> /\ ~owed' BY <1>12, <1>a, <1>c DEF Finish
  <2>2. entry[o] # "none" BY <1>12 DEF Finish
  <2> QED BY <1>c, <1>e, <2>1, <2>2
<1>13. CASE Tick
  <2>1. UNCHANGED <<up, sync, job, owed, req, entry>> BY <1>13 DEF Tick, queue
  <2> QED BY <1>c, <2>1 DEF Plain
<1> QED BY <1>1, <1>2, <1>3, <1>4, <1>5, <1>6, <1>7, <1>8, <1>9, <1>10, <1>11, <1>12, <1>13 DEF Next

\* The setting never changes.
LEMMA SettingKept == [Next]_vars => setting' = setting
BY DEF Next, vars, Create, Patch, Delete, RunNow, List, Remove, Schedule, KillServer, Promote, Take, Run, Read,
       Finish, Unstall, KillWorker, Start, Flush, SyncList, SyncRemove, SyncRead, SyncAdd, Tick

\* What every step keeps.
ChainInv == TypeOK /\ Timely /\ (Punctual => Ordered /\ Chained)

LEMMA ChainInit == Init => ChainInv
<1> SUFFICES ASSUME Init PROVE ChainInv OBVIOUS
<1>1. TypeOK BY TypeInit
<1>2. \A o \in Time : entry[o] = "none" BY DEF Init
<1>3. Timely /\ Due BY <1>2 DEF Timely, Due, Unfired
<1>4. Plain
  <2>1. up /\ sync = Idle /\ ~owed /\ ~job.exists BY DEF Init
  <2>2. req = At("idle") BY IdleFacts DEF Init
  <2> QED BY <1>2, <2>1, <2>2, AtFacts DEF Plain
<1>5. Punctual => Ordered BY <1>3, <1>4 DEF Punctual, Ordered, Alone
<1>6. ~Wanted BY DEF Init, Wanted
<1> QED BY <1>1, <1>3, <1>5, <1>6 DEF ChainInv, Chained

LEMMA ChainStep == ChainInv /\ [Next]_vars => ChainInv'
<1> SUFFICES ASSUME ChainInv, [Next]_vars PROVE ChainInv' OBVIOUS
<1>1. TypeOK /\ TypeOK' /\ Timely /\ Timely' BY TypeStep, TimelyStep DEF ChainInv
<1>2. setting' = setting BY SettingKept
<1>3. ASSUME Punctual' PROVE Ordered' /\ Chained'
  <2>1. Punctual BY <1>2, <1>3 DEF Punctual
  <2>2. Ordered /\ Chained BY <2>1 DEF ChainInv
  <2>3. Chained' BY <1>1, <2>2, ChainedStep
  <2>4. Ordered' BY <1>1, <1>2, <2>2, DueStep, PlainStep DEF Ordered, Alone
  <2> QED BY <2>3, <2>4
<1> QED BY <1>1, <1>3 DEF ChainInv

\* When all is quiet, the chain is an entry of the queue.
LEMMA ChainQueued == ChainInv => NextQueued
<1> DEFINE ahead == {o \in Occurs[job.schedule] : o > now /\ entry[o] # "done"}
<1> SUFFICES ASSUME ChainInv, Punctual, Quiet, job.exists, job.enabled, ~owed, ahead # {}
             PROVE  \E o \in (1 .. now) \union {o \in ahead : \A q \in ahead : o <= q} : entry[o] = "delayed"
  BY DEF NextQueued
<1>1. \A o \in Time : entry[o] \in {"none", "delayed", "done"} BY DEF Quiet
<1>2. TypeOK /\ Chained BY DEF ChainInv
<1>3. ahead = Pending
  <2>1. Occurs[job.schedule] \subseteq Time BY <1>2, CronAssumptions, Times DEF CronConstants, TypeOK
  <2> QED BY <1>1, <2>1 DEF Pending, Unfired
<1>5. Goes BY <1>2 DEF Chained, Wanted, Quiet
<1>6. PICK o \in Time : Source(o) BY <1>3, <1>5 DEF Goes, Quiet
<1>7. entry[o] = "delayed" /\ Fits(o) BY <1>1, <1>6 DEF Source
<1>8. o \in 1 .. now \/ (o \in ahead /\ \A q \in ahead : o <= q) BY <1>3, <1>7 DEF Fits
<1> QED BY <1>7, <1>8

\* worker/index.ts "queue the next one so the schedule keeps recurring":
\* whatever edits, runs, kills and re-queueings meet, when all is quiet an
\* enabled job has its next occurrence queued, unless the call was lost.
THEOREM RecursForever == Spec => []NextQueued
<1>1. Init => ChainInv BY ChainInit
<1>2. ChainInv /\ [Next]_vars => ChainInv' BY ChainStep
<1>3. ChainInv => NextQueued BY ChainQueued
<1> QED BY <1>1, <1>2, <1>3, PTL DEF Spec

=============================================================================
