------------------------------ MODULE CronRuns ------------------------------
(***************************************************************************)
(* One cron job of apps/server: its row in the database, its occurrences   *)
(* in the Redis queue, the requests that edit it, the worker process that  *)
(* runs what is due and queues the next (worker/index.ts, scheduler.ts,    *)
(* processors/cron.ts, queues.ts, api/routes/cron-jobs.ts), and the        *)
(* re-queueing when a worker starts.  The server and the worker are        *)
(* processes of their own (index.ts:40) with a connection each, so a       *)
(* worker's call meets a request's between any two of its calls; requests  *)
(* share one connection, on which each call of a request precedes the same *)
(* call of a later one, so they go one after another.                      *)
(*                                                                         *)
(* Left out: the run rows and the times shown, the command's outcome, who  *)
(* may edit or run the job, retries after a failure of the database, and   *)
(* the run in the server's own process when the queue refuses a manual one. *)
(***************************************************************************)
EXTENDS Integers, FiniteSets

CONSTANTS Schedules,    \* the schedules a job may have
          Occurs,       \* their times: [Schedules -> SUBSET (1 .. MaxTime)]
          MaxTime,      \* bound on the clock
          MaxEdits,     \* bound on edits, deletions and manual runs
          MaxFaults,    \* bound on kills, refused calls and flushes
          Settings      \* which faults may strike, whether jobs are edited

CronConstants ==
    /\ MaxTime \in Nat \ {0} /\ MaxEdits \in Nat /\ MaxFaults \in Nat /\ Schedules # {}
    /\ Occurs \in [Schedules -> SUBSET (1 .. MaxTime)]
    /\ Settings \subseteq [faults : SUBSET {"crash", "redis", "flush", "early"}, edits : BOOLEAN]
ASSUME CronAssumptions == CronConstants

VARIABLES setting,  \* what stays fixed over a behaviour
          now,      \* the clock
          job,      \* the row of cron_jobs
          entry,    \* the queue: the entry of each occurrence, 0 for a manual run
          target,   \* the occurrence a worker that handled an entry is about to add
          stalled,  \* the entries a worker was killed over once
          req,      \* the request at work in the server
          sync,     \* syncCronSchedules in the worker
          up,       \* a worker runs
          ran,      \* how often the command was started for each occurrence
          owed,     \* the call that was to queue the next occurrence was lost, or
                    \* not made after a removal that was refused in part
          forgot,   \* occurrences that ran and whose ids the queue has lost
          edits, faults   \* how many there have been

vars == <<setting, now, job, entry, target, stalled, req, sync, up, ran, owed, forgot, edits, faults>>
queue == <<entry, target, stalled, forgot>>

Time == 0 .. MaxTime
None == MaxTime + 1     \* there is no next occurrence
Idle == [pc |-> "idle", found |-> {}, target |-> None]
Locked == {"active", "running", "adding"}   \* a worker holds the entry

TypeOK ==
    /\ setting \in Settings /\ now \in Time /\ up \in BOOLEAN /\ owed \in BOOLEAN
    /\ job \in [exists : BOOLEAN, enabled : BOOLEAN, schedule : Schedules]
    /\ entry \in [Time -> {"none", "delayed", "waiting", "done", "stalled"} \union Locked]
    /\ target \in [Time -> 1 .. None] /\ stalled \subseteq Time /\ forgot \subseteq Time
    /\ req \in [pc : {"idle", "list", "remove", "schedule"}, found : SUBSET Time, target : {None}]
    /\ sync \in [pc : {"idle", "list", "remove", "read", "add"}, found : SUBSET Time, target : 1 .. None]
    /\ ran \in [Time -> Nat] /\ edits \in 0 .. MaxEdits /\ faults \in 0 .. MaxFaults
    /\ \A o \in Time : entry[o] \in Locked => up
    /\ \A o \in Time : target[o] # None => entry[o] = "adding" /\ target[o] > o
    /\ \A x \in {req, sync} : x.found # {} => x.pc = "remove"

Init ==
    /\ setting \in Settings /\ now = 0
    /\ job = [exists |-> FALSE, enabled |-> FALSE, schedule |-> CHOOSE s \in Schedules : TRUE]
    /\ entry = [o \in Time |-> "none"] /\ target = [o \in Time |-> None] /\ stalled = {} /\ forgot = {}
    /\ req = Idle /\ sync = Idle /\ up = TRUE
    /\ ran = [o \in Time |-> 0] /\ owed = FALSE /\ edits = 0 /\ faults = 0

Max2(a, b) == IF a > b THEN a ELSE b

\* getNextRun: the first time of the schedule after a given one.
NextRun(s, after) ==
    LET later == {o \in Occurs[s] : o > after}
    IN IF later = {} THEN None ELSE CHOOSE o \in later : \A q \in later : o <= q

\* Mutant: the next occurrence is looked for from now, also when one fired early.
AfterNow(o) == now

\* processCronQueueJob: the next run is after the occurrence and after now.
After(o) == Max2(now, o)

\* Mutant: an add replaces the entry that has its id.
AddOver(o, e) == IF o = None THEN e ELSE [e EXCEPT ![o] = "delayed"]

\* queue.add: an id the queue has, finished or not, makes it a no-op.
Add(o, e) == IF o # None /\ e[o] = "none" THEN [e EXCEPT ![o] = "delayed"] ELSE e

\* unscheduleCronJob's second half: what was listed is removed wherever it is
\* now, except an entry in a worker's hands, which refuses.
Refused(found) == \E o \in found : entry[o] \in Locked
Without(found) == [o \in Time |-> IF o \in found /\ entry[o] \notin Locked THEN "none" ELSE entry[o]]

\* What ran since it was listed is removed as well, and its id with it, also
\* when the worker that ran it was killed.
Forget(found) == forgot' = forgot \union {o \in found : entry[o] \in {"done", "stalled"}}

Fault(kind) ==
    /\ kind \in setting.faults /\ faults < MaxFaults /\ faults' = faults + 1

NoFault == UNCHANGED faults

----------------------------------------------------------------------------
(* Requests to the server.                                                 *)

Edit == req.pc = "idle" /\ edits < MaxEdits /\ edits' = edits + 1

Create(on, s) ==
    /\ req.pc = "idle" /\ ~job.exists /\ edits = 0
    /\ job' = [exists |-> TRUE, enabled |-> on, schedule |-> s]
    /\ req' = IF on THEN [Idle EXCEPT !.pc = "schedule"] ELSE Idle
    /\ UNCHANGED <<setting, now, queue, sync, up, ran, owed, edits, faults>>

Patch(on, s) ==
    /\ setting.edits /\ job.exists /\ Edit
    /\ <<on, s>> # <<job.enabled, job.schedule>>
    /\ job' = [job EXCEPT !.enabled = on, !.schedule = s]
    /\ req' = [Idle EXCEPT !.pc = "list"]
    /\ UNCHANGED <<setting, now, queue, sync, up, ran, owed, faults>>

\* The row goes first; what stays in the queue finds no job.
Delete ==
    /\ setting.edits /\ job.exists /\ Edit
    /\ job' = [job EXCEPT !.exists = FALSE]
    /\ req' = [Idle EXCEPT !.pc = "list"]
    /\ UNCHANGED <<setting, now, queue, sync, up, ran, owed, faults>>

\* "Run now": an entry of its own, due at once, enabled or not.
RunNow ==
    /\ job.exists /\ entry[0] \in {"none", "done"} /\ Edit
    /\ entry' = [entry EXCEPT ![0] = "waiting"]
    /\ UNCHANGED <<setting, now, job, target, stalled, forgot, req, sync, up, ran, owed, faults>>

List ==
    /\ req.pc = "list"
    /\ req' = [req EXCEPT !.pc = "remove", !.found = {o \in Time : entry[o] = "delayed"}]
    /\ UNCHANGED <<setting, now, job, queue, sync, up, ran, owed, edits, faults>>

\* An entry a worker has meanwhile is not removed: the request fails and
\* queues nothing, though others may be gone; or, for a deletion, goes on.
Remove ==
    /\ req.pc = "remove"
    /\ entry' = Without(req.found) /\ Forget(req.found)
    /\ req' = IF job.exists /\ job.enabled /\ ~Refused(req.found)
                THEN [Idle EXCEPT !.pc = "schedule"] ELSE Idle
    /\ owed' = (owed \/ (Refused(req.found) /\ entry' # entry))
    /\ UNCHANGED <<setting, now, job, target, stalled, sync, up, ran, edits, faults>>

\* scheduleCronJob: the row is read again and the occurrence after now added.
Schedule ==
    /\ req.pc = "schedule"
    /\ \/ /\ entry' = Add(NextRun(job.schedule, now), entry)
          /\ owed' = FALSE /\ NoFault
       \/ Fault("redis") /\ owed' = TRUE /\ UNCHANGED entry
    /\ req' = Idle
    /\ UNCHANGED <<setting, now, job, target, stalled, forgot, sync, up, ran, edits>>

\* The server is killed in the middle of a request.
KillServer ==
    /\ req.pc # "idle" /\ Fault("crash")
    /\ req' = Idle /\ owed' = TRUE
    /\ UNCHANGED <<setting, now, job, queue, sync, up, ran, edits>>

----------------------------------------------------------------------------
(* The queue and the worker.                                               *)

\* BullMQ makes an entry due, by a clock that may be ahead ("early").
Promote(o) ==
    /\ entry[o] = "delayed"
    /\ o <= now \/ ("early" \in setting.faults /\ o = now + 1)
    /\ entry' = [entry EXCEPT ![o] = "waiting"]
    /\ UNCHANGED <<setting, now, job, target, stalled, forgot, req, sync, up, ran, owed, edits, faults>>

Take(o) ==
    /\ up /\ entry[o] = "waiting"
    /\ entry' = [entry EXCEPT ![o] = "active"]
    /\ UNCHANGED <<setting, now, job, target, stalled, forgot, req, sync, up, ran, owed, edits, faults>>

\* runCronJob up to the command: a manual run needs no enabled job.  Without a
\* run the worker goes straight to queueing the next.
Run(o) ==
    /\ entry[o] = "active" /\ job.exists /\ (job.enabled \/ o = 0)
    /\ entry' = [entry EXCEPT ![o] = "running"]
    /\ ran' = [ran EXCEPT ![o] = IF o = 0 THEN 0 ELSE @ + 1]
    /\ UNCHANGED <<setting, now, job, target, stalled, forgot, req, sync, up, owed, edits, faults>>

\* The command has ended, or there was none to run: scheduleCronJob reads the
\* row and computes the next occurrence.
Read(o) ==
    /\ \/ entry[o] = "running"
       \/ entry[o] = "active" /\ ~(job.exists /\ (job.enabled \/ o = 0))
    /\ LET next == IF job.exists /\ job.enabled THEN NextRun(job.schedule, After(o)) ELSE None
       IN /\ target' = [target EXCEPT ![o] = next]
          /\ entry' = [entry EXCEPT ![o] = "adding"]
    /\ UNCHANGED <<setting, now, job, stalled, forgot, req, sync, up, ran, owed, edits, faults>>

\* The add, whose failure is only logged, and the end of the entry, which keeps
\* its id in the queue.
Finish(o) ==
    /\ entry[o] = "adding"
    /\ \/ /\ entry' = [Add(target[o], entry) EXCEPT ![o] = "done"]
          /\ UNCHANGED owed /\ NoFault
       \/ /\ target[o] # None /\ Fault("redis")
          /\ entry' = [entry EXCEPT ![o] = "done"] /\ owed' = TRUE
    /\ target' = [target EXCEPT ![o] = None]
    /\ UNCHANGED <<setting, now, job, stalled, forgot, req, sync, up, ran, edits>>

\* Mutant: what a killed worker had in hand stays its own.
KillHolds ==
    /\ up /\ Fault("crash")
    /\ up' = FALSE /\ sync' = Idle
    /\ target' = [o \in Time |-> None]
    /\ UNCHANGED <<setting, now, job, entry, stalled, forgot, req, ran, owed, edits>>

\* The worker is killed: what it had in hand is left locked.
KillWorker ==
    /\ up /\ Fault("crash")
    /\ up' = FALSE /\ sync' = Idle
    /\ entry' = [o \in Time |-> IF entry[o] \in Locked THEN "stalled" ELSE entry[o]]
    /\ target' = [o \in Time |-> None]
    /\ UNCHANGED <<setting, now, job, stalled, forgot, req, ran, owed, edits>>

\* startWorker: the workers and, beside them, syncCronSchedules.
Start ==
    /\ ~up /\ up' = TRUE
    /\ sync' = IF job.exists /\ job.enabled THEN [Idle EXCEPT !.pc = "list"] ELSE Idle
    /\ UNCHANGED <<setting, now, job, queue, req, ran, owed, edits, faults>>

\* BullMQ gives an entry whose lock ran out to a worker again, once.
Unstall(o) ==
    /\ up /\ entry[o] = "stalled"
    /\ entry' = [entry EXCEPT ![o] = IF o \in stalled THEN "done" ELSE "waiting"]
    /\ stalled' = stalled \union {o}
    /\ UNCHANGED <<setting, now, job, target, forgot, req, sync, up, ran, owed, edits, faults>>

\* Redis loses its data while no worker has an entry.
Flush ==
    /\ \A o \in Time : entry[o] \notin Locked /\ Fault("flush")
    /\ entry' = [o \in Time |-> "none"] /\ Forget(Time) /\ owed' = TRUE
    /\ UNCHANGED <<setting, now, job, target, stalled, req, sync, up, ran, edits>>

SyncList ==
    /\ sync.pc = "list"
    /\ sync' = [sync EXCEPT !.pc = "remove", !.found = {o \in Time : entry[o] = "delayed"}]
    /\ UNCHANGED <<setting, now, job, queue, req, up, ran, owed, edits, faults>>

\* One entry refused, the others removed: the job is not queued again.
SyncRemove ==
    /\ sync.pc = "remove"
    /\ entry' = Without(sync.found) /\ Forget(sync.found)
    /\ sync' = IF Refused(sync.found) THEN Idle ELSE [Idle EXCEPT !.pc = "read"]
    /\ owed' = (owed \/ (Refused(sync.found) /\ entry' # entry))
    /\ UNCHANGED <<setting, now, job, target, stalled, req, up, ran, edits, faults>>

SyncRead ==
    /\ sync.pc = "read"
    /\ sync' = IF job.exists /\ job.enabled
                 THEN [Idle EXCEPT !.pc = "add", !.target = NextRun(job.schedule, now)]
                 ELSE Idle
    /\ owed' = FALSE
    /\ UNCHANGED <<setting, now, job, queue, req, up, ran, edits, faults>>

SyncAdd ==
    /\ sync.pc = "add"
    /\ \/ entry' = Add(sync.target, entry) /\ UNCHANGED owed /\ NoFault
       \/ Fault("redis") /\ owed' = TRUE /\ UNCHANGED entry
    /\ sync' = Idle
    /\ UNCHANGED <<setting, now, job, target, stalled, forgot, req, up, ran, edits>>

Tick ==
    /\ now < MaxTime /\ now' = now + 1
    /\ UNCHANGED <<setting, job, queue, req, sync, up, ran, owed, edits, faults>>

Next ==
    \/ \E on \in BOOLEAN, s \in Schedules : Create(on, s) \/ Patch(on, s)
    \/ Delete \/ RunNow \/ List \/ Remove \/ Schedule \/ KillServer
    \/ \E o \in Time : Promote(o) \/ Take(o) \/ Run(o) \/ Read(o) \/ Finish(o) \/ Unstall(o)
    \/ KillWorker \/ Start \/ Flush \/ SyncList \/ SyncRemove \/ SyncRead \/ SyncAdd
    \/ Tick

Spec == Init /\ [][Next]_vars

----------------------------------------------------------------------------
(* Properties.                                                             *)

\* Nobody is in the middle of anything.
Quiet ==
    /\ up /\ req.pc = "idle" /\ sync.pc = "idle"
    /\ \A o \in Time : entry[o] \in {"none", "delayed", "done"}

\* BullMQ's clock is not ahead of the worker's, or nothing else goes wrong.
Punctual == "early" \in setting.faults => setting = [faults |-> {"early"}, edits |-> FALSE]

\* worker/index.ts "queue the next one so the schedule keeps recurring",
\* scheduler.ts "so schedules survive a restart or a flushed Redis": whatever
\* edits, runs, kills and re-queueings meet, when all is quiet an enabled job
\* has its next occurrence queued, or an earlier one, unless the last call that
\* was to queue one was lost (or not made, see owed) or, a clock being ahead,
\* something else went wrong too.
NextQueued ==
    LET ahead == {o \in Occurs[job.schedule] : o > now /\ entry[o] # "done"}
    IN Punctual /\ Quiet /\ job.exists /\ job.enabled /\ ~owed /\ ahead # {} =>
         \E o \in (1 .. now) \union {o \in ahead : \A q \in ahead : o <= q} : entry[o] = "delayed"

\* scheduler.ts "scheduling the same occurrence twice is a no-op": no
\* occurrence runs twice, unless a worker was killed over it or the queue has
\* lost the id it ran under.
OncePerOccurrence == \A o \in 1 .. MaxTime : ran[o] > 1 => o \in stalled \union forgot
=============================================================================
