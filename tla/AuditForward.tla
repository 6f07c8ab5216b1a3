----------------------------- MODULE AuditForward -----------------------------
(***************************************************************************)
(* Audit forwarding of one organization: audit/forward.ts, the settings    *)
(* routes of api/routes/audit.ts, the log of audit/index.ts and its        *)
(* pruning in audit/retention.ts.                                          *)
(*                                                                         *)
(* A row is stamped when its insert begins and is in the log when the      *)
(* insert commits, up to Delay later (it waits for SQLite's write lock,    *)
(* which the worker process may hold).  The sweep reads rows in the order  *)
(* of (stamp, rowid) after a cursor, sends them, and moves the cursor.     *)
(* Other requests run at its awaits, and the process may die at any of     *)
(* them.  After MaxTime no row is begun any more, and the clock stays.     *)
(***************************************************************************)
EXTENDS Integers, FiniteSets

CONSTANTS
  Rows,        \* audit rows are 1..Rows, in the order in which they are begun
  Saves,       \* bound: how often the owner saves a configuration
  Requests,    \* bound: PUT requests under way at once
  MaxTime,     \* bound: the last value of the clock that matters
  Settle,      \* SETTLE_MS: younger rows wait
  Delay,       \* how long an insert may wait for the write lock
  Retention,   \* the organization's auditRetentionDays
  BatchSize,   \* BATCH_SIZE
  MaxBatches,  \* MAX_BATCHES_PER_TICK
  Attempts,    \* SEND_ATTEMPTS
  BackoffBase, BackoffMax,  \* BACKOFF_BASE_MS, BACKOFF_MAX_MS
  Kinds        \* kinds of target: "webhook", "syslog"

Row == 1..Rows
SaveId == 1..Saves
None == 0

ASSUME ForwardConstants ==
  /\ Rows \in Nat /\ Saves \in Nat /\ Requests \in Nat /\ MaxTime \in Nat
  /\ Settle \in Nat /\ Delay \in Nat /\ Retention \in Nat
  /\ Delay <= Settle      \* the comment at SETTLE_MS: 5 s against 15 s
  /\ Settle <= Retention  \* at least 7 days
  /\ BatchSize \in Nat \ {0} /\ MaxBatches \in Nat \ {0} /\ Attempts \in Nat \ {0}
  /\ BackoffBase \in Nat \ {0} /\ BackoffMax \in Nat \ {0} /\ BackoffBase <= BackoffMax
  /\ Kinds \subseteq {"webhook", "syslog"}

VARIABLES
  kind,   \* the kind of every target of this behaviour
  now,    \* the clock
  place,  \* of a row: "unborn", "waiting" for the lock, in the "log", "gone"
  stamp,  \* created_at
  rowid,  \* SQLite's rowid
  fwd,    \* the row of audit_forwarders: configuration, enabled, cursor, status
  saves,  \* configurations saved so far
  edit,   \* PUTs between their read and their write, by what they will do
  sweep,  \* forwardOrg between its awaits
  wait,   \* backoff: the pause after the last failure (0 for none), and what is left of it
  due,    \* history: rows begun since forwarding was set up
  got     \* history: <<row, configuration>>, what each target has accepted

rowVars == <<place, stamp, rowid, due>>
vars == <<kind, now, place, stamp, rowid, fwd, saves, edit, sweep, wait, due, got>>

Min2(a, b) == IF a < b THEN a ELSE b

Key(r) == <<stamp[r], rowid[r]>>
Less(k, l) == k[1] < l[1] \/ (k[1] = l[1] /\ k[2] < l[2])

Log == {r \in Row : place[r] = "log"}
Exists == fwd.save # None
NoForwarder == [save |-> None, enabled |-> FALSE, cursor |-> <<0, 0>>, status |-> "none"]
Idle == [at |-> "idle", began |-> 0, save |-> None, pause |-> 0,
         batch |-> {}, round |-> 0, attempt |-> 0, taken |-> FALSE]
NoWait == [pause |-> 0, left |-> 0]
NoEdit == [insert |-> 0, update |-> 0]

Init ==
  /\ kind \in Kinds
  /\ now = 0
  /\ place = [r \in Row |-> "unborn"]
  /\ stamp = [r \in Row |-> 0]
  /\ rowid = [r \in Row |-> 0]
  /\ fwd = NoForwarder
  /\ saves = 0
  /\ edit = NoEdit
  /\ sweep = Idle
  /\ wait = NoWait
  /\ due = {}
  /\ got = {}

-------------------------------------------------------------------------------
(* The log. *)

(* audit, auditAs, auditUser, auditSystem: the values are made, created_at *)
(* among them, and the insert waits for the lock.                          *)
Begin(r) ==
  /\ place[r] = "unborn"
  /\ \A q \in Row : q < r => place[q] # "unborn"
  /\ now + Settle <= MaxTime
  /\ place' = [place EXCEPT ![r] = "waiting"]
  /\ stamp' = [stamp EXCEPT ![r] = now]
  /\ due' = IF Exists THEN due \cup {r} ELSE due
  /\ UNCHANGED <<kind, now, rowid, fwd, saves, edit, sweep, wait, got>>

NextRowid == IF Log = {} THEN 1
             ELSE 1 + CHOOSE n \in {rowid[r] : r \in Log} : \A q \in Log : rowid[q] <= n

(* The insert commits; a table without AUTOINCREMENT takes the highest *)
(* rowid and one.                                                      *)
Commit(r) ==
  /\ place[r] = "waiting"
  /\ place' = [place EXCEPT ![r] = "log"]
  /\ rowid' = [rowid EXCEPT ![r] = NextRowid]
  /\ UNCHANGED <<kind, now, stamp, fwd, saves, edit, sweep, wait, due, got>>

(* The lock was not to be had: audit failures never break the request. *)
InsertFails(r) ==
  /\ place[r] = "waiting"
  /\ place' = [place EXCEPT ![r] = "gone"]
  /\ UNCHANGED <<kind, now, stamp, rowid, fwd, saves, edit, sweep, wait, due, got>>

Expired == {r \in Log : stamp[r] < now - Retention}

(* pruneOrgAuditLog *)
Prune ==
  /\ Expired # {}
  /\ place' = [r \in Row |-> IF r \in Expired THEN "gone" ELSE place[r]]
  /\ UNCHANGED <<kind, now, stamp, rowid, fwd, saves, edit, sweep, wait, due, got>>

(* Time passes.  No insert waits longer than Delay. *)
Tick ==
  /\ \A r \in Row : place[r] = "waiting" => now < stamp[r] + Delay
  /\ now' = Min2(now + 1, MaxTime)
  /\ wait' = [wait EXCEPT !.left = IF @ = 0 THEN 0 ELSE @ - 1]
  /\ <<now', wait'>> # <<now, wait>>
  /\ UNCHANGED <<kind, place, stamp, rowid, fwd, saves, edit, sweep, due, got>>

-------------------------------------------------------------------------------
(* The owner's settings. *)

(* PUT /forwarding reads the row, then waits for the vault and for DNS. *)
BeginSave ==
  /\ edit.insert + edit.update < Requests
  /\ edit' = IF Exists THEN [edit EXCEPT !.update = @ + 1]
             ELSE [edit EXCEPT !.insert = @ + 1]
  /\ UNCHANGED <<kind, now, rowVars, fwd, saves, sweep, wait, got>>

(* currentCursor: the last row of the log, in the order of the sweep. *)
LastKey(rs) == Key(CHOOSE r \in rs : \A q \in rs : ~Less(Key(r), Key(q)))
CurrentCursor == IF Log = {} THEN <<0, 0>> ELSE LastKey(Log)

(* A PUT that found no row inserts one, from the end of the log as it is by *)
(* now; if another PUT has inserted meanwhile, the insert and the request    *)
(* fail.                                                                     *)
SaveNew ==
  /\ edit.insert > 0
  /\ edit' = [edit EXCEPT !.insert = @ - 1]
  /\ IF Exists THEN UNCHANGED <<fwd, saves, wait, due>>
     ELSE /\ saves < Saves
          /\ saves' = saves + 1
          /\ \E on \in BOOLEAN :
               fwd' = [save |-> saves + 1, enabled |-> on,
                       cursor |-> CurrentCursor, status |-> "none"]
          /\ wait' = NoWait /\ due' = {}
  /\ UNCHANGED <<kind, now, place, stamp, rowid, sweep, got>>

(* One that found a row updates it, and nothing if it was removed.  Every    *)
(* save encrypts anew, so no two configurations are equal; the cursor stays. *)
SaveChange ==
  /\ edit.update > 0
  /\ edit' = [edit EXCEPT !.update = @ - 1]
  /\ IF Exists
     THEN /\ saves < Saves
          /\ saves' = saves + 1
          /\ \E on \in BOOLEAN :
               fwd' = [fwd EXCEPT !.save = saves + 1, !.enabled = on, !.status = "none"]
     ELSE UNCHANGED <<fwd, saves>>
  /\ wait' = NoWait
  /\ UNCHANGED <<kind, now, place, stamp, rowid, due, sweep, got>>

(* Resolving the target's name fails: nothing is saved. *)
SaveRefused ==
  /\ \E k \in {"insert", "update"} : edit[k] > 0 /\ edit' = [edit EXCEPT ![k] = @ - 1]
  /\ UNCHANGED <<kind, now, rowVars, fwd, saves, sweep, wait, got>>

(* DELETE /forwarding *)
Remove ==
  /\ Exists
  /\ fwd' = NoForwarder
  /\ wait' = NoWait
  /\ due' = {}
  /\ UNCHANGED <<kind, now, place, stamp, rowid, saves, edit, sweep, got>>

-------------------------------------------------------------------------------
(* The sweep: forwardOrg. *)

\* Mutant: rows are taken as soon as they are in the log.
PendingUnsettled(cursor, upTo) == {r \in Log : Less(cursor, Key(r))}

\* Mutant: rows of the same stamp are not told apart.
PendingByStamp(cursor, upTo) == {r \in Log : stamp[r] <= upTo /\ cursor[1] < stamp[r]}

(* pendingRows *)
Pending(cursor, upTo) == {r \in Log : stamp[r] <= upTo /\ Less(cursor, Key(r))}
FirstOf(rs) == {r \in rs : Cardinality({q \in rs : Less(Key(q), Key(r))}) < BatchSize}

(* One turn of the loop up to the await of deliverWithRetry: the row is    *)
(* read again, and the rows after its cursor.  `f` and `limit` are the     *)
(* forwarder's row and the settled time as they are at that moment.        *)
NextBatch(f, round, began, pause) ==
  LET batch == FirstOf(Pending(f.cursor, began - Settle)) IN
  IF round > MaxBatches \/ ~f.enabled \/ batch = {} THEN Idle
  ELSE [at |-> "sending", began |-> began, save |-> f.save, pause |-> pause,
        batch |-> batch, round |-> round, attempt |-> 1, taken |-> FALSE]

(* tick, when no sweep is running and the organization is not backing off. *)
StartSweep ==
  /\ sweep.at = "idle"
  /\ Exists /\ fwd.enabled
  /\ wait.left = 0
  /\ sweep' = NextBatch(fwd, 1, now, wait.pause)
  /\ sweep' # sweep
  /\ UNCHANGED <<kind, now, rowVars, fwd, saves, edit, wait, got>>

(* External: what reaches the target of one attempt.  A webhook takes a    *)
(* POST whole; a syslog target takes what the network brings.              *)
TargetTakes ==
  /\ sweep.at = "sending" /\ ~sweep.taken
  /\ \E rs \in IF kind = "webhook" THEN {sweep.batch} ELSE SUBSET sweep.batch :
       got' = got \cup (rs \X {sweep.save})
  /\ sweep' = [sweep EXCEPT !.taken = TRUE]
  /\ UNCHANGED <<kind, now, rowVars, fwd, saves, edit, wait>>

(* deliver resolves: a 2xx answer of a webhook; for syslog, the messages   *)
(* were handed to the socket.  The cursor moves, unless the configuration  *)
(* is another one by now, and the next batch is read.                      *)
AnswerGood == sweep.taken \/ kind = "syslog"
Delivered ==
  /\ sweep.at = "sending" /\ AnswerGood
  /\ LET moved == IF fwd.save = sweep.save
                  THEN [fwd EXCEPT !.cursor = LastKey(sweep.batch), !.status = "ok"]
                  ELSE fwd
     IN /\ fwd' = moved
        /\ sweep' = IF Cardinality(sweep.batch) < BatchSize THEN Idle
                    ELSE NextBatch(moved, sweep.round + 1, sweep.began, sweep.pause)
  /\ wait' = NoWait
  /\ UNCHANGED <<kind, now, rowVars, saves, edit, got>>

(* An attempt fails, with or without the target having taken the rows. *)
Retry ==
  /\ sweep.at = "sending" /\ sweep.attempt < Attempts
  /\ sweep' = [sweep EXCEPT !.attempt = @ + 1, !.taken = FALSE]
  /\ UNCHANGED <<kind, now, rowVars, fwd, saves, edit, wait, got>>

\* Mutant: no cap.
BackoffUncapped(pause) == IF pause = 0 THEN BackoffBase ELSE 2 * pause

(* BACKOFF_BASE_MS * 2 ** (failures - 1), capped: what follows the pause *)
(* that the failure before led to.                                       *)
Backoff(pause) == IF pause = 0 THEN BackoffBase ELSE Min2(2 * pause, BackoffMax)

(* The last attempt fails, or the target is unsafe or cannot be decrypted. *)
(* Whatever row the organization has by now is marked as failed; the audit *)
(* row of a first failure is one of those that Begin begins.               *)
GiveUp ==
  /\ sweep.at = "sending"
  /\ LET pause == Backoff(sweep.pause)
         left == pause - (now - sweep.began)
     IN wait' = [pause |-> pause, left |-> IF left < 0 THEN 0 ELSE left]
  /\ fwd' = IF Exists THEN [fwd EXCEPT !.status = "failed"] ELSE fwd
  /\ sweep' = Idle
  /\ UNCHANGED <<kind, now, rowVars, saves, edit, got>>

(* The process dies and starts again: sweep, backoff and requests are gone. *)
Restart ==
  /\ <<sweep, wait, edit>> # <<Idle, NoWait, NoEdit>>
  /\ sweep' = Idle /\ wait' = NoWait /\ edit' = NoEdit
  /\ UNCHANGED <<kind, now, rowVars, fwd, saves, got>>

Next ==
  \/ \E r \in Row : Begin(r) \/ Commit(r) \/ InsertFails(r)
  \/ Prune \/ Tick
  \/ BeginSave \/ SaveNew \/ SaveChange \/ SaveRefused \/ Remove
  \/ StartSweep \/ TargetTakes \/ Delivered \/ Retry \/ GiveUp
  \/ Restart

Spec == Init /\ [][Next]_vars

(* Timers fire and awaits settle; a target that is asked again and again   *)
(* takes a batch and answers in the end.  Nothing a person does is fair.   *)
FairSpec == /\ Spec
            /\ \A r \in Row : WF_vars(Commit(r) \/ InsertFails(r))
            /\ WF_vars(Tick)
            /\ SF_vars(StartSweep)
            /\ SF_vars(TargetTakes) /\ SF_vars(Delivered)

-------------------------------------------------------------------------------
(* Types. *)
Times == 0..MaxTime
Cursors == Times \X (0..Rows)
TypeOK ==
  /\ kind \in Kinds
  /\ now \in Times
  /\ place \in [Row -> {"unborn", "waiting", "log", "gone"}]
  /\ stamp \in [Row -> Times]
  /\ rowid \in [Row -> 0..Rows]
  /\ fwd \in [save : 0..Saves, enabled : BOOLEAN, cursor : Cursors,
              status : {"none", "ok", "failed"}]
  /\ saves \in 0..Saves
  /\ edit \in [insert : 0..Requests, update : 0..Requests]
  /\ sweep \in [at : {"idle", "sending"}, began : Times, save : 0..Saves,
                pause : 0..BackoffMax, batch : SUBSET Row, round : 0..MaxBatches,
                attempt : 0..Attempts, taken : BOOLEAN]
  /\ wait \in [pause : 0..BackoffMax, left : 0..BackoffMax]
  /\ due \subseteq Row
  /\ got \subseteq Row \X SaveId

(* What audit forwarding promises, and how this module's state gives it:   *)
(* a row is owed while it is in the log after the cursor.                  *)
Owed == {r \in due \cap Log : Less(fwd.cursor, Key(r))}
Delivery == INSTANCE AuditDelivery
  WITH Target <- SaveId, NoTarget <- None,
       target <- fwd.save, log <- Log, owed <- Owed

(* Every step of the forwarding is a step of the promise, for targets that *)
(* confirm what they took: no row that was begun since forwarding was set  *)
(* up falls behind the cursor without the target of that moment having     *)
(* accepted it, whatever commits late, is swapped, pruned or cut off in    *)
(* between (forward.ts, head of the file and SETTLE_MS).                   *)
AtLeastOnce == /\ kind = "webhook" => Delivery!Init
               /\ [][kind = "webhook" => Delivery!Next]_(Delivery!vars)

(* With forwarding left on, no row stays owed for ever: backoff, retries,  *)
(* restarts and full batches only delay it (forwardOrg, tick).             *)
EverythingSent ==
  <>[](Exists /\ fwd.enabled) => \A r \in Row : []<>(r \notin Owed)
===============================================================================
