---------------------------- MODULE AuditDelivery ----------------------------
(***************************************************************************)
(* What audit forwarding promises (the head of audit/forward.ts: "Delivery *)
(* is at-least-once: the cursor only moves past rows the target accepted"), *)
(* without cursors, clocks, batches or retries.  A row that is begun while *)
(* a target is configured is due.  Once it is in the log it is owed, and   *)
(* it stays owed until the target configured at that moment has accepted   *)
(* it, the row itself is pruned, or forwarding is removed.                 *)
(***************************************************************************)
CONSTANTS Row,     \* audit rows
          Target,  \* saved configurations; every save is another one
          NoTarget

VARIABLES
  target,  \* the configuration in force, or NoTarget
  due,     \* rows begun since forwarding was set up
  log,     \* rows in the log
  owed,    \* rows in the log still to be delivered
  got      \* <<row, target>>: what each target has accepted

vars == <<target, due, log, owed, got>>

Init == /\ target = NoTarget
        /\ due = {} /\ log = {} /\ owed = {} /\ got = {}

Begun(r) ==
  /\ due' = IF target = NoTarget THEN due ELSE due \cup {r}
  /\ UNCHANGED <<target, log, owed, got>>

Logged(r) ==
  /\ log' = log \cup {r}
  /\ owed' = owed \cup ({r} \cap due)
  /\ UNCHANGED <<target, due, got>>

(* Any target may accept rows at any time, an earlier one too. *)
Accepted(t, rs) ==
  /\ got' = got \cup (rs \X {t})
  /\ UNCHANGED <<target, due, log, owed>>

(* The one way a row that is still in the log stops being owed. *)
Settled(rs) ==
  /\ target # NoTarget
  /\ rs \X {target} \subseteq got
  /\ owed' = owed \ rs
  /\ UNCHANGED <<target, due, log, got>>

Pruned(rs) ==
  /\ log' = log \ rs
  /\ owed' = owed \ rs
  /\ UNCHANGED <<target, due, got>>

SetUp(t) ==
  /\ target = NoTarget
  /\ target' = t
  /\ due' = {} /\ owed' = {}
  /\ UNCHANGED <<log, got>>

(* Another target takes over what is owed. *)
Swapped(t) ==
  /\ target # NoTarget
  /\ target' = t
  /\ UNCHANGED <<due, log, owed, got>>

Removed ==
  /\ target' = NoTarget
  /\ due' = {} /\ owed' = {}
  /\ UNCHANGED <<log, got>>

Next ==
  \/ \E r \in Row : Begun(r) \/ Logged(r)
  \/ \E rs \in SUBSET Row : \/ Settled(rs) \/ Pruned(rs)
                            \/ \E t \in Target : Accepted(t, rs)
  \/ \E t \in Target : SetUp(t) \/ Swapped(t)
  \/ Removed

Spec == Init /\ [][Next]_vars
==============================================================================
