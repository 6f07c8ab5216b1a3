----------------------------- MODULE DeployLock -----------------------------
(***************************************************************************)
(* The lock files of bastionctl (packages/bastionctl/src/lock.ts):         *)
(* apps/<app>/deploy.lock, build.lock, proxy.lock, setup.lock.  Every      *)
(* bastionctl run is a container of its own, so runs share nothing but the *)
(* file system, and each file-system call below is one step: the lock is   *)
(* created by a hard link, judged stale from what was read before, renamed *)
(* aside, compared, and put back when it was not the one judged.           *)
(*                                                                         *)
(* A lock body names its run (holder, container host name, pid and start   *)
(* time), so a body is modelled by the run that wrote it.                  *)
(***************************************************************************)
EXTENDS Naturals, FiniteSets

CONSTANTS
  Runs,       \* bastionctl runs that use this lock file
  NoRun,      \* no lock file, or nothing read
  Waiters,    \* runs that take the lock with waitForLock
  Overrunners \* runs whose lock may become older than STALE_AFTER_MS

ASSUME LockConstants ==
  /\ NoRun \notin Runs
  /\ Waiters \subseteq Runs
  /\ Overrunners \subseteq Runs

VARIABLES
  lockFile, \* the run whose body the lock file holds
  at,       \* where each run is in acquireLock, its section, or the release
  attempt,  \* acquireLock's loop counter
  raw,      \* what readRaw returned: the body a removal is allowed to remove
  held,     \* what readLock returned: the body that is judged
  aside,    \* the run whose body was renamed to this run's .stale file
  aged      \* runs whose lock body is older than STALE_AFTER_MS

lockVars == <<lockFile, at, attempt, raw, held, aside, aged>>

Ended == {"gaveUp", "released", "crashed"}

Places ==
  {"idle", "create", "readRaw", "readHeld", "judge", "moveAside", "putBack",
   "cleanUp", "refused", "holding", "unlink"} \union Ended

\* In the section the lock protects: from the link to the end of the release.
InSection(r) == at[r] \in {"holding", "unlink"}

\* A run that has got the lock, whatever became of it since.
Owners == {"holding", "unlink", "released", "crashed"}

\* The run's container is stopped or gone (lock.ts holderGone).
Gone(r) == at[r] \in Ended

LockTypeOK ==
  /\ lockFile \in Runs \union {NoRun}
  /\ at \in [Runs -> Places]
  /\ attempt \in [Runs -> 0..1]
  /\ raw \in [Runs -> Runs \union {NoRun}]
  /\ held \in [Runs -> Runs \union {NoRun}]
  /\ aside \in [Runs -> Runs \union {NoRun}]
  /\ aged \subseteq Overrunners

LockInit ==
  /\ lockFile = NoRun
  /\ at = [r \in Runs |-> "idle"]
  /\ attempt = [r \in Runs |-> 0]
  /\ raw = [r \in Runs |-> NoRun]
  /\ held = [r \in Runs |-> NoRun]
  /\ aside = [r \in Runs |-> NoRun]
  /\ aged = {}

Move(r, place) == at' = [at EXCEPT ![r] = place]

-----------------------------------------------------------------------------
(* acquireLock *)

\* A command reaches its acquireLock or waitForLock call.
Ask(r) ==
  /\ at[r] = "idle"
  /\ Move(r, "create")
  /\ UNCHANGED <<lockFile, attempt, raw, held, aside, aged>>

\* createExclusive: the body is linked into place whole, or the file exists.
CreateExclusive(r) ==
  /\ at[r] = "create"
  /\ \/ /\ lockFile = NoRun
        /\ lockFile' = r
        /\ Move(r, "holding")
     \/ /\ lockFile # NoRun
        /\ Move(r, "readRaw")
        /\ UNCHANGED lockFile
  /\ UNCHANGED <<attempt, raw, held, aside, aged>>

\* The first of acquireLock's two reads: the body removeStale compares with.
ReadRaw(r) ==
  /\ at[r] = "readRaw"
  /\ raw' = [raw EXCEPT ![r] = lockFile]
  /\ Move(r, "readHeld")
  /\ UNCHANGED <<lockFile, attempt, held, aside, aged>>

\* Mutant: the loop forgets its bound.
NextAttemptUncounted(r) ==
  Move(r, "create") /\ attempt' = [attempt EXCEPT ![r] = @ + 1]

\* The second loop iteration either takes the lock or throws.
NextAttempt(r) ==
  IF attempt[r] = 0
  THEN Move(r, "create") /\ attempt' = [attempt EXCEPT ![r] = 1]
  ELSE Move(r, "refused") /\ UNCHANGED attempt

\* The second read.  A first read that found no file retries; only the first
\* attempt may judge the lock stale.
ReadHeld(r) ==
  /\ at[r] = "readHeld"
  /\ held' = [held EXCEPT ![r] = lockFile]
  /\ \/ /\ raw[r] = NoRun
        /\ NextAttempt(r)
     \/ /\ raw[r] # NoRun
        /\ Move(r, IF attempt[r] = 0 THEN "judge" ELSE "refused")
        /\ UNCHANGED attempt
  /\ UNCHANGED <<lockFile, raw, aside, aged>>

\* Mutant: only age makes a lock stale.
StaleByAge(h) == h \in {NoRun} \union aged

\* isStale: nothing readable, too old, or its holder's container gone.
Stale(h) == h \in {NoRun} \union aged \union {r \in Runs : Gone(r)}

\* isStale answers after a Docker call; Docker not answering counts as alive.
Judge(r) ==
  /\ at[r] = "judge"
  /\ \/ Stale(held[r]) /\ Move(r, "moveAside")
     \/ held[r] \notin aged \union {NoRun} /\ Move(r, "refused")
  /\ UNCHANGED <<lockFile, attempt, raw, held, aside, aged>>

\* Mutant: the file is copied aside instead of renamed, so it is still in
\* place while it is compared.
MoveAsideCopies(r) ==
  /\ at[r] = "moveAside"
  /\ \/ /\ lockFile = NoRun
        /\ NextAttempt(r)
        /\ UNCHANGED aside
     \/ /\ lockFile # NoRun
        /\ aside' = [aside EXCEPT ![r] = lockFile]
        /\ Move(r, "putBack")
        /\ UNCHANGED attempt
  /\ UNCHANGED <<lockFile, raw, held, aged>>

\* removeStale: rename the lock file aside, whoever's it is by now.
MoveAside(r) ==
  /\ at[r] = "moveAside"
  /\ \/ /\ lockFile = NoRun
        /\ NextAttempt(r)
        /\ UNCHANGED <<lockFile, aside>>
     \/ /\ lockFile # NoRun
        /\ aside' = [aside EXCEPT ![r] = lockFile]
        /\ lockFile' = NoRun
        /\ Move(r, "putBack")
        /\ UNCHANGED attempt
  /\ UNCHANGED <<raw, held, aged>>

\* Mutant: what was moved aside is never compared.
PutBackNever(r) ==
  /\ at[r] = "putBack"
  /\ Move(r, "cleanUp")
  /\ UNCHANGED <<lockFile, attempt, raw, held, aside, aged>>

\* removeStale: what was moved is not what was judged, so link it back unless
\* a third run has created the file meanwhile.
PutBack(r) ==
  /\ at[r] = "putBack"
  /\ lockFile' = IF aside[r] # raw[r] /\ lockFile = NoRun THEN aside[r] ELSE lockFile
  /\ Move(r, "cleanUp")
  /\ UNCHANGED <<attempt, raw, held, aside, aged>>

\* removeStale: the .stale file is removed and acquireLock tries again.
CleanUp(r) ==
  /\ at[r] = "cleanUp"
  /\ aside' = [aside EXCEPT ![r] = NoRun]
  /\ NextAttempt(r)
  /\ UNCHANGED <<lockFile, raw, held, aged>>

\* acquireLock threw (exit code 4): waitForLock sleeps and asks again.
Retry(r) ==
  /\ r \in Waiters
  /\ at[r] = "refused"
  /\ Move(r, "create")
  /\ attempt' = [attempt EXCEPT ![r] = 0]
  /\ UNCHANGED <<lockFile, raw, held, aside, aged>>

\* acquireLock threw and nothing waits, or waitForLock's deadline has passed:
\* the command fails and its container ends.
GiveUp(r) ==
  /\ at[r] = "refused"
  /\ Move(r, "gaveUp")
  /\ UNCHANGED <<lockFile, attempt, raw, held, aside, aged>>

-----------------------------------------------------------------------------
(* The release closure, the environment *)

\* The release reads the file and unlinks only its own body.
ReadOwn(r) ==
  /\ at[r] = "holding"
  /\ Move(r, IF lockFile = r THEN "unlink" ELSE "released")
  /\ UNCHANGED <<lockFile, attempt, raw, held, aside, aged>>

\* The unlink of the release: whatever the file is by now.
UnlinkLock(r) ==
  /\ at[r] = "unlink"
  /\ lockFile' = NoRun
  /\ Move(r, "released")
  /\ UNCHANGED <<attempt, raw, held, aside, aged>>

\* The run's container is killed between two steps; its lock stays behind.
Killed(r) ==
  /\ at[r] \notin Ended \union {"idle"}
  /\ Move(r, "crashed")
  /\ UNCHANGED <<lockFile, attempt, raw, held, aside, aged>>

\* STALE_AFTER_MS passes since a run, still in its section, took the lock.
Overrun(r) ==
  /\ r \in Overrunners \ aged
  /\ InSection(r)
  /\ aged' = aged \union {r}
  /\ UNCHANGED <<lockFile, at, attempt, raw, held, aside>>

Acquire(r) ==
  \/ CreateExclusive(r)
  \/ ReadRaw(r)
  \/ ReadHeld(r)
  \/ Judge(r)
  \/ MoveAside(r)
  \/ PutBack(r)
  \/ CleanUp(r)

Release(r) ==
  \/ ReadOwn(r)
  \/ UnlinkLock(r)

LockNext ==
  \E r \in Runs :
    \/ Ask(r)
    \/ Acquire(r)
    \/ Retry(r)
    \/ GiveUp(r)
    \/ Release(r)
    \/ Killed(r)
    \/ Overrun(r)

\* A run that is not killed keeps executing: acquireLock has no unbounded
\* wait, every section ends, and a refused run asks again or ends.  Docker
\* answers a waiter that keeps asking, so a judgement that is possible again
\* and again is eventually made.
Fairness ==
  \A r \in Runs :
    /\ WF_lockVars(Acquire(r))
    /\ WF_lockVars(Release(r))
    /\ WF_lockVars(Retry(r) \/ GiveUp(r))
    /\ SF_lockVars(Judge(r) /\ at'[r] = "moveAside")

LockSpec == LockInit /\ [][LockNext]_lockVars

FairSpec == LockSpec /\ Fairness

-----------------------------------------------------------------------------
(* Properties *)

\* Deploy locks are exclusive (lock.ts:8): as long as no lock is old enough
\* to be taken from a run that lives, no two runs are in the section at once.
MutualExclusion ==
  aged = {} => \A r, s \in Runs : InSection(r) /\ InSection(s) => r = s

\* Only one copy of a lock body is in play: a body that some removal still may
\* put back is neither in the lock file nor with another removal, and its run
\* got the lock and has not gone back to asking for it (lock.ts removeStale).
SingleCopy ==
  /\ lockFile # NoRun => at[lockFile] \in Owners
  /\ \A q \in Runs :
       at[q] = "putBack" =>
         /\ aside[q] \in Runs \ {lockFile}
         /\ at[aside[q]] \in Owners
         /\ \A p \in Runs : at[p] = "putBack" /\ aside[p] = aside[q] => p = q

\* A lock left by a run that is gone does not block the server: it is taken
\* over, or whoever asked for it has given up, ended or been killed and nobody
\* asks any more (lock.ts:10-14).  A waiter between two tries still asks.
DeadLockTakenOver ==
  \A d \in Runs :
    (lockFile = d /\ Gone(d)) ~> (lockFile # d \/ \A r \in Runs : Gone(r) \/ at[r] = "idle")
=============================================================================
