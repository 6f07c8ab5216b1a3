---------------------------- MODULE KeyRotation ----------------------------
(***************************************************************************)
(* SSH key rotation (apps/server/src/ssh/key-rotation.ts), with the        *)
(* requests that meet it: the rotate routes, a server's edit               *)
(* (api/routes/servers.ts) and a key's deletion (api/routes/ssh-keys.ts).  *)
(*                                                                         *)
(* Node runs a rotation's synchronous stretches whole; every await is a    *)
(* point where other rotations, requests and the hosts come in between.    *)
(* A remote script is on its own once it is sent: the host runs it whether *)
(* or not anybody still waits for the answer.  Servers of one account      *)
(* (host, port and user) share its authorized_keys file.                   *)
(***************************************************************************)
EXTENDS Naturals, FiniteSets

CONSTANTS
  Servers,
  Accounts,
  MaxRot,    \* bound: how many rotations are requested at most
  Settings   \* how the servers are laid out, and what may happen

Rots == 1..MaxRot
Keys == 0..MaxRot          \* the key all servers begin with, and each rotation's
Password == MaxRot + 1     \* instead of a key: the server logs in with a password

ASSUME RotationConstants ==
  /\ Servers # {}
  /\ MaxRot \in Nat
  /\ Settings \subseteq
       [account : [Servers -> Accounts],
        together : BOOLEAN,  \* separate requests; FALSE: one bulk request
        requests : 0..MaxRot,
        held : BOOLEAN,      \* a cloud account or file connection uses key 0
        admin : SUBSET {"reassign", "delete", "demote"},
        faults : SUBSET {"network", "late", "crash", "vault"}]

VARIABLES
  setting,
  \* the database
  assigned,  \* each server's default key
  keys,      \* keys that have a row
  retired,   \* and of those, the retired ones
  status,    \* each rotation's record: its status,
  server,    \* its server
  oldKey,    \* and the key it is to replace
  \* the process
  pc,        \* where each rotation waits
  \* the hosts
  lines,     \* the keys each account's authorized_keys lists
  script,    \* each remote script of each rotation
  draft      \* and the edited copy it has not yet renamed over the file

records == <<status, server, oldKey>>
db == <<assigned, keys, retired>>
host == <<lines, script, draft>>
vars == <<setting, db, records, pc, host>>

Account(r) == setting.account[server[r]]
Faults == setting.faults

Calls == {"install", "removeOld", "removeNew"}
Steps == {"none", "install", "installing", "verify", "switch", "remove", "removing",
          "checkOld", "revert", "undo", "undoing"}
Open == {"pending", "running"}
Statuses == Open \union {"none", "completed", "rolled_back", "failed", "interrupted"}

TypeOK ==
  /\ setting \in Settings
  /\ assigned \in [Servers -> Keys \union {Password}]
  /\ retired \subseteq Keys /\ keys \subseteq Keys
  /\ status \in [Rots -> Statuses]
  /\ server \in [Rots -> Servers]
  /\ oldKey \in [Rots -> Keys]
  /\ pc \in [Rots -> Steps]
  /\ lines \in [Accounts -> SUBSET Keys]
  /\ script \in [Rots -> [Calls -> {"none", "sent", "copied", "done", "refused"}]]
  /\ draft \in [Rots -> [Calls -> SUBSET Keys]]

Init ==
  /\ setting \in Settings
  /\ assigned = [s \in Servers |-> 0]
  /\ keys = {0} /\ retired = {}
  /\ status = [r \in Rots |-> "none"]
  /\ server = [r \in Rots |-> CHOOSE s \in Servers : TRUE]
  /\ oldKey = [r \in Rots |-> 0]
  /\ pc = [r \in Rots |-> "none"]
  /\ lines = [a \in Accounts |-> {0}]
  /\ script = [r \in Rots |-> [c \in Calls |-> "none"]]
  /\ draft = [r \in Rots |-> [c \in Calls |-> {}]]

-----------------------------------------------------------------------------
(* Building blocks *)

Goto(r, step) == pc' = [pc EXCEPT ![r] = step]

\* Mutant: the record gets the name of the step instead of the outcome's.
FinishStep(r, outcome) ==
  /\ status' = [status EXCEPT ![r] = IF outcome = "rolled_back" THEN "rollback" ELSE outcome]
  /\ Goto(r, "none")
  /\ UNCHANGED <<server, oldKey>>

\* finish: the record's outcome, and the rotation is no longer running.
Finish(r, outcome) ==
  /\ status' = [status EXCEPT ![r] = outcome]
  /\ Goto(r, "none")
  /\ UNCHANGED <<server, oldKey>>

\* The catch before the switch: whatever may have been installed is removed.
Fail(r, touched) ==
  IF touched THEN Goto(r, "undo") /\ UNCHANGED records ELSE Finish(r, "failed")

\* The key a script is sent over, the line it deletes, the line it needs.
Login(r, c) == IF c = "removeOld" THEN r ELSE oldKey[r]
Drops(r, c) == IF c = "removeOld" THEN oldKey[r] ELSE r
Keeps(r, c) == IF c = "removeOld" THEN r ELSE oldKey[r]

\* sshd lets a key in, or the connection fails without anything having run.
Accepts(r, k) == k \in lines[Account(r)]

Send(r, c) ==
  /\ Accepts(r, Login(r, c))
  /\ script' = [script EXCEPT ![r][c] = "sent"]
  /\ UNCHANGED <<lines, draft>>

\* No answer came in time.  A script that has not finished may do so later.
GiveUp(r, c) ==
  /\ "network" \in Faults
  /\ \/ script' = [script EXCEPT ![r][c] = "none"] /\ draft' = [draft EXCEPT ![r][c] = {}]
     \/ "late" \in Faults /\ UNCHANGED <<script, draft>>
  /\ UNCHANGED lines

\* The answer is read: the script is over.
Answer(r, c, outcome) ==
  /\ script[r][c] = outcome
  /\ script' = [script EXCEPT ![r][c] = "none"]
  /\ UNCHANGED <<lines, draft>>

-----------------------------------------------------------------------------
(* Requests *)

\* rotationInProgress: queued or running.
InProgress(s) == \E r \in Rots : status[r] \in Open /\ server[r] = s

Record(r, s) ==
  /\ status' = [status EXCEPT ![r] = "pending"]
  /\ server' = [server EXCEPT ![r] = s]
  /\ oldKey' = [oldKey EXCEPT ![r] = assigned[s]]

\* createRotations, one server of a request: checked and recorded at once.
Request(s) ==
  /\ \E r \in 1..setting.requests :
       /\ status[r] = "none" /\ \A q \in Rots : q < r => status[q] # "none"
       /\ Record(r, s)
  /\ assigned[s] # Password
  /\ ~InProgress(s)
  /\ UNCHANGED <<db, pc, host, setting>>

\* A server's edit: another key that the host accepts, or a password.
Reassign(s) ==
  /\ "reassign" \in setting.admin
  /\ \E k \in (lines[setting.account[s]] \intersect (keys \ retired)) \union {Password} :
       k # assigned[s] /\ assigned' = [assigned EXCEPT ![s] = k]
  /\ UNCHANGED <<keys, retired, records, pc, host, setting>>

\* A key nothing uses is deleted.
DeleteKey(k) ==
  /\ "delete" \in setting.admin
  /\ k \in keys /\ \A s \in Servers : assigned[s] # k
  /\ k = 0 => ~setting.held
  /\ keys' = keys \ {k} /\ retired' = retired \ {k}
  /\ UNCHANGED <<assigned, records, pc, host, setting>>

-----------------------------------------------------------------------------
(* A rotation *)

\* runRotation and the checks of performRotation: the asker may still rotate,
\* and the server is as it was when the rotation was requested.
Start(r) ==
  /\ status[r] = "pending"
  /\ setting.together \/ \A q \in Rots : pc[q] = "none"
  /\ LET blocked == \/ \E q \in Rots : pc[q] # "none" /\ server[q] = server[r]
                    \/ assigned[server[r]] # oldKey[r]
     IN \/ ~blocked /\ Goto(r, "install")
           /\ status' = [status EXCEPT ![r] = "running"] /\ UNCHANGED <<server, oldKey>>
        \/ (blocked \/ "demote" \in setting.admin) /\ Finish(r, "failed")
  /\ UNCHANGED <<db, host, setting>>

\* Over the old key.  A rejected login is known to have changed nothing, a
\* broken connection is not.
Install(r) ==
  /\ pc[r] = "install"
  /\ \/ Send(r, "install") /\ Goto(r, "installing") /\ UNCHANGED records
     \/ ("vault" \in Faults \/ ~Accepts(r, oldKey[r])) /\ Fail(r, FALSE) /\ UNCHANGED host
     \/ "network" \in Faults /\ (\E touched \in BOOLEAN : Fail(r, touched)) /\ UNCHANGED host
  /\ UNCHANGED <<db, setting>>

\* Mutant: a lost answer counts as a change that did not happen.
InstalledLost(r) ==
  /\ pc[r] = "installing"
  /\ \/ Answer(r, "install", "done") /\ Goto(r, "verify") /\ UNCHANGED records
     \/ Answer(r, "install", "refused") /\ Fail(r, FALSE)
     \/ GiveUp(r, "install") /\ Fail(r, FALSE)
  /\ UNCHANGED <<db, setting>>

Installed(r) ==
  /\ pc[r] = "installing"
  /\ \/ Answer(r, "install", "done") /\ Goto(r, "verify") /\ UNCHANGED records
     \/ Answer(r, "install", "refused") /\ Fail(r, FALSE)
     \/ GiveUp(r, "install") /\ Fail(r, TRUE)
  /\ UNCHANGED <<db, setting>>

\* A fresh login with the new key alone.
Verify(r) ==
  /\ pc[r] = "verify"
  /\ \/ Accepts(r, r) /\ Goto(r, "switch") /\ UNCHANGED records
     \/ ("network" \in Faults \/ ~Accepts(r, r))
        /\ Fail(r, TRUE)
  /\ UNCHANGED <<db, host, setting>>

\* Mutant: the account is taken for the server's own.
SharingNobody(r) == {}

\* sharedAccountServers: others that log in to the account with the old key.
Sharing(r) ==
  {s \in Servers \ {server[r]} : setting.account[s] = Account(r) /\ assigned[s] = oldKey[r]}

\* The switch, one transaction, if nobody reassigned the server; and, with no
\* await after it, the decision to leave the old line for the others.
Switch(r) ==
  /\ pc[r] = "switch"
  /\ \/ /\ assigned[server[r]] = oldKey[r]
        /\ keys' = keys \union {r}
        /\ assigned' = [assigned EXCEPT ![server[r]] = r]
        /\ IF Sharing(r) = {} THEN Goto(r, "remove") /\ UNCHANGED records
                              ELSE Finish(r, "completed")
     \/ /\ assigned[server[r]] # oldKey[r] \/ "vault" \in Faults
        /\ Fail(r, TRUE)
        /\ UNCHANGED <<keys, assigned>>
  /\ UNCHANGED <<retired, host, setting>>

\* Over the new key.
Remove(r) ==
  /\ pc[r] = "remove"
  /\ \/ Send(r, "removeOld") /\ Goto(r, "removing")
     \/ ("network" \in Faults \/ ~Accepts(r, r))
        /\ Goto(r, "checkOld") /\ UNCHANGED host
  /\ UNCHANGED <<db, records, setting>>

\* Mutant: only cloud accounts and file connections are looked at.
UnusedElsewhere(k) == k = 0 => ~setting.held

\* retireIfUnused: no server, cloud account or file connection has the key.
Unused(k) == (\A s \in Servers : assigned[s] # k) /\ (k = 0 => ~setting.held)

RemovedOld(r) ==
  /\ pc[r] = "removing"
  /\ \/ /\ Answer(r, "removeOld", "done")
        /\ retired' = retired \union {k \in {oldKey[r]} \intersect keys : Unused(k)}
        /\ Finish(r, "completed")
     \/ /\ Answer(r, "removeOld", "refused") \/ GiveUp(r, "removeOld")
        /\ Goto(r, "checkOld")
        /\ UNCHANGED <<retired, records>>
  /\ UNCHANGED <<assigned, keys, setting>>

-----------------------------------------------------------------------------
(* Putting things back *)

\* Mutant: the old key is gone back to without a login.
CheckOldBlind(r) ==
  /\ pc[r] = "checkOld"
  /\ Goto(r, "revert") /\ UNCHANGED records
  /\ UNCHANGED <<db, host, setting>>

\* rollBackAfterSwitch: back only if a login with the old key works.
CheckOld(r) ==
  /\ pc[r] = "checkOld"
  /\ \/ Accepts(r, oldKey[r]) /\ Goto(r, "revert") /\ UNCHANGED records
     \/ ("network" \in Faults \/ ~Accepts(r, oldKey[r]))
        /\ Finish(r, "completed")
  /\ UNCHANGED <<db, host, setting>>

\* One transaction, unless the server was reassigned.  A reference to a key
\* without a row, or to the row deleted here, fails it: the rotation is then
\* recorded as failed by runRotation's catch.
Revert(r) ==
  /\ pc[r] = "revert"
  /\ LET sound == oldKey[r] \in keys /\ \A s \in Servers \ {server[r]} : assigned[s] # r
     IN \/ /\ assigned[server[r]] = r /\ sound
           /\ assigned' = [assigned EXCEPT ![server[r]] = oldKey[r]]
           /\ keys' = keys \ {r} /\ retired' = retired \ {r}
           /\ Goto(r, "undo") /\ UNCHANGED records
        \/ /\ assigned[server[r]] = r /\ ~sound
           /\ Finish(r, "failed") /\ UNCHANGED db
        \/ /\ assigned[server[r]] # r
           /\ Finish(r, "completed") /\ UNCHANGED db
  /\ UNCHANGED <<host, setting>>

\* The new line is removed over the old key; failing to only adds a warning.
Undo(r) ==
  /\ pc[r] = "undo"
  /\ \/ Send(r, "removeNew") /\ Goto(r, "undoing") /\ UNCHANGED records
     \/ ("network" \in Faults \/ ~Accepts(r, oldKey[r]))
        /\ Finish(r, "rolled_back") /\ UNCHANGED host
  /\ UNCHANGED <<db, setting>>

Undone(r) ==
  /\ pc[r] = "undoing"
  /\ \/ Answer(r, "removeNew", "done")
     \/ Answer(r, "removeNew", "refused")
     \/ GiveUp(r, "removeNew")
  /\ Finish(r, "rolled_back")
  /\ UNCHANGED <<db, setting>>

-----------------------------------------------------------------------------
(* The hosts *)

Set(r, c, state) == script' = [script EXCEPT ![r][c] = state]

\* INSTALL_SCRIPT: appends the new line where the old one is listed.
RunInstall(r) ==
  /\ script[r]["install"] = "sent"
  /\ IF Accepts(r, oldKey[r])
     THEN lines' = [lines EXCEPT ![Account(r)] = @ \union {r}] /\ Set(r, "install", "done")
     ELSE UNCHANGED lines /\ Set(r, "install", "refused")
  /\ UNCHANGED <<db, records, pc, draft, setting>>

\* REMOVE_SCRIPT: refuses without the line that must stay, edits a copy,
RunRemove(r, c) ==
  /\ script[r][c] = "sent"
  /\ IF ~Accepts(r, Keeps(r, c))
     THEN Set(r, c, "refused") /\ UNCHANGED draft
     ELSE IF ~Accepts(r, Drops(r, c))
     THEN Set(r, c, "done") /\ UNCHANGED draft
     ELSE Set(r, c, "copied") /\ draft' = [draft EXCEPT ![r][c] = lines[Account(r)] \ {Drops(r, c)}]
  /\ UNCHANGED <<db, records, pc, lines, setting>>

\* and renames it over the file.
RunRename(r, c) ==
  /\ script[r][c] = "copied"
  /\ lines' = [lines EXCEPT ![Account(r)] = draft[r][c]]
  /\ draft' = [draft EXCEPT ![r][c] = {}]
  /\ Set(r, c, "done")
  /\ UNCHANGED <<db, records, pc, setting>>

\* Mutant: what was running when the process died stays so.
RestartForgets ==
  /\ "crash" \in Faults
  /\ \E r \in Rots : pc[r] # "none"
  /\ pc' = [r \in Rots |-> "none"]
  /\ UNCHANGED <<db, records, host, setting>>

\* The process dies and starts again: markInterruptedRotations.  Its
\* connections are gone; only a late script still runs.
Restart ==
  /\ "crash" \in Faults
  /\ \E r \in Rots : status[r] \in Open
  /\ pc' = [r \in Rots |-> "none"]
  /\ status' = [r \in Rots |-> IF status[r] \in Open THEN "interrupted" ELSE status[r]]
  /\ IF "late" \in Faults
     THEN UNCHANGED <<script, draft>>
     ELSE /\ script' = [r \in Rots |-> [c \in Calls |-> "none"]]
          /\ draft' = [r \in Rots |-> [c \in Calls |-> {}]]
  /\ UNCHANGED <<db, server, oldKey, lines, setting>>

Rotate ==
  \E r \in Rots :
    \/ Start(r) \/ Install(r) \/ Installed(r) \/ Verify(r) \/ Switch(r) \/ Remove(r) \/ RemovedOld(r)
    \/ CheckOld(r) \/ Revert(r) \/ Undo(r) \/ Undone(r)

Host ==
  \E r \in Rots :
    \/ RunInstall(r)
    \/ \E c \in {"removeOld", "removeNew"} : RunRemove(r, c) \/ RunRename(r, c)

Admin == \E s \in Servers : Request(s) \/ Reassign(s)

Next == Admin \/ (\E k \in Keys : DeleteKey(k)) \/ Rotate \/ Host \/ Restart

Spec == Init /\ [][Next]_vars

\* Every remote call has a time limit, and a host runs what it was sent.
FairSpec == Spec /\ WF_vars(Rotate) /\ WF_vars(Host)

-----------------------------------------------------------------------------
(* What the code's comments promise *)

\* "The server is never left pointing at a key it does not accept"
\* (key-rotation.ts:34).
Accepted ==
  \A s \in Servers : assigned[s] # Password => assigned[s] \in lines[setting.account[s]]

\* "mark the old key retired once no server uses it" (key-rotation.ts:28): the
\* app refuses to log in with a retired key (credentials.ts:51).
RetiredUnused == \A s \in Servers : assigned[s] \notin retired

-----------------------------------------------------------------------------
(* Properties: what of it holds, and in which settings *)

Isolated == \A s, t \in Servers : s # t => setting.account[s] # setting.account[t]
Apart == Isolated \/ ~setting.together
Quiet(s) == \A r \in Rots : status[r] \in Open => server[r] # s

\* With one server per account, or one rotation at a time, through lost
\* connections and restarts at any step: as long as nobody else changes the
\* server's key and no script outlives the wait for it, the host accepts the
\* key the server points at (key-rotation.ts:34).
NeverLockedOut == Apart /\ "late" \notin Faults /\ "reassign" \notin setting.admin => Accepted

\* One rotation at a time, whatever else happens: no server is left on a key
\* the app itself refuses (key-rotation.ts:402-450).
RetiredOnlyUnused == ~setting.together => RetiredUnused

\* Never two rotations of one server (key-rotation.ts:275-304).
OnePerServer ==
  \A q, r \in Rots : q # r /\ {status[q], status[r]} \subseteq Open => server[q] # server[r]

\* The record tells the truth (shared/types/ssh-key.ts:38-40): a rotation that
\* failed left the host without its key, one that failed or was rolled back
\* left no row of it, and no server is back on a key older than that of its
\* last completed rotation.
RecordsTrue ==
  setting.admin \intersect {"reassign", "delete"} = {} =>
    /\ \A r \in Rots :
         /\ status[r] \in {"failed", "rolled_back"} => r \notin keys
         /\ status[r] = "failed" => r \notin lines[Account(r)]
    /\ \A s \in Servers : Quiet(s) =>
         \A k \in {0} \union {r \in Rots : status[r] = "completed" /\ server[r] = s} :
           k <= assigned[s]

\* When no connection fails, a file lists exactly the keys of the servers that
\* use it once their rotations are over: old lines go, lines others need stay
\* (key-rotation.ts:379-400, 624-634).
FilesExact ==
  Apart /\ Faults \subseteq {"vault"} /\ "reassign" \notin setting.admin =>
    \A a \in Accounts :
      LET users == {s \in Servers : setting.account[s] = a}
      IN users # {} /\ (\A s \in users : Quiet(s)) => lines[a] = {assigned[s] : s \in users}

\* Every requested rotation comes to an end (key-rotation.ts:457-461).
EveryRotationEnds == \A r \in Rots : status[r] \in Open ~> status[r] \notin Open

=============================================================================
