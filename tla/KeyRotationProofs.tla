------------------------- MODULE KeyRotationProofs -------------------------
(* For any servers, accounts and number of rotations: the types and records *)
(* of KeyRotation, one rotation per server, that a rotation's record tells  *)
(* what became of the key, that an edit leaves the file as it should be,    *)
(* that no server is left on a retired key where rotations come one after   *)
(* another, and that nobody is locked out where nothing but the rotations   *)
(* changes an account.                                                      *)
EXTENDS KeyRotation, TLAPS

Removals == {"removeOld", "removeNew"}

\* A rotation waits somewhere exactly while its record says that it runs.
InStep == \A r \in Rots : pc[r] # "none" <=> status[r] = "running"

Sound == TypeOK /\ InStep /\ OnePerServer

\* The settings in which rotations come one after another.
OneByOne == \A q, r \in Rots : pc[q] # "none" /\ pc[r] # "none" => q = r

\* A rotation's own key has no row before the switch, and no key without a row
\* is retired.
Fresh ==
  /\ retired \subseteq keys
  /\ \A r \in Rots :
       status[r] \in {"none", "pending"} \/ pc[r] \in {"install", "installing", "verify", "switch"} => r \notin keys

\* Neither a server nor a rotation under way has to do with a retired key.
Current ==
  /\ \A s \in Servers : assigned[s] \notin retired
  /\ \A r \in Rots : pc[r] # "none" => oldKey[r] \notin retired

RetiredInv == ~setting.together => OneByOne /\ Current

-----------------------------------------------------------------------------
(* The settings in which no server is locked out *)

Calm == Apart /\ "late" \notin Faults /\ "reassign" \notin setting.admin

\* Rotations under way at the same time are of different accounts.
Alone == \A q, r \in Rots : pc[q] # "none" /\ pc[r] # "none" /\ q # r => Account(q) # Account(r)

Waiting(c) == IF c = "install" THEN "installing" ELSE IF c = "removeOld" THEN "removing" ELSE "undoing"

\* A script runs only while its rotation waits for it, and an edited copy is
\* still the file without the one line.
OwnScripts(r) ==
  \A c \in Calls :
    /\ script[r][c] # "none" => pc[r] = Waiting(c)
    /\ script[r][c] = "copied" => draft[r][c] = lines[Account(r)] \ {Drops(r, c)}

Scripts == \A r \in Rots : OwnScripts(r)

\* The settings in which a server's key is the rotations' business alone.
Untampered == "reassign" \notin setting.admin

\* A key that is used is the first one or that of a rotation of this server.
Made(k, s) == k # 0 => k \in Rots /\ status[k] \notin {"none", "pending"} /\ server[k] = s

Origins ==
  /\ \A s \in Servers : Made(assigned[s], s)
  /\ \A r \in Rots : status[r] # "none" => Made(oldKey[r], server[r]) /\ oldKey[r] # r

\* Where a rotation is tells which key its server has,
OwnHold(r) ==
  /\ pc[r] \in {"install", "installing", "verify", "switch", "undo", "undoing"} => assigned[server[r]] = oldKey[r]
  /\ pc[r] \in {"remove", "removing", "checkOld", "revert"} => assigned[server[r]] = r

\* which lines are known to be there, and that nobody else needs the line it
\* is about to remove.
OwnPlace(r) ==
  /\ OwnHold(r)
  /\ pc[r] = "switch" => r \in lines[Account(r)]
  /\ pc[r] = "revert" => oldKey[r] \in lines[Account(r)]
  /\ pc[r] \in {"remove", "removing"} => Sharing(r) = {}

Places == \A r \in Rots : OwnPlace(r)

AccessInv == Calm => Scripts /\ Origins /\ Places /\ Accepted

-----------------------------------------------------------------------------
(* Facts about the constants *)

\* What the assumption says of the setting in force.
LEMMA SettingFacts ==
  ASSUME setting \in Settings
  PROVE  /\ setting.account \in [Servers -> Accounts]
         /\ setting.together \in BOOLEAN
         /\ setting.requests \in 0..MaxRot
         /\ 1..setting.requests \subseteq Rots
  BY RotationConstants DEF Rots

\* Rotations are keys, and neither the first key nor the password is one.
LEMMA KeyFacts ==
  /\ Rots \subseteq Keys /\ 0 \in Keys /\ 0 \notin Rots
  /\ Password \notin Keys
  /\ Keys = Rots \union {0}
  BY RotationConstants DEF Rots, Keys, Password

\* No step changes the setting.
LEMMA NextFacts ==
  ASSUME setting \in Settings, [Next]_vars
  PROVE  setting' = setting
  BY DEF Next, Admin, Rotate, Host, vars, Request, Reassign, DeleteKey, Start, Install, Installed, Verify, Switch, Remove,
     RemovedOld, CheckOld, Revert, Undo, Undone, RunInstall, RunRemove, RunRename, Restart

-----------------------------------------------------------------------------
(* What a step of a rotation does to its record and to its scripts *)

\* A rotation goes on, or it is over.
Advances(r) == (\E step \in Steps \ {"none"} : Goto(r, step)) /\ UNCHANGED records
Ends(r) == \E outcome \in {"completed", "rolled_back", "failed"} : Finish(r, outcome)

Going(r) ==
  \/ Install(r) \/ Installed(r) \/ Verify(r) \/ Switch(r) \/ Remove(r) \/ RemovedOld(r)
  \/ CheckOld(r) \/ Revert(r) \/ Undo(r) \/ Undone(r)

\* Every step of a rotation that has started advances or ends it.
LEMMA Moves ==
  ASSUME NEW r \in Rots, Going(r)
  PROVE  pc[r] # "none" /\ (Advances(r) \/ Ends(r))
<1> USE DEF Advances, Ends, Fail, Steps
<1>1. CASE Install(r)
  BY <1>1 DEF Install
<1>2. CASE Installed(r)
  BY <1>2 DEF Installed
<1>3. CASE Verify(r)
  BY <1>3 DEF Verify
<1>4. CASE Switch(r)
  BY <1>4 DEF Switch
<1>5. CASE Remove(r)
  BY <1>5 DEF Remove
<1>6. CASE RemovedOld(r)
  BY <1>6 DEF RemovedOld
<1>7. CASE CheckOld(r)
  BY <1>7 DEF CheckOld
<1>8. CASE Revert(r)
  BY <1>8 DEF Revert
<1>9. CASE Undo(r)
  BY <1>9 DEF Undo
<1>10. CASE Undone(r)
  BY <1>10 DEF Undone
<1> QED BY <1>1, <1>2, <1>3, <1>4, <1>5, <1>6, <1>7, <1>8, <1>9, <1>10 DEF Going

\* One script of one rotation changes its state.
LEMMA ScriptTyped ==
  ASSUME script \in [Rots -> [Calls -> {"none", "sent", "copied", "done", "refused"}]],
         NEW r \in Rots, NEW c \in Calls, NEW state \in {"none", "sent", "copied", "done", "refused"},
         script' = [script EXCEPT ![r][c] = state]
  PROVE  /\ script' \in [Rots -> [Calls -> {"none", "sent", "copied", "done", "refused"}]]
         /\ script'[r][c] = state
         /\ \A q \in Rots, d \in Calls : q # r \/ d # c => script'[q][d] = script[q][d]
  OBVIOUS

\* And so does one draft.
LEMMA DraftTyped ==
  ASSUME draft \in [Rots -> [Calls -> SUBSET Keys]],
         NEW r \in Rots, NEW c \in Calls, NEW lines1 \in SUBSET Keys,
         draft' = [draft EXCEPT ![r][c] = lines1]
  PROVE  /\ draft' \in [Rots -> [Calls -> SUBSET Keys]]
         /\ draft'[r][c] = lines1
         /\ \A q \in Rots, d \in Calls : q # r \/ d # c => draft'[q][d] = draft[q][d]
  OBVIOUS

\* What the calls of a rotation do to the host is to its own script.
LEMMA CallTyped ==
  ASSUME TypeOK, NEW r \in Rots, NEW c \in Calls,
         Send(r, c) \/ GiveUp(r, c) \/ (\E outcome \in {"done", "refused"} : Answer(r, c, outcome))
  PROVE  /\ lines' = lines
         /\ script' \in [Rots -> [Calls -> {"none", "sent", "copied", "done", "refused"}]]
         /\ draft' \in [Rots -> [Calls -> SUBSET Keys]]
<1> USE DEF TypeOK
<1>1. CASE Send(r, c)
  BY <1>1, ScriptTyped DEF Send
<1>2. CASE GiveUp(r, c)
  <2>1. CASE script' = [script EXCEPT ![r][c] = "none"] /\ draft' = [draft EXCEPT ![r][c] = {}]
    <3>1. script' \in [Rots -> [Calls -> {"none", "sent", "copied", "done", "refused"}]]
      BY <2>1, ScriptTyped
    <3>2. {} \in SUBSET Keys
      OBVIOUS
    <3>3. draft' \in [Rots -> [Calls -> SUBSET Keys]]
      BY <2>1, <3>2, DraftTyped
    <3> QED BY <1>2, <3>1, <3>3 DEF GiveUp
  <2>2. CASE UNCHANGED <<script, draft>>
    BY <1>2, <2>2 DEF GiveUp
  <2> QED BY <1>2, <2>1, <2>2 DEF GiveUp
<1>3. CASE \E outcome \in {"done", "refused"} : Answer(r, c, outcome)
  BY <1>3, ScriptTyped DEF Answer
<1> QED BY <1>1, <1>2, <1>3

-----------------------------------------------------------------------------
(* Types *)

\* A step of a rotation keeps the types of its record.
LEMMA RecordTyped ==
  ASSUME TypeOK, NEW r \in Rots, Advances(r) \/ Ends(r)
  PROVE  /\ status' \in [Rots -> Statuses] /\ server' \in [Rots -> Servers]
         /\ oldKey' \in [Rots -> Keys] /\ pc' \in [Rots -> Steps]
  BY DEF TypeOK, Advances, Ends, Goto, Finish, Steps, Statuses, Open, records

\* A step of a rotation makes or ends one remote call, or none.
LEMMA CallOrNone ==
  ASSUME NEW r \in Rots, Going(r)
  PROVE  UNCHANGED host \/ (\E c \in Calls : Send(r, c) \/ GiveUp(r, c) \/ \E outcome \in {"done", "refused"} : Answer(r, c, outcome))
<1>1. CASE Install(r)
  BY <1>1 DEF Install, Calls, host
<1>2. CASE Installed(r)
  BY <1>2 DEF Installed, Calls, host
<1>3. CASE Verify(r)
  BY <1>3 DEF Verify, Calls, host
<1>4. CASE Switch(r)
  BY <1>4 DEF Switch, Calls, host
<1>5. CASE Remove(r)
  BY <1>5 DEF Remove, Calls, host
<1>6. CASE RemovedOld(r)
  BY <1>6 DEF RemovedOld, Calls, host
<1>7. CASE CheckOld(r)
  BY <1>7 DEF CheckOld, Calls, host
<1>8. CASE Revert(r)
  BY <1>8 DEF Revert, Calls, host
<1>9. CASE Undo(r)
  BY <1>9 DEF Undo, Calls, host
<1>10. CASE Undone(r)
  BY <1>10 DEF Undone, Calls, host
<1> QED BY <1>1, <1>2, <1>3, <1>4, <1>5, <1>6, <1>7, <1>8, <1>9, <1>10 DEF Going

\* A step of a rotation keeps the types.
LEMMA GoingTyped ==
  ASSUME TypeOK, NEW r \in Rots, Going(r)
  PROVE  TypeOK'
<1>1. pc' \in [Rots -> Steps] /\ status' \in [Rots -> Statuses] /\ server' \in [Rots -> Servers] /\ oldKey' \in [Rots -> Keys]
  BY Moves, RecordTyped
<1>2. UNCHANGED host \/ (\E c \in Calls : Send(r, c) \/ GiveUp(r, c) \/ \E outcome \in {"done", "refused"} : Answer(r, c, outcome))
  BY CallOrNone
<1>3. UNCHANGED setting /\ assigned' \in [Servers -> Keys \union {Password}] /\ retired' \subseteq Keys /\ keys' \subseteq Keys
  <2>1. CASE Install(r)
    BY <2>1, KeyFacts DEF Install, TypeOK, db
  <2>2. CASE Installed(r)
    BY <2>2, KeyFacts DEF Installed, TypeOK, db
  <2>3. CASE Verify(r)
    BY <2>3, KeyFacts DEF Verify, TypeOK, db
  <2>4. CASE Switch(r)
    <3>1. UNCHANGED <<setting, retired>> /\ keys' \in {keys, keys \union {r}}
      BY <2>4 DEF Switch
    <3>2. assigned' = assigned \/ assigned' = [assigned EXCEPT ![server[r]] = r]
      BY <2>4 DEF Switch
    <3> QED BY <3>1, <3>2, KeyFacts DEF TypeOK
  <2>5. CASE Remove(r)
    BY <2>5, KeyFacts DEF Remove, TypeOK, db
  <2>6. CASE RemovedOld(r)
    BY <2>6, KeyFacts DEF RemovedOld, TypeOK, db
  <2>7. CASE CheckOld(r)
    BY <2>7, KeyFacts DEF CheckOld, TypeOK, db
  <2>8. CASE Revert(r)
    BY <2>8, KeyFacts DEF Revert, TypeOK, db
  <2>9. CASE Undo(r)
    BY <2>9, KeyFacts DEF Undo, TypeOK, db
  <2>10. CASE Undone(r)
    BY <2>10, KeyFacts DEF Undone, TypeOK, db
  <2> QED BY <2>1, <2>2, <2>3, <2>4, <2>5, <2>6, <2>7, <2>8, <2>9, <2>10 DEF Going
<1>4. lines' = lines /\ script' \in [Rots -> [Calls -> {"none", "sent", "copied", "done", "refused"}]] /\ draft' \in [Rots -> [Calls -> SUBSET Keys]]
  BY <1>2, CallTyped DEF TypeOK, host
<1> QED BY <1>1, <1>3, <1>4 DEF TypeOK

\* Every step keeps the types.
LEMMA TypesKept == TypeOK /\ [Next]_vars => TypeOK'
<1> SUFFICES ASSUME TypeOK, [Next]_vars PROVE TypeOK'
  OBVIOUS
<1> USE SettingFacts, KeyFacts DEF TypeOK, Statuses, Open, db, records, host, Account
<1>0. CASE UNCHANGED vars
  BY <1>0 DEF vars
<1>1. ASSUME NEW s \in Servers, Request(s) PROVE TypeOK'
  <2>1. PICK r \in Rots : Record(r, s)
    BY <1>1, SettingFacts DEF Request
  <2> QED BY <1>1, <2>1 DEF Request, Record
<1>2. ASSUME NEW s \in Servers, Reassign(s) PROVE TypeOK'
  BY <1>2 DEF Reassign
<1>3. ASSUME NEW k \in Keys, DeleteKey(k) PROVE TypeOK'
  BY <1>3 DEF DeleteKey
<1>4. ASSUME NEW r \in Rots, Start(r) PROVE TypeOK'
  <2>1. status' \in [Rots -> Statuses] /\ pc' \in [Rots -> Steps] /\ UNCHANGED <<server, oldKey>>
    BY <1>4 DEF Start, Goto, Finish, Statuses, Steps, Open
  <2> QED BY <1>4, <2>1 DEF Start
<1>5. ASSUME NEW r \in Rots, Install(r) PROVE TypeOK'
  BY <1>5, GoingTyped DEF Going
<1>6. ASSUME NEW r \in Rots, Installed(r) PROVE TypeOK'
  BY <1>6, GoingTyped DEF Going
<1>7. ASSUME NEW r \in Rots, Verify(r) PROVE TypeOK'
  BY <1>7, GoingTyped DEF Going
<1>8. ASSUME NEW r \in Rots, Switch(r) PROVE TypeOK'
  BY <1>8, GoingTyped DEF Going
<1>9. ASSUME NEW r \in Rots, Remove(r) PROVE TypeOK'
  BY <1>9, GoingTyped DEF Going
<1>10. ASSUME NEW r \in Rots, RemovedOld(r) PROVE TypeOK'
  BY <1>10, GoingTyped DEF Going
<1>11. ASSUME NEW r \in Rots, CheckOld(r) PROVE TypeOK'
  BY <1>11, GoingTyped DEF Going
<1>12. ASSUME NEW r \in Rots, Revert(r) PROVE TypeOK'
  BY <1>12, GoingTyped DEF Going
<1>13. ASSUME NEW r \in Rots, Undo(r) PROVE TypeOK'
  BY <1>13, GoingTyped DEF Going
<1>14. ASSUME NEW r \in Rots, Undone(r) PROVE TypeOK'
  BY <1>14, GoingTyped DEF Going
<1>15. ASSUME NEW r \in Rots, RunInstall(r) PROVE TypeOK'
  <2>1. script' \in [Rots -> [Calls -> {"none", "sent", "copied", "done", "refused"}]]
    BY <1>15, ScriptTyped DEF RunInstall, Set, Calls
  <2> QED BY <1>15, <2>1 DEF RunInstall
<1>16. ASSUME NEW r \in Rots, NEW c \in Removals, RunRemove(r, c) PROVE TypeOK'
  <2>1. c \in Calls /\ Drops(r, c) \in Keys /\ lines[Account(r)] \in SUBSET Keys
    BY DEF Calls, Removals, Drops
  <2>2. script' \in [Rots -> [Calls -> {"none", "sent", "copied", "done", "refused"}]]
    BY <1>16, <2>1, ScriptTyped DEF RunRemove, Set
  <2>3. draft' \in [Rots -> [Calls -> SUBSET Keys]]
    <3>1. CASE draft' = [draft EXCEPT ![r][c] = lines[Account(r)] \ {Drops(r, c)}]
      <4>1. lines[Account(r)] \ {Drops(r, c)} \in SUBSET Keys
        BY <2>1
      <4> QED BY <2>1, <3>1, <4>1, DraftTyped
    <3>2. CASE UNCHANGED draft
      BY <3>2
    <3> QED BY <1>16, <3>1, <3>2 DEF RunRemove
  <2> QED BY <1>16, <2>2, <2>3 DEF RunRemove
<1>17. ASSUME NEW r \in Rots, NEW c \in Removals, RunRename(r, c) PROVE TypeOK'
  <2>1. c \in Calls /\ draft[r][c] \in SUBSET Keys
    BY DEF Calls, Removals
  <2>2. script' \in [Rots -> [Calls -> {"none", "sent", "copied", "done", "refused"}]]
    BY <1>17, <2>1, ScriptTyped DEF RunRename, Set
  <2>3. draft' \in [Rots -> [Calls -> SUBSET Keys]]
    BY <1>17, <2>1, DraftTyped DEF RunRename
  <2>4. lines' \in [Accounts -> SUBSET Keys]
    BY <1>17, <2>1 DEF RunRename
  <2> QED BY <1>17, <2>2, <2>3, <2>4 DEF RunRename
<1>18. CASE Restart
  <2>1. status' \in [Rots -> Statuses] /\ pc' \in [Rots -> Steps]
    BY <1>18 DEF Restart, Statuses, Steps, Open
  <2>2. script' \in [Rots -> [Calls -> {"none", "sent", "copied", "done", "refused"}]] /\ draft' \in [Rots -> [Calls -> SUBSET Keys]]
    BY <1>18 DEF Restart
  <2> QED BY <1>18, <2>1, <2>2 DEF Restart
<1> QED BY <1>0, <1>1, <1>2, <1>3, <1>4, <1>5, <1>6, <1>7, <1>8, <1>9, <1>10, <1>11, <1>12, <1>13, <1>14, <1>15, <1>16, <1>17, <1>18 DEF Next, Admin, Rotate, Host, Removals

\* Records and steps agree, and a server is in one open rotation at most.
LEMMA StepsKept == Sound /\ [Next]_vars => InStep' /\ OnePerServer'
<1> SUFFICES ASSUME Sound, [Next]_vars PROVE InStep' /\ OnePerServer'
  OBVIOUS
<1> USE DEF Sound, TypeOK, InStep, OnePerServer, Open, db, records, host
<1>0. CASE UNCHANGED vars
  BY <1>0 DEF vars
<1>a. ASSUME NEW r \in Rots, Going(r) PROVE InStep' /\ OnePerServer'
  <2>1. CASE Advances(r)
    BY <1>a, <2>1, Moves DEF Advances, Goto
  <2>2. CASE Ends(r)
    BY <1>a, <2>2, Moves DEF Ends, Finish, Goto
  <2> QED BY <1>a, <2>1, <2>2, Moves
<1>1. ASSUME NEW s \in Servers, Request(s) PROVE InStep' /\ OnePerServer'
  <2>1. PICK r \in Rots : Record(r, s) /\ status[r] = "none"
    BY <1>1, SettingFacts DEF Request
  <2> QED BY <1>1, <2>1 DEF Request, Record, InProgress
<1>2. ASSUME NEW s \in Servers, Reassign(s) PROVE InStep' /\ OnePerServer'
  BY <1>2 DEF Reassign
<1>3. ASSUME NEW k \in Keys, DeleteKey(k) PROVE InStep' /\ OnePerServer'
  BY <1>3 DEF DeleteKey
<1>4. ASSUME NEW r \in Rots, Start(r) PROVE InStep' /\ OnePerServer'
  <2>2. \/ status' = [status EXCEPT ![r] = "running"] /\ \E step \in Steps \ {"none"} : pc' = [pc EXCEPT ![r] = step]
        \/ status' = [status EXCEPT ![r] = "failed"] /\ pc' = [pc EXCEPT ![r] = "none"]
    BY <1>4 DEF Start, Goto, Finish, Steps
  <2>3. UNCHANGED server /\ status[r] = "pending"
    BY <1>4 DEF Start, Finish
  <2>4. CASE status' = [status EXCEPT ![r] = "running"] /\ \E step \in Steps \ {"none"} : pc' = [pc EXCEPT ![r] = step]
    BY <2>3, <2>4
  <2>5. CASE status' = [status EXCEPT ![r] = "failed"] /\ pc' = [pc EXCEPT ![r] = "none"]
    BY <2>3, <2>5
  <2> QED BY <2>2, <2>4, <2>5
<1>5. ASSUME NEW r \in Rots, Install(r) PROVE InStep' /\ OnePerServer'
  BY <1>5, <1>a DEF Going
<1>6. ASSUME NEW r \in Rots, Installed(r) PROVE InStep' /\ OnePerServer'
  BY <1>6, <1>a DEF Going
<1>7. ASSUME NEW r \in Rots, Verify(r) PROVE InStep' /\ OnePerServer'
  BY <1>7, <1>a DEF Going
<1>8. ASSUME NEW r \in Rots, Switch(r) PROVE InStep' /\ OnePerServer'
  BY <1>8, <1>a DEF Going
<1>9. ASSUME NEW r \in Rots, Remove(r) PROVE InStep' /\ OnePerServer'
  BY <1>9, <1>a DEF Going
<1>10. ASSUME NEW r \in Rots, RemovedOld(r) PROVE InStep' /\ OnePerServer'
  BY <1>10, <1>a DEF Going
<1>11. ASSUME NEW r \in Rots, CheckOld(r) PROVE InStep' /\ OnePerServer'
  BY <1>11, <1>a DEF Going
<1>12. ASSUME NEW r \in Rots, Revert(r) PROVE InStep' /\ OnePerServer'
  BY <1>12, <1>a DEF Going
<1>13. ASSUME NEW r \in Rots, Undo(r) PROVE InStep' /\ OnePerServer'
  BY <1>13, <1>a DEF Going
<1>14. ASSUME NEW r \in Rots, Undone(r) PROVE InStep' /\ OnePerServer'
  BY <1>14, <1>a DEF Going
<1>15. ASSUME NEW r \in Rots, RunInstall(r) PROVE InStep' /\ OnePerServer'
  BY <1>15 DEF RunInstall
<1>16. ASSUME NEW r \in Rots, NEW c \in Removals, RunRemove(r, c) PROVE InStep' /\ OnePerServer'
  BY <1>16 DEF RunRemove
<1>17. ASSUME NEW r \in Rots, NEW c \in Removals, RunRename(r, c) PROVE InStep' /\ OnePerServer'
  BY <1>17 DEF RunRename
<1>18. CASE Restart
  BY <1>18 DEF Restart
<1> QED BY <1>0, <1>1, <1>2, <1>3, <1>4, <1>5, <1>6, <1>7, <1>8, <1>9, <1>10, <1>11, <1>12, <1>13, <1>14, <1>15, <1>16, <1>17, <1>18 DEF Next, Admin, Rotate, Host, Removals

-----------------------------------------------------------------------------
(* Keys that are retired, or not yet saved *)

\* A rotation's key has no row before its switch, and only keys with a row are retired.
LEMMA FreshKept == Sound /\ Fresh /\ [Next]_vars => Fresh'
<1> SUFFICES ASSUME Sound, Fresh, [Next]_vars PROVE Fresh'
  OBVIOUS
<1> USE SettingFacts DEF Sound, TypeOK, InStep, Fresh, db, records, Goto, Finish, Fail
<1>0. CASE UNCHANGED vars
  BY <1>0 DEF vars
<1>1. ASSUME NEW s \in Servers, Request(s) PROVE Fresh'
  <2>1. PICK r \in Rots : Record(r, s) /\ status[r] = "none"
    BY <1>1, SettingFacts DEF Request
  <2> QED BY <1>1, <2>1 DEF Request, Record
<1>2. ASSUME NEW s \in Servers, Reassign(s) PROVE Fresh'
  BY <1>2 DEF Reassign
<1>3. ASSUME NEW k \in Keys, DeleteKey(k) PROVE Fresh'
  BY <1>3 DEF DeleteKey
<1>4. ASSUME NEW r \in Rots, Start(r) PROVE Fresh'
  BY <1>4 DEF Start
<1>5. ASSUME NEW r \in Rots, Install(r) PROVE Fresh'
  BY <1>5 DEF Install
<1>6. ASSUME NEW r \in Rots, Installed(r) PROVE Fresh'
  BY <1>6 DEF Installed
<1>7. ASSUME NEW r \in Rots, Verify(r) PROVE Fresh'
  BY <1>7 DEF Verify
<1>8. ASSUME NEW r \in Rots, Switch(r) PROVE Fresh'
  BY <1>8 DEF Switch
<1>9. ASSUME NEW r \in Rots, Remove(r) PROVE Fresh'
  BY <1>9 DEF Remove
<1>10. ASSUME NEW r \in Rots, RemovedOld(r) PROVE Fresh'
  BY <1>10 DEF RemovedOld
<1>11. ASSUME NEW r \in Rots, CheckOld(r) PROVE Fresh'
  BY <1>11 DEF CheckOld
<1>12. ASSUME NEW r \in Rots, Revert(r) PROVE Fresh'
  BY <1>12 DEF Revert
<1>13. ASSUME NEW r \in Rots, Undo(r) PROVE Fresh'
  BY <1>13 DEF Undo
<1>14. ASSUME NEW r \in Rots, Undone(r) PROVE Fresh'
  BY <1>14 DEF Undone
<1>15. ASSUME NEW r \in Rots, RunInstall(r) PROVE Fresh'
  BY <1>15 DEF RunInstall
<1>16. ASSUME NEW r \in Rots, NEW c \in Removals, RunRemove(r, c) PROVE Fresh'
  BY <1>16 DEF RunRemove
<1>17. ASSUME NEW r \in Rots, NEW c \in Removals, RunRename(r, c) PROVE Fresh'
  BY <1>17 DEF RunRename
<1>18. CASE Restart
  BY <1>18 DEF Restart
<1> QED BY <1>0, <1>1, <1>2, <1>3, <1>4, <1>5, <1>6, <1>7, <1>8, <1>9, <1>10, <1>11, <1>12, <1>13, <1>14, <1>15, <1>16, <1>17, <1>18 DEF Next, Admin, Rotate, Host, Removals

\* One rotation at a time: nothing retired is in use or may be gone back to.
LEMMA RetiredKept == Sound /\ Fresh /\ RetiredInv /\ [Next]_vars => RetiredInv'
<1> SUFFICES ASSUME Sound, Fresh, RetiredInv, [Next]_vars PROVE RetiredInv'
  OBVIOUS
<1> USE SettingFacts, KeyFacts, NextFacts DEF Sound, TypeOK, InStep, Fresh, RetiredInv, OneByOne, Current, db, records, Goto, Finish, Fail
<1>0. CASE UNCHANGED vars
  BY <1>0 DEF vars
<1>1. ASSUME NEW s \in Servers, Request(s) PROVE RetiredInv'
  <2>1. PICK r \in Rots : Record(r, s) /\ status[r] = "none"
    BY <1>1, SettingFacts DEF Request
  <2> QED BY <1>1, <2>1 DEF Request, Record
<1>2. ASSUME NEW s \in Servers, Reassign(s) PROVE RetiredInv'
  BY <1>2 DEF Reassign
<1>3. ASSUME NEW k \in Keys, DeleteKey(k) PROVE RetiredInv'
  BY <1>3 DEF DeleteKey
<1>4. ASSUME NEW r \in Rots, Start(r) PROVE RetiredInv'
  BY <1>4 DEF Start
<1>5. ASSUME NEW r \in Rots, Install(r) PROVE RetiredInv'
  BY ZenonT(40), <1>5 DEF Install
<1>6. ASSUME NEW r \in Rots, Installed(r) PROVE RetiredInv'
  BY ZenonT(40), <1>6 DEF Installed
<1>7. ASSUME NEW r \in Rots, Verify(r) PROVE RetiredInv'
  BY ZenonT(40), <1>7 DEF Verify
<1>8. ASSUME NEW r \in Rots, Switch(r) PROVE RetiredInv'
  <2>1. setting' = setting /\ retired' = retired /\ oldKey' = oldKey
    BY <1>8 DEF Switch
  <2>2. \A q \in Rots : q # r => pc'[q] = pc[q]
    BY <1>8 DEF Switch
  <2>3. pc[r] = "switch" /\ r \notin retired
    BY <1>8 DEF Switch
  <2>4. assigned' = assigned \/ assigned' = [assigned EXCEPT ![server[r]] = r]
    BY <1>8 DEF Switch
  <2>5. \A s \in Servers : assigned'[s] = assigned[s] \/ assigned'[s] = r
    BY <2>4
  <2> QED BY <2>1, <2>2, <2>3, <2>5
<1>9. ASSUME NEW r \in Rots, Remove(r) PROVE RetiredInv'
  BY ZenonT(40), <1>9 DEF Remove
<1>10. ASSUME NEW r \in Rots, RemovedOld(r) PROVE RetiredInv'
  BY ZenonT(40), <1>10 DEF RemovedOld, Unused
<1>11. ASSUME NEW r \in Rots, CheckOld(r) PROVE RetiredInv'
  BY ZenonT(40), <1>11 DEF CheckOld
<1>12. ASSUME NEW r \in Rots, Revert(r) PROVE RetiredInv'
  <2>1. setting' = setting /\ retired' \subseteq retired /\ oldKey' = oldKey
    BY <1>12 DEF Revert
  <2>2. \A q \in Rots : q # r => pc'[q] = pc[q]
    BY <1>12 DEF Revert
  <2>3. pc[r] = "revert"
    BY <1>12 DEF Revert
  <2>4. assigned' = assigned \/ assigned' = [assigned EXCEPT ![server[r]] = oldKey[r]]
    BY <1>12 DEF Revert
  <2>5. \A s \in Servers : assigned'[s] = assigned[s] \/ assigned'[s] = oldKey[r]
    BY <2>4
  <2> QED BY <2>1, <2>2, <2>3, <2>5
<1>13. ASSUME NEW r \in Rots, Undo(r) PROVE RetiredInv'
  BY ZenonT(40), <1>13 DEF Undo
<1>14. ASSUME NEW r \in Rots, Undone(r) PROVE RetiredInv'
  BY <1>14 DEF Undone
<1>15. ASSUME NEW r \in Rots, RunInstall(r) PROVE RetiredInv'
  BY <1>15 DEF RunInstall
<1>16. ASSUME NEW r \in Rots, NEW c \in Removals, RunRemove(r, c) PROVE RetiredInv'
  BY <1>16 DEF RunRemove
<1>17. ASSUME NEW r \in Rots, NEW c \in Removals, RunRename(r, c) PROVE RetiredInv'
  BY <1>17 DEF RunRename
<1>18. CASE Restart
  BY <1>18 DEF Restart
<1> QED BY <1>0, <1>1, <1>2, <1>3, <1>4, <1>5, <1>6, <1>7, <1>8, <1>9, <1>10, <1>11, <1>12, <1>13, <1>14, <1>15, <1>16, <1>17, <1>18 DEF Next, Admin, Rotate, Host, Removals

-----------------------------------------------------------------------------
(* Nobody is locked out *)

\* What a step of a rotation leaves alone.
LEMMA GoingLeaves ==
  ASSUME TypeOK, NEW r \in Rots, Going(r)
  PROVE  /\ pc[r] # "none"
         /\ UNCHANGED <<lines, server, oldKey, setting>>
         /\ \A q \in Rots : q # r => pc'[q] = pc[q] /\ status'[q] = status[q]
         /\ \A q \in Rots, c \in Calls : q # r => script'[q][c] = script[q][c] /\ draft'[q][c] = draft[q][c]
<1>1. pc[r] # "none" /\ (Advances(r) \/ Ends(r))
  BY Moves
<1>2. UNCHANGED host \/ (\E c \in Calls : Send(r, c) \/ GiveUp(r, c) \/ \E outcome \in {"done", "refused"} : Answer(r, c, outcome))
  BY CallOrNone
<1>3. UNCHANGED <<server, oldKey>> /\ \A q \in Rots : q # r => pc'[q] = pc[q] /\ status'[q] = status[q]
  BY <1>1 DEF Advances, Ends, Goto, Finish, records, TypeOK
<1>4. lines' = lines
  BY <1>2, CallTyped DEF host
<1>5. ASSUME NEW q \in Rots, NEW d \in Calls, q # r PROVE script'[q][d] = script[q][d] /\ draft'[q][d] = draft[q][d]
  BY <1>2, <1>5 DEF Send, GiveUp, Answer, host, TypeOK
<1>6. UNCHANGED setting
  BY DEF Going, Install, Installed, Verify, Switch, Remove, RemovedOld, CheckOld, Revert, Undo, Undone
<1> QED BY <1>1, <1>3, <1>4, <1>5, <1>6

\* Rotations of different servers are of different accounts, or one at a time.
LEMMA AloneHolds ==
  ASSUME Sound, RetiredInv, Apart
  PROVE  Alone
  BY DEF Sound, TypeOK, InStep, OnePerServer, Open, RetiredInv, OneByOne, Apart, Isolated, Alone, Account

\* A script runs only while its rotation waits for it.
LEMMA ScriptsKept == Sound /\ RetiredInv /\ AccessInv /\ Calm /\ [Next]_vars => Scripts'
<1> SUFFICES ASSUME Sound, RetiredInv, AccessInv, Calm, [Next]_vars PROVE Scripts'
  OBVIOUS
<1> USE SettingFacts, NextFacts DEF Sound, TypeOK, AccessInv, db, records, host
<1>b. \A r \in Rots : OwnScripts(r)
  BY DEF Scripts
<1>0. CASE UNCHANGED vars
  BY <1>0 DEF vars, Scripts, OwnScripts, Account, Drops
<1>a. ASSUME NEW r \in Rots, Going(r) PROVE \A q \in Rots : q # r => OwnScripts(q)'
  BY <1>a, <1>b, GoingLeaves DEF OwnScripts, Account, Drops, Waiting
<1>1. ASSUME NEW s \in Servers, Request(s) PROVE Scripts'
  <2>1. PICK r \in Rots : Record(r, s) /\ status[r] = "none"
    BY <1>1, SettingFacts DEF Request
  <2>2. \A d \in Calls : script[r][d] = "none"
    BY <1>b, <2>1 DEF OwnScripts, Waiting, Calls, InStep
  <2>3. UNCHANGED <<pc, lines, script, draft, setting>> /\ \A q \in Rots : q # r => server'[q] = server[q] /\ oldKey'[q] = oldKey[q]
    BY <1>1, <2>1 DEF Request, Record
  <2>4. OwnScripts(r)'
    BY <2>2, <2>3 DEF OwnScripts
  <2>5. \A q \in Rots : q # r => OwnScripts(q)'
    BY <1>b, <2>3 DEF OwnScripts, Waiting, Account, Drops
  <2> QED BY <2>4, <2>5 DEF Scripts
<1>2. ASSUME NEW s \in Servers, Reassign(s) PROVE Scripts'
  BY <1>2 DEF Reassign, Calm
<1>3. ASSUME NEW k \in Keys, DeleteKey(k) PROVE Scripts'
  BY <1>3, <1>b DEF DeleteKey, Scripts, OwnScripts, Waiting, Account, Drops
<1>4. ASSUME NEW r \in Rots, Start(r) PROVE Scripts'
  <2>1. \A d \in Calls : script[r][d] = "none"
    BY <1>4, <1>b DEF Start, OwnScripts, Waiting, Calls, InStep
  <2>2. UNCHANGED <<lines, script, draft, server, oldKey, setting>> /\ \A q \in Rots : q # r => pc'[q] = pc[q]
    BY <1>4 DEF Start, Goto, Finish
  <2>3. OwnScripts(r)'
    BY <2>1, <2>2 DEF OwnScripts
  <2>4. \A q \in Rots : q # r => OwnScripts(q)'
    BY <1>b, <2>2 DEF OwnScripts, Waiting, Account, Drops
  <2> QED BY <2>3, <2>4 DEF Scripts
<1>5. ASSUME NEW r \in Rots, Install(r) PROVE Scripts'
  <2>1. OwnScripts(r)'
    BY <1>5, GoingLeaves, <1>b DEF Install, Going, Send, GiveUp, Answer, Goto, Finish, Fail, OwnScripts, Calm, Waiting, Calls, Account, Drops, host, records
  <2> QED BY <1>5, <2>1, <1>a DEF Going, Scripts
<1>6. ASSUME NEW r \in Rots, Installed(r) PROVE Scripts'
  <2>1. OwnScripts(r)'
    BY SMTT(60), <1>6, GoingLeaves, <1>b DEF Installed, Going, Send, GiveUp, Answer, Goto, Finish, Fail, OwnScripts, Calm, Waiting, Calls, Account, Drops, host, records
  <2> QED BY <1>6, <2>1, <1>a DEF Going, Scripts
<1>7. ASSUME NEW r \in Rots, Verify(r) PROVE Scripts'
  <2>1. OwnScripts(r)'
    BY SMTT(60), <1>7, GoingLeaves, <1>b DEF Verify, Going, Send, GiveUp, Answer, Goto, Finish, Fail, OwnScripts, Calm, Waiting, Calls, Account, Drops, host, records
  <2> QED BY <1>7, <2>1, <1>a DEF Going, Scripts
<1>8. ASSUME NEW r \in Rots, Switch(r) PROVE Scripts'
  <2>1. OwnScripts(r)'
    BY SMTT(60), <1>8, GoingLeaves, <1>b DEF Switch, Going, Send, GiveUp, Answer, Goto, Finish, Fail, OwnScripts, Calm, Waiting, Calls, Account, Drops, host, records
  <2> QED BY <1>8, <2>1, <1>a DEF Going, Scripts
<1>9. ASSUME NEW r \in Rots, Remove(r) PROVE Scripts'
  <2>1. OwnScripts(r)'
    BY SMTT(60), <1>9, GoingLeaves, <1>b DEF Remove, Going, Send, GiveUp, Answer, Goto, Finish, Fail, OwnScripts, Calm, Waiting, Calls, Account, Drops, host, records
  <2> QED BY <1>9, <2>1, <1>a DEF Going, Scripts
<1>10. ASSUME NEW r \in Rots, RemovedOld(r) PROVE Scripts'
  <2>1. OwnScripts(r)'
    BY SMTT(60), <1>10, GoingLeaves, <1>b DEF RemovedOld, Going, Send, GiveUp, Answer, Goto, Finish, Fail, OwnScripts, Calm, Waiting, Calls, Account, Drops, host, records
  <2> QED BY <1>10, <2>1, <1>a DEF Going, Scripts
<1>11. ASSUME NEW r \in Rots, CheckOld(r) PROVE Scripts'
  <2>1. OwnScripts(r)'
    BY SMTT(60), <1>11, GoingLeaves, <1>b DEF CheckOld, Going, Send, GiveUp, Answer, Goto, Finish, Fail, OwnScripts, Calm, Waiting, Calls, Account, Drops, host, records
  <2> QED BY <1>11, <2>1, <1>a DEF Going, Scripts
<1>12. ASSUME NEW r \in Rots, Revert(r) PROVE Scripts'
  <2>1. OwnScripts(r)'
    BY SMTT(60), <1>12, GoingLeaves, <1>b DEF Revert, Going, Send, GiveUp, Answer, Goto, Finish, Fail, OwnScripts, Calm, Waiting, Calls, Account, Drops, host, records
  <2> QED BY <1>12, <2>1, <1>a DEF Going, Scripts
<1>13. ASSUME NEW r \in Rots, Undo(r) PROVE Scripts'
  <2>1. OwnScripts(r)'
    BY SMTT(60), <1>13, GoingLeaves, <1>b DEF Undo, Going, Send, GiveUp, Answer, Goto, Finish, Fail, OwnScripts, Calm, Waiting, Calls, Account, Drops, host, records
  <2> QED BY <1>13, <2>1, <1>a DEF Going, Scripts
<1>14. ASSUME NEW r \in Rots, Undone(r) PROVE Scripts'
  <2>1. OwnScripts(r)'
    BY SMTT(60), <1>14, GoingLeaves, <1>b DEF Undone, Going, Send, GiveUp, Answer, Goto, Finish, Fail, OwnScripts, Calm, Waiting, Calls, Account, Drops, host, records
  <2> QED BY <1>14, <2>1, <1>a DEF Going, Scripts
<1>15. ASSUME NEW r \in Rots, RunInstall(r) PROVE Scripts'
  <2>1. pc[r] = "installing" /\ script[r]["removeOld"] = "none" /\ script[r]["removeNew"] = "none"
    BY <1>15, <1>b DEF RunInstall, OwnScripts, Waiting, Calls
  <2>2. UNCHANGED <<pc, draft, server, oldKey, setting>>
    BY <1>15 DEF RunInstall
  <2>3. script'[r]["install"] \notin {"none", "copied"} /\ \A q \in Rots, d \in Calls : q # r \/ d # "install" => script'[q][d] = script[q][d]
    BY <1>15 DEF RunInstall, Set, Calls
  <2>4. \A q \in Rots : pc[q] # "none" /\ q # r => lines'[Account(q)] = lines[Account(q)]
    <3>1. \A q \in Rots : pc[q] # "none" /\ q # r => Account(q) # Account(r)
      BY <2>1, AloneHolds DEF Alone, Calm
    <3>2. \A a \in Accounts : a # Account(r) => lines'[a] = lines[a]
      BY <1>15 DEF RunInstall
    <3> QED BY <3>1, <3>2 DEF Account
  <2>5. OwnScripts(r)'
    BY <2>1, <2>2, <2>3 DEF OwnScripts, Waiting, Calls
  <2>6. \A q \in Rots : q # r => OwnScripts(q)'
    BY <1>b, <2>2, <2>3, <2>4 DEF OwnScripts, Waiting, Calls, Account, Drops
  <2> QED BY <2>5, <2>6 DEF Scripts
<1>16. ASSUME NEW r \in Rots, NEW c \in Removals, RunRemove(r, c) PROVE Scripts'
  <2>1. pc[r] = Waiting(c) /\ c \in Calls /\ UNCHANGED <<pc, lines, server, oldKey, setting>>
    BY <1>16, <1>b DEF RunRemove, OwnScripts, Calls, Removals
  <2>2. \A d \in Calls : d # c => script[r][d] = "none"
    BY <1>b, <2>1 DEF OwnScripts, Waiting, Calls
  <2>3. \A q \in Rots, d \in Calls : q # r \/ d # c => script'[q][d] = script[q][d] /\ draft'[q][d] = draft[q][d]
    BY <1>16, <2>1 DEF RunRemove, Set
  <2>4. script'[r][c] = "copied" => draft'[r][c] = lines[Account(r)] \ {Drops(r, c)}
    BY <1>16, <2>1 DEF RunRemove, Set
  <2>5. OwnScripts(r)'
    BY <2>1, <2>2, <2>3, <2>4 DEF OwnScripts, Waiting, Calls, Account, Drops
  <2>6. \A q \in Rots : q # r => OwnScripts(q)'
    BY <1>b, <2>1, <2>3 DEF OwnScripts, Waiting, Account, Drops
  <2> QED BY <2>5, <2>6 DEF Scripts
<1>17. ASSUME NEW r \in Rots, NEW c \in Removals, RunRename(r, c) PROVE Scripts'
  <2>1. pc[r] = Waiting(c) /\ c \in Calls /\ UNCHANGED <<pc, server, oldKey, setting>>
    BY <1>17, <1>b DEF RunRename, OwnScripts, Calls, Removals
  <2>2. \A d \in Calls : d # c => script[r][d] = "none"
    BY <1>b, <2>1 DEF OwnScripts, Waiting, Calls
  <2>3. \A q \in Rots, d \in Calls : q # r \/ d # c => script'[q][d] = script[q][d] /\ draft'[q][d] = draft[q][d]
    BY <1>17, <2>1 DEF RunRename, Set
  <2>4. script'[r][c] = "done"
    BY <1>17, <2>1 DEF RunRename, Set
  <2>5. OwnScripts(r)'
    BY <2>1, <2>2, <2>3, <2>4 DEF OwnScripts, Waiting, Calls
  <2>6. \A q \in Rots : pc[q] # "none" /\ q # r => lines'[Account(q)] = lines[Account(q)]
    <3>1. \A q \in Rots : pc[q] # "none" /\ q # r => Account(q) # Account(r)
      BY <2>1, AloneHolds DEF Alone, Calm, Waiting
    <3>2. \A a \in Accounts : a # Account(r) => lines'[a] = lines[a]
      BY <1>17 DEF RunRename
    <3> QED BY <3>1, <3>2 DEF Account
  <2>7. \A q \in Rots : q # r => OwnScripts(q)'
    BY <1>b, <2>1, <2>3, <2>6 DEF OwnScripts, Waiting, Calls, Account, Drops
  <2> QED BY <2>5, <2>7 DEF Scripts
<1>18. CASE Restart
  BY <1>18 DEF Restart, Calm, Scripts, OwnScripts, Calls
<1> QED BY <1>0, <1>1, <1>2, <1>3, <1>4, <1>5, <1>6, <1>7, <1>8, <1>9, <1>10, <1>11, <1>12, <1>13, <1>14, <1>15, <1>16, <1>17, <1>18 DEF Next, Admin, Rotate, Host, Removals

\* Keys in use come from rotations of the servers that use them.
LEMMA OriginsKept == Sound /\ Untampered /\ Origins /\ [Next]_vars => Origins'
<1> SUFFICES ASSUME Sound, Untampered, Origins, [Next]_vars PROVE Origins'
  OBVIOUS
<1> USE SettingFacts, NextFacts DEF Sound, TypeOK, InStep, db, records, host
<1>b. (\A s \in Servers : assigned[s] \in Keys) /\ Origins
  BY KeyFacts DEF Origins, Made, Password
<1>0. CASE UNCHANGED vars
  BY <1>0 DEF vars, Origins, Made
<1>a. ASSUME NEW r \in Rots, Going(r)
      PROVE  (UNCHANGED assigned => Origins') /\ (\A k \in Keys, s \in Servers : Made(k, s) => Made(k, s)')
  <2>1. pc[r] # "none" /\ (Advances(r) \/ Ends(r))
    BY <1>a, Moves
  <2>2. status[r] = "running" /\ status'[r] \in {"running", "completed", "rolled_back", "failed"}
    BY <2>1 DEF Advances, Ends, Finish
  <2>3. UNCHANGED <<server, oldKey>> /\ \A q \in Rots : q # r => status'[q] = status[q]
    BY <1>a, GoingLeaves
  <2>4. \A k \in Keys, s \in Servers : Made(k, s) => Made(k, s)'
    BY <2>2, <2>3 DEF Made
  <2> QED BY <1>b, <2>2, <2>3, <2>4 DEF Origins
<1>1. ASSUME NEW s \in Servers, Request(s) PROVE Origins'
  <2>1. PICK r \in Rots : Record(r, s) /\ status[r] = "none"
    BY <1>1, SettingFacts DEF Request
  <2>2. UNCHANGED assigned /\ assigned[s] \in Keys
    BY <1>1 DEF Request
  <2>3. \A q \in Rots : q # r => server'[q] = server[q] /\ oldKey'[q] = oldKey[q] /\ status'[q] = status[q]
    BY <2>1 DEF Record
  <2>4. server'[r] = s /\ oldKey'[r] = assigned[s]
    BY <2>1 DEF Record
  <2>5. \A k \in Keys, t \in Servers : Made(k, t) => k # r /\ Made(k, t)'
    BY <2>1, <2>3, KeyFacts DEF Made
  <2>6. Made(oldKey[r], server[r])' /\ oldKey'[r] # r
    BY <2>2, <2>4, <2>5 DEF Origins
  <2>7. \A q \in Rots : q # r /\ status'[q] # "none" => Made(oldKey[q], server[q])' /\ oldKey'[q] # q
    BY <2>3, <2>5 DEF Origins
  <2>8. \A t \in Servers : Made(assigned[t], t)'
    BY <2>2, <2>5, <1>b DEF Origins
  <2> QED BY <2>6, <2>7, <2>8 DEF Origins
<1>2. ASSUME NEW s \in Servers, Reassign(s) PROVE Origins'
  BY <1>2 DEF Reassign, Untampered
<1>3. ASSUME NEW k \in Keys, DeleteKey(k) PROVE Origins'
  BY <1>3 DEF DeleteKey, Origins, Made
<1>4. ASSUME NEW r \in Rots, Start(r) PROVE Origins'
  <2>1. \A k \in Keys, s \in Servers : Made(k, s) => Made(k, s)'
    BY <1>4 DEF Start, Finish, Made
  <2>2. UNCHANGED <<assigned, server, oldKey>> /\ \A q \in Rots : status'[q] # "none" => status[q] # "none"
    BY <1>4 DEF Start, Finish
  <2> QED BY <1>b, <2>1, <2>2 DEF Origins
<1>5. ASSUME NEW r \in Rots, Install(r) PROVE Origins'
  BY <1>5, <1>a DEF Going, Install
<1>6. ASSUME NEW r \in Rots, Installed(r) PROVE Origins'
  BY <1>6, <1>a DEF Going, Installed
<1>7. ASSUME NEW r \in Rots, Verify(r) PROVE Origins'
  BY <1>7, <1>a DEF Going, Verify
<1>8. ASSUME NEW r \in Rots, Switch(r) PROVE Origins'
  <2>1. pc[r] = "switch" /\ r # 0
    BY <1>8, KeyFacts DEF Switch
  <2>2. \A s \in Servers : assigned'[s] = assigned[s] \/ (s = server[r] /\ assigned'[s] = r)
    BY <1>8 DEF Switch
  <2>3. Made(r, server[r])'
    BY <1>8, <2>1, GoingLeaves, Moves DEF Going, Advances, Ends, Finish, Goto, Made
  <2>4. UNCHANGED <<server, oldKey>> /\ \A q \in Rots : status'[q] # "none" => status[q] # "none"
    BY <1>8, <2>1, Moves, GoingLeaves DEF Going
  <2>5. \A k \in Keys, s \in Servers : Made(k, s) => Made(k, s)'
    <3>1. Going(r)
      BY <1>8 DEF Going
    <3> QED BY <3>1, <1>a
  <2> QED BY <1>b, <2>2, <2>3, <2>4, <2>5 DEF Origins
<1>9. ASSUME NEW r \in Rots, Remove(r) PROVE Origins'
  BY <1>9, <1>a DEF Going, Remove
<1>10. ASSUME NEW r \in Rots, RemovedOld(r) PROVE Origins'
  BY <1>10, <1>a DEF Going, RemovedOld
<1>11. ASSUME NEW r \in Rots, CheckOld(r) PROVE Origins'
  BY <1>11, <1>a DEF Going, CheckOld
<1>12. ASSUME NEW r \in Rots, Revert(r) PROVE Origins'
  <2>1. \A s \in Servers : assigned'[s] = assigned[s] \/ (s = server[r] /\ assigned'[s] = oldKey[r])
    BY <1>12 DEF Revert
  <2>2. Made(oldKey[r], server[r]) /\ status[r] # "none"
    BY <1>12 DEF Revert, Origins
  <2>3. UNCHANGED <<server, oldKey>> /\ \A q \in Rots : status'[q] # "none" => status[q] # "none"
    BY <1>12, <2>2, GoingLeaves DEF Going
  <2>4. \A k \in Keys, s \in Servers : Made(k, s) => Made(k, s)'
    <3>1. Going(r)
      BY <1>12 DEF Going
    <3> QED BY <3>1, <1>a
  <2>5. Made(oldKey[r], server[r])'
    BY <2>2, <2>3, <2>4
  <2>6. \A s \in Servers : s # server[r] => Made(assigned[s], s)'
    BY <1>b, <2>1, <2>4 DEF Origins
  <2>7. \A s \in Servers : Made(assigned[s], s)'
    BY <2>1, <2>2, <2>3, <2>4, <2>5, <2>6, <1>b DEF Origins, Made
  <2> QED BY <1>b, <2>3, <2>4, <2>7 DEF Origins
<1>13. ASSUME NEW r \in Rots, Undo(r) PROVE Origins'
  BY <1>13, <1>a DEF Going, Undo
<1>14. ASSUME NEW r \in Rots, Undone(r) PROVE Origins'
  BY <1>14, <1>a DEF Going, Undone
<1>15. ASSUME NEW r \in Rots, RunInstall(r) PROVE Origins'
  BY <1>15 DEF RunInstall, Origins, Made
<1>16. ASSUME NEW r \in Rots, NEW c \in Removals, RunRemove(r, c) PROVE Origins'
  BY <1>16 DEF RunRemove, Origins, Made
<1>17. ASSUME NEW r \in Rots, NEW c \in Removals, RunRename(r, c) PROVE Origins'
  BY <1>17 DEF RunRename, Origins, Made
<1>18. CASE Restart
  <2>1. \A k \in Keys, s \in Servers : Made(k, s) => Made(k, s)'
    BY <1>18 DEF Restart, Made, Open
  <2>2. UNCHANGED <<assigned, server, oldKey>> /\ \A q \in Rots : status'[q] # "none" => status[q] # "none"
    BY <1>18 DEF Restart, Open
  <2> QED BY <1>b, <2>1, <2>2 DEF Origins
<1> QED BY <1>0, <1>1, <1>2, <1>3, <1>4, <1>5, <1>6, <1>7, <1>8, <1>9, <1>10, <1>11, <1>12, <1>13, <1>14, <1>15, <1>16, <1>17, <1>18 DEF Next, Admin, Rotate, Host, Removals

\* A rotation knows the key of its server, and that the lines it needs are there.
LEMMA PlacesKept == Sound /\ RetiredInv /\ AccessInv /\ Calm /\ [Next]_vars => Places'
<1> SUFFICES ASSUME Sound, RetiredInv, AccessInv, Calm, [Next]_vars PROVE Places'
  OBVIOUS
<1> USE SettingFacts, NextFacts DEF Sound, TypeOK, InStep, AccessInv, db, records, host
<1>b. \A r \in Rots : OwnPlace(r)
  BY DEF Places
<1>0. CASE UNCHANGED vars
  BY <1>0 DEF vars, Places, OwnPlace, OwnHold, Account, Sharing
<1>a. ASSUME NEW r \in Rots, Going(r)
      PROVE  (\A s \in Servers : s # server[r] => assigned'[s] = assigned[s]) => \A q \in Rots : q # r => OwnPlace(q)'
  <2>1. UNCHANGED <<server, oldKey, lines, setting>> /\ pc[r] # "none" /\ \A q \in Rots : q # r => pc'[q] = pc[q]
    BY <1>a, GoingLeaves
  <2>2. \A q \in Rots : q # r /\ pc[q] # "none" => Account(q) # Account(r) /\ server[q] # server[r]
    BY <2>1, AloneHolds DEF Alone, Calm, OnePerServer, Open
  <2> SUFFICES ASSUME \A s \in Servers : s # server[r] => assigned'[s] = assigned[s], NEW q \in Rots, q # r
               PROVE  OwnPlace(q)'
    OBVIOUS
  <2>3. pc[q] # "none" => assigned'[server[q]] = assigned[server[q]]
    BY <2>2
  <2>4. pc[q] # "none" => Sharing(q)' = Sharing(q)
    BY <2>1, <2>2 DEF Sharing, Account
  <2> QED BY <1>b, <2>1, <2>3, <2>4 DEF OwnPlace, OwnHold, Account
<1>1. ASSUME NEW s \in Servers, Request(s) PROVE Places'
  <2>1. PICK r \in Rots : Record(r, s) /\ status[r] = "none"
    BY <1>1, SettingFacts DEF Request
  <2>2. pc'[r] = "none" /\ UNCHANGED <<pc, assigned, lines, setting>>
    BY <1>1, <2>1 DEF Request
  <2>3. \A q \in Rots : q # r => server'[q] = server[q] /\ oldKey'[q] = oldKey[q]
    BY <2>1 DEF Record
  <2>4. OwnPlace(r)'
    BY <2>2 DEF OwnPlace, OwnHold
  <2>5. \A q \in Rots : q # r => OwnPlace(q)'
    BY <1>b, <2>2, <2>3 DEF OwnPlace, OwnHold, Account, Sharing
  <2> QED BY <2>4, <2>5 DEF Places
<1>2. ASSUME NEW s \in Servers, Reassign(s) PROVE Places'
  BY <1>2 DEF Reassign, Calm
<1>3. ASSUME NEW k \in Keys, DeleteKey(k) PROVE Places'
  BY <1>3, <1>b DEF DeleteKey, Places, OwnPlace, OwnHold, Account, Sharing
<1>4. ASSUME NEW r \in Rots, Start(r) PROVE Places'
  <2>1. UNCHANGED <<assigned, server, oldKey, lines, setting>> /\ \A q \in Rots : q # r => pc'[q] = pc[q]
    BY <1>4 DEF Start, Goto, Finish
  <2>2. (pc'[r] = "install" /\ assigned[server[r]] = oldKey[r]) \/ pc'[r] = "none"
    BY <1>4 DEF Start, Goto, Finish
  <2>3. OwnPlace(r)'
    BY <2>1, <2>2 DEF OwnPlace, OwnHold
  <2>4. \A q \in Rots : q # r => OwnPlace(q)'
    BY <1>b, <2>1 DEF OwnPlace, OwnHold, Account, Sharing
  <2> QED BY <2>3, <2>4 DEF Places
<1>5. ASSUME NEW r \in Rots, Install(r) PROVE Places'
  <2>1. OwnPlace(r)'
    BY <1>5, <1>b, GoingLeaves DEF Install, Going, Goto, Finish, Fail, OwnPlace, OwnHold, Account, Accepts
  <2>2. \A s \in Servers : s # server[r] => assigned'[s] = assigned[s]
    BY <1>5 DEF Install
  <2> QED BY <1>5, <2>1, <2>2, <1>a DEF Going, Places
<1>6. ASSUME NEW r \in Rots, Installed(r) PROVE Places'
  <2>1. OwnPlace(r)'
    BY <1>6, <1>b, GoingLeaves DEF Installed, Going, Goto, Finish, Fail, OwnPlace, OwnHold, Account, Accepts
  <2>2. \A s \in Servers : s # server[r] => assigned'[s] = assigned[s]
    BY <1>6 DEF Installed
  <2> QED BY <1>6, <2>1, <2>2, <1>a DEF Going, Places
<1>7. ASSUME NEW r \in Rots, Verify(r) PROVE Places'
  <2>1. OwnPlace(r)'
    BY <1>7, <1>b, GoingLeaves DEF Verify, Going, Goto, Finish, Fail, OwnPlace, OwnHold, Account, Accepts
  <2>2. \A s \in Servers : s # server[r] => assigned'[s] = assigned[s]
    BY <1>7 DEF Verify
  <2> QED BY <1>7, <2>1, <2>2, <1>a DEF Going, Places
<1>8. ASSUME NEW r \in Rots, Switch(r) PROVE Places'
  <2>1. pc[r] = "switch" /\ UNCHANGED <<server, oldKey, lines, setting>>
    BY <1>8, GoingLeaves DEF Switch, Going
  <2>2. assigned[server[r]] = oldKey[r]
    BY <1>b, <2>1 DEF OwnPlace, OwnHold
  <2>3. \A s \in Servers : s # server[r] => assigned'[s] = assigned[s]
    BY <1>8 DEF Switch
  <2>4. Sharing(r)' = Sharing(r)
    BY <2>1, <2>3 DEF Sharing, Account
  <2>5. \/ assigned'[server[r]] = r /\ pc'[r] = "remove" /\ Sharing(r) = {}
        \/ pc'[r] = "none"
        \/ assigned' = assigned /\ pc'[r] = "undo"
    BY <1>8 DEF Switch, Goto, Finish, Fail
  <2>6. OwnPlace(r)'
    BY <2>1, <2>2, <2>4, <2>5 DEF OwnPlace, OwnHold
  <2>7. Going(r)
    BY <1>8 DEF Going
  <2> QED BY <2>3, <2>6, <2>7, <1>a DEF Places
<1>9. ASSUME NEW r \in Rots, Remove(r) PROVE Places'
  <2>1. assigned' = assigned /\ UNCHANGED <<server, oldKey, lines, setting>>
    BY <1>9, GoingLeaves DEF Remove, Going
  <2>2. Sharing(r)' = Sharing(r)
    BY <2>1 DEF Sharing, Account
  <2>3. pc[r] \in {"remove", "removing"} /\ pc'[r] \in {"removing", "checkOld", "none"} /\ (pc'[r] = "removing" => pc[r] = "remove")
    BY <1>9 DEF Remove, Goto, Finish
  <2>4. OwnPlace(r)'
    BY <1>b, <2>1, <2>2, <2>3 DEF OwnPlace, OwnHold
  <2>5. Going(r)
    BY <1>9 DEF Going
  <2> QED BY <2>1, <2>4, <2>5, <1>a DEF Places
<1>10. ASSUME NEW r \in Rots, RemovedOld(r) PROVE Places'
  <2>1. assigned' = assigned /\ UNCHANGED <<server, oldKey, lines, setting>>
    BY <1>10, GoingLeaves DEF RemovedOld, Going
  <2>2. Sharing(r)' = Sharing(r)
    BY <2>1 DEF Sharing, Account
  <2>3. pc[r] \in {"remove", "removing"} /\ pc'[r] \in {"removing", "checkOld", "none"} /\ (pc'[r] = "removing" => pc[r] = "remove")
    BY <1>10 DEF RemovedOld, Goto, Finish
  <2>4. OwnPlace(r)'
    BY <1>b, <2>1, <2>2, <2>3 DEF OwnPlace, OwnHold
  <2>5. Going(r)
    BY <1>10 DEF Going
  <2> QED BY <2>1, <2>4, <2>5, <1>a DEF Places
<1>11. ASSUME NEW r \in Rots, CheckOld(r) PROVE Places'
  <2>1. OwnPlace(r)'
    BY <1>11, <1>b, GoingLeaves DEF CheckOld, Going, Goto, Finish, Fail, OwnPlace, OwnHold, Account, Accepts
  <2>2. \A s \in Servers : s # server[r] => assigned'[s] = assigned[s]
    BY <1>11 DEF CheckOld
  <2> QED BY <1>11, <2>1, <2>2, <1>a DEF Going, Places
<1>12. ASSUME NEW r \in Rots, Revert(r) PROVE Places'
  <2>1. pc[r] = "revert" /\ UNCHANGED <<server, oldKey, lines, setting>>
    BY <1>12, GoingLeaves DEF Revert, Going
  <2>2. \A s \in Servers : s # server[r] => assigned'[s] = assigned[s]
    BY <1>12 DEF Revert
  <2>3. (assigned'[server[r]] = oldKey[r] /\ pc'[r] = "undo") \/ pc'[r] = "none"
    BY <1>12 DEF Revert, Goto, Finish
  <2>4. OwnPlace(r)'
    BY <2>1, <2>3 DEF OwnPlace, OwnHold
  <2>5. Going(r)
    BY <1>12 DEF Going
  <2> QED BY <2>2, <2>4, <2>5, <1>a DEF Places
<1>13. ASSUME NEW r \in Rots, Undo(r) PROVE Places'
  <2>1. OwnPlace(r)'
    BY <1>13, <1>b, GoingLeaves DEF Undo, Going, Goto, Finish, Fail, OwnPlace, OwnHold, Account, Accepts
  <2>2. \A s \in Servers : s # server[r] => assigned'[s] = assigned[s]
    BY <1>13 DEF Undo
  <2> QED BY <1>13, <2>1, <2>2, <1>a DEF Going, Places
<1>14. ASSUME NEW r \in Rots, Undone(r) PROVE Places'
  <2>1. OwnPlace(r)'
    BY <1>14, <1>b, GoingLeaves DEF Undone, Going, Goto, Finish, Fail, OwnPlace, OwnHold, Account, Accepts
  <2>2. \A s \in Servers : s # server[r] => assigned'[s] = assigned[s]
    BY <1>14 DEF Undone
  <2> QED BY <1>14, <2>1, <2>2, <1>a DEF Going, Places
<1>15. ASSUME NEW r \in Rots, RunInstall(r) PROVE Places'
  <2>1. UNCHANGED <<pc, assigned, server, oldKey, setting>> /\ \A a \in Accounts : lines[a] \subseteq lines'[a]
    BY <1>15 DEF RunInstall
  <2> QED BY <1>b, <2>1 DEF Places, OwnPlace, OwnHold, Account, Sharing
<1>16. ASSUME NEW r \in Rots, NEW c \in Removals, RunRemove(r, c) PROVE Places'
  <2>1. UNCHANGED <<pc, assigned, server, oldKey, lines, setting>>
    BY <1>16 DEF RunRemove
  <2> QED BY <1>b, <2>1 DEF Places, OwnPlace, OwnHold, Account, Sharing
<1>17. ASSUME NEW r \in Rots, NEW c \in Removals, RunRename(r, c) PROVE Places'
  <2>1. UNCHANGED <<pc, assigned, server, oldKey, setting>> /\ \A a \in Accounts : a # Account(r) => lines'[a] = lines[a]
    BY <1>17 DEF RunRename
  <2>2. pc[r] \in {"removing", "undoing"}
    BY <1>17 DEF RunRename, Scripts, OwnScripts, Waiting, Calls, Removals
  <2>3. OwnPlace(r)'
    BY <1>b, <2>1, <2>2 DEF OwnPlace, OwnHold, Account, Sharing
  <2>4. \A q \in Rots : q # r /\ pc[q] # "none" => Account(q) # Account(r)
    BY <2>2, AloneHolds DEF Alone, Calm
  <2>5. \A q \in Rots : q # r => OwnPlace(q)'
    BY <1>b, <2>1, <2>4 DEF OwnPlace, OwnHold, Account, Sharing
  <2> QED BY <2>3, <2>5 DEF Places
<1>18. CASE Restart
  BY <1>18 DEF Restart, Places, OwnPlace, OwnHold
<1> QED BY <1>0, <1>1, <1>2, <1>3, <1>4, <1>5, <1>6, <1>7, <1>8, <1>9, <1>10, <1>11, <1>12, <1>13, <1>14, <1>15, <1>16, <1>17, <1>18 DEF Next, Admin, Rotate, Host, Removals

\* No host loses the line of a key that one of its servers points at.
LEMMA AcceptedKept == Sound /\ RetiredInv /\ AccessInv /\ Calm /\ [Next]_vars => Accepted'
<1> SUFFICES ASSUME Sound, RetiredInv, AccessInv, Calm, [Next]_vars PROVE Accepted'
  OBVIOUS
<1> USE SettingFacts, NextFacts DEF Sound, TypeOK, InStep, AccessInv, db, records, host
<1>0. CASE UNCHANGED vars
  BY <1>0 DEF vars, Accepted
<1>1. ASSUME NEW s \in Servers, Request(s) PROVE Accepted'
  BY <1>1 DEF Request, Accepted
<1>2. ASSUME NEW s \in Servers, Reassign(s) PROVE Accepted'
  BY <1>2 DEF Reassign, Calm
<1>3. ASSUME NEW k \in Keys, DeleteKey(k) PROVE Accepted'
  BY <1>3 DEF DeleteKey, Accepted
<1>4. ASSUME NEW r \in Rots, Start(r) PROVE Accepted'
  BY <1>4 DEF Start, Accepted
<1>5. ASSUME NEW r \in Rots, Install(r) PROVE Accepted'
  <2>1. UNCHANGED assigned
    BY <1>5 DEF Install
  <2>2. UNCHANGED <<lines, setting>>
    BY <1>5, GoingLeaves DEF Going
  <2> QED BY <2>1, <2>2 DEF Accepted
<1>6. ASSUME NEW r \in Rots, Installed(r) PROVE Accepted'
  <2>1. UNCHANGED assigned
    BY <1>6 DEF Installed
  <2>2. UNCHANGED <<lines, setting>>
    BY <1>6, GoingLeaves DEF Going
  <2> QED BY <2>1, <2>2 DEF Accepted
<1>7. ASSUME NEW r \in Rots, Verify(r) PROVE Accepted'
  <2>1. UNCHANGED assigned
    BY <1>7 DEF Verify
  <2>2. UNCHANGED <<lines, setting>>
    BY <1>7, GoingLeaves DEF Going
  <2> QED BY <2>1, <2>2 DEF Accepted
<1>8. ASSUME NEW r \in Rots, Switch(r) PROVE Accepted'
  <2>1. UNCHANGED <<lines, setting>>
    BY <1>8, GoingLeaves DEF Going
  <2>2. \A s \in Servers : assigned'[s] = assigned[s] \/ (s = server[r] /\ assigned'[s] = r)
    BY <1>8 DEF Switch
  <2>3. r \in lines[Account(r)]
    BY <1>8 DEF Switch, Places, OwnPlace, OwnHold
  <2> QED BY <2>1, <2>2, <2>3 DEF Accepted, Account
<1>9. ASSUME NEW r \in Rots, Remove(r) PROVE Accepted'
  <2>1. UNCHANGED assigned
    BY <1>9 DEF Remove
  <2>2. UNCHANGED <<lines, setting>>
    BY <1>9, GoingLeaves DEF Going
  <2> QED BY <2>1, <2>2 DEF Accepted
<1>10. ASSUME NEW r \in Rots, RemovedOld(r) PROVE Accepted'
  <2>1. UNCHANGED assigned
    BY <1>10 DEF RemovedOld
  <2>2. UNCHANGED <<lines, setting>>
    BY <1>10, GoingLeaves DEF Going
  <2> QED BY <2>1, <2>2 DEF Accepted
<1>11. ASSUME NEW r \in Rots, CheckOld(r) PROVE Accepted'
  <2>1. UNCHANGED assigned
    BY <1>11 DEF CheckOld
  <2>2. UNCHANGED <<lines, setting>>
    BY <1>11, GoingLeaves DEF Going
  <2> QED BY <2>1, <2>2 DEF Accepted
<1>12. ASSUME NEW r \in Rots, Revert(r) PROVE Accepted'
  <2>1. UNCHANGED <<lines, setting>>
    BY <1>12, GoingLeaves DEF Going
  <2>2. \A s \in Servers : assigned'[s] = assigned[s] \/ (s = server[r] /\ assigned'[s] = oldKey[r])
    BY <1>12 DEF Revert
  <2>3. oldKey[r] \in lines[Account(r)]
    BY <1>12 DEF Revert, Places, OwnPlace, OwnHold
  <2> QED BY <2>1, <2>2, <2>3 DEF Accepted, Account
<1>13. ASSUME NEW r \in Rots, Undo(r) PROVE Accepted'
  <2>1. UNCHANGED assigned
    BY <1>13 DEF Undo
  <2>2. UNCHANGED <<lines, setting>>
    BY <1>13, GoingLeaves DEF Going
  <2> QED BY <2>1, <2>2 DEF Accepted
<1>14. ASSUME NEW r \in Rots, Undone(r) PROVE Accepted'
  <2>1. UNCHANGED assigned
    BY <1>14 DEF Undone
  <2>2. UNCHANGED <<lines, setting>>
    BY <1>14, GoingLeaves DEF Going
  <2> QED BY <2>1, <2>2 DEF Accepted
<1>15. ASSUME NEW r \in Rots, RunInstall(r) PROVE Accepted'
  <2>1. UNCHANGED <<assigned, setting>> /\ \A a \in Accounts : lines[a] \subseteq lines'[a]
    BY <1>15 DEF RunInstall
  <2> QED BY <2>1 DEF Accepted
<1>16. ASSUME NEW r \in Rots, NEW c \in Removals, RunRemove(r, c) PROVE Accepted'
  BY <1>16 DEF RunRemove, Accepted
<1>17. ASSUME NEW r \in Rots, NEW c \in Removals, RunRename(r, c) PROVE Accepted'
  <2>1. c \in Calls /\ pc[r] = Waiting(c) /\ draft[r][c] = lines[Account(r)] \ {Drops(r, c)}
    BY <1>17 DEF RunRename, Scripts, OwnScripts, Calls, Removals
  <2>2. UNCHANGED <<assigned, setting>> /\ lines' = [lines EXCEPT ![Account(r)] = draft[r][c]]
    BY <1>17 DEF RunRename
  <2>3. status[r] # "none" /\ oldKey[r] # r
    BY <2>1 DEF Waiting, Origins
  <2>4. ASSUME NEW s \in Servers, setting.account[s] = Account(r) PROVE assigned[s] # Drops(r, c)
    <3>1. CASE c = "removeOld"
      <4>1. Sharing(r) = {} /\ assigned[server[r]] = r
        BY <2>1, <3>1 DEF Waiting, Places, OwnPlace, OwnHold
      <4> QED BY <2>3, <2>4, <3>1, <4>1 DEF Sharing, Drops
    <3>2. CASE c = "removeNew"
      <4>1. assigned[server[r]] = oldKey[r]
        BY <2>1, <3>2 DEF Waiting, Places, OwnPlace, OwnHold
      <4>2. assigned[s] = r => server[r] = s
        BY KeyFacts DEF Origins, Made
      <4> QED BY <2>3, <3>2, <4>1, <4>2 DEF Drops
    <3> QED BY <3>1, <3>2 DEF Removals
  <2>5. ASSUME NEW s \in Servers, assigned[s] # Password PROVE assigned[s] \in lines'[setting.account[s]]
    <3>1. assigned[s] \in lines[setting.account[s]]
      BY <2>5 DEF Accepted
    <3>2. CASE setting.account[s] = Account(r)
      BY <2>1, <2>2, <2>4, <3>1, <3>2 DEF Account
    <3>3. CASE setting.account[s] # Account(r)
      BY <2>2, <3>1, <3>3
    <3> QED BY <3>2, <3>3
  <2> QED BY <2>2, <2>5 DEF Accepted
<1>18. CASE Restart
  BY <1>18 DEF Restart, Accepted
<1> QED BY <1>0, <1>1, <1>2, <1>3, <1>4, <1>5, <1>6, <1>7, <1>8, <1>9, <1>10, <1>11, <1>12, <1>13, <1>14, <1>15, <1>16, <1>17, <1>18 DEF Next, Admin, Rotate, Host, Removals

\* The invariant behind NeverLockedOut is kept.
LEMMA AccessKept == Sound /\ RetiredInv /\ AccessInv /\ [Next]_vars => AccessInv'
<1> SUFFICES ASSUME Sound, RetiredInv, AccessInv, [Next]_vars, Calm' PROVE (Scripts /\ Origins /\ Places /\ Accepted)'
  BY DEF AccessInv
<1>1. Calm
  BY NextFacts DEF Sound, TypeOK, Calm, Apart, Isolated, Faults
<1>2. Untampered
  BY <1>1 DEF Calm, Untampered
<1> QED BY <1>1, <1>2, ScriptsKept, OriginsKept, PlacesKept, AcceptedKept DEF AccessInv

-----------------------------------------------------------------------------
(* The records tell the truth *)

\* The settings in which keys go, and servers change theirs, by rotation alone.
Lasting == setting.admin \intersect {"reassign", "delete"} = {}

Held == \A r \in Rots : OwnHold(r)

\* Rotations are requested in the order of their numbers, and what a server may
\* go back to is never older than what it last completed.
Turn ==
  /\ \A q, r \in Rots : status[r] # "none" /\ q < r => status[q] # "none"
  /\ \A r \in Rots : status[r] # "none" => oldKey[r] < r
  /\ \A q, r \in Rots : status[q] = "completed" /\ status[r] \in Open /\ server[q] = server[r] => q <= oldKey[r]
  /\ \A r \in Rots : status[r] = "completed" => r <= assigned[server[r]]

\* The keys in use and those that may be gone back to have rows; those of
\* rotations that have not switched, or have gone back, have none.
Rows ==
  /\ \A s \in Servers : assigned[s] \in keys
  /\ \A r \in Rots : status[r] \in Open => oldKey[r] \in keys
  /\ \A r \in Rots : status[r] \in {"none", "pending", "failed", "rolled_back"} => r \notin keys
  /\ \A r \in Rots : pc[r] \in {"install", "installing", "verify", "switch", "undo", "undoing"} => r \notin keys

\* A key no file lists, nor a copy that may become one.
Nowhere(k) == (\A a \in Accounts : k \notin lines[a]) /\ \A q \in Rots, c \in Calls : k \notin draft[q][c]

\* Before the new line is written, and after a failure, there is none.
OwnTrace(r) ==
  /\ status[r] \in {"none", "pending", "failed"} \/ pc[r] = "install" => script[r]["install"] = "none" /\ Nowhere(r)
  /\ pc[r] = "installing" /\ script[r]["install"] \in {"sent", "refused"} => Nowhere(r)

Traces == \A r \in Rots : OwnTrace(r)

RecordsInv ==
  /\ Untampered => Origins /\ Held /\ Turn
  /\ Lasting => Rows /\ Traces

\* The kinds of steps: requests, a rotation's start, its further steps, the
\* hosts' scripts and a restart.
LEMMA Kinds ==
  ASSUME [Next]_vars
  PROVE  \/ UNCHANGED vars
         \/ \E s \in Servers : Request(s) \/ Reassign(s)
         \/ \E k \in Keys : DeleteKey(k)
         \/ \E r \in Rots : Start(r) \/ Going(r)
         \/ Host
         \/ Restart
  BY DEF Next, Admin, Rotate, Going

\* The hosts change no row, no record and no place.
LEMMA HostLeaves ==
  ASSUME Host
  PROVE  UNCHANGED <<assigned, keys, retired, status, server, oldKey, pc, setting>>
  BY DEF Host, RunInstall, RunRemove, RunRename, db, records

\* A request makes one new record.
LEMMA RequestFacts ==
  ASSUME Sound, NEW s \in Servers, Request(s)
  PROVE  \E r \in Rots :
           /\ status[r] = "none" /\ pc[r] = "none"
           /\ \A q \in Rots : q < r => status[q] # "none"
           /\ assigned[s] # Password
           /\ ~InProgress(s)
           /\ status' = [status EXCEPT ![r] = "pending"]
           /\ server' = [server EXCEPT ![r] = s]
           /\ oldKey' = [oldKey EXCEPT ![r] = assigned[s]]
           /\ UNCHANGED <<assigned, keys, retired, pc, lines, script, draft, setting>>
<1>1. PICK r \in Rots : status[r] = "none" /\ Record(r, s) /\ \A q \in Rots : q < r => status[q] # "none"
  BY SettingFacts DEF Request, Sound, TypeOK
<1>2. pc[r] = "none"
  BY <1>1 DEF Sound, InStep
<1> QED BY <1>1, <1>2 DEF Request, Record, db, host

\* A start sets a rotation going or fails it.
LEMMA StartFacts ==
  ASSUME Sound, NEW r \in Rots, Start(r)
  PROVE  /\ status[r] = "pending"
         /\ UNCHANGED <<assigned, keys, retired, lines, script, draft, server, oldKey, setting>>
         /\ \/ status' = [status EXCEPT ![r] = "running"] /\ pc' = [pc EXCEPT ![r] = "install"] /\ assigned[server[r]] = oldKey[r]
            \/ status' = [status EXCEPT ![r] = "failed"] /\ pc' = [pc EXCEPT ![r] = "none"]
  BY DEF Start, Goto, Finish, db, host

\* What a started rotation's step saves: nothing on the way or at the end, a
\* row and the server's key at the switch, and both undone when it goes back.
Passes(r) ==
  /\ UNCHANGED <<assigned, keys, status>>
  /\ \/ pc[r] \in {"install", "installing", "verify", "switch"} /\ pc'[r] \in {"installing", "verify", "switch", "undo"}
     \/ pc[r] \in {"remove", "removing", "checkOld"} /\ pc'[r] \in {"removing", "checkOld", "revert"}
     \/ pc[r] = "undo" /\ pc'[r] = "undoing"

Closes(r) ==
  /\ UNCHANGED <<assigned, keys>> /\ pc'[r] = "none"
  /\ \/ pc[r] \in {"install", "installing"} /\ status' = [status EXCEPT ![r] = "failed"]
     \/ pc[r] \in {"removing", "checkOld"} /\ status' = [status EXCEPT ![r] = "completed"]
     \/ pc[r] \in {"undo", "undoing"} /\ status' = [status EXCEPT ![r] = "rolled_back"]

Switches(r) ==
  /\ pc[r] = "switch" /\ assigned[server[r]] = oldKey[r]
  /\ keys' = keys \union {r}
  /\ assigned' = [assigned EXCEPT ![server[r]] = r]
  /\ \/ pc'[r] = "remove" /\ status' = status
     \/ pc'[r] = "none" /\ status' = [status EXCEPT ![r] = "completed"]

Reverts(r) ==
  /\ pc[r] = "revert" /\ assigned[server[r]] = r
  /\ \/ /\ oldKey[r] \in keys /\ \A s \in Servers \ {server[r]} : assigned[s] # r
        /\ keys' = keys \ {r}
        /\ assigned' = [assigned EXCEPT ![server[r]] = oldKey[r]]
        /\ pc'[r] = "undo" /\ status' = status
     \/ /\ ~(oldKey[r] \in keys /\ \A s \in Servers \ {server[r]} : assigned[s] # r)
        /\ UNCHANGED <<assigned, keys>>
        /\ pc'[r] = "none" /\ status' = [status EXCEPT ![r] = "failed"]

\* Every further step of a rotation is one of these four.
LEMMA Routes ==
  ASSUME Sound, Held, NEW r \in Rots, Going(r)
  PROVE  Passes(r) \/ Closes(r) \/ Switches(r) \/ Reverts(r)
<1> USE DEF Sound, TypeOK, Goto, Finish, Fail, db, records
<1>1. CASE Install(r)
  BY <1>1 DEF Install, Passes, Closes
<1>2. CASE Installed(r)
  BY <1>2 DEF Installed, Passes, Closes
<1>3. CASE Verify(r)
  BY <1>3 DEF Verify, Passes
<1>4. CASE Switch(r)
  BY <1>4 DEF Switch, Passes, Switches
<1>5. CASE Remove(r)
  BY <1>5 DEF Remove, Passes
<1>6. CASE RemovedOld(r)
  BY <1>6 DEF RemovedOld, Passes, Closes
<1>7. CASE CheckOld(r)
  BY <1>7 DEF CheckOld, Passes, Closes
<1>8. CASE Revert(r)
  <2>1. assigned[server[r]] = r
    BY <1>8 DEF Revert, Held, OwnHold
  <2> QED BY <1>8, <2>1 DEF Revert, Reverts
<1>9. CASE Undo(r)
  BY <1>9 DEF Undo, Passes, Closes
<1>10. CASE Undone(r)
  BY <1>10 DEF Undone, Closes
<1> QED BY <1>1, <1>2, <1>3, <1>4, <1>5, <1>6, <1>7, <1>8, <1>9, <1>10 DEF Going

\* A rotation under way has its server to itself.
LEMMA OwnServer ==
  ASSUME Sound, NEW q \in Rots, NEW r \in Rots, q # r, pc[r] # "none", status[q] \in Open
  PROVE  server[q] # server[r]
  BY DEF Sound, InStep, OnePerServer, Open

\* A rotation knows which key its server has.
LEMMA HeldKept == Sound /\ Untampered /\ Held /\ [Next]_vars => Held'
<1> SUFFICES ASSUME Sound, Untampered, Held, [Next]_vars PROVE Held'
  OBVIOUS
<1> USE DEF Held, OwnHold
<1>1. CASE UNCHANGED vars
  BY <1>1 DEF vars, records, db
<1>2. ASSUME NEW s \in Servers, Request(s) PROVE Held'
  <2>1. PICK r \in Rots : /\ pc[r] = "none" /\ UNCHANGED <<assigned, pc>>
                          /\ server' = [server EXCEPT ![r] = s] /\ oldKey' = [oldKey EXCEPT ![r] = assigned[s]]
    BY <1>2, RequestFacts
  <2> QED BY <2>1 DEF Sound, TypeOK
<1>3. ASSUME NEW s \in Servers, Reassign(s) PROVE Held'
  BY <1>3 DEF Reassign, Untampered
<1>4. ASSUME NEW k \in Keys, DeleteKey(k) PROVE Held'
  BY <1>4 DEF DeleteKey, records
<1>5. ASSUME NEW r \in Rots, Start(r) PROVE Held'
  BY <1>5, StartFacts DEF Sound, TypeOK
<1>6. ASSUME NEW r \in Rots, Going(r) PROVE Held'
  <2>1. UNCHANGED <<server, oldKey>> /\ pc[r] # "none" /\ \A q \in Rots : q # r => pc'[q] = pc[q]
    BY <1>6, GoingLeaves DEF Sound
  <2>2. Passes(r) \/ Closes(r) \/ Switches(r) \/ Reverts(r)
    BY <1>6, Routes
  <2>3. OwnHold(r)'
    BY <2>1, <2>2 DEF Passes, Closes, Switches, Reverts, Sound, TypeOK
  <2>4. \A t \in Servers : t # server[r] => assigned'[t] = assigned[t]
    BY <2>2 DEF Passes, Closes, Switches, Reverts, Sound, TypeOK
  <2>5. \A q \in Rots : q # r /\ pc[q] # "none" => server[q] # server[r]
    BY <2>1, OwnServer DEF Sound, InStep, Open
  <2>6. \A q \in Rots : q # r => OwnHold(q)'
    BY <2>1, <2>4, <2>5 DEF Sound, TypeOK
  <2> QED BY <2>3, <2>6
<1>7. CASE Host
  BY <1>7, HostLeaves
<1>8. CASE Restart
  BY <1>8 DEF Restart
<1> QED BY <1>1, <1>2, <1>3, <1>4, <1>5, <1>6, <1>7, <1>8, Kinds

\* Rotations and keys are numbers, the first key the least of them.
LEMMA KeyNumbers == Keys \subseteq Nat /\ Rots \subseteq Nat /\ \A r \in Rots : 0 < r
  BY RotationConstants DEF Keys, Rots

\* The keys of a server are taken in the order of its rotations.
LEMMA TurnKept == Sound /\ Untampered /\ Origins /\ Held /\ Turn /\ [Next]_vars => Turn'
<1> SUFFICES ASSUME Sound, Untampered, Origins, Held, Turn, [Next]_vars PROVE Turn'
  OBVIOUS
<1> USE DEF Turn, Open
<1>1. CASE UNCHANGED vars
  BY <1>1 DEF vars, records, db
<1>2. ASSUME NEW s \in Servers, Request(s) PROVE Turn'
  <2>1. PICK r \in Rots : /\ status[r] = "none" /\ \A q \in Rots : q < r => status[q] # "none"
                          /\ assigned[s] # Password /\ UNCHANGED assigned
                          /\ status' = [status EXCEPT ![r] = "pending"]
                          /\ server' = [server EXCEPT ![r] = s] /\ oldKey' = [oldKey EXCEPT ![r] = assigned[s]]
    BY <1>2, RequestFacts
  <2>2. assigned[s] < r
    <3>1. CASE assigned[s] = 0
      BY <3>1, KeyNumbers
    <3>2. CASE assigned[s] # 0
      <4>1. assigned[s] \in Rots /\ status[assigned[s]] # "none"
        BY <3>2 DEF Origins, Made
      <4>2. assigned[s] # r /\ ~(r < assigned[s])
        BY <2>1, <4>1
      <4>3. assigned[s] \in Nat /\ r \in Nat
        BY <4>1, KeyNumbers
      <4> HIDE DEF Turn
      <4> QED BY <4>2, <4>3
    <3> QED BY <3>1, <3>2
  <2>3. \A q \in Rots : q # r => status'[q] = status[q] /\ server'[q] = server[q] /\ oldKey'[q] = oldKey[q]
    BY <2>1 DEF Sound, TypeOK
  <2>4. status'[r] = "pending" /\ server'[r] = s /\ oldKey'[r] = assigned[s]
    BY <2>1 DEF Sound, TypeOK
  <2>5. \A q \in Rots : status[q] = "completed" /\ server[q] = s => q <= assigned[s]
    OBVIOUS
  <2> QED BY <2>1, <2>2, <2>3, <2>4, <2>5
<1>3. ASSUME NEW s \in Servers, Reassign(s) PROVE Turn'
  BY <1>3 DEF Reassign, Untampered
<1>4. ASSUME NEW k \in Keys, DeleteKey(k) PROVE Turn'
  BY <1>4 DEF DeleteKey, records
<1>5. ASSUME NEW r \in Rots, Start(r) PROVE Turn'
  <2>1. UNCHANGED <<assigned, server, oldKey>> /\ status[r] = "pending"
    BY <1>5, StartFacts
  <2>2. status'[r] \in {"running", "failed"} /\ \A q \in Rots : q # r => status'[q] = status[q]
    BY <1>5, StartFacts DEF Sound, TypeOK
  <2>3. \A q \in Rots : /\ status'[q] = "none" <=> status[q] = "none"
                        /\ status'[q] = "completed" <=> status[q] = "completed"
                        /\ status'[q] \in Open => status[q] \in Open
    BY <2>1, <2>2
  <2> QED BY <2>1, <2>3
<1>6. ASSUME NEW r \in Rots, Going(r) PROVE Turn'
  <2>1. UNCHANGED <<server, oldKey>> /\ pc[r] # "none" /\ status[r] = "running"
    BY <1>6, GoingLeaves DEF Sound, InStep
  <2>2. \A q \in Rots : q # r => status'[q] = status[q]
    BY <1>6, GoingLeaves DEF Sound
  <2>3. \A q \in Rots : q # r /\ status[q] \in Open => server[q] # server[r]
    BY <2>1, OwnServer
  <2>4. \A q \in Rots : status[q] = "completed" /\ server[q] = server[r] => q <= oldKey[r] /\ q <= r
    <3>1. oldKey[r] \in Nat /\ r \in Nat /\ oldKey[r] < r
      BY <2>1, KeyNumbers DEF Sound, TypeOK
    <3>2. ASSUME NEW q \in Rots, status[q] = "completed", server[q] = server[r] PROVE q <= oldKey[r] /\ q \in Nat
      BY <2>1, <3>2, KeyNumbers
    <3> HIDE DEF Turn
    <3> QED BY <3>1, <3>2
  <2>5. Passes(r) \/ Closes(r) \/ Switches(r) \/ Reverts(r)
    BY <1>6, Routes
  <2>6. status'[r] # "none"
    BY <2>1, <2>5 DEF Passes, Closes, Switches, Reverts, Sound, TypeOK
  <2>7. \A q, x \in Rots : status'[q] = "completed" /\ status'[x] \in Open /\ server[q] = server[x] => q <= oldKey[x]
    <3>1. \A x \in Rots : status'[x] \in Open => status[x] \in Open
      BY <2>1, <2>2
    <3> QED BY <2>1, <2>2, <2>3, <3>1
  <2>8. \A q \in Rots : status'[q] = "completed" => q <= assigned'[server[q]]
    <3>1. CASE Passes(r)
      BY <3>1 DEF Passes
    <3>2. CASE Closes(r)
      <4>1. status'[r] = "completed" => assigned[server[r]] = r
        BY <2>1, <3>2 DEF Closes, Held, OwnHold, Sound, TypeOK
      <4> QED BY <2>2, <3>2, <4>1, KeyNumbers DEF Closes
    <3>3. CASE Switches(r)
      <4>1. assigned'[server[r]] = r /\ \A t \in Servers : t # server[r] => assigned'[t] = assigned[t]
        BY <3>3 DEF Switches, Sound, TypeOK
      <4> QED BY <2>2, <2>4, <4>1, KeyNumbers DEF Sound, TypeOK
    <3>4. CASE Reverts(r)
      <4>1. CASE status' = status
        <5>1. assigned'[server[r]] = oldKey[r] /\ \A t \in Servers : t # server[r] => assigned'[t] = assigned[t]
          BY <2>1, <3>4, <4>1 DEF Reverts, Sound, TypeOK
        <5> QED BY <2>4, <4>1, <5>1 DEF Sound, TypeOK
      <4>2. CASE status' # status
        BY <2>2, <3>4, <4>2 DEF Reverts, Sound, TypeOK
      <4> QED BY <4>1, <4>2
    <3> QED BY <2>5, <3>1, <3>2, <3>3, <3>4
  <2>9. \A q \in Rots : status'[q] # "none" <=> status[q] # "none"
    BY <2>1, <2>2, <2>6
  <2> QED BY <2>1, <2>7, <2>8, <2>9
<1>7. CASE Host
  BY <1>7, HostLeaves
<1>8. CASE Restart
  BY <1>8 DEF Restart, db
<1> QED BY <1>1, <1>2, <1>3, <1>4, <1>5, <1>6, <1>7, <1>8, Kinds

\* A rotation that goes back finds the row of its old key, and no other server
\* on its own key: the transaction that puts things back does not fail.
LEMMA RevertSound ==
  ASSUME Sound, Origins, Rows, NEW r \in Rots, pc[r] = "revert"
  PROVE  oldKey[r] \in keys /\ \A s \in Servers \ {server[r]} : assigned[s] # r
<1>1. status[r] \in Open
  BY DEF Sound, InStep, Open
<1>2. \A s \in Servers : assigned[s] = r => server[r] = s
  BY KeyFacts DEF Origins, Made
<1> QED BY <1>1, <1>2 DEF Rows

\* Rows are where they are needed, and gone where a rotation came to nothing.
LEMMA RowsKept == Sound /\ Lasting /\ Origins /\ Held /\ Rows /\ [Next]_vars => Rows'
<1> SUFFICES ASSUME Sound, Lasting, Origins, Held, Rows, [Next]_vars PROVE Rows'
  OBVIOUS
<1> USE DEF Rows, Open
<1>1. CASE UNCHANGED vars
  BY <1>1 DEF vars, records, db
<1>2. ASSUME NEW s \in Servers, Request(s) PROVE Rows'
  <2>1. PICK r \in Rots : /\ status[r] = "none" /\ pc[r] = "none" /\ UNCHANGED <<assigned, keys, pc>>
                          /\ status' = [status EXCEPT ![r] = "pending"] /\ oldKey' = [oldKey EXCEPT ![r] = assigned[s]]
    BY <1>2, RequestFacts
  <2> QED BY <2>1 DEF Sound, TypeOK
<1>3. ASSUME NEW s \in Servers, Reassign(s) PROVE Rows'
  BY <1>3 DEF Reassign, Lasting
<1>4. ASSUME NEW k \in Keys, DeleteKey(k) PROVE Rows'
  BY <1>4 DEF DeleteKey, Lasting
<1>5. ASSUME NEW r \in Rots, Start(r) PROVE Rows'
  BY <1>5, StartFacts DEF Sound, TypeOK
<1>6. ASSUME NEW r \in Rots, Going(r) PROVE Rows'
  <2>1. UNCHANGED <<server, oldKey>> /\ pc[r] # "none" /\ status[r] = "running"
    BY <1>6, GoingLeaves DEF Sound, InStep
  <2>2. \A q \in Rots : q # r => status'[q] = status[q] /\ pc'[q] = pc[q]
    BY <1>6, GoingLeaves DEF Sound
  <2>3. CASE Passes(r)
    BY <2>1, <2>2, <2>3 DEF Passes
  <2>4. CASE Closes(r)
    <3>1. status'[r] \in {"failed", "rolled_back"} => r \notin keys
      BY <2>4 DEF Closes, Sound, TypeOK
    <3> QED BY <2>1, <2>2, <2>4, <3>1 DEF Closes, Sound, TypeOK
  <2>5. CASE Switches(r)
    <3>1. \A t \in Servers : assigned'[t] \in keys'
      BY <2>5 DEF Switches, Sound, TypeOK
    <3>2. status'[r] \in {"running", "completed"} /\ pc'[r] \in {"remove", "none"} /\ keys' = keys \union {r}
      BY <2>1, <2>5 DEF Switches, Sound, TypeOK
    <3> QED BY <2>1, <2>2, <3>1, <3>2
  <2>6. CASE Reverts(r)
    <3>1. pc[r] = "revert"
      BY <2>6 DEF Reverts
    <3>2. oldKey[r] \in keys /\ \A t \in Servers \ {server[r]} : assigned[t] # r
      BY <3>1, RevertSound
    <3>3. /\ keys' = keys \ {r} /\ assigned' = [assigned EXCEPT ![server[r]] = oldKey[r]]
          /\ pc'[r] = "undo" /\ status' = status
      BY <2>6, <3>2 DEF Reverts
    <3>4. oldKey[r] # r
      BY <2>1 DEF Origins
    <3>5. \A t \in Servers : assigned'[t] \in keys'
      BY <3>2, <3>3, <3>4 DEF Sound, TypeOK
    <3>6. ASSUME NEW q \in Rots, status[q] \in Open PROVE oldKey[q] # r
      <4>1. q # r => server[q] # server[r]
        BY <2>1, <3>6, OwnServer
      <4>2. oldKey[q] = r => server[r] = server[q]
        BY <3>6, KeyFacts DEF Origins, Made
      <4> QED BY <3>4, <4>1, <4>2
    <3> QED BY <2>1, <2>2, <3>3, <3>5, <3>6
  <2> QED BY <1>6, <2>3, <2>4, <2>5, <2>6, Routes
<1>7. CASE Host
  BY <1>7, HostLeaves
<1>8. CASE Restart
  BY <1>8 DEF Restart, db
<1> QED BY <1>1, <1>2, <1>3, <1>4, <1>5, <1>6, <1>7, <1>8, Kinds

\* A step of a rotation only takes copies away.
LEMMA NowhereGoing ==
  ASSUME Sound, NEW r \in Rots, Going(r), NEW k \in Keys, Nowhere(k)
  PROVE  Nowhere(k)'
<1>1. lines' = lines
  BY GoingLeaves DEF Sound
<1>2. UNCHANGED host \/ (\E c \in Calls : Send(r, c) \/ GiveUp(r, c) \/ \E outcome \in {"done", "refused"} : Answer(r, c, outcome))
  BY CallOrNone
<1>3. \A q \in Rots, d \in Calls : draft'[q][d] = draft[q][d] \/ draft'[q][d] = {}
  <2>1. CASE draft' = draft
    BY <2>1
  <2>2. ASSUME NEW c \in Calls, draft' = [draft EXCEPT ![r][c] = {}]
        PROVE  \A q \in Rots, d \in Calls : draft'[q][d] = draft[q][d] \/ draft'[q][d] = {}
    BY <2>2 DEF Sound, TypeOK
  <2> QED BY <1>2, <2>1, <2>2 DEF Send, GiveUp, Answer, host
<1> QED BY <1>1, <1>3 DEF Nowhere

\* A rotation that failed has left no line, and none is there before it writes it.
LEMMA TracesKept == Sound /\ Lasting /\ Origins /\ Rows /\ Traces /\ [Next]_vars => Traces'
<1> SUFFICES ASSUME Sound, Lasting, Origins, Rows, Traces, [Next]_vars PROVE Traces'
  OBVIOUS
<1> USE DEF Traces, OwnTrace
<1>1. CASE UNCHANGED vars
  BY <1>1 DEF vars, records, host, Nowhere
<1>2. ASSUME NEW s \in Servers, Request(s) PROVE Traces'
  <2>1. PICK r \in Rots : status[r] = "none" /\ status' = [status EXCEPT ![r] = "pending"] /\ UNCHANGED <<pc, lines, script, draft>>
    BY <1>2, RequestFacts
  <2> QED BY <2>1 DEF Sound, TypeOK, Nowhere
<1>3. ASSUME NEW s \in Servers, Reassign(s) PROVE Traces'
  BY <1>3 DEF Reassign, Lasting
<1>4. ASSUME NEW k \in Keys, DeleteKey(k) PROVE Traces'
  BY <1>4 DEF DeleteKey, Lasting
<1>5. ASSUME NEW r \in Rots, Start(r) PROVE Traces'
  <2>1. status[r] = "pending" /\ UNCHANGED <<lines, script, draft>>
    BY <1>5, StartFacts
  <2>2. pc'[r] \in {"install", "none"} /\ \A q \in Rots : q # r => status'[q] = status[q] /\ pc'[q] = pc[q]
    BY <1>5, StartFacts DEF Sound, TypeOK
  <2> QED BY <2>1, <2>2 DEF Nowhere
<1>6. ASSUME NEW r \in Rots, Going(r) PROVE Traces'
  <2>1. pc[r] # "none" /\ status[r] = "running"
    BY <1>6, GoingLeaves DEF Sound, InStep
  <2>2. \A q \in Rots, c \in Calls : q # r => status'[q] = status[q] /\ pc'[q] = pc[q] /\ script'[q][c] = script[q][c]
    BY <1>6, GoingLeaves DEF Sound
  <2>3. \A q \in Rots : Nowhere(q) => Nowhere(q)'
    BY <1>6, NowhereGoing, KeyFacts
  <2>4. \A q \in Rots : q # r => OwnTrace(q)'
    BY <2>2, <2>3 DEF Calls
  <2>5. OwnTrace(r)'
    <3>1. CASE Install(r)
      BY <2>1, <2>3, <3>1 DEF Install, Fail, Finish, Goto, Send, records, host, Sound, TypeOK, Calls
    <3>2. CASE Installed(r)
      <4>1. CASE Answer(r, "install", "refused") /\ Fail(r, FALSE)
        BY <2>1, <2>3, <3>2, <4>1 DEF Installed, Fail, Finish, Goto, Answer, Sound, TypeOK, Calls
      <4>2. CASE ~(Answer(r, "install", "refused") /\ Fail(r, FALSE))
        BY <2>1, <3>2, <4>2 DEF Installed, Fail, Finish, Goto, records, Sound, TypeOK
      <4> QED BY <4>1, <4>2
    <3>3. CASE Verify(r) \/ Switch(r) \/ Remove(r) \/ RemovedOld(r) \/ CheckOld(r) \/ Revert(r) \/ Undo(r) \/ Undone(r)
      <4>1. pc'[r] \in {"switch", "undo", "remove", "removing", "checkOld", "revert", "undoing", "none"}
        BY <3>3 DEF Verify, Switch, Remove, RemovedOld, CheckOld, Revert, Undo, Undone, Fail, Finish, Goto, Sound, TypeOK
      <4>2. status'[r] \in {"running", "completed", "rolled_back"}
        <5>1. CASE Revert(r)
          <6>1. oldKey[r] \in keys /\ \A s \in Servers \ {server[r]} : assigned[s] # r
            BY <5>1, RevertSound DEF Revert
          <6> QED BY <2>1, <5>1, <6>1 DEF Revert, Finish, records, Sound, TypeOK
        <5>2. CASE ~Revert(r)
          BY <2>1, <3>3, <5>2 DEF Verify, Switch, Remove, RemovedOld, CheckOld, Undo, Undone, Fail, Finish, records, Sound, TypeOK
        <5> QED BY <5>1, <5>2
      <4> QED BY <4>1, <4>2
    <3> QED BY <1>6, <3>1, <3>2, <3>3 DEF Going
  <2> QED BY <2>4, <2>5
<1>7. ASSUME NEW r \in Rots, RunInstall(r) PROVE Traces'
  <2>1. UNCHANGED <<status, pc, draft>> /\ script[r]["install"] = "sent"
    BY <1>7 DEF RunInstall, records
  <2>2. \A q \in Rots, c \in Calls : q # r => script'[q][c] = script[q][c]
    BY <1>7 DEF RunInstall, Set, Sound, TypeOK
  <2>3. \A a \in Accounts : lines'[a] \subseteq lines[a] \union {r}
    BY <1>7 DEF RunInstall, Sound, TypeOK
  <2>4. \A q \in Rots : q # r /\ Nowhere(q) => Nowhere(q)'
    BY <2>1, <2>3 DEF Nowhere
  <2>5. \A q \in Rots : q # r => OwnTrace(q)'
    BY <2>1, <2>2, <2>4 DEF Calls
  <2>6. script'[r]["install"] = "done" \/ (script'[r]["install"] = "refused" /\ UNCHANGED lines)
    BY <1>7 DEF RunInstall, Set, Sound, TypeOK, Calls
  <2>7. OwnTrace(r)'
    BY <2>1, <2>6 DEF Nowhere
  <2> QED BY <2>5, <2>7
<1>8. ASSUME NEW r \in Rots, NEW c \in Removals, RunRemove(r, c) \/ RunRename(r, c) PROVE Traces'
  <2>1. UNCHANGED <<status, pc>> /\ c \in Calls /\ c # "install"
    BY <1>8 DEF RunRemove, RunRename, records, Removals, Calls
  <2>2. \A q \in Rots : script'[q]["install"] = script[q]["install"]
    <3>1. \E state \in {"refused", "done", "copied"} : script' = [script EXCEPT ![r][c] = state]
      BY <1>8 DEF RunRemove, RunRename, Set
    <3> QED BY <2>1, <3>1 DEF Sound, TypeOK, Calls
  <2>3. Account(r) \in Accounts
    BY SettingFacts DEF Account, Sound, TypeOK
  <2>4. ASSUME NEW q \in Rots, Nowhere(q) PROVE Nowhere(q)'
    <3>1. CASE RunRemove(r, c)
      <4>1. lines' = lines
        BY <3>1 DEF RunRemove
      <4>2. \A x \in Rots, d \in Calls : draft'[x][d] = draft[x][d] \/ draft'[x][d] \subseteq lines[Account(r)]
        BY <2>1, <3>1 DEF RunRemove, Sound, TypeOK
      <4> QED BY <2>3, <2>4, <4>1, <4>2 DEF Nowhere
    <3>2. CASE RunRename(r, c)
      <4>1. \A a \in Accounts : lines'[a] = lines[a] \/ lines'[a] = draft[r][c]
        BY <2>1, <3>2 DEF RunRename, Sound, TypeOK
      <4>2. \A x \in Rots, d \in Calls : draft'[x][d] = draft[x][d] \/ draft'[x][d] = {}
        BY <2>1, <3>2 DEF RunRename, Sound, TypeOK
      <4> QED BY <2>1, <2>4, <4>1, <4>2 DEF Nowhere
    <3> QED BY <1>8, <3>1, <3>2
  <2> QED BY <2>1, <2>2, <2>4
<1>9. CASE Restart
  <2>1. lines' = lines /\ pc' = [q \in Rots |-> "none"]
    BY <1>9 DEF Restart
  <2>2. \A q \in Rots : status'[q] \in {"none", "pending", "failed"} => status[q] = status'[q]
    BY <1>9 DEF Restart, Open
  <2>3. \/ UNCHANGED <<script, draft>>
        \/ \A q \in Rots, c \in Calls : script'[q][c] = "none" /\ draft'[q][c] = {}
    BY <1>9 DEF Restart
  <2>4. \A q \in Rots : Nowhere(q) => Nowhere(q)'
    BY <2>1, <2>3 DEF Nowhere
  <2> QED BY <2>1, <2>2, <2>3, <2>4 DEF Calls
<1> QED BY <1>1, <1>2, <1>3, <1>4, <1>5, <1>6, <1>7, <1>8, <1>9, Kinds DEF Host, Removals

\* The invariant behind RecordsTrue is kept.
LEMMA RecordsKept == Sound /\ RecordsInv /\ [Next]_vars => RecordsInv'
<1> SUFFICES ASSUME Sound, RecordsInv, [Next]_vars PROVE RecordsInv'
  OBVIOUS
<1>1. (Untampered' <=> Untampered) /\ (Lasting' <=> Lasting) /\ (Lasting => Untampered)
  BY NextFacts DEF Sound, TypeOK, Untampered, Lasting
<1>2. Untampered => (Origins /\ Held /\ Turn)'
  BY OriginsKept, HeldKept, TurnKept DEF RecordsInv
<1>3. Lasting => (Rows /\ Traces)'
  BY <1>1, RowsKept, TracesKept DEF RecordsInv
<1> QED BY <1>1, <1>2, <1>3 DEF RecordsInv

-----------------------------------------------------------------------------
(* The files list exactly what is used *)

\* Nothing but the vault fails, and accounts are rotated one at a time.
Exacting == Calm /\ Faults \subseteq {"vault"}

\* Every answer that is waited for will be that the change was made.
OwnAnswer(r) ==
  /\ pc[r] \notin {"checkOld", "revert"}
  /\ \A c \in Calls : pc[r] = Waiting(c) => script[r][c] \in {"sent", "copied", "done"}

Answers == \A r \in Rots : OwnAnswer(r)

\* The line a rotation has written and may not keep, or has yet to remove.
Stray(r, k) ==
  \/ /\ k = r
     /\ \/ pc[r] \in {"verify", "switch", "undo"}
        \/ pc[r] = "installing" /\ script[r]["install"] = "done"
        \/ pc[r] = "undoing" /\ script[r]["removeNew"] # "done"
  \/ /\ k = oldKey[r]
     /\ \/ pc[r] = "remove"
        \/ pc[r] = "removing" /\ script[r]["removeOld"] # "done"

Users(a) == {s \in Servers : setting.account[s] = a}

\* An account's file lists the keys of its servers and what its rotation under
\* way has put there or left.
Listed ==
  \A a \in Accounts : Users(a) # {} =>
    \A k \in Keys : k \in lines[a] <=> \/ \E s \in Users(a) : assigned[s] = k
                                       \/ \E r \in Rots : Account(r) = a /\ Stray(r, k)

FilesInv == Exacting => Answers /\ Listed

\* A rotation's key or the one it replaces, whichever its server has, is listed.
LEMMA LoginLine ==
  ASSUME Sound, Calm, AccessInv, NEW r \in Rots
  PROVE  /\ pc[r] \in {"install", "installing", "verify", "switch", "undo", "undoing"} => Accepts(r, oldKey[r])
         /\ pc[r] \in {"remove", "removing", "checkOld", "revert"} => Accepts(r, r)
<1>1. OwnHold(r) /\ Accepted
  BY DEF AccessInv, Places, OwnPlace
<1>2. oldKey[r] # Password /\ r # Password /\ server[r] \in Servers
  BY KeyFacts DEF Sound, TypeOK
<1> QED BY <1>1, <1>2 DEF OwnHold, Accepted, Accepts, Account

\* The line that a removal is about to take is no server's.
LEMMA DropsUnused ==
  ASSUME Sound, Calm, AccessInv, NEW r \in Rots, NEW c \in Removals, script[r][c] = "copied",
         NEW s \in Servers, setting.account[s] = Account(r)
  PROVE  assigned[s] # Drops(r, c)
<1>1. pc[r] = Waiting(c)
  BY DEF AccessInv, Scripts, OwnScripts, Calls, Removals
<1>2. status[r] # "none" /\ oldKey[r] # r
  BY <1>1 DEF Waiting, AccessInv, Origins, Sound, InStep, Removals
<1>3. OwnPlace(r) /\ OwnHold(r)
  BY DEF AccessInv, Places, OwnPlace
<1>4. CASE c = "removeOld"
  BY <1>1, <1>2, <1>3, <1>4 DEF Waiting, OwnPlace, OwnHold, Sharing, Drops
<1>5. CASE c = "removeNew"
  <2>1. assigned[s] = r => server[r] = s
    BY KeyFacts DEF AccessInv, Origins, Made
  <2> QED BY <1>1, <1>2, <1>3, <1>5, <2>1 DEF Waiting, OwnHold, Drops
<1> QED BY <1>4, <1>5 DEF Removals

\* With no fault but the vault's, no answer is a refusal and none is missed.
LEMMA AnswersKept == Sound /\ RetiredInv /\ AccessInv /\ Exacting /\ Answers /\ [Next]_vars => Answers'
<1> SUFFICES ASSUME Sound, RetiredInv, AccessInv, Exacting, Answers, [Next]_vars PROVE Answers'
  OBVIOUS
<1> USE DEF Answers, OwnAnswer
<1>0. Calm /\ "network" \notin Faults /\ "crash" \notin Faults
  BY DEF Exacting
<1>1. CASE UNCHANGED vars
  BY <1>1 DEF vars, host
<1>2. ASSUME NEW s \in Servers, Request(s) PROVE Answers'
  BY <1>2, RequestFacts
<1>3. ASSUME NEW s \in Servers, Reassign(s) PROVE Answers'
  BY <1>0, <1>3 DEF Reassign, Calm
<1>4. ASSUME NEW k \in Keys, DeleteKey(k) PROVE Answers'
  BY <1>4 DEF DeleteKey, host
<1>5. ASSUME NEW r \in Rots, Start(r) PROVE Answers'
  BY <1>5, StartFacts DEF Sound, TypeOK, Waiting
<1>6. ASSUME NEW r \in Rots, Going(r) PROVE Answers'
  <2>1. \A q \in Rots, c \in Calls : q # r => pc'[q] = pc[q] /\ script'[q][c] = script[q][c]
    BY <1>6, GoingLeaves DEF Sound
  <2>2. /\ pc[r] \in {"install", "installing", "verify", "switch", "undo", "undoing"} => Accepts(r, oldKey[r])
        /\ pc[r] \in {"remove", "removing", "checkOld", "revert"} => Accepts(r, r)
    BY <1>0, LoginLine
  <2>3. OwnAnswer(r)'
    <3> USE DEF Sound, TypeOK, Goto, Finish, Waiting, Calls
    <3>1. CASE Install(r)
      BY <1>0, <2>2, <3>1 DEF Install, Send, Fail
    <3>2. CASE Installed(r)
      BY <1>0, <3>2 DEF Installed, Answer, GiveUp, Fail
    <3>3. CASE Verify(r)
      BY <3>3 DEF Verify, Fail
    <3>4. CASE Switch(r)
      BY <3>4 DEF Switch, Fail
    <3>5. CASE Remove(r)
      BY <1>0, <2>2, <3>5 DEF Remove, Send
    <3>6. CASE RemovedOld(r)
      BY <1>0, <3>6 DEF RemovedOld, Answer, GiveUp
    <3>7. CASE CheckOld(r) \/ Revert(r)
      BY <3>7 DEF CheckOld, Revert
    <3>8. CASE Undo(r)
      BY <1>0, <2>2, <3>8 DEF Undo, Send
    <3>9. CASE Undone(r)
      BY <3>9 DEF Undone
    <3> QED BY <1>6, <3>1, <3>2, <3>3, <3>4, <3>5, <3>6, <3>7, <3>8, <3>9 DEF Going
  <2> QED BY <2>1, <2>3 DEF Calls
<1>7. ASSUME NEW r \in Rots, RunInstall(r) PROVE Answers'
  <2>1. pc[r] = "installing"
    BY <1>7 DEF RunInstall, AccessInv, Exacting, Scripts, OwnScripts, Waiting, Calls
  <2>2. Accepts(r, oldKey[r])
    BY <1>0, <2>1, LoginLine
  <2>3. script' = [script EXCEPT ![r]["install"] = "done"] /\ pc' = pc
    BY <1>7, <2>2 DEF RunInstall, Set
  <2> QED BY <2>3 DEF Sound, TypeOK, Calls
<1>8. ASSUME NEW r \in Rots, NEW c \in Removals, RunRemove(r, c) \/ RunRename(r, c) PROVE Answers'
  <2>1. c \in Calls /\ script[r][c] # "none" /\ pc' = pc
    BY <1>8 DEF RunRemove, RunRename, Removals, Calls
  <2>2. pc[r] = Waiting(c)
    BY <2>1 DEF AccessInv, Exacting, Scripts, OwnScripts
  <2>3. Accepts(r, Keeps(r, c))
    BY <1>0, <2>2, LoginLine DEF Waiting, Keeps, Removals
  <2>4. \E state \in {"copied", "done"} : script' = [script EXCEPT ![r][c] = state]
    BY <1>8, <2>3 DEF RunRemove, RunRename, Set
  <2> QED BY <2>1, <2>4 DEF Sound, TypeOK
<1>9. CASE Restart
  BY <1>0, <1>9 DEF Restart
<1> QED BY <1>1, <1>2, <1>3, <1>4, <1>5, <1>6, <1>7, <1>8, <1>9, Kinds DEF Host, Removals

\* A step that changes neither files nor servers and no stray line keeps Listed.
LEMMA ListedSame ==
  ASSUME Sound, Listed, UNCHANGED <<lines, assigned, setting>>,
         \A q \in Rots, k \in Keys : (Stray(q, k)' <=> Stray(q, k)) /\ (Stray(q, k) => server'[q] = server[q])
  PROVE  Listed'
<1>1. \A a \in Accounts : Users(a)' = Users(a)
  BY DEF Users
<1>2. \A a \in Accounts, q \in Rots, k \in Keys : (Account(q) = a /\ Stray(q, k))' <=> Account(q) = a /\ Stray(q, k)
  BY DEF Account
<1>3. ASSUME NEW a \in Accounts, Users(a) # {}, NEW k \in Keys
      PROVE  k \in lines'[a] <=> \/ \E s \in Users(a) : assigned'[s] = k
                                 \/ \E q \in Rots : (Account(q) = a /\ Stray(q, k))'
  <2>1. k \in lines[a] <=> \/ \E s \in Users(a) : assigned[s] = k
                           \/ \E q \in Rots : Account(q) = a /\ Stray(q, k)
    BY <1>3 DEF Listed
  <2>2. (\E q \in Rots : (Account(q) = a /\ Stray(q, k))') <=> \E q \in Rots : Account(q) = a /\ Stray(q, k)
    BY <1>2
  <2> QED BY <2>1, <2>2
<1> QED BY <1>1, <1>3 DEF Listed

\* The only stray line of an account is that of its rotation under way.
LEMMA OneStray ==
  ASSUME Sound, Alone, NEW r \in Rots, pc[r] # "none", NEW q \in Rots, q # r, Account(q) = Account(r), NEW k
  PROVE  ~Stray(q, k)
  BY DEF Alone, Stray

\* A rotation's step adds or removes no line, and the stray ones it leaves are
\* those it found, but for the switch, where two keys change places.
LEMMA ListedGoing ==
  ASSUME Sound, RetiredInv, AccessInv, Exacting, Answers, Listed, NEW r \in Rots, Going(r)
  PROVE  Listed'
<1>1. UNCHANGED <<lines, server, oldKey, setting>> /\ pc[r] # "none"
  BY GoingLeaves DEF Sound
<1>2. \A q \in Rots, k \in Keys : q # r => (Stray(q, k)' <=> Stray(q, k))
  BY GoingLeaves DEF Sound, Stray, Calls
<1>3. Calm /\ "network" \notin Faults /\ OwnAnswer(r)
  BY DEF Exacting, Answers
<1>4. /\ pc[r] \in {"install", "installing", "verify", "switch", "undo", "undoing"} => Accepts(r, oldKey[r])
      /\ pc[r] \in {"remove", "removing", "checkOld", "revert"} => Accepts(r, r)
  BY <1>3, LoginLine
<1>5. ASSUME UNCHANGED assigned, \A k \in Keys : Stray(r, k)' <=> Stray(r, k) PROVE Listed'
  BY <1>1, <1>2, <1>5, ListedSame
<1>6. CASE Switch(r) /\ pc'[r] # "undo"
  <2>1. /\ pc[r] = "switch" /\ assigned[server[r]] = oldKey[r] /\ assigned' = [assigned EXCEPT ![server[r]] = r]
        /\ IF Sharing(r) = {} THEN pc'[r] = "remove" ELSE pc'[r] = "none"
    BY <1>6 DEF Switch, Goto, Finish, Fail, Sound, TypeOK
  <2>2. server[r] \in Servers /\ assigned'[server[r]] = r /\ \A s \in Servers : s # server[r] => assigned'[s] = assigned[s]
    BY <2>1 DEF Sound, TypeOK
  <2>3. \A k \in Keys : (Stray(r, k) <=> k = r) /\ (Stray(r, k)' <=> k = oldKey[r] /\ Sharing(r) = {})
    BY <1>1, <2>1 DEF Stray
  <2>4. Account(r)' = Account(r) /\ \A q \in Rots : Account(q)' = Account(q)
    BY <1>1 DEF Account
  <2>5. Alone
    BY <1>3, AloneHolds DEF Calm
  <2>6. ASSUME NEW a \in Accounts, Users(a) # {}, NEW k \in Keys
        PROVE  k \in lines[a] <=> \/ \E s \in Users(a) : assigned'[s] = k
                                  \/ \E q \in Rots : Account(q) = a /\ Stray(q, k)'
    <3>1. k \in lines[a] <=> \/ \E s \in Users(a) : assigned[s] = k
                             \/ \E q \in Rots : Account(q) = a /\ Stray(q, k)
      BY <2>6 DEF Listed
    <3>2. CASE a # Account(r)
      <4>1. \A s \in Users(a) : assigned'[s] = assigned[s]
        BY <2>2, <3>2 DEF Users, Account
      <4>2. \A q \in Rots : Account(q) = a => (Stray(q, k)' <=> Stray(q, k))
        BY <1>2, <3>2
      <4> QED BY <3>1, <4>1, <4>2
    <3>3. CASE a = Account(r)
      <4>1. (\E q \in Rots : Account(q) = a /\ Stray(q, k)) <=> k = r
        BY <1>1, <2>3, <2>5, <3>3, OneStray
      <4>2. (\E q \in Rots : Account(q) = a /\ Stray(q, k)') <=> k = oldKey[r] /\ Sharing(r) = {}
        BY <1>1, <1>2, <2>3, <2>5, <3>3, OneStray
      <4>3. server[r] \in Users(a) /\ Users(a) \subseteq Servers
        BY <2>2, <3>3 DEF Users, Account
      <4>4. (\E s \in Users(a) : assigned'[s] = k) <=> k = r \/ \E s \in Users(a) \ {server[r]} : assigned[s] = k
        BY <2>2, <4>3
      <4>5. (\E s \in Users(a) : assigned[s] = k) <=> k = oldKey[r] \/ \E s \in Users(a) \ {server[r]} : assigned[s] = k
        BY <2>1, <4>3
      <4>6. Sharing(r) # {} <=> \E s \in Users(a) \ {server[r]} : assigned[s] = oldKey[r]
        BY <3>3 DEF Sharing, Users
      <4> QED BY <3>1, <4>1, <4>2, <4>4, <4>5, <4>6
    <3> QED BY <3>2, <3>3
  <2>7. \A a \in Accounts : Users(a)' = Users(a)
    BY <1>1 DEF Users
  <2> QED BY <1>1, <2>4, <2>6, <2>7 DEF Listed
<1>7. CASE ~(Switch(r) /\ pc'[r] # "undo")
  <2> USE DEF OwnAnswer, Stray, Sound, TypeOK, Goto, Finish, Waiting, Calls
  <2>1. CASE Install(r)
    BY <1>1, <1>3, <1>4, <1>5, <2>1 DEF Install, Send, Fail, db
  <2>2. CASE Installed(r)
    BY <1>1, <1>3, <1>5, <2>2 DEF Installed, Answer, GiveUp, Fail, db
  <2>3. CASE Verify(r)
    BY <1>1, <1>5, <2>3 DEF Verify, Fail, db
  <2>4. CASE Switch(r)
    <3>1. UNCHANGED assigned /\ pc[r] = "switch" /\ pc'[r] = "undo"
      BY <1>7, <2>4 DEF Switch, Fail
    <3> QED BY <1>1, <1>5, <3>1
  <2>5. CASE Remove(r)
    BY <1>1, <1>3, <1>4, <1>5, <2>5 DEF Remove, Send, db
  <2>6. CASE RemovedOld(r)
    BY <1>1, <1>3, <1>5, <2>6 DEF RemovedOld, Answer, GiveUp
  <2>7. CASE CheckOld(r) \/ Revert(r)
    BY <1>3, <2>7 DEF CheckOld, Revert
  <2>8. CASE Undo(r)
    BY <1>1, <1>3, <1>4, <1>5, <2>8 DEF Undo, Send, db
  <2>9. CASE Undone(r)
    BY <1>1, <1>3, <1>5, <2>9 DEF Undone, Answer, GiveUp, db
  <2> QED BY <2>1, <2>2, <2>3, <2>4, <2>5, <2>6, <2>7, <2>8, <2>9 DEF Going
<1> QED BY <1>6, <1>7

\* The hosts' scripts add the line that becomes a stray one, and remove the
\* stray one and no other.
LEMMA ListedHost ==
  ASSUME Sound, RetiredInv, AccessInv, Exacting, Answers, Listed, NEW r \in Rots,
         RunInstall(r) \/ \E c \in Removals : RunRemove(r, c) \/ RunRename(r, c)
  PROVE  Listed'
<1>1. UNCHANGED <<assigned, server, oldKey, pc, setting>>
  BY DEF RunInstall, RunRemove, RunRename, db, records
<1>2. \A q \in Rots, c \in Calls : q # r => script'[q][c] = script[q][c]
  BY DEF RunInstall, RunRemove, RunRename, Set, Removals, Calls, Sound, TypeOK
<1>3. \A q \in Rots, k \in Keys : q # r => (Stray(q, k)' <=> Stray(q, k))
  BY <1>1, <1>2 DEF Stray, Calls
<1>4. Calm /\ OwnAnswer(r)
  BY DEF Exacting, Answers
<1>5. Alone
  BY <1>4, AloneHolds DEF Calm
<1>6. /\ Account(r)' = Account(r) /\ Account(r) \in Accounts /\ \A q \in Rots : Account(q)' = Account(q)
      /\ \A a \in Accounts : Users(a)' = Users(a)
  BY <1>1, SettingFacts DEF Account, Users, Sound, TypeOK
<1>a. ASSUME pc[r] # "none",
             \A a \in Accounts : a # Account(r) => lines'[a] = lines[a],
             \A k \in Keys : (\A s \in Servers : setting.account[s] = Account(r) => assigned[s] # k)
                               => (k \in lines'[Account(r)] <=> Stray(r, k)' \/ (k \in lines[Account(r)] /\ ~Stray(r, k))),
             \A k \in Keys : (\E s \in Servers : setting.account[s] = Account(r) /\ assigned[s] = k) => k \in lines'[Account(r)]
      PROVE  Listed'
  <2>1. ASSUME NEW a \in Accounts, Users(a) # {}, NEW k \in Keys
        PROVE  k \in lines'[a] <=> \/ \E s \in Users(a) : assigned[s] = k
                                   \/ \E q \in Rots : Account(q) = a /\ Stray(q, k)'
    <3>1. k \in lines[a] <=> \/ \E s \in Users(a) : assigned[s] = k
                             \/ \E q \in Rots : Account(q) = a /\ Stray(q, k)
      BY <2>1 DEF Listed
    <3>2. CASE a # Account(r)
      BY <1>3, <1>a, <3>1, <3>2
    <3>3. CASE a = Account(r)
      <4>1. (\E q \in Rots : Account(q) = a /\ Stray(q, k)) <=> Stray(r, k)
        BY <1>5, <1>a, <3>3, OneStray
      <4>2. (\E q \in Rots : Account(q) = a /\ Stray(q, k)') <=> Stray(r, k)'
        BY <1>3, <1>5, <1>a, <3>3, OneStray
      <4>3. CASE \E s \in Users(a) : assigned[s] = k
        BY <1>a, <3>3, <4>3 DEF Users
      <4>4. CASE ~\E s \in Users(a) : assigned[s] = k
        BY <1>a, <3>1, <3>3, <4>1, <4>2, <4>4 DEF Users
      <4> QED BY <4>3, <4>4
    <3> QED BY <3>2, <3>3
  <2> QED BY <1>1, <1>6, <2>1 DEF Listed
<1>7. CASE RunInstall(r)
  <2>1. pc[r] = "installing"
    BY <1>7 DEF RunInstall, AccessInv, Exacting, Scripts, OwnScripts, Waiting, Calls
  <2>2. Accepts(r, oldKey[r])
    BY <1>4, <2>1, LoginLine
  <2>3. script[r]["install"] = "sent" /\ script'[r]["install"] = "done" /\ lines' = [lines EXCEPT ![Account(r)] = @ \union {r}]
    BY <1>7, <2>2 DEF RunInstall, Set, Sound, TypeOK, Calls
  <2>4. \A k \in Keys : ~Stray(r, k) /\ (Stray(r, k)' <=> k = r)
    BY <1>1, <2>1, <2>3 DEF Stray
  <2>5. lines'[Account(r)] = lines[Account(r)] \union {r} /\ \A a \in Accounts : a # Account(r) => lines'[a] = lines[a]
    BY <1>6, <2>3 DEF Sound, TypeOK
  <2>6. \A s \in Servers : setting.account[s] = Account(r) /\ assigned[s] \in Keys => assigned[s] \in lines[Account(r)]
    BY <1>4, KeyFacts DEF AccessInv, Accepted
  <2> QED BY <1>a, <2>1, <2>4, <2>5, <2>6
<1>8. ASSUME NEW c \in Removals, RunRemove(r, c) PROVE Listed'
  <2>1. c \in Calls /\ script[r][c] = "sent" /\ UNCHANGED lines
    BY <1>8 DEF RunRemove, Removals, Calls
  <2>2. pc[r] = Waiting(c)
    BY <2>1 DEF AccessInv, Exacting, Scripts, OwnScripts
  <2>3. Accepts(r, Keeps(r, c))
    BY <1>4, <2>2, LoginLine DEF Waiting, Keeps, Removals
  <2>4. \A k \in Keys : Stray(r, k) <=> k = Drops(r, c)
    BY <2>1, <2>2 DEF Stray, Waiting, Drops, Removals
  <2>5. Accepts(r, Drops(r, c))
    <3>1. Drops(r, c) \in Keys /\ server[r] \in Users(Account(r))
      BY KeyFacts DEF Drops, Users, Account, Sound, TypeOK
    <3> QED BY <1>6, <2>4, <3>1 DEF Listed, Accepts
  <2>6. script' = [script EXCEPT ![r][c] = "copied"]
    BY <1>8, <2>3, <2>5 DEF RunRemove, Set
  <2>7. \A k \in Keys : Stray(r, k)' <=> Stray(r, k)
    BY <1>1, <2>1, <2>2, <2>6 DEF Stray, Waiting, Removals, Sound, TypeOK, Calls
  <2> QED BY <1>1, <1>3, <2>1, <2>7, ListedSame
<1>9. ASSUME NEW c \in Removals, RunRename(r, c) PROVE Listed'
  <2>1. c \in Calls /\ script[r][c] = "copied" /\ lines' = [lines EXCEPT ![Account(r)] = draft[r][c]]
    BY <1>9 DEF RunRename, Removals, Calls
  <2>2. pc[r] = Waiting(c) /\ draft[r][c] = lines[Account(r)] \ {Drops(r, c)}
    BY <2>1 DEF AccessInv, Exacting, Scripts, OwnScripts
  <2>3. script'[r][c] = "done"
    BY <1>9, <2>1 DEF RunRename, Set, Sound, TypeOK
  <2>4. \A k \in Keys : (Stray(r, k) <=> k = Drops(r, c)) /\ ~Stray(r, k)'
    BY <1>1, <2>1, <2>2, <2>3 DEF Stray, Waiting, Drops, Removals
  <2>5. lines'[Account(r)] = lines[Account(r)] \ {Drops(r, c)} /\ \A a \in Accounts : a # Account(r) => lines'[a] = lines[a]
    BY <1>6, <2>1, <2>2 DEF Sound, TypeOK
  <2>6. \A s \in Servers : setting.account[s] = Account(r) => assigned[s] # Drops(r, c)
    BY <1>4, <2>1, DropsUnused
  <2>7. \A s \in Servers : setting.account[s] = Account(r) /\ assigned[s] \in Keys => assigned[s] \in lines[Account(r)]
    BY <1>4, KeyFacts DEF AccessInv, Accepted
  <2> QED BY <1>a, <2>2, <2>4, <2>5, <2>6, <2>7 DEF Waiting
<1> QED BY <1>7, <1>8, <1>9

\* The invariant behind FilesExact is kept.
LEMMA FilesKept == Sound /\ RetiredInv /\ AccessInv /\ FilesInv /\ [Next]_vars => FilesInv'
<1> SUFFICES ASSUME Sound, RetiredInv, AccessInv, FilesInv, [Next]_vars, Exacting' PROVE (Answers /\ Listed)'
  BY DEF FilesInv
<1>0. Exacting /\ Calm /\ Answers /\ Listed
  BY NextFacts DEF Sound, TypeOK, Exacting, Calm, Apart, Isolated, Faults, FilesInv
<1>1. Answers'
  BY <1>0, AnswersKept
<1>2. CASE UNCHANGED vars
  <2>1. \A q \in Rots, k \in Keys : Stray(q, k)' <=> Stray(q, k)
    BY <1>2 DEF vars, records, host, Stray
  <2>2. UNCHANGED <<lines, assigned, setting, server>>
    BY <1>2 DEF vars, records, host, db
  <2> QED BY <1>0, <1>1, <2>1, <2>2, ListedSame
<1>3. ASSUME NEW s \in Servers, Request(s) PROVE Listed'
  <2>1. PICK r \in Rots : /\ pc[r] = "none" /\ UNCHANGED <<assigned, pc, lines, script, setting>>
                          /\ server' = [server EXCEPT ![r] = s] /\ oldKey' = [oldKey EXCEPT ![r] = assigned[s]]
    BY <1>3, RequestFacts
  <2>2. \A q \in Rots, k \in Keys : (Stray(q, k)' <=> Stray(q, k)) /\ (Stray(q, k) => server'[q] = server[q])
    BY <2>1 DEF Stray, Sound, TypeOK
  <2> QED BY <1>0, <2>1, <2>2, ListedSame
<1>4. ASSUME NEW s \in Servers, Reassign(s) PROVE Listed'
  BY <1>0, <1>4 DEF Reassign, Calm
<1>5. ASSUME NEW k \in Keys, DeleteKey(k) PROVE Listed'
  <2>1. UNCHANGED <<assigned, server, oldKey, pc, lines, script, setting>>
    BY <1>5 DEF DeleteKey, records, host
  <2> QED BY <1>0, <2>1, ListedSame DEF Stray
<1>6. ASSUME NEW r \in Rots, Start(r) PROVE Listed'
  <2>1. UNCHANGED <<assigned, server, oldKey, lines, script, setting>> /\ status[r] = "pending"
    BY <1>6, StartFacts
  <2>2. pc[r] = "none" /\ pc'[r] \in {"install", "none"} /\ \A q \in Rots : q # r => pc'[q] = pc[q]
    BY <1>6, <2>1, StartFacts DEF Sound, TypeOK, InStep
  <2>3. \A q \in Rots, k \in Keys : Stray(q, k)' <=> Stray(q, k)
    BY <2>1, <2>2 DEF Stray
  <2> QED BY <1>0, <2>1, <2>3, ListedSame
<1>7. ASSUME NEW r \in Rots, Going(r) PROVE Listed'
  BY <1>0, <1>7, ListedGoing
<1>8. CASE Host
  <2>1. PICK r \in Rots : RunInstall(r) \/ \E c \in Removals : RunRemove(r, c) \/ RunRename(r, c)
    BY <1>8 DEF Host, Removals
  <2> QED BY <1>0, <1>1, <2>1, ListedHost
<1>9. CASE Restart
  BY <1>0, <1>9 DEF Restart, Exacting
<1> QED BY <1>1, <1>2, <1>3, <1>4, <1>5, <1>6, <1>7, <1>8, <1>9, Kinds

-----------------------------------------------------------------------------
(* The theorems *)

\* Records, steps and types stay sound in every behaviour.
THEOREM SoundAlways == Spec => []Sound
<1>1. Init => Sound
  <2> USE RotationConstants, KeyFacts DEF Init
  <2>1. Init => TypeOK
    BY DEF TypeOK, Statuses, Open, Steps, Calls
  <2>2. Init => InStep /\ OnePerServer
    BY DEF InStep, OnePerServer, Open
  <2> QED BY <2>1, <2>2 DEF Sound
<1>2. Sound /\ [Next]_vars => Sound'
  BY TypesKept, StepsKept DEF Sound
<1> QED BY <1>1, <1>2, PTL DEF Spec

\* Type correctness of the rotations (key-rotation.ts).
THEOREM TypeCorrect == Spec => []TypeOK
<1>1. Sound => TypeOK
  BY DEF Sound
<1> QED BY <1>1, SoundAlways, PTL

\* For any servers and rotations, whatever fails: never two rotations of one
\* server (key-rotation.ts:275-304).
THEOREM OneRotationPerServer == Spec => []OnePerServer
<1>1. Sound => OnePerServer
  BY DEF Sound
<1> QED BY <1>1, SoundAlways, PTL

\* One rotation at a time, however many servers share an account and whatever
\* is lost or dies: no server is left on a retired key (key-rotation.ts:402-450).
THEOREM RetiredKeysUnused == Spec => []RetiredOnlyUnused
<1>1. Init => Fresh /\ RetiredInv
  BY KeyFacts DEF Init, Fresh, RetiredInv, OneByOne, Current
<1>2. Sound /\ Fresh /\ RetiredInv /\ [Next]_vars => Fresh' /\ RetiredInv'
  BY FreshKept, RetiredKept
<1>3. RetiredInv => RetiredOnlyUnused
  BY DEF RetiredInv, Current, RetiredOnlyUnused, RetiredUnused
<1> QED BY <1>1, <1>2, <1>3, SoundAlways, PTL DEF Spec

\* For any servers, accounts and rotations, through lost connections, restarts,
\* vault errors and key deletions: the host accepts the key each server points
\* at (key-rotation.ts:34), in the settings NeverLockedOut names.
THEOREM NobodyLockedOut == Spec => []NeverLockedOut
<1>1. Init => RetiredInv /\ Fresh /\ AccessInv
  BY KeyFacts, SettingFacts DEF Init, Fresh, RetiredInv, OneByOne, Current, AccessInv, Scripts, OwnScripts, Origins, Made, Places, OwnPlace, OwnHold, Accepted
<1>2. Sound /\ Fresh /\ RetiredInv /\ AccessInv /\ [Next]_vars => (Fresh /\ RetiredInv /\ AccessInv)'
  BY FreshKept, RetiredKept, AccessKept
<1>3. AccessInv => NeverLockedOut
  BY DEF AccessInv, Calm, NeverLockedOut
<1> QED BY <1>1, <1>2, <1>3, SoundAlways, PTL DEF Spec

\* For any servers, accounts and rotations, whatever is lost, late or dies: the
\* record of a rotation tells what it left behind (shared/types/ssh-key.ts:38-40).
THEOREM RecordsAreTrue == Spec => []RecordsTrue
<1>1. Init => RecordsInv
  <2>1. Init => Origins /\ Held
    BY DEF Init, Origins, Made, Held, OwnHold
  <2>2. Init => Turn
    BY DEF Init, Turn, Open
  <2>3. Init => Rows
    BY KeyFacts DEF Init, Rows, Open
  <2>4. Init => Traces
    BY KeyFacts DEF Init, Traces, OwnTrace, Nowhere, Calls
  <2> QED BY <2>1, <2>2, <2>3, <2>4 DEF RecordsInv
<1>2. Sound /\ RecordsInv /\ [Next]_vars => RecordsInv'
  BY RecordsKept
<1>3. Sound /\ RecordsInv => RecordsTrue
  <2> SUFFICES ASSUME Sound, RecordsInv, Lasting PROVE RecordsTrue
    BY DEF RecordsTrue, Lasting
  <2>1. Origins /\ Held /\ Turn /\ Rows /\ Traces
    BY DEF RecordsInv, Lasting, Untampered
  <2>2. \A r \in Rots : status[r] \in {"failed", "rolled_back"} => r \notin keys
    BY <2>1 DEF Rows
  <2>3. ASSUME NEW r \in Rots, status[r] = "failed" PROVE r \notin lines[Account(r)]
    <3>1. Account(r) \in Accounts
      BY SettingFacts DEF Account, Sound, TypeOK
    <3> QED BY <2>1, <2>3, <3>1 DEF Traces, OwnTrace, Nowhere
  <2>4. ASSUME NEW s \in Servers, NEW k \in {0} \union {r \in Rots : status[r] = "completed" /\ server[r] = s} PROVE k <= assigned[s]
    <3>1. assigned[s] \in Nat
      BY <2>1, KeyNumbers DEF Rows, Sound, TypeOK
    <3> QED BY <2>1, <3>1 DEF Turn
  <2> QED BY <2>2, <2>3, <2>4 DEF RecordsTrue
<1> QED BY <1>1, <1>2, <1>3, SoundAlways, PTL DEF Spec

\* For any servers, accounts and rotations, whenever the vault fails and keys
\* are deleted: once an account's rotations are over its file lists exactly the
\* keys of its servers (key-rotation.ts:379-400, 624-634).
THEOREM FilesAreExact == Spec => []FilesExact
<1>1. Init => RetiredInv /\ AccessInv /\ FilesInv
  <2>1. Init => RetiredInv /\ AccessInv
    BY KeyFacts, SettingFacts DEF Init, RetiredInv, OneByOne, Current, AccessInv, Scripts, OwnScripts, Origins, Made, Places, OwnPlace, OwnHold, Accepted
  <2>2. Init => Answers
    BY DEF Init, Answers, OwnAnswer, Waiting
  <2>3. Init => Listed
    BY DEF Init, Listed, Users, Stray
  <2> QED BY <2>1, <2>2, <2>3 DEF FilesInv
<1>2. Sound /\ RetiredInv /\ AccessInv /\ FilesInv /\ [Next]_vars => FilesInv'
  BY FilesKept
<1>3. Sound /\ AccessInv /\ FilesInv => FilesExact
  <2> SUFFICES ASSUME Sound, AccessInv, FilesInv, Exacting, NEW a \in Accounts,
                      Users(a) # {}, \A s \in Users(a) : Quiet(s)
               PROVE  lines[a] = {assigned[s] : s \in Users(a)}
    BY DEF FilesExact, Exacting, Calm, Users
  <2>1. \A r \in Rots : Account(r) = a => pc[r] = "none"
    BY DEF Users, Account, Quiet, Sound, TypeOK, InStep, Open
  <2>2. \A k \in Keys : k \in lines[a] <=> \E s \in Users(a) : assigned[s] = k
    BY <2>1 DEF FilesInv, Listed, Stray
  <2>3. lines[a] \subseteq Keys
    BY DEF Sound, TypeOK
  <2>4. \A s \in Users(a) : assigned[s] \in Keys
    BY KeyFacts DEF Users, AccessInv, Exacting, Origins, Made
  <2> QED BY <2>2, <2>3, <2>4
<1>4. Init => Fresh
  BY KeyFacts DEF Init, Fresh
<1>5. Sound /\ Fresh /\ RetiredInv /\ AccessInv /\ [Next]_vars => (Fresh /\ RetiredInv /\ AccessInv)'
  BY FreshKept, RetiredKept, AccessKept
<1> QED BY <1>1, <1>2, <1>3, <1>4, <1>5, SoundAlways, PTL DEF Spec

=============================================================================
