------------------------- MODULE DeployEngineProofs -------------------------
(* For any number of releases, runs and settings: the types of DeployEngine *)
(* and the bookkeeping of runs and release folders, from which the two      *)
(* promises that survive every fault follow (CurrentUp, KeptBuilt), what    *)
(* the engine promises while only the app fails (CleanOutcome), and that a  *)
(* rolling app stays served at every step (SteadyService).  At the end, the *)
(* same kind of results for the lock it runs under (DeployLock).            *)
EXTENDS DeployEngine, DeployLock, FiniteSetTheorems, TLAPS

Activating == {"deploy", "rollback", "restart"}

\* TypeOK in two halves: what outlives a run, and the run in the lock.
World ==
  /\ setting \in Settings
  /\ cont \in [Names -> {"absent", "created", "running", "exited"}]
  /\ live \subseteq Names
  /\ healthy \subseteq Names
  /\ images \subseteq Rel
  /\ file \in Nat /\ loaded \in Nat /\ prev \in Nat
  /\ current \in Rel \union {None} /\ previous \in Rel \union {None}
  /\ rec \in [Rel -> {"none", "building", "success", "failed"}]
  /\ made \in 0..MaxRel
  /\ runs \in 0..MaxRuns

\* Which command is where, and for which release.
Placed ==
  /\ pc \in Steps
  /\ op \in Commands \union {"none"}
  /\ op = "none" <=> pc = "idle"
  /\ rel \in Rel \union {None}
  /\ op \in Activating => rel \in Rel /\ pc \notin {"unlink", "empty", "forget"}
  /\ op = "remove" => pc \in {"switch", "reload", "unlink", "empty", "forget", "fail"}
  /\ pc \in {"build", "record", "prune", "dropImage"} => op = "deploy"
  /\ pc = "rename" => op = "restart"

Held ==
  /\ base \in Rel \union {None}
  /\ old \subseteq Names
  /\ todo \subseteq Names
  /\ ended \in Results

Shape == World /\ Placed /\ Held /\ built \in BOOLEAN

\* The folders: a link names a release that has one, a deploy is of the
\* newest release, and only the links' and the run's folders matter to it.
Filed ==
  /\ \A r \in {current, previous} \ {None} : rec[r] # "none"
  /\ \A r \in Rel : rec[r] # "none" => r <= made
  /\ op = "deploy" => rel = made
  /\ op \in Activating => rec[rel] # "none"
  /\ pc \in {"list", "retire", "rename", "record", "prune"} => current = rel
  /\ pc \in {"empty", "forget"} => current = None /\ previous = None

Sound == Shape /\ Filed

\* An activation before `current` moves, and the part of it in which the new
\* container exists.
Coming == {"start", "health", "join", "switch", "reload", "mark1", "mark2"}
BeforeMark == {"build", "clear", "snapshot", "stopOld", "create", "undo", "revive"} \union Coming

\* Rolling: what a run may touch is never the current release's container.
Undisturbed ==
  /\ op \notin {"restart", "remove"}
  /\ pc \notin {"snapshot", "stopOld", "revive", "rename"}
  /\ current # None => Main(current) \in live \intersect healthy \intersect Running
  /\ pc \in BeforeMark => rel # current
  /\ pc \in {"join", "switch", "reload", "mark1", "mark2"} => cont[New] = "running" /\ New \in healthy
  /\ pc \in {"switch", "reload", "mark1", "mark2"} => New \in live
  /\ pc = "retire" => New \notin todo

OnlyReleases == Strategy = "rolling" /\ Ops \subseteq {"deploy", "rollback", "others"}

UpInv == OnlyReleases => Undisturbed

\* Images built here: every container's release has its image, and so has
\* every release a link may come to point at.
Backed ==
  /\ \A r \in {current, previous} \ {None} : r \in images
  /\ \A n \in Present : n[1] \in images
  /\ op \in Activating /\ pc \in BeforeMark \ {"build"} => rel \in images
  /\ op \in Activating /\ pc \in Coming => New \in Present
  /\ op = "deploy" => previous # rel
  /\ op = "deploy" /\ pc \in BeforeMark => current # rel
  /\ op = "deploy" /\ current = rel => Main(rel) \in Present
  /\ pc = "retire" => New \notin todo
  /\ pc \in {"idle", "build", "clear", "snapshot"} => old = {}
  /\ op \in Activating /\ pc \in BeforeMark => old \subseteq Present \ {New}
  /\ pc \in {"stopOld", "revive"} => todo \subseteq Present

KeptInv == ImageKind = "built" => Backed

\* Only the app itself fails, and nobody stops it.
Quiet == Faults = {} /\ "stop" \notin Ops

\* What the app's entry says while no switch is on its way, and the steps at
\* which it already says what the run is about to make true.
Entry == IF current = None THEN None ELSE PortOf[current]
EntryAhead == {"reload", "mark1", "mark2", "unlink"}

\* A container that answers on its port.
Answers(n) == n \in live \intersect healthy \intersect Running

\* recreate: the steps at which the current release may stand still.
Halted == {"stopOld", "create", "undo", "revive"} \union Coming

\* The steps between the health check and the end of the switch.
Joined == {"switch", "reload", "mark1", "mark2"}

\* The result, and the release a failure leaves current.
Ledger ==
  /\ ended \in {"none", "success", "failed"}
  /\ pc # "idle" => ended = "none"
  /\ ended = "failed" => current = base
  /\ op \in Activating /\ pc \in BeforeMark =>
       current = base /\ (current # None => New # Main(current))
  /\ pc \in {"fail", "dropImage"} => op # "remove" /\ current = base
  /\ pc \in {"snapshot", "stopOld", "revive"} => Strategy = "recreate"
  /\ pc \in {"idle", "build", "clear", "snapshot"} => old = {}

\* The Caddyfile and the config Caddy runs.
Entries ==
  /\ pc \in EntryAhead => file = Target
  /\ pc \notin EntryAhead => file = Entry
  /\ pc = "reload" => loaded = Entry
  /\ pc # "reload" => loaded = file

\* The container the run starts.
Newcomer ==
  op \in Activating =>
    /\ pc \in Halted => New \notin old
    /\ pc \in {"stopOld", "revive", "retire"} => New \notin todo
    /\ pc \in {"join"} \union Joined => cont[New] = "running" /\ New \in healthy
    /\ pc \in Joined => New \in live
    /\ pc = "retire" => Present \subseteq {New} \union todo
    /\ pc = "rename" => Present \subseteq {New}

\* The current release answers, except while recreate has it stopped, when
\* `old` will bring it back; once `current` moves the new container answers.
Stands ==
  current # None =>
    /\ op = "remove" /\ pc \in {"switch", "reload"} => Answers(Main(current))
    /\ pc \in {"list", "retire", "rename"} => Answers(New)
    /\ op # "remove" /\ pc \in Halted /\ Strategy = "recreate" =>
         /\ Main(current) \in old \intersect live \intersect healthy
         /\ pc = "revive" => Main(current) \in todo \union Running
    /\ op # "remove" /\ pc \notin {"list", "retire", "rename"} /\ ~(pc \in Halted /\ Strategy = "recreate") =>
         Answers(Main(current))

Undamaged == Ledger /\ Entries /\ Newcomer /\ Stands

CleanInv == Quiet => Undamaged

\* Rolling: outside the second half of a delete, the current release serves.
CleanServed ==
  Quiet /\ Strategy = "rolling" /\ current # None /\ (op # "remove" \/ pc = "switch") => Serving

\* The entry a reload loads is the one the run wants.
Aimed == pc = "reload" => file = Target

-----------------------------------------------------------------------------
(* Facts about the constants and the helpers *)

\* What the settings allow: the strategy, the kind of image and the ports.
LEMMA SettingFacts ==
  ASSUME setting \in Settings
  PROVE  /\ Strategy \in {"rolling", "recreate"}
         /\ ImageKind \in {"built", "pulled"}
         /\ PortOf \in [Rel -> Nat \ {0}]
         /\ Ops \subseteq Commands \union {"stop", "others"}
  BY EngineConstants DEF Strategy, ImageKind, PortOf, Ops

\* None is no release.
LEMMA RelFacts ==
  /\ Rel \subseteq Nat
  /\ None \in Nat
  /\ None \notin Rel
  /\ \A k \in 0..MaxRel : k < MaxRel => k + 1 \in Rel /\ k + 1 \in 0..MaxRel
  /\ \A k \in 0..MaxRuns : k < MaxRuns => k + 1 \in 0..MaxRuns
  BY EngineConstants DEF Rel, None

\* A container has one name.
LEMMA NameFacts ==
  /\ \A r \in Rel : Main(r) \in Names /\ Temp(r) \in Names
  /\ \A r, q \in Rel : Main(r) # Temp(q) /\ (Main(r) = Main(q) => r = q)
  /\ \A r \in Rel : Main(r)[1] = r /\ Temp(r)[1] = r
  /\ \A n \in Names : n[1] \in Rel
  BY DEF Main, Temp, Names

\* A run in an activation has a release, and its container a name.
LEMMA ActivationFacts ==
  ASSUME Placed, op # "none", op # "remove"
  PROVE  op \in Activating /\ rel \in Rel /\ New \in Names
  BY NameFacts DEF Placed, New, Activating, Commands

\* Images only go, and only those named that Docker lets go.
LEMMA ImageFacts ==
  ASSUME NEW rs, ImagesRemoved(rs)
  PROVE  /\ images' \subseteq images
         /\ images \ (rs \ InUse) \subseteq images'
  BY DEF ImagesRemoved

\* However a run ends, what is left of it has its type.
LEMMA RunEnds ==
  ASSUME Held, NEW result \in Results, End(result)
  PROVE  Placed' /\ Held' /\ built' = FALSE
  BY DEF Held, End, Placed, Steps, Activating

\* The setting stays as it is.
LEMMA SettingStays == [Next]_vars => setting' = setting
BY DEF Next, Begin, Step, Activate, Deploy, Remove, vars, BeginDeploy, BeginRollback, BeginRestart, BeginRemove, Build,
  Clear, Snapshot, StopOld, Create, Start, Health, Join, Switch, Reload, MarkPrevious, MarkCurrent, Undo, Revive, List,
  Retire, Retired, Rename, Record, Prune, Sweep, Fail, DropImage, Unlink, Empty, Forget, Crash, StopCommand,
  OthersSwitch, Begins

-----------------------------------------------------------------------------
(* What outlives a run keeps its type in every step *)

\* What outlives a run (containers, images, proxy, links, records) keeps its type.
LEMMA WorldKept == Shape /\ [Next]_vars => World'
<1> SUFFICES ASSUME Shape, [Next]_vars PROVE World'
  OBVIOUS
<1> USE RelFacts, NameFacts, SettingFacts DEF Shape, World, containers, proxy, links, releases, Goto,
      DockerCall, SetState, Removed, PruneCandidates, Folders
<1>0. CASE UNCHANGED vars
  BY <1>0 DEF vars
<1>a. op # "none" /\ op # "remove" => New \in Names /\ rel \in Rel
  BY ActivationFacts
<1>1. CASE BeginDeploy
  BY <1>1, <1>a DEF BeginDeploy, Begins, Placed
<1>2. CASE BeginRollback
  BY <1>2, <1>a DEF BeginRollback, Begins, Placed
<1>3. CASE BeginRestart
  BY <1>3, <1>a DEF BeginRestart, Begins, Placed
<1>4. CASE BeginRemove
  BY <1>4, <1>a DEF BeginRemove, Begins, Placed
<1>5. CASE Build
  BY <1>5, <1>a DEF Build, Placed
<1>6. CASE Clear
  BY <1>6, <1>a DEF Clear, Placed
<1>7. CASE Snapshot
  BY <1>7, <1>a DEF Snapshot, Running, Placed
<1>8. CASE StopOld
  BY <1>8, <1>a DEF StopOld, Placed
<1>9. CASE Create
  BY <1>9, <1>a DEF Create, Placed
<1>10. CASE Start
  BY <1>10, <1>a DEF Start, Placed
<1>11. CASE Health
  BY <1>11, <1>a DEF Health, Placed
<1>12. CASE Join
  BY <1>12, <1>a DEF Join, Placed
<1>13. CASE Switch
  BY <1>13, <1>a DEF Switch, Target, Switched, Refused, Placed
<1>14. CASE Reload
  BY <1>14, <1>a DEF Reload, Target, Switched, Refused, Placed
<1>15. CASE MarkPrevious
  BY <1>15, <1>a DEF MarkPrevious, Placed
<1>16. CASE MarkCurrent
  BY <1>16, <1>a DEF MarkCurrent, Placed
<1>17. CASE Undo
  BY <1>17, <1>a DEF Undo, Placed
<1>18. CASE Revive
  BY <1>18, <1>a DEF Revive, Placed
<1>19. CASE List
  BY <1>19, <1>a DEF List, Present, Placed
<1>20. CASE Retire
  BY <1>20, <1>a DEF Retire, Placed
<1>21. CASE Retired
  BY <1>21, <1>a DEF Retired, Placed
<1>22. CASE Rename
  BY <1>22, <1>a DEF Rename, Placed
<1>23. CASE Record
  BY <1>23, <1>a DEF Record, Placed
<1>24. CASE Prune
  <2>1. PICK r \in PruneCandidates : ImagesRemoved({r}) /\ rec' \in {rec, [rec EXCEPT ![r] = "none"]}
    BY <1>24 DEF Prune
  <2>2. images' \subseteq Rel
    BY <2>1, ImageFacts
  <2> QED BY <1>24, <2>1, <2>2 DEF Prune
<1>25. CASE Sweep
  BY <1>25, <1>a DEF Sweep, ImagesRemoved, Placed
<1>26. CASE Fail
  BY <1>26, <1>a DEF Fail, Placed
<1>27. CASE DropImage
  BY <1>27, <1>a DEF DropImage, ImagesRemoved, Placed
<1>28. CASE Unlink
  BY <1>28, <1>a DEF Unlink, Placed
<1>29. CASE Empty
  BY <1>29, <1>a DEF Empty, Present, Placed
<1>30. CASE Forget
  <2>1. images' \subseteq images
    BY <1>30, ImageFacts DEF Forget
  <2>2. rec' = rec \/ rec' = [r \in Rel |-> "none"]
    BY <1>30 DEF Forget
  <2> QED BY <1>30, <2>1, <2>2 DEF Forget
<1>31. CASE Crash
  BY <1>31, <1>a DEF Crash, Placed
<1>32. CASE StopCommand
  BY <1>32, <1>a DEF StopCommand, Placed
<1>33. CASE OthersSwitch
  BY <1>33, <1>a DEF OthersSwitch, Placed
<1> QED BY <1>0, <1>1, <1>2, <1>3, <1>4, <1>5, <1>6, <1>7, <1>8, <1>9, <1>10, <1>11, <1>12, <1>13, <1>14, <1>15, <1>16, <1>17, <1>18, <1>19, <1>20, <1>21, <1>22, <1>23, <1>24, <1>25, <1>26, <1>27, <1>28, <1>29, <1>30, <1>31, <1>32, <1>33 DEF Next, Begin, Step, Activate, Deploy, Remove

-----------------------------------------------------------------------------
(* The run is where its command can be *)

\* A run is only where its command can be, with the lock if it takes one.
LEMMA RunKept == Shape /\ [Next]_vars => Placed' /\ Held' /\ built' \in BOOLEAN
<1> SUFFICES ASSUME Shape, [Next]_vars PROVE Placed' /\ Held' /\ built' \in BOOLEAN
  OBVIOUS
<1> USE RelFacts, NameFacts, RunEnds DEF Shape, World, Placed, Held, Steps, Results, Activating, Commands,
      run, Goto, DockerCall
<1>0. CASE UNCHANGED vars
  BY <1>0 DEF vars
<1>1. CASE BeginDeploy
  BY <1>1 DEF BeginDeploy, Begins
<1>2. CASE BeginRollback
  BY <1>2 DEF BeginRollback, Begins
<1>3. CASE BeginRestart
  BY <1>3 DEF BeginRestart, Begins
<1>4. CASE BeginRemove
  BY <1>4 DEF BeginRemove, Begins
<1>5. CASE Build
  BY <1>5 DEF Build
<1>6. CASE Clear
  BY <1>6 DEF Clear
<1>7. CASE Snapshot
  BY <1>7 DEF Snapshot, Running
<1>8. CASE StopOld
  BY <1>8 DEF StopOld
<1>9. CASE Create
  BY <1>9 DEF Create
<1>10. CASE Start
  BY <1>10 DEF Start
<1>11. CASE Health
  BY <1>11 DEF Health
<1>12. CASE Join
  BY <1>12 DEF Join
<1>13. CASE Switch
  BY <1>13 DEF Switch, Switched, Refused
<1>14. CASE Reload
  BY <1>14 DEF Reload, Switched, Refused
<1>15. CASE MarkPrevious
  BY <1>15 DEF MarkPrevious
<1>16. CASE MarkCurrent
  BY <1>16 DEF MarkCurrent
<1>17. CASE Undo
  BY <1>17 DEF Undo
<1>18. CASE Revive
  BY <1>18 DEF Revive
<1>19. CASE List
  BY <1>19 DEF List, Present
<1>20. CASE Retire
  BY <1>20 DEF Retire
<1>21. CASE Retired
  BY <1>21 DEF Retired
<1>22. CASE Rename
  BY <1>22 DEF Rename
<1>23. CASE Record
  BY <1>23 DEF Record
<1>24. CASE Prune
  BY <1>24 DEF Prune
<1>25. CASE Sweep
  BY <1>25 DEF Sweep
<1>26. CASE Fail
  BY <1>26 DEF Fail
<1>27. CASE DropImage
  BY <1>27 DEF DropImage
<1>28. CASE Unlink
  BY <1>28 DEF Unlink
<1>29. CASE Empty
  BY <1>29 DEF Empty
<1>30. CASE Forget
  BY <1>30 DEF Forget
<1>31. CASE Crash
  BY <1>31 DEF Crash
<1>32. CASE StopCommand
  BY <1>32 DEF StopCommand
<1>33. CASE OthersSwitch
  BY <1>33 DEF OthersSwitch
<1> QED BY <1>0, <1>1, <1>2, <1>3, <1>4, <1>5, <1>6, <1>7, <1>8, <1>9, <1>10, <1>11, <1>12, <1>13, <1>14, <1>15, <1>16, <1>17, <1>18, <1>19, <1>20, <1>21, <1>22, <1>23, <1>24, <1>25, <1>26, <1>27, <1>28, <1>29, <1>30, <1>31, <1>32, <1>33 DEF Next, Begin, Step, Activate, Deploy, Remove

-----------------------------------------------------------------------------
(* The release folders and the two links *)

\* The two links name releases that have folders (releases.ts setCurrent, pruneCandidates).
LEMMA FiledKept == Sound /\ [Next]_vars => Filed'
<1> SUFFICES ASSUME Sound, [Next]_vars PROVE Filed'
  OBVIOUS
<1> USE RelFacts DEF Sound, Shape, World, Placed, Filed, Activating, Commands,
      links, releases, run, Goto, DockerCall
<1>0. CASE UNCHANGED vars
  BY <1>0 DEF vars
<1>1. CASE BeginDeploy
  BY <1>1 DEF BeginDeploy, Begins
<1>2. CASE BeginRollback
  BY <1>2 DEF BeginRollback, Begins
<1>3. CASE BeginRestart
  BY <1>3 DEF BeginRestart, Begins
<1>4. CASE BeginRemove
  BY <1>4 DEF BeginRemove, Begins
<1>5. CASE Build
  BY <1>5 DEF Build
<1>6. CASE Clear
  BY <1>6 DEF Clear
<1>7. CASE Snapshot
  BY <1>7 DEF Snapshot, Running
<1>8. CASE StopOld
  BY <1>8 DEF StopOld
<1>9. CASE Create
  BY <1>9 DEF Create
<1>10. CASE Start
  BY <1>10 DEF Start
<1>11. CASE Health
  BY <1>11 DEF Health
<1>12. CASE Join
  BY <1>12 DEF Join
<1>13. CASE Switch
  BY <1>13 DEF Switch, Switched, Refused
<1>14. CASE Reload
  BY <1>14 DEF Reload, Switched, Refused
<1>15. CASE MarkPrevious
  BY <1>15 DEF MarkPrevious
<1>16. CASE MarkCurrent
  BY <1>16 DEF MarkCurrent
<1>17. CASE Undo
  BY <1>17 DEF Undo
<1>18. CASE Revive
  BY <1>18 DEF Revive
<1>19. CASE List
  BY <1>19 DEF List, Present
<1>20. CASE Retire
  BY <1>20 DEF Retire
<1>21. CASE Retired
  BY <1>21 DEF Retired, End
<1>22. CASE Rename
  BY <1>22 DEF Rename, End
<1>23. CASE Record
  BY <1>23 DEF Record
<1>24. CASE Prune
  BY <1>24 DEF Prune, End, PruneCandidates, Folders
<1>25. CASE Sweep
  BY <1>25 DEF Sweep, End
<1>26. CASE Fail
  BY <1>26 DEF Fail, End
<1>27. CASE DropImage
  BY <1>27 DEF DropImage, End
<1>28. CASE Unlink
  BY <1>28 DEF Unlink
<1>29. CASE Empty
  BY <1>29 DEF Empty
<1>30. CASE Forget
  BY <1>30 DEF Forget, End
<1>31. CASE Crash
  BY <1>31 DEF Crash, End
<1>32. CASE StopCommand
  BY <1>32 DEF StopCommand
<1>33. CASE OthersSwitch
  BY <1>33 DEF OthersSwitch
<1> QED BY <1>0, <1>1, <1>2, <1>3, <1>4, <1>5, <1>6, <1>7, <1>8, <1>9, <1>10, <1>11, <1>12, <1>13, <1>14, <1>15, <1>16, <1>17, <1>18, <1>19, <1>20, <1>21, <1>22, <1>23, <1>24, <1>25, <1>26, <1>27, <1>28, <1>29, <1>30, <1>31, <1>32, <1>33 DEF Next, Begin, Step, Activate, Deploy, Remove

-----------------------------------------------------------------------------
(* Rolling: the current release's container is never touched *)

\* No step, fault or kill touches the current release's container (ops.ts activate).
LEMMA UpKept == Sound /\ UpInv /\ [Next]_vars => UpInv'
<1> SUFFICES ASSUME Sound, Undisturbed, OnlyReleases, [Next]_vars PROVE Undisturbed'
  <2>1. [Next]_vars => setting' = setting
    BY SettingStays
  <2>2. setting' = setting => (OnlyReleases' <=> OnlyReleases)
    BY DEF OnlyReleases, Strategy, Ops
  <2> QED BY <2>1, <2>2 DEF UpInv
<1> USE RelFacts, NameFacts DEF Sound, Shape, World, Placed, Filed, Undisturbed, Activating, Commands,
      OnlyReleases, BeforeMark, Coming, Running, New, containers, links, releases, run, Goto, DockerCall, SetState, Removed
<1>0. CASE UNCHANGED vars
  BY <1>0 DEF vars
<1>1. CASE BeginDeploy
  BY <1>1 DEF BeginDeploy, Begins
<1>2. CASE BeginRollback
  BY <1>2 DEF BeginRollback, Begins
<1>3. CASE BeginRestart
  BY <1>3 DEF BeginRestart, Begins
<1>4. CASE BeginRemove
  BY <1>4 DEF BeginRemove, Begins
<1>5. CASE Build
  BY <1>5 DEF Build
<1>6. CASE Clear
  BY <1>6 DEF Clear
<1>7. CASE Snapshot
  BY <1>7 DEF Snapshot, Running
<1>8. CASE StopOld
  BY <1>8 DEF StopOld
<1>9. CASE Create
  BY <1>9 DEF Create
<1>10. CASE Start
  BY <1>10 DEF Start
<1>11. CASE Health
  BY <1>11 DEF Health
<1>12. CASE Join
  BY <1>12 DEF Join
<1>13. CASE Switch
  BY <1>13 DEF Switch, Switched, Refused
<1>14. CASE Reload
  BY <1>14 DEF Reload, Switched, Refused
<1>15. CASE MarkPrevious
  BY <1>15 DEF MarkPrevious
<1>16. CASE MarkCurrent
  BY <1>16 DEF MarkCurrent
<1>17. CASE Undo
  BY <1>17 DEF Undo
<1>18. CASE Revive
  BY <1>18 DEF Revive
<1>19. CASE List
  BY <1>19 DEF List, New
<1>20. CASE Retire
  BY <1>20 DEF Retire, New
<1>21. CASE Retired
  BY <1>21 DEF Retired, End
<1>22. CASE Rename
  BY <1>22 DEF Rename, End
<1>23. CASE Record
  BY <1>23 DEF Record
<1>24. CASE Prune
  BY <1>24 DEF Prune, End, PruneCandidates, Folders
<1>25. CASE Sweep
  BY <1>25 DEF Sweep, End
<1>26. CASE Fail
  BY <1>26 DEF Fail, End
<1>27. CASE DropImage
  BY <1>27 DEF DropImage, End
<1>28. CASE Unlink
  BY <1>28 DEF Unlink
<1>29. CASE Empty
  BY <1>29 DEF Empty
<1>30. CASE Forget
  BY <1>30 DEF Forget, End
<1>31. CASE Crash
  BY <1>31 DEF Crash, End
<1>32. CASE StopCommand
  BY <1>32 DEF StopCommand
<1>33. CASE OthersSwitch
  BY <1>33 DEF OthersSwitch
<1> QED BY <1>0, <1>1, <1>2, <1>3, <1>4, <1>5, <1>6, <1>7, <1>8, <1>9, <1>10, <1>11, <1>12, <1>13, <1>14, <1>15, <1>16, <1>17, <1>18, <1>19, <1>20, <1>21, <1>22, <1>23, <1>24, <1>25, <1>26, <1>27, <1>28, <1>29, <1>30, <1>31, <1>32, <1>33 DEF Next, Begin, Step, Activate, Deploy, Remove

-----------------------------------------------------------------------------
(* Images built here: what the links need is never removed *)

\* Pruning and undoing leave the images and folders the links need (ops.ts prune, dropImage).
LEMMA BackedKept == Sound /\ KeptInv /\ [Next]_vars => KeptInv'
<1> SUFFICES ASSUME Sound, Backed, ImageKind = "built", [Next]_vars PROVE Backed'
  <2>1. [Next]_vars => setting' = setting
    BY DEF Next, Begin, Step, Activate, Deploy, Remove, vars, BeginDeploy, BeginRollback, BeginRestart, BeginRemove, Build, Clear, Snapshot, StopOld, Create, Start, Health, Join, Switch, Reload, MarkPrevious, MarkCurrent, Undo, Revive, List, Retire, Retired, Rename, Record, Prune, Sweep, Fail, DropImage, Unlink, Empty, Forget, Crash, StopCommand, OthersSwitch, Begins
  <2>2. setting' = setting => ImageKind' = ImageKind
    BY DEF ImageKind
  <2> QED BY <2>1, <2>2 DEF KeptInv
<1> USE RelFacts, NameFacts DEF Sound, Shape, World, Placed, Held, Filed, Backed, Activating, Commands,
      BeforeMark, Coming, Running, Present, New, InUse, containers, links, releases, run, Goto, DockerCall, SetState, Removed
<1>0. CASE UNCHANGED vars
  BY <1>0 DEF vars
<1>1. CASE BeginDeploy
  BY <1>1 DEF BeginDeploy, Begins
<1>2. CASE BeginRollback
  BY <1>2 DEF BeginRollback, Begins
<1>3. CASE BeginRestart
  BY <1>3 DEF BeginRestart, Begins
<1>4. CASE BeginRemove
  BY <1>4 DEF BeginRemove, Begins
<1>5. CASE Build
  BY <1>5 DEF Build
<1>6. CASE Clear
  BY <1>6 DEF Clear
<1>7. CASE Snapshot
  BY <1>7 DEF Snapshot
<1>8. CASE StopOld
  BY <1>8 DEF StopOld
<1>9. CASE Create
  BY <1>9 DEF Create
<1>10. CASE Start
  BY <1>10 DEF Start
<1>11. CASE Health
  BY <1>11 DEF Health
<1>12. CASE Join
  BY <1>12 DEF Join
<1>13. CASE Switch
  BY <1>13 DEF Switch, Switched, Refused
<1>14. CASE Reload
  BY <1>14 DEF Reload, Switched, Refused
<1>15. CASE MarkPrevious
  BY <1>15 DEF MarkPrevious
<1>16. CASE MarkCurrent
  BY <1>16 DEF MarkCurrent
<1>17. CASE Undo
  BY <1>17 DEF Undo
<1>18. CASE Revive
  BY <1>18 DEF Revive
<1>19. CASE List
  BY <1>19 DEF List, New
<1>20. CASE Retire
  BY <1>20 DEF Retire, New
<1>21. CASE Retired
  BY <1>21 DEF Retired, End
<1>22. CASE Rename
  BY <1>22 DEF Rename, End
<1>23. CASE Record
  BY <1>23 DEF Record
<1>24. CASE Prune
  BY <1>24, ImageFacts DEF Prune, End, PruneCandidates, Folders
<1>25. CASE Sweep
  <2>1. images' \subseteq images /\ images \ (Orphans \ InUse) \subseteq images'
    <3>1. CASE ImagesRemoved(Orphans)
      BY <3>1, ImageFacts
    <3>2. CASE images' = images
      BY <3>2
    <3>3. CASE \E some \in SUBSET (Orphans \ InUse) : images' = images \ some
      BY <3>3
    <3> QED BY <1>25, <3>1, <3>2, <3>3 DEF Sweep
  <2>2. \/ op' = "deploy" /\ pc' = "fail" /\ rel' = rel /\ old' = old
        \/ op' = "none" /\ pc' = "idle" /\ old' = {}
    BY <1>25 DEF Sweep, End
  <2>3. UNCHANGED <<cont, current, previous, rec>>
    BY <1>25 DEF Sweep
  <2>4. \A r \in images : rec[r] # "none" \/ r \in {current, previous} \/ r \in InUse => r \in images'
    BY <2>1 DEF Orphans, Folders
  <2>5. \A n \in Present' : n[1] \in images'
    BY ZenonT(40), <2>3, <2>4
  <2> QED BY <1>25, <2>2, <2>3, <2>4, <2>5 DEF Sweep
<1>26. CASE Fail
  BY <1>26 DEF Fail, End
<1>27. CASE DropImage
  BY <1>27, ImageFacts DEF DropImage, End
<1>28. CASE Unlink
  BY <1>28 DEF Unlink
<1>29. CASE Empty
  BY <1>29 DEF Empty
<1>30. CASE Forget
  <2>1. images' \subseteq images /\ images \ (images \ InUse) \subseteq images'
    <3>1. CASE ImagesRemoved(images)
      BY <3>1, ImageFacts
    <3>2. CASE \E some \in SUBSET (images \ InUse) : images' = images \ some
      BY <3>2
    <3> QED BY <1>30, <3>1, <3>2 DEF Forget
  <2>2. op' = "none" /\ pc' = "idle" /\ old' = {}
    BY <1>30 DEF Forget, End
  <2>3. UNCHANGED <<cont, current, previous>> /\ current = None /\ previous = None
    BY <1>30 DEF Forget
  <2>4. \A n \in Present' : n[1] \in images'
    BY <2>1, <2>3
  <2> QED BY <2>2, <2>3, <2>4
<1>31. CASE Crash
  BY <1>31 DEF Crash, End
<1>32. CASE StopCommand
  BY <1>32 DEF StopCommand
<1>33. CASE OthersSwitch
  BY <1>33 DEF OthersSwitch
<1> QED BY <1>0, <1>1, <1>2, <1>3, <1>4, <1>5, <1>6, <1>7, <1>8, <1>9, <1>10, <1>11, <1>12, <1>13, <1>14, <1>15, <1>16, <1>17, <1>18, <1>19, <1>20, <1>21, <1>22, <1>23, <1>24, <1>25, <1>26, <1>27, <1>28, <1>29, <1>30, <1>31, <1>32, <1>33 DEF Next, Begin, Step, Activate, Deploy, Remove

-----------------------------------------------------------------------------
(* Nothing fails but the app itself *)

\* The result and the base of a run are kept (ops.ts activate, deploy's catch).
LEMMA LedgerKept == Sound /\ Undamaged /\ Quiet /\ [Next]_vars => Ledger'
<1> SUFFICES ASSUME Sound, Undamaged, Quiet, [Next]_vars PROVE Ledger'
  OBVIOUS
<1> USE RelFacts, NameFacts, SettingFacts DEF Sound, Shape, World, Placed, Filed, Held, Undamaged, Quiet, Activating, Commands, Steps, Ledger, New, Strategy,
      BeforeMark, Coming, containers, proxy, links, releases, run, Goto, DockerCall, SetState, Removed
<1>0. CASE UNCHANGED vars
  BY <1>0 DEF vars
<1>1. CASE BeginDeploy
  BY <1>1 DEF BeginDeploy, Begins
<1>2. CASE BeginRollback
  BY <1>2 DEF BeginRollback, Begins
<1>3. CASE BeginRestart
  BY <1>3 DEF BeginRestart, Begins
<1>4. CASE BeginRemove
  BY <1>4 DEF BeginRemove, Begins
<1>5. CASE Build
  BY <1>5 DEF Build
<1>6. CASE Clear
  BY <1>6 DEF Clear
<1>7. CASE Snapshot
  BY <1>7 DEF Snapshot
<1>8. CASE StopOld
  BY <1>8 DEF StopOld
<1>9. CASE Create
  BY <1>9 DEF Create
<1>10. CASE Start
  BY <1>10 DEF Start
<1>11. CASE Health
  BY <1>11 DEF Health
<1>12. CASE Join
  BY <1>12 DEF Join
<1>13. CASE Switch
  BY <1>13 DEF Switch, Switched, Refused, Target
<1>14. CASE Reload
  BY <1>14 DEF Reload, Switched, Refused, Target
<1>15. CASE MarkPrevious
  BY <1>15 DEF MarkPrevious
<1>16. CASE MarkCurrent
  BY <1>16 DEF MarkCurrent
<1>17. CASE Undo
  BY <1>17 DEF Undo
<1>18. CASE Revive
  BY <1>18 DEF Revive
<1>19. CASE List
  BY <1>19 DEF List
<1>20. CASE Retire
  BY <1>20 DEF Retire
<1>21. CASE Retired
  BY <1>21 DEF Retired, End
<1>22. CASE Rename
  BY <1>22 DEF Rename, End
<1>23. CASE Record
  BY <1>23 DEF Record
<1>24. CASE Prune
  BY <1>24 DEF Prune, End
<1>25. CASE Sweep
  BY <1>25 DEF Sweep, End
<1>26. CASE Fail
  BY <1>26 DEF Fail, End
<1>27. CASE DropImage
  BY <1>27 DEF DropImage, End
<1>28. CASE Unlink
  BY <1>28 DEF Unlink
<1>29. CASE Empty
  BY <1>29 DEF Empty
<1>30. CASE Forget
  BY <1>30 DEF Forget, End
<1>31. CASE Crash
  BY <1>31 DEF Crash, End
<1>32. CASE StopCommand
  BY <1>32 DEF StopCommand
<1>33. CASE OthersSwitch
  BY <1>33 DEF OthersSwitch
<1> QED BY <1>0, <1>1, <1>2, <1>3, <1>4, <1>5, <1>6, <1>7, <1>8, <1>9, <1>10, <1>11, <1>12, <1>13, <1>14, <1>15, <1>16, <1>17, <1>18, <1>19, <1>20, <1>21, <1>22, <1>23, <1>24, <1>25, <1>26, <1>27, <1>28, <1>29, <1>30, <1>31, <1>32, <1>33 DEF Next, Begin, Step, Activate, Deploy, Remove

\* The Caddyfile and Caddy agree except while a switch is on its way (proxy.ts switchProxy).
LEMMA EntriesKept == Sound /\ Undamaged /\ Quiet /\ [Next]_vars => Entries'
<1> SUFFICES ASSUME Sound, Undamaged, Quiet, [Next]_vars PROVE Entries'
  OBVIOUS
<1> USE RelFacts, NameFacts, SettingFacts DEF Sound, Shape, World, Placed, Filed, Held, Undamaged, Quiet, Activating, Commands, Steps, Ledger, Entries, Entry, EntryAhead, PortOf, Target,
      BeforeMark, Coming, containers, proxy, links, releases, run, Goto, DockerCall, SetState, Removed
<1>0. CASE UNCHANGED vars
  BY <1>0 DEF vars
<1>1. CASE BeginDeploy
  BY <1>1 DEF BeginDeploy, Begins
<1>2. CASE BeginRollback
  BY <1>2 DEF BeginRollback, Begins
<1>3. CASE BeginRestart
  BY <1>3 DEF BeginRestart, Begins
<1>4. CASE BeginRemove
  BY <1>4 DEF BeginRemove, Begins
<1>5. CASE Build
  BY <1>5 DEF Build
<1>6. CASE Clear
  BY <1>6 DEF Clear
<1>7. CASE Snapshot
  BY <1>7 DEF Snapshot
<1>8. CASE StopOld
  BY <1>8 DEF StopOld
<1>9. CASE Create
  BY <1>9 DEF Create
<1>10. CASE Start
  BY <1>10 DEF Start
<1>11. CASE Health
  BY <1>11 DEF Health
<1>12. CASE Join
  BY <1>12 DEF Join
<1>13. CASE Switch
  BY <1>13 DEF Switch, Switched, Refused, Target
<1>14. CASE Reload
  BY <1>14 DEF Reload, Switched, Refused, Target
<1>15. CASE MarkPrevious
  BY <1>15 DEF MarkPrevious
<1>16. CASE MarkCurrent
  BY <1>16 DEF MarkCurrent
<1>17. CASE Undo
  BY <1>17 DEF Undo
<1>18. CASE Revive
  BY <1>18 DEF Revive
<1>19. CASE List
  BY <1>19 DEF List
<1>20. CASE Retire
  BY <1>20 DEF Retire
<1>21. CASE Retired
  BY <1>21 DEF Retired, End
<1>22. CASE Rename
  BY <1>22 DEF Rename, End
<1>23. CASE Record
  BY <1>23 DEF Record
<1>24. CASE Prune
  BY <1>24 DEF Prune, End
<1>25. CASE Sweep
  BY <1>25 DEF Sweep, End
<1>26. CASE Fail
  BY <1>26 DEF Fail, End
<1>27. CASE DropImage
  BY <1>27 DEF DropImage, End
<1>28. CASE Unlink
  BY <1>28 DEF Unlink
<1>29. CASE Empty
  BY <1>29 DEF Empty
<1>30. CASE Forget
  BY <1>30 DEF Forget, End
<1>31. CASE Crash
  BY <1>31 DEF Crash, End
<1>32. CASE StopCommand
  BY <1>32 DEF StopCommand
<1>33. CASE OthersSwitch
  BY <1>33 DEF OthersSwitch
<1> QED BY <1>0, <1>1, <1>2, <1>3, <1>4, <1>5, <1>6, <1>7, <1>8, <1>9, <1>10, <1>11, <1>12, <1>13, <1>14, <1>15, <1>16, <1>17, <1>18, <1>19, <1>20, <1>21, <1>22, <1>23, <1>24, <1>25, <1>26, <1>27, <1>28, <1>29, <1>30, <1>31, <1>32, <1>33 DEF Next, Begin, Step, Activate, Deploy, Remove

\* The run's own container is none of those it stops or removes (ops.ts activate).
LEMMA NewcomerKept == Sound /\ Undamaged /\ Quiet /\ [Next]_vars => Newcomer'
<1> SUFFICES ASSUME Sound, Undamaged, Quiet, [Next]_vars PROVE Newcomer'
  OBVIOUS
<1> USE RelFacts, NameFacts, SettingFacts DEF Sound, Shape, World, Placed, Filed, Held, Undamaged, Quiet, Activating, Commands, Steps, Ledger, Newcomer, New, Halted, Joined, Present, Strategy, Running,
      BeforeMark, Coming, containers, proxy, links, releases, run, Goto, DockerCall, SetState, Removed
<1>0. CASE UNCHANGED vars
  BY <1>0 DEF vars
<1>1. CASE BeginDeploy
  BY <1>1 DEF BeginDeploy, Begins
<1>2. CASE BeginRollback
  BY <1>2 DEF BeginRollback, Begins
<1>3. CASE BeginRestart
  BY <1>3 DEF BeginRestart, Begins
<1>4. CASE BeginRemove
  BY <1>4 DEF BeginRemove, Begins
<1>5. CASE Build
  BY <1>5 DEF Build
<1>6. CASE Clear
  BY <1>6 DEF Clear
<1>7. CASE Snapshot
  BY <1>7 DEF Snapshot
<1>8. CASE StopOld
  <2>1. UNCHANGED <<op, rel, old>> /\ todo' \subseteq todo /\ pc' \in {"stopOld", "create"}
    BY <1>8 DEF StopOld
  <2> QED BY <1>8, <2>1 DEF StopOld
<1>9. CASE Create
  BY <1>9 DEF Create
<1>10. CASE Start
  BY <1>10 DEF Start
<1>11. CASE Health
  BY <1>11 DEF Health
<1>12. CASE Join
  BY <1>12 DEF Join
<1>13. CASE Switch
  BY <1>13 DEF Switch, Switched, Refused, Target
<1>14. CASE Reload
  BY <1>14 DEF Reload, Switched, Refused, Target
<1>15. CASE MarkPrevious
  BY <1>15 DEF MarkPrevious
<1>16. CASE MarkCurrent
  BY <1>16 DEF MarkCurrent
<1>17. CASE Undo
  BY <1>17 DEF Undo
<1>18. CASE Revive
  BY <1>18 DEF Revive
<1>19. CASE List
  BY <1>19 DEF List
<1>20. CASE Retire
  BY <1>20 DEF Retire
<1>21. CASE Retired
  BY <1>21 DEF Retired, End
<1>22. CASE Rename
  BY <1>22 DEF Rename, End
<1>23. CASE Record
  BY <1>23 DEF Record
<1>24. CASE Prune
  BY <1>24 DEF Prune, End
<1>25. CASE Sweep
  BY <1>25 DEF Sweep, End
<1>26. CASE Fail
  BY <1>26 DEF Fail, End
<1>27. CASE DropImage
  BY <1>27 DEF DropImage, End
<1>28. CASE Unlink
  BY <1>28 DEF Unlink
<1>29. CASE Empty
  BY <1>29 DEF Empty
<1>30. CASE Forget
  BY <1>30 DEF Forget, End
<1>31. CASE Crash
  BY <1>31 DEF Crash, End
<1>32. CASE StopCommand
  BY <1>32 DEF StopCommand
<1>33. CASE OthersSwitch
  BY <1>33 DEF OthersSwitch
<1> QED BY <1>0, <1>1, <1>2, <1>3, <1>4, <1>5, <1>6, <1>7, <1>8, <1>9, <1>10, <1>11, <1>12, <1>13, <1>14, <1>15, <1>16, <1>17, <1>18, <1>19, <1>20, <1>21, <1>22, <1>23, <1>24, <1>25, <1>26, <1>27, <1>28, <1>29, <1>30, <1>31, <1>32, <1>33 DEF Next, Begin, Step, Activate, Deploy, Remove

\* The current release answers, or `old` will bring it back (ops.ts:287-296).
LEMMA StandsKept == Sound /\ Undamaged /\ Quiet /\ [Next]_vars => Stands'
<1> SUFFICES ASSUME Sound, Undamaged, Quiet, [Next]_vars PROVE Stands'
  OBVIOUS
<1> USE RelFacts, NameFacts, SettingFacts DEF Sound, Shape, World, Placed, Filed, Held, Undamaged, Quiet, Activating, Commands, Steps, Ledger, Newcomer, Stands, Answers, New, Halted, Joined, Present, Strategy, Running,
      BeforeMark, Coming, containers, proxy, links, releases, run, Goto, DockerCall, SetState, Removed
<1>0. CASE UNCHANGED vars
  BY <1>0 DEF vars
<1>1. CASE BeginDeploy
  BY <1>1 DEF BeginDeploy, Begins
<1>2. CASE BeginRollback
  BY <1>2 DEF BeginRollback, Begins
<1>3. CASE BeginRestart
  BY <1>3 DEF BeginRestart, Begins
<1>4. CASE BeginRemove
  BY <1>4 DEF BeginRemove, Begins
<1>5. CASE Build
  BY <1>5 DEF Build
<1>6. CASE Clear
  BY <1>6 DEF Clear
<1>7. CASE Snapshot
  BY <1>7 DEF Snapshot
<1>8. CASE StopOld
  <2>1. /\ UNCHANGED <<op, rel, old, current, live, healthy, setting>>
        /\ pc' \in {"stopOld", "create"}
    BY <1>8 DEF StopOld
  <2> QED BY <1>8, <2>1 DEF StopOld
<1>9. CASE Create
  BY <1>9 DEF Create
<1>10. CASE Start
  BY <1>10 DEF Start
<1>11. CASE Health
  BY <1>11 DEF Health
<1>12. CASE Join
  BY <1>12 DEF Join
<1>13. CASE Switch
  BY <1>13 DEF Switch, Switched, Refused, Target
<1>14. CASE Reload
  BY <1>14 DEF Reload, Switched, Refused, Target
<1>15. CASE MarkPrevious
  BY <1>15 DEF MarkPrevious
<1>16. CASE MarkCurrent
  BY <1>16 DEF MarkCurrent
<1>17. CASE Undo
  BY <1>17 DEF Undo
<1>18. CASE Revive
  BY <1>18 DEF Revive
<1>19. CASE List
  BY <1>19 DEF List
<1>20. CASE Retire
  BY <1>20 DEF Retire
<1>21. CASE Retired
  BY <1>21 DEF Retired, End
<1>22. CASE Rename
  BY <1>22 DEF Rename, End
<1>23. CASE Record
  BY <1>23 DEF Record
<1>24. CASE Prune
  BY <1>24 DEF Prune, End
<1>25. CASE Sweep
  BY <1>25 DEF Sweep, End
<1>26. CASE Fail
  BY <1>26 DEF Fail, End
<1>27. CASE DropImage
  BY <1>27 DEF DropImage, End
<1>28. CASE Unlink
  BY <1>28 DEF Unlink
<1>29. CASE Empty
  BY <1>29 DEF Empty
<1>30. CASE Forget
  BY <1>30 DEF Forget, End
<1>31. CASE Crash
  BY <1>31 DEF Crash, End
<1>32. CASE StopCommand
  BY <1>32 DEF StopCommand
<1>33. CASE OthersSwitch
  BY <1>33 DEF OthersSwitch
<1> QED BY <1>0, <1>1, <1>2, <1>3, <1>4, <1>5, <1>6, <1>7, <1>8, <1>9, <1>10, <1>11, <1>12, <1>13, <1>14, <1>15, <1>16, <1>17, <1>18, <1>19, <1>20, <1>21, <1>22, <1>23, <1>24, <1>25, <1>26, <1>27, <1>28, <1>29, <1>30, <1>31, <1>32, <1>33 DEF Next, Begin, Step, Activate, Deploy, Remove

\* A container that answers on the port Caddy has loaded serves the app.
LEMMA ServedBy ==
  ASSUME NEW n \in Names, Answers(n), PortOf[n[1]] = loaded
  PROVE  Serving
BY DEF Answers, Serving, Reachable

\* Between two runs the current release answers on the port that is loaded.
LEMMA ServedWhenIdle ==
  ASSUME Sound, Undamaged, pc = "idle", current # None
  PROVE  Serving
<1>1. loaded = PortOf[current]
  BY DEF Undamaged, Entries, EntryAhead, Entry
<1>2. Answers(Main(current))
  BY DEF Undamaged, Stands, Halted, Coming, Sound, Shape, Placed
<1>3. current \in Rel
  BY DEF Sound, Shape, World
<1>4. Main(current) \in Names /\ Main(current)[1] = current
  BY <1>3, NameFacts
<1> QED BY <1>1, <1>2, <1>4, ServedBy


\* Before a switch is loaded the current release serves, and from then on the
\* new container does (rolling).
LEMMA ServedWhileClean == Sound /\ CleanInv => CleanServed
<1> SUFFICES ASSUME Sound, Undamaged, Strategy = "rolling", current # None,
                    op # "remove" \/ pc = "switch"
             PROVE  Serving
  BY DEF CleanInv, CleanServed
<1>1. current \in Rel /\ Main(current) \in Names /\ Main(current)[1] = current
  BY NameFacts DEF Sound, Shape, World
<1>2. CASE op \in Activating /\ pc \in {"mark1", "mark2", "list", "retire", "rename"}
  <2>1. rel \in Rel /\ New \in Names /\ New[1] = rel
    BY <1>2, NameFacts DEF Sound, Shape, Placed, New
  <2>2. Answers(New)
    BY <1>2, <2>1 DEF Answers, Running, Undamaged, Newcomer, Stands, Joined
  <2>3. loaded = PortOf[rel]
    BY <1>2 DEF Undamaged, Entries, EntryAhead, Target, Entry, Sound, Filed, Activating
  <2> QED BY <2>1, <2>2, <2>3, ServedBy
<1>3. CASE ~(op \in Activating /\ pc \in {"mark1", "mark2", "list", "retire", "rename"})
  <2>1. pc \notin {"mark1", "mark2", "list", "retire", "rename", "unlink"}
    BY <1>3 DEF Sound, Shape, Placed, Activating, Commands
  <2>2. Answers(Main(current))
    BY <2>1 DEF Undamaged, Stands
  <2>3. loaded = PortOf[current]
    BY <2>1 DEF Undamaged, Entries, EntryAhead, Entry
  <2> QED BY <1>1, <2>2, <2>3, ServedBy
<1> QED BY <1>2, <1>3

\* A reload only starts with the entry the run wants in the Caddyfile.
LEMMA AimedKept == Aimed /\ [Next]_vars => Aimed'
<1> SUFFICES ASSUME Aimed, [Next]_vars PROVE Aimed'
  OBVIOUS
<1> USE DEF Aimed, Target, Goto
<1>1. CASE Switch
  BY <1>1 DEF Switch, Switched, Refused, PortOf, run
<1>2. UNCHANGED <<pc, file, op, rel, setting>> \/ pc' # "reload" \/ Switch
  BY DEF Next, Begin, Step, Activate, Deploy, Remove, vars, proxy, run, Begins, End, DockerCall, Switched, Refused,
      BeginDeploy, BeginRollback, BeginRestart, BeginRemove, Build, Clear, Snapshot, StopOld, Create, Start,
      Health, Join, Reload, MarkPrevious, MarkCurrent, Undo, Revive, List, Retire, Retired, Rename, Record,
      Prune, Sweep, Fail, DropImage, Unlink, Empty, Forget, Crash, StopCommand, OthersSwitch
<1> QED BY <1>1, <1>2 DEF PortOf

\* Only the end of a delete takes the link `current` away.
LEMMA StaysCurrent ==
  ASSUME Sound, [Next]_vars, op # "remove", current # None
  PROVE  current' # None /\ (op' # "remove" \/ pc' = "switch")
<1> USE RelFacts DEF Sound, Shape, World, Placed, Activating, Commands, Goto
<1>1. CASE MarkCurrent
  BY <1>1 DEF MarkCurrent, run
<1>2. CASE Begin
  BY <1>2 DEF Begin, BeginDeploy, BeginRollback, BeginRestart, BeginRemove, Begins, links
<1>3. (current' = current /\ op' \in {op, "none"}) \/ Begin \/ MarkCurrent
  BY DEF Next, Step, Activate, Deploy, Remove, vars, links, run, End, DockerCall,
      Build, Clear, Snapshot, StopOld, Create, Start, Health, Join, Switch, Reload, MarkPrevious, Undo,
      Revive, List, Retire, Retired, Rename, Record, Prune, Sweep, Fail, DropImage, Unlink, Empty, Forget,
      Crash, StopCommand, OthersSwitch
<1> QED BY <1>1, <1>2, <1>3

\* Only a reload or another app's switch changes what Caddy runs.
LEMMA LoadedStays ==
  ASSUME [Next]_vars
  PROVE  loaded' = loaded \/ Reload \/ OthersSwitch
BY DEF Next, Begin, Step, Activate, Deploy, Remove, vars, proxy, Begins, BeginDeploy, BeginRollback, BeginRestart, BeginRemove, Build, Clear, Snapshot, StopOld, Create, Start, Health, Join, Switch, MarkPrevious, MarkCurrent, Undo, Revive, List, Retire, Retired, Rename, Record, Prune, Sweep, Fail, DropImage, Unlink, Empty, Forget, Crash, StopCommand

\* With one port, a served app's switch loads the port that was loaded.
LEMMA PortStays ==
  ASSUME Sound, Aimed, [Next]_vars, current # None, Serving, op # "remove"
  PROVE  \E r \in Rel : loaded' = PortOf[r]
<1>1. PICK n \in Names : Reachable(n)
  BY DEF Serving
<1>2. \E r \in Rel : loaded = PortOf[r]
  BY <1>1, NameFacts DEF Reachable
<1>3. CASE loaded' = loaded
  BY <1>2, <1>3
<1>4. CASE Reload
  <2>1. rel \in Rel /\ file = PortOf[rel]
    BY <1>4 DEF Sound, Shape, Placed, Aimed, Reload, Target, Activating, Commands
  <2> QED BY <1>2, <1>4, <2>1 DEF Reload
<1>5. CASE OthersSwitch
  BY <1>2, <1>5, RelFacts DEF OthersSwitch, Sound, Shape, World, Filed
<1> QED BY <1>3, <1>4, <1>5, LoadedStays

\* A step of a steady run keeps the app served.
LEMMA SteadyStep ==
  Sound /\ Aimed /\ Sound' /\ CurrentUp' /\ CleanServed' /\ [Next]_vars
    => (Steady /\ current # None /\ Serving /\ op # "remove" => Serving')
<1> SUFFICES ASSUME Sound, Aimed, Sound', CurrentUp', CleanServed', [Next]_vars,
                    Steady, current # None, Serving, op # "remove"
             PROVE  Serving'
  OBVIOUS
<1>1. setting' = setting
  BY SettingStays
<1>2. current' # None /\ (op' # "remove" \/ pc' = "switch")
  BY StaysCurrent
<1>3. CASE Faults = {}
  BY <1>1, <1>2, <1>3 DEF CleanServed, Quiet, Steady, Strategy, Faults, Ops
<1>4. CASE Ops \subseteq {"deploy", "rollback", "others"} /\ \A r, q \in Rel : PortOf[r] = PortOf[q]
  <2>1. Main(current') \in live' \intersect healthy' \intersect Running'
    BY <1>1, <1>2, <1>4 DEF CurrentUp, Steady, Strategy, Ops
  <2>2. current' \in Rel /\ Main(current') \in Names /\ Main(current')[1] = current'
    BY <1>2, NameFacts DEF Sound, Shape, World
  <2>3. PICK r \in Rel : loaded' = PortOf[r]
    BY PortStays
  <2>4. PortOf'[Main(current')[1]] = loaded'
    BY <1>1, <1>4, <2>2, <2>3 DEF PortOf
  <2> QED BY <2>1, <2>2, <2>4 DEF Serving, Reachable
<1> QED BY <1>3, <1>4 DEF Steady

-----------------------------------------------------------------------------
(* The theorems *)

\* The links name releases that have folders, whatever fails or is killed
\* (releases.ts setCurrent and pruneReleases).
THEOREM SoundAlways == Spec => []Sound
<1>1. Init => Sound
  <2>1. Init => Shape
    <3> USE RelFacts, EngineConstants DEF Init
    <3>1. Init => World
      BY DEF World
    <3>2. Init => Placed /\ Held
      BY DEF Placed, Held, Steps, Results, Activating
    <3> QED BY <3>1, <3>2 DEF Shape
  <2>2. Init => Filed
    BY RelFacts DEF Init, Filed, Activating
  <2> QED BY <2>1, <2>2 DEF Sound
<1>2. Sound /\ [Next]_vars => Sound'
  BY WorldKept, RunKept, FiledKept DEF Sound, Shape
<1> QED BY <1>1, <1>2, PTL DEF Spec

\* Every variable of the engine keeps its type (ops.ts, releases.ts, proxy.ts).
THEOREM TypeCorrect == Spec => []TypeOK
<1>1. Sound => TypeOK
  BY DEF Sound, Shape, World, Placed, Held, TypeOK
<1> QED BY <1>1, SoundAlways, PTL

\* Rolling: through every fault and kill, the current release has a healthy,
\* running container on the live network (ops.ts activate and goLive).
THEOREM CurrentStaysUp == Spec => []CurrentUp
<1>1. Init => UpInv
  BY DEF Init, UpInv, Undisturbed, BeforeMark, Coming
<1>2. UpInv => CurrentUp
  BY DEF UpInv, Undisturbed, OnlyReleases, CurrentUp
<1> QED BY <1>1, <1>2, SoundAlways, UpKept, PTL DEF Spec

\* Images built here: current and previous keep their image and their folder
\* (ops.ts prune and dropImage, releases.ts pruneReleases).
THEOREM BuiltReleasesKept == Spec => []KeptBuilt
<1>1. Init => KeptInv
  BY DEF Init, KeptInv, Backed, BeforeMark, Coming, Present, Activating
<1>2. Sound /\ KeptInv => KeptBuilt
  BY DEF Sound, Filed, KeptInv, Backed, KeptBuilt, KeptReleases
<1> QED BY <1>1, <1>2, SoundAlways, BackedKept, PTL DEF Spec

\* While nothing but the app fails, no step leaves the bookkeeping damaged.
LEMMA CleanAlways == Spec => []CleanInv
<1>1. Init => CleanInv
  BY RelFacts DEF Init, CleanInv, Undamaged, Ledger, Entries, Newcomer, Stands, Entry, EntryAhead, BeforeMark, Coming,
    Activating
<1>2. Sound /\ CleanInv /\ [Next]_vars => CleanInv'
  <2>1. [Next]_vars => (Quiet' <=> Quiet)
    BY SettingStays DEF Quiet, Faults, Ops
  <2> QED BY <2>1, LedgerKept, EntriesKept, NewcomerKept, StandsKept DEF CleanInv, Undamaged
<1> QED BY <1>1, <1>2, SoundAlways, PTL DEF Spec

\* As long as only the app itself fails and nobody stops it, success serves
\* and failure leaves the current release serving (ops.ts:287-296, 734).
THEOREM CleanRuns == Spec => []CleanOutcome
<1>1. Sound /\ CleanInv => CleanOutcome
  BY ServedWhenIdle DEF CleanInv, CleanOutcome, SuccessServes, FailureRestores, Quiet, Undamaged, Ledger
<1> QED BY <1>1, CleanAlways, SoundAlways, PTL

\* Rolling: a served app stays served, through every fault and kill while all
\* releases have one port and deploys and rollbacks are all that runs, and
\* through every command and port change while only the app fails (ops.ts:274).
THEOREM ServedThroughout == Spec => SteadyService
<1>1. Spec => []Aimed
  <2>1. Init => Aimed
    BY DEF Init, Aimed
  <2> QED BY <2>1, AimedKept, PTL DEF Spec
<1>2. Spec => []CleanServed
  BY CleanAlways, SoundAlways, ServedWhileClean, PTL
<1>3. Sound /\ Aimed /\ Sound' /\ CurrentUp' /\ CleanServed' /\ [Next]_vars
        => [Steady /\ current # None /\ Serving /\ op # "remove" => Serving']_vars
  BY SteadyStep
<1> QED BY <1>1, <1>2, <1>3, SoundAlways, CurrentStaysUp, PTL DEF Spec, SteadyService

----------------------------------------------------------------------------
(* The lock every operation above holds (DeployLock).  For any set of runs: *)
(* its types, and that at most one copy of a lock body is in play.  For at  *)
(* most three runs, mutual exclusion; it does not hold for four             *)
(* (MCDeployLock_four.cfg).                                                 *)

\* Every variable of a lock file and of the runs that use it keeps its type.
THEOREM LockTypeCorrect == LockSpec => []LockTypeOK
<1>1. LockInit => LockTypeOK
  BY LockConstants DEF LockInit, LockTypeOK, Places
<1>2. LockTypeOK /\ [LockNext]_lockVars => LockTypeOK'
  <2> SUFFICES ASSUME LockTypeOK, [LockNext]_lockVars PROVE LockTypeOK'
    OBVIOUS
  <2> USE LockConstants DEF LockTypeOK, Places, Ended, Move, NextAttempt, InSection
  <2>1. CASE UNCHANGED lockVars
    BY <2>1 DEF lockVars
  <2>2. ASSUME NEW r \in Runs, Acquire(r) PROVE LockTypeOK'
    <3>1. CASE CreateExclusive(r)
      BY <3>1 DEF CreateExclusive
    <3>2. CASE ReadRaw(r)
      BY <3>2 DEF ReadRaw
    <3>3. CASE ReadHeld(r)
      BY <3>3 DEF ReadHeld
    <3>4. CASE Judge(r)
      BY <3>4 DEF Judge
    <3>5. CASE MoveAside(r)
      BY <3>5 DEF MoveAside
    <3>6. CASE PutBack(r)
      BY <3>6 DEF PutBack
    <3>7. CASE CleanUp(r)
      BY <3>7 DEF CleanUp
    <3> QED BY <2>2, <3>1, <3>2, <3>3, <3>4, <3>5, <3>6, <3>7 DEF Acquire
  <2>3. ASSUME NEW r \in Runs, Release(r) PROVE LockTypeOK'
    BY <2>3 DEF Release, ReadOwn, UnlinkLock
  <2>4. ASSUME NEW r \in Runs, Ask(r) \/ Retry(r) \/ GiveUp(r) PROVE LockTypeOK'
    BY <2>4 DEF Ask, Retry, GiveUp
  <2>5. ASSUME NEW r \in Runs, Killed(r) \/ Overrun(r) PROVE LockTypeOK'
    BY <2>5 DEF Killed, Overrun
  <2> QED BY <2>1, <2>2, <2>3, <2>4, <2>5 DEF LockNext
<1> QED BY <1>1, <1>2, PTL DEF LockSpec

\* A lock body lives in one place: no removal can put back a body that is in
\* the lock file or with another removal, nor one of a run that asks again.
THEOREM OneCopy == LockSpec => []SingleCopy
<1>1. LockInit => SingleCopy
  BY DEF LockInit, SingleCopy
<1>2. LockTypeOK /\ SingleCopy /\ [LockNext]_lockVars => SingleCopy'
  <2> SUFFICES ASSUME LockTypeOK, SingleCopy, [LockNext]_lockVars PROVE SingleCopy'
    OBVIOUS
  <2> USE LockConstants DEF LockTypeOK, SingleCopy, Owners, Places, Ended, Move
  <2>1. CASE UNCHANGED lockVars
    BY <2>1 DEF lockVars
  <2>2. ASSUME NEW r \in Runs, Acquire(r) PROVE SingleCopy'
    <3>1. CASE CreateExclusive(r)
      BY <3>1 DEF CreateExclusive
    <3>2. CASE ReadRaw(r)
      BY <3>2 DEF ReadRaw
    <3>3. CASE ReadHeld(r)
      BY <3>3 DEF ReadHeld, NextAttempt
    <3>4. CASE Judge(r)
      BY <3>4 DEF Judge
    <3>5. CASE MoveAside(r)
      BY <3>5 DEF MoveAside, NextAttempt
    <3>6. CASE PutBack(r)
      BY <3>6 DEF PutBack
    <3>7. CASE CleanUp(r)
      BY <3>7 DEF CleanUp, NextAttempt
    <3> QED BY <2>2, <3>1, <3>2, <3>3, <3>4, <3>5, <3>6, <3>7 DEF Acquire
  <2>3. ASSUME NEW r \in Runs, Release(r) PROVE SingleCopy'
    BY <2>3 DEF Release, ReadOwn, UnlinkLock
  <2>4. ASSUME NEW r \in Runs, Ask(r) \/ Retry(r) \/ GiveUp(r) PROVE SingleCopy'
    BY <2>4 DEF Ask, Retry, GiveUp
  <2>5. ASSUME NEW r \in Runs, Killed(r) \/ Overrun(r) PROVE SingleCopy'
    BY <2>5 DEF Killed, Overrun
  <2> QED BY <2>1, <2>2, <2>3, <2>4, <2>5 DEF LockNext
<1> QED BY <1>1, <1>2, LockTypeCorrect, PTL DEF LockSpec

-----------------------------------------------------------------------------
(* Mutual exclusion, for at most three runs *)

\* A run that had the lock and never asks for it again.
Dead == {"released", "crashed"}

\* A body that was read is that of a run that got the lock; a removal that was
\* decided on, while no lock is too old, has read a dead run's body.
Judged ==
  \A q \in Runs :
    /\ raw[q] # NoRun => at[raw[q]] \in Owners
    /\ held[q] # NoRun => at[held[q]] \in Owners
    /\ at[q] \in {"judge", "moveAside", "putBack"} => raw[q] # NoRun
    /\ aged = {} /\ at[q] = "judge" /\ held[q] # raw[q] => at[raw[q]] \in Dead
    /\ aged = {} /\ at[q] \in {"moveAside", "putBack"} => at[raw[q]] \in Dead

\* Who has r's body while r is in its section and the lock file is not r's: a
\* removal that will put it back, or one that was killed before it did.  The
\* lock file is gone, and so is the run whose body the removal had judged.
Lost(r, q, d) ==
  /\ r # q /\ r # d /\ q # d
  /\ (at[q] = "putBack" /\ aside[q] = r) \/ at[q] \in Dead
  /\ at[d] \in Dead
  /\ lockFile = NoRun

Covered == aged = {} => \A r \in Runs : InSection(r) /\ lockFile # r => \E q, d \in Runs : Lost(r, q, d)

\* No four runs are all different.
Few == \A p, q, r, s \in Runs : p = q \/ p = r \/ p = s \/ q = r \/ q = s \/ r = s

\* Of four members of a set of at most three, two are the same.
LEMMA ThreeRuns ==
  ASSUME IsFiniteSet(Runs), Cardinality(Runs) <= 3
  PROVE  Few
<1> SUFFICES ASSUME NEW p \in Runs, NEW q \in Runs, NEW r \in Runs, NEW s \in Runs,
                    p # q, p # r, p # s, q # r, q # s, r # s
             PROVE  FALSE
  BY DEF Few
<1>1. IsFiniteSet({p}) /\ Cardinality({p}) = 1
  BY FS_Singleton
<1>2. q \notin {p} /\ r \notin {p} \union {q} /\ s \notin ({p} \union {q}) \union {r}
  OBVIOUS
<1>3. IsFiniteSet({p} \union {q}) /\ Cardinality({p} \union {q}) = 2
  BY <1>1, <1>2, FS_AddElement
<1>4. /\ IsFiniteSet(({p} \union {q}) \union {r})
      /\ Cardinality(({p} \union {q}) \union {r}) = 3
  <2>1. /\ IsFiniteSet(({p} \union {q}) \union {r})
        /\ Cardinality(({p} \union {q}) \union {r}) = Cardinality({p} \union {q}) + 1
    BY <1>2, <1>3, FS_AddElement, Zenon
  <2> QED BY <1>3, <2>1
<1>5. /\ IsFiniteSet((({p} \union {q}) \union {r}) \union {s})
      /\ Cardinality((({p} \union {q}) \union {r}) \union {s}) = 4
  <2>1. /\ IsFiniteSet((({p} \union {q}) \union {r}) \union {s})
        /\ Cardinality((({p} \union {q}) \union {r}) \union {s})
             = Cardinality(({p} \union {q}) \union {r}) + 1
    BY <1>2, <1>4, FS_AddElement, Zenon
  <2> QED BY <1>4, <2>1
<1>6. Cardinality((({p} \union {q}) \union {r}) \union {s}) <= Cardinality(Runs)
  BY FS_Subset
<1>7. Cardinality(Runs) \in Nat
  BY FS_CardinalityType
<1> QED BY <1>5, <1>6, <1>7

\* What was read and judged stays true: an owner never asks again (lock.ts removeStale).
LEMMA JudgedKept == LockTypeOK /\ SingleCopy /\ Judged /\ Covered /\ Few /\ [LockNext]_lockVars => Judged'
<1> SUFFICES ASSUME LockTypeOK, SingleCopy, Judged, Covered, Few, [LockNext]_lockVars PROVE Judged'
  OBVIOUS
<1> USE LockConstants DEF LockTypeOK, SingleCopy, Judged, Owners, Dead, Places, Ended, Move
<1>1. CASE UNCHANGED lockVars
  BY <1>1 DEF lockVars
<1>2. ASSUME NEW r \in Runs, Acquire(r) PROVE Judged'
  <2>1. CASE CreateExclusive(r)
    BY <2>1 DEF CreateExclusive
  <2>2. CASE ReadRaw(r)
    BY <2>2 DEF ReadRaw
  <2>3. CASE ReadHeld(r)
    <3>1. aged = {} /\ raw[r] # NoRun /\ lockFile # raw[r] => at[raw[r]] \in Dead
      <4> SUFFICES ASSUME aged = {}, raw[r] # NoRun, lockFile # raw[r], InSection(raw[r]) PROVE FALSE
        BY DEF InSection
      <4>1. PICK q \in Runs, d \in Runs : Lost(raw[r], q, d)
        BY DEF Covered
      <4> QED BY <4>1, <2>3 DEF Lost, ReadHeld, Few, InSection
    <3> QED BY <2>3, <3>1 DEF ReadHeld, NextAttempt
  <2>4. CASE Judge(r)
    BY <2>4 DEF Judge, Stale, Gone
  <2>5. CASE MoveAside(r)
    BY <2>5 DEF MoveAside, NextAttempt
  <2>6. CASE PutBack(r)
    BY <2>6 DEF PutBack
  <2>7. CASE CleanUp(r)
    BY <2>7 DEF CleanUp, NextAttempt
  <2> QED BY <1>2, <2>1, <2>2, <2>3, <2>4, <2>5, <2>6, <2>7 DEF Acquire
<1>3. ASSUME NEW r \in Runs, Release(r) PROVE Judged'
  BY <1>3 DEF Release, ReadOwn, UnlinkLock
<1>4. ASSUME NEW r \in Runs, Ask(r) \/ Retry(r) \/ GiveUp(r) PROVE Judged'
  BY <1>4 DEF Ask, Retry, GiveUp
<1>5. ASSUME NEW r \in Runs, Killed(r) \/ Overrun(r) PROVE Judged'
  BY <1>5 DEF Killed, Overrun
<1> QED BY <1>1, <1>2, <1>3, <1>4, <1>5 DEF LockNext

\* With three runs, one of them in its section without its file and another
\* dead, nobody is left to take the lock.
LEMMA CoveredKept == LockTypeOK /\ Judged /\ Covered /\ Few /\ [LockNext]_lockVars => Covered'
<1> SUFFICES ASSUME LockTypeOK, Judged, Covered, Few, [LockNext]_lockVars, aged' = {}, aged = {},
                    NEW s \in Runs, InSection(s)', lockFile' # s
             PROVE  \E q, d \in Runs : Lost(s, q, d)'
  BY DEF Covered, LockNext, lockVars, Acquire, Release, Ask, CreateExclusive, ReadRaw, ReadHeld, Judge, MoveAside, PutBack,
    CleanUp, Retry, GiveUp, ReadOwn, UnlinkLock, Killed, Overrun
<1> USE LockConstants DEF LockTypeOK, Judged, Owners, Dead, Places, Ended, Move, InSection, Lost
<1>1. CASE UNCHANGED lockVars
  BY <1>1 DEF lockVars, Covered
<1>2. ASSUME NEW r \in Runs, Acquire(r) PROVE \E q, d \in Runs : Lost(s, q, d)'
  <2>1. CASE CreateExclusive(r)
    BY <2>1 DEF CreateExclusive, Covered, Few
  <2>2. CASE ReadRaw(r)
    BY <2>2 DEF ReadRaw, Covered
  <2>3. CASE ReadHeld(r)
    BY <2>3 DEF ReadHeld, NextAttempt, Covered
  <2>4. CASE Judge(r)
    BY <2>4 DEF Judge, Covered
  <2>5. CASE MoveAside(r)
    <3>1. CASE lockFile # s
      BY <2>5, <3>1 DEF MoveAside, NextAttempt, Covered
    <3>2. CASE lockFile = s
      <4>1. PICK d \in Runs : d = raw[r]
        BY <2>5 DEF MoveAside
      <4>2. s # r /\ at[d] \in Dead /\ d # s /\ d # r
        BY <2>5, <3>2, <4>1 DEF MoveAside, NextAttempt
      <4>3. at' = [at EXCEPT ![r] = "putBack"] /\ aside' = [aside EXCEPT ![r] = s] /\ lockFile' = NoRun
        BY <2>5, <3>2 DEF MoveAside
      <4>4. Lost(s, r, d)'
        BY <4>2, <4>3
      <4> QED BY <4>4
    <3> QED BY <3>1, <3>2
  <2>6. CASE PutBack(r)
    <3>1. lockFile # s
      BY <2>6 DEF PutBack
    <3>2. PICK q \in Runs, d \in Runs : Lost(s, q, d)
      BY <2>6, <3>1 DEF PutBack, Covered
    <3>3. r = q
      BY <2>6, <3>2 DEF PutBack, Few
    <3>4. aside[r] = s /\ raw[r] # s /\ lockFile = NoRun
      BY <2>6, <3>2, <3>3 DEF PutBack
    <3> QED BY <2>6, <3>4 DEF PutBack
  <2>7. CASE CleanUp(r)
    BY <2>7 DEF CleanUp, NextAttempt, Covered
  <2> QED BY <1>2, <2>1, <2>2, <2>3, <2>4, <2>5, <2>6, <2>7 DEF Acquire
<1>3. ASSUME NEW r \in Runs, Release(r) PROVE \E q, d \in Runs : Lost(s, q, d)'
  BY <1>3 DEF Release, ReadOwn, UnlinkLock, Covered, Few
<1>4. ASSUME NEW r \in Runs, Ask(r) \/ Retry(r) \/ GiveUp(r) PROVE \E q, d \in Runs : Lost(s, q, d)'
  BY <1>4 DEF Ask, Retry, GiveUp, Covered
<1>5. ASSUME NEW r \in Runs, Killed(r) \/ Overrun(r) PROVE \E q, d \in Runs : Lost(s, q, d)'
  BY <1>5 DEF Killed, Overrun, Covered
<1> QED BY <1>1, <1>2, <1>3, <1>4, <1>5 DEF LockNext

\* Locks are exclusive when at most three runs use the lock file and none is
\* old enough to be taken from a run that lives (lock.ts:8).
THEOREM ExclusiveForThree ==
  IsFiniteSet(Runs) /\ Cardinality(Runs) <= 3 => (LockSpec => []MutualExclusion)
<1> SUFFICES ASSUME IsFiniteSet(Runs), Cardinality(Runs) <= 3 PROVE LockSpec => []MutualExclusion
  OBVIOUS
<1>1. Few
  BY ThreeRuns
<1>2. LockInit => Judged /\ Covered
  BY DEF LockInit, Judged, Covered, InSection
<1>3. LockTypeOK /\ SingleCopy /\ Judged /\ Covered /\ [LockNext]_lockVars => (Judged /\ Covered)'
  BY <1>1, JudgedKept, CoveredKept
<1>4. Covered => MutualExclusion
  BY <1>1 DEF Covered, MutualExclusion, Lost, Few, InSection, Dead
<1> QED BY <1>2, <1>3, <1>4, LockTypeCorrect, OneCopy, PTL DEF LockSpec
=============================================================================
