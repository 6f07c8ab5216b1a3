---------------------------- MODULE DeployEngine ----------------------------
(***************************************************************************)
(* bastionctl's deployment engine for one app (packages/bastionctl/src:    *)
(* ops.ts deploy, rollback, restart, remove, activate, goLive and prune;   *)
(* proxy.ts switchProxy; releases.ts).                                     *)
(*                                                                         *)
(* Every operation holds the app's deploy lock (DeployLock), so at most    *)
(* one run is inside; a run that is refused the lock changes nothing and   *)
(* is left out.  A killed run's lock is taken over by the next one.  Each  *)
(* Docker call, each file-system change and each Caddy command is a step,  *)
(* and a run may be killed between any two.                                *)
(***************************************************************************)
EXTENDS Naturals, FiniteSets

CONSTANTS
  MaxRel,      \* release ids, in the order they are made: 1..MaxRel
  Keep,        \* keep_releases
  Settings,    \* what the app may be configured for, and what may happen to it
  MaxRuns      \* bound: how many runs of a command there are

Rel == 1..MaxRel
None == 0

\* A release's container, and the one a restart starts beside it.
Main(r) == <<r, "main">>
Temp(r) == <<r, "next">>
Names == Rel \X {"main", "next"}

Commands == {"deploy", "rollback", "restart", "remove"}

ASSUME EngineConstants ==
  /\ MaxRel \in Nat \ {0}
  /\ Keep \in Nat \ {0}
  /\ MaxRuns \in Nat
  /\ Settings \subseteq
       [strategy : {"rolling", "recreate"},  \* run.strategy
        image : {"built", "pulled"},         \* built here, or build.type image
        port : [Rel -> Nat \ {0}],           \* the port each release is recorded with
        ops : SUBSET (Commands \union {"stop", "others"}),
        faults : SUBSET {"docker", "reload", "fs", "crash"}]

VARIABLES
  setting,  \* the app's configuration and surroundings, which stay as they are
  cont,     \* Docker: the state of each container of the app
  live,     \* containers attached to bastion-live under their port's alias
  healthy,  \* containers that have passed their health check
  images,   \* releases whose image tag bastion-<app>:<release> exists
  file,     \* the port the app has in the Caddyfile, None without an entry
  loaded,   \* the same in the config the running Caddy loaded
  prev,     \* the same in Caddyfile.prev
  current,  \* the release the link `current` points at
  previous, \* and the one `previous` points at
  rec,      \* each release folder: none, or the result in its release.json
  made,     \* the newest release id made
  pc, op, rel, \* the run in the lock: where it is, its command and release
  old,      \* recreate: the containers it stopped, to start again on failure
  todo,     \* the containers its present loop still has to handle
  built,    \* deploy's `built`
  base,     \* the release that was current when the run began
  ended,    \* how the last run ended
  runs      \* how many runs began

containers == <<cont, live, healthy>>
proxy == <<file, loaded, prev>>
links == <<current, previous>>
releases == <<rec, made>>
run == <<op, rel, old, built, base>>
vars == <<setting, containers, images, proxy, links, releases, pc, run, todo, ended, runs>>

Strategy == setting.strategy
ImageKind == setting.image
PortOf == setting.port
Ops == setting.ops       \* the commands that are run, stop, and other apps' switches
Faults == setting.faults \* what may fail besides the app itself

Results == {"none", "success", "failed", "crashed"}

Steps ==
  {"idle", "build", "clear", "snapshot", "stopOld", "create", "start",
   "health", "join", "switch", "reload", "mark1", "mark2", "undo", "revive",
   "list", "retire", "rename", "record", "prune", "fail", "dropImage",
   "unlink", "empty", "forget"}

TypeOK ==
  /\ setting \in Settings
  /\ cont \in [Names -> {"absent", "created", "running", "exited"}]
  /\ live \subseteq Names
  /\ healthy \subseteq Names
  /\ images \subseteq Rel
  /\ {file, loaded, prev} \subseteq Nat
  /\ {current, previous, rel, base} \subseteq Rel \union {None}
  /\ rec \in [Rel -> {"none", "building", "success", "failed"}]
  /\ made \in 0..MaxRel
  /\ pc \in Steps
  /\ op \in Commands \union {"none"}
  /\ old \subseteq Names
  /\ todo \subseteq Names
  /\ built \in BOOLEAN
  /\ ended \in Results
  /\ runs \in 0..MaxRuns

Init ==
  /\ setting \in Settings
  /\ cont = [n \in Names |-> "absent"]
  /\ live = {} /\ healthy = {} /\ images = {}
  /\ file = None /\ loaded = None /\ prev = None
  /\ current = None /\ previous = None
  /\ rec = [r \in Rel |-> "none"]
  /\ made = 0
  /\ pc = "idle" /\ op = "none" /\ rel = None
  /\ old = {} /\ todo = {} /\ built = FALSE /\ base = None
  /\ ended = "none" /\ runs = 0

Present == {n \in Names : cont[n] # "absent"}
Running == {n \in Names : cont[n] = "running"}
Folders == {r \in Rel : rec[r] # "none"}

\* The container this run starts.
New == IF op = "restart" THEN Temp(rel) ELSE Main(rel)

\* Traffic for the app reaches a healthy container: Caddy's upstream is the
\* alias of one port, and every live container of that port answers to it.
Reachable(n) == n \in live \intersect healthy \intersect Running /\ PortOf[n[1]] = loaded
Serving == \E n \in Names : Reachable(n)

-----------------------------------------------------------------------------
(* Building blocks *)

Goto(step) == pc' = step

\* The run ends and its lock is released, or left to be taken over.
End(result) ==
  /\ pc' = "idle"
  /\ op' = "none" /\ rel' = None
  /\ old' = {} /\ todo' = {} /\ built' = FALSE
  /\ ended' = result
  /\ UNCHANGED base

Stay == UNCHANGED <<run, todo, ended>>

\* A Docker call: done, refused, or done with its answer lost.
DockerCall(done, skipped, ok, failed) ==
  \/ done /\ Goto(ok)
  \/ /\ "docker" \in Faults
     /\ done \/ skipped
     /\ Goto(failed)

SetState(n, state) ==
  cont' = [cont EXCEPT ![n] = state] /\ UNCHANGED <<live, healthy>>

Removed(names) ==
  /\ cont' = [n \in Names |-> IF n \in names THEN "absent" ELSE cont[n]]
  /\ live' = live \ names
  /\ healthy' = healthy \ names

\* Images that Docker will not delete: the only tag of an image in use.
InUse == IF ImageKind = "built" THEN {n[1] : n \in Present} ELSE {}

\* What is left of deleting each of these images; every failure is swallowed.
ImagesRemoved(rs) ==
  IF "docker" \in Faults
  THEN \E some \in SUBSET (rs \ InUse) : images' = images \ some
  ELSE images' = images \ (rs \ InUse)

-----------------------------------------------------------------------------
(* The commands take the lock *)

Begins(o, r) ==
  /\ pc = "idle"
  /\ runs < MaxRuns
  /\ o \in Ops
  /\ op' = o /\ rel' = r
  /\ base' = current
  /\ runs' = runs + 1
  /\ ended' = "none"
  /\ UNCHANGED <<containers, images, proxy, links, old, built, todo, setting>>

\* deploy: a new release folder whose release.json says building.
BeginDeploy ==
  /\ made < MaxRel
  /\ Begins("deploy", made + 1)
  /\ made' = made + 1
  /\ rec' = [rec EXCEPT ![made + 1] = "building"]
  /\ Goto("build")

\* Mutant: a rollback to the release that is current is not refused.
BeginRollbackAny ==
  /\ \E r \in Rel :
       /\ rec[r] = "success"
       /\ r \in images
       /\ Begins("rollback", r)
  /\ Goto("clear")
  /\ UNCHANGED releases

\* rollback: to another release that deployed and whose image is kept.
BeginRollback ==
  /\ \E r \in Rel \ {current} :
       /\ rec[r] = "success"
       /\ r \in images
       /\ Begins("rollback", r)
  /\ Goto("clear")
  /\ UNCHANGED releases

\* restart: a fresh container of the current release.
BeginRestart ==
  /\ current # None
  /\ rec[current] # "none"
  /\ current \in images
  /\ Begins("restart", current)
  /\ Goto("clear")
  /\ UNCHANGED releases

\* delete: out of the proxy first.
BeginRemove ==
  /\ Begins("remove", None)
  /\ Goto("switch")
  /\ UNCHANGED releases

-----------------------------------------------------------------------------
(* deploy: the image *)

\* The image is built, or pulled and tagged.  A build whose answer is lost
\* leaves its image behind with `built` still false.
Build ==
  /\ pc = "build"
  /\ \/ images' = images \union {rel} /\ built' = TRUE /\ Goto("clear")
     \/ UNCHANGED <<images, built>> /\ Goto("fail")
     \/ "docker" \in Faults /\ images' = images \union {rel} /\ UNCHANGED built /\ Goto("fail")
  /\ UNCHANGED <<containers, proxy, links, releases, op, rel, old, base, todo, ended, runs, setting>>

-----------------------------------------------------------------------------
(* activate *)

\* A container under the new one's name, from an earlier activation, goes.
Clear ==
  /\ pc = "clear"
  /\ DockerCall(Removed({New}), UNCHANGED containers,
                IF Strategy = "recreate" THEN "snapshot" ELSE "create", "fail")
  /\ UNCHANGED <<images, proxy, links, releases, run, todo, ended, runs, setting>>

\* recreate: the containers to stop now and to start again on failure.
Snapshot ==
  /\ pc = "snapshot"
  /\ \/ old' = Running \ {New} /\ todo' = Running \ {New} /\ Goto("stopOld")
     \/ "docker" \in Faults /\ Goto("fail") /\ UNCHANGED <<old, todo>>
  /\ UNCHANGED <<containers, images, proxy, links, releases, op, rel, built, base, ended, runs, setting>>

\* recreate: these stops are outside the try, so a failure undoes nothing.
StopOld ==
  /\ pc = "stopOld"
  /\ \/ \E n \in todo :
          /\ DockerCall(SetState(n, "exited"), UNCHANGED containers, "stopOld", "fail")
          /\ todo' = todo \ {n}
     \/ todo = {} /\ Goto("create") /\ UNCHANGED <<containers, todo>>
  /\ UNCHANGED <<images, proxy, links, releases, run, ended, runs, setting>>

\* rolling creates outside the try, recreate inside.
Create ==
  /\ pc = "create"
  /\ DockerCall(SetState(New, "created"), UNCHANGED containers, "start",
                IF Strategy = "recreate" THEN "undo" ELSE "fail")
  /\ UNCHANGED <<images, proxy, links, releases, run, todo, ended, runs, setting>>

Start ==
  /\ pc = "start"
  /\ DockerCall(SetState(New, "running"), UNCHANGED containers, "health", "undo")
  /\ UNCHANGED <<images, proxy, links, releases, run, todo, ended, runs, setting>>

\* waitHealthy: the app answers, or stops, or does not answer in time.
Health ==
  /\ pc = "health"
  /\ \/ cont[New] = "running"
        /\ healthy' = healthy \union {New}
        /\ Goto("join")
        /\ UNCHANGED <<cont, live>>
     \/ \E state \in {cont[New], "exited"} : SetState(New, state) /\ Goto("undo")
  /\ UNCHANGED <<images, proxy, links, releases, run, todo, ended, runs, setting>>

\* goLive: the proxy lock is taken and the container joins the live network.
Join ==
  /\ pc = "join"
  /\ DockerCall(live' = live \union {New} /\ UNCHANGED <<cont, healthy>>,
                UNCHANGED containers, "switch", "undo")
  /\ UNCHANGED <<images, proxy, links, releases, run, todo, ended, runs, setting>>

\* What the app's entry must say, and where a switch goes from here.
Target == IF op = "remove" THEN None ELSE PortOf[rel]
Switched == IF op = "remove" THEN "unlink" ELSE "mark1"
Refused == IF op = "remove" THEN "fail" ELSE "undo"

\* switchProxy: a Caddyfile that says the same already is left alone (only a
\* delete writes it anyway); another one is validated and renamed into place.
Switch ==
  /\ pc = "switch"
  /\ \/ op # "remove" /\ file = Target /\ Goto(Switched) /\ UNCHANGED proxy
     \/ /\ op = "remove" \/ file # Target
        /\ \/ file' = Target /\ prev' = file /\ Goto("reload") /\ UNCHANGED loaded
           \/ "docker" \in Faults /\ Goto(Refused) /\ UNCHANGED proxy
  /\ UNCHANGED <<containers, images, links, releases, run, todo, ended, runs, setting>>

\* The front loads the file, or refuses it and the file is put back, or its
\* answer is lost and the file stays whatever Caddy runs.
Reload ==
  /\ pc = "reload"
  /\ \/ loaded' = file /\ Goto(Switched) /\ UNCHANGED <<file, prev>>
     \/ "docker" \in Faults /\ file' = prev /\ Goto(Refused) /\ UNCHANGED <<loaded, prev>>
     \/ "reload" \in Faults /\ loaded' \in {loaded, file} /\ Goto(Refused) /\ UNCHANGED <<file, prev>>
  /\ UNCHANGED <<containers, images, links, releases, run, todo, ended, runs, setting>>

\* setCurrent: first the link `previous`, then `current`.
MarkPrevious ==
  /\ pc = "mark1"
  /\ \/ /\ previous' = IF current \in {None, rel} THEN previous ELSE current
        /\ Goto("mark2")
     \/ "fs" \in Faults /\ Goto("undo") /\ UNCHANGED previous
  /\ UNCHANGED <<containers, images, proxy, current, releases, run, todo, ended, runs, setting>>

MarkCurrent ==
  /\ pc = "mark2"
  /\ \/ current' = rel /\ Goto("list")
     \/ "fs" \in Faults /\ Goto("undo") /\ UNCHANGED current
  /\ UNCHANGED <<containers, images, proxy, previous, releases, run, todo, ended, runs, setting>>

\* Mutant: the undo does not remember what recreate stopped.
UndoForgets ==
  /\ pc = "undo"
  /\ Removed({New})
  /\ Goto("fail")
  /\ UNCHANGED <<images, proxy, links, releases, run, todo, ended, runs, setting>>

\* The new container goes; a failure to remove it is swallowed.
Undo ==
  /\ pc = "undo"
  /\ \/ Removed({New})
     \/ "docker" \in Faults /\ UNCHANGED containers
  /\ Goto(IF Strategy = "recreate" THEN "revive" ELSE "fail")
  /\ todo' = old
  /\ UNCHANGED <<images, proxy, links, releases, run, ended, runs, setting>>

\* recreate: what was stopped is started again; failures are only reported.
Revive ==
  /\ pc = "revive"
  /\ \/ \E n \in todo :
          /\ \/ SetState(n, "running")
             \/ "docker" \in Faults /\ UNCHANGED containers
          /\ todo' = todo \ {n}
          /\ Goto("revive")
     \/ todo = {} /\ Goto("fail") /\ UNCHANGED <<containers, todo>>
  /\ UNCHANGED <<images, proxy, links, releases, run, ended, runs, setting>>

\* Mutant: the new container is not left out of the others.
ListAll ==
  /\ pc = "list"
  /\ todo' = Present
  /\ Goto("retire")
  /\ UNCHANGED <<containers, images, proxy, links, releases, run, ended, runs, setting>>

\* The app's other containers: this listing is outside the try too.
List ==
  /\ pc = "list"
  /\ \/ todo' = Present \ {New} /\ Goto("retire")
     \/ "docker" \in Faults /\ Goto("fail") /\ UNCHANGED todo
  /\ UNCHANGED <<containers, images, proxy, links, releases, run, ended, runs, setting>>

\* They are stopped (rolling) and removed; every failure is only reported.
Retire ==
  /\ pc = "retire"
  /\ \E n \in todo :
       \/ /\ Strategy = "rolling" /\ cont[n] = "running"
          /\ SetState(n, "exited")
          /\ UNCHANGED todo
       \/ /\ Strategy = "recreate" \/ cont[n] # "running" \/ "docker" \in Faults
          /\ todo' = todo \ {n}
          /\ \/ Removed({n})
             \/ "docker" \in Faults /\ UNCHANGED containers
  /\ UNCHANGED <<images, proxy, links, releases, pc, run, ended, runs, setting>>

Retired ==
  /\ pc = "retire"
  /\ todo = {}
  /\ \/ op = "deploy" /\ Goto("record") /\ UNCHANGED <<run, todo, ended>>
     \/ op = "restart" /\ Goto("rename") /\ UNCHANGED <<run, todo, ended>>
     \/ op = "rollback" /\ End("success")
  /\ UNCHANGED <<containers, images, proxy, links, releases, runs, setting>>

\* restart: the new container takes the release's name, or keeps its own.
Rename ==
  /\ pc = "rename"
  /\ \/ /\ cont[Main(rel)] = "absent"
        /\ cont' = [cont EXCEPT ![Main(rel)] = cont[New], ![New] = "absent"]
        /\ live' = (live \ {New}) \union {Main(rel)}
        /\ healthy' = (healthy \ {New}) \union {Main(rel)}
     \/ /\ cont[Main(rel)] # "absent" \/ "docker" \in Faults
        /\ UNCHANGED containers
  /\ End("success")
  /\ UNCHANGED <<images, proxy, links, releases, runs, setting>>

-----------------------------------------------------------------------------
(* deploy: the end *)

Record ==
  /\ pc = "record"
  /\ \/ rec' = [rec EXCEPT ![rel] = "success"] /\ Goto("prune")
     \/ "fs" \in Faults /\ Goto("fail") /\ UNCHANGED rec
  /\ UNCHANGED <<containers, images, proxy, links, made, run, todo, ended, runs, setting>>

\* Mutant: only the newest `keep` folders count.
PruneCandidatesByAge == {r \in Folders : Cardinality({q \in Folders : q > r}) >= Keep}

\* Beyond the newest `keep` folders, but never current or previous.
PruneCandidates ==
  {r \in Folders \ {current, previous} : Cardinality({q \in Folders : q > r}) >= Keep}

\* prune, one release: its image (failures are only reported), its folder.
Prune ==
  /\ pc = "prune"
  /\ \E r \in PruneCandidates :
       /\ ImagesRemoved({r})
       /\ \/ rec' = [rec EXCEPT ![r] = "none"] /\ UNCHANGED <<pc, run, todo, ended>>
          \/ "fs" \in Faults /\ Goto("fail") /\ UNCHANGED <<rec, run, todo, ended>>
          \/ "crash" \in Faults /\ End("crashed") /\ UNCHANGED rec
  /\ UNCHANGED <<containers, proxy, links, made, runs, setting>>

\* prune, the rest: labelled images of releases that are not kept.
Orphans == IF ImageKind = "built" THEN images \ (Folders \union {current, previous}) ELSE {}

Sweep ==
  /\ pc = "prune"
  /\ PruneCandidates = {}
  /\ \/ ImagesRemoved(Orphans) /\ End("success")
     \/ "docker" \in Faults /\ Goto("fail") /\ UNCHANGED <<images, run, todo, ended>>
     \/ "crash" \in Faults /\ End("crashed") /\ \E some \in SUBSET (Orphans \ InUse) : images' = images \ some
  /\ UNCHANGED <<containers, proxy, links, releases, runs, setting>>

\* Mutant: the catch records a result nobody knows.
FailUnknown ==
  /\ pc = "fail"
  /\ rec' = IF op = "deploy" THEN [rec EXCEPT ![rel] = "error"] ELSE rec
  /\ End("failed")
  /\ UNCHANGED <<containers, images, proxy, links, made, runs, setting>>

\* deploy's catch records the failure; the other commands just report it.
Fail ==
  /\ pc = "fail"
  /\ \/ op # "deploy" /\ End("failed") /\ UNCHANGED rec
     \/ /\ op = "deploy"
        /\ rec' = [rec EXCEPT ![rel] = "failed"]
        /\ \/ built /\ Goto("dropImage") /\ UNCHANGED <<run, todo, ended>>
           \/ ~built /\ End("failed")
     \/ op = "deploy" /\ "fs" \in Faults /\ End("failed") /\ UNCHANGED rec
  /\ UNCHANGED <<containers, images, proxy, links, made, runs, setting>>

\* deploy's catch: the image of a failed release goes, unless it is in use.
DropImage ==
  /\ pc = "dropImage"
  /\ ImagesRemoved({rel})
  /\ End("failed")
  /\ UNCHANGED <<containers, proxy, links, releases, runs, setting>>

-----------------------------------------------------------------------------
(* delete, after its proxy switch *)

\* clearCurrent: the link `current`, then `previous`.
Unlink ==
  /\ pc = "unlink"
  /\ IF current # None
     THEN current' = None /\ UNCHANGED <<previous, pc>>
     ELSE previous' = None /\ Goto("empty") /\ UNCHANGED current
  /\ UNCHANGED <<containers, images, proxy, releases, run, todo, ended, runs, setting>>

Empty ==
  /\ pc = "empty"
  /\ \/ \E n \in Present : DockerCall(Removed({n}), UNCHANGED containers, "empty", "fail")
     \/ Present = {} /\ Goto("forget") /\ UNCHANGED containers
  /\ UNCHANGED <<images, proxy, links, releases, run, todo, ended, runs, setting>>

\* The images found by label, or by the tags the records name; the folders.
Forget ==
  /\ pc = "forget"
  /\ LET known == IF ImageKind = "built" THEN images ELSE images \intersect Folders
     IN \/ ImagesRemoved(known) /\ rec' = [r \in Rel |-> "none"] /\ End("success")
        \/ "fs" \in Faults /\ ImagesRemoved(known) /\ UNCHANGED rec /\ End("failed")
        \/ /\ "crash" \in Faults
           /\ \E some \in SUBSET (known \ InUse) : images' = images \ some
           /\ UNCHANGED rec
           /\ End("crashed")
  /\ UNCHANGED <<containers, proxy, links, made, runs, setting>>

-----------------------------------------------------------------------------
(* Around the run *)

\* The run's container is killed.
Crash ==
  /\ "crash" \in Faults
  /\ pc # "idle"
  /\ End("crashed")
  /\ UNCHANGED <<containers, images, proxy, links, releases, runs, setting>>

\* stop takes no lock: it stops the container liveContainer finds.
StopCommand ==
  /\ "stop" \in Ops
  /\ current # None
  /\ LET n == IF Main(current) \in Present THEN Main(current) ELSE Temp(current)
     IN cont[n] = "running" /\ SetState(n, "exited")
  /\ UNCHANGED <<images, proxy, links, releases, pc, run, todo, ended, runs, setting>>

\* Another app's switch, or `proxy apply`, writes this app's entry from its
\* `current`; it waits for the proxy lock.
OthersSwitch ==
  /\ "others" \in Ops
  /\ pc \notin {"switch", "reload", "mark1", "mark2", "unlink"}
  /\ file' = IF current # None /\ rec[current] # "none" THEN PortOf[current] ELSE None
  /\ prev' = file
  /\ \/ loaded' = file'
     \/ Faults \intersect {"reload", "crash"} # {} /\ UNCHANGED loaded
  /\ UNCHANGED <<containers, images, links, releases, pc, run, todo, ended, runs, setting>>

Begin == BeginDeploy \/ BeginRollback \/ BeginRestart \/ BeginRemove

Activate ==
  \/ Clear \/ Snapshot \/ StopOld \/ Create \/ Start \/ Health
  \/ Join \/ Switch \/ Reload \/ MarkPrevious \/ MarkCurrent
  \/ Undo \/ Revive
  \/ List \/ Retire \/ Retired \/ Rename

Deploy == Build \/ Record \/ Prune \/ Sweep \/ Fail \/ DropImage

Remove == Unlink \/ Empty \/ Forget

Step == Activate \/ Deploy \/ Remove

Next == Begin \/ Step \/ Crash \/ StopCommand \/ OthersSwitch

Spec == Init /\ [][Next]_vars

-----------------------------------------------------------------------------
(* What the code's comments promise *)

\* A run that reports success leaves the app served (ops.ts deploy, restart).
SuccessServes == ended = "success" /\ current # None => Serving

\* A run that reports failure leaves the release that was current, and it
\* serves: undone in rolling, started again in recreate (ops.ts:287-296, 734).
FailureRestores ==
  ended = "failed" => current = base /\ (current # None => Serving)

\* The releases that may still be needed, the current one and the one before
\* it, keep their image and their folder (ops.ts:388-389).
KeptReleases ==
  \A r \in {current, previous} \ {None} : r \in images /\ rec[r] # "none"

-----------------------------------------------------------------------------
(* Properties: what of it holds, and under which faults *)

\* Rolling (ops.ts:274-288), with every fault and a kill at any step: once an
\* app has a current release, that release has a healthy, running container
\* on the live network at every step of every later deploy and rollback.
CurrentUp ==
  Strategy = "rolling" /\ Ops \subseteq {"deploy", "rollback", "others"} /\ current # None =>
    Main(current) \in live \intersect healthy \intersect Running

Steady ==
  /\ Strategy = "rolling"
  /\ "stop" \notin Ops
  /\ \/ Faults = {}
     \/ Ops \subseteq {"deploy", "rollback", "others"} /\ \A r, q \in Rel : PortOf[r] = PortOf[q]

\* Rolling (ops.ts:274): a served app stays served, through every fault when
\* no deploy changes the port, and through restarts and port changes when
\* nothing fails but the new release itself.
SteadyService == [][Steady /\ current # None /\ Serving /\ op # "remove" => Serving']_vars

\* Both strategies, port changes included (ops.ts:734, 292-296): as long as
\* only the app itself fails and nobody stops it, success serves and failure
\* changes nothing; in recreate the stopped release is brought back.
CleanOutcome == Faults = {} /\ "stop" \notin Ops => SuccessServes /\ FailureRestores

\* No order of deploys, rollbacks, failures and kills prunes what a rollback
\* or a restart needs, when images are built here (ops.ts:394, 904).
KeptBuilt == ImageKind = "built" => KeptReleases

=============================================================================
