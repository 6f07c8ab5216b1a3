# BastionSSH: a TLA+ verification project

BastionSSH is a self-hosted web application through which a team reaches its servers: terminals
and files over SSH, Docker and Kubernetes management, scheduled commands, alerts, and deployments
run by a helper (`bastionctl`) on each server. This directory holds TLA+ models of the parts of it
whose correctness depends on order: processes killed between two steps, answers that are lost,
requests that meet in the middle of an `await`, timers. The models are checked with TLC on small
instances, and the properties that matter most are proved with TLAPS for every value of the
constants.

`PROJECT.json` holds the machine-readable side: components, runs, the source lines of every
definition, hazards, findings and theorems. Paths in it begin with `src/`, the repository's root;
paths in this text and in module comments are relative to the repository, or to
`apps/server/src/` (server) and `packages/bastionctl/src/` (bastionctl) where that is clear.

Contents: 1 Inventory, 2 What is modelled, 3 Runs, 4 Bounds, 5 Fairness and the environment,
6 Proofs, 7 Findings, 8 What is not modelled, 9 Plan, 10 Running it.

## 1 Inventory

### The processes

| process | code | state it keeps | runs concurrently with |
| --- | --- | --- | --- |
| server | `apps/server/src` | SQLite database, vault keys, in-memory maps of live things (terminals, pooled connections, agents, watch caches, rotations) | itself at every `await`; the worker; bastionctl runs it starts |
| worker | `apps/server/src/worker` | queues in Redis, the same SQLite database | the server |
| agent | `packages/agent/src` | one WebSocket to the server, streams to local ports | the server |
| bastionctl | `packages/bastionctl/src` | files under its root on the deployment host, Docker containers, images, networks | other bastionctl runs, the Caddy proxy, Docker |
| web interface | `apps/web/src` | what it shows | everything, through the API |

The server and the worker are Node processes: a stretch of code without `await` runs whole, and a
SQLite statement or transaction is synchronous. So the unit of interleaving is the stretch between
two awaits. Each bastionctl run is a container of its own: runs share only the file system and
Docker, and the unit of interleaving is one system call or Docker request.

### The components

For each component: its state, its operations, what it meets, and what makes it correct.
Those marked (modelled) have a module; section 8 gives the reason for each of the others.

**Deployment on a host (bastionctl)**

- **Lock files** (modelled) (`lock.ts`). State: a file per lock (`deploy.lock` of an app, `build.lock`,
  `proxy.lock`, `setup.lock`) whose body names its holder. Operations: acquire, wait, judge stale
  and remove, release. Hard: every step is a separate system call of a separate process, and any
  holder may be killed. Correct when two runs never hold one lock and a dead run's lock is taken
  over.
- **Deployment engine** (modelled) (`ops.ts`, `releases.ts`, `proxy.ts`, `docker.ts`). State: release folders
  with their records, the links `current` and `previous`, containers, images, the Caddyfile on
  disk, the config Caddy runs. Operations: deploy, rollback, restart, stop, delete, prune, and the
  proxy switches of other apps. Hard: about twenty steps with effects outside the process, each of
  which may fail, take effect without an answer, or be the last one before a kill. Correct when a
  served app stays served, success and failure mean what they say, nothing needed is pruned, and
  a run leaves nothing of earlier ones behind.
- **Proxy upgrades and the front** (`proxy-upgrade.ts`, `front.ts`). State: Caddy generations, the
  proxy container and the one renamed aside. Hard: kills between rename, stop, create and start.
- **Service backups** (`backups.ts`). State: dump files, under the app's lock.

**Access and sessions (server)**

- **Key rotation** (modelled) (`ssh/key-rotation.ts`). State: rotation records, key rows, each server's key,
  and each host's `authorized_keys`. Operations: request one or many, the six steps of a rotation,
  two kinds of rollback, recovery at start. Meets: server edits, key deletions, other rotations of
  the same host account. Hard: remote scripts that go on when nobody waits for them any more.
  Correct when no server is left on a key its host refuses or the app refuses.
- **Time-bound access** (modelled) (`auth/access-grants.ts`, `auth/access/*`, `api/routes/access-requests.ts`,
  `team.ts`, `team-access.ts`). State: grants with expiry, role memberships, requests. Operations:
  ask, withdraw, deny, approve, edit a member's access in five ways, suspend, remove, the sweep of
  each minute. Meets: terminals, file and Docker connections, which a change must close. Correct
  when what a member has open is what they may reach, no approval shortens access, and nothing
  that is still allowed is cut.
- **Terminal sessions** (modelled) (`ssh/broker.ts`, `api/routes/ssh-sessions.ts`). State: the map of live
  shells with their socket and reap timer. Operations: create, attach, detach, reap, close. Hard:
  authorisation is checked before awaits and the session is registered after them.
- **Delegation** (`auth/access/authorize.ts`, `grants.ts`, `levels.ts`). Who may give what to whom.
- **Sign-in protection** (`auth/login-security.ts`, `session.ts`, `token.ts`, `backup-codes.ts`).
  Failed attempts counted before the password is checked; one-time codes; session revocation.

**Connections (server)**

- **Connection pools** (modelled, but for FTP's) (`ssh/sftp.ts`, `docker/pool.ts`,
  `kube/ssh-pool.ts`, `ftp/client.ts`). State: a promise of a connection per key, leases, idle timers.
  Operations: acquire, release, the client's events, time-outs, evictions. Hard: evict while
  connecting, a connection that closes late. Correct when an eviction reaches every connection,
  what is handed out was verified against the row as it is (not so after a cloud sync, section 7), an
  idle connection closes and whoever waits is answered.
- **Host keys** (modelled) (`ssh/host-keys.ts`, `api/routes/server-host-keys.ts`). State: the trusted
  fingerprint and the last mismatch. Operations: check in a key exchange, pin, accept, forget.
  Hard: two first connections, an address edited while connecting. Correct when no connection that
  is handed out presented another key than the one trusted now.
- **Agent tunnels** (modelled) (`agents/hub.ts`, `agents/tunnel-socket.ts`, `packages/agent`). State:
  streams by number on both ends, the live WebSocket. Hard: replaced connections, numbers that
  start again, opens that time out, revocation. Correct when each stream is a pair of pipes, both
  ends end, an honest agent is never cut off and a revoked one always is.
- **Kubernetes watch cache** (modelled) (`kube/cache.ts`, `api/routes/kube-views.ts`). State: scopes
  with viewers and objects. Operations: list, watch, back-off, stop, cap, subscribe, stream, read.
  Hard: idle stops, evictions and new viewers around a list and a watch; versions that are gone.
  Correct when a scope holds what its version says and a live view becomes current or ends.

**Background work (server and worker)**

- **Audit log and forwarding** (modelled) (`audit/*`, `api/routes/audit.ts`). State: the log, one
  forwarder's row with its cursor, backoff in memory. Operations: insert, prune, save, remove, sweep.
  Hard: rows that become visible late, a target swapped while a batch is sent, answers that are
  lost. Correct when every row is accepted by a target at least once.
- **Cloud sync** (`cloud/*`; the address it writes is modelled in `ServerPool`): a plan computed from a list that took long to come.
- **Alerts** (`monitoring/alerts.ts`): conditions opened and resolved by several writers.
- **Cron jobs** (modelled) (`worker/*`, `api/routes/cron-jobs.ts`). State: the job's row in SQLite, its
  next occurrence in Redis. Operations: create, edit, delete, run now, the worker's handling of
  an entry, re-queueing at start. Hard: two processes that remove and add the same entries; kills.
  Correct when an enabled job always has its next run queued and no occurrence runs twice.
- **Server backups** (`backup/*`): the server's lock and a restore that must not meet it.
- **Build queue** (`build/queue.ts`): one build, a bounded line, cancellation.
- **Recordings** (`recordings/*`): files written while a shell runs, closed after a crash.

**The rest**: Docker, Kubernetes and file management, AI assistant, archives, object storage, DNS,
diagnostics, notifications, single sign-on, vault, database, web interface, shared types.

### How the modelled parts meet

A deployment takes the app's lock (`DeployLock`) and runs the engine inside it (`DeployEngine`);
the engine's switch takes the proxy lock, inside which other apps rewrite the same Caddyfile.
A terminal is opened with the key the server record points at, which a rotation (`KeyRotation`)
may be replacing, and lives as long as its member reaches the server (`LiveAccess`). Composition
is by assumption: `DeployEngine` lets one run in at a time, which is what `DeployLock` is checked
for; where the lock fails (finding `lock_four`) the engine's properties are not claimed.
A revocation (`LiveAccess`) evicts the pools (`ServerPool`, whose `Revoke` is that call); a pool's
connection may run through a tunnel (`AgentTunnel`), which ends the socket under it, and carries
the requests of the watch cache (`KubeCache`): each sees the other as a connection that may close
or fail at any moment, which is what `Closes`, `Breaks` and `ListFails` are. Every component writes
audit rows (`AuditForward`'s `Begin`).

## 2 What is modelled

Nine specifications, each with an MC module of instances, two abstract ones that they implement
(`AuditDelivery`, `TunnelPipe`), and modules of proofs for each component (that of `DeployLock` is in
`DeployEngineProofs`).

### `DeployLock`: `packages/bastionctl/src/lock.ts`

One lock file and the runs that want it. `lockFile` is the run whose body the file holds: a body names
holder, container, pid and start time, so no two runs write the same one. `at` is the place of a
run in `acquireLock`; `raw` and `held` are the two reads of the file that the code makes
(`readRaw` for the removal, `readLock` for the judgement); `aside` is what a removal has renamed.

| action | code |
| --- | --- |
| `CreateExclusive` | `createExclusive`: a temporary file linked into place, or EEXIST |
| `ReadRaw`, `ReadHeld` | the two reads of the loop, on a file that may change in between |
| `Judge` | `isStale`: unreadable, too old, or `holderGone`; Docker not answering counts as alive |
| `MoveAside`, `PutBack`, `CleanUp` | `removeStale`: rename, compare, link back, remove |
| `Retry` | `waitForLock`: a refused run sleeps and asks again |
| `GiveUp` | a refused run ends: nothing waits for the lock, or the deadline has passed |
| `ReadOwn`, `UnlinkLock` | the release: compare with the own body, unlink |
| `Killed`, `Overrun` | the run's container is killed; `STALE_AFTER_MS` passes |

Its names differ from those of `DeployEngine`, so that one module of proofs extends both.

### `DeployEngine`: `ops.ts`, `releases.ts`, `proxy.ts`, `docker.ts`

One app, its releases in the order they are made, one run at a time. A container is a pair of a
release and `"main"` or `"next"`, the temporary name a restart uses. The proxy is three ports: the
Caddyfile's (`file`), the one Caddy loaded (`loaded`) and `Caddyfile.prev`. `Serving` is what a
visitor sees: the port Caddy loaded leads to a container on the live network that is running and
healthy (external: Docker's DNS answers with every container that carries the alias, so a stale or
unhealthy one among them counts as not serving).

Every Docker call goes through `DockerCall`: it takes effect and answers, takes effect and the
answer is lost, or fails without effect; the code continues at one place or at another. `activate`
is the actions from `Clear` to `Rename`, in the order of the code, with `Undo` and `Revive` for its
catch; `Build`, `Record`, `Prune`, `Sweep`, `Fail` and `DropImage` are `deploy`'s own; `Unlink`,
`Empty` and `Forget` are `remove`'s. `Switch` and `Reload` are `switchProxy`: the text is generated,
compared with the file on disk when the caller asks for that, renamed into place, loaded, and put
back when Caddy refuses it. `MarkPrevious` and `MarkCurrent` are the two links of `setCurrent`.

`setting` is what stays fixed over a behaviour: strategy, image kind, the port each release is
recorded with, which commands are run, and which faults may strike (`docker`, `reload`, `fs`,
`crash`). The app itself may always fail its health check. Settings are how a property can say
which faults it survives.

### `KeyRotation`: `ssh/key-rotation.ts`, `api/routes/servers.ts`, `api/routes/ssh-keys.ts`

Rotations are numbered, and rotation `r` makes key `r`; key 0 is the one all servers begin with.
`assigned` is each server's key, `lines` each host account's `authorized_keys`. The steps are those
of `performRotation`: install the new key with the old one, verify by a login, switch the record,
remove the old line with the new key, and on failure either `Undo` (before the switch) or
`CheckOld`, `Revert`, `Undo` (after it).

A script is a separate actor: `RunInstall`, `RunRemove` and `RunRename` are steps of the host,
which runs what it was sent even if the rotation has stopped waiting (`GiveUp`, fault `late`) or
the process has died. The removal edits a copy and renames it (`RunRemove` then `RunRename`), as the
shell script does. `Restart` is a crash and `markInterruptedRotations`. `Reassign` and `DeleteKey`
are the two routes that touch the same rows, with the checks they make.

### `LiveAccess`: access grants, requests, edits, the sweep, and terminals

A grant is the minutes it has left: `Forever`, 1 to `MaxMinutes`, `Expired` (past its expiry, row
still there) or `NoRow`. `Reach(m)` is `resolveAccess` and `accessibleIds` for this part: personal
grants, and the custom role's, of an active member. A session is `opening` while the
request awaits the vault, then `open` with or without a socket; `reap` is its timer.

| action | code |
| --- | --- |
| `Ask`, `Withdraw`, `Deny`, `Approve` | `access-requests.ts`, through the conditional update `decide` and `extendGrants` |
| `ReplaceGrants`, `SaveList`, `GiveRole`, `TakeRole`, `OtherRole`, `ChangeRole` | the six ways an admin edits access; each goes through `Edit`, which is snapshot, write, `revokeAfterChange` |
| `Suspend`, `Reactivate`, `RemoveMember`, `SignOut` | `team.ts`, with `cancelPendingAccessRequests` |
| `Sweep` | `sweepExpiredAccess`: expired rows deleted, requests cancelled, terminals closed per member |
| `OpenBegin`, `Register`, `OpenFails` | the terminal route up to its await, and after it |
| `Attach`, `Detach`, `Reap`, `Ends` | `broker.attach`, the socket's close, `scheduleReap`, the shell's own end |
| `Tick` | a minute passes |

`Terminal` has one history field, `passed`: an admin's edit met an expired row of the member before
the sweep did while the terminal was open. It decides nothing in the model; `AttachedInReach` uses
it to exclude exactly the case of the finding `access_overstay`.

### `AuditForward`, and `AuditDelivery`: `audit/index.ts`, `audit/retention.ts`, `audit/forward.ts`, `api/routes/audit.ts`

One organization. A row is stamped when its insert begins and is in the log when it commits: in
between it waits for SQLite's write lock, at most `Delay`. `rowid` is what a table without
AUTOINCREMENT gives, so a pruned rowid may come again. `fwd` is the forwarder's row; `save` numbers
the configurations, since every save encrypts anew and the code compares the encrypted text.

| action | code |
| --- | --- |
| `Begin`, `Commit`, `InsertFails` | `audit` and its siblings: values made, insert committed or given up |
| `Prune` | `pruneOrgAuditLog` |
| `BeginSave`, `SaveNew`, `SaveChange`, `SaveRefused`, `Remove` | `PUT` and `DELETE /forwarding`: up to the awaits, and after them |
| `StartSweep` (with `NextBatch`) | `tick`, `forwardOrg` up to the delivery |
| `TargetTakes`, `Delivered`, `Retry`, `GiveUp` | one attempt reaching the target, its answer, the next attempt, the last one failed |
| `Restart`, `Tick` | the process dies and starts again; time |

`due` and `got` are history: rows begun since forwarding was set up, and what each configuration
has accepted. `AuditDelivery` is the promise at the head of `forward.ts` without cursors, clocks and
batches: a due row is owed from its commit until the target in force has accepted it, it is pruned
or forwarding is removed. The mapping: a row is owed while it lies after the cursor. The promise is
made for targets that confirm (webhooks); for syslog see section 7.

### `ServerPool`: `docker/pool.ts`, `ssh/sftp.ts`, `kube/ssh-pool.ts`, `ssh/host-keys.ts` and the routes that change a server

One key of one of the three pools: `kind` says which, and the operators `Dropped`, `Forgotten`,
`Ended`, `Rearms`, `RejectsOnClose` and `Asks` are where they differ. `pool` is the connection whose
promise the map holds; a connection has a phase (`vault`, `opening`, `verified`, `ready`, `ended`,
`closed`) and the state of its promise, `doomed` when an eviction waits for it to be ready, and
`moved`, as history, when a cloud sync has changed the row's address since its key was checked.
`VerifiedCurrent` demands the row's address of every other connection that is handed out.

| action | code |
| --- | --- |
| `Enter`, `AcquirePooled`, `AcquireNew`, `VaultAnswers` | a request's access check and its row, then `acquire` and `openConnection` after the await of the vault |
| `CheckHostKey` | `checkHostKey` inside a first or later key exchange: trusted on first use, matched, refused with a mismatch recorded, or refused because the server has another address or route by now |
| `Ready`, `Fails`, `Breaks`, `Closes`, `IdleFires`, `Release` | the client's events, the connect and the idle timer, a lease's end |
| `Revoke`, `Grant` | `revokeLiveAccess` for this user's pools, access given again |
| `PinKey`, `AcceptKey`, `ForgetKey`, `BeginEdit`, `FinishEdit`, `DeleteServer` | the routes on a server and its key, each with its eviction; an edit computes its update before it awaits the vault |
| `CloudSync` | `applyPlan` for a server that exists: the provider's address is written, nothing is evicted, the pin stays |
| `OthersCheck` | another pool or process trusts or refuses a key of this server |

### `AgentTunnel`, and `TunnelPipe`: `agents/hub.ts`, `agents/tunnel-socket.ts`, `packages/agent`, `api/routes/agents.ts`

One agent and its WebSockets, one after another, each a FIFO of frames per direction that is lost
with the network or emptied when its reader closes. `app[c]` and `agent[c]` are the two ends of
WebSocket `c`, `live` the hub's entry, `sock[s]` and `local[s]` the app's and the agent's socket of
stream `s`. A frame carries the id the code sends, and, as history, the stream it was made for (`own`)
and the number of its chunk, so that misdelivery can be seen.

| action | code |
| --- | --- |
| `Start`, `OpenTimeout`, `AppWrites`, `AppEnds` | `startStream`, its timer, and the socket's `_write`, `_final`, `_destroy` |
| `Ignored`, `Opened`, `Received`, `RemoteEnds`, `ProtocolViolation` | the branches of the hub's `onMessage` |
| `AgentOpens`, `AgentData`, `AgentCloses` | the agent's `onFrame` |
| `LocalConnects`, `LocalSends`, `LocalDrained`, `LocalEnds` | events of the agent's local socket |
| `AgentConnects`, `Accept`, `AppGone`, `AgentNotices`, `AgentLeaves`, `Lose` | a connection's life: token checked, row read again, replaced, closed, idle, restarted, lost |
| `Revoke` | the route: row, then `disconnectAgent` |
| `Misbehaves` | an agent that is not this program (a protocol violation must be possible) |

`TunnelPipe` is what ssh2 and the SSH server at the far end rely on: each end reads what the other
end of the same stream wrote, in order and without a gap, and an end that is gone stays gone. The
property `Pipes` is the refinement, for an honest agent.

### `KubeCache`: `kube/cache.ts`, `api/routes/kube-views.ts`

One cluster whose API server goes through given collections per resource (`States`), the version
of a collection being its index. `scope[i]` is a scope from its start to its stop, `registry` which
scope is under a key and a resource; the key contains the version of the cluster's row. `viewer[v]`
is a live feed or a one-off read from its request to its end.

| action | code |
| --- | --- |
| `ListOk`, `ListFails`, `Event`, `TooOld`, `Breaks`, `Wakes`, `IdleStops` | the loop `run`, `relist`, the watch's events, 410, back-off, the idle timer |
| `Holds`, `Victims`, `Stopped`, `Heard` | `put`/`remove` and `enforceCap`, `stopScope`, `emit`, in one step as in the code |
| `Asks`, `Subscribes` | a request's reading of the cluster, the await of the credential, `subscribeKube` per resource |
| `FeedOpens`, `FeedRefused`, `Flush`, `FeedLeaves`, `FeedEnds`, `ReadAnswers` | the stream route and `snapshotKube` |
| `Edit` | an edit of the cluster and `dropClusterCache` |
| `Change`, `Compact` | the API server (external) |

A change of a collection is one event; a list may be of any version the API server still keeps; a
browser that hears `ready` or `changed` reads at that moment.

### `CronRuns`: `worker/index.ts`, `worker/scheduler.ts`, `worker/processors/cron.ts`, `api/routes/cron-jobs.ts`

One job. `entry[o]` is the queue's entry of the occurrence at time `o`, under the id the code gives it
(job and time), 0 for a manual run; a finished entry keeps its id, which is what makes a second
`add` of the same occurrence a no-op. The server and the worker are processes of their own
(`index.ts:40`); the server's requests go one after another, because they share a Redis connection.

| action | code |
| --- | --- |
| `Create`, `Patch`, `Delete`, `RunNow` | the routes, up to their first call of the queue |
| `List`, `Remove`, `Schedule` | `unscheduleCronJob` in its two calls and `scheduleCronJob`, for a request |
| `SyncList`, `SyncRemove`, `SyncRead`, `SyncAdd` | the same for `syncCronSchedules`, when a worker starts |
| `Promote`, `Take`, `Run`, `Read`, `Finish`, `Unstall` | BullMQ's part and `processCronQueueJob`: run the command, read the row, add the next |
| `KillServer`, `KillWorker`, `Start`, `Flush`, `Tick` | kills, a worker's start, lost queue data, time |

`owed` and `forgot` are history: the last call that was to queue a run was lost, or was not made
because a removal was refused after it had removed something, and occurrences whose id the queue lost
after they ran. The properties exclude exactly these. `NextQueued` also says with which clock
(`Punctual`): either BullMQ's is not ahead of the worker's, or nothing else goes wrong.

## 3 Runs

| run | shows |
| --- | --- |
| `lock_three` | three runs, any killed anywhere, one overstaying, two waiting: mutual exclusion, at most one copy of a body in play (`SingleCopy`), dead locks are taken over as long as anybody goes on asking |
| `lock_four` | violation: with a fourth run mutual exclusion fails |
| `engine_all` | six settings of one app, up to four commands: `CurrentUp`, `SteadyService`, `CleanOutcome`, `KeptBuilt` |
| `rotation_all` | eight settings of two servers and up to three rotations: nobody locked out, no retired key in use, records true, files exact, every rotation ends |
| `access_all` | requests, edits, suspensions, expiry and a terminal: `AttachedInReach`, `PendingOnlyActive`, `NeverShortened`, `KeepsWhatIsReached`, `UnreachedEnds` |
| `access_overstay` | violation: an edit between a grant's expiry and the sweep |
| `forward_all` | the log and the forwarder implement `AuditDelivery` (`AtLeastOnce`); with forwarding left on nothing stays owed (`EverythingSent`) |
| `pool_all` | the three pools: `EvictionReachesAll`, `VerifiedCurrent`, idle connections close, requests are answered |
| `pool_sftp` | violation: SFTP's pool loses a live connection to a late close |
| `tunnel_all` | `RevokedCut`, `HonestAgentKept`, `Pipes` (refinement of `TunnelPipe`), and both ends of a stream end |
| `cache_all` | scopes hold what their version says and stay under the cap (`CopyTrue`); a live view becomes current or ends (`FeedCurrent`) |
| `cron_all` | an enabled job's next run is queued (`NextQueued`), no occurrence runs twice (`OncePerOccurrence`) |

A promise that a comment makes without conditions and that fails under some fault is stated as the
comment has it, for the run that refutes it, and with the conditions under which it holds, for the
run that checks it: `AttachedInReach` is `OutlivesUntilSweep` without `passed`, `EvictionReachesAll` is
`SftpEvictionReachesAll` for the other pools. In the same way `SteadyService` speaks of settings
without kills and disk errors (`Steady`), and `NeverLockedOut` of one server per account or one
rotation at a time, without late scripts and server edits; section 7 says what happens outside.

For each property of a passing run, `PROJECT.json` names a mutant: a definition of the module
changed as a plausible bug would (a comparison dropped, a list taken too early, a request not
cancelled), kept beside the original with a comment "Mutant". The run of that property alone,
with the mutant in place, ends in a violation.

## 4 Bounds

Every bound is a constant and appears in a guard or a quantifier; nothing is cut off by a state
constraint.

- `lock_three`: 3 runs. A wrong removal takes a holder that died, a judge that is slow and a run that
  took over; that is three. `lock_four` adds the run that profits from it. `Overrunners` is one run:
  ageing makes a lock anybody's, and `MutualExclusion` speaks only of locks that are not aged.
- `engine_all`: `MaxRel` 3, `Keep` 1, `MaxRuns` 4. Three releases are current, previous and one to
  be pruned; with `Keep` 1 age alone would prune `previous` when a rollback has moved `current`
  back. Four runs are: two to get a current and a previous one, one to be killed, one to work on
  what it left. The settings are chosen so that each fault, command, strategy, image kind and a
  port change meets the others it could matter to, without the full product.
- `rotation_all`: 2 servers, 2 accounts, `MaxRot` 3. Two servers are enough to share an account
  or not, and to overlap; the third rotation is the one after a rollback or a completed one.
- `access_all`: 1 member, 2 servers, 1 session, 1 request, `MaxMinutes` 2. Members meet only in
  loops over members, where each is handled from their own rows, and the role's server list, which
  `ChangeRole` changes for its holders one by one; sessions of one member are likewise
  closed one by one. Two servers separate what is kept from what is lost; two minutes separate a
  grant that expires at the next tick from one that does not. The proofs cover every number of
  each.
- `forward_all`: 2 rows, 2 saves, 2 requests at once, a clock up to 2, `Settle` and `Delay` 1,
  `BatchSize` 1, 2 batches a tick, 2 attempts, back-off 1 then 2. Two rows are one that commits late
  and one that overtakes it; with `BatchSize` 1 rows of one stamp are split over batches. The proof
  covers every size.
- `pool_all`: 2 requests, 2 connections, 2 hosts, 2 keys, one change of the server. An old and a new
  connection under one key is the case that matters. A sync counts as the change; the proofs
  cover every mix of them. With two changes (3,164,910 states) the
  invariants hold too, and with syncs at any time beside one change (894,470) every property, beyond the
  time of a routine run.
- `tunnel_all`: 2 streams, 2 WebSockets, limit 1, one chunk per end, one fault. Two streams share an
  id over two connections, or follow one another within the limit. With limit 2 (2,548,213 states)
  the properties hold too.
- `cache_all`: 2 resources (one of which changes), one feed, one read, 4 scopes, cap 3, one edit, one
  fault. The change takes the cluster from three objects to four, over the cap; four scopes are the
  two of a view before and after an edit, or after a drop.
- `cron_all`: two schedules that share some times, a clock up to 3, 2 edits, 1 fault. An edit moves a
  job between times both have and times one has; two edits are one that meets a run and one that
  meets the repair. A clock that runs ahead comes in a setting without edits: an occurrence that
  fired early has its id used when an edit computes it again (section 7).

## 5 Fairness and the environment

Safety is checked under `Spec`, without fairness. Liveness uses:

- `DeployLock`: a run that is not killed continues (`WF` on its steps: `acquireLock` has no
  unbounded wait, and a refused run asks again or ends). A dead lock may stay only when every run has
  ended, given up or been killed, or has not asked yet; a waiter between two tries counts as one that
  asks. `SF` on a positive judgement: `waitForLock` asks again and again, and Docker,
  which may fail to answer once, does not fail for ever.
- `KeyRotation`: `WF` on the rotations as a whole and on the hosts as a whole: `execOnServer` ends
  after its limit, and a host runs the script it was sent. No fairness for requests, edits, restarts.
- `LiveAccess`: `WF` on `Tick`, the sweep, the reap timer and the end of an await: timers fire and
  awaits settle. No fairness for anything a person does.
- `AuditForward`: `WF` on an insert's end and on time; `SF` on `StartSweep`, `TargetTakes` and
  `Delivered`: the interval fires for ever, restarts come between but not always, and a target that
  is asked again and again answers in the end. None for the owner.
- `ServerPool`: `WF` on `VaultAnswers`, `Fails` (the connect timer) and `IdleFires`. That a
  connection becomes ready, breaks or closes is assumed of nobody, so requests are answered by
  the time-out if by nothing else.
- `AgentTunnel`: `WF` on `OpenTimeout`, `LocalDrained` (five seconds), frames that arrive and are
  read, and `AppGone`/`AgentNotices`: the hub's ping loop, the agent's idle timer and the close
  time-out of a WebSocket notice a connection that is gone.
- `KubeCache`: `WF` on the loop of each scope (lists answer, events arrive, sleeps end) and on each
  feed's own steps. The number of faults is bounded; failures that repeat for ever are outside the
  property, as a view of an API server that never answers is not current.
- `DeployEngine` and `CronRuns` state safety only.

Assumptions about the environment: a Node stretch without `await` and a SQLite transaction are
atomic; link, rename and unlink on one file system are atomic; container host names are unique;
Docker answers within its limit or the call counts as failed; sshd accepts exactly the keys in the
file at the moment of the login; a WebSocket delivers in order or not at all; BullMQ adds nothing under an id it still has, gives an entry to one worker at a time,
and gives it again once when its lock runs out; an insert waits for the lock no longer than the
settle time (`ForwardConstants`: 5 seconds against 15 in the code); clocks do not go backwards.

`CHECK_DEADLOCK FALSE` is set for every module but `LiveAccess`: a system whose runs, streams,
connections or requests have all ended, bounded as they are, really stops.

## 6 Proofs

All theorems are of the form `Spec => []Inv` or `Spec => [][A]_vars` (a refinement is one too: the
abstract initial states, and `[][Next]_vars` of the abstract module), for all values of the constants that the modules' named assumptions allow (`LockConstants`, `EngineConstants`,
`RotationConstants`, `AccessConstants`, `ForwardConstants`, `PoolAssumption`, `TunnelAssumption`,
`CacheAssumption`, `CronConstants`, which TLC evaluates in every run).

**The lock** (`DeployLock`, at the end of `DeployEngineProofs`). `LockTypeCorrect`, and `OneCopy`, that
`SingleCopy` holds for any number of runs.
`SingleCopy` is inductive together with the types: its first conjunct (the body in the file is of a
run that has got the lock) is what makes the second survive a `CreateExclusive`. `ExclusiveForThree`
is `MutualExclusion` for any set of at most three runs. Two runs are in the section only after a
removal has taken the file from one that lives. `Judged`: a removal that was decided on has read the
body of a run that is dead. `Covered`: if a run is in its section and the file is not its own, one
other run is the removal that has its body aside, or died with it, and a third, dead, is the one
whose body that removal had judged. So for a second owner a fourth run is needed, and with four
there is one (`lock_four`, section 7).

**`DeployEngineProofs`**. `Sound` is `Shape`, the types and which command can be at which step
(`World`, `Placed`, `Held`), with `Filed`, that the links name releases which have folders, that a
deploy is of the newest release, and that past the switch the run's release is current. On it
rest two strengthenings. `UpInv` (rolling, releases only) says, besides `CurrentUp`: until `current`
moves, the run's release is not the current one, so nothing it removes is what serves; its
container is running and healthy from the join on and on the live network from the switch on; and
it is not among those to be retired. That is exactly what the step `MarkCurrent` needs.
`KeptInv` (images built here) says, besides `KeptBuilt`: every container's release has its image,
which is why Docker refuses to remove the image of a release that is coming up; the container of
the coming release is present; and a deploy's release is neither link before it is marked.
`CleanOutcome` (while only the app itself fails, and nobody stops it: after `app stop` a failed deploy
has nothing running to go back to) is read off `Undamaged`, for each step of each command: the result
and what a failure leaves current (`Ledger`), which Caddyfile is on disk and which is loaded
(`Entries`), how far the new container is (`Newcomer`), and that the current release answers, except
while recreate has it stopped, when it is in `old`, to be revived (`Stands`). `SteadyService` is an
action property: with faults, a reload changes what serves, so the entry must be the one the run
wants (`Aimed`), and then what serves after it is up by `CurrentUp`; without faults it follows from
`Stands`. Theorems: `SoundAlways`, `TypeCorrect`, `CurrentStaysUp`, `BuiltReleasesKept`, `CleanRuns`,
`ServedThroughout`.

**`KeyRotationProofs`**. `Sound` is the types, that a rotation is at a step exactly while its record
says `running` (`InStep`), and `OnePerServer`. `Fresh` says that a rotation's own key has no row
before its switch, so nothing else can name it. `RetiredInv`, for rotations one after another: no
server and no rotation under way has to do with a retired key (`Current`). `AccessInv` is the
strengthening of `NeverLockedOut`, four facts that need each other: a script is in flight only
while its rotation waits for it, and an edited copy is still the file without one line
(`Scripts`); the keys in use at a server are the first one or of its own rotations (`Origins`); where a
rotation is tells which key its server is on, which line is known to be in the file, and, at the
removal, that no other server needs the line (`Places`); and `Accepted` itself. A late script breaks
`Scripts`. `RecordsInv`, for `RecordsTrue`, needs no calm: rotations are requested in the order of
their numbers, so what a server may go back to is never older than what it last completed (`Turn`);
keys in use or to be gone back to have rows, and keys of rotations that have not switched have none
(`Rows`); and a key whose installation has not happened, or has been undone for certain, is in no
file and in no copy that may become one (`Traces`: a late rename must not bring it back). `FilesInv`,
for `FilesExact`, says at every step of a rotation what each file lists: the keys of its servers and
at most one line more, named by the step (`Listed`). Theorems: `SoundAlways`, `TypeCorrect`,
`OneRotationPerServer`, `RetiredKeysUnused`, `NobodyLockedOut`, `RecordsAreTrue`, `FilesAreExact`.

**`LiveAccessProofs`**. `AttachedInReach` is not inductive: it says that something of the member's has
expired, not what, and an approval may renew another grant than the one the terminal needs.
`AllInReach` names it: each terminal in use is on a server in reach, or the member's grant on that
server, or of the role that covers it, is the expired one (`Late`). Then an edit either finds
access lost and closes what is out of reach, or leaves the expired row for the sweep, or removes it
and marks the terminal `passed`. Theorems: `TypeCorrect`, `OnlyActiveAsk`, `UsedInReach`, and two
action properties, `ApprovalsExtend` and `ReachedKept`.

**`AuditForwardProofs`**. `Implements` is the refinement: every step of `AuditForward` is a step of
`AuditDelivery` or leaves its variables alone, given `Inv`, which is `TypeOK` and three facts. `Rowed`:
a row's stamp is not in the future, it waits at most `Delay`, and no rowid exceeds the number of rows
written. `CursorInv`: the cursor is at a row that was in the log, and is not past the stamp of a due
row that still waits (this needs `Delay <= Settle`), so a commit never falls behind it. `BatchInv`: a
batch under way is of settled rows, the webhook of its configuration has them once it took them,
and while that configuration is in force the batch is all there is between the cursor and its last
row; so moving the cursor settles only accepted rows. Theorems: `TypeCorrect`, `Implements`.

**`ServerPoolProofs`**. `Inv` has five parts: `Ranges` (types); `Attached` (who waits, waits for a
pending promise; who leases, leases a kept one) and `Promises` (what the pool holds is not
rejected, and a verified connection has a key); `EvictionReachesAll`, inductive beside them because
each handler gives up only the entry that is its own; and `VerifiedCurrent`, because every
change of the row evicts in the same step, but for `CloudSync`, which changes only the address and marks
what was verified before as `moved`. Theorems: `TypeCorrect`, `EvictionComplete`, `PooledVerified`.

**`AgentTunnelProofs`**. `Inv` is `Ranges` and `Wires` (types), `Held` (the one WebSocket that is open
is the live one, and a revoked agent has none), `Numbered` (streams of one connection have distinct
ids, below its next one) and `Addressed`: every frame on a connection carries the id of the stream
it was made for, which is a stream of that connection. From `Numbered` and `Addressed` follows
`Separate`: a frame reaches its own stream or none.

What the two ends of a stream may be at one moment is `Sane`, a predicate of one stream's two
sockets, the two queues of its WebSocket, and which ends can still send: `Paired` (the states that go
together), `Upward` and `Downward` (what of the stream is still in each queue: an `OPEN` comes before
chunks, chunks before an end, and the numbers of the chunks on the way are a run that starts where
the reader stands and stops where the writer does, `Run`). A first group of lemmas says, of two
queues and two records alone, that each kind of step keeps `Sane`; a second, one per action, that the
action is such a step for its stream and leaves the others alone. Two facts are of several streams:
`OneByOne`, that the agent's WebSockets follow one another and what was sent to it is gone with each;
and `Room`: the streams an honest agent carries when it reads an `OPEN` (`Before`, which counts those
whose `OPEN` comes earlier and leaves out those whose `END` does) are fewer than its limit. `Room`
holds although the app counts its own sockets, not the agent's, because every stream in `Before` was
among those the app counted when it sent that `OPEN`, and nothing adds to it later. `HonestKept` then
needs only that no frame an honest agent sends is a violation of the protocol (`InTurn`) and
that no `OPEN` is refused (`NeverRefused`).

`StreamsArePipes` is the refinement of `TunnelPipe`, step by step: one lemma per action says which end
of which stream writes, reads or leaves, and `NextUp` and `NextDown` say, from `Run`, that the
chunk an end reads is the next it has not read. While the agent is not honest the abstract state
may do anything, as `Pipes` says. Theorems: `TypeCorrect`, `RevocationHolds`, `Separate`, `HonestKept`,
`StreamsArePipes`.

**`KubeCacheProofs`**. `Inv` is the types in three parts (`Server`, `Cache`, `Users`), `Registered` (the
registry has exactly the scopes that live, each under its key), `Follows` (who waits or reads has a
scope of every resource) and `Copied`. An event keeps `Copied` since it adds and removes the
difference of two neighbouring collections, and a drop since a stopped scope is empty. The cap
(`Capped`) needs that scopes are dropped in one order: `older` is a strict order with ties on the scopes
that live (`Ages`), so with the number of viewers before it and the age of a scope's id after it, the
order of dropping is total. The first survivor in that order is not a victim, so what it and those
after it hold fits under the cap. That there is a first one follows from scopes being finite in
number, and what is dropped from counting viewers and objects, which is why `CacheAssumption` says
that both are finite. Theorems: `TypeCorrect`, `CopiesTrue`.

**`CronRunsProofs`**. `RunsOnce`: `Traced` says that an occurrence that ran, whose id nobody lost, ran
once and still has its entry, running or done; so no `add` makes a second. `RecursForever`: `NextQueued`
speaks of quiet states only, and the invariant is about who carries the schedule between them. The
first occurrence to come is the least of `Pending`, those after now that have not fired. `Goes`: an
entry that is queued for it (or for an earlier time), a worker that has yet to read the row, one whose
add is for an occurrence that fits, or a starting worker at its read or add. `Chained`: if no call was
lost, `Goes` holds, or a request or a starting worker is before its schedule; and where a removal
will be refused, `Goes` holds anyway, for the entry in the worker's hands is part of the chain
(this is what `Remove` and `SyncRemove` rely on when they queue nothing). Nothing fires before its
time (`Due`) unless a clock is ahead; then at most one occurrence has (`Timely`), its own entry carries
the chain, and an entry of an earlier time, or a manual run, no longer counts, since what it would
add has already fired. `Plain` is what `Punctual` gives in that case: no removal, no kill, no lost call.
Theorems: `TypeCorrect`, `RunsOnce`, `RecursForever`.

Only model-checked: all liveness (leads-to under fairness needs `ENABLED`, which the prover does not
handle), that is `DeadLockTakenOver`, `EveryRotationEnds`, `UnreachedEnds`, `EverythingSent`,
`IdleCloses`, `RequestsAnswered`, `EndsTogether` and `FeedCurrent`. Every invariant of the passing runs
is a theorem, `MutualExclusion` for at most three runs, since it fails for four.

## 7 Findings

`PROJECT.json` has each with its run and the comment it contradicts.

- `lock_four`: between the rename and the link of a mistaken removal the holder has no lock file, so a
  third run gets the lock beside it.
- `access_overstay`: an edit that deletes a row after its expiry and before the sweep leaves the
  terminal open, and the sweep has nothing left to find.
- `pool_sftp`: `ssh/sftp.ts` deletes from its pool by key and not by connection, so a connection that
  closes late takes a newer one out of the pool, where no eviction finds it.

Seen while modelling, and not run: outside the conditions of a property, or in code that a model
leaves out.

- Engine. `switchProxy` compares with the file on disk (`proxy.ts:264`), which a killed run may have
  changed without Caddy having loaded it; later deploys then report success for an app that is not
  served. The container a cut-off restart left serving under its temporary name is the first thing
  the next restart removes. After a port change, a failure to move `current` removes the container
  that Caddy was already switched to (`ops.ts:330`). Docker calls after the move of `current` are
  outside the try, so the release that serves may be recorded as failed and its image tag removed;
  so are the stops of `recreate` (`ops.ts:320`). An image built on the server's side is loaded before
  the app's lock is taken and could be pruned as an orphan (`ops.ts:412`).
- Proxy upgrades (read, not modelled): a kill between the creation and the start of the new proxy
  container leaves it stopped, and the next upgrade finds it up to date (`proxy-upgrade.ts:112`, 145, 290).
- Rotation. Removal scripts copy and rename, so rotations of one account that overlap can lose a line
  (`key-rotation.ts:118`): a server rotated again while another server's old key is being removed is locked
  out, without any fault. A removal script given up after 30 seconds goes on and removes the old key after the
  rollback has found it working. A rollback goes back to a key another rotation has retired
  meanwhile. A rotation is recorded as `failed` although its server stays on the new key, when the
  rollback's transaction meets a key row deleted meanwhile (`Revert`'s second disjunct).
- Access. An exception in the sweep's closing loop leaves later members' terminals open, their rows
  already gone (`access-grants.ts:283`). `servers.ts:433` takes its access snapshot before an await.
- Forwarding. For syslog the cursor moves when the messages were handed to the socket
  (`forward.ts:254`), although the head of the file speaks of rows the target accepted. The status
  of a failure is written without comparing the configuration, as that of a success is
  (`forward.ts:429`): a target saved while the batch was sent may be marked as failed and backed off.
- Pools. A cloud sync writes a server's new address (`cloud/sync.ts:148`) without evicting a pool, as the
  server routes do: requests are handed the connection to the old address until it idles out. The Kubernetes pool compares the map's promise with another one (`kube/ssh-pool.ts:151`): its
  idle timer is never armed again, and a connection that closed stays in the pool. An SFTP connection that
  closes before it is ready, without an `error`, is answered only by its timer. A request checked
  before a revocation may acquire after it, when its vault await ends. `PATCH` of a server computes
  whether the address changed before it awaits the vault.
- Tunnels. A WebSocket closed for a broken protocol stays `live` until its close event.
- Watch cache. `snapshotKube` reads a stopped scope as an empty list without an error when it was
  ready before (`cache.ts:430` against the comment at 404). A browser that leaves while its request
  awaits the credential is not heard (`kube-views.ts:398` listens late), so the stream's scopes are
  held until something else ends it. A stream whose source was read before an edit follows the old
  settings (`kube/index.ts:39`). `enforceCap` may drop a scope that is still listing and holds
  nothing. A watch that works again does not clear the scope's `error`. Answers of 410 in a row are
  followed by lists without a pause.
- Cron. The worker computes the next run from a row that an edit may change before the add: one run
  of the old schedule stays queued. A failed `add` in the worker is only logged, so the schedule stops
  until an edit or a worker's start; a server killed between unschedule and schedule leaves the same.
  `syncCronSchedules` ends at the first entry that refuses its removal. A request whose removal is
  refused because one entry of the job is in a worker's hands fails as a whole, but the removals beside it
  (`scheduler.ts:56`, a `Promise.all`) take effect: the next run is gone from the queue, and when the
  worker's own add finds that id still taken by a finished entry, or none to add, nothing is queued until
  an edit or a worker's start (two schedules, four edits and a clock up to 4 show it). A finished entry that is
  removed frees its id, so a late `add` may run the occurrence again. With a clock ahead, an edit
  computes an occurrence whose id is finished, and its `add` does nothing. A killed worker leaves its
  run recorded as `running` (`processors/cron.ts:84`), and the occurrence runs again. Two simplifications:
  a `getDelayed` that Redis refuses is not a step of its own (the server stopping there is), and the
  entry of a killed worker may be removed at once, where BullMQ refuses that until its lock runs out.

## 8 What is not modelled, and why

`PROJECT.json` lists every component. In short:

- Planned (section 9): proxy upgrades, cloud sync (but for the address it writes), server backups, build queue, alerts, recordings,
  sign-in, delegation, service backups. Their main hazards are listed at the end of this section.
- Stateless requests to another system: Docker and Kubernetes management, object storage, DNS,
  diagnostics, notifications, file operations. What they return is rendered, and there is no order
  to get wrong beyond the pools they use. They, and the routes that validate and update one row,
  are most of the server's lines, which is why the map covers a small share of them.
- Byte layouts and text: archives, configuration files, certificates, formatting, the web interface.
- Outside the repository: sshd, Docker, Caddy, BullMQ and Redis, OIDC and model providers. Where a
  model needs one, it is external and modelled by how the code uses it.

Inside the modelled parts:

- `DeployEngine`: setup, environment and exec commands, purge, images loaded from the BastionSSH side.
- `LiveAccess`: levels, modules, tags, clusters and namespaces, who may grant what to whom, a
  member who joins again, remembered open failures, recordings, container and pod shells. Edits,
  approvals and the sweep are each one step (they are synchronous in the code).
- `KeyRotation`: key types and options, the audit trail.
- `AuditForward`: formats, search and export, the retention setting's route, test deliveries.
- `ServerPool`: the FTP pool, SFTP's probe of the shell, jump hosts on the way, key types and scans,
  limits of audit rows and notifications.
- `AgentTunnel`: buffers as amounts and their overflow limits, the wrap of ids at 2^32, back-off,
  registration and installation; one agent (agents share no state).
- `KubeCache`: keys per user and the revocation that drops them, namespaces of a resource as scopes
  of their own, bookmarks, the lengths of delays; the cap counts objects, not bytes.
- `CronRuns`: rows of runs and the times shown, permissions, the command itself, the queue of one-off
  commands, the in-process run when the queue refuses a manual one, several jobs.

Further hazards of the planned parts, which their modules are to cover:

- `proxy-upgrade.ts:257`: Kills between renaming, stopping, creating and starting the container in
  front; `proxy-upgrade.ts:275`: putting the previous one back is several steps, each of which may fail.
- `cloud/index.ts:112`: The account is read before the provider is asked: unlinked or edited meanwhile,
  the plan is still applied.
- `backup/lock.ts:95`: The server starts while a restore checks that it is stopped.
- `monitoring/alerts.ts:162`: Conditions computed before an await are reconciled with alerts opened
  or resolved since.
- `build/queue.ts:49`: A build in the line is cancelled while the one before hands its place over.
- `build/queue.ts:44`: The line of builds is bounded; a place must be free again after every way out
  of it.
- `recordings/index.ts:400`: Recordings open at a crash are closed at the next start, before any
  terminal opens.
- `kube/index.ts:40`: Identities of users are dropped while views of them are being opened.

## 9 Plan

Done, in this order: `DeployLock`, `DeployEngine`, `KeyRotation`, `LiveAccess`; `AuditForward` with
`AuditDelivery`; `ServerPool` with the host keys; `AgentTunnel` with `TunnelPipe`; `KubeCache`;
`CronRuns`. Left, most important first:

1. `ProxyUpgrade`, with `DeployEngine`'s proxy: kills at each step of `replaceFront`, and recovery.
2. `DbRestore`: server, restore and lock file. Property: no restore under a running server.
3. `BuildQueue`: every place is freed, no build waits for ever.
4. `CloudSync`, `Alerts`: a plan or a set of conditions applied to rows that changed during an await.
5. `SignIn`, `Recordings`: one small module each.
6. `Delegation`: levels as an operator, checked against a reference definition over small inputs, with
   lemmas (no member grants more than they hold).
7. `ServiceBackups`, and the build on the server's side with `DeployEngine`'s orphan images.

Abstract specifications worth adding: a lock as a set with at most one holder, which `DeployLock`
implements for three runs; an app as `served` or not with atomic commands, which `DeployEngine`
implements under `Steady`. Proofs next: these two refinements; then whatever the modules
above add.

## 10 Running it

    tlc -workers 2 -config MCDeployLock_three.cfg MCDeployLock
    tlapm DeployEngineProofs.tla

The passing runs take from some seconds (`lock_three`) to two and a half minutes (`tunnel_all`) with
two workers; the proofs some minutes for each module, ten for
`AgentTunnelProofs`. Distinct states: `lock_three` 35,137,
`engine_all` 672,183, `rotation_all` 160,330, `access_all` 197,472, `forward_all` 250,837, `pool_all`
333,884, `tunnel_all` 470,385, `cache_all` 186,754, `cron_all` 3,761,414.
