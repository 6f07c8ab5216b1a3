----------------------------- MODULE ServerPool -----------------------------
(***************************************************************************)
(* One entry of a pool of SSH connections to a managed server: Docker's    *)
(* (docker/pool.ts), SFTP's (ssh/sftp.ts) or the one clusters are reached  *)
(* through (kube/ssh-pool.ts), chosen by `kind`.  The pool maps its key to *)
(* the promise of a connection.  Requests await it, lease the connection   *)
(* and release it; the handlers of the client (ready, error, close), its   *)
(* timers, the host key check inside its key exchange (ssh/host-keys.ts),  *)
(* an administrator's changes of the server and of its pinned key, the     *)
(* sync of its cloud account (cloud/sync.ts) and a revocation all run      *)
(* between the awaits.  Another process trusts host keys in the same row.  *)
(***************************************************************************)
EXTENDS Naturals, FiniteSets

CONSTANTS
    Requests,   \* the requests of one user (for Kubernetes: of the cluster)
    Slots,      \* how many connections are ever opened
    Hosts,      \* the addresses the server may be given
    Keys,       \* the keys a host may present
    None,       \* no pin, no pooled connection, or a column an edit leaves out
    MaxOps      \* how many changes of the server and revocations there are

ASSUME PoolAssumption ==
    /\ Slots \in Nat /\ MaxOps \in Nat
    /\ None \notin Keys /\ None \notin Hosts /\ None \notin 1 .. Slots

Routes == {"direct", "agent"}
Kinds == {"docker", "sftp", "kube"}

VARIABLES
    kind,       \* which pool
    server,     \* the row: exists, host, route, pin, mismatch
    allowed,    \* whether the user may use the server
    pool,       \* the connection whose promise the pool holds
    conn,       \* every connection: phase, promise, host, route, key, idle timer, doomed,
                \* and as history, moved: a sync has changed the row's address
                \* since the connection's key was checked
    req,        \* every request: state, the host it read, its connection
    edit,       \* the update an edit is going to write
    ops         \* changes and revocations begun

vars == <<kind, server, allowed, pool, conn, req, edit, ops>>

Conns == 1 .. Slots
Unopened == [phase |-> "none", promise |-> "none", host |-> None, route |-> "direct",
             key |-> None, idle |-> FALSE, doomed |-> FALSE, moved |-> FALSE]
IdleRequest == [state |-> "idle", host |-> None, on |-> None]
NoEdit == [open |-> FALSE, host |-> None, route |-> None, pin |-> None, clear |-> FALSE]

Init ==
    /\ kind \in Kinds
    /\ \E h \in Hosts : server = [exists |-> TRUE, host |-> h, route |-> "direct",
                                  pin |-> None, mismatch |-> None]
    /\ allowed = TRUE
    /\ pool = None
    /\ conn = [c \in Conns |-> Unopened]
    /\ req = [r \in Requests |-> IdleRequest]
    /\ edit = NoEdit
    /\ ops = 0

-----------------------------------------------------------------------------
(* The pool                                                                *)

Waits(r, c) == req[r].state = "waiting" /\ req[r].on = c
Leases(r, c) == req[r].state = "leased" /\ req[r].on = c
Users(c) == {r \in Requests : Leases(r, c)}

\* The pool after the promise of c was rejected: SFTP deletes the key whatever
\* it holds, the others only c (in the handler, or in acquire's catch).
Dropped(c) == IF kind = "sftp" \/ pool = c THEN None ELSE pool

\* Mutant: Docker's forget() deletes the key whatever it holds.
ForgottenAlways(c) == IF kind = "kube" THEN pool ELSE None

\* The pool after the handlers of a settled connection ran forget(): Kubernetes
\* compares the pool's promise with another one, which never matches.
Forgotten(c) == IF kind = "kube" THEN pool ELSE Dropped(c)

\* A connection that is gone: what it went to and presented no longer matters.
Gone(c, promise) == [Unopened EXCEPT !.phase = "closed", !.promise = promise,
                                     !.idle = conn[c].idle /\ kind = "sftp"]

\* The client ends; only SFTP leaves the idle timer as it was.
Ended(c) == [Unopened EXCEPT !.phase = IF conn[c].phase = "closed" THEN "closed" ELSE "ended",
                             !.promise = conn[c].promise,
                             !.idle = conn[c].idle /\ kind = "sftp"]

\* Mutant: the promise is dropped without being rejected.
AnsweredNever(c) == req

\* Requests awaiting c after its promise was rejected: answered with the error.
Answered(c) == [r \in Requests |-> IF Waits(r, c) THEN IdleRequest ELSE req[r]]

\* A request may use the server and reads its row; the vault is asked for the
\* credential before the pool is.
Enter(r) ==
    /\ kind # "kube" /\ allowed /\ server.exists
    /\ req[r].state = "idle"
    /\ req' = [req EXCEPT ![r] = [state |-> "vault", host |-> server.host, on |-> None]]
    /\ UNCHANGED <<kind, server, allowed, pool, conn, edit, ops>>

\* The connection c of the pool, awaited (leased at once when it is ready).
Join(r, c) ==
    IF conn[c].promise = "ok"
      THEN /\ req' = [req EXCEPT ![r] = [state |-> "leased", host |-> None, on |-> c]]
           /\ conn' = [conn EXCEPT ![c].idle = FALSE]
      ELSE /\ req' = [req EXCEPT ![r] = [state |-> "waiting", host |-> None, on |-> c]]
           /\ UNCHANGED conn

\* What acquire() is called with: Docker and SFTP name the host they read,
\* Kubernetes reads the row when it opens.
Asks(r) == IF kind = "kube" THEN req[r].state = "idle" ELSE req[r].state = "vault"

AcquirePooled(r) ==
    /\ Asks(r) /\ pool # None
    /\ Join(r, pool)
    /\ UNCHANGED <<kind, server, allowed, pool, edit, ops>>

AcquireNew(r) ==
    /\ Asks(r) /\ pool = None
    /\ kind = "kube" => server.exists
    /\ \E c \in Conns :
         /\ \A d \in Conns : conn[d].phase = "none" <=> d >= c
         /\ conn' = [conn EXCEPT ![c] =
              IF kind = "kube"
                THEN [Unopened EXCEPT !.phase = "vault", !.promise = "pending", !.host = server.host]
                ELSE [Unopened EXCEPT !.phase = "opening", !.promise = "pending",
                                      !.host = req[r].host, !.route = server.route]]
         /\ pool' = c
         /\ req' = [req EXCEPT ![r] = [state |-> "waiting", host |-> None, on |-> c]]
    /\ UNCHANGED <<kind, server, allowed, edit, ops>>

\* The promise of c is rejected and the client ended.
Reject(c) ==
    /\ conn' = [conn EXCEPT ![c] = IF @.phase = "vault" THEN Gone(c, "failed")
                                   ELSE [Ended(c) EXCEPT !.promise = "failed"]]
    /\ pool' = Dropped(c)
    /\ req' = Answered(c)

\* An error of a connection that was ready: logged, but SFTP drops the pool's
\* entry.
Error(c) ==
    /\ conn' = [conn EXCEPT ![c] = [Ended(c) EXCEPT !.idle = conn[c].idle]]
    /\ pool' = IF kind = "sftp" THEN None ELSE pool
    /\ UNCHANGED req

\* Kubernetes: the credential arrives inside the pending promise, and only now
\* is the route read; or there is none and the promise is rejected.
VaultAnswers(c) ==
    /\ conn[c].phase = "vault"
    /\ \/ /\ conn' = [conn EXCEPT ![c].phase = "opening", ![c].route = server.route]
          /\ UNCHANGED <<pool, req>>
       \/ Reject(c)
    /\ UNCHANGED <<kind, server, allowed, edit, ops>>

-----------------------------------------------------------------------------
(* The key exchange and the client's events                                *)

\* Mutant: the key is judged whatever address the connection went to.
SameEndpointAlways(c) == TRUE

SameEndpoint(c) == conn[c].host = server.host /\ conn[c].route = server.route

\* The key a connection is judged against: the pin, or on first use the key
\* that was written first, its own or another process's.
JudgedBy(k) == IF server.pin = None THEN Keys ELSE {server.pin}

\* ssh2 asks about the key k in the first key exchange, or in a later one.  A
\* connection to a former address is refused and nothing recorded; another key
\* than the pinned one is recorded as a mismatch and refused.
CheckHostKey(c, k) ==
    /\ conn[c].phase \in {"opening", "verified", "ready"}
    /\ \/ /\ ~server.exists \/ ~SameEndpoint(c)
          /\ IF conn[c].promise = "pending" THEN Reject(c) ELSE Error(c)
          /\ UNCHANGED server
       \/ /\ server.exists /\ SameEndpoint(c)
          /\ k \in JudgedBy(k)
          /\ server' = [server EXCEPT !.pin = k]
          /\ conn' = [conn EXCEPT ![c].key = k, ![c].moved = FALSE,
                                  ![c].phase = IF @ = "opening" THEN "verified" ELSE @]
          /\ UNCHANGED <<pool, req>>
       \/ /\ server.exists /\ SameEndpoint(c)
          /\ \E pin \in JudgedBy(k) \ {k} :
               server' = [server EXCEPT !.pin = pin, !.mismatch = k]
          /\ IF conn[c].promise = "pending" THEN Reject(c) ELSE Error(c)
    /\ UNCHANGED <<kind, allowed, edit, ops>>

\* The client is ready (and the SFTP channel open): those who wait lease it,
\* then an eviction that came meanwhile ends it.
Ready(c) ==
    /\ conn[c].phase = "verified" /\ conn[c].promise = "pending"
    /\ conn' = [conn EXCEPT ![c] =
         IF @.doomed THEN [Ended(c) EXCEPT !.promise = "ok"]
         ELSE [@ EXCEPT !.phase = "ready", !.promise = "ok",
                        !.idle = \A r \in Requests : ~Waits(r, c)]]
    /\ req' = [r \in Requests |->
                 IF Waits(r, c) THEN [req[r] EXCEPT !.state = "leased"] ELSE req[r]]
    /\ UNCHANGED <<kind, server, allowed, pool, edit, ops>>

\* An error before it was ready, or the timer of the connection.
Fails(c) ==
    /\ conn[c].phase \in {"opening", "verified"} /\ conn[c].promise = "pending"
    /\ Reject(c)
    /\ UNCHANGED <<kind, server, allowed, edit, ops>>

\* An error afterwards.
Breaks(c) ==
    /\ conn[c].phase = "ready"
    /\ Error(c)
    /\ UNCHANGED <<kind, server, allowed, edit, ops>>

\* Mutant: none does.
RejectsOnCloseNever(c) == FALSE

\* A close rejects a promise that is still pending, but for SFTP's.
RejectsOnClose(c) == conn[c].promise = "pending" /\ kind # "sftp"

\* The connection closed (SFTP leaves the idle timer running).
Closes(c) ==
    /\ conn[c].phase \in {"opening", "verified", "ready", "ended"}
    /\ IF RejectsOnClose(c)
         THEN /\ conn' = [conn EXCEPT ![c] = Gone(c, "failed")]
              /\ pool' = Dropped(c)
              /\ req' = Answered(c)
         ELSE /\ conn' = [conn EXCEPT ![c] = Gone(c, conn[c].promise)]
              /\ pool' = Forgotten(c)
              /\ UNCHANGED req
    /\ UNCHANGED <<kind, server, allowed, edit, ops>>

\* Mutant: only the first lease arms the timer.
RearmsNever(c) == FALSE

\* Whether the last release arms the idle timer again: Docker asks whether the
\* pool still holds the connection, SFTP does not, and the comparison of the
\* Kubernetes pool never holds.
Rearms(c) == kind = "sftp" \/ (kind = "docker" /\ pool = c)

Release(r) ==
    /\ req[r].state = "leased"
    /\ req' = [req EXCEPT ![r] = IdleRequest]
    /\ LET c == req[r].on IN
         conn' = [conn EXCEPT ![c].idle = @ \/ (Users(c) = {r} /\ Rearms(c))]
    /\ UNCHANGED <<kind, server, allowed, pool, edit, ops>>

\* Two minutes without a lease.
IdleFires(c) ==
    /\ conn[c].idle /\ Users(c) = {}
    /\ conn' = [conn EXCEPT ![c] = [Ended(c) EXCEPT !.idle = FALSE]]
    /\ pool' = Forgotten(c)
    /\ UNCHANGED <<kind, server, allowed, req, edit, ops>>

-----------------------------------------------------------------------------
(* Evictions                                                               *)

\* What the pool holds is taken out and ended, as soon as it is ready.
Evict ==
    /\ pool' = None
    /\ conn' = IF pool = None THEN conn
               ELSE [conn EXCEPT ![pool] = IF @.promise = "ok" THEN Ended(pool)
                                           ELSE [@ EXCEPT !.doomed = TRUE]]

Step == ops < MaxOps /\ ops' = ops + 1

Revoke ==
    /\ Step /\ kind # "kube" /\ allowed
    /\ allowed' = FALSE
    /\ Evict
    /\ UNCHANGED <<kind, server, req, edit>>

Grant ==
    /\ ~allowed
    /\ allowed' = TRUE
    /\ UNCHANGED <<kind, server, pool, conn, req, edit, ops>>

\* The pin is entered, accepted from the recorded mismatch, or forgotten; each
\* clears the mismatch.
SetPin(k) == server' = [server EXCEPT !.pin = k, !.mismatch = None]

PinKey ==
    /\ Step /\ server.exists
    /\ \E k \in Keys : SetPin(k)
    /\ Evict
    /\ UNCHANGED <<kind, allowed, req, edit>>

AcceptKey ==
    /\ Step /\ server.exists /\ server.mismatch # None
    /\ SetPin(server.mismatch)
    /\ Evict
    /\ UNCHANGED <<kind, allowed, req, edit>>

ForgetKey ==
    /\ Step /\ server.exists
    /\ SetPin(None)
    /\ Evict
    /\ UNCHANGED <<kind, allowed, req, edit>>

\* What an edit of the host, the route and the pin will write, from the row as
\* it is read: a given pin, or none for a new host when there was a pin or a
\* mismatch.
UpdateOf(h, route, pin) ==
    LET moved == h # None /\ h # server.host IN
    [open |-> TRUE, host |-> h, route |-> route,
     pin |-> IF pin = None \/ (pin = server.pin /\ ~moved) THEN None ELSE pin,
     clear |-> pin = None /\ moved /\ (server.pin # None \/ server.mismatch # None)]

Updated(u) ==
    [server EXCEPT
       !.host = IF u.host = None THEN @ ELSE u.host,
       !.route = IF u.route = None THEN @ ELSE u.route,
       !.pin = IF u.clear THEN None ELSE IF u.pin = None THEN @ ELSE u.pin,
       !.mismatch = IF u.clear \/ u.pin # None THEN None ELSE @]

Write(u) ==
    /\ server' = IF server.exists THEN Updated(u) ELSE server
    /\ Evict

\* The update is computed; a new password is then encrypted by the vault, and
\* without one the write follows at once.
BeginEdit ==
    /\ Step /\ server.exists /\ ~edit.open
    /\ \E h \in Hosts \cup {None}, route \in Routes \cup {None}, pin \in Keys \cup {None} :
         edit' = UpdateOf(h, route, pin)
    /\ UNCHANGED <<kind, server, allowed, pool, conn, req>>

FinishEdit ==
    /\ edit.open
    /\ Write(edit)
    /\ edit' = NoEdit
    /\ UNCHANGED <<kind, allowed, req, ops>>

\* (A row that is gone names no agent.)
DeleteServer ==
    /\ Step /\ server.exists
    /\ server' = [server EXCEPT !.exists = FALSE, !.route = "direct"]
    /\ Evict
    /\ UNCHANGED <<kind, allowed, req, edit>>

\* The sync of the cloud account a server was imported from writes the address
\* the provider names: no pool is evicted, and the pin and mismatch stay.
CloudSync ==
    /\ Step /\ server.exists
    /\ \E h \in Hosts \ {server.host} : server' = [server EXCEPT !.host = h]
    /\ conn' = [c \in Conns |-> IF conn[c].phase \in {"verified", "ready"}
                                THEN [conn[c] EXCEPT !.moved = TRUE] ELSE conn[c]]
    /\ UNCHANGED <<kind, allowed, pool, req, edit>>

\* A connection of another pool or process (a terminal, the worker) presents
\* the key k for the server's present address.
OthersCheck(k) ==
    /\ server.exists
    /\ \/ server.pin = None /\ server' = [server EXCEPT !.pin = k]
       \/ server.pin \notin {None, k} /\ server' = [server EXCEPT !.mismatch = k]
    /\ UNCHANGED <<kind, allowed, pool, conn, req, edit, ops>>

Administer ==
    \/ Revoke \/ Grant \/ PinKey \/ AcceptKey \/ ForgetKey
    \/ BeginEdit \/ FinishEdit \/ DeleteServer \/ CloudSync

Next ==
    \/ \E r \in Requests : Enter(r) \/ AcquirePooled(r) \/ AcquireNew(r) \/ Release(r)
    \/ \E c \in Conns : VaultAnswers(c) \/ Ready(c) \/ Fails(c) \/ Breaks(c)
                        \/ Closes(c) \/ IdleFires(c)
    \/ \E c \in Conns, k \in Keys : CheckHostKey(c, k)
    \/ Administer
    \/ \E k \in Keys : OthersCheck(k)

Spec == Init /\ [][Next]_vars

\* The timers run and the vault answers; nothing else needs to happen.
FairSpec ==
    /\ Spec
    /\ \A c \in 1 .. Slots : WF_vars(VaultAnswers(c)) /\ WF_vars(Fails(c)) /\ WF_vars(IdleFires(c))

-----------------------------------------------------------------------------
(* What the pool is for                                                    *)

Phases == {"none", "vault", "opening", "verified", "ready", "ended", "closed"}

\* Every variable has its type; whoever waits, waits for a promise that is
\* pending, and whoever has leased holds a connection that was ready.
TypeOK ==
    /\ kind \in Kinds
    /\ server \in [exists : BOOLEAN, host : Hosts, route : Routes,
                   pin : Keys \cup {None}, mismatch : Keys \cup {None}]
    /\ allowed \in BOOLEAN
    /\ pool \in Conns \cup {None}
    /\ conn \in [Conns -> [phase : Phases, promise : {"none", "pending", "ok", "failed"},
                           host : Hosts \cup {None}, route : Routes, key : Keys \cup {None},
                           idle : BOOLEAN, doomed : BOOLEAN, moved : BOOLEAN]]
    /\ req \in [Requests -> [state : {"idle", "vault", "waiting", "leased"},
                             host : Hosts \cup {None}, on : Conns \cup {None}]]
    /\ edit \in [open : BOOLEAN, host : Hosts \cup {None}, route : Routes \cup {None},
                 pin : Keys \cup {None}, clear : BOOLEAN]
    /\ ops \in 0 .. MaxOps
    /\ \A r \in Requests :
         /\ req[r].state = "waiting" => req[r].on \in Conns /\ conn[req[r].on].promise = "pending"
         /\ req[r].state = "leased" => req[r].on \in Conns /\ conn[req[r].on].promise = "ok"

Live == {"vault", "opening", "verified", "ready"}

\* docker/pool.ts and kube/ssh-pool.ts: an eviction reaches every connection
\* there is.  A connection that is opening or open is the one the pool holds,
\* or was evicted already and ends as soon as it is ready: no handler, timer
\* or late release of an older connection drops a newer one out of reach.
EvictionReachesAll ==
    kind # "sftp" => \A c \in Conns : conn[c].phase \in Live => pool = c \/ conn[c].doomed

\* ssh/host-keys.ts, servers.ts: what a new request may still be handed was
\* checked against what the row says now: the pinned key and the route of the
\* server, however an administrator edited it, pinned, accepted or forgot its
\* key, and whoever trusted a first key, while the connection was opened.  Its
\* address is the row's too, unless a cloud sync has moved the server since the
\* key was checked: cloud/sync.ts evicts nothing.
VerifiedCurrent ==
    \A c \in Conns :
       pool = c /\ conn[c].phase \in {"verified", "ready"} =>
          /\ server.exists /\ conn[c].key = server.pin /\ conn[c].route = server.route
          /\ conn[c].host = server.host \/ conn[c].moved

\* A connection that nobody uses does not stay open (Docker and SFTP).
IdleCloses ==
    \A c \in 1 .. Slots :
       (kind # "kube" /\ conn[c].phase = "ready" /\ Users(c) = {})
          ~> (Users(c) # {} \/ conn[c].phase # "ready")

\* Docker and Kubernetes: a request that waits for a connection is answered,
\* however the connection fails, closes or is evicted.
RequestsAnswered ==
    \A r \in Requests :
       (kind # "sftp" /\ req[r].state = "waiting") ~> (req[r].state # "waiting")

\* ssh/sftp.ts:284 "Drop a user's pooled connections after their access is
\* revoked": none is left that nothing will end.
SftpEvictionReachesAll ==
    kind = "sftp" => \A c \in Conns : conn[c].phase \in Live => pool = c \/ conn[c].doomed
=============================================================================
