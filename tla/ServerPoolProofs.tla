-------------------------- MODULE ServerPoolProofs --------------------------
(***************************************************************************)
(* Evictions reach every connection of the Docker and Kubernetes pools,    *)
(* and every pool hands out only connections whose key and route are those *)
(* of the server's row, and whose address is, but for a cloud sync, for    *)
(* any number of requests, connections, hosts, keys and changes.           *)
(***************************************************************************)
EXTENDS ServerPool, TLAPS

(* The part of TypeOK that says what the variables range over. *)
Ranges ==
    /\ kind \in Kinds
    /\ server \in [exists : BOOLEAN, host : Hosts, route : Routes,
                   pin : Keys \cup {None}, mismatch : Keys \cup {None}]
    /\ allowed \in BOOLEAN
    /\ pool \in Conns \cup {None}
    /\ conn \in [Conns -> [phase : Phases, promise : {"none", "pending", "ok", "failed"},
                           host : Hosts \cup {None}, route : Routes, key : Keys \cup {None},
                           idle : BOOLEAN, doomed : BOOLEAN, moved : BOOLEAN]]
    /\ req \in [Requests -> [state : {"idle", "vault", "waiting", "leased"},
                             host : Hosts \cup {None}, on : Conns \cup {None}]]
    /\ edit \in [open : BOOLEAN, host : Hosts \cup {None}, route : Routes \cup {None},
                 pin : Keys \cup {None}, clear : BOOLEAN]
    /\ ops \in 0 .. MaxOps

(* The part that relates a request to the connection it is on. *)
Attached ==
    \A r \in Requests :
      /\ req[r].state = "waiting" => req[r].on \in Conns /\ conn[req[r].on].promise = "pending"
      /\ req[r].state = "leased" => req[r].on \in Conns /\ conn[req[r].on].promise = "ok"

(* A promise in the pool can still be leased, and a connection past its key *)
(* exchange has a key.                                                      *)
Promises ==
    /\ pool # None => conn[pool].promise \in {"pending", "ok"}
    /\ \A c \in Conns :
         /\ conn[c].phase = "none" => conn[c].promise = "none"
         /\ conn[c].phase = "vault" => conn[c].promise = "pending"
         /\ conn[c].phase \in {"verified", "ready"} => conn[c].key \in Keys

Inv == Ranges /\ Attached /\ Promises /\ EvictionReachesAll /\ VerifiedCurrent

-----------------------------------------------------------------------------
(* What the operators return.                                              *)

ConnRec == [phase : Phases, promise : {"none", "pending", "ok", "failed"},
            host : Hosts \cup {None}, route : Routes, key : Keys \cup {None},
            idle : BOOLEAN, doomed : BOOLEAN, moved : BOOLEAN]

(* A connection that was ended or is gone is a connection, not a live one. *)
LEMMA Endings ==
  ASSUME Ranges, NEW c \in Conns, NEW p \in {"none", "pending", "ok", "failed"}
  PROVE  /\ Ended(c) \in ConnRec /\ Ended(c).phase \in {"ended", "closed"}
         /\ Ended(c).promise = conn[c].promise
         /\ Gone(c, p) \in ConnRec /\ Gone(c, p).phase = "closed"
         /\ Gone(c, p).promise = p
BY ZenonT(40) DEF Ranges, Ended, Gone, Unopened, ConnRec, Phases, Routes

(* What the pool holds after a step, past its key exchange, it held before. *)
Kept ==
    \A d \in Conns :
       pool' = d /\ conn'[d].phase \in {"verified", "ready"} => pool = d /\ conn'[d] = conn[d]

(* Then it still agrees with a row that did not change. *)
LEMMA KeptCurrent ==
  ASSUME VerifiedCurrent, Kept, UNCHANGED server
  PROVE  VerifiedCurrent'
BY DEF VerifiedCurrent, Kept

(* A request that stays where it is stays attached to a promise that does. *)
LEMMA StaysAttached ==
  ASSUME Attached, UNCHANGED req, \A d \in Conns : conn'[d].promise = conn[d].promise
  PROVE  Attached'
BY DEF Attached

(* A rejected promise leaves c dead, nobody waiting for it, and the pool *)
(* without it.                                                           *)
LEMMA Rejected ==
  ASSUME Inv, NEW c \in Conns, Reject(c), conn[c].promise = "pending", UNCHANGED kind
  PROVE  /\ pool' \in Conns \cup {None} /\ conn' \in [Conns -> ConnRec]
         /\ req' \in [Requests -> [state : {"idle", "vault", "waiting", "leased"},
                                   host : Hosts \cup {None}, on : Conns \cup {None}]]
         /\ Attached' /\ Promises' /\ EvictionReachesAll' /\ Kept
<1> USE DEF Inv, Reject
<1>1. /\ pool' \in {pool, None} /\ pool' # c /\ conn'[c].phase \in {"ended", "closed"}
      /\ kind # "sftp" => pool' = IF pool = c THEN None ELSE pool
      /\ conn'[c].promise = "failed" /\ conn'[c] \in ConnRec
      /\ conn' = [conn EXCEPT ![c] = conn'[c]]
  <2>1. Ended(c) \in ConnRec /\ Gone(c, "failed") \in ConnRec
        /\ Ended(c).phase \in {"ended", "closed"} /\ Gone(c, "failed").phase = "closed"
        /\ Gone(c, "failed").promise = "failed"
    BY Endings
  <2>2. conn'[c] = IF conn[c].phase = "vault" THEN Gone(c, "failed")
                   ELSE [Ended(c) EXCEPT !.promise = "failed"]
    BY DEF Ranges
  <2>3. pool' \in {pool, None} /\ pool' # c /\ (kind # "sftp" => pool' = IF pool = c THEN None ELSE pool)
    BY PoolAssumption DEF Dropped, Conns, Ranges
  <2> QED BY <2>1, <2>2, <2>3 DEF ConnRec, Ranges
<1>2. pool' \in Conns \cup {None} /\ conn' \in [Conns -> ConnRec]
  BY <1>1 DEF Ranges, ConnRec
<1>3. /\ req' \in [Requests -> [state : {"idle", "vault", "waiting", "leased"},
                                host : Hosts \cup {None}, on : Conns \cup {None}]]
      /\ Attached'
  <2>1. req' = [r \in Requests |-> IF req[r].state = "waiting" /\ req[r].on = c THEN IdleRequest ELSE req[r]]
    BY DEF Answered, Waits
  <2>2. \A d \in Conns : d # c => conn'[d] = conn[d]
    BY <1>1 DEF Ranges
  <2> QED BY <2>1, <2>2 DEF Attached, IdleRequest, Ranges
<1>4. Promises'
  BY <1>1 DEF Promises, Ranges
<1>5. EvictionReachesAll'
  BY <1>1 DEF EvictionReachesAll, Live, Ranges
<1>6. Kept
  <2>1. None \notin Conns BY PoolAssumption DEF Conns
  <2>2. ASSUME NEW d \in Conns, pool' = d PROVE pool = d /\ conn'[d] = conn[d]
    BY <1>1, <2>1, <2>2 DEF Ranges
  <2> QED BY <2>2 DEF Kept
<1> QED BY <1>2, <1>3, <1>4, <1>5, <1>6

(* A connection that ends after its promise was kept, and stays in the pool *)
(* or leaves it, alone or, in SFTP's pool, whichever is there.              *)
LEMMA Stopped ==
  ASSUME Inv, NEW c \in Conns, NEW e \in ConnRec,
         e.phase \in {"ended", "closed"}, e.promise = conn[c].promise,
         conn' = [conn EXCEPT ![c] = e],
         pool' \in {pool, None}, kind # "sftp" => pool' = pool \/ pool = c,
         UNCHANGED <<kind, req>>
  PROVE  /\ pool' \in Conns \cup {None} /\ conn' \in [Conns -> ConnRec]
         /\ Attached' /\ Promises' /\ EvictionReachesAll' /\ Kept
<1> USE DEF Inv
<1>1. pool' \in Conns \cup {None} /\ conn' \in [Conns -> ConnRec]
  BY DEF Ranges, ConnRec
<1>2. \A d \in Conns : conn'[d] = IF d = c THEN e ELSE conn[d]
  BY DEF Ranges
<1>3. Attached'
  BY <1>2 DEF Attached
<1>4. Promises'
  BY <1>2 DEF Promises, Ranges
<1>5. EvictionReachesAll'
  BY <1>2 DEF EvictionReachesAll, Live, Ranges
<1>6. Kept
  <2>1. None \notin Conns BY PoolAssumption DEF Conns
  <2>2. ASSUME NEW d \in Conns, pool' = d PROVE pool = d
    BY <2>1, <2>2
  <2> QED BY <1>2, <2>2 DEF Kept
<1> QED BY <1>1, <1>3, <1>4, <1>5, <1>6

(* An error of a connection whose promise was settled. *)
LEMMA Errs ==
  ASSUME Inv, NEW c \in Conns, Error(c), UNCHANGED kind
  PROVE  /\ pool' \in Conns \cup {None} /\ conn' \in [Conns -> ConnRec] /\ UNCHANGED req
         /\ Attached' /\ Promises' /\ EvictionReachesAll' /\ Kept
<1> DEFINE e == [Ended(c) EXCEPT !.idle = conn[c].idle]
<1>1. e \in ConnRec /\ e.phase \in {"ended", "closed"} /\ e.promise = conn[c].promise
  <2>1. Ended(c) \in ConnRec /\ Ended(c).phase \in {"ended", "closed"}
        /\ Ended(c).promise = conn[c].promise
    BY Endings DEF Inv
  <2>2. conn[c].idle \in BOOLEAN BY DEF Inv, Ranges
  <2> QED BY <2>1, <2>2 DEF ConnRec
<1>2. /\ conn' = [conn EXCEPT ![c] = e] /\ UNCHANGED req
      /\ pool' \in {pool, None} /\ (kind # "sftp" => pool' = pool)
  BY DEF Error
<1> HIDE DEF e
<1> QED BY <1>1, <1>2, Stopped

(* After an eviction the pool is empty, whatever becomes of the row. *)
LEMMA Evicted ==
  ASSUME Inv, Evict, UNCHANGED <<kind, req>>
  PROVE  /\ pool' \in Conns \cup {None} /\ conn' \in [Conns -> ConnRec]
         /\ Attached' /\ Promises' /\ EvictionReachesAll' /\ VerifiedCurrent'
<1> USE DEF Inv
<1>0. pool' = None /\ None \notin Conns
  BY PoolAssumption DEF Evict, Conns
<1>1. CASE pool = None
  <2>1. conn' = conn BY <1>1 DEF Evict
  <2> QED
    BY <1>0, <1>1, <2>1 DEF Ranges, ConnRec, Attached, Promises, EvictionReachesAll, VerifiedCurrent
<1>2. CASE pool # None
  <2> DEFINE e == IF conn[pool].promise = "ok" THEN Ended(pool) ELSE [conn[pool] EXCEPT !.doomed = TRUE]
  <2>1. pool \in Conns /\ conn[pool] \in ConnRec BY <1>2 DEF Ranges, ConnRec
  <2>2. conn' = [conn EXCEPT ![pool] = e] BY <1>2 DEF Evict, Ranges
  <2>3. /\ e \in ConnRec /\ e.promise = conn[pool].promise
        /\ e.phase \in {"ended", "closed"} \/ (e.doomed /\ e.phase = conn[pool].phase /\ e.key = conn[pool].key)
    BY <2>1, Endings DEF ConnRec
  <2> HIDE DEF e
  <2>4. \A d \in Conns : conn'[d] = IF d = pool THEN e ELSE conn[d]
    BY <2>1, <2>2 DEF Ranges
  <2>5. conn' \in [Conns -> ConnRec] BY <2>1, <2>2, <2>3 DEF Ranges, ConnRec
  <2>6. Attached' BY <2>3, <2>4 DEF Attached
  <2>7. Promises' BY <1>0, <2>1, <2>3, <2>4 DEF Promises
  <2>8. EvictionReachesAll' BY <2>1, <2>3, <2>4 DEF EvictionReachesAll, Live
  <2>9. VerifiedCurrent' BY <1>0 DEF VerifiedCurrent
  <2> QED BY <1>0, <2>5, <2>6, <2>7, <2>8, <2>9
<1> QED BY <1>1, <1>2

-----------------------------------------------------------------------------
(* Inv is inductive.                                                       *)

(* The empty pool. *)
LEMMA InitInv == Init => Inv
<1> SUFFICES ASSUME Init PROVE Inv OBVIOUS
<1> USE PoolAssumption DEF Init
<1>1. Ranges
  BY DEF Ranges, Conns, Unopened, IdleRequest, NoEdit, Routes, Phases
<1>2. Attached /\ Promises /\ EvictionReachesAll /\ VerifiedCurrent
  BY DEF Attached, Promises, EvictionReachesAll, VerifiedCurrent, Conns, Unopened, IdleRequest, Live
<1> QED BY <1>1, <1>2 DEF Inv

(* The requests' steps. *)
LEMMA RequestSteps ==
  ASSUME Inv, NEW r \in Requests, Enter(r) \/ AcquirePooled(r) \/ AcquireNew(r) \/ Release(r)
  PROVE  Inv'
<1> USE DEF Inv
<1>1. CASE Enter(r)
  <2>1. Ranges' BY <1>1 DEF Enter, Ranges
  <2>2. Attached' BY <1>1 DEF Enter, Attached, Ranges
  <2> QED BY <1>1, <2>1, <2>2 DEF Enter, Promises, EvictionReachesAll, VerifiedCurrent
<1>2. CASE AcquirePooled(r)
  <2>1. pool \in Conns BY <1>2 DEF AcquirePooled, Ranges
  <2>2. CASE conn[pool].promise = "ok"
    <3>1. req' = [req EXCEPT ![r] = [state |-> "leased", host |-> None, on |-> pool]]
          /\ conn' = [conn EXCEPT ![pool].idle = FALSE]
      BY <1>2, <2>2 DEF AcquirePooled, Join
    <3>2. Ranges'
      <4>0. conn[pool] \in ConnRec BY <2>1 DEF Ranges, ConnRec
      <4>1. [conn[pool] EXCEPT !.idle = FALSE] \in ConnRec BY <4>0 DEF ConnRec
      <4>2. conn' = [conn EXCEPT ![pool] = [conn[pool] EXCEPT !.idle = FALSE]]
        BY <2>1, <3>1 DEF Ranges
      <4>3. conn' \in [Conns -> ConnRec] BY <2>1, <4>1, <4>2 DEF Ranges, ConnRec
      <4> QED BY <1>2, <2>1, <3>1, <4>3 DEF AcquirePooled, Ranges, ConnRec
    <3>3. \A d \in Conns : /\ conn'[d].phase = conn[d].phase /\ conn'[d].promise = conn[d].promise
                           /\ conn'[d].key = conn[d].key /\ conn'[d].doomed = conn[d].doomed
                           /\ conn'[d].host = conn[d].host /\ conn'[d].route = conn[d].route
                           /\ conn'[d].moved = conn[d].moved
      BY <2>1, <3>1 DEF Ranges
    <3>4. Attached' BY <2>1, <2>2, <3>1, <3>3 DEF Attached, Ranges
    <3>5. Promises' /\ EvictionReachesAll' /\ VerifiedCurrent'
      BY <1>2, <2>1, <3>3 DEF AcquirePooled, Promises, EvictionReachesAll, VerifiedCurrent
    <3> QED BY <3>2, <3>4, <3>5
  <2>3. CASE conn[pool].promise # "ok"
    <3>1. req' = [req EXCEPT ![r] = [state |-> "waiting", host |-> None, on |-> pool]]
          /\ conn' = conn /\ conn[pool].promise = "pending"
      BY <1>2, <2>3 DEF AcquirePooled, Join, Promises
    <3>2. Ranges' BY <1>2, <2>1, <3>1 DEF AcquirePooled, Ranges
    <3>3. Attached' BY <2>1, <3>1 DEF Attached, Ranges
    <3>4. Promises' /\ EvictionReachesAll' /\ VerifiedCurrent'
      BY <1>2, <3>1 DEF AcquirePooled, Promises, EvictionReachesAll, VerifiedCurrent
    <3> QED BY <3>2, <3>3, <3>4
  <2> QED BY <2>2, <2>3
<1>3. CASE AcquireNew(r)
  <2>1. PICK c \in Conns :
          /\ \A d \in Conns : conn[d].phase = "none" <=> d >= c
          /\ conn' = [conn EXCEPT ![c] =
               IF kind = "kube"
                 THEN [Unopened EXCEPT !.phase = "vault", !.promise = "pending", !.host = server.host]
                 ELSE [Unopened EXCEPT !.phase = "opening", !.promise = "pending",
                                       !.host = req[r].host, !.route = server.route]]
          /\ pool' = c
          /\ req' = [req EXCEPT ![r] = [state |-> "waiting", host |-> None, on |-> c]]
    BY <1>3 DEF AcquireNew
  <2>2. conn[c].phase = "none" /\ conn[c].promise = "none"
    BY <2>1 DEF Conns, Promises
  <2>3. pool = None /\ UNCHANGED <<kind, server, allowed, edit, ops>>
    BY <1>3 DEF AcquireNew
  <2>4. conn'[c] \in ConnRec /\ conn'[c].phase \in {"vault", "opening"} /\ conn'[c].promise = "pending"
    BY <2>1 DEF ConnRec, Unopened, Ranges, Routes, Phases
  <2>5. \A d \in Conns : d # c => conn'[d] = conn[d]
    BY <2>1 DEF Ranges
  <2>6. conn' \in [Conns -> ConnRec]
    BY <2>1, <2>4 DEF Ranges, ConnRec
  <2>7. Ranges' BY <2>1, <2>3, <2>6 DEF Ranges, ConnRec
  <2>8. Attached' BY <2>1, <2>2, <2>4, <2>5 DEF Attached, Ranges
  <2>9. Promises' BY <2>1, <2>4, <2>5 DEF Promises
  <2>10. EvictionReachesAll'
    BY <2>1, <2>3, <2>5, PoolAssumption DEF EvictionReachesAll, Conns
  <2>11. VerifiedCurrent' BY <2>1, <2>4, <2>5 DEF VerifiedCurrent
  <2> QED BY <2>7, <2>8, <2>9, <2>10, <2>11
<1>4. CASE Release(r)
  <2>1. req[r].on \in Conns BY <1>4 DEF Release, Attached
  <2>2. \E b \in BOOLEAN : conn' = [conn EXCEPT ![req[r].on].idle = b]
    <3> DEFINE b == conn[req[r].on].idle \/ (Users(req[r].on) = {r} /\ Rearms(req[r].on))
    <3>1. b \in BOOLEAN BY DEF Rearms
    <3>2. conn' = [conn EXCEPT ![req[r].on].idle = b] BY <1>4, <2>1 DEF Release, Ranges
    <3> QED BY <3>1, <3>2
  <2>3. Ranges' BY SMTT(30), <1>4, <2>1, <2>2 DEF Release, Ranges, IdleRequest
  <2>4. \A d \in Conns : /\ conn'[d].phase = conn[d].phase /\ conn'[d].promise = conn[d].promise
                         /\ conn'[d].key = conn[d].key /\ conn'[d].doomed = conn[d].doomed
                         /\ conn'[d].host = conn[d].host /\ conn'[d].route = conn[d].route
                         /\ conn'[d].moved = conn[d].moved
    BY <2>1, <2>2 DEF Ranges
  <2>5. Attached' BY <1>4, <2>4 DEF Release, Attached, IdleRequest, Ranges
  <2>6. Promises' /\ EvictionReachesAll' /\ VerifiedCurrent'
    <3>1. pool' = pool /\ kind' = kind /\ server' = server /\ pool \in Conns \cup {None}
      BY <1>4 DEF Release, Ranges
    <3> QED BY <2>4, <3>1 DEF Promises, EvictionReachesAll, VerifiedCurrent
  <2> QED BY <2>3, <2>5, <2>6
<1> QED BY <1>1, <1>2, <1>3, <1>4

(* The steps of the connections, but for the key check. *)
LEMMA ConnectionSteps ==
  ASSUME Inv, NEW c \in Conns,
         \/ VaultAnswers(c) \/ Ready(c) \/ Fails(c) \/ Breaks(c) \/ Closes(c) \/ IdleFires(c)
  PROVE  Inv'
<1> USE DEF Inv
<1>0. conn[c] \in ConnRec /\ None \notin Conns
  BY PoolAssumption DEF Ranges, ConnRec, Conns
<1>1. CASE VaultAnswers(c)
  <2>1. conn[c].phase = "vault" /\ conn[c].promise = "pending"
        /\ UNCHANGED <<kind, server, allowed, edit, ops>>
    BY <1>1 DEF VaultAnswers, Promises
  <2>2. CASE Reject(c)
    BY <2>1, <2>2, Rejected, KeptCurrent DEF Ranges, ConnRec
  <2>3. CASE /\ conn' = [conn EXCEPT ![c].phase = "opening", ![c].route = server.route]
             /\ UNCHANGED <<pool, req>>
    <3> DEFINE e == [conn[c] EXCEPT !.phase = "opening", !.route = server.route]
    <3>1. e \in ConnRec /\ e.phase = "opening" /\ e.promise = "pending" /\ e.doomed = conn[c].doomed
      BY <1>0, <2>1 DEF ConnRec, Ranges, Phases
    <3>2. conn' = [conn EXCEPT ![c] = e] BY <1>0, <2>3 DEF Ranges, ConnRec
    <3> HIDE DEF e
    <3>3. \A d \in Conns : conn'[d] = IF d = c THEN e ELSE conn[d] BY <3>2 DEF Ranges
    <3>4. Ranges'
      <4>1. conn' \in [Conns -> ConnRec] BY <3>1, <3>2 DEF Ranges, ConnRec
      <4> QED BY <2>1, <2>3, <4>1 DEF Ranges, ConnRec
    <3>5. Attached'
      <4>1. \A d \in Conns : conn'[d].promise = conn[d].promise BY <2>1, <3>1, <3>3
      <4>2. UNCHANGED req BY <2>3
      <4> QED BY <4>1, <4>2, StaysAttached
    <3>6. Promises' BY <2>3, <3>1, <3>3 DEF Promises, Ranges
    <3>7. EvictionReachesAll' BY <2>1, <2>3, <3>1, <3>3 DEF EvictionReachesAll, Live
    <3>8. VerifiedCurrent'
      <4>1. conn'[c].phase = "opening" /\ \A d \in Conns : d # c => conn'[d] = conn[d] BY <3>1, <3>3
      <4>2. pool' = pool /\ server' = server BY <2>1, <2>3
      <4> QED BY <4>1, <4>2 DEF VerifiedCurrent
    <3> QED BY <3>4, <3>5, <3>6, <3>7, <3>8
  <2> QED BY <1>1, <2>2, <2>3 DEF VaultAnswers
<1>2. CASE Ready(c)
  <2> DEFINE e == IF conn[c].doomed THEN [Ended(c) EXCEPT !.promise = "ok"]
                  ELSE [conn[c] EXCEPT !.phase = "ready", !.promise = "ok",
                                       !.idle = \A r \in Requests : ~Waits(r, c)]
  <2>1. conn[c].phase = "verified" /\ conn[c].promise = "pending"
        /\ UNCHANGED <<kind, server, allowed, pool, edit, ops>>
    BY <1>2 DEF Ready
  <2>2. /\ e \in ConnRec /\ e.promise = "ok" /\ e.phase \in {"ready", "ended", "closed"}
        /\ e.phase = "ready" => /\ e.key = conn[c].key /\ e.host = conn[c].host
                                /\ e.route = conn[c].route /\ e.doomed = conn[c].doomed
                                /\ e.moved = conn[c].moved
    <3>1. (\A r \in Requests : ~Waits(r, c)) \in BOOLEAN OBVIOUS
    <3>2. Ended(c) \in ConnRec /\ Ended(c).phase \in {"ended", "closed"} BY Endings DEF ConnRec
    <3> QED BY <1>0, <3>1, <3>2 DEF ConnRec, Phases
  <2>3. conn' = [conn EXCEPT ![c] = e] BY <1>2 DEF Ready
  <2>4. req' = [r \in Requests |-> IF Waits(r, c) THEN [req[r] EXCEPT !.state = "leased"] ELSE req[r]]
    BY <1>2 DEF Ready
  <2> HIDE DEF e
  <2>5. \A d \in Conns : conn'[d] = IF d = c THEN e ELSE conn[d] BY <2>3 DEF Ranges
  <2>6. Ranges'
    <3>1. conn' \in [Conns -> ConnRec] BY <2>2, <2>3 DEF Ranges, ConnRec
    <3>2. req' \in [Requests -> [state : {"idle", "vault", "waiting", "leased"},
                                 host : Hosts \cup {None}, on : Conns \cup {None}]]
      BY <2>4 DEF Ranges
    <3> QED BY <2>1, <3>1, <3>2 DEF Ranges, ConnRec
  <2>7. Attached' BY <2>1, <2>2, <2>4, <2>5 DEF Attached, Waits, Ranges
  <2>8. Promises' BY <2>1, <2>2, <2>5 DEF Promises, Ranges
  <2>9. EvictionReachesAll' BY <2>1, <2>2, <2>5 DEF EvictionReachesAll, Live
  <2>10. VerifiedCurrent' BY <2>1, <2>2, <2>5 DEF VerifiedCurrent
  <2> QED BY <2>6, <2>7, <2>8, <2>9, <2>10
<1>3. CASE Fails(c)
  <2>1. Reject(c) /\ conn[c].promise = "pending" /\ UNCHANGED <<kind, server, allowed, edit, ops>>
    BY <1>3 DEF Fails
  <2> QED BY <2>1, Rejected, KeptCurrent DEF Ranges, ConnRec
<1>4. CASE Breaks(c)
  BY <1>4, Errs, KeptCurrent DEF Breaks, Ranges, ConnRec
<1>5. CASE Closes(c)
  <2>1. UNCHANGED <<kind, server, allowed, edit, ops>> BY <1>5 DEF Closes
  <2>2. CASE RejectsOnClose(c)
    <3>1. conn' = [conn EXCEPT ![c] = Gone(c, "failed")] /\ pool' = Dropped(c) /\ req' = Answered(c)
      BY <1>5, <2>2 DEF Closes
    <3>2. Gone(c, "failed") \in ConnRec /\ Gone(c, "failed").phase = "closed" /\ Gone(c, "failed").promise = "failed"
      BY Endings
    <3>3. conn[c].promise = "pending" BY <2>2 DEF RejectsOnClose
    <3> DEFINE g == Gone(c, "failed")
    <3> HIDE DEF g
    <3>4. \A d \in Conns : conn'[d] = IF d = c THEN g ELSE conn[d] BY <3>1 DEF Ranges, g
    <3>5. g \in ConnRec /\ g.phase = "closed" /\ g.promise = "failed" BY <3>2 DEF g
    <3>6. pool' = IF pool = c THEN None ELSE pool BY <2>2, <3>1 DEF Dropped, RejectsOnClose
    <3>7. req' = [r \in Requests |-> IF req[r].state = "waiting" /\ req[r].on = c THEN IdleRequest ELSE req[r]]
      BY <3>1 DEF Answered, Waits
    <3>8. Ranges'
      <4>1. conn' \in [Conns -> ConnRec] BY <3>1, <3>5 DEF Ranges, ConnRec, g
      <4>2. req' \in [Requests -> [state : {"idle", "vault", "waiting", "leased"},
                                   host : Hosts \cup {None}, on : Conns \cup {None}]]
        BY <3>7 DEF Ranges, IdleRequest
      <4> QED BY <2>1, <3>6, <4>1, <4>2 DEF Ranges, ConnRec
    <3>9. Attached' BY <3>3, <3>4, <3>7 DEF Attached, IdleRequest, Ranges
    <3>10. Promises'
      <4>1. pool' # None => conn'[pool'].promise \in {"pending", "ok"}
        <5>1. pool' # None => pool' = pool /\ pool' # c BY <3>6
        <5> QED BY <1>0, <3>4, <5>1 DEF Promises, Ranges
      <4>2. ASSUME NEW d \in Conns
            PROVE  /\ conn'[d].phase = "none" => conn'[d].promise = "none"
                   /\ conn'[d].phase = "vault" => conn'[d].promise = "pending"
                   /\ conn'[d].phase \in {"verified", "ready"} => conn'[d].key \in Keys
        BY <3>4, <3>5 DEF Promises
      <4> QED BY <4>1, <4>2 DEF Promises
    <3>11. EvictionReachesAll' BY <2>1, <3>4, <3>5, <3>6 DEF EvictionReachesAll, Live
    <3>12. VerifiedCurrent' BY <1>0, <2>1, <3>4, <3>5, <3>6 DEF VerifiedCurrent
    <3> QED BY <3>8, <3>9, <3>10, <3>11, <3>12
  <2>3. CASE ~RejectsOnClose(c)
    <3>1. conn' = [conn EXCEPT ![c] = Gone(c, conn[c].promise)] /\ pool' = Forgotten(c) /\ UNCHANGED req
      BY <1>5, <2>3 DEF Closes
    <3>2. conn[c].promise \in {"none", "pending", "ok", "failed"} BY <1>0 DEF ConnRec
    <3>3. pool' \in {pool, None} /\ (kind # "sftp" => pool' = pool \/ pool = c)
      BY <3>1 DEF Forgotten, Dropped
    <3> DEFINE e == Gone(c, conn[c].promise)
    <3>4. e \in ConnRec /\ e.phase = "closed" /\ e.promise = conn[c].promise
      BY <3>2, Endings
    <3>5. conn' = [conn EXCEPT ![c] = e] /\ UNCHANGED req BY <3>1
    <3> HIDE DEF e
    <3>6. /\ pool' \in Conns \cup {None} /\ conn' \in [Conns -> ConnRec]
          /\ Attached' /\ Promises' /\ EvictionReachesAll' /\ Kept
      BY <2>1, <3>3, <3>4, <3>5, Stopped
    <3> QED BY <2>1, <3>5, <3>6, KeptCurrent DEF Ranges, ConnRec
  <2> QED BY <2>2, <2>3
<1>6. CASE IdleFires(c)
  <2> DEFINE e == [Ended(c) EXCEPT !.idle = FALSE]
  <2>1. e \in ConnRec /\ e.phase \in {"ended", "closed"} /\ e.promise = conn[c].promise
    BY ZenonT(40), Endings DEF ConnRec
  <2>2. conn' = [conn EXCEPT ![c] = e] BY <1>6 DEF IdleFires
  <2>3. pool' \in {pool, None} /\ (kind # "sftp" => pool' = pool \/ pool = c)
        /\ UNCHANGED <<kind, server, allowed, req, edit, ops>>
    BY <1>6 DEF IdleFires, Forgotten, Dropped
  <2> HIDE DEF e
  <2> QED BY ZenonT(40), <2>1, <2>2, <2>3, Stopped, KeptCurrent DEF Ranges, ConnRec
<1> QED BY <1>1, <1>2, <1>3, <1>4, <1>5, <1>6

(* The key check: a pin is only written where there is none, and then no *)
(* connection in the pool is past its key exchange.                      *)
LEMMA KeySteps ==
  ASSUME Inv, NEW c \in Conns, NEW k \in Keys, CheckHostKey(c, k)
  PROVE  Inv'
<1> USE DEF Inv
<1>0. conn[c] \in ConnRec /\ None \notin Conns /\ None \notin Keys
  BY PoolAssumption DEF Ranges, ConnRec, Conns
<1>1. UNCHANGED <<kind, allowed, edit, ops>> /\ conn[c].phase \in {"opening", "verified", "ready"}
  BY DEF CheckHostKey
<1>2. CASE /\ IF conn[c].promise = "pending" THEN Reject(c) ELSE Error(c)
           /\ UNCHANGED server
  BY <1>1, <1>2, Rejected, Errs, KeptCurrent DEF Ranges, ConnRec
<1>3. CASE /\ server.exists /\ SameEndpoint(c) /\ k \in JudgedBy(k)
           /\ server' = [server EXCEPT !.pin = k]
           /\ conn' = [conn EXCEPT ![c].key = k, ![c].moved = FALSE,
                                   ![c].phase = IF @ = "opening" THEN "verified" ELSE @]
           /\ UNCHANGED <<pool, req>>
  <2> DEFINE e == [conn[c] EXCEPT !.key = k, !.moved = FALSE, !.phase = IF @ = "opening" THEN "verified" ELSE @]
  <2>1. /\ e \in ConnRec /\ e.phase \in {"verified", "ready"} /\ e.key = k /\ e.promise = conn[c].promise
        /\ e.doomed = conn[c].doomed /\ e.host = conn[c].host /\ e.route = conn[c].route
    BY <1>0, <1>1 DEF ConnRec, Phases
  <2>2. conn' = [conn EXCEPT ![c] = e] BY <1>0, <1>3 DEF Ranges, ConnRec
  <2> HIDE DEF e
  <2>3. \A d \in Conns : conn'[d] = IF d = c THEN e ELSE conn[d] BY <2>2 DEF Ranges
  <2>4. Ranges'
    <3>1. conn' \in [Conns -> ConnRec] BY <2>1, <2>2 DEF Ranges, ConnRec
    <3> QED BY <1>1, <1>3, <3>1 DEF Ranges, ConnRec
  <2>5. Attached' BY <1>3, <2>1, <2>3, StaysAttached
  <2>6. Promises' BY <1>3, <2>1, <2>3 DEF Promises, Ranges
  <2>7. EvictionReachesAll' BY <1>1, <1>3, <2>1, <2>3 DEF EvictionReachesAll, Live
  <2>8. VerifiedCurrent'
    <3>1. /\ server'.pin = k /\ server'.exists = server.exists
          /\ server'.host = server.host /\ server'.route = server.route
      BY <1>3 DEF Ranges
    <3>2. server.pin = None \/ server.pin = k BY <1>3 DEF JudgedBy
    <3>3. ASSUME NEW d \in Conns, pool = d, d # c, conn[d].phase \in {"verified", "ready"}
          PROVE  /\ server.exists /\ conn[d].key = k /\ conn[d].route = server.route
                 /\ conn[d].host = server.host \/ conn[d].moved
      BY <1>0, <3>2, <3>3 DEF VerifiedCurrent, Promises
    <3>4. server.exists /\ conn[c].host = server.host /\ conn[c].route = server.route
      BY <1>3 DEF SameEndpoint
    <3>5. pool' = pool BY <1>3
    <3>6. ASSUME NEW d \in Conns, pool' = d, conn'[d].phase \in {"verified", "ready"}
          PROVE  /\ server'.exists /\ conn'[d].key = server'.pin /\ conn'[d].route = server'.route
                 /\ conn'[d].host = server'.host \/ conn'[d].moved
      <4>1. CASE d = c
        <5>1. conn'[d] = e BY <2>3, <4>1
        <5> QED BY <2>1, <3>1, <3>4, <5>1
      <4>2. CASE d # c
        <5>1. conn'[d] = conn[d] BY <2>3, <4>2
        <5>2. /\ server.exists /\ conn[d].key = k /\ conn[d].route = server.route
              /\ conn[d].host = server.host \/ conn[d].moved
          BY <3>3, <3>5, <3>6, <4>2, <5>1
        <5> QED BY <3>1, <5>1, <5>2
      <4> QED BY <4>1, <4>2
    <3> QED BY <3>6 DEF VerifiedCurrent
  <2> QED BY <2>4, <2>5, <2>6, <2>7, <2>8
<1>4. CASE /\ \E pin \in JudgedBy(k) \ {k} : server' = [server EXCEPT !.pin = pin, !.mismatch = k]
           /\ IF conn[c].promise = "pending" THEN Reject(c) ELSE Error(c)
  <2>1. PICK pin \in JudgedBy(k) \ {k} : server' = [server EXCEPT !.pin = pin, !.mismatch = k]
    BY <1>4
  <2>2. (server.pin = None \/ server.pin = pin) /\ pin \in Keys
    BY <1>0, <2>1 DEF JudgedBy, Ranges
  <2>3. /\ server'.pin = pin /\ server'.exists = server.exists
        /\ server'.host = server.host /\ server'.route = server.route
    BY <2>1 DEF Ranges
  <2>4. /\ pool' \in Conns \cup {None} /\ conn' \in [Conns -> ConnRec]
        /\ req' \in [Requests -> [state : {"idle", "vault", "waiting", "leased"},
                                  host : Hosts \cup {None}, on : Conns \cup {None}]]
        /\ Attached' /\ Promises' /\ EvictionReachesAll'
        /\ Kept
    BY <1>0, <1>1, <1>4, Rejected, Errs DEF Ranges
  <2>5. VerifiedCurrent'
    <3>1. ASSUME NEW d \in Conns, pool' = d, conn'[d].phase \in {"verified", "ready"}
          PROVE  /\ server.exists /\ conn[d].key = pin /\ conn'[d] = conn[d]
                 /\ conn[d].route = server.route
                 /\ conn[d].host = server.host \/ conn[d].moved
      BY <1>0, <2>2, <2>4, <3>1 DEF VerifiedCurrent, Promises, Kept
    <3> QED BY <2>3, <3>1 DEF VerifiedCurrent
  <2>6. Ranges'
    BY <1>1, <2>1, <2>2, <2>4 DEF Ranges, ConnRec
  <2> QED BY <2>4, <2>5, <2>6
<1> QED BY <1>2, <1>3, <1>4 DEF CheckHostKey

(* The administrator's steps, revocations and other connections. *)
LEMMA RowSteps ==
  ASSUME Inv, Administer \/ \E k \in Keys : OthersCheck(k)
  PROVE  Inv'
<1> USE DEF Inv
<1>0. None \notin Keys /\ None \notin Conns
  BY PoolAssumption DEF Conns
<1>1. ASSUME Evict, UNCHANGED <<kind, req>>, allowed' \in BOOLEAN, ops' \in 0 .. MaxOps,
             server' \in [exists : BOOLEAN, host : Hosts, route : Routes,
                          pin : Keys \cup {None}, mismatch : Keys \cup {None}],
             edit' \in [open : BOOLEAN, host : Hosts \cup {None}, route : Routes \cup {None},
                        pin : Keys \cup {None}, clear : BOOLEAN]
      PROVE  Inv'
  BY <1>1, Evicted DEF Ranges, ConnRec
<1>2. Step => ops' \in 0 .. MaxOps
  BY PoolAssumption DEF Step, Ranges
<1>3. CASE Revoke BY <1>1, <1>2, <1>3 DEF Revoke, Ranges
<1>4. CASE Grant
  BY <1>4 DEF Grant, Ranges, Attached, Promises, EvictionReachesAll, VerifiedCurrent
<1>5. CASE PinKey BY <1>1, <1>2, <1>5 DEF PinKey, SetPin, Ranges
<1>6. CASE AcceptKey BY <1>1, <1>2, <1>6 DEF AcceptKey, SetPin, Ranges
<1>7. CASE ForgetKey BY <1>1, <1>2, <1>7 DEF ForgetKey, SetPin, Ranges
<1>8. CASE BeginEdit
  <2>1. UNCHANGED <<kind, server, allowed, pool, conn, req>> /\ Step BY <1>8 DEF BeginEdit
  <2>2. PICK h \in Hosts \cup {None}, route \in Routes \cup {None}, pin \in Keys \cup {None} :
          edit' = UpdateOf(h, route, pin)
    BY <1>8 DEF BeginEdit
  <2>3. edit' \in [open : BOOLEAN, host : Hosts \cup {None}, route : Routes \cup {None},
                   pin : Keys \cup {None}, clear : BOOLEAN]
    BY <2>2 DEF UpdateOf
  <2>4. Ranges' BY <1>2, <2>1, <2>3 DEF Ranges
  <2> QED BY <2>1, <2>4 DEF Attached, Promises, EvictionReachesAll, VerifiedCurrent
<1>9. CASE FinishEdit
  <2>1. Evict /\ UNCHANGED <<kind, allowed, req, ops>> /\ edit' = NoEdit
        /\ server' = IF server.exists THEN Updated(edit) ELSE server
    BY <1>9 DEF FinishEdit, Write
  <2>2. Updated(edit) \in [exists : BOOLEAN, host : Hosts, route : Routes,
                           pin : Keys \cup {None}, mismatch : Keys \cup {None}]
    BY ZenonT(40) DEF Updated, Ranges
  <2>3. NoEdit \in [open : BOOLEAN, host : Hosts \cup {None}, route : Routes \cup {None},
                    pin : Keys \cup {None}, clear : BOOLEAN]
    BY DEF NoEdit
  <2> QED BY <1>1, <2>1, <2>2, <2>3 DEF Ranges
<1>10. CASE DeleteServer BY <1>1, <1>2, <1>10 DEF DeleteServer, Ranges, Routes
<1>11. CASE CloudSync
  <2>1. PICK h \in Hosts \ {server.host} : server' = [server EXCEPT !.host = h]
    BY <1>11 DEF CloudSync
  <2>2. UNCHANGED <<kind, allowed, pool, req, edit>> /\ ops' \in 0 .. MaxOps
    BY <1>2, <1>11 DEF CloudSync
  <2>3. conn' = [c \in Conns |-> IF conn[c].phase \in {"verified", "ready"}
                                 THEN [conn[c] EXCEPT !.moved = TRUE] ELSE conn[c]]
    BY <1>11 DEF CloudSync
  <2>4. \A d \in Conns : conn[d] \in ConnRec BY DEF Ranges, ConnRec
  <2>5. conn' \in [Conns -> ConnRec] BY <2>3, <2>4 DEF ConnRec
  <2>6. \A d \in Conns :
          /\ conn'[d].phase = conn[d].phase /\ conn'[d].promise = conn[d].promise
          /\ conn'[d].key = conn[d].key /\ conn'[d].doomed = conn[d].doomed
          /\ conn'[d].route = conn[d].route
          /\ conn[d].phase \in {"verified", "ready"} => conn'[d].moved
    BY <2>3, <2>4 DEF ConnRec
  <2>7. /\ server'.exists = server.exists /\ server'.pin = server.pin /\ server'.route = server.route
        /\ server' \in [exists : BOOLEAN, host : Hosts, route : Routes,
                        pin : Keys \cup {None}, mismatch : Keys \cup {None}]
    BY <2>1 DEF Ranges
  <2>8. Ranges' BY <2>2, <2>5, <2>7 DEF Ranges, ConnRec
  <2>9. Attached' BY <2>2, <2>6 DEF Attached
  <2>10. Promises' BY <2>2, <2>6 DEF Promises, Ranges
  <2>11. EvictionReachesAll' BY <2>2, <2>6 DEF EvictionReachesAll
  <2>12. VerifiedCurrent' BY <2>2, <2>6, <2>7 DEF VerifiedCurrent
  <2> QED BY <2>8, <2>9, <2>10, <2>11, <2>12
<1>12. ASSUME NEW k \in Keys, OthersCheck(k) PROVE Inv'
  <2>1. UNCHANGED <<kind, allowed, pool, conn, req, edit, ops>> BY <1>12 DEF OthersCheck
  <2>2. Ranges' BY <1>12 DEF OthersCheck, Ranges
  <2>3. VerifiedCurrent'
    <3>1. ASSUME NEW d \in Conns, pool = d, conn[d].phase \in {"verified", "ready"}
          PROVE  server.pin # None
      BY <1>0, <3>1 DEF VerifiedCurrent, Promises
    <3>2. CASE server.pin = None BY <2>1, <3>1, <3>2 DEF VerifiedCurrent
    <3>3. CASE server.pin # None
      <4>1. server' = [server EXCEPT !.mismatch = k] BY <1>12, <3>3 DEF OthersCheck
      <4>2. /\ server'.exists = server.exists /\ server'.pin = server.pin
            /\ server'.host = server.host /\ server'.route = server.route
        BY <4>1 DEF Ranges
      <4> QED BY <2>1, <4>2 DEF VerifiedCurrent
    <3> QED BY <3>2, <3>3
  <2> QED BY <2>1, <2>2, <2>3 DEF Attached, Promises, EvictionReachesAll
<1> QED BY <1>3, <1>4, <1>5, <1>6, <1>7, <1>8, <1>9, <1>10, <1>11, <1>12 DEF Administer

(* Every state of every behaviour satisfies Inv. *)
THEOREM Inductive == Spec => []Inv
<1>1. Inv /\ [Next]_vars => Inv'
  <2> SUFFICES ASSUME Inv, [Next]_vars PROVE Inv' OBVIOUS
  <2>1. CASE UNCHANGED vars
    BY <2>1 DEF vars, Inv, Ranges, Attached, Promises, EvictionReachesAll, VerifiedCurrent
  <2>2. CASE Next
    BY <2>2, RequestSteps, ConnectionSteps, KeySteps, RowSteps DEF Next
  <2> QED BY <2>1, <2>2
<1> QED BY InitInv, <1>1, PTL DEF Spec

(* Every variable has its type, and whoever waits waits for a promise that *)
(* is pending.                                                             *)
THEOREM TypeCorrect == Spec => []TypeOK
<1>1. Inv => TypeOK BY DEF Inv, Ranges, Attached, TypeOK
<1> QED BY <1>1, Inductive, PTL

(* docker/pool.ts, kube/ssh-pool.ts: an eviction reaches every connection. *)
THEOREM EvictionComplete == Spec => []EvictionReachesAll
<1>1. Inv => EvictionReachesAll BY DEF Inv
<1> QED BY <1>1, Inductive, PTL

(* ssh/host-keys.ts: the pools hand out only connections whose key and route *)
(* are the row's, and whose address is, unless a cloud sync has changed it   *)
(* since the key was checked.                                                *)
THEOREM PooledVerified == Spec => []VerifiedCurrent
<1>1. Inv => VerifiedCurrent BY DEF Inv
<1> QED BY <1>1, Inductive, PTL
=============================================================================
