-------------------------- MODULE LiveAccessProofs --------------------------
(***************************************************************************)
(* Theorems about LiveAccess, for every set of members, servers, sessions  *)
(* and requests and every longest grant.                                   *)
(***************************************************************************)
EXTENDS LiveAccess, TLAPS

\* The part of TypeOK about one session.
SessionOK(x) ==
  /\ session[x] \in SessionType
  /\ Open(x) => (session[x].socket <=> session[x].reap = NoTimer)

\* A session keeps its type when it closes or its history is marked.
LEMMA ClearedOK ==
  ASSUME TypeOK, NEW gone, NEW past, past \subseteq {x \in Sessions : Open(x)}, Cleared(gone, past)
  PROVE  /\ session' \in [Sessions -> SessionType]
         /\ \A x \in Sessions : SessionOK(x)'
<1>1. ASSUME NEW x \in Sessions PROVE session'[x] \in SessionType /\ SessionOK(x)'
  <2>1. CASE x \in gone
    BY <1>1, <2>1 DEF Cleared, SessionOK, SessionType, Closed, Open
  <2>2. CASE x \notin gone /\ x \in past
    <3>1. Open(x) /\ session'[x] = [session[x] EXCEPT !.passed = TRUE]
      BY <1>1, <2>2 DEF Cleared
    <3>2. session[x] \in [at : {"open"}, user : Members, server : Servers, socket : BOOLEAN, reap : 0..NoTimer, passed : BOOLEAN]
      BY <1>1, <3>1 DEF TypeOK, SessionType, Open, Closed
    <3> QED BY <1>1, <3>1, <3>2 DEF TypeOK, SessionOK, SessionType, Open
  <2>3. CASE x \notin gone /\ x \notin past
    BY <1>1, <2>3 DEF Cleared, TypeOK, SessionOK, Open
  <2> QED BY <2>1, <2>2, <2>3
<1>2. session' = [x \in Sessions |-> session'[x]]
  BY DEF Cleared
<1> QED BY <1>1, <1>2

\* The same when nothing is marked.
LEMMA CloseOK ==
  ASSUME TypeOK, NEW gone, Close(gone)
  PROVE  /\ session' \in [Sessions -> SessionType]
         /\ \A x \in Sessions : SessionOK(x)'
<1>1. Cleared(gone, {})
  BY DEF Close, Cleared
<1> QED BY <1>1, ClearedOK

\* An action on one session keeps the types when what it writes has its type.
LEMMA OneSessionOK ==
  ASSUME TypeOK, NEW x \in Sessions, NEW to \in SessionType,
         to.at = "open" => (to.socket <=> to.reap = NoTimer),
         session' = [session EXCEPT ![x] = to],
         UNCHANGED <<status, left, covers, request, swept>>
  PROVE  TypeOK'
BY DEF TypeOK, Open

\* A session that is not open yet, is open, or is neither.
LEMMA OpenType ==
  ASSUME TypeOK, NEW x \in Sessions
  PROVE  /\ Open(x) => session[x] \in [at : {"open"}, user : Members, server : Servers,
                                      socket : BOOLEAN, reap : 0..NoTimer, passed : BOOLEAN]
         /\ session[x].at = "opening" => session[x] \in [at : {"opening"}, user : Members, server : Servers]
         /\ Open(x) => session[x] # Closed
BY DEF TypeOK, SessionType, Open, Closed

\* A terminal gains or loses its socket.
LEMMA SocketOK ==
  ASSUME TypeOK, NEW x \in Sessions, Open(x)
  PROVE  /\ WithSocket(x, TRUE, NoTimer) \in SessionType
         /\ WithSocket(x, TRUE, NoTimer).socket <=> WithSocket(x, TRUE, NoTimer).reap = NoTimer
         /\ WithSocket(x, FALSE, 1) \in SessionType
         /\ WithSocket(x, FALSE, 1).socket <=> WithSocket(x, FALSE, 1).reap = NoTimer
BY OpenType DEF WithSocket, Terminal, SessionType, NoTimer

\* A pending request names a member, a grant and how long it was asked for.
LEMMA PendingType ==
  ASSUME TypeOK, NEW q \in Requests, request[q].pending
  PROVE  request[q] \in [pending : {TRUE}, user : Members, grant : Grants, minutes : Minutes, ttl : 0..MaxMinutes]
<1>1. request[q] \in RequestType /\ request[q] # NoRequest
  BY DEF TypeOK, NoRequest
<1> QED BY <1>1 DEF RequestType

\* An edit of a member's rows keeps the types.
LEMMA EditOK ==
  ASSUME TypeOK, NEW m \in Members, NEW rows \in [Grants -> Times], Edit(m, rows)
  PROVE  TypeOK'
<1>1. left' \in [Members -> [Grants -> Times]]
  BY DEF Edit, TypeOK
<1>2. session' \in [Sessions -> SessionType] /\ \A x \in Sessions : SessionOK(x)'
  <2>1. Of(m) \subseteq {x \in Sessions : Open(x)} /\ {} \subseteq {x \in Sessions : Open(x)}
    BY DEF Of
  <2> QED BY <2>1, ClearedOK DEF Edit
<1> QED BY <1>1, <1>2 DEF Edit, TypeOK, SessionOK

\* Times a decision, an edit or the clock writes are times.
LEMMA TimeFacts ==
  /\ Minutes \subseteq Times /\ Forever \in Times /\ NoRow \in Times
  /\ \A t \in Times, n \in Minutes : Extended(t, n) \in Times /\ Extended(t, n) >= t
  /\ \A t \in Minutes : t - 1 \in Times
BY AccessConstants DEF Minutes, Times, Forever, NoRow, Extended

-----------------------------------------------------------------------------
(* Types *)

\* Every step keeps the types: the reap timer of a terminal is off exactly
\* while it has a socket (broker.ts).
LEMMA TypeStep == TypeOK /\ [Next]_vars => TypeOK'
<1> SUFFICES ASSUME TypeOK, [Next]_vars PROVE TypeOK'
  OBVIOUS
<1>0. CASE UNCHANGED vars
  BY <1>0 DEF vars, TypeOK, Open
<1>1. ASSUME NEW q \in Requests, NEW m \in Members, NEW g \in Grants, NEW n \in Minutes, Ask(q, m, g, n) PROVE TypeOK'
  <2>1. Pending(m, g, n, MaxMinutes) \in RequestType
    BY AccessConstants DEF Pending, RequestType
  <2> QED BY <1>1, <2>1 DEF Ask, TypeOK, Open
<1>2. ASSUME NEW q \in Requests, Withdraw(q) \/ Deny(q) PROVE TypeOK'
  BY <1>2 DEF Withdraw, Deny, Decided, RequestType, TypeOK, Open
<1>3. ASSUME NEW q \in Requests, NEW n \in Minutes, Approve(q, n) PROVE TypeOK'
  <2>1. request[q].user \in Members /\ request[q].grant \in Grants
    BY <1>3, PendingType DEF Approve
  <2>2. left' \in [Members -> [Grants -> Times]]
    BY <1>3, <2>1, TimeFacts DEF Approve, TypeOK
  <2>3. request' \in [Requests -> RequestType]
    BY <1>3 DEF Approve, Decided, TypeOK, RequestType
  <2> QED BY <1>3, <2>2, <2>3 DEF Approve, TypeOK, Open
<1>4. ASSUME NEW m \in Members, NEW drafts \in [Servers -> Times], ReplaceGrants(m, drafts) PROVE TypeOK'
  <2>1. [g \in Grants |-> IF g \in Servers THEN drafts[g] ELSE left[m][g]] \in [Grants -> Times]
    BY DEF TypeOK
  <2> QED BY <1>4, <2>1, EditOK DEF ReplaceGrants
<1>5. ASSUME NEW m \in Members, NEW listed, NEW picked, NEW n \in Minutes \union {Forever}, SaveList(m, listed, picked, n) PROVE TypeOK'
  <2>1. [g \in Grants |-> IF g \notin Servers THEN left[m][g]
                          ELSE IF g \notin listed THEN NoRow
                          ELSE IF g \in picked THEN n
                          ELSE IF left[m][g] = NoRow THEN Forever ELSE left[m][g]] \in [Grants -> Times]
    BY TimeFacts DEF TypeOK
  <2> QED BY <1>5, <2>1, EditOK DEF SaveList
<1>6. ASSUME NEW m \in Members, NEW n \in Minutes \union {Forever}, GiveRole(m, n) PROVE TypeOK'
  <2>1. [left[m] EXCEPT ![Role] = n] \in [Grants -> Times]
    BY TimeFacts DEF TypeOK
  <2> QED BY <1>6, <2>1, EditOK DEF GiveRole
<1>7. ASSUME NEW m \in Members, TakeRole(m) PROVE TypeOK'
  <2>1. [left[m] EXCEPT ![Role] = NoRow] \in [Grants -> Times]
    BY TimeFacts DEF TypeOK
  <2> QED BY <1>7, <2>1, EditOK DEF TakeRole
<1>8. ASSUME NEW m \in Members, OtherRole(m) PROVE TypeOK'
  <2>1. [left[m] EXCEPT ![Role] = IF @ = Expired THEN NoRow ELSE @] \in [Grants -> Times]
    BY TimeFacts DEF TypeOK, Grants
  <2> QED BY <1>8, <2>1, EditOK DEF OtherRole
<1>9. ASSUME NEW m \in Members, RemoveMember(m) PROVE TypeOK'
  <2>1. left' \in [Members -> [Grants -> Times]] /\ status' \in [Members -> {"active", "suspended", "removed"}]
    BY <1>9, TimeFacts DEF RemoveMember, TypeOK
  <2>2. request' \in [Requests -> RequestType]
    BY <1>9 DEF RemoveMember, Cancelled, TypeOK, RequestType
  <2> QED BY <1>9, <2>1, <2>2, CloseOK DEF RemoveMember, TypeOK, SessionOK
<1>10. ASSUME NEW m \in Members, Suspend(m) PROVE TypeOK'
  <2>1. status' \in [Members -> {"active", "suspended", "removed"}] /\ request' \in [Requests -> RequestType]
    BY <1>10 DEF Suspend, Cancelled, TypeOK, RequestType
  <2> QED BY <1>10, <2>1, CloseOK DEF Suspend, TypeOK, SessionOK
<1>11. ASSUME NEW m \in Members, Reactivate(m) PROVE TypeOK'
  BY <1>11 DEF Reactivate, TypeOK, Open
<1>12. ASSUME NEW m \in Members, SignOut(m) PROVE TypeOK'
  BY <1>12, CloseOK DEF SignOut, TypeOK, SessionOK
<1>13. ASSUME NEW to \in SUBSET Servers, ChangeRole(to) PROVE TypeOK'
  <2>1. UNION {Of(m) : m \in {h \in Members : left[h][Role] = Expired}} \subseteq {x \in Sessions : Open(x)}
    BY DEF Of
  <2>2. session' \in [Sessions -> SessionType] /\ \A x \in Sessions : SessionOK(x)'
    BY <1>13, <2>1, ClearedOK DEF ChangeRole
  <2> QED BY <1>13, <2>2 DEF ChangeRole, TypeOK, SessionOK
<1>14. ASSUME NEW x \in Sessions, Register(x) PROVE TypeOK'
  <2> DEFINE to == Terminal(session[x].user, session[x].server, FALSE, 1, FALSE)
  <2>1. to \in SessionType
    BY <1>14, OpenType DEF Register, Terminal, SessionType, NoTimer
  <2>2. to.socket <=> to.reap = NoTimer
    BY DEF Terminal, NoTimer
  <2>3. session' = [session EXCEPT ![x] = to] /\ UNCHANGED <<status, left, covers, request, swept>>
    BY <1>14 DEF Register
  <2> HIDE DEF to
  <2> QED BY <2>1, <2>2, <2>3, OneSessionOK
<1>15. ASSUME NEW x \in Sessions, OpenFails(x) PROVE TypeOK'
  BY <1>15, OneSessionOK DEF OpenFails, SessionType, Closed
<1>16. ASSUME NEW x \in Sessions, Reap(x) \/ Ends(x) PROVE TypeOK'
  BY <1>16, CloseOK DEF Reap, Ends, TypeOK, SessionOK
<1>17. ASSUME NEW x \in Sessions, NEW m \in Members, NEW s \in Servers, OpenBegin(x, m, s) PROVE TypeOK'
  BY <1>17, OneSessionOK DEF OpenBegin, Authorised, SessionType
<1>18. ASSUME NEW x \in Sessions, Attach(x) PROVE TypeOK'
  <2>1. Attached(x) \in SessionType /\ (Attached(x).at = "open" => (Attached(x).socket <=> Attached(x).reap = NoTimer))
    <3>1. CASE session[x].server \in Reach(session[x].user)
      BY <1>18, <3>1, SocketOK DEF Attach, Attached
    <3>2. CASE session[x].server \notin Reach(session[x].user)
      BY <3>2 DEF Attached, SessionType, Closed
    <3> QED BY <3>1, <3>2
  <2> QED BY <1>18, <2>1, OneSessionOK DEF Attach
<1>19. ASSUME NEW x \in Sessions, Detach(x) PROVE TypeOK'
  <2>1. Detached(x) \in SessionType /\ (Detached(x).at = "open" => (Detached(x).socket <=> Detached(x).reap = NoTimer))
    BY <1>19, SocketOK DEF Detach, Detached
  <2> QED BY <1>19, <2>1, OneSessionOK DEF Detach
<1>20. ASSUME NEW more, Sweep(more) PROVE TypeOK'
  <2>1. left' \in [Members -> [Grants -> Times]] /\ request' \in [Requests -> RequestType]
    BY <1>20, TimeFacts DEF Sweep, TypeOK, RequestType
  <2> QED BY <1>20, <2>1, CloseOK DEF Sweep, TypeOK, SessionOK
<1>21. CASE Tick
  <2>1. left' \in [Members -> [Grants -> Times]]
    BY <1>21, TimeFacts DEF Tick, TypeOK
  <2>2. request' \in [Requests -> RequestType]
    <3>1. ASSUME NEW q \in Requests PROVE request'[q] \in RequestType
      <4>1. CASE request[q].pending /\ request[q].ttl > 0
        <5>1. request[q] \in [pending : {TRUE}, user : Members, grant : Grants, minutes : Minutes, ttl : 0..MaxMinutes]
          BY <4>1, PendingType
        <5>2. request'[q] = [request[q] EXCEPT !.ttl = request[q].ttl - 1]
          BY <1>21, <4>1 DEF Tick
        <5>3. request[q].ttl - 1 \in 0..MaxMinutes
          <6>1. request[q].ttl \in 0..MaxMinutes
            BY <5>1
          <6> QED BY <4>1, <6>1, AccessConstants
        <5> QED BY <5>1, <5>2, <5>3 DEF RequestType
      <4>2. CASE ~(request[q].pending /\ request[q].ttl > 0)
        BY <1>21, <4>2 DEF Tick, TypeOK
      <4> QED BY <4>1, <4>2
    <3> QED BY <1>21, <3>1 DEF Tick
  <2>3. \A x \in Sessions : session'[x] \in SessionType /\ SessionOK(x)'
    BY SMTT(30), <1>21, OpenType DEF Tick, TypeOK, SessionOK, SessionType, Open, NoTimer
  <2>4. session' \in [Sessions -> SessionType]
    BY <1>21, <2>3 DEF Tick
  <2> QED BY <1>21, <2>1, <2>2, <2>3, <2>4 DEF Tick, TypeOK, SessionOK
<1> QED
  BY <1>0, <1>1, <1>2, <1>3, <1>4, <1>5, <1>6, <1>7, <1>8, <1>9, <1>10, <1>11, <1>12, <1>13, <1>14, <1>15, <1>16, <1>17, <1>18, <1>19, <1>20, <1>21
  DEF Next, Asking, Edited, Membership, Opening, Using, Sweeping

\* TypeOK holds in every state of every behaviour.
THEOREM TypeCorrect == Spec => []TypeOK
<1>1. Init => TypeOK
  BY AccessConstants DEF Init, TypeOK, RequestType, SessionType, Open, Closed, Times, NoRow, Forever
<1> QED BY <1>1, TypeStep, PTL DEF Spec

-----------------------------------------------------------------------------
(* Requests *)

\* A request stays pending only as long as its member stays active, through
\* every decision, suspension and sweep.
LEMMA PendingStep == TypeOK /\ PendingOnlyActive /\ [Next]_vars => PendingOnlyActive'
<1> SUFFICES ASSUME TypeOK, PendingOnlyActive, [Next]_vars, NEW q \in Requests, request'[q].pending
             PROVE  status'[request'[q].user] = "active"
  BY DEF PendingOnlyActive
<1> USE DEF PendingOnlyActive
<1>1. CASE UNCHANGED <<status, request>>
  BY <1>1
<1>2. ASSUME NEW p \in Requests, NEW m \in Members, NEW g \in Grants, NEW n \in Minutes, Ask(p, m, g, n)
      PROVE status'[request'[q].user] = "active"
  <2>1. CASE p = q
    BY <1>2, <2>1 DEF Ask, Pending, TypeOK
  <2>2. CASE p # q
    BY <1>2, <2>2 DEF Ask, TypeOK
  <2> QED BY <2>1, <2>2
<1>3. ASSUME NEW p \in Requests, Decided(p), UNCHANGED status PROVE status'[request'[q].user] = "active"
  <2>1. q # p
    BY <1>3 DEF Decided, NoRequest, TypeOK
  <2> QED BY <1>3, <2>1 DEF Decided, TypeOK
<1>4. ASSUME NEW m \in Members, request' = Cancelled(m), NEW to, status' = [status EXCEPT ![m] = to]
      PROVE status'[request'[q].user] = "active"
  <2>1. request'[q] = request[q] /\ request[q].pending /\ request[q].user # m
    BY <1>4 DEF Cancelled, NoRequest
  <2>2. request[q].user \in Members
    BY <2>1, PendingType
  <2> QED BY <1>4, <2>1, <2>2 DEF TypeOK
<1>5. ASSUME NEW m \in Members, Reactivate(m) PROVE status'[request'[q].user] = "active"
  <2>1. request[q].pending /\ request'[q] = request[q] /\ request[q].user \in Members
    BY <1>5, PendingType DEF Reactivate
  <2> QED BY <1>5, <2>1 DEF Reactivate, TypeOK
<1>6. ASSUME NEW more, Sweep(more) PROVE status'[request'[q].user] = "active"
  BY <1>6 DEF Sweep, NoRequest
<1>7. CASE Tick
  <2>1. request[q].pending /\ request'[q].user = request[q].user
    <3>1. CASE request[q].pending /\ request[q].ttl > 0
      BY <1>7, <3>1, PendingType DEF Tick
    <3>2. CASE ~(request[q].pending /\ request[q].ttl > 0)
      BY <1>7, <3>2 DEF Tick
    <3> QED BY <3>1, <3>2
  <2> QED BY <1>7, <2>1 DEF Tick
<1> QED
  <2>1. CASE UNCHANGED vars
    BY <1>1, <2>1 DEF vars
  <2>2. CASE Asking
    BY <1>2, <1>3, <2>2 DEF Asking, Withdraw, Deny, Approve
  <2>3. ASSUME NEW m \in Members, Edited(m) \/ Membership(m) PROVE status'[request'[q].user] = "active"
    BY <1>1, <1>4, <1>5, <2>3
    DEF Edited, Membership, ReplaceGrants, SaveList, GiveRole, TakeRole, OtherRole, Edit, RemoveMember, Suspend, SignOut
  <2>4. ASSUME NEW to, ChangeRole(to) PROVE status'[request'[q].user] = "active"
    BY <1>1, <2>4 DEF ChangeRole
  <2>5. ASSUME NEW x \in Sessions, Opening(x) \/ Reap(x) \/ Using(x) PROVE status'[request'[q].user] = "active"
    BY <1>1, <2>5 DEF Opening, Using, Register, OpenFails, Reap, OpenBegin, Attach, Detach, Ends
  <2> QED BY <1>6, <1>7, <2>1, <2>2, <2>3, <2>4, <2>5 DEF Next, Sweeping

\* Nobody is asked to decide a request of a member who is not active
\* (access-grants.ts cancelPendingAccessRequests).
THEOREM OnlyActiveAsk == Spec => []PendingOnlyActive
<1>1. Init => PendingOnlyActive
  BY DEF Init, PendingOnlyActive, NoRequest
<1> QED BY <1>1, TypeCorrect, PendingStep, PTL DEF Spec

\* A time left in force is never cut by a decision, and the sweep takes only
\* what expired.
LEMMA NeverShortenedStep ==
  TypeOK /\ [Next]_vars =>
    \A m \in Members, g \in Grants :
      /\ (\E q \in Requests : request[q].pending /\ ~request'[q].pending)
         /\ UNCHANGED <<status, swept>> => left'[m][g] >= left[m][g]
      /\ ~swept /\ swept' /\ left[m][g] # Expired => left'[m][g] = left[m][g]
<1> SUFFICES ASSUME TypeOK, [Next]_vars, NEW m \in Members, NEW g \in Grants
             PROVE  /\ (\E q \in Requests : request[q].pending /\ ~request'[q].pending)
                       /\ UNCHANGED <<status, swept>> => left'[m][g] >= left[m][g]
                    /\ ~swept /\ swept' /\ left[m][g] # Expired => left'[m][g] = left[m][g]
  OBVIOUS
<1> DEFINE Goal ==
  /\ (\E q \in Requests : request[q].pending /\ ~request'[q].pending)
     /\ UNCHANGED <<status, swept>> => left'[m][g] >= left[m][g]
  /\ ~swept /\ swept' /\ left[m][g] # Expired => left'[m][g] = left[m][g]
<1>0. left[m][g] \in Int
  BY AccessConstants DEF TypeOK, Times, NoRow, Forever
<1>1. CASE UNCHANGED <<left, swept>>
  BY <1>0, <1>1
<1>2. CASE UNCHANGED <<request, swept>>
  BY <1>2
<1>3. ASSUME NEW q \in Requests, NEW n \in Minutes, Approve(q, n) PROVE Goal
  <2>1. request[q].user \in Members /\ request[q].grant \in Grants
    BY <1>3, PendingType DEF Approve
  <2>2. left'[m][g] = left[m][g] \/ (m = request[q].user /\ g = request[q].grant /\ left'[m][g] = Extended(left[m][g], n))
    BY <1>3, <2>1 DEF Approve, TypeOK
  <2>3. left[m][g] \in Times
    BY DEF TypeOK
  <2> QED BY <1>0, <1>3, <2>2, <2>3, TimeFacts DEF Approve
<1>4. ASSUME NEW p \in Members, RemoveMember(p) \/ Suspend(p) PROVE Goal
  <2>1. status'[p] # status[p] /\ swept' = swept
    BY <1>4 DEF RemoveMember, Suspend, TypeOK
  <2> QED BY <2>1
<1>5. ASSUME NEW more, Sweep(more) PROVE Goal
  BY <1>5 DEF Sweep
<1>6. CASE Tick
  BY <1>6 DEF Tick
<1> QED
  <2>1. CASE UNCHANGED vars
    BY <1>1, <2>1 DEF vars
  <2>2. CASE Asking
    BY <1>1, <1>3, <2>2 DEF Asking, Ask, Withdraw, Deny
  <2>3. ASSUME NEW p \in Members, Edited(p) \/ Membership(p) PROVE Goal
    BY <1>1, <1>2, <1>4, <2>3
    DEF Edited, Membership, ReplaceGrants, SaveList, GiveRole, TakeRole, OtherRole, Edit, Reactivate, SignOut
  <2>4. ASSUME NEW to, ChangeRole(to) PROVE Goal
    BY <1>1, <2>4 DEF ChangeRole
  <2>5. ASSUME NEW x \in Sessions, Opening(x) \/ Reap(x) \/ Using(x) PROVE Goal
    BY <1>1, <2>5 DEF Opening, Using, Register, OpenFails, Reap, OpenBegin, Attach, Detach, Ends
  <2> QED BY <1>5, <1>6, <2>1, <2>2, <2>3, <2>4, <2>5 DEF Next, Sweeping

\* An approval extends access and never shortens it (access-grants.ts
\* extendGrants), and the sweep deletes expired rows only.
THEOREM ApprovalsExtend == Spec => NeverShortened
<1>1. TypeOK /\ [Next]_vars =>
        [\A m \in Members, g \in Grants :
          /\ (\E q \in Requests : request[q].pending /\ ~request'[q].pending)
             /\ UNCHANGED <<status, swept>> => left'[m][g] >= left[m][g]
          /\ ~swept /\ swept' /\ left[m][g] # Expired => left'[m][g] = left[m][g]]_vars
  BY NeverShortenedStep
<1> QED BY <1>1, TypeCorrect, PTL DEF Spec, NeverShortened

-----------------------------------------------------------------------------
(* Terminals in use *)

\* The member's own grant on the terminal's server, or the role that covers
\* it, expired in this minute: what AwaitsSweep leaves out is which grant.  An
\* approval may renew another one, so AttachedInReach is not inductive alone.
Late(x) ==
  LET m == session[x].user
      s == session[x].server
  IN  status[m] = "active" /\ (left[m][s] = Expired \/ (s \in covers /\ left[m][Role] = Expired))

InUse(x) == Open(x) /\ session[x].socket /\ ~session[x].passed

\* The inductive invariant.
AllInReach == \A x \in Sessions : InUse(x) => InReach(x) \/ Late(x)

\* A terminal in use after sessions closed or were marked is none of those.
LEMMA Survivor ==
  ASSUME TypeOK, NEW gone, NEW past, Cleared(gone, past), past \subseteq {x \in Sessions : Open(x)},
         NEW x \in Sessions, InUse(x)'
  PROVE  x \notin gone /\ x \notin past /\ session'[x] = session[x] /\ InUse(x)
<1>1. x \notin gone
  BY DEF Cleared, InUse, Open, Closed
<1>2. x \notin past
  <2>1. SUFFICES ASSUME x \in past PROVE FALSE
    OBVIOUS
  <2>2. session'[x] = [session[x] EXCEPT !.passed = TRUE] /\ Open(x)
    BY <1>1, <2>1 DEF Cleared
  <2>3. session'[x].passed
    BY <2>2, OpenType
  <2> QED BY <2>3 DEF InUse
<1> QED BY <1>1, <1>2 DEF Cleared, InUse, Open

\* What revokeAfterChange leaves open of a member is in reach after the change
\* if it was before.
LEMMA AfterChangeKeeps ==
  ASSUME NEW x \in Sessions, Open(x), InReach(x), x \notin AfterChange(session[x].user)
  PROVE  session[x].server \in Reach(session[x].user)'
BY DEF InReach, AfterChange, OutOfReach, Of

\* After an edit of one member's rows, as revokeAfterChange leaves it.
LEMMA EditInReach ==
  ASSUME TypeOK, AllInReach, NEW m \in Members, NEW rows \in [Grants -> Times], Edit(m, rows)
  PROVE  AllInReach'
<1> DEFINE past == IF \E g \in Grants : left[m][g] = Expired /\ rows[g] # Expired THEN Of(m) ELSE {}
<1> SUFFICES ASSUME NEW x \in Sessions, InUse(x)' PROVE InReach(x)' \/ Late(x)'
  BY DEF AllInReach
<1>1. past \subseteq {y \in Sessions : Open(y)} /\ Cleared(AfterChange(m), past)
  BY DEF Of, Edit
<1>2. x \notin AfterChange(m) /\ x \notin past /\ session'[x] = session[x] /\ InUse(x)
  <2> HIDE DEF past
  <2> QED BY <1>1, Survivor
<1>3. (InReach(x) \/ Late(x)) /\ Open(x) /\ session[x].user \in Members /\ session[x].server \in Servers
  BY <1>2, OpenType DEF AllInReach, InUse
<1>4. UNCHANGED <<status, covers>> /\ left' = [left EXCEPT ![m] = rows]
  BY DEF Edit
<1>5. CASE session[x].user # m
  <2>1. left'[session[x].user] = left[session[x].user]
    BY <1>3, <1>4, <1>5 DEF TypeOK
  <2> QED BY <1>2, <1>3, <1>4, <2>1 DEF InReach, Late, Reach
<1>6. CASE session[x].user = m /\ InReach(x)
  BY <1>2, <1>3, <1>6, AfterChangeKeeps DEF InReach
<1>7. CASE session[x].user = m /\ Late(x)
  <2>1. x \in Of(m)
    BY <1>3, <1>7 DEF Of
  <2>2. \A g \in Grants : left[m][g] = Expired => rows[g] = Expired
    BY <1>2, <2>1
  <2>3. left'[m] = rows
    BY <1>4 DEF TypeOK
  <2> QED BY <1>2, <1>3, <1>4, <1>7, <2>2, <2>3 DEF Late, Grants
<1> QED BY <1>3, <1>5, <1>6, <1>7

\* Where nobody's reach shrinks nor any grant's expiry passes, it is enough
\* that no terminal comes into use that was not.
LEMMA SameInReach ==
  ASSUME TypeOK, AllInReach, UNCHANGED <<status, left, covers>>,
         \A x \in Sessions : InUse(x)' =>
            /\ session'[x].user = session[x].user /\ session'[x].server = session[x].server
            /\ InUse(x) \/ InReach(x)
  PROVE  AllInReach'
BY DEF AllInReach, InReach, Late, Reach

\* Every step keeps the inductive invariant.
LEMMA InReachStep == TypeOK /\ AllInReach /\ [Next]_vars => AllInReach'
<1> SUFFICES ASSUME TypeOK, AllInReach, [Next]_vars PROVE AllInReach'
  OBVIOUS
<1>1. ASSUME UNCHANGED <<status, left, covers, session>> PROVE AllInReach'
  BY <1>1 DEF AllInReach, InUse, InReach, Late, Reach, Open
<1>2. ASSUME NEW q \in Requests, NEW n \in Minutes, Approve(q, n) PROVE AllInReach'
  <2> SUFFICES ASSUME NEW x \in Sessions, InUse(x)' PROVE InReach(x)' \/ Late(x)'
    BY DEF AllInReach
  <2>1. InUse(x) /\ session'[x] = session[x] /\ UNCHANGED <<status, covers>>
    BY <1>2 DEF Approve, InUse, Open
  <2>2. session[x].user \in Members /\ session[x].server \in Servers /\ (InReach(x) \/ Late(x))
    BY <2>1, OpenType DEF InUse, AllInReach
  <2>3. request[q].user \in Members /\ request[q].grant \in Grants
    BY <1>2, PendingType DEF Approve
  <2>4. \A m \in Members, g \in Grants : left'[m][g] = left[m][g] \/ left'[m][g] > 0
    <3> TAKE m \in Members, g \in Grants
    <3>1. left[m][g] \in Times
      BY DEF TypeOK
    <3>2. CASE m = request[q].user /\ g = request[q].grant
      <4>1. left'[m][g] = Extended(left[m][g], n)
        BY <1>2, <2>3, <3>2 DEF Approve, TypeOK
      <4> QED BY <3>1, <4>1, AccessConstants DEF Extended, Times, NoRow, Forever, Minutes
    <3>3. CASE ~(m = request[q].user /\ g = request[q].grant)
      BY <1>2, <2>3, <3>3 DEF Approve, TypeOK
    <3> QED BY <3>2, <3>3
  <2>5. \A m \in Members, g \in Grants : left[m][g] > 0 => left'[m][g] > 0
    BY <2>4
  <2>6. session[x].server \in Grants /\ Role \in Grants
    BY <2>2 DEF Grants
  <2>7. CASE InReach(x)
    BY <2>1, <2>2, <2>5, <2>6, <2>7 DEF InReach, Reach
  <2>8. CASE Late(x)
    <3>1. \A g \in Grants : left[session[x].user][g] = Expired => left'[session[x].user][g] = Expired \/ left'[session[x].user][g] > 0
      BY <2>2, <2>4
    <3> QED BY <2>1, <2>2, <2>6, <2>8, <3>1 DEF InReach, Late, Reach
  <2> QED BY <2>2, <2>7, <2>8
<1>3. ASSUME NEW m \in Members, Edited(m) PROVE AllInReach'
  <2>1. ASSUME NEW drafts \in [Servers -> Times], ReplaceGrants(m, drafts) PROVE AllInReach'
    <3>1. [g \in Grants |-> IF g \in Servers THEN drafts[g] ELSE left[m][g]] \in [Grants -> Times]
      BY DEF TypeOK
    <3> QED BY <2>1, <3>1, EditInReach DEF ReplaceGrants
  <2>2. ASSUME NEW listed, NEW picked, NEW n \in Minutes \union {Forever}, SaveList(m, listed, picked, n) PROVE AllInReach'
    <3>1. [g \in Grants |-> IF g \notin Servers THEN left[m][g]
                            ELSE IF g \notin listed THEN NoRow
                            ELSE IF g \in picked THEN n
                            ELSE IF left[m][g] = NoRow THEN Forever ELSE left[m][g]] \in [Grants -> Times]
      BY TimeFacts DEF TypeOK
    <3> QED BY <2>2, <3>1, EditInReach DEF SaveList
  <2>3. ASSUME NEW n \in Minutes \union {Forever}, GiveRole(m, n) PROVE AllInReach'
    <3>1. [left[m] EXCEPT ![Role] = n] \in [Grants -> Times]
      BY TimeFacts DEF TypeOK
    <3> QED BY <2>3, <3>1, EditInReach DEF GiveRole
  <2>4. ASSUME TakeRole(m) PROVE AllInReach'
    <3>1. [left[m] EXCEPT ![Role] = NoRow] \in [Grants -> Times]
      BY TimeFacts DEF TypeOK
    <3> QED BY <2>4, <3>1, EditInReach DEF TakeRole
  <2>5. ASSUME OtherRole(m) PROVE AllInReach'
    <3>1. [left[m] EXCEPT ![Role] = IF @ = Expired THEN NoRow ELSE @] \in [Grants -> Times]
      BY TimeFacts DEF TypeOK, Grants
    <3> QED BY <2>5, <3>1, EditInReach DEF OtherRole
  <2>6. ASSUME RemoveMember(m) PROVE AllInReach'
    <3> SUFFICES ASSUME NEW x \in Sessions, InUse(x)' PROVE InReach(x)' \/ Late(x)'
      BY DEF AllInReach
    <3>1. Cleared(Of(m), {})
      BY <2>6 DEF RemoveMember, Close, Cleared
    <3>2. x \notin Of(m) /\ session'[x] = session[x] /\ InUse(x)
      BY <3>1, Survivor
    <3>3. session[x].user \in Members \ {m} /\ session[x].server \in Servers /\ (InReach(x) \/ Late(x))
      BY <3>2, OpenType DEF Of, InUse, AllInReach
    <3>4. left'[session[x].user] = left[session[x].user] /\ status'[session[x].user] = status[session[x].user] /\ covers' = covers
      BY <2>6, <3>3 DEF RemoveMember, TypeOK
    <3> QED BY <3>2, <3>3, <3>4 DEF InReach, Late, Reach
  <2> QED BY <1>3, <2>1, <2>2, <2>3, <2>4, <2>5, <2>6 DEF Edited
<1>4. ASSUME NEW m \in Members, Suspend(m) PROVE AllInReach'
  <2> SUFFICES ASSUME NEW x \in Sessions, InUse(x)' PROVE InReach(x)' \/ Late(x)'
    BY DEF AllInReach
  <2>1. Cleared(Of(m), {})
    BY <1>4 DEF Suspend, Close, Cleared
  <2>2. x \notin Of(m) /\ session'[x] = session[x] /\ InUse(x)
    BY <2>1, Survivor
  <2>3. session[x].user \in Members \ {m} /\ (InReach(x) \/ Late(x))
    BY <2>2, OpenType DEF Of, InUse, AllInReach
  <2>4. status'[session[x].user] = status[session[x].user] /\ UNCHANGED <<left, covers>>
    BY <1>4, <2>3 DEF Suspend, TypeOK
  <2> QED BY <2>2, <2>3, <2>4 DEF InReach, Late, Reach
<1>5. ASSUME NEW m \in Members, Reactivate(m) PROVE AllInReach'
  <2> SUFFICES ASSUME NEW x \in Sessions, InUse(x)' PROVE InReach(x)' \/ Late(x)'
    BY DEF AllInReach
  <2>1. session'[x] = session[x] /\ InUse(x) /\ UNCHANGED <<left, covers>>
    BY <1>5 DEF Reactivate, InUse, Open
  <2>2. session[x].user \in Members /\ (InReach(x) \/ Late(x))
    BY <2>1, OpenType DEF InUse, AllInReach
  <2>3. status[session[x].user] = "active"
    BY <2>2 DEF InReach, Late, Reach
  <2>4. status'[session[x].user] = "active"
    BY <1>5, <2>2, <2>3 DEF Reactivate, TypeOK
  <2> QED BY <2>1, <2>2, <2>3, <2>4 DEF InReach, Late, Reach
<1>6. ASSUME NEW gone, Close(gone), UNCHANGED <<status, left, covers>> PROVE AllInReach'
  <2>1. \A x \in Sessions : InUse(x)' => session'[x] = session[x] /\ InUse(x)
    <3>1. Cleared(gone, {})
      BY <1>6 DEF Close, Cleared
    <3> QED BY <3>1, Survivor
  <2> QED BY <1>6, <2>1, SameInReach
<1>7. ASSUME NEW to, ChangeRole(to) PROVE AllInReach'
  <2> DEFINE holders == {h \in Members : left[h][Role] # NoRow}
             gone == UNION {AfterChange(m) : m \in holders}
             past == UNION {Of(m) : m \in {h \in Members : left[h][Role] = Expired}}
  <2> SUFFICES ASSUME NEW x \in Sessions, InUse(x)' PROVE InReach(x)' \/ Late(x)'
    BY DEF AllInReach
  <2>1. Cleared(gone, past) /\ past \subseteq {y \in Sessions : Open(y)}
    BY <1>7 DEF ChangeRole, Of
  <2>2. x \notin gone /\ x \notin past /\ session'[x] = session[x] /\ InUse(x)
    <3> HIDE DEF gone, past
    <3> QED BY <2>1, Survivor
  <2>3. session[x].user \in Members /\ Open(x) /\ (InReach(x) \/ Late(x)) /\ UNCHANGED <<left, status>>
    BY <1>7, <2>2, OpenType DEF InUse, AllInReach, ChangeRole
  <2>4. left[session[x].user][Role] # Expired
    BY <2>2, <2>3 DEF Of
  <2>5. CASE left[session[x].user][Role] = NoRow
    BY <2>2, <2>3, <2>5 DEF InReach, Late, Reach, NoRow, Expired
  <2>6. CASE left[session[x].user][Role] # NoRow /\ InReach(x)
    <3>1. x \notin AfterChange(session[x].user)
      BY <2>2, <2>3, <2>6
    <3> QED BY <2>2, <2>3, <2>6, <3>1, AfterChangeKeeps DEF InReach
  <2>7. CASE Late(x)
    BY <2>2, <2>3, <2>4, <2>7 DEF Late
  <2> QED BY <2>3, <2>5, <2>6, <2>7
<1>8. ASSUME NEW x \in Sessions, NEW to, session' = [session EXCEPT ![x] = to], UNCHANGED <<status, left, covers>>,
             to.at = "open" /\ to.socket => InReach(x) /\ to.user = session[x].user /\ to.server = session[x].server
      PROVE AllInReach'
  <2>1. ASSUME NEW y \in Sessions, InUse(y)'
        PROVE /\ session'[y].user = session[y].user /\ session'[y].server = session[y].server
              /\ InUse(y) \/ InReach(y)
    <3>1. CASE y = x
      BY <1>8, <2>1, <3>1 DEF InUse, Open, TypeOK
    <3>2. CASE y # x
      BY <1>8, <2>1, <3>2 DEF InUse, Open, TypeOK
    <3> QED BY <3>1, <3>2
  <2> QED BY <1>8, <2>1, SameInReach
<1>9. ASSUME NEW x \in Sessions, Opening(x) \/ Reap(x) \/ Using(x) PROVE AllInReach'
  <2>1. CASE Register(x)
    BY <1>8, <2>1 DEF Register, Terminal
  <2>2. CASE OpenFails(x)
    BY <1>8, <2>2 DEF OpenFails, Closed
  <2>3. CASE Reap(x) \/ Ends(x)
    BY <1>6, <2>3 DEF Reap, Ends
  <2>4. ASSUME NEW m, NEW s, OpenBegin(x, m, s) PROVE AllInReach'
    BY <1>8, <2>4 DEF OpenBegin, Authorised
  <2>5. CASE Attach(x)
    <3>1. Attached(x).at = "open" /\ Attached(x).socket =>
            InReach(x) /\ Attached(x).user = session[x].user /\ Attached(x).server = session[x].server
      BY DEF Attached, InReach, WithSocket, Terminal, Closed
    <3> QED BY <1>8, <2>5, <3>1 DEF Attach
  <2>6. CASE Detach(x)
    <3>1. ~Detached(x).socket
      BY DEF Detached, WithSocket, Terminal
    <3> QED BY <1>8, <2>6, <3>1 DEF Detach
  <2> QED BY <1>9, <2>1, <2>2, <2>3, <2>4, <2>5, <2>6 DEF Opening, Using
<1>10. ASSUME NEW more, Sweep(more) PROVE AllInReach'
  <2> DEFINE expired == {m \in Members : \E g \in Grants : left[m][g] = Expired}
             gone == UNION {OutOfReach(m) : m \in expired \union more}
  <2> SUFFICES ASSUME NEW x \in Sessions, InUse(x)' PROVE InReach(x)' \/ Late(x)'
    BY DEF AllInReach
  <2>1. Cleared(gone, {})
    BY <1>10 DEF Sweep, Close, Cleared
  <2>2. x \notin gone /\ session'[x] = session[x] /\ InUse(x)
    <3> HIDE DEF gone
    <3> QED BY <2>1, Survivor
  <2>3. session[x].user \in Members /\ session[x].server \in Servers /\ Open(x) /\ (InReach(x) \/ Late(x)) /\ UNCHANGED <<covers, status>>
    BY <1>10, <2>2, OpenType DEF InUse, AllInReach, Sweep
  <2>4. CASE Late(x)
    <3>1. session[x].user \in expired
      BY <2>3, <2>4 DEF Late, Grants
    <3>2. x \notin OutOfReach(session[x].user)
      BY <2>2, <3>1
    <3> QED BY <2>2, <2>3, <3>2 DEF OutOfReach, Of, InReach
  <2>5. CASE InReach(x)
    <3>1. \A g \in Grants : left[session[x].user][g] > 0 => left'[session[x].user][g] = left[session[x].user][g]
      BY <1>10, <2>3 DEF Sweep, Expired
    <3> QED BY <2>2, <2>3, <2>5, <3>1 DEF InReach, Reach, Grants
  <2> QED BY <2>3, <2>4, <2>5
<1>11. CASE Tick
  <2> SUFFICES ASSUME NEW x \in Sessions, InUse(x)' PROVE InReach(x)' \/ Late(x)'
    BY DEF AllInReach
  <2>1. session'[x] = session[x]
    <3>1. SUFFICES ASSUME Open(x) /\ session[x].reap = 1 PROVE FALSE
      BY <1>11 DEF Tick
    <3>2. ~session[x].socket
      BY <3>1 DEF TypeOK, NoTimer
    <3>3. session'[x] = [session[x] EXCEPT !.reap = 0]
      BY <1>11, <3>1 DEF Tick
    <3>4. session'[x].socket = session[x].socket
      BY <3>1, <3>3, OpenType
    <3> QED BY <3>2, <3>4 DEF InUse
  <2>2. InUse(x) /\ UNCHANGED <<covers, status>>
    BY <1>11, <2>1 DEF Tick, InUse, Open
  <2>3. session[x].user \in Members /\ session[x].server \in Grants /\ Role \in Grants /\ (InReach(x) \/ Late(x))
    BY <2>2, OpenType DEF InUse, AllInReach, Grants
  <2>4. \A m \in Members, g \in Grants :
          /\ left[m][g] > 0 => left'[m][g] > 0 \/ left'[m][g] = Expired
          /\ left[m][g] = Expired => left'[m][g] = Expired
    <3> TAKE m \in Members, g \in Grants
    <3>1. left[m][g] \in Int /\ left'[m][g] = IF left[m][g] \in Minutes THEN left[m][g] - 1 ELSE left[m][g]
      BY <1>11, AccessConstants DEF Tick, TypeOK, Times, NoRow, Forever
    <3> QED BY <3>1, AccessConstants DEF Minutes, Expired
  <2> QED BY <2>1, <2>2, <2>3, <2>4 DEF InReach, Late, Reach, Expired
<1> QED
  <2>1. CASE UNCHANGED vars
    BY <1>1, <2>1 DEF vars
  <2>2. CASE Asking
    BY <1>1, <1>2, <2>2 DEF Asking, Ask, Withdraw, Deny
  <2>3. ASSUME NEW m \in Members, Membership(m) PROVE AllInReach'
    BY <1>4, <1>5, <1>6, <2>3 DEF Membership, SignOut
  <2> QED BY <1>3, <1>7, <1>9, <1>10, <1>11, <2>1, <2>2, <2>3 DEF Next, Sweeping

\* A terminal somebody uses is one its member reaches, or could until this
\* minute's sweep, however requests, edits and opens interleave (revoke.ts,
\* ssh-sessions.ts:109-131).
THEOREM UsedInReach == Spec => []AttachedInReach
<1>1. Init => AllInReach
  BY DEF Init, AllInReach, InUse, Open, Closed
<1>2. TypeOK /\ AllInReach => AttachedInReach
  <2> SUFFICES ASSUME TypeOK, AllInReach, NEW x \in Sessions, InUse(x), Late(x) PROVE AwaitsSweep(x)
    BY DEF AllInReach, AttachedInReach, InUse
  <2>1. session[x].server \in Grants /\ Role \in Grants
    BY OpenType DEF InUse, Grants
  <2> QED BY <2>1 DEF Late, AwaitsSweep
<1> QED BY <1>1, <1>2, TypeCorrect, InReachStep, PTL DEF Spec

\* No step closes a terminal in use that is still in reach, but its own end
\* and a sign-out.
LEMMA KeepsStep ==
  ASSUME TypeOK, [Next]_vars, NEW m \in Members, NEW x \in Of(m),
         session[x].socket, session[x].server \in Reach(m)', session'[x] = Closed
  PROVE  Ends(x) \/ SignOut(m)
<1>0. x \in Sessions /\ Open(x) /\ session[x].user = m /\ session[x].at # "none" /\ session[x].reap = NoTimer
  BY DEF Of, Open, TypeOK
<1>1. CASE session' = session
  BY <1>0, <1>1 DEF Closed
<1>2. status'[m] = "active"
  BY DEF Reach
<1>3. ASSUME NEW p \in Members, NEW rows, Edit(p, rows) PROVE FALSE
  <2>1. x \in AfterChange(p)
    <3>1. session'[x] # [session[x] EXCEPT !.passed = TRUE] /\ session'[x] # session[x]
      BY <1>0, OpenType DEF Closed
    <3> QED BY <1>0, <1>3, <3>1 DEF Edit, Cleared
  <2> QED BY <1>0, <2>1 DEF AfterChange, OutOfReach, Of
<1>4. ASSUME NEW p \in Members, RemoveMember(p) \/ Suspend(p) PROVE FALSE
  <2>1. x \in Of(p)
    BY <1>0, <1>4 DEF RemoveMember, Suspend, Close, Closed
  <2>2. status'[p] # "active"
    BY <1>4 DEF RemoveMember, Suspend, TypeOK
  <2> QED BY <1>0, <1>2, <2>1, <2>2 DEF Of
<1>5. ASSUME NEW p \in Members, SignOut(p) PROVE SignOut(m)
  <2>1. x \in Of(p)
    BY <1>0, <1>5 DEF SignOut, Close, Closed
  <2> QED BY <1>0, <1>5, <2>1 DEF Of
<1>6. ASSUME NEW to, ChangeRole(to) PROVE FALSE
  <2>1. PICK h \in Members : x \in AfterChange(h)
    <3>1. session'[x] # [session[x] EXCEPT !.passed = TRUE] /\ session'[x] # session[x]
      BY <1>0, OpenType DEF Closed
    <3> QED BY <1>0, <1>6, <3>1 DEF ChangeRole, Cleared
  <2> QED BY <1>0, <2>1 DEF AfterChange, OutOfReach, Of
<1>7. ASSUME NEW y \in Sessions, y # x, NEW to, session' = [session EXCEPT ![y] = to] PROVE FALSE
  BY <1>0, <1>7 DEF Closed
<1>8. ASSUME NEW y \in Sessions, Opening(y) \/ Reap(y) \/ Using(y) PROVE Ends(x)
  <2>1. ASSUME Reap(y) \/ Ends(y) PROVE Ends(x)
    <3>1. y = x
      BY <1>0, <2>1 DEF Reap, Ends, Close, Closed
    <3> QED BY <1>0, <2>1, <3>1 DEF Reap, Ends, NoTimer
  <2>2. ASSUME Opening(y) PROVE FALSE
    <3>1. y # x
      BY <1>0, <2>2 DEF Opening, Register, OpenFails, Open
    <3> QED BY <1>7, <2>2, <3>1 DEF Opening, Register, OpenFails
  <2>3. ASSUME NEW n, NEW s, OpenBegin(y, n, s) PROVE FALSE
    <3>1. y # x
      BY <1>0, <2>3, OpenType DEF OpenBegin
    <3> QED BY <1>7, <2>3, <3>1 DEF OpenBegin
  <2>4. ASSUME Attach(y) PROVE FALSE
    <3>1. CASE y # x
      BY <1>7, <2>4, <3>1 DEF Attach
    <3>2. CASE y = x
      <4>1. session[x].server \in Reach(m)
        BY <2>4 DEF Attach, Reach
      <4>2. session'[x] = WithSocket(x, TRUE, NoTimer)
        BY <1>0, <2>4, <3>2, <4>1 DEF Attach, Attached, TypeOK
      <4> QED BY <4>2 DEF WithSocket, Terminal, Closed
    <3> QED BY <3>1, <3>2
  <2>5. ASSUME Detach(y) PROVE FALSE
    <3>1. CASE y # x
      BY <1>7, <2>5, <3>1 DEF Detach
    <3>2. CASE y = x
      BY <1>0, <2>5, <3>2 DEF Detach, Detached, WithSocket, Terminal, Closed, TypeOK
    <3> QED BY <3>1, <3>2
  <2> QED BY <1>8, <2>1, <2>2, <2>3, <2>4, <2>5 DEF Using
<1>9. ASSUME NEW more, Sweep(more) PROVE FALSE
  <2>1. PICK p : x \in OutOfReach(p)
    BY <1>0, <1>9 DEF Sweep, Close, Closed
  <2> QED BY <1>0, <2>1 DEF OutOfReach, Of
<1>10. CASE Tick
  <2>1. session'[x] = session[x]
    BY <1>0, <1>10 DEF Tick, NoTimer
  <2> QED BY <1>0, <2>1 DEF Closed
<1> QED
  <2>1. CASE UNCHANGED vars
    BY <1>1, <2>1 DEF vars
  <2>2. CASE Asking
    BY <1>1, <2>2 DEF Asking, Ask, Withdraw, Deny, Approve
  <2>3. ASSUME NEW p \in Members, Edited(p) PROVE FALSE
    BY <1>3, <1>4, <2>3 DEF Edited, ReplaceGrants, SaveList, GiveRole, TakeRole, OtherRole
  <2>4. ASSUME NEW p \in Members, Membership(p) PROVE Ends(x) \/ SignOut(m)
    BY <1>1, <1>4, <1>5, <2>4 DEF Membership, Reactivate
  <2> QED BY <1>6, <1>8, <1>9, <1>10, <2>1, <2>2, <2>3, <2>4 DEF Next, Sweeping

\* Neither the sweep nor an edit closes a terminal in use that its member still
\* reaches (revoke.ts keepSets).
THEOREM ReachedKept == Spec => KeepsWhatIsReached
<1>1. TypeOK /\ [Next]_vars =>
        [\A m \in Members : \A x \in Of(m) :
           session[x].socket /\ session[x].server \in Reach(m)' /\ session'[x] = Closed
           => Ends(x) \/ SignOut(m)]_vars
  BY KeepsStep
<1> QED BY <1>1, TypeCorrect, PTL DEF Spec, KeepsWhatIsReached

=============================================================================
