----------------------------- MODULE LiveAccess -----------------------------
(***************************************************************************)
(* Time-bound access to servers and the terminals opened with it: access   *)
(* requests (api/routes/access-requests.ts), admins' edits of a member's   *)
(* access (api/routes/team.ts, team-access.ts), the sweep of what expired  *)
(* (auth/access-grants.ts), the closing of what a change took away         *)
(* (auth/access/revoke.ts) and the sessions of ssh/broker.ts.              *)
(*                                                                         *)
(* The unit of time is the minute between two sweeps, which is also how    *)
(* long a terminal may stay detached.  A grant is modelled by the time it  *)
(* has left: a member reaches a server with a personal grant on it or as   *)
(* a holder of the custom role, whose own grants cover some servers.  The  *)
(* rows one member has for one server (member_server_access and            *)
(* resource_grants) count as the longest of them.                          *)
(***************************************************************************)
EXTENDS Integers, FiniteSets

CONSTANTS
  Members,     \* restricted members: they reach what they were granted
  Servers,
  Role,        \* the custom role
  Sessions,    \* bound: how many terminals are open or being opened at once
  Requests,    \* bound: how many access requests are pending at once
  MaxMinutes   \* bound: the longest grant that expires

ASSUME AccessConstants ==
  /\ Role \notin Servers
  /\ MaxMinutes \in Nat \ {0}

VARIABLES
  status,   \* each member's membership: "active", "suspended" or "removed"
  left,     \* the time left of each member's grant on each server, and of the role
  covers,   \* the servers the role's grants cover
  request,  \* the access requests that are pending
  session,  \* the broker's sessions, and those about to be registered
  swept     \* this minute's sweep is done

vars == <<status, left, covers, request, session, swept>>

Minutes == 1..MaxMinutes
Forever == MaxMinutes + 1     \* expires_at null
Expired == 0                  \* past its expiry, and not swept yet
NoRow == -1
Times == NoRow..Forever
Grants == Servers \union {Role}

NoRequest == [pending |-> FALSE]
Pending(m, g, n, ttl) ==
  [pending |-> TRUE, user |-> m, grant |-> g, minutes |-> n, ttl |-> ttl]

NoTimer == 2                  \* a terminal with a socket has no reap timer
Closed == [at |-> "none"]
\* `passed` is a history: while the terminal was open, an edit met an expired
\* row of the member before the sweep did.
Terminal(m, s, attached, timer, passed) ==
  [at |-> "open", user |-> m, server |-> s, socket |-> attached, reap |-> timer, passed |-> passed]
Authorised(m, s) == [at |-> "opening", user |-> m, server |-> s]

Open(x) == session[x].at = "open"
Of(m) == {x \in Sessions : Open(x) /\ session[x].user = m}

\* What a member reaches now: resolveAccess and accessibleIds, which count no
\* row past its expiry and nothing of a member who is not active.
Reach(m) ==
  {s \in Servers : status[m] = "active" /\ (left[m][s] > 0 \/ (s \in covers /\ left[m][Role] > 0))}

Init ==
  /\ status = [m \in Members |-> "active"]
  /\ left = [m \in Members |-> [g \in Grants |-> NoRow]]
  /\ covers = {}
  /\ request = [q \in Requests |-> NoRequest]
  /\ session = [x \in Sessions |-> Closed]
  /\ swept = TRUE

-----------------------------------------------------------------------------
(* What ends live access (revoke.ts) *)

\* revokeLiveAccess: the terminals `gone` close, and their sockets with them.
\* A session not registered yet is in no list.
Close(gone) == session' = [x \in Sessions |-> IF x \in gone THEN Closed ELSE session[x]]

OutOfReach(m) == {x \in Of(m) : session[x].server \notin Reach(m)'}

AfterChangeAll(m) == IF Reach(m) \subseteq Reach(m)' THEN {} ELSE Of(m)

\* revokeAfterChange after an edit: of the members who lost something they
\* reached before it, everything they no longer reach.
AfterChange(m) == IF Reach(m) \subseteq Reach(m)' THEN {} ELSE OutOfReach(m)

Cleared(gone, past) ==
  session' = [x \in Sessions |->
    IF x \in gone THEN Closed
    ELSE IF x \in past THEN [session[x] EXCEPT !.passed = TRUE]
    ELSE session[x]]

\* An edit of a member's rows: it replaces expired ones like any other.
Edit(m, rows) ==
  /\ left' = [left EXCEPT ![m] = rows]
  /\ UNCHANGED <<status, covers, request, swept>>
  /\ Cleared(AfterChange(m),
             IF \E g \in Grants : left[m][g] = Expired /\ rows[g] # Expired THEN Of(m) ELSE {})

-----------------------------------------------------------------------------
(* Access requests *)

\* A member asks for a server or the role, unless it is theirs for good.
Ask(q, m, g, n) ==
  /\ ~request[q].pending
  /\ status[m] = "active"
  /\ left[m][g] # Forever
  /\ request' = [request EXCEPT ![q] = Pending(m, g, n, MaxMinutes)]
  /\ UNCHANGED <<status, left, covers, session, swept>>

\* decide: the request is pending no more.
Decided(q) == request' = [request EXCEPT ![q] = NoRequest]

Withdraw(q) ==
  /\ request[q].pending
  /\ status[request[q].user] = "active"
  /\ Decided(q)
  /\ UNCHANGED <<status, left, covers, session, swept>>

Deny(q) ==
  /\ request[q].pending
  /\ request[q].ttl > 0
  /\ Decided(q)
  /\ UNCHANGED <<status, left, covers, session, swept>>

ExtendedAnew(have, n) == n

\* extendGrants, and the same for a role membership: an approval never
\* shortens what the member has.
Extended(have, n) == IF have < n THEN n ELSE have

\* Approved, maybe for less time than was asked.
Approve(q, n) ==
  LET r == request[q] IN
  /\ r.pending
  /\ r.ttl > 0
  /\ n <= r.minutes
  /\ status[r.user] = "active"
  /\ Decided(q)
  /\ left' = [left EXCEPT ![r.user][r.grant] = Extended(@, n)]
  /\ UNCHANGED <<status, covers, session, swept>>

CancelledNone(m) == request

\* cancelPendingAccessRequests
Cancelled(m) ==
  [q \in Requests |-> IF request[q].pending /\ request[q].user = m THEN NoRequest ELSE request[q]]

-----------------------------------------------------------------------------
(* Admins *)

\* Replace a member's personal grants by drafts that are still in force.
ReplaceGrants(m, drafts) ==
  /\ status[m] # "removed"
  /\ \A s \in Servers : drafts[s] # Expired
  /\ Edit(m, [g \in Grants |-> IF g \in Servers THEN drafts[g] ELSE left[m][g]])

\* Save the member's server list: a server that stays keeps its expiry, past or
\* not, unless it is in `picked`, and a new server is granted for good; those
\* picked get n.
SaveList(m, listed, picked, n) ==
  /\ status[m] # "removed"
  /\ Edit(m, [g \in Grants |->
       IF g \notin Servers THEN left[m][g]
       ELSE IF g \notin listed THEN NoRow
       ELSE IF g \in picked THEN n
       ELSE IF left[m][g] = NoRow THEN Forever ELSE left[m][g]])

\* setMemberRoles writes the whole list of roles anew: the membership given or
\* taken, or a change of another role, which carries over what is in force.
GiveRole(m, n) == status[m] # "removed" /\ Edit(m, [left[m] EXCEPT ![Role] = n])
TakeRole(m) ==
  /\ status[m] # "removed"
  /\ left[m][Role] > 0
  /\ Edit(m, [left[m] EXCEPT ![Role] = NoRow])
OtherRole(m) ==
  /\ status[m] # "removed"
  /\ Edit(m, [left[m] EXCEPT ![Role] = IF @ = Expired THEN NoRow ELSE @])

\* Replace the role's grants: whoever holds it, expired or not, may lose servers.
ChangeRole(to) ==
  /\ covers' = to
  /\ UNCHANGED <<status, left, request, swept>>
  /\ Cleared(UNION {AfterChange(m) : m \in {h \in Members : left[h][Role] # NoRow}},
             UNION {Of(m) : m \in {h \in Members : left[h][Role] = Expired}})

Suspend(m) ==
  /\ status[m] = "active"
  /\ status' = [status EXCEPT ![m] = "suspended"]
  /\ request' = Cancelled(m)
  /\ Close(Of(m))
  /\ UNCHANGED <<left, covers, swept>>

Reactivate(m) ==
  /\ status[m] = "suspended"
  /\ status' = [status EXCEPT ![m] = "active"]
  /\ UNCHANGED <<left, covers, request, session, swept>>

\* The grants and roles go with the membership.
RemoveMember(m) ==
  /\ status[m] # "removed"
  /\ status' = [status EXCEPT ![m] = "removed"]
  /\ left' = [left EXCEPT ![m] = [g \in Grants |-> NoRow]]
  /\ request' = Cancelled(m)
  /\ Close(Of(m))
  /\ UNCHANGED <<covers, swept>>

\* A password reset, or signing out everywhere.
SignOut(m) ==
  /\ Close(Of(m))
  /\ UNCHANGED <<status, left, covers, request, swept>>

-----------------------------------------------------------------------------
(* Sessions *)

\* POST /ssh-sessions checks the access, then awaits the vault, ...
OpenBegin(x, m, s) ==
  /\ session[x] = Closed
  /\ s \in Reach(m)
  /\ session' = [session EXCEPT ![x] = Authorised(m, s)]
  /\ UNCHANGED <<status, left, covers, request, swept>>

RegisterUntimed(x) ==
  /\ session[x].at = "opening"
  /\ session' = [session EXCEPT ![x] = Terminal(@.user, @.server, FALSE, NoTimer, FALSE)]
  /\ UNCHANGED <<status, left, covers, request, swept>>

\* ... and registers the session, attached to nothing and on the reap timer.
Register(x) ==
  /\ session[x].at = "opening"
  /\ session' = [session EXCEPT ![x] = Terminal(@.user, @.server, FALSE, 1, FALSE)]
  /\ UNCHANGED <<status, left, covers, request, swept>>

OpenFails(x) ==
  /\ session[x].at = "opening"
  /\ session' = [session EXCEPT ![x] = Closed]
  /\ UNCHANGED <<status, left, covers, request, swept>>

\* Terminal x gains or loses its socket.
WithSocket(x, attached, timer) ==
  Terminal(session[x].user, session[x].server, attached, timer, session[x].passed)

AttachedAnyway(x) == WithSocket(x, TRUE, NoTimer)

\* The WebSocket of an active member's own session: the access is checked
\* again, and a session out of reach closes instead.
Attached(x) ==
  IF session[x].server \in Reach(session[x].user) THEN WithSocket(x, TRUE, NoTimer) ELSE Closed

Attach(x) ==
  /\ Open(x)
  /\ status[session[x].user] = "active"
  /\ session' = [session EXCEPT ![x] = Attached(x)]
  /\ UNCHANGED <<status, left, covers, request, swept>>

\* The socket closes: the shell stays for a page that comes back.
Detached(x) == WithSocket(x, FALSE, 1)

Detach(x) ==
  /\ Open(x)
  /\ session[x].socket
  /\ session' = [session EXCEPT ![x] = Detached(x)]
  /\ UNCHANGED <<status, left, covers, request, swept>>

Reap(x) ==
  /\ Open(x)
  /\ session[x].reap = 0
  /\ Close({x})
  /\ UNCHANGED <<status, left, covers, request, swept>>

\* The shell or its connection ends, or its owner closes the session.
Ends(x) ==
  /\ Open(x)
  /\ Close({x})
  /\ UNCHANGED <<status, left, covers, request, swept>>

-----------------------------------------------------------------------------
(* Time *)

\* sweepExpiredAccess: the expired rows go, and what their members have open
\* out of reach closes; requests nobody decided in time lapse.  `more` are
\* members whose shorter row for a server expired beside the longest.
Sweep(more) ==
  LET expired == {m \in Members : \E g \in Grants : left[m][g] = Expired} IN
  /\ ~swept
  /\ swept' = TRUE
  /\ left' = [m \in Members |-> [g \in Grants |-> IF left[m][g] = Expired THEN NoRow ELSE left[m][g]]]
  /\ request' = [q \in Requests |->
       IF request[q].pending /\ request[q].ttl = 0 THEN NoRequest ELSE request[q]]
  /\ UNCHANGED <<status, covers>>
  /\ Close(UNION {OutOfReach(m) : m \in expired \union more})

\* A minute passes, once its sweep and its reap timers have run.
Tick ==
  /\ swept
  /\ \A x \in Sessions : Open(x) => session[x].reap > 0
  /\ swept' = FALSE
  /\ left' = [m \in Members |-> [g \in Grants |->
       IF left[m][g] \in Minutes THEN left[m][g] - 1 ELSE left[m][g]]]
  /\ request' = [q \in Requests |->
       IF request[q].pending /\ request[q].ttl > 0 THEN [request[q] EXCEPT !.ttl = @ - 1] ELSE request[q]]
  /\ session' = [x \in Sessions |->
       IF Open(x) /\ session[x].reap = 1 THEN [session[x] EXCEPT !.reap = 0] ELSE session[x]]
  /\ UNCHANGED <<status, covers>>

-----------------------------------------------------------------------------

Holders == {m \in Members : \E g \in Grants : left[m][g] > 0}
Sweeping == \E more \in SUBSET Holders : Sweep(more)

\* What an admin does to a member's rows.
Edited(m) ==
  \/ \E drafts \in [Servers -> Times] : ReplaceGrants(m, drafts)
  \/ \E listed \in SUBSET Servers : \E picked \in SUBSET listed, n \in Minutes \union {Forever} :
       SaveList(m, listed, picked, n)
  \/ \E n \in Minutes \union {Forever} : GiveRole(m, n)
  \/ TakeRole(m)
  \/ OtherRole(m)
  \/ RemoveMember(m)

Asking == \E q \in Requests :
  \/ \E m \in Members, g \in Grants, n \in Minutes : Ask(q, m, g, n)
  \/ Withdraw(q)
  \/ Deny(q)
  \/ \E n \in Minutes : Approve(q, n)

Membership(m) == Suspend(m) \/ Reactivate(m) \/ SignOut(m)

Opening(x) == Register(x) \/ OpenFails(x)

Using(x) ==
  \/ \E m \in Members, s \in Servers : OpenBegin(x, m, s)
  \/ Attach(x)
  \/ Detach(x)
  \/ Ends(x)

Next ==
  \/ Asking
  \/ \E m \in Members : Edited(m) \/ Membership(m)
  \/ \E to \in SUBSET Servers : ChangeRole(to)
  \/ \E x \in Sessions : Opening(x) \/ Reap(x) \/ Using(x)
  \/ Sweeping
  \/ Tick

Spec == Init /\ [][Next]_vars

\* Timers fire, and an await ends.
FairSpec ==
  /\ Spec
  /\ WF_vars(Tick)
  /\ WF_vars(Sweeping)
  /\ \A x \in Sessions : WF_vars(Opening(x)) /\ WF_vars(Reap(x))

-----------------------------------------------------------------------------
(* Types *)

RequestType ==
  {NoRequest} \union
  [pending : {TRUE}, user : Members, grant : Grants, minutes : Minutes, ttl : 0..MaxMinutes]

SessionType ==
  {Closed} \union
  [at : {"opening"}, user : Members, server : Servers] \union
  [at : {"open"}, user : Members, server : Servers, socket : BOOLEAN, reap : 0..NoTimer, passed : BOOLEAN]

\* Every variable keeps its type; only a terminal with a socket is off the
\* reap timer (broker.ts scheduleReap, attach).
TypeOK ==
  /\ status \in [Members -> {"active", "suspended", "removed"}]
  /\ left \in [Members -> [Grants -> Times]]
  /\ covers \subseteq Servers
  /\ request \in [Requests -> RequestType]
  /\ session \in [Sessions -> SessionType]
  /\ swept \in BOOLEAN
  /\ \A x \in Sessions : Open(x) => (session[x].socket <=> session[x].reap = NoTimer)

-----------------------------------------------------------------------------
(* Properties *)

InReach(x) == session[x].server \in Reach(session[x].user)

\* Something of the session's member expired: the minute's sweep closes what
\* they have open out of reach.
AwaitsSweep(x) ==
  LET m == session[x].user
  IN status[m] = "active" /\ \E g \in Grants : left[m][g] = Expired

\* "the sweep only bounds how long an already-open terminal or file session
\* outlives its grant" (access-grants.ts:332-333): a terminal somebody uses is
\* one its member reaches, or could until the last minute.
OutlivesUntilSweep ==
  \A x \in Sessions : Open(x) /\ session[x].socket => InReach(x) \/ AwaitsSweep(x)

\* The same, but for terminals that were open while an edit deleted expired
\* rows of their member before the sweep did: through requests, edits,
\* suspensions and opens that race with them, no other terminal stays in use
\* out of reach (revoke.ts, ssh-sessions.ts:109-131).
AttachedInReach ==
  \A x \in Sessions :
    Open(x) /\ session[x].socket /\ ~session[x].passed => InReach(x) \/ AwaitsSweep(x)

\* "nobody should approve access for someone who can no longer use it"
\* (access-grants.ts:137-138): only active members have pending requests.
PendingOnlyActive == \A q \in Requests : request[q].pending => status[request[q].user] = "active"

\* "Add time-bound grants without ever shortening access" (access-grants.ts:74):
\* no decision of a request shortens what anybody has, and the sweep takes only
\* what has expired.
NeverShortened ==
  [][\A m \in Members, g \in Grants :
       /\ (\E q \in Requests : request[q].pending /\ ~request'[q].pending)
          /\ UNCHANGED <<status, swept>> => left'[m][g] >= left[m][g]
       /\ ~swept /\ swept' /\ left[m][g] # Expired => left'[m][g] = left[m][g]]_vars

\* "keeping what they still have" (revoke.ts:16): a terminal in use on a server
\* the member still reaches closes only when it ends by itself or its owner
\* signs out.
KeepsWhatIsReached ==
  [][\A m \in Members : \A x \in Of(m) :
       session[x].socket /\ session[x].server \in Reach(m)' /\ session'[x] = Closed
       => Ends(x) \/ SignOut(m)]_vars

\* A session its member no longer reaches ends, attached or not: also one that
\* was registered after the change that took the server away (broker.ts
\* scheduleReap).
UnreachedEnds ==
  \A x \in Sessions :
    (Open(x) /\ ~session[x].passed /\ ~InReach(x))
      ~> (~Open(x) \/ session[x].passed \/ InReach(x))

=============================================================================
