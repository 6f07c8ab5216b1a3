---------------------------- MODULE AgentTunnel ----------------------------
(***************************************************************************)
(* The streams tunnelled to one connectivity agent: the app's hub          *)
(* (agents/hub.ts) and its sockets (agents/tunnel-socket.ts), the agent's  *)
(* process (packages/agent) and its local sockets, and the WebSockets      *)
(* between them, one after another: a FIFO channel each way, which may be  *)
(* lost, left by the agent (a restart, its idle timer) or closed by the    *)
(* app (a newer connection, a revocation, a broken protocol), while frames *)
(* of it are still on their way.  Stream ids start at 1 on every           *)
(* connection.                                                             *)
(***************************************************************************)
EXTENDS Naturals, Sequences, FiniteSets

CONSTANTS
    Streams,    \* how many streams ssh2 asks for
    Links,      \* how many WebSockets the agent opens
    Limits,     \* the values of MAX_STREAMS_PER_AGENT and of the agent's maxStreams
    MaxSent,    \* how many chunks each end writes to a stream
    MaxFaults,  \* how often the network or the agent fails
    None

ASSUME TunnelAssumption ==
    /\ Streams \in Nat /\ Links \in Nat /\ MaxSent \in Nat /\ MaxFaults \in Nat
    /\ Limits \subseteq Nat \ {0}
    /\ None \notin 1 .. Links

VARIABLES
    limit,      \* most streams one agent may carry, at either side
    revoked,    \* the agent's row
    live,       \* the WebSocket the hub holds for the agent
    app,        \* per WebSocket: its state in the app
    agent,      \* and in the agent's process
    lost,       \* the WebSockets whose network is gone
    up, down,   \* the frames on their way to the app and to the agent
    next,       \* per WebSocket: the next stream id
    sock,       \* per stream: the app's socket
    local,      \* per stream: the agent's local socket
    faults,     \* how often the network or the agent failed
    honest      \* whether the agent kept to its program

vars == <<limit, revoked, live, app, agent, lost, up, down, next, sock, local, faults, honest>>
wires == <<limit, revoked, live, app, agent, lost, next, faults, honest>>

Link == 1 .. Links
Sockets == 1 .. Streams     \* in the order ssh2 asks for them

NewSocket == [state |-> "new", on |-> None, id |-> 0, mapped |-> FALSE, sent |-> 0, got |-> <<>>]
NoLocal == [state |-> "none", mapped |-> FALSE, opened |-> FALSE, sent |-> 0, got |-> <<>>]

Init ==
    /\ limit \in Limits
    /\ revoked = FALSE /\ live = None
    /\ app = [c \in Link |-> "none"] /\ agent = [c \in Link |-> "none"]
    /\ lost = {}
    /\ up = [c \in Link |-> <<>>] /\ down = [c \in Link |-> <<>>]
    /\ next = [c \in Link |-> 1]
    /\ sock = [s \in Sockets |-> NewSocket]
    /\ local = [s \in Sockets |-> NoLocal]
    /\ faults = 0 /\ honest = TRUE

-----------------------------------------------------------------------------
(* Frames.  `own` and `n` tell a chunk apart from every other.             *)

Frame(type, s, n) == [type |-> type, id |-> sock[s].id, own |-> s, n |-> n]

\* Nothing arrives at an end that is closed.
Hears(end, c) == end[c] # "closed" /\ c \notin lost

\* What the app sends on c is dropped unless its WebSocket is open.
ToAgent(c, frames) == [down EXCEPT ![c] = IF Hears(agent, c) /\ app[c] = "open" THEN @ \o frames ELSE @]

\* What the agent sends on c is dropped unless its WebSocket is open.
ToApp(c, frames) == [up EXCEPT ![c] = IF Hears(app, c) /\ agent[c] = "open" THEN @ \o frames ELSE @]

\* Mutant: of whichever connection is live now.
StreamsOfLive(c) == {s \in Sockets : sock[s].mapped /\ sock[s].on = live}

\* conn.streams of the connection a frame came on.
StreamsOf(c) == {s \in Sockets : sock[s].mapped /\ sock[s].on = c}

Named(c, id) == {s \in StreamsOf(c) : sock[s].id = id}

\* The agent's streams are one map, whatever the connection.
LocalNamed(id) == {s \in Sockets : local[s].mapped /\ sock[s].id = id}

-----------------------------------------------------------------------------
(* Sockets of the app                                                      *)

Dead(s) == [sock[s] EXCEPT !.state = "dead", !.mapped = FALSE]

\* The streams of c fail: nothing is sent.
Failed(c) == [s \in Sockets |-> IF s \in StreamsOf(c) THEN Dead(s) ELSE sock[s]]

\* ssh2 listens for the connection: a stream is opened on the live WebSocket,
\* unless there is none or it carries too many.
Start(s) ==
    /\ sock[s].state = "new" /\ \A r \in 1 .. s - 1 : sock[r].state # "new"
    /\ \/ /\ live = None \/ Cardinality(StreamsOf(live)) >= limit
          /\ sock' = [sock EXCEPT ![s] = Dead(s)]
          /\ UNCHANGED <<down, next>>
       \/ /\ live # None /\ Cardinality(StreamsOf(live)) < limit
          /\ sock' = [sock EXCEPT ![s] = [@ EXCEPT !.state = "connecting", !.on = live,
                                                  !.id = next[live], !.mapped = TRUE]]
          /\ next' = [next EXCEPT ![live] = @ + 1]
          /\ down' = ToAgent(live, <<[type |-> "OPEN", id |-> next[live], own |-> s, n |-> 0]>>)
    /\ UNCHANGED <<limit, revoked, live, app, agent, lost, up, local, faults, honest>>

\* This side is finished with the stream (or its reader or writer failed).
Ends(s) ==
    /\ sock[s].state \in {"connecting", "open"}
    /\ sock' = [sock EXCEPT ![s] = Dead(s)]
    /\ down' = ToAgent(sock[s].on, <<Frame("END", s, 0)>>)
    /\ UNCHANGED <<wires, up, local>>

AppEnds(s) == Ends(s)

\* The agent did not confirm the stream in time.
OpenTimeout(s) == sock[s].state = "connecting" /\ Ends(s)

\* Until the stream is open, writes are kept.
AppWrites(s) ==
    /\ sock[s].state \in {"connecting", "open"} /\ sock[s].sent < MaxSent
    /\ sock[s].state = "open" => app[sock[s].on] = "open"
    /\ sock' = [sock EXCEPT ![s].sent = @ + 1]
    /\ down' = IF sock[s].state = "open"
                 THEN ToAgent(sock[s].on, <<Frame("DATA", s, sock[s].sent + 1)>>) ELSE down
    /\ UNCHANGED <<wires, up, local>>

-----------------------------------------------------------------------------
(* A frame arrives at the app                                              *)

Takes(c) ==
    /\ app[c] \in {"open", "closing"} /\ c \notin lost /\ up[c] # <<>>
    /\ up' = [up EXCEPT ![c] = Tail(@)]
    /\ UNCHANGED <<limit, revoked, live, agent, lost, next, local, faults, honest>>

\* A frame for a stream that is gone is ignored.
Ignored(c) ==
    /\ Takes(c)
    /\ Named(c, Head(up[c]).id) = {}
    /\ UNCHANGED <<app, sock, down>>

\* The stream is open; what was written meanwhile follows.
Opened(c) ==
    /\ Takes(c) /\ Head(up[c]).type = "OPENED"
    /\ \E s \in Named(c, Head(up[c]).id) :
         /\ sock[s].state = "connecting"
         /\ sock' = [sock EXCEPT ![s].state = "open"]
         /\ down' = ToAgent(c, [i \in 1 .. sock[s].sent |-> Frame("DATA", s, i)])
    /\ UNCHANGED app

Received(c) ==
    /\ Takes(c) /\ Head(up[c]).type = "DATA"
    /\ \E s \in Named(c, Head(up[c]).id) :
         /\ sock[s].state = "open"
         /\ sock' = [sock EXCEPT ![s].got = Append(@, <<Head(up[c]).own, Head(up[c]).n>>)]
    /\ UNCHANGED <<app, down>>

\* CLOSE or ERROR: the stream ends, and nothing is sent back.
RemoteEnds(c) ==
    /\ Takes(c) /\ Head(up[c]).type = "END"
    /\ \E s \in Named(c, Head(up[c]).id) : sock' = [sock EXCEPT ![s] = Dead(s)]
    /\ UNCHANGED <<app, down>>

\* Opened twice, or data before that: the WebSocket is closed.
OutOfTurn(c) ==
    \E s \in Named(c, Head(up[c]).id) :
       \/ Head(up[c]).type = "OPENED" /\ sock[s].state # "connecting"
       \/ Head(up[c]).type = "DATA" /\ sock[s].state = "connecting"

ProtocolViolation(c) ==
    /\ Takes(c) /\ OutOfTurn(c)
    /\ app' = [app EXCEPT ![c] = "closing"]
    /\ UNCHANGED <<sock, down>>

-----------------------------------------------------------------------------
(* The agent                                                               *)

Shut(s) == [local[s] EXCEPT !.state = "closed", !.mapped = FALSE, !.opened = FALSE]

\* A local connection fails, times out, overflows or is closed, and the app is
\* told (ERROR or CLOSE, which differ in the reason they give: END).
LocalEnds(s) ==
    /\ local[s].state \in {"connecting", "open"}
    /\ local' = [local EXCEPT ![s] = Shut(s)]
    /\ up' = ToApp(sock[s].on, <<Frame("END", s, 0)>>)
    /\ UNCHANGED <<wires, down, sock>>

\* The local server answers, even when the app gave up on the stream.
LocalConnects(s) ==
    /\ local[s].state \in {"connecting", "draining"} /\ ~local[s].opened
    /\ local' = [local EXCEPT ![s].opened = TRUE,
                              ![s].state = IF @ = "connecting" THEN "open" ELSE @]
    /\ up' = ToApp(sock[s].on, <<Frame("OPENED", s, 0)>>)
    /\ UNCHANGED <<wires, down, sock>>

LocalSends(s) ==
    /\ local[s].state = "open" /\ local[s].sent < MaxSent
    /\ local' = [local EXCEPT ![s].sent = @ + 1]
    /\ up' = ToApp(sock[s].on, <<Frame("DATA", s, local[s].sent + 1)>>)
    /\ UNCHANGED <<wires, down, sock>>

\* Queued bytes reached the local server, or five seconds are over.
LocalDrained(s) ==
    /\ local[s].state = "draining"
    /\ local' = [local EXCEPT ![s] = Shut(s)]
    /\ UNCHANGED <<wires, up, down, sock>>

AgentTakes(c) ==
    /\ agent[c] = "open" /\ c \notin lost /\ down[c] # <<>>
    /\ down' = [down EXCEPT ![c] = Tail(@)]
    /\ UNCHANGED <<wires, sock>>

\* Mutant: the agent counts streams that drain as well.
CarriedAll == {s \in Sockets : local[s].state \in {"connecting", "open", "draining"}}

Carried == {s \in Sockets : local[s].mapped}

\* The id is in use, the port is not allowed, there are too many streams.
Refuses(f) ==
    \/ LocalNamed(f.id) # {}
    \/ Cardinality(Carried) >= limit

AgentOpens(c) ==
    LET f == Head(down[c]) IN
    /\ AgentTakes(c) /\ f.type = "OPEN"
    /\ \/ up' = ToApp(c, <<Frame("END", f.own, 0)>>) /\ UNCHANGED local
       \/ /\ ~Refuses(f)
          /\ local' = [local EXCEPT ![f.own].state = "connecting", ![f.own].mapped = TRUE]
          /\ UNCHANGED up

AgentData(c) ==
    LET f == Head(down[c]) IN
    /\ AgentTakes(c) /\ f.type = "DATA"
    /\ local' = [s \in Sockets |->
                   IF s \in LocalNamed(f.id) THEN [local[s] EXCEPT !.got = Append(@, <<f.own, f.n>>)]
                   ELSE local[s]]
    /\ UNCHANGED up

AgentCloses(c) ==
    LET f == Head(down[c]) IN
    /\ AgentTakes(c) /\ f.type = "END"
    /\ local' = [s \in Sockets |->
                   IF s \in LocalNamed(f.id) THEN [local[s] EXCEPT !.state = "draining", !.mapped = FALSE]
                   ELSE local[s]]
    /\ UNCHANGED up

Fails == faults < MaxFaults /\ faults' = faults + 1

\* An agent that is not this program sends a frame out of turn.
Misbehaves(c) ==
    /\ agent[c] = "open" /\ c \notin lost
    /\ Fails /\ honest' = FALSE
    /\ \E s \in Sockets : sock[s].on = c /\ \E t \in {"OPENED", "DATA"} : up' = ToApp(c, <<Frame(t, s, 0)>>)
    /\ UNCHANGED <<limit, revoked, live, app, agent, lost, down, next, sock, local>>

-----------------------------------------------------------------------------
(* WebSockets                                                              *)

\* The agent has no WebSocket: it opens one, and its token is looked up.
AgentConnects(c) ==
    /\ ~revoked
    /\ agent[c] = "none" /\ \A d \in Link : d < c => agent[d] = "closed"
    /\ agent' = [agent EXCEPT ![c] = "open"]
    /\ app' = [app EXCEPT ![c] = "upgrading"]
    /\ UNCHANGED <<limit, revoked, live, lost, up, down, next, sock, local, faults, honest>>

\* Mutant: the row is not read again after the upgrade.
StillRevokedNever == FALSE

StillRevoked == revoked

\* After the upgrade the row is read again; a newer connection replaces an
\* older one.
Accept(c) ==
    /\ app[c] = "upgrading"
    /\ \/ /\ StillRevoked
          /\ app' = [app EXCEPT ![c] = "closing"]
          /\ UNCHANGED <<live, sock>>
       \/ /\ ~StillRevoked
          /\ app' = [d \in Link |-> IF d = c THEN "open" ELSE IF d = live THEN "closing" ELSE app[d]]
          /\ sock' = IF live = None THEN sock ELSE Failed(live)
          /\ live' = c
    /\ UNCHANGED <<limit, revoked, agent, lost, up, down, next, local, faults, honest>>

\* Mutant: a WebSocket that closed stays the live one.
LiveKept(c) == live

LiveWithout(c) == IF live = c THEN None ELSE live

\* The app's side is closed: by the agent, by the keepalive once the network
\* is lost, or because it asked for it.
AppGone(c) ==
    /\ app[c] \in {"upgrading", "open", "closing"}
    /\ c \in lost \/ agent[c] = "closed" \/ app[c] = "closing"
    /\ app' = [app EXCEPT ![c] = "closed"]
    /\ live' = LiveWithout(c)
    /\ sock' = Failed(c)
    /\ up' = [up EXCEPT ![c] = <<>>]
    /\ UNCHANGED <<limit, revoked, agent, lost, down, next, local, faults, honest>>

\* Mutant: the local sockets of a closed WebSocket stay.
DestroyedNone == local

\* Every stream the agent still lists is destroyed.
Destroyed ==
    [s \in Sockets |-> IF local[s].mapped THEN Shut(s) ELSE local[s]]

\* The agent's side is closed.
AgentGone(c) ==
    /\ agent[c] = "open"
    /\ agent' = [agent EXCEPT ![c] = "closed"]
    /\ local' = Destroyed
    /\ down' = [down EXCEPT ![c] = <<>>]
    /\ UNCHANGED <<limit, revoked, live, app, lost, up, next, sock, honest>>

\* The app closed it, or nothing is heard any more.
AgentNotices(c) ==
    /\ c \in lost \/ app[c] \in {"closing", "closed"}
    /\ AgentGone(c) /\ UNCHANGED faults

\* The agent's process restarts.
AgentLeaves(c) == Fails /\ AgentGone(c)

\* The network of c is lost, and the frames on it.
Lose(c) ==
    /\ agent[c] = "open" /\ app[c] # "closed" /\ c \notin lost
    /\ Fails /\ lost' = lost \cup {c}
    /\ up' = [up EXCEPT ![c] = <<>>] /\ down' = [down EXCEPT ![c] = <<>>]
    /\ UNCHANGED <<limit, revoked, live, app, agent, next, sock, local, honest>>

\* An administrator revokes the agent; its live connection is dropped.
Revoke ==
    /\ ~revoked
    /\ revoked' = TRUE
    /\ live' = None
    /\ app' = IF live = None THEN app ELSE [app EXCEPT ![live] = "closing"]
    /\ sock' = IF live = None THEN sock ELSE Failed(live)
    /\ UNCHANGED <<limit, agent, lost, up, down, next, local, faults, honest>>

Arrives(c) == Ignored(c) \/ Opened(c) \/ Received(c) \/ RemoteEnds(c) \/ ProtocolViolation(c)
AgentReads(c) == AgentOpens(c) \/ AgentData(c) \/ AgentCloses(c)

Next ==
    \/ \E s \in Sockets : \/ Start(s) \/ AppEnds(s) \/ OpenTimeout(s) \/ AppWrites(s)
                          \/ LocalEnds(s) \/ LocalConnects(s) \/ LocalSends(s)
                          \/ LocalDrained(s)
    \/ \E c \in Link : \/ Arrives(c) \/ AgentReads(c) \/ Misbehaves(c)
                       \/ AgentConnects(c) \/ Accept(c) \/ AppGone(c)
                       \/ AgentNotices(c) \/ AgentLeaves(c) \/ Lose(c)
    \/ Revoke

Spec == Init /\ [][Next]_vars

\* Frames arrive, timers run, and a lost or closed WebSocket is noticed (the
\* keepalive, the idle timer, the close handshake's time-out).
FairSpec ==
    /\ Spec
    /\ \A s \in Sockets : WF_vars(OpenTimeout(s)) /\ WF_vars(LocalDrained(s))
    /\ \A c \in Link : /\ WF_vars(Arrives(c)) /\ WF_vars(AgentReads(c))
                       /\ WF_vars(AppGone(c)) /\ WF_vars(AgentNotices(c))

-----------------------------------------------------------------------------
(* What the tunnel is for                                                  *)

Frames == [type : {"OPEN", "OPENED", "DATA", "END"}, id : Nat, own : Sockets, n : 0 .. MaxSent]
Chunks == Seq(Sockets \X (0 .. MaxSent))

\* Every variable has its type, and the hub holds an agent's WebSocket only
\* while it may be used.
TypeOK ==
    /\ limit \in Limits /\ revoked \in BOOLEAN
    /\ live \in Link \cup {None}
    /\ app \in [Link -> {"none", "upgrading", "open", "closing", "closed"}]
    /\ agent \in [Link -> {"none", "open", "closed"}]
    /\ lost \subseteq Link
    /\ up \in [Link -> Seq(Frames)] /\ down \in [Link -> Seq(Frames)]
    /\ next \in [Link -> Nat]
    /\ sock \in [Sockets -> [state : {"new", "connecting", "open", "dead"}, on : Link \cup {None},
                             id : Nat, mapped : BOOLEAN, sent : 0 .. MaxSent, got : Chunks]]
    /\ local \in [Sockets -> [state : {"none", "connecting", "open", "draining", "closed"},
                              mapped : BOOLEAN, opened : BOOLEAN, sent : 0 .. MaxSent, got : Chunks]]
    /\ faults \in 0 .. MaxFaults /\ honest \in BOOLEAN
    /\ live # None => app[live] \in {"open", "closing"}

\* agents/hub.ts, routes/agents.ts: once the agent is revoked no WebSocket of
\* it is open, nor will one be, whatever was connecting, being replaced or
\* closing at that moment.
RevokedCut == revoked => \A c \in Link : app[c] # "open"

\* hub.ts onMessage: an agent that is this program never breaks the protocol,
\* so no race of frames, time-outs, reconnections and limits costs it its
\* connection; nor does it refuse a stream the app counted as allowed.
HonestAgentKept ==
    honest =>
      \A c \in Link :
        /\ app[c] \in {"open", "closing"} /\ up[c] # <<>> => ~OutOfTurn(c)
        /\ agent[c] = "open" /\ down[c] # <<>> /\ Head(down[c]).type = "OPEN" => ~Refuses(Head(down[c]))

\* tunnel-socket.ts: each stream is a pair of pipes (TunnelPipe): no chunk is
\* lost, repeated, reordered or taken from another stream, of this connection
\* or of one it replaced.
Pipe == INSTANCE TunnelPipe WITH
    wrote <- [s \in Sockets |-> [e \in {"app", "agent"} |->
                IF e = "app" THEN sock[s].sent ELSE local[s].sent]],
    read <- [s \in Sockets |-> [e \in {"app", "agent"} |->
                IF e = "app" THEN sock[s].got ELSE local[s].got]],
    gone <- [s \in Sockets |-> (IF sock[s].state = "dead" THEN {"app"} ELSE {})
                               \cup (IF local[s].state = "closed" THEN {"agent"} ELSE {})]

Pipes ==
    /\ Pipe!Init
    /\ [][honest => Pipe!Next]_(Pipe!vars)

\* A stream waits for the other end: to confirm it, or to end as well.
Waits(s) ==
    \/ sock[s].state = "connecting"
    \/ sock[s].state = "dead" /\ local[s].state \in {"connecting", "open", "draining"}
    \/ sock[s].state = "open" /\ local[s].state = "closed"

\* hub.ts, agent.ts: a stream that was asked for opens or fails, and its two
\* ends end together, whichever way the first one went.
EndsTogether == \A s \in Sockets : Waits(s) ~> ~Waits(s)
=============================================================================
