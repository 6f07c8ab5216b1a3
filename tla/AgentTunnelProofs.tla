------------------------- MODULE AgentTunnelProofs -------------------------
(***************************************************************************)
(* A revoked agent is cut off; a frame can reach no other stream than the  *)
(* one it was sent for; an agent that is this program is never closed for  *)
(* breaking the protocol and refuses no stream the app counted; and each   *)
(* stream is a pair of pipes (TunnelPipe), for any number of streams and   *)
(* connections and any bound on data and faults.                           *)
(*                                                                         *)
(* Inv carries the first two.  The others need what each stream's two ends *)
(* and the frames between them may be at one moment: Sane (Paired, Upward, *)
(* Downward), of which every step keeps one stream at a time; OneByOne,    *)
(* that the agent's connections follow one another; and Room, that the     *)
(* streams the agent carries when an OPEN reaches it are among those the   *)
(* app counted when it sent that OPEN.                                     *)
(***************************************************************************)
EXTENDS AgentTunnel, FiniteSetTheorems, TLAPS

SockRec == [state : {"new", "connecting", "open", "dead"}, on : Link \cup {None},
            id : Nat, mapped : BOOLEAN, sent : 0 .. MaxSent, got : Chunks]
LocalRec == [state : {"none", "connecting", "open", "draining", "closed"},
             mapped : BOOLEAN, opened : BOOLEAN, sent : 0 .. MaxSent, got : Chunks]

(* The part of TypeOK that says what the variables range over. *)
Ranges ==
    /\ limit \in Limits /\ revoked \in BOOLEAN
    /\ live \in Link \cup {None}
    /\ app \in [Link -> {"none", "upgrading", "open", "closing", "closed"}]
    /\ agent \in [Link -> {"none", "open", "closed"}]
    /\ lost \subseteq Link
    /\ next \in [Link -> Nat]
    /\ sock \in [Sockets -> SockRec]
    /\ local \in [Sockets -> LocalRec]
    /\ faults \in 0 .. MaxFaults /\ honest \in BOOLEAN

Wires == up \in [Link -> Seq(Frames)] /\ down \in [Link -> Seq(Frames)]

(* The one WebSocket that is open is the live one, and a revoked agent has *)
(* none.                                                                   *)
Held ==
    /\ live # None => app[live] \in {"open", "closing"}
    /\ \A c \in Link : app[c] = "open" => live = c
    /\ revoked => live = None
    /\ \A c \in Link : agent[c] = "none" => app[c] = "none"

(* Streams of one WebSocket have different ids, below its next one. *)
Numbered ==
    /\ \A s \in Sockets :
         /\ sock[s].state = "new" => sock[s].on = None
         /\ sock[s].on \in Link => sock[s].id < next[sock[s].on]
    /\ \A s, r \in Sockets :
         sock[s].on \in Link /\ sock[s].on = sock[r].on /\ sock[s].id = sock[r].id => s = r

On(q) == {q[i] : i \in 1 .. Len(q)}

(* A frame on its way bears the id of its own stream, of that WebSocket. *)
Right(c, f) == sock[f.own].on = c /\ sock[f.own].id = f.id
Addressed == \A c \in Link : \A f \in On(up[c]) \cup On(down[c]) : Right(c, f)

Inv == Ranges /\ Wires /\ Held /\ Numbered /\ Addressed

(* hub.ts onMessage: a frame reaches the stream it was sent for, or none. *)
NoCrossTalk ==
    \A c \in Link : up[c] # <<>> => Named(c, Head(up[c]).id) \subseteq {Head(up[c]).own}

-----------------------------------------------------------------------------
(* Channels                                                                *)

(* The frames of a queue after one is taken and others are added. *)
LEMMA Queues ==
  ASSUME NEW q \in Seq(Frames), NEW r \in Seq(Frames)
  PROVE  /\ q \o r \in Seq(Frames) /\ On(q \o r) \subseteq On(q) \cup On(r)
         /\ On(<<>>) = {} /\ <<>> \in Seq(Frames)
         /\ q # <<>> => /\ Tail(q) \in Seq(Frames) /\ On(Tail(q)) \subseteq On(q)
                        /\ Head(q) \in On(q) /\ Head(q) \in Frames
<1>1. q \o r \in Seq(Frames) /\ On(q \o r) \subseteq On(q) \cup On(r)
  <2>1. q \o r \in Seq(Frames) /\ Len(q \o r) = Len(q) + Len(r) OBVIOUS
  <2>2. ASSUME NEW i \in 1 .. Len(q) + Len(r)
        PROVE  (q \o r)[i] \in On(q) \cup On(r)
    <3>1. CASE i <= Len(q) BY <3>1 DEF On
    <3>2. CASE i > Len(q)
      <4>1. (q \o r)[i] = r[i - Len(q)] /\ i - Len(q) \in 1 .. Len(r) BY <3>2
      <4> QED BY <4>1 DEF On
    <3> QED BY <3>1, <3>2
  <2> QED BY <2>1, <2>2 DEF On
<1>2. On(<<>>) = {} /\ <<>> \in Seq(Frames) BY DEF On
<1>3. ASSUME q # <<>>
      PROVE  /\ Tail(q) \in Seq(Frames) /\ On(Tail(q)) \subseteq On(q)
             /\ Head(q) \in On(q) /\ Head(q) \in Frames
  <2>1. Len(q) > 0 /\ Head(q) = q[1] /\ q[1] \in Frames BY <1>3
  <2>2. Tail(q) \in Seq(Frames) /\ Len(Tail(q)) = Len(q) - 1 BY <1>3
  <2>3. \A i \in 1 .. Len(Tail(q)) : Tail(q)[i] = q[i + 1] /\ i + 1 \in 1 .. Len(q)
    BY <1>3, <2>1, <2>2
  <2> QED BY <2>1, <2>2, <2>3 DEF On
<1> QED BY <1>1, <1>2, <1>3

(* A frame of a stream of c, or one frame, is a queue. *)
LEMMA OneFrame ==
  ASSUME NEW f \in Frames
  PROVE  <<f>> \in Seq(Frames) /\ On(<<f>>) = {f}
BY DEF On

(* What either end sends on c is typed and is added to what is on its way. *)
LEMMA Sending ==
  ASSUME Wires, NEW c \in Link \cup {None}, NEW fs \in Seq(Frames)
  PROVE  /\ ToAgent(c, fs) \in [Link -> Seq(Frames)]
         /\ \A d \in Link : \A f \in On(ToAgent(c, fs)[d]) : f \in On(down[d]) \/ (f \in On(fs) /\ d = c)
         /\ ToApp(c, fs) \in [Link -> Seq(Frames)]
         /\ \A d \in Link : \A f \in On(ToApp(c, fs)[d]) : f \in On(up[d]) \/ (f \in On(fs) /\ d = c)
<1>1. ASSUME NEW d \in Link
      PROVE  /\ ToAgent(c, fs)[d] \in {down[d], down[d] \o fs}
             /\ ToApp(c, fs)[d] \in {up[d], up[d] \o fs}
             /\ d # c => ToAgent(c, fs)[d] = down[d] /\ ToApp(c, fs)[d] = up[d]
  BY DEF Wires, ToAgent, ToApp
<1>2. ASSUME NEW d \in Link
      PROVE  /\ down[d] \o fs \in Seq(Frames) /\ On(down[d] \o fs) \subseteq On(down[d]) \cup On(fs)
             /\ up[d] \o fs \in Seq(Frames) /\ On(up[d] \o fs) \subseteq On(up[d]) \cup On(fs)
  BY Queues DEF Wires
<1>3. /\ ToAgent(c, fs) = [d \in Link |-> ToAgent(c, fs)[d]]
      /\ ToApp(c, fs) = [d \in Link |-> ToApp(c, fs)[d]]
  BY DEF Wires, ToAgent, ToApp
<1>4. /\ ToAgent(c, fs) \in [Link -> Seq(Frames)] /\ ToApp(c, fs) \in [Link -> Seq(Frames)]
  <2>1. \A d \in Link : ToAgent(c, fs)[d] \in Seq(Frames) /\ ToApp(c, fs)[d] \in Seq(Frames)
    BY <1>1, <1>2 DEF Wires
  <2> QED BY <1>3, <2>1
<1>5. \A d \in Link :
        /\ \A f \in On(ToAgent(c, fs)[d]) : f \in On(down[d]) \/ (f \in On(fs) /\ d = c)
        /\ \A f \in On(ToApp(c, fs)[d]) : f \in On(up[d]) \/ (f \in On(fs) /\ d = c)
  BY <1>1, <1>2
<1> QED BY <1>4, <1>5

(* A frame about a stream has its id. *)
LEMMA Framing ==
  ASSUME Ranges, NEW s \in Sockets, NEW n \in 0 .. MaxSent,
         NEW t \in {"OPEN", "OPENED", "DATA", "END"}
  PROVE  /\ Frame(t, s, n) \in Frames
         /\ Frame(t, s, n).own = s /\ Frame(t, s, n).id = sock[s].id
         /\ sock[s].on \in Link => Right(sock[s].on, Frame(t, s, n))
BY DEF Ranges, SockRec, Frame, Frames, Right

(* A stream that has a WebSocket keeps it, and its id. *)
Fixed == \A s \in Sockets : sock[s].on \in Link => sock'[s].on = sock[s].on /\ sock'[s].id = sock[s].id

(* Frames stay addressed when streams are fixed and new frames are right. *)
LEMMA Addressing ==
  ASSUME Inv, Fixed,
         \A c \in Link : \A f \in On(up'[c]) \cup On(down'[c]) :
            \/ f \in On(up[c]) \cup On(down[c])
            \/ f.own \in Sockets /\ Right(c, f)
            \/ sock'[f.own].on = c /\ sock'[f.own].id = f.id
  PROVE  Addressed'
<1> SUFFICES ASSUME NEW c \in Link, NEW f \in On(up'[c]) \cup On(down'[c])
             PROVE  Right(c, f)'
  BY DEF Addressed
<1>1. CASE f \in On(up[c]) \cup On(down[c])
  <2>1. f \in Frames BY <1>1 DEF Inv, Wires, On
  <2>2. Right(c, f) BY <1>1 DEF Inv, Addressed
  <2> QED BY <2>1, <2>2 DEF Fixed, Right, Frames
<1>2. CASE f.own \in Sockets /\ Right(c, f) BY <1>2 DEF Fixed, Right
<1>3. CASE sock'[f.own].on = c /\ sock'[f.own].id = f.id BY <1>3 DEF Right
<1> QED BY <1>1, <1>2, <1>3

(* Streams stay numbered when they are fixed and none gets a WebSocket. *)
LEMMA Numbering ==
  ASSUME Inv, Fixed, next' = next, sock' \in [Sockets -> SockRec],
         \A s \in Sockets : /\ sock'[s].on = sock[s].on
                            /\ sock'[s].state = "new" => sock[s].state = "new"
  PROVE  Numbered'
BY DEF Inv, Fixed, Numbered, Ranges, SockRec

(* A stream that is over is a stream, of the same WebSocket. *)
LEMMA Overs ==
  ASSUME Ranges, NEW s \in Sockets
  PROVE  /\ Dead(s) \in SockRec /\ Dead(s).on = sock[s].on /\ Dead(s).id = sock[s].id
         /\ Dead(s).state = "dead"
         /\ Shut(s) \in LocalRec
<1>1. sock[s] \in SockRec /\ local[s] \in LocalRec BY DEF Ranges
<1>2. /\ Dead(s) \in SockRec /\ Dead(s).on = sock[s].on /\ Dead(s).id = sock[s].id
      /\ Dead(s).state = "dead"
  BY <1>1 DEF SockRec, Dead
<1>3. Shut(s) \in LocalRec BY <1>1 DEF LocalRec, Shut
<1> QED BY <1>2, <1>3

\* Streams that are over, any number of them at once, are of their WebSockets.
LEMMA ManyOver ==
  ASSUME Ranges
  PROVE  /\ Destroyed \in [Sockets -> LocalRec]
         /\ \A c \in Link \cup {None} :
              /\ Failed(c) \in [Sockets -> SockRec]
              /\ \A r \in Sockets : /\ Failed(c)[r].on = sock[r].on /\ Failed(c)[r].id = sock[r].id
                                    /\ Failed(c)[r].state = "new" => sock[r].state = "new"
<1>1. \A r \in Sockets : sock[r] \in SockRec /\ local[r] \in LocalRec BY DEF Ranges
<1>2. Destroyed \in [Sockets -> LocalRec] BY <1>1, Overs DEF Destroyed
<1>3. ASSUME NEW c \in Link \cup {None}, NEW r \in Sockets
      PROVE  Failed(c)[r] \in {sock[r], Dead(r)}
  BY DEF Failed
<1>4. \A c \in Link \cup {None} : Failed(c) = [r \in Sockets |-> Failed(c)[r]]
  BY DEF Failed
<1> QED BY <1>1, <1>2, <1>3, <1>4, Overs

-----------------------------------------------------------------------------
(* Initially, and step by step                                             *)

\* Nothing is asked for, connected or sent at the start.
LEMMA InitInv == Init => Inv
<1> SUFFICES ASSUME Init PROVE Inv OBVIOUS
<1>1. NewSocket \in SockRec /\ NoLocal \in LocalRec
  BY TunnelAssumption DEF NewSocket, NoLocal, SockRec, LocalRec, Chunks
<1>2. Ranges
  <2>1. /\ sock \in [Sockets -> SockRec] /\ local \in [Sockets -> LocalRec] BY <1>1 DEF Init
  <2>2. faults \in 0 .. MaxFaults /\ honest \in BOOLEAN BY TunnelAssumption DEF Init
  <2>3. /\ limit \in Limits /\ revoked \in BOOLEAN /\ live \in Link \cup {None} /\ lost \subseteq Link
        /\ next \in [Link -> Nat] /\ agent \in [Link -> {"none", "open", "closed"}]
        /\ app \in [Link -> {"none", "upgrading", "open", "closing", "closed"}]
    BY DEF Init
  <2> QED BY <2>1, <2>2, <2>3 DEF Ranges
<1>3. Wires /\ Addressed BY DEF Init, Wires, Addressed, On
<1>4. Held /\ Numbered BY TunnelAssumption DEF Init, Held, Numbered, NewSocket, Link
<1> QED BY <1>2, <1>3, <1>4 DEF Inv

(* Every new frame is about a stream of its WebSocket. *)
Origins ==
    \A c \in Link : \A f \in On(up'[c]) \cup On(down'[c]) :
       f \in On(up[c]) \cup On(down[c]) \/ (f.own \in Sockets /\ Right(c, f))

(* No stream gets or changes its WebSocket and its id. *)
Settled ==
    \A s \in Sockets : /\ sock'[s].on = sock[s].on /\ sock'[s].id = sock[s].id
                       /\ sock'[s].state = "new" => sock[s].state = "new"

(* What is left to show of a step that starts no stream. *)
LEMMA Steps ==
  ASSUME Inv, Ranges', Wires', Held', next' = next, Settled, Origins
  PROVE  Inv'
<1>1. Fixed BY DEF Settled, Fixed
<1>2. sock' \in [Sockets -> SockRec] BY DEF Ranges
<1>3. Numbered' BY <1>1, <1>2, Numbering DEF Settled
<1>4. Addressed' BY <1>1, Addressing DEF Origins
<1> QED BY <1>3, <1>4 DEF Inv

(* The app's sockets. *)
LEMMA SocketSteps ==
  ASSUME Inv, NEW s \in Sockets, Ends(s) \/ AppWrites(s)
  PROVE  Inv'
<1> USE DEF Inv
<1>1. sock[s] \in SockRec /\ sock[s].on \in Link \cup {None} BY DEF Ranges, SockRec
<1>2. PICK n \in 0 .. MaxSent, t \in {"DATA", "END"} :
        down' \in {down, ToAgent(sock[s].on, <<Frame(t, s, n)>>)}
  BY <1>1, TunnelAssumption DEF Ends, AppWrites, SockRec
<1>3. Frame(t, s, n) \in Frames /\ (sock[s].on \in Link => Right(sock[s].on, Frame(t, s, n)))
      /\ Frame(t, s, n).own = s
  BY Framing
<1>4. <<Frame(t, s, n)>> \in Seq(Frames) /\ On(<<Frame(t, s, n)>>) = {Frame(t, s, n)}
  BY <1>3, OneFrame
<1>5. Wires' /\ \A d \in Link : \A f \in On(down'[d]) :
                   f \in On(down[d]) \/ (f = Frame(t, s, n) /\ d = sock[s].on)
  <2>1. up' = up BY DEF Ends, AppWrites
  <2>2. PICK fs \in Seq(Frames) : fs = <<Frame(t, s, n)>> BY <1>4
  <2>3. On(fs) = {Frame(t, s, n)} BY <1>4, <2>2
  <2>4. /\ ToAgent(sock[s].on, fs) \in [Link -> Seq(Frames)]
        /\ \A d \in Link : \A f \in On(ToAgent(sock[s].on, fs)[d]) :
             f \in On(down[d]) \/ (f \in On(fs) /\ d = sock[s].on)
    BY <1>1, Sending
  <2>5. CASE down' = down BY <2>1, <2>5 DEF Wires
  <2>6. CASE down' = ToAgent(sock[s].on, fs) BY <2>1, <2>3, <2>4, <2>6 DEF Wires
  <2> QED BY <1>2, <2>2, <2>5, <2>6
<1>6. /\ sock' \in [Sockets -> SockRec]
      /\ \A r \in Sockets : /\ sock'[r].on = sock[r].on /\ sock'[r].id = sock[r].id
                            /\ sock'[r].state = "new" => sock[r].state = "new"
  <2>1. CASE Ends(s) BY <2>1, Overs DEF Ends, Ranges
  <2>2. CASE AppWrites(s) BY <2>2, TunnelAssumption DEF AppWrites, Ranges, SockRec
  <2> QED BY <2>1, <2>2
<1>7. Fixed BY <1>6 DEF Fixed
<1>8. UNCHANGED <<wires, up, local>> BY DEF Ends, AppWrites
<1>9. Ranges' /\ Held' BY <1>6, <1>8 DEF Ranges, Held, wires
<1>10. Numbered' BY <1>6, <1>7, <1>8, Numbering DEF wires
<1>11. Addressed'
  <2>1. \A c \in Link : \A f \in On(up'[c]) \cup On(down'[c]) :
           f \in On(up[c]) \cup On(down[c]) \/ (f.own \in Sockets /\ Right(c, f))
    BY <1>3, <1>5, <1>8
  <2> QED BY <1>7, <2>1, Addressing
<1> QED BY <1>5, <1>9, <1>10, <1>11

(* One frame to the app. *)
LEMMA ToAppOne ==
  ASSUME Inv, NEW s \in Sockets, NEW n \in 0 .. MaxSent,
         NEW t \in {"OPEN", "OPENED", "DATA", "END"}, NEW c \in Link \cup {None},
         c \in Link => sock[s].on = c
  PROVE  /\ ToApp(c, <<Frame(t, s, n)>>) \in [Link -> Seq(Frames)]
         /\ \A d \in Link : \A f \in On(ToApp(c, <<Frame(t, s, n)>>)[d]) :
              f \in On(up[d]) \/ (f.own \in Sockets /\ Right(d, f))
<1>1. /\ Frame(t, s, n) \in Frames /\ Frame(t, s, n).own = s
      /\ sock[s].on \in Link => Right(sock[s].on, Frame(t, s, n))
  BY Framing DEF Inv
<1>2. PICK fs \in Seq(Frames) : fs = <<Frame(t, s, n)>> /\ On(fs) = {Frame(t, s, n)}
  BY <1>1, OneFrame
<1>3. /\ ToApp(c, fs) \in [Link -> Seq(Frames)]
      /\ \A d \in Link : \A f \in On(ToApp(c, fs)[d]) : f \in On(up[d]) \/ (f \in On(fs) /\ d = c)
  BY Sending DEF Inv
<1>4. \A d \in Link : \A f \in On(ToApp(c, fs)[d]) : f \in On(up[d]) \/ (f.own \in Sockets /\ Right(d, f))
  BY <1>1, <1>2, <1>3
<1> QED BY <1>2, <1>3, <1>4

(* The agent's local sockets, and frames out of turn. *)
LEMMA LocalSteps ==
  ASSUME Inv, NEW s \in Sockets,
         LocalEnds(s) \/ LocalConnects(s) \/ LocalSends(s) \/ LocalDrained(s)
  PROVE  Inv'
<1> USE DEF Inv
<1>1. sock[s] \in SockRec /\ sock[s].on \in Link \cup {None} /\ local[s] \in LocalRec
  BY DEF Ranges, SockRec
<1>2. UNCHANGED <<wires, down, sock>> BY DEF LocalEnds, LocalConnects, LocalSends, LocalDrained
<1>3. local' \in [Sockets -> LocalRec]
  <2>1. Shut(s) \in LocalRec BY Overs
  <2>2. CASE LocalEnds(s) \/ LocalDrained(s)
    BY <1>1, <2>1, <2>2 DEF LocalEnds, LocalDrained, Ranges
  <2>3. CASE LocalConnects(s) BY <1>1, <2>3 DEF LocalConnects, Ranges, LocalRec
  <2>4. CASE LocalSends(s) BY <1>1, <2>4, TunnelAssumption DEF LocalSends, Ranges, LocalRec
  <2> QED BY <2>2, <2>3, <2>4
<1>4. up' = up \/ \E n \in 0 .. MaxSent, t \in {"OPENED", "DATA", "END"} :
                     up' = ToApp(sock[s].on, <<Frame(t, s, n)>>)
  BY <1>1, TunnelAssumption DEF LocalEnds, LocalConnects, LocalSends, LocalDrained, LocalRec
<1>5. /\ up' \in [Link -> Seq(Frames)]
      /\ \A d \in Link : \A f \in On(up'[d]) : f \in On(up[d]) \/ (f.own \in Sockets /\ Right(d, f))
  <2>1. CASE up' = up BY <2>1 DEF Wires
  <2>2. ASSUME NEW n \in 0 .. MaxSent, NEW t \in {"OPENED", "DATA", "END"},
               up' = ToApp(sock[s].on, <<Frame(t, s, n)>>)
        PROVE  <1>5!1 /\ <1>5!2
    BY <1>1, <2>2, ToAppOne
  <2> QED BY <1>4, <2>1, <2>2
<1>6. Ranges' /\ Held' BY <1>2, <1>3 DEF Ranges, Held, wires
<1>7. Wires' BY <1>2, <1>5 DEF Wires
<1>8. Settled /\ Origins BY <1>2, <1>5 DEF Settled, Origins
<1> QED BY <1>2, <1>6, <1>7, <1>8, Steps DEF wires

(* A frame is taken from the head of a queue. *)
LEMMA Taking ==
  ASSUME NEW w \in [Link -> Seq(Frames)], NEW c \in Link, w[c] # <<>>
  PROVE  /\ [w EXCEPT ![c] = Tail(@)] \in [Link -> Seq(Frames)]
         /\ \A d \in Link : On([w EXCEPT ![c] = Tail(@)][d]) \subseteq On(w[d])
         /\ Head(w[c]) \in Frames /\ Head(w[c]) \in On(w[c])
<1>1. /\ Tail(w[c]) \in Seq(Frames) /\ On(Tail(w[c])) \subseteq On(w[c])
      /\ Head(w[c]) \in On(w[c]) /\ Head(w[c]) \in Frames
  BY Queues
<1> QED BY <1>1

(* A frame arrives at the app. *)
LEMMA ArrivalSteps ==
  ASSUME Inv, NEW c \in Link, Arrives(c)
  PROVE  Inv'
<1> USE DEF Inv
<1>1. /\ Takes(c) /\ up[c] # <<>>
      /\ UNCHANGED <<limit, revoked, live, agent, lost, next, local, faults, honest>>
      /\ up' = [up EXCEPT ![c] = Tail(@)]
  BY DEF Arrives, Ignored, Opened, Received, RemoteEnds, ProtocolViolation, Takes
<1>2. /\ up' \in [Link -> Seq(Frames)] /\ \A d \in Link : On(up'[d]) \subseteq On(up[d])
      /\ Head(up[c]) \in Frames
  BY <1>1, Taking DEF Wires
<1>3. \A s \in Sockets : sock[s] \in SockRec BY DEF Ranges
<1>4. \A id \in Nat : Named(c, id) \subseteq Sockets /\ \A s \in Named(c, id) : sock[s].on = c
  BY DEF Named, StreamsOf
<1>5. /\ sock' \in [Sockets -> SockRec] /\ Settled
  <2>1. CASE sock' = sock BY <2>1 DEF Ranges, Settled
  <2>2. CASE Opened(c)
    <3>1. PICK s \in Sockets : sock' = [sock EXCEPT ![s].state = "open"]
      BY <2>2 DEF Opened, Named, StreamsOf
    <3> QED BY <1>3, <3>1 DEF Settled, Ranges, SockRec
  <2>3. CASE RemoteEnds(c) BY <1>3, <2>3, Overs DEF RemoteEnds, Settled, Ranges, Named, StreamsOf
  <2>4. CASE Received(c)
    <3>1. PICK s \in Sockets : sock' = [sock EXCEPT ![s].got = Append(@, <<Head(up[c]).own, Head(up[c]).n>>)]
      BY <2>4 DEF Received, Named, StreamsOf
    <3>2. Append(sock[s].got, <<Head(up[c]).own, Head(up[c]).n>>) \in Chunks
      BY <1>2, <1>3 DEF SockRec, Chunks, Frames
    <3> QED BY <1>3, <3>1, <3>2 DEF Settled, Ranges, SockRec
  <2> QED BY <2>1, <2>2, <2>3, <2>4 DEF Arrives, Ignored, ProtocolViolation
<1>6. /\ app' \in [Link -> {"none", "upgrading", "open", "closing", "closed"}]
      /\ app' = app \/ (app[c] \in {"open", "closing"} /\ app' = [app EXCEPT ![c] = "closing"])
  BY DEF Arrives, Ignored, Opened, Received, RemoteEnds, ProtocolViolation, Takes, Ranges
<1>7. Held' BY <1>1, <1>6 DEF Held, Ranges
<1>8. /\ down' \in [Link -> Seq(Frames)]
      /\ \A d \in Link : \A f \in On(down'[d]) : f \in On(down[d]) \/ (f.own \in Sockets /\ Right(d, f))
  <2>1. CASE down' = down BY <2>1 DEF Wires
  <2>2. CASE Opened(c)
    <3>1. PICK s \in Sockets : /\ sock[s].on = c
                               /\ down' = ToAgent(c, [i \in 1 .. sock[s].sent |-> Frame("DATA", s, i)])
      BY <2>2 DEF Opened, Named, StreamsOf
    <3>2. PICK fs : fs = [i \in 1 .. sock[s].sent |-> Frame("DATA", s, i)] OBVIOUS
    <3>3. sock[s].sent \in 0 .. MaxSent BY <1>3 DEF SockRec
    <3>4. \A i \in 1 .. sock[s].sent : /\ i \in 0 .. MaxSent /\ Frame("DATA", s, i) \in Frames
                                       /\ Frame("DATA", s, i).own = s /\ Right(c, Frame("DATA", s, i))
      BY <3>1, <3>3, TunnelAssumption, Framing
    <3>5. fs \in Seq(Frames) /\ \A f \in On(fs) : f.own \in Sockets /\ Right(c, f)
      <4>1. sock[s].sent \in Nat /\ Len(fs) = sock[s].sent BY <3>2, <3>3, TunnelAssumption
      <4>2. fs \in Seq(Frames) BY <3>2, <3>4, <4>1
      <4> QED BY <3>2, <3>4, <4>1, <4>2 DEF On
    <3>6. /\ ToAgent(c, fs) \in [Link -> Seq(Frames)]
          /\ \A d \in Link : \A f \in On(ToAgent(c, fs)[d]) : f \in On(down[d]) \/ (f \in On(fs) /\ d = c)
      BY <3>5, Sending
    <3> QED BY <3>1, <3>2, <3>5, <3>6
  <2> QED BY <2>1, <2>2 DEF Arrives, Ignored, Received, RemoteEnds, ProtocolViolation
<1>9. Ranges' /\ Wires' BY <1>1, <1>2, <1>5, <1>6, <1>8 DEF Ranges, Wires
<1>10. Origins BY <1>2, <1>8 DEF Origins
<1> QED BY <1>1, <1>5, <1>7, <1>9, <1>10, Steps

(* A frame arrives at the agent. *)
LEMMA AgentReadSteps ==
  ASSUME Inv, NEW c \in Link, AgentReads(c)
  PROVE  Inv'
<1> USE DEF Inv
<1> DEFINE f == Head(down[c])
<1>1. /\ down[c] # <<>> /\ UNCHANGED <<wires, sock>> /\ down' = [down EXCEPT ![c] = Tail(@)]
  BY DEF AgentReads, AgentOpens, AgentData, AgentCloses, AgentTakes
<1>2. /\ down' \in [Link -> Seq(Frames)] /\ \A d \in Link : On(down'[d]) \subseteq On(down[d])
      /\ f \in Frames /\ f \in On(down[c])
  BY <1>1, Taking DEF Wires
<1>3. f.own \in Sockets /\ f.n \in 0 .. MaxSent /\ sock[f.own].on = c
  BY <1>2 DEF Frames, Addressed, Right
<1>4. \A s \in Sockets : local[s] \in LocalRec BY DEF Ranges
<1> HIDE DEF f
<1>5. local' \in [Sockets -> LocalRec]
  <2>1. CASE AgentOpens(c) BY <1>3, <1>4, <2>1 DEF AgentOpens, Ranges, LocalRec, f
  <2>2. CASE AgentData(c)
    <3>1. \A s \in Sockets : Append(local[s].got, <<f.own, f.n>>) \in Chunks
      BY <1>3, <1>4 DEF LocalRec, Chunks
    <3>2. \A s \in Sockets : [local[s] EXCEPT !.got = Append(@, <<f.own, f.n>>)] \in LocalRec
      BY <1>4, <3>1 DEF LocalRec
    <3> QED BY <1>4, <2>2, <3>2 DEF AgentData, f
  <2>3. CASE AgentCloses(c)
    <3>1. \A s \in Sockets : [local[s] EXCEPT !.state = "draining", !.mapped = FALSE] \in LocalRec
      BY <1>4 DEF LocalRec
    <3> QED BY <1>4, <2>3, <3>1 DEF AgentCloses
  <2> QED BY <2>1, <2>2, <2>3 DEF AgentReads
<1>6. /\ up' \in [Link -> Seq(Frames)]
      /\ \A d \in Link : \A g \in On(up'[d]) : g \in On(up[d]) \/ (g.own \in Sockets /\ Right(d, g))
  <2>1. CASE up' = up BY <2>1 DEF Wires
  <2>2. CASE up' = ToApp(c, <<Frame("END", f.own, 0)>>)
    <3>1. PICK n \in 0 .. MaxSent : n = 0 BY TunnelAssumption
    <3> QED BY <1>3, <2>2, <3>1, ToAppOne
  <2> QED BY <2>1, <2>2 DEF AgentReads, AgentOpens, AgentData, AgentCloses, f
<1>7. Ranges' /\ Held' BY <1>1, <1>5 DEF Ranges, Held, wires
<1>8. Wires' BY <1>2, <1>6 DEF Wires
<1>9. Settled /\ Origins BY <1>1, <1>2, <1>6 DEF Settled, Origins
<1> QED BY <1>1, <1>7, <1>8, <1>9, Steps DEF wires

\* A frame that is out of turn is about a stream, whoever made it up.
LEMMA MisbehavesStep ==
  ASSUME Inv, NEW c \in Link, Misbehaves(c)
  PROVE  Inv'
<1> USE DEF Inv
<1>1. PICK s \in Sockets, t \in {"OPENED", "DATA"} :
        sock[s].on = c /\ up' = ToApp(c, <<Frame(t, s, 0)>>)
  BY DEF Misbehaves
<1>2. /\ UNCHANGED <<limit, revoked, live, app, agent, lost, down, next, sock, local>>
      /\ honest' = FALSE /\ faults' \in 0 .. MaxFaults
  BY TunnelAssumption DEF Misbehaves, Fails, Ranges
<1>3. /\ up' \in [Link -> Seq(Frames)]
      /\ \A d \in Link : \A g \in On(up'[d]) : g \in On(up[d]) \/ (g.own \in Sockets /\ Right(d, g))
  <2>1. PICK n \in 0 .. MaxSent : n = 0 BY TunnelAssumption
  <2> QED BY <1>1, <2>1, ToAppOne
<1>4. Ranges' /\ Held' BY <1>2 DEF Ranges, Held
<1>5. Wires' BY <1>2, <1>3 DEF Wires
<1>6. Settled /\ Origins BY <1>2, <1>3 DEF Settled, Origins
<1> QED BY <1>2, <1>4, <1>5, <1>6, Steps

(* A stream is opened: it takes the next id of the live WebSocket. *)
LEMMA StartStep ==
  ASSUME Inv, NEW s \in Sockets, Start(s)
  PROVE  Inv'
<1> USE DEF Inv
<1>1. sock[s] \in SockRec /\ sock[s].state = "new" /\ sock[s].on = None
  BY DEF Start, Ranges, Numbered
<1>2. UNCHANGED <<limit, revoked, live, app, agent, lost, up, local, faults, honest>> BY DEF Start
<1>3. CASE sock' = [sock EXCEPT ![s] = Dead(s)] /\ UNCHANGED <<down, next>>
  <2>1. sock' \in [Sockets -> SockRec] /\ Settled BY <1>3, Overs DEF Ranges, Settled
  <2>2. Ranges' /\ Held' /\ Wires' /\ Origins
    BY <1>2, <1>3, <2>1 DEF Ranges, Held, Wires, Origins
  <2> QED BY <1>3, <2>1, <2>2, Steps
<1> DEFINE g == [type |-> "OPEN", id |-> next[live], own |-> s, n |-> 0]
<1>4. CASE /\ live # None
           /\ sock' = [sock EXCEPT ![s] = [@ EXCEPT !.state = "connecting", !.on = live,
                                                   !.id = next[live], !.mapped = TRUE]]
           /\ next' = [next EXCEPT ![live] = @ + 1]
           /\ down' = ToAgent(live, <<g>>)
  <2>1. /\ live \in Link /\ next[live] \in Nat
        /\ sock' = [sock EXCEPT ![s] = [@ EXCEPT !.state = "connecting", !.on = live,
                                                !.id = next[live], !.mapped = TRUE]]
        /\ next' = [next EXCEPT ![live] = @ + 1]
        /\ down' = ToAgent(live, <<g>>)
    BY <1>4 DEF Ranges
  <2>2. g \in Frames BY <2>1, TunnelAssumption DEF Frames
  <2>3. PICK fs \in Seq(Frames) : fs = <<g>> /\ On(fs) = {g} BY <2>2, OneFrame
  <2>4. /\ down' \in [Link -> Seq(Frames)]
        /\ \A d \in Link : \A f \in On(down'[d]) : f \in On(down[d]) \/ (f = g /\ d = live)
    <3>1. /\ ToAgent(live, fs) \in [Link -> Seq(Frames)]
          /\ \A d \in Link : \A f \in On(ToAgent(live, fs)[d]) : f \in On(down[d]) \/ (f \in On(fs) /\ d = live)
      BY <2>1, Sending
    <3> QED BY <2>1, <2>3, <3>1
  <2>5. /\ sock' \in [Sockets -> SockRec] /\ next' \in [Link -> Nat]
        /\ sock'[s].on = live /\ sock'[s].id = next[live] /\ sock'[s].state = "connecting"
        /\ \A r \in Sockets : r # s => sock'[r] = sock[r]
    <3>1. PICK n : n = [sock[s] EXCEPT !.state = "connecting", !.on = live, !.id = next[live], !.mapped = TRUE]
      OBVIOUS
    <3>2. n \in SockRec /\ n.on = live /\ n.id = next[live] /\ n.state = "connecting"
      BY <1>1, <2>1, <3>1 DEF SockRec
    <3>3. sock' = [sock EXCEPT ![s] = n] BY <2>1, <3>1
    <3> HIDE DEF g
    <3> QED BY <2>1, <3>2, <3>3 DEF Ranges
  <2>6. Fixed BY <1>1, <2>5, TunnelAssumption DEF Fixed, Link
  <2>7. Numbered'
    <3>1. \A r \in Sockets : sock[r] \in SockRec BY DEF Ranges
    <3>2. \A r \in Sockets : r # s /\ sock[r].on = live => sock[r].id < next[live] /\ sock[r].id \in Nat
      BY <2>1, <3>1 DEF Numbered, SockRec
    <3>3. \A d \in Link : next'[d] \in Nat /\ next'[d] >= next[d] /\ next[d] \in Nat /\ next'[live] = next[live] + 1
      BY <2>1 DEF Ranges
    <3>4. ASSUME NEW r \in Sockets
          PROVE  /\ sock'[r].state = "new" => sock'[r].on = None
                 /\ sock'[r].on \in Link => sock'[r].id < next'[sock'[r].on]
      <4>1. CASE r = s BY <2>1, <2>5, <3>3, <4>1
      <4>2. CASE r # s BY <2>5, <3>1, <3>3, <4>2 DEF Numbered, SockRec
      <4> QED BY <4>1, <4>2
    <3>5. ASSUME NEW r \in Sockets, NEW q \in Sockets,
                 sock'[r].on \in Link, sock'[r].on = sock'[q].on, sock'[r].id = sock'[q].id
          PROVE  r = q
      <4>1. CASE r # s /\ q # s BY <2>5, <3>5, <4>1 DEF Numbered
      <4>2. CASE r = s /\ q # s BY <2>1, <2>5, <3>2, <3>5, <4>2
      <4>3. CASE r # s /\ q = s BY <2>1, <2>5, <3>2, <3>5, <4>3
      <4> QED BY <4>1, <4>2, <4>3
    <3> QED BY <3>4, <3>5 DEF Numbered
  <2>8. Addressed' BY <1>2, <2>4, <2>5, <2>6, Addressing
  <2>9. Ranges' /\ Held' /\ Wires' BY <1>2, <2>4, <2>5 DEF Ranges, Held, Wires
  <2> QED BY <2>7, <2>8, <2>9
<1> QED BY <1>3, <1>4 DEF Start

(* Queues only lose frames when a WebSocket closes or is lost. *)
LEMMA Emptied ==
  ASSUME NEW w \in [Link -> Seq(Frames)], NEW c \in Link
  PROVE  /\ [w EXCEPT ![c] = <<>>] \in [Link -> Seq(Frames)]
         /\ \A d \in Link : On([w EXCEPT ![c] = <<>>][d]) \subseteq On(w[d])
BY Queues DEF On

(* What is left to show of a step that only opens and closes WebSockets. *)
LEMMA LinkStep ==
  ASSUME Inv, Ranges', Held', next' = next, Settled,
         \E c \in Link : up' \in {up, [up EXCEPT ![c] = <<>>]},
         \E c \in Link : down' \in {down, [down EXCEPT ![c] = <<>>]}
  PROVE  Inv'
<1>0. up \in [Link -> Seq(Frames)] /\ down \in [Link -> Seq(Frames)] BY DEF Inv, Wires
<1>1. /\ up' \in [Link -> Seq(Frames)] /\ \A d \in Link : On(up'[d]) \subseteq On(up[d])
  <2>1. CASE up' = up BY <1>0, <2>1
  <2>2. ASSUME NEW c \in Link, up' = [up EXCEPT ![c] = <<>>]
        PROVE  <1>1
    BY <1>0, <2>2, Emptied
  <2> QED BY <2>1, <2>2
<1>2. /\ down' \in [Link -> Seq(Frames)] /\ \A d \in Link : On(down'[d]) \subseteq On(down[d])
  <2>1. CASE down' = down BY <1>0, <2>1
  <2>2. ASSUME NEW c \in Link, down' = [down EXCEPT ![c] = <<>>]
        PROVE  <1>2
    BY <1>0, <2>2, Emptied
  <2> QED BY <2>1, <2>2
<1>3. Wires' /\ Origins BY <1>1, <1>2 DEF Wires, Origins
<1> QED BY <1>3, Steps

\* Sockets that stay as they are keep their WebSockets and ids.
LEMMA Untouched ==
  ASSUME Inv, sock' = sock
  PROVE  sock' \in [Sockets -> SockRec] /\ Settled
BY DEF Inv, Ranges, Settled

(* WebSockets open, are accepted, close and are lost. *)
LEMMA LinkSteps ==
  ASSUME Inv, NEW c \in Link,
         AgentConnects(c) \/ Accept(c) \/ AppGone(c) \/ AgentNotices(c) \/ AgentLeaves(c) \/ Lose(c)
  PROVE  Inv'
<1> USE DEF Inv
<1>1. CASE AgentConnects(c)
  <2>1. Ranges' BY <1>1 DEF AgentConnects, Ranges
  <2>2. Held' BY <1>1 DEF AgentConnects, Held, Ranges
  <2> QED BY <1>1, <2>1, <2>2, Untouched, LinkStep DEF AgentConnects
<1>2. CASE Accept(c)
  <2>1. sock' \in [Sockets -> SockRec] /\ Settled
    <3>1. CASE sock' = sock BY <3>1, Untouched
    <3>2. CASE live # None /\ sock' = Failed(live) BY <3>2, ManyOver DEF Settled, Ranges
    <3> QED BY <1>2, <3>1, <3>2 DEF Accept
  <2>2. Ranges' BY <1>2, <2>1 DEF Accept, Ranges
  <2>3. Held'
    <3>1. CASE StillRevoked BY <1>2, <3>1 DEF Accept, StillRevoked, Held, Ranges
    <3>2. CASE ~StillRevoked
      BY <1>2, <3>2, TunnelAssumption DEF Accept, StillRevoked, Held, Ranges, Link
    <3> QED BY <3>1, <3>2
  <2> QED BY <1>2, <2>1, <2>2, <2>3, LinkStep DEF Accept
<1>3. CASE AppGone(c)
  <2>1. sock' \in [Sockets -> SockRec] /\ Settled BY <1>3, ManyOver DEF AppGone, Settled
  <2>2. Ranges' BY <1>3, <2>1 DEF AppGone, LiveWithout, Ranges
  <2>3. Held' BY <1>3, TunnelAssumption DEF AppGone, LiveWithout, Held, Ranges, Link
  <2> QED BY <1>3, <2>1, <2>2, <2>3, LinkStep DEF AppGone
<1>4. CASE AgentNotices(c) \/ AgentLeaves(c)
  <2>1. AgentGone(c) /\ faults' \in 0 .. MaxFaults
    BY <1>4, TunnelAssumption DEF AgentNotices, AgentLeaves, Fails, Ranges
  <2>2. Ranges' BY <2>1, ManyOver DEF AgentGone, Ranges
  <2>3. Held' BY <2>1 DEF AgentGone, Held
  <2> QED BY <2>1, <2>2, <2>3, Untouched, LinkStep DEF AgentGone
<1>5. CASE Lose(c)
  <2>1. faults' \in 0 .. MaxFaults BY <1>5, TunnelAssumption DEF Lose, Fails, Ranges
  <2>2. Ranges' BY <1>5, <2>1 DEF Lose, Ranges
  <2>3. Held' BY <1>5 DEF Lose, Held
  <2> QED BY <1>5, <2>2, <2>3, Untouched, LinkStep DEF Lose
<1> QED BY <1>1, <1>2, <1>3, <1>4, <1>5

\* A revocation closes the WebSocket the hub holds; none opens after it.
LEMMA RevokeStep ==
  ASSUME Inv, Revoke
  PROVE  Inv'
<1> USE DEF Inv
<1>1. sock' \in [Sockets -> SockRec] /\ Settled
  <2>1. CASE sock' = sock BY <2>1, Untouched
  <2>2. CASE live # None /\ sock' = Failed(live) BY <2>2, ManyOver DEF Settled, Ranges
  <2> QED BY <2>1, <2>2 DEF Revoke
<1>2. Ranges' BY <1>1 DEF Revoke, Ranges
<1>3. Held' BY DEF Revoke, Held, Ranges
<1>4. Wires' /\ Origins BY DEF Revoke, Wires, Origins
<1> QED BY <1>1, <1>2, <1>3, <1>4, Steps DEF Revoke

-----------------------------------------------------------------------------

(* Every state of every behaviour satisfies Inv. *)
THEOREM Inductive == Spec => []Inv
<1>1. Inv /\ [Next]_vars => Inv'
  <2> SUFFICES ASSUME Inv, [Next]_vars PROVE Inv' OBVIOUS
  <2>1. CASE UNCHANGED vars
    BY <2>1 DEF vars, Inv, Ranges, Wires, Held, Numbered, Addressed, Right
  <2>2. ASSUME NEW s \in Sockets,
               \/ Start(s) \/ AppEnds(s) \/ OpenTimeout(s) \/ AppWrites(s)
               \/ LocalEnds(s) \/ LocalConnects(s) \/ LocalSends(s) \/ LocalDrained(s)
        PROVE  Inv'
    BY <2>2, StartStep, SocketSteps, LocalSteps DEF AppEnds, OpenTimeout
  <2>3. ASSUME NEW c \in Link, Arrives(c) \/ AgentReads(c) \/ Misbehaves(c)
        PROVE  Inv'
    BY <2>3, ArrivalSteps, AgentReadSteps, MisbehavesStep
  <2>4. ASSUME NEW c \in Link,
               \/ AgentConnects(c) \/ Accept(c) \/ AppGone(c)
               \/ AgentNotices(c) \/ AgentLeaves(c) \/ Lose(c)
        PROVE  Inv'
    BY <2>4, LinkSteps
  <2> QED BY <2>1, <2>2, <2>3, <2>4, RevokeStep DEF Next
<1> QED BY InitInv, <1>1, PTL DEF Spec

(* Every variable has its type, and the hub holds a WebSocket only while it *)
(* may be used.                                                             *)
THEOREM TypeCorrect == Spec => []TypeOK
<1>1. Inv => TypeOK BY DEF Inv, Ranges, Wires, Held, TypeOK, SockRec, LocalRec
<1> QED BY <1>1, Inductive, PTL

(* hub.ts, routes/agents.ts: a revoked agent has no open WebSocket. *)
THEOREM RevocationHolds == Spec => []RevokedCut
<1>1. Inv => RevokedCut BY TunnelAssumption DEF Inv, Held, RevokedCut, Link
<1> QED BY <1>1, Inductive, PTL

(* hub.ts onMessage: whatever arrives late, after a time-out, a reconnection *)
(* or a revocation, reaches the stream it was sent for or no stream.         *)
THEOREM Separate == Spec => []NoCrossTalk
<1>1. ASSUME Inv PROVE NoCrossTalk
  <2> SUFFICES ASSUME NEW c \in Link, up[c] # <<>>, NEW s \in Named(c, Head(up[c]).id)
               PROVE  s = Head(up[c]).own
    BY DEF NoCrossTalk
  <2>1. Head(up[c]) \in On(up[c]) /\ Head(up[c]) \in Frames
    BY <1>1, Taking DEF Inv, Wires
  <2>2. Right(c, Head(up[c])) /\ Head(up[c]).own \in Sockets
    BY <1>1, <2>1 DEF Inv, Addressed, Frames
  <2>3. s \in Sockets /\ sock[s].on = c /\ sock[s].id = Head(up[c]).id
    BY DEF Named, StreamsOf
  <2> QED BY <1>1, <2>2, <2>3 DEF Inv, Numbered, Right
<1> QED BY <1>1, Inductive, PTL

-----------------------------------------------------------------------------
(* A queue, seen from one stream                                           *)

\* The frames of one kind about stream s in a queue.
At(q, s, t) == {i \in 1 .. Len(q) : q[i].own = s /\ q[i].type = t}
Has(q, s, t) == At(q, s, t) # {}
Numbers(q, s) == {q[i].n : i \in At(q, s, "DATA")}

\* Frames about s are in the order in which either end sends them.
Orderly(q, s) ==
    /\ \A t \in {"OPEN", "OPENED"} : \A i, j \in At(q, s, t) : i = j
    /\ \A i \in At(q, s, "OPENED"), j \in At(q, s, "DATA") : i < j
    /\ \A i \in At(q, s, "OPEN"), j \in At(q, s, "END") : i < j
    /\ \A i, j \in At(q, s, "DATA") : i < j => q[i].n < q[j].n

\* Among the frames of a queue, one of kind t about r is before the OPEN of s.
Ahead(q, s, r, t) == \E i \in At(q, r, t), j \in At(q, s, "OPEN") : i < j

(* A queue and its first frame. *)
LEMMA FirstFrame ==
  ASSUME NEW q \in Seq(Frames), q # <<>>
  PROVE  /\ Len(q) \in Nat /\ Len(q) > 0 /\ Len(Tail(q)) = Len(q) - 1 /\ Head(q) = q[1]
         /\ \A i \in 1 .. Len(q) - 1 : Tail(q)[i] = q[i + 1]
OBVIOUS

(* Where the frames were before the first one was taken. *)
LEMMA TailAt ==
  ASSUME NEW q \in Seq(Frames), q # <<>>, NEW s, NEW t, NEW i \in At(Tail(q), s, t)
  PROVE  i + 1 \in At(q, s, t) /\ i \in Nat /\ i > 0 /\ Tail(q)[i] = q[i + 1]
BY FirstFrame DEF At

(* Where they are then. *)
LEMMA NowAt ==
  ASSUME NEW q \in Seq(Frames), q # <<>>, NEW s, NEW t, NEW i \in At(q, s, t), i # 1
  PROVE  i - 1 \in At(Tail(q), s, t) /\ i \in Nat /\ i > 1 /\ Tail(q)[i - 1] = q[i]
<1>1. i \in 1 .. Len(q) /\ i - 1 \in 1 .. Len(q) - 1 /\ q[i].own = s /\ q[i].type = t BY FirstFrame DEF At
<1>2. Tail(q)[i - 1] = q[i] BY <1>1, FirstFrame
<1> QED BY <1>1, <1>2, FirstFrame DEF At

(* The first one. *)
LEMMA HeadAt ==
  ASSUME NEW q \in Seq(Frames), q # <<>>, NEW s, NEW t
  PROVE  1 \in At(q, s, t) <=> Head(q).own = s /\ Head(q).type = t
BY FirstFrame DEF At

(* What is left about s once the first frame is taken. *)
LEMMA TailHas ==
  ASSUME NEW q \in Seq(Frames), q # <<>>, NEW s
  PROVE  /\ \A t : Has(Tail(q), s, t) => Has(q, s, t)
         /\ \A t : Has(q, s, t) => Has(Tail(q), s, t) \/ (Head(q).own = s /\ Head(q).type = t)
         /\ Orderly(q, s) => Orderly(Tail(q), s)
<1>1. ASSUME NEW t, Has(Tail(q), s, t)
      PROVE  Has(q, s, t)
  BY <1>1, TailAt DEF Has
<1>2. ASSUME NEW t, Has(q, s, t)
      PROVE  Has(Tail(q), s, t) \/ (Head(q).own = s /\ Head(q).type = t)
  <2>1. PICK i \in At(q, s, t) : TRUE BY <1>2 DEF Has
  <2>2. CASE i = 1 BY <2>1, <2>2, HeadAt
  <2>3. CASE i # 1
    <3>1. i - 1 \in At(Tail(q), s, t) BY <2>3, NowAt
    <3> QED BY <3>1 DEF Has
  <2> QED BY <2>2, <2>3
<1>3. ASSUME Orderly(q, s)
      PROVE  Orderly(Tail(q), s)
  <2>1. ASSUME NEW t, NEW i \in At(Tail(q), s, t)
        PROVE  i + 1 \in At(q, s, t) /\ i \in Nat /\ Tail(q)[i] = q[i + 1]
    BY TailAt
  <2>2. /\ \A t \in {"OPEN", "OPENED"} : \A i, j \in At(q, s, t) : i = j
        /\ \A i \in At(q, s, "OPENED"), j \in At(q, s, "DATA") : i < j
        /\ \A i \in At(q, s, "OPEN"), j \in At(q, s, "END") : i < j
        /\ \A i, j \in At(q, s, "DATA") : i < j => q[i].n < q[j].n
    BY <1>3 DEF Orderly
  <2>3. \A t \in {"OPEN", "OPENED"} : \A i, j \in At(Tail(q), s, t) : i = j
    <3> TAKE t \in {"OPEN", "OPENED"}
    <3> TAKE i, j \in At(Tail(q), s, t)
    <3>1. i + 1 \in At(q, s, t) /\ j + 1 \in At(q, s, t) /\ i \in Nat /\ j \in Nat BY <2>1
    <3>2. i + 1 = j + 1 BY <2>2, <3>1
    <3> QED BY <3>1, <3>2
  <2>4. \A i \in At(Tail(q), s, "OPENED"), j \in At(Tail(q), s, "DATA") : i < j
    <3> TAKE i \in At(Tail(q), s, "OPENED"), j \in At(Tail(q), s, "DATA")
    <3>1. i + 1 < j + 1 /\ i \in Nat /\ j \in Nat BY <2>1, <2>2
    <3> QED BY <3>1
  <2>5. \A i \in At(Tail(q), s, "OPEN"), j \in At(Tail(q), s, "END") : i < j
    <3> TAKE i \in At(Tail(q), s, "OPEN"), j \in At(Tail(q), s, "END")
    <3>1. i + 1 < j + 1 /\ i \in Nat /\ j \in Nat BY <2>1, <2>2
    <3> QED BY <3>1
  <2>6. \A i, j \in At(Tail(q), s, "DATA") : i < j => Tail(q)[i].n < Tail(q)[j].n
    <3> TAKE i, j \in At(Tail(q), s, "DATA")
    <3>1. /\ i + 1 \in At(q, s, "DATA") /\ j + 1 \in At(q, s, "DATA") /\ i \in Nat /\ j \in Nat
          /\ Tail(q)[i] = q[i + 1] /\ Tail(q)[j] = q[j + 1]
      BY <2>1
    <3>2. i < j => i + 1 < j + 1 BY <3>1
    <3> QED BY <2>2, <3>1, <3>2
  <2> QED BY <2>3, <2>4, <2>5, <2>6 DEF Orderly
<1> QED BY <1>1, <1>2, <1>3

(* What the first frame says of the others about its stream. *)
LEMMA HeadFirst ==
  ASSUME NEW q \in Seq(Frames), q # <<>>, NEW s, Orderly(q, s), Head(q).own = s
  PROVE  /\ Has(q, s, Head(q).type)
         /\ Head(q).type \in {"OPEN", "OPENED"} => ~Has(Tail(q), s, Head(q).type)
         /\ Head(q).type = "DATA" => ~Has(q, s, "OPENED")
         /\ Head(q).type = "END" => ~Has(q, s, "OPEN")
<1> DEFINE t == Head(q).type
<1>1. 1 \in At(q, s, t) BY HeadAt
<1>2. \A u : \A i \in At(q, s, u) : i = 1 \/ (i \in Nat /\ i > 1) BY FirstFrame DEF At
<1>3. ASSUME t \in {"OPEN", "OPENED"}
      PROVE  ~Has(Tail(q), s, t)
  <2> SUFFICES ASSUME NEW i \in At(Tail(q), s, t) PROVE FALSE
    BY DEF Has
  <2>1. i + 1 \in At(q, s, t) /\ i \in Nat /\ i > 0 BY TailAt
  <2>2. i + 1 = 1 BY <1>1, <1>3, <2>1 DEF Orderly
  <2> QED BY <2>1, <2>2
<1>4. t = "DATA" => ~Has(q, s, "OPENED") BY <1>1, <1>2 DEF Has, Orderly
<1>5. t = "END" => ~Has(q, s, "OPEN") BY <1>1, <1>2 DEF Has, Orderly
<1> QED BY <1>1, <1>3, <1>4, <1>5 DEF Has

(* Which chunks are left. *)
LEMMA TailNumbers ==
  ASSUME NEW q \in Seq(Frames), q # <<>>, NEW s
  PROVE  /\ ~(Head(q).own = s /\ Head(q).type = "DATA") => Numbers(Tail(q), s) = Numbers(q, s)
         /\ Head(q).own = s /\ Head(q).type = "DATA" /\ Orderly(q, s) =>
              /\ Numbers(Tail(q), s) = Numbers(q, s) \ {Head(q).n}
              /\ Head(q).n \in Numbers(q, s)
              /\ \A n \in Numbers(q, s) : Head(q).n <= n
<1> DEFINE A == At(q, s, "DATA")
           T == At(Tail(q), s, "DATA")
<1>1. /\ \A i \in T : i + 1 \in A /\ i \in Nat /\ i > 0 /\ Tail(q)[i] = q[i + 1]
      /\ \A i \in A : i # 1 => i - 1 \in T /\ i \in Nat /\ i > 1
      /\ 1 \in A <=> Head(q).own = s /\ Head(q).type = "DATA"
      /\ Head(q) = q[1]
  <2>1. \A i \in T : i + 1 \in A /\ i \in Nat /\ i > 0 /\ Tail(q)[i] = q[i + 1]
    <3> TAKE i \in T
    <3> QED BY TailAt
  <2>2. \A i \in A : i # 1 => i - 1 \in T /\ i \in Nat /\ i > 1
    <3> TAKE i \in A
    <3> QED BY NowAt
  <2>3. 1 \in A <=> Head(q).own = s /\ Head(q).type = "DATA" BY HeadAt
  <2> QED BY <2>1, <2>2, <2>3, FirstFrame
<1>2. \A i \in A : q[i] \in Frames BY DEF At
<1>3. Numbers(q, s) = {q[i].n : i \in A} /\ Numbers(Tail(q), s) = {Tail(q)[i].n : i \in T} BY DEF Numbers
<1>4. Orderly(q, s) => \A i, j \in A : i < j => q[i].n < q[j].n BY DEF Orderly
<1> HIDE DEF A, T
<1>5. \A i \in A : i # 1 => Tail(q)[i - 1] = q[i]
  <2> TAKE i \in A
  <2>1. i # 1 => i - 1 \in T /\ (i - 1) + 1 = i BY <1>1
  <2> QED BY <1>1, <2>1
<1>6. {Tail(q)[i].n : i \in T} = {q[i].n : i \in A \ {1}}
  <2>1. ASSUME NEW i \in T
        PROVE  i + 1 \in A \ {1} /\ Tail(q)[i].n = q[i + 1].n
    <3>1. i + 1 \in A /\ i \in Nat /\ i > 0 /\ Tail(q)[i] = q[i + 1] BY <1>1
    <3>2. i + 1 # 1 BY <3>1
    <3> QED BY <3>1, <3>2
  <2>2. \A i \in A \ {1} : i - 1 \in T /\ Tail(q)[i - 1].n = q[i].n BY <1>1, <1>5
  <2> DEFINE X == {Tail(q)[i].n : i \in T}
             Y == {q[i].n : i \in A \ {1}}
  <2>3. \A x \in X : x \in Y BY <2>1
  <2>4. \A y \in Y : y \in X BY <2>2
  <2>5. X = Y
    <3> HIDE DEF X, Y
    <3> QED BY <2>3, <2>4
  <2> QED BY <2>5
<1>7. CASE ~(Head(q).own = s /\ Head(q).type = "DATA")
  <2>1. A \ {1} = A BY <1>1, <1>7
  <2> QED BY <1>3, <1>6, <1>7, <2>1
<1>8. CASE Head(q).own = s /\ Head(q).type = "DATA" /\ Orderly(q, s)
  <2>1. 1 \in A /\ \A i \in A \ {1} : i > 1 /\ i \in Nat BY <1>1, <1>8
  <2>2. \A i \in A \ {1} : q[1].n < q[i].n BY <1>4, <1>8, <2>1
  <2>3. \A i \in A : q[i].n \in Nat BY <1>2, TunnelAssumption DEF Frames
  <2>4. q[1].n \notin {q[i].n : i \in A \ {1}} BY <2>1, <2>2, <2>3
  <2>5. {q[i].n : i \in A \ {1}} = {q[i].n : i \in A} \ {q[1].n} BY <2>1, <2>4
  <2>6. \A i \in A : q[1].n <= q[i].n BY <2>1, <2>2, <2>3
  <2> QED BY <1>1, <1>3, <1>6, <1>8, <2>1, <2>5, <2>6, ZenonT(40)
<1>9. CASE Head(q).own = s /\ Head(q).type = "DATA" /\ ~Orderly(q, s) BY <1>9
<1> QED BY <1>7, <1>8, <1>9

\* A queue and what is added to it.
Then(q, r) == q \o r

(* A queue to which others are added. *)
LEMMA Longer ==
  ASSUME NEW q \in Seq(Frames), NEW r \in Seq(Frames)
  PROVE  /\ Len(q) \in Nat /\ Len(r) \in Nat /\ Len(Then(q, r)) = Len(q) + Len(r) /\ Then(q, r) \in Seq(Frames)
         /\ \A i \in 1 .. Len(q) : Then(q, r)[i] = q[i]
         /\ \A i \in 1 .. Len(r) : Then(q, r)[Len(q) + i] = r[i]
BY DEF Then

(* The frames before stay where they are. *)
LEMMA OldAt ==
  ASSUME NEW q \in Seq(Frames), NEW r \in Seq(Frames), NEW s, NEW t, NEW i \in At(q, s, t)
  PROVE  i \in At(Then(q, r), s, t) /\ Then(q, r)[i] = q[i]
<1>1. i \in 1 .. Len(q) /\ q[i].own = s /\ q[i].type = t BY DEF At
<1>2. Then(q, r)[i] = q[i] BY <1>1, Longer
<1>3. i \in 1 .. Len(Then(q, r))
  <2>1. Len(q) \in Nat /\ Len(r) \in Nat /\ Len(Then(q, r)) = Len(q) + Len(r) BY Longer
  <2> QED BY <1>1, <2>1
<1> QED BY <1>1, <1>2, <1>3 DEF At

(* The others are behind them. *)
LEMMA NewAt ==
  ASSUME NEW q \in Seq(Frames), NEW r \in Seq(Frames), NEW s, NEW t, NEW i \in At(r, s, t)
  PROVE  Len(q) + i \in At(Then(q, r), s, t) /\ Then(q, r)[Len(q) + i] = r[i]
<1>1. i \in 1 .. Len(r) /\ r[i].own = s /\ r[i].type = t BY DEF At
<1>2. Then(q, r)[Len(q) + i] = r[i] BY <1>1, Longer
<1>3. Len(q) + i \in 1 .. Len(Then(q, r))
  <2>1. Len(q) \in Nat /\ Len(r) \in Nat /\ Len(Then(q, r)) = Len(q) + Len(r) BY Longer
  <2> QED BY <1>1, <2>1
<1> QED BY <1>1, <1>2, <1>3 DEF At

(* There are no more. *)
LEMMA AddedAt ==
  ASSUME NEW q \in Seq(Frames), NEW r \in Seq(Frames), NEW s, NEW t, NEW i \in At(Then(q, r), s, t)
  PROVE  /\ i \in Nat /\ Len(q) \in Nat
         /\ \/ i \in At(q, s, t) /\ i <= Len(q) /\ Then(q, r)[i] = q[i]
            \/ i - Len(q) \in At(r, s, t) /\ i > Len(q) /\ Then(q, r)[i] = r[i - Len(q)]
<1>0. Len(q) \in Nat /\ Len(r) \in Nat /\ Len(Then(q, r)) = Len(q) + Len(r) BY Longer
<1>1. i \in 1 .. Len(q) + Len(r) /\ Then(q, r)[i].own = s /\ Then(q, r)[i].type = t BY <1>0 DEF At
<1>2. CASE i <= Len(q)
  <2>1. i \in 1 .. Len(q) BY <1>0, <1>1, <1>2
  <2>2. Then(q, r)[i] = q[i] BY <2>1, Longer
  <2>3. i \in At(q, s, t) BY <1>1, <2>1, <2>2 DEF At
  <2> QED BY <1>0, <1>2, <2>1, <2>2, <2>3
<1>3. CASE i > Len(q)
  <2>1. i - Len(q) \in 1 .. Len(r) /\ Len(q) + (i - Len(q)) = i BY <1>0, <1>1, <1>3
  <2>2. Then(q, r)[Len(q) + (i - Len(q))] = r[i - Len(q)] BY <2>1, Longer
  <2>3. Then(q, r)[i] = r[i - Len(q)] BY <2>1, <2>2
  <2>4. i - Len(q) \in At(r, s, t) BY <1>1, <2>1, <2>3 DEF At
  <2> QED BY <1>0, <1>1, <1>3, <2>3, <2>4
<1> QED BY <1>0, <1>1, <1>2, <1>3

(* Frames are added. *)
LEMMA AddedHas ==
  ASSUME NEW q \in Seq(Frames), NEW r \in Seq(Frames), NEW s
  PROVE  /\ \A t : Has(Then(q, r), s, t) <=> Has(q, s, t) \/ Has(r, s, t)
         /\ Numbers(Then(q, r), s) = Numbers(q, s) \cup Numbers(r, s)
<1>1. ASSUME NEW t
      PROVE  Has(Then(q, r), s, t) <=> Has(q, s, t) \/ Has(r, s, t)
  BY OldAt, NewAt, AddedAt DEF Has
<1>2. ASSUME NEW n \in Numbers(Then(q, r), s)
      PROVE  n \in Numbers(q, s) \cup Numbers(r, s)
  <2>1. PICK i \in At(Then(q, r), s, "DATA") : n = Then(q, r)[i].n BY DEF Numbers
  <2>2. \/ i \in At(q, s, "DATA") /\ Then(q, r)[i] = q[i]
        \/ i - Len(q) \in At(r, s, "DATA") /\ Then(q, r)[i] = r[i - Len(q)]
    BY AddedAt
  <2> QED BY <2>1, <2>2 DEF Numbers
<1>3. ASSUME NEW n \in Numbers(q, s)
      PROVE  n \in Numbers(Then(q, r), s)
  <2>1. PICK i \in At(q, s, "DATA") : n = q[i].n BY DEF Numbers
  <2>2. i \in At(Then(q, r), s, "DATA") /\ Then(q, r)[i] = q[i] BY OldAt
  <2> QED BY <2>1, <2>2 DEF Numbers
<1>4. ASSUME NEW n \in Numbers(r, s)
      PROVE  n \in Numbers(Then(q, r), s)
  <2>1. PICK i \in At(r, s, "DATA") : n = r[i].n BY DEF Numbers
  <2>2. Len(q) + i \in At(Then(q, r), s, "DATA") /\ Then(q, r)[Len(q) + i] = r[i] BY NewAt
  <2> QED BY <2>1, <2>2 DEF Numbers
<1>5. Numbers(Then(q, r), s) = Numbers(q, s) \cup Numbers(r, s) BY <1>2, <1>3, <1>4
<1> QED BY <1>1, <1>5

(* The frames added come after the others. *)
LEMMA AddedOrderly ==
  ASSUME NEW q \in Seq(Frames), NEW r \in Seq(Frames), NEW s, Orderly(q, s), Orderly(r, s),
         \A t \in {"OPEN", "OPENED"} : ~(Has(q, s, t) /\ Has(r, s, t)),
         ~(Has(q, s, "DATA") /\ Has(r, s, "OPENED")), ~(Has(q, s, "END") /\ Has(r, s, "OPEN")),
         \A m \in Numbers(q, s), n \in Numbers(r, s) : m < n
  PROVE  Orderly(Then(q, r), s)
<1>0. Len(q) \in Nat OBVIOUS
<1>1. ASSUME NEW t, NEW i \in At(Then(q, r), s, t)
      PROVE  /\ i \in Nat
             /\ \/ i \in At(q, s, t) /\ i <= Len(q) /\ Then(q, r)[i] = q[i]
                \/ i - Len(q) \in At(r, s, t) /\ i > Len(q) /\ Then(q, r)[i] = r[i - Len(q)]
  BY AddedAt
<1>2. ASSUME NEW t \in {"OPEN", "OPENED"}, NEW i \in At(Then(q, r), s, t), NEW j \in At(Then(q, r), s, t)
      PROVE  i = j
  <2>1. CASE i \in At(q, s, t) /\ j \in At(q, s, t) BY <2>1 DEF Orderly
  <2>2. CASE i - Len(q) \in At(r, s, t) /\ j - Len(q) \in At(r, s, t)
    <3>1. i - Len(q) = j - Len(q) BY <2>2 DEF Orderly
    <3> QED BY <1>0, <1>1, <3>1
  <2> QED BY <1>1, <2>1, <2>2 DEF Has
<1>3. ASSUME NEW i \in At(Then(q, r), s, "OPENED"), NEW j \in At(Then(q, r), s, "DATA")
      PROVE  i < j
  <2>1. CASE i \in At(q, s, "OPENED") /\ j \in At(q, s, "DATA") BY <2>1 DEF Orderly
  <2>2. CASE i - Len(q) \in At(r, s, "OPENED") /\ j - Len(q) \in At(r, s, "DATA")
    <3>1. i - Len(q) < j - Len(q) BY <2>2 DEF Orderly
    <3> QED BY <1>0, <1>1, <3>1
  <2>3. CASE i <= Len(q) /\ j > Len(q) BY <1>0, <1>1, <2>3
  <2> QED BY <1>1, <2>1, <2>2, <2>3 DEF Has
<1>4. ASSUME NEW i \in At(Then(q, r), s, "OPEN"), NEW j \in At(Then(q, r), s, "END")
      PROVE  i < j
  <2>1. CASE i \in At(q, s, "OPEN") /\ j \in At(q, s, "END") BY <2>1 DEF Orderly
  <2>2. CASE i - Len(q) \in At(r, s, "OPEN") /\ j - Len(q) \in At(r, s, "END")
    <3>1. i - Len(q) < j - Len(q) BY <2>2 DEF Orderly
    <3> QED BY <1>0, <1>1, <3>1
  <2>3. CASE i <= Len(q) /\ j > Len(q) BY <1>0, <1>1, <2>3
  <2> QED BY <1>1, <2>1, <2>2, <2>3 DEF Has
<1>5. ASSUME NEW i \in At(Then(q, r), s, "DATA"), NEW j \in At(Then(q, r), s, "DATA"), i < j
      PROVE  Then(q, r)[i].n < Then(q, r)[j].n
  <2>1. CASE i \in At(q, s, "DATA") /\ j \in At(q, s, "DATA") /\ Then(q, r)[i] = q[i] /\ Then(q, r)[j] = q[j]
    BY <1>5, <2>1 DEF Orderly
  <2>2. CASE /\ i - Len(q) \in At(r, s, "DATA") /\ j - Len(q) \in At(r, s, "DATA")
             /\ Then(q, r)[i] = r[i - Len(q)] /\ Then(q, r)[j] = r[j - Len(q)]
    <3>1. i - Len(q) < j - Len(q) BY <1>0, <1>1, <1>5
    <3> QED BY <2>2, <3>1 DEF Orderly
  <2>3. CASE i \in At(q, s, "DATA") /\ j - Len(q) \in At(r, s, "DATA")
               /\ Then(q, r)[i] = q[i] /\ Then(q, r)[j] = r[j - Len(q)]
    <3>1. Then(q, r)[i].n \in Numbers(q, s) /\ Then(q, r)[j].n \in Numbers(r, s) BY <2>3 DEF Numbers
    <3> QED BY <3>1
  <2>4. ~(i > Len(q) /\ j <= Len(q)) BY <1>0, <1>1, <1>5
  <2> QED BY <1>1, <2>1, <2>2, <2>3, <2>4
<1> QED BY <1>2, <1>3, <1>4, <1>5 DEF Orderly

(* One frame. *)
LEMMA OneHas ==
  ASSUME NEW f \in Frames, NEW s
  PROVE  /\ <<f>> \in Seq(Frames) /\ Orderly(<<f>>, s)
         /\ \A t : Has(<<f>>, s, t) <=> f.own = s /\ f.type = t
         /\ Numbers(<<f>>, s) = IF f.own = s /\ f.type = "DATA" THEN {f.n} ELSE {}
<1>1. Len(<<f>>) = 1 /\ <<f>>[1] = f /\ 1 .. 1 = {1} OBVIOUS
<1>2. ASSUME NEW t
      PROVE  At(<<f>>, s, t) = IF f.own = s /\ f.type = t THEN {1} ELSE {}
  BY <1>1 DEF At
<1>3. \A t : Has(<<f>>, s, t) <=> f.own = s /\ f.type = t BY <1>2 DEF Has
<1>4. Numbers(<<f>>, s) = IF f.own = s /\ f.type = "DATA" THEN {f.n} ELSE {} BY <1>1, <1>2 DEF Numbers
<1>5. Orderly(<<f>>, s)
  <2>1. \A t : \A i \in At(<<f>>, s, t) : i = 1 /\ f.type = t BY <1>2
  <2> QED BY <2>1 DEF Orderly
<1> QED BY <1>3, <1>4, <1>5

(* No frame. *)
LEMMA NoneHas ==
  ASSUME NEW s
  PROVE  /\ Orderly(<<>>, s) /\ Numbers(<<>>, s) = {} /\ \A t : ~Has(<<>>, s, t)
<1>1. \A t : At(<<>>, s, t) = {} BY DEF At
<1> QED BY <1>1 DEF Orderly, Numbers, Has

(* A queue in which nothing about s has changed. *)
Same(q, p, s) ==
    /\ \A t : Has(p, s, t) <=> Has(q, s, t)
    /\ Numbers(p, s) = Numbers(q, s)
    /\ Orderly(q, s) => Orderly(p, s)

(* A queue to which a frame about s was added. *)
Sent(q, p, s, t, n) ==
    /\ \A v : Has(p, s, v) <=> Has(q, s, v) \/ v = t
    /\ Numbers(p, s) = IF t = "DATA" THEN Numbers(q, s) \cup {n} ELSE Numbers(q, s)
    /\ /\ Orderly(q, s)
       /\ t \in {"OPEN", "OPENED"} => ~Has(q, s, t)
       /\ t = "OPENED" => ~Has(q, s, "DATA")
       /\ t = "OPEN" => ~Has(q, s, "END")
       /\ t = "DATA" => \A m \in Numbers(q, s) : m < n
       => Orderly(p, s)

(* A queue of which a frame about s was taken. *)
Taken(q, p, s, t, n) ==
    /\ Has(q, s, t) /\ Orderly(p, s)
    /\ \A v : Has(p, s, v) => Has(q, s, v)
    /\ \A v : v # t => (Has(p, s, v) <=> Has(q, s, v))
    /\ t \in {"OPEN", "OPENED"} => ~Has(p, s, t)
    /\ t = "DATA" => ~Has(q, s, "OPENED") /\ n \in Numbers(q, s) /\ \A m \in Numbers(q, s) : n <= m
    /\ t = "END" => ~Has(q, s, "OPEN")
    /\ Numbers(p, s) = IF t = "DATA" THEN Numbers(q, s) \ {n} ELSE Numbers(q, s)

(* Data are frames with a number. *)
LEMMA Data ==
  ASSUME NEW q, NEW s
  PROVE  Has(q, s, "DATA") <=> Numbers(q, s) # {}
BY DEF Has, Numbers

(* The first frame is about another stream. *)
LEMMA OtherTaken ==
  ASSUME NEW q \in Seq(Frames), q # <<>>, NEW s, Head(q).own # s
  PROVE  Same(q, Tail(q), s)
BY TailHas, TailNumbers DEF Same

(* The first frame is about s. *)
LEMMA OwnTaken ==
  ASSUME NEW q \in Seq(Frames), q # <<>>, NEW s, Head(q).own = s, Orderly(q, s)
  PROVE  Taken(q, Tail(q), s, Head(q).type, Head(q).n)
<1>1. /\ \A v : Has(Tail(q), s, v) => Has(q, s, v)
      /\ \A v : Has(q, s, v) => Has(Tail(q), s, v) \/ Head(q).type = v
      /\ Orderly(Tail(q), s)
  BY TailHas
<1>2. /\ Has(q, s, Head(q).type)
      /\ Head(q).type \in {"OPEN", "OPENED"} => ~Has(Tail(q), s, Head(q).type)
      /\ Head(q).type = "DATA" => ~Has(q, s, "OPENED")
      /\ Head(q).type = "END" => ~Has(q, s, "OPEN")
  BY HeadFirst
<1>3. /\ Head(q).type # "DATA" => Numbers(Tail(q), s) = Numbers(q, s)
      /\ Head(q).type = "DATA" => /\ Numbers(Tail(q), s) = Numbers(q, s) \ {Head(q).n}
                                  /\ Head(q).n \in Numbers(q, s)
                                  /\ \A n \in Numbers(q, s) : Head(q).n <= n
  BY TailNumbers
<1> QED BY <1>1, <1>2, <1>3 DEF Taken

(* Frames about other streams are added. *)
LEMMA OtherSent ==
  ASSUME NEW q \in Seq(Frames), NEW r \in Seq(Frames), NEW s, \A i \in 1 .. Len(r) : r[i].own # s
  PROVE  Same(q, Then(q, r), s)
<1>1. \A t : At(r, s, t) = {} BY DEF At
<1>2. \A t : ~Has(r, s, t) BY <1>1 DEF Has
<1>3. Numbers(r, s) = {} BY <1>1 DEF Numbers
<1>4. Orderly(r, s) BY <1>1 DEF Orderly
<1>5. (\A t : Has(Then(q, r), s, t) <=> Has(q, s, t) \/ Has(r, s, t))
        /\ Numbers(Then(q, r), s) = Numbers(q, s) \cup Numbers(r, s)
  BY AddedHas
<1>6. Orderly(q, s) => Orderly(Then(q, r), s) BY <1>2, <1>3, <1>4, AddedOrderly
<1> QED BY <1>2, <1>3, <1>5, <1>6 DEF Same

(* One frame about s is added. *)
LEMMA OwnSent ==
  ASSUME NEW q \in Seq(Frames), NEW f \in Frames, NEW s, f.own = s
  PROVE  Sent(q, Then(q, <<f>>), s, f.type, f.n)
<1>1. PICK r \in Seq(Frames) : r = <<f>> BY OneHas
<1>2. /\ Orderly(r, s) /\ \A t : Has(r, s, t) <=> f.type = t
      /\ Numbers(r, s) = IF f.type = "DATA" THEN {f.n} ELSE {}
  BY <1>1, OneHas
<1>3. /\ \A t : Has(Then(q, r), s, t) <=> Has(q, s, t) \/ Has(r, s, t)
      /\ Numbers(Then(q, r), s) = Numbers(q, s) \cup Numbers(r, s)
  BY AddedHas
<1>4. ASSUME Orderly(q, s),
             f.type \in {"OPEN", "OPENED"} => ~Has(q, s, f.type),
             f.type = "OPENED" => ~Has(q, s, "DATA"),
             f.type = "OPEN" => ~Has(q, s, "END"),
             f.type = "DATA" => \A m \in Numbers(q, s) : m < f.n
      PROVE  Orderly(Then(q, r), s)
  <2>1. \A t \in {"OPEN", "OPENED"} : ~(Has(q, s, t) /\ Has(r, s, t)) BY <1>2, <1>4
  <2>2. ~(Has(q, s, "DATA") /\ Has(r, s, "OPENED")) /\ ~(Has(q, s, "END") /\ Has(r, s, "OPEN")) BY <1>2, <1>4
  <2>3. \A m \in Numbers(q, s), n \in Numbers(r, s) : m < n BY <1>2, <1>4
  <2> QED BY <1>2, <1>4, <2>1, <2>2, <2>3, AddedOrderly
<1>5. Sent(q, Then(q, r), s, f.type, f.n) BY <1>2, <1>3, <1>4 DEF Sent
<1> QED BY <1>1, <1>5

(* The chunks that were kept while the stream was not open are added. *)
LEMMA KeptSent ==
  ASSUME NEW q \in Seq(Frames), NEW r \in Seq(Frames), NEW s,
         \A i \in 1 .. Len(r) : r[i].own = s /\ r[i].type = "DATA" /\ r[i].n = i,
         ~Has(q, s, "DATA")
  PROVE  /\ \A t : t # "DATA" => (Has(Then(q, r), s, t) <=> Has(q, s, t))
         /\ Numbers(Then(q, r), s) = 1 .. Len(r)
         /\ Orderly(q, s) => Orderly(Then(q, r), s)
<1>1. \A t : At(r, s, t) = IF t = "DATA" THEN 1 .. Len(r) ELSE {} BY DEF At
<1>2. \A t : t # "DATA" => ~Has(r, s, t) BY <1>1 DEF Has
<1>3. Numbers(r, s) = 1 .. Len(r)
  <2>1. Numbers(r, s) = {r[i].n : i \in 1 .. Len(r)} BY <1>1 DEF Numbers
  <2>2. \A i \in 1 .. Len(r) : r[i].n = i OBVIOUS
  <2> QED BY <2>1, <2>2
<1>4. Orderly(r, s) BY <1>1 DEF Orderly
<1>5. Numbers(q, s) = {} BY Data
<1>6. /\ \A t : Has(Then(q, r), s, t) <=> Has(q, s, t) \/ Has(r, s, t)
      /\ Numbers(Then(q, r), s) = Numbers(q, s) \cup Numbers(r, s)
  BY AddedHas
<1>7. ASSUME Orderly(q, s)
      PROVE  Orderly(Then(q, r), s)
  <2>1. \A t \in {"OPEN", "OPENED"} : ~(Has(q, s, t) /\ Has(r, s, t)) BY <1>2
  <2>2. ~(Has(q, s, "DATA") /\ Has(r, s, "OPENED")) /\ ~(Has(q, s, "END") /\ Has(r, s, "OPEN")) BY <1>2
  <2>3. \A m \in Numbers(q, s), n \in Numbers(r, s) : m < n BY <1>5
  <2> QED BY <1>4, <1>7, <2>1, <2>2, <2>3, AddedOrderly
<1> QED BY <1>2, <1>3, <1>5, <1>6, <1>7

-----------------------------------------------------------------------------
(* One stream                                                              *)

(* Chunks on their way: some of w, after the first g, without a gap. *)
Run(N, g, w) == \E k \in g .. w : N = g + 1 .. k

(* Another is sent. *)
LEMMA RunSent ==
  ASSUME NEW N, NEW g \in Nat, NEW w \in Nat, Run(N, g, w), N = g + 1 .. w,
         NEW x, x = w + 1, NEW P, P = N \cup {x}
  PROVE  P = g + 1 .. x /\ Run(P, g, x)
<1>1. g <= w BY DEF Run
<1>2. N \cup {w + 1} = g + 1 .. w + 1 /\ w + 1 \in g .. w + 1 BY <1>1
<1> QED BY <1>2 DEF Run

(* Another is written that is not sent. *)
LEMMA RunKept ==
  ASSUME NEW N, NEW g \in Nat, NEW w \in Nat, Run(N, g, w)
  PROVE  Run(N, g, w + 1) /\ g <= w /\ N \subseteq 1 .. w
<1>1. PICK k \in g .. w : N = g + 1 .. k BY DEF Run
<1>2. k \in g .. w + 1 /\ g <= w /\ g + 1 .. k \subseteq 1 .. w BY <1>1
<1> QED BY <1>1, <1>2 DEF Run

(* The next one arrives. *)
LEMMA RunTaken ==
  ASSUME NEW N, NEW g \in Nat, NEW w \in Nat, Run(N, g, w), NEW n \in N, \A m \in N : n <= m,
         NEW x, x = g + 1, NEW P, P = N \ {n}
  PROVE  /\ n = x /\ g < w /\ Run(P, x, w)
         /\ N = g + 1 .. w => P = x + 1 .. w
<1>1. PICK k \in g .. w : N = g + 1 .. k BY DEF Run
<1>2. n = g + 1 /\ k > g
  <2>1. g + 1 \in N BY <1>1
  <2> QED BY <1>1, <2>1
<1>3. N \ {n} = (g + 1) + 1 .. k /\ k \in g + 1 .. w BY <1>1, <1>2
<1>4. N = g + 1 .. w => N \ {n} = (g + 1) + 1 .. w BY <1>2
<1> QED BY <1>1, <1>2, <1>3, <1>4 DEF Run

(* None is on its way. *)
LEMMA RunNone ==
  ASSUME NEW g \in Nat, NEW w \in Nat, g <= w
  PROVE  Run({}, g, w) /\ (g = w => {} = g + 1 .. w)
<1>1. {} = g + 1 .. g /\ g \in g .. w OBVIOUS
<1> QED BY <1>1 DEF Run

(* All are. *)
LEMMA RunAll ==
  ASSUME NEW w \in Nat
  PROVE  Run(1 .. w, 0, w)
<1>1. 1 .. w = 0 + 1 .. w /\ w \in 0 .. w OBVIOUS
<1> QED BY <1>1 DEF Run

(* The two ends k and l of a stream; ao: the agent's WebSocket is open.     *)
Paired(k, l, ao) ==
    /\ k.mapped <=> k.state \in {"connecting", "open"}
    /\ k.mapped => k.on \in Link
    /\ k.state = "new" => k.got = <<>>
    /\ l.mapped <=> l.state \in {"connecting", "open"}
    /\ l.state # "none" => k.on \in Link
    /\ l.mapped => ao
    /\ l.state \in {"none", "connecting"} => l.sent = 0
    /\ l.state = "none" => l.got = <<>>
    /\ k.mapped => l.state # "draining"

(* What the app will hear about a stream it still has: u is what is on its *)
(* way; us: the agent may send.                                            *)
Upward(s, k, l, u, d, us) ==
    /\ Orderly(u, s)
    /\ Has(u, s, "OPENED") => k.state = "connecting"
    /\ k.state = "connecting" => k.got = <<>> /\ (Has(u, s, "DATA") => Has(u, s, "OPENED"))
    /\ l.state \in {"none", "connecting"} =>
         k.state = "connecting" /\ ~Has(u, s, "OPENED") /\ ~Has(u, s, "DATA")
    /\ l.state = "open" /\ k.state = "connecting" /\ us => Has(u, s, "OPENED")
    /\ Has(u, s, "END") => ~l.mapped /\ ~Has(d, s, "OPEN")
    /\ Run(Numbers(u, s), Len(k.got), l.sent)
    /\ l.state = "open" /\ us => Numbers(u, s) = Len(k.got) + 1 .. l.sent

(* What the agent will hear about a stream: d is on its way; ds: the app   *)
(* may send.                                                               *)
Downward(s, k, l, d, ds) ==
    /\ Orderly(d, s)
    /\ Numbers(d, s) \subseteq 1 .. k.sent
    /\ Has(d, s, "OPEN") => l.state = "none"
    /\ Has(d, s, "END") => ~k.mapped
    /\ l.state = "none" \/ k.state = "connecting" => ~Has(d, s, "DATA") /\ l.got = <<>>
    /\ ds /\ ~k.mapped /\ (l.mapped \/ Has(d, s, "OPEN")) => Has(d, s, "END")
    /\ l.mapped => Run(Numbers(d, s), Len(l.got), k.sent)
    /\ l.mapped /\ k.state = "open" /\ ds => Numbers(d, s) = Len(l.got) + 1 .. k.sent

Sane(s, k, l, u, d, us, ds, ao) ==
    /\ Paired(k, l, ao)
    /\ k.mapped => Upward(s, k, l, u, d, us)
    /\ k.on \in Link => Downward(s, k, l, d, ds)

(* The lengths and numbers of a stream. *)
LEMMA Lengths ==
  ASSUME NEW k \in SockRec, NEW l \in LocalRec
  PROVE  /\ k.sent \in Nat /\ l.sent \in Nat /\ Len(k.got) \in Nat /\ Len(l.got) \in Nat
         /\ k.mapped \in BOOLEAN /\ l.mapped \in BOOLEAN
         /\ k.got = <<>> => Len(k.got) = 0
         /\ l.got = <<>> => Len(l.got) = 0
BY TunnelAssumption DEF SockRec, LocalRec, Chunks

(* Nothing happens at either end: what is on its way stays, or is lost with *)
(* the connection, or nobody is there to hear it.                           *)
LEMMA Calm ==
  ASSUME NEW s, NEW k \in SockRec, NEW l \in LocalRec, NEW u, NEW d, NEW v, NEW e,
         NEW us \in BOOLEAN, NEW ds \in BOOLEAN, NEW ao \in BOOLEAN,
         NEW vs \in BOOLEAN, NEW es \in BOOLEAN, NEW bo \in BOOLEAN,
         Sane(s, k, l, u, d, us, ds, ao),
         Same(u, v, s) \/ (v = <<>> /\ ~vs) \/ ~k.mapped,
         Same(d, e, s) \/ (e = <<>> /\ ~es),
         vs => us, es => ds, bo = ao \/ ~l.mapped
  PROVE  Sane(s, k, l, v, e, vs, es, bo)
<1>1. Paired(k, l, bo) BY DEF Sane, Paired
<1>2. ASSUME k.mapped PROVE Upward(s, k, l, v, e, vs)
  <2>1. Upward(s, k, l, u, d, us) BY <1>2 DEF Sane
  <2>2. Has(e, s, "OPEN") => Has(d, s, "OPEN") BY NoneHas DEF Same
  <2>3. CASE Same(u, v, s) BY <2>1, <2>2, <2>3 DEF Upward, Same
  <2>4. CASE v = <<>> /\ ~vs
    <3>1. Run(Numbers(u, s), Len(k.got), l.sent) BY <2>1 DEF Upward
    <3>2. Run({}, Len(k.got), l.sent) BY <3>1, Lengths, RunKept, RunNone
    <3>3. Orderly(v, s) /\ Numbers(v, s) = {} /\ \A t : ~Has(v, s, t) BY <2>4, NoneHas
    <3> QED BY <2>1, <2>4, <3>2, <3>3 DEF Upward
  <2> QED BY <1>2, <2>3, <2>4
<1>3. ASSUME k.on \in Link PROVE Downward(s, k, l, e, es)
  <2>1. Downward(s, k, l, d, ds) BY <1>3 DEF Sane
  <2>2. CASE Same(d, e, s) BY <2>1, <2>2 DEF Downward, Same
  <2>3. CASE e = <<>> /\ ~es
    <3>1. l.mapped => Run(Numbers(d, s), Len(l.got), k.sent) BY <2>1 DEF Downward
    <3>2. l.mapped => Run({}, Len(l.got), k.sent) BY <3>1, Lengths, RunKept, RunNone
    <3>3. Orderly(e, s) /\ Numbers(e, s) = {} /\ \A t : ~Has(e, s, t) BY <2>3, NoneHas
    <3> QED BY <2>1, <2>3, <3>2, <3>3 DEF Downward
  <2> QED BY <2>2, <2>3
<1> QED BY <1>1, <1>2, <1>3 DEF Sane

(* The app's socket ends; the agent is told, or has nothing to hear of. *)
LEMMA Dies ==
  ASSUME NEW s, NEW k \in SockRec, NEW l \in LocalRec, NEW u, NEW d,
         NEW us \in BOOLEAN, NEW ds \in BOOLEAN, NEW ao \in BOOLEAN, Sane(s, k, l, u, d, us, ds, ao),
         NEW m \in SockRec, m.state = "dead", ~m.mapped, m.on = k.on, m.sent = k.sent,
         NEW v, NEW e, NEW vs \in BOOLEAN, NEW es \in BOOLEAN, es => ds,
         Same(d, e, s) \/ Sent(d, e, s, "END", 0),
         es => Sent(d, e, s, "END", 0) \/ ~(l.mapped \/ Has(d, s, "OPEN"))
  PROVE  Sane(s, m, l, v, e, vs, es, ao)
<1>1. Paired(m, l, ao) BY DEF Sane, Paired
<1>2. ASSUME m.on \in Link PROVE Downward(s, m, l, e, es)
  <2>1. Downward(s, k, l, d, ds) BY <1>2 DEF Sane
  <2>2. CASE Same(d, e, s) BY <2>1, <2>2 DEF Downward, Same, Sent
  <2>3. CASE Sent(d, e, s, "END", 0) BY <2>1, <2>3 DEF Downward, Sent
  <2> QED BY <2>2, <2>3
<1> QED BY <1>1, <1>2 DEF Sane

(* A stream is asked for: nothing is on its way yet. *)
LEMMA Starts ==
  ASSUME NEW s, NEW k \in SockRec, NEW l \in LocalRec, NEW u, NEW d,
         NEW us \in BOOLEAN, NEW ds \in BOOLEAN, NEW ao \in BOOLEAN, Sane(s, k, l, u, d, us, ds, ao),
         k.state = "new", k.on \notin Link,
         NEW m \in SockRec, m.state = "connecting", m.mapped, m.on \in Link, m.got = k.got,
         NEW p, NEW v, NEW e, NEW vs \in BOOLEAN, NEW es \in BOOLEAN, NEW bo \in BOOLEAN,
         Orderly(v, s) /\ \A t : ~Has(v, s, t),
         Orderly(p, s) /\ \A t : ~Has(p, s, t),
         Same(p, e, s) \/ Sent(p, e, s, "OPEN", 0)
  PROVE  Sane(s, m, l, v, e, vs, es, bo)
<1>1. l.state = "none" /\ l.sent = 0 /\ l.got = <<>> /\ ~l.mapped /\ k.got = <<>>
  BY DEF Sane, Paired
<1>2. Numbers(v, s) = {} /\ Numbers(p, s) = {} BY Data
<1>3. Orderly(e, s) /\ Numbers(e, s) = {} /\ \A t : Has(e, s, t) => t = "OPEN"
  <2>1. CASE Same(p, e, s) BY <1>2, <2>1 DEF Same
  <2>2. CASE Sent(p, e, s, "OPEN", 0) BY <1>2, <2>2 DEF Sent
  <2> QED BY <2>1, <2>2
<1>4. Paired(m, l, bo) BY <1>1 DEF Paired
<1>5. Upward(s, m, l, v, e, vs)
  <2>1. Run({}, 0, 0) BY RunNone
  <2>2. Len(m.got) = 0 BY <1>1, Lengths
  <2> QED BY <1>1, <1>2, <2>1, <2>2 DEF Upward
<1>6. Downward(s, m, l, e, es) BY <1>1, <1>3 DEF Downward
<1> QED BY <1>4, <1>5, <1>6 DEF Sane

(* The app writes a chunk, which is sent if the stream is open. *)
LEMMA Writes ==
  ASSUME NEW s, NEW k \in SockRec, NEW l \in LocalRec, NEW u, NEW d,
         NEW us \in BOOLEAN, NEW ds \in BOOLEAN, NEW ao \in BOOLEAN, Sane(s, k, l, u, d, us, ds, ao),
         NEW m \in SockRec, m.state = k.state, m.mapped = k.mapped, m.on = k.on, m.got = k.got,
         m.sent = k.sent + 1, k.state \in {"connecting", "open"},
         NEW e,
         k.state = "open" /\ ds => Sent(d, e, s, "DATA", m.sent),
         ~(k.state = "open" /\ ds) => Same(d, e, s)
  PROVE  Sane(s, m, l, u, e, us, ds, ao)
<1>1. Paired(m, l, ao) /\ k.mapped /\ k.on \in Link BY DEF Sane, Paired
<1>2. Upward(s, k, l, u, d, us) /\ Downward(s, k, l, d, ds) BY <1>1 DEF Sane
<1>3. k.sent \in Nat /\ Len(l.got) \in Nat BY Lengths
<1>4. Has(e, s, "OPEN") => Has(d, s, "OPEN") BY DEF Same, Sent
<1>5. Upward(s, m, l, u, e, us) BY <1>2, <1>4 DEF Upward
<1>6. Downward(s, m, l, e, ds)
  <2>1. CASE k.state = "open" /\ ds
    <3>1. Sent(d, e, s, "DATA", k.sent + 1) BY <2>1
    <3>2. \A n \in Numbers(d, s) : n < k.sent + 1 BY <1>2, <1>3 DEF Downward
    <3>3. Orderly(e, s) BY <1>2, <3>1, <3>2 DEF Downward, Sent
    <3>4. Numbers(e, s) = Numbers(d, s) \cup {k.sent + 1} BY <3>1 DEF Sent
    <3>5. Numbers(e, s) \subseteq 1 .. k.sent + 1 BY <1>2, <1>3, <3>4 DEF Downward
    <3>6. l.state \notin {"none", "connecting"} BY <1>2, <2>1 DEF Upward
    <3>7. ASSUME l.mapped
          PROVE  /\ Run(Numbers(e, s), Len(l.got), k.sent + 1)
                 /\ Numbers(e, s) = Len(l.got) + 1 .. k.sent + 1
      <4>1. Run(Numbers(d, s), Len(l.got), k.sent) /\ Numbers(d, s) = Len(l.got) + 1 .. k.sent
        BY <1>2, <2>1, <3>7 DEF Downward
      <4>6. PICK g \in Nat : g = Len(l.got) BY <1>3
      <4>7. PICK w \in Nat : w = k.sent BY <1>3
      <4>8. PICK x, N, P : x = k.sent + 1 /\ N = Numbers(d, s) /\ P = Numbers(e, s) OBVIOUS
      <4>3. Run(N, g, w) /\ N = g + 1 .. w /\ x = w + 1 /\ P = N \cup {x} BY <3>4, <4>1, <4>6, <4>7, <4>8
      <4>4. P = g + 1 .. x
        <5>1. g <= w BY <4>3, RunKept
        <5> QED BY <4>3, <5>1
      <4>5. Run(P, g, x) BY <4>3, RunSent
      <4> QED BY <4>4, <4>5, <4>6, <4>7, <4>8
    <3> QED BY <1>1, <1>2, <2>1, <3>1, <3>3, <3>5, <3>6, <3>7 DEF Downward, Sent
  <2>2. CASE ~(k.state = "open" /\ ds)
    <3>1. Same(d, e, s) BY <2>2
    <3>2. Numbers(e, s) \subseteq 1 .. k.sent + 1 BY <1>2, <1>3, <3>1 DEF Downward, Same
    <3>3. l.mapped => Run(Numbers(e, s), Len(l.got), k.sent + 1)
      BY <1>2, <1>3, <3>1, RunKept DEF Downward, Same
    <3> QED BY <1>1, <1>2, <2>2, <3>1, <3>2, <3>3 DEF Downward, Same
  <2> QED BY <2>1, <2>2
<1> QED BY <1>1, <1>5, <1>6 DEF Sane

(* The app hears that the stream is open, and sends what was kept. *)
LEMMA Opens ==
  ASSUME NEW s, NEW k \in SockRec, NEW l \in LocalRec, NEW u, NEW d,
         NEW us \in BOOLEAN, NEW ds \in BOOLEAN, NEW ao \in BOOLEAN, Sane(s, k, l, u, d, us, ds, ao),
         NEW m \in SockRec, m.state = "open", m.mapped = k.mapped, m.on = k.on, m.got = k.got,
         m.sent = k.sent, k.state = "connecting",
         NEW v, NEW n, Taken(u, v, s, "OPENED", n), NEW e,
         ds => /\ \A t : t # "DATA" => (Has(e, s, t) <=> Has(d, s, t))
               /\ Numbers(e, s) = 1 .. k.sent
               /\ Orderly(d, s) => Orderly(e, s),
         ~ds => Same(d, e, s)
  PROVE  Sane(s, m, l, v, e, us, ds, ao)
<1>1. Paired(m, l, ao) /\ k.mapped /\ k.on \in Link BY DEF Sane, Paired
<1>2. Upward(s, k, l, u, d, us) /\ Downward(s, k, l, d, ds) BY <1>1 DEF Sane
<1>3. k.sent \in Nat /\ Len(l.got) \in Nat BY Lengths
<1>4. Has(u, s, "OPENED") /\ ~Has(v, s, "OPENED") /\ Orderly(v, s) /\ Numbers(v, s) = Numbers(u, s)
      /\ \A t : Has(v, s, t) => Has(u, s, t)
  BY DEF Taken
<1>5. l.state \notin {"none", "connecting"} BY <1>2, <1>4 DEF Upward
<1>6. Has(e, s, "OPEN") <=> Has(d, s, "OPEN") BY DEF Same
<1>7. Has(e, s, "END") <=> Has(d, s, "END") BY DEF Same
<1>8. Upward(s, m, l, v, e, us) BY <1>2, <1>4, <1>5, <1>6 DEF Upward
<1>9. Downward(s, m, l, e, ds)
  <2>1. l.got = <<>> /\ Len(l.got) = 0 /\ ~Has(d, s, "DATA") BY <1>2, Lengths DEF Downward
  <2>2. CASE ds
    <3>1. Numbers(e, s) = 1 .. k.sent /\ Orderly(e, s) BY <1>2, <2>2 DEF Downward
    <3>2. Run(1 .. k.sent, 0, k.sent) BY <1>3, RunAll
    <3>3. 1 .. k.sent = 0 + 1 .. k.sent BY <1>3
    <3> QED BY <1>1, <1>2, <1>5, <1>6, <1>7, <2>1, <3>1, <3>2, <3>3 DEF Downward
  <2>3. CASE ~ds
    <3>1. Same(d, e, s) BY <2>3
    <3> QED BY <1>1, <1>2, <1>5, <2>3, <3>1 DEF Downward, Same
  <2> QED BY <2>2, <2>3
<1> QED BY <1>1, <1>8, <1>9 DEF Sane

(* The app hears a chunk: the next one. *)
LEMMA Receives ==
  ASSUME NEW s, NEW k \in SockRec, NEW l \in LocalRec, NEW u, NEW d,
         NEW us \in BOOLEAN, NEW ds \in BOOLEAN, NEW ao \in BOOLEAN, Sane(s, k, l, u, d, us, ds, ao),
         NEW m \in SockRec, m.state = k.state, m.mapped = k.mapped, m.on = k.on,
         m.sent = k.sent, k.state = "open", Len(m.got) = Len(k.got) + 1,
         NEW v, NEW n, Taken(u, v, s, "DATA", n)
  PROVE  Sane(s, m, l, v, d, us, ds, ao)
<1>1. Paired(m, l, ao) /\ k.mapped /\ k.on \in Link BY DEF Sane, Paired
<1>2. Upward(s, k, l, u, d, us) /\ Downward(s, k, l, d, ds) BY <1>1 DEF Sane
<1>3. l.sent \in Nat /\ Len(k.got) \in Nat BY Lengths
<1>4. /\ Has(u, s, "DATA") /\ Orderly(v, s) /\ \A t : Has(v, s, t) => Has(u, s, t)
      /\ n \in Numbers(u, s) /\ \A i \in Numbers(u, s) : n <= i
      /\ Numbers(v, s) = Numbers(u, s) \ {n}
  BY DEF Taken
<1>5. Run(Numbers(u, s), Len(k.got), l.sent) BY <1>2 DEF Upward
<1>6. /\ Run(Numbers(v, s), Len(m.got), l.sent)
      /\ Numbers(u, s) = Len(k.got) + 1 .. l.sent => Numbers(v, s) = Len(m.got) + 1 .. l.sent
  <2>6. PICK g \in Nat : g = Len(k.got) BY <1>3
  <2>7. PICK w \in Nat : w = l.sent BY <1>3
  <2>8. PICK x, N, P : x = Len(m.got) /\ N = Numbers(u, s) /\ P = Numbers(v, s) OBVIOUS
  <2>2. Run(N, g, w) /\ n \in N /\ x = g + 1 /\ P = N \ {n} BY <1>4, <1>5, <2>6, <2>7, <2>8
  <2>3. \A i \in N : n <= i BY <1>4, <2>8
  <2>4. Run(P, x, w) BY <2>2, <2>3, RunTaken
  <2>5. N = g + 1 .. w => P = x + 1 .. w BY <2>2, <2>3, RunTaken
  <2> QED BY <2>4, <2>5, <2>6, <2>7, <2>8
<1>7. Upward(s, m, l, v, d, us) BY <1>2, <1>4, <1>6 DEF Upward
<1>8. Downward(s, m, l, d, ds) BY <1>2 DEF Downward
<1> QED BY <1>1, <1>7, <1>8 DEF Sane

(* The agent's local socket is closed; the app is told, or the WebSocket is gone. *)
LEMMA Shuts ==
  ASSUME NEW s, NEW k \in SockRec, NEW l \in LocalRec, NEW u, NEW d,
         NEW us \in BOOLEAN, NEW ds \in BOOLEAN, NEW ao \in BOOLEAN, Sane(s, k, l, u, d, us, ds, ao),
         NEW m \in LocalRec, m.state = "closed", ~m.mapped, m.sent = l.sent, m.got = l.got,
         l.state # "none", NEW v, NEW e, NEW es \in BOOLEAN, NEW vs \in BOOLEAN, NEW bo \in BOOLEAN, es => ds,
         Same(u, v, s) \/ Sent(u, v, s, "END", 0),
         Same(d, e, s) \/ (e = <<>> /\ ~es)
  PROVE  Sane(s, k, m, v, e, vs, es, bo)
<1>1. Paired(k, m, bo) /\ k.on \in Link BY DEF Sane, Paired
<1>2. Downward(s, k, l, d, ds) BY <1>1 DEF Sane
<1>3. Has(e, s, "OPEN") => Has(d, s, "OPEN") BY NoneHas DEF Same
<1>4. ASSUME k.mapped PROVE Upward(s, k, m, v, e, vs)
  <2>1. Upward(s, k, l, u, d, us) BY <1>4 DEF Sane
  <2>2. ~Has(e, s, "OPEN") BY <1>2, <1>3 DEF Downward
  <2>3. CASE Same(u, v, s) BY <2>1, <2>2, <2>3 DEF Upward, Same
  <2>4. CASE Sent(u, v, s, "END", 0) BY <2>1, <2>2, <2>4 DEF Upward, Sent
  <2> QED BY <2>3, <2>4
<1>5. Downward(s, k, m, e, es)
  <2>1. CASE Same(d, e, s) BY <1>2, <2>1 DEF Downward, Same
  <2>2. CASE e = <<>> /\ ~es
    <3>1. Orderly(e, s) /\ Numbers(e, s) = {} /\ \A t : ~Has(e, s, t) BY <2>2, NoneHas
    <3> QED BY <1>2, <2>2, <3>1 DEF Downward
  <2> QED BY <2>1, <2>2
<1> QED BY <1>1, <1>4, <1>5 DEF Sane

(* The local server answers. *)
LEMMA Connects ==
  ASSUME NEW s, NEW k \in SockRec, NEW l \in LocalRec, NEW u, NEW d,
         NEW us \in BOOLEAN, NEW ds \in BOOLEAN, NEW ao \in BOOLEAN, Sane(s, k, l, u, d, us, ds, ao),
         NEW m \in LocalRec, m.mapped = l.mapped, m.sent = l.sent, m.got = l.got,
         l.state \in {"connecting", "draining"},
         m.state = IF l.state = "connecting" THEN "open" ELSE l.state,
         NEW v, us => Sent(u, v, s, "OPENED", 0), ~us => Same(u, v, s)
  PROVE  Sane(s, k, m, v, d, us, ds, ao)
<1>1. Paired(k, m, ao) /\ k.on \in Link BY DEF Sane, Paired
<1>2. Downward(s, k, l, d, ds) BY <1>1 DEF Sane
<1>3. Downward(s, k, m, d, ds) BY <1>2 DEF Downward
<1>4. ASSUME k.mapped PROVE Upward(s, k, m, v, d, us)
  <2>1. Upward(s, k, l, u, d, us) /\ l.state = "connecting" /\ l.sent = 0 /\ l.mapped BY <1>4 DEF Sane, Paired
  <2>2. Numbers(u, s) = {} /\ k.got = <<>> /\ Len(k.got) = 0 /\ {} = 0 + 1 .. 0
    BY <2>1, Data, Lengths DEF Upward
  <2>3. CASE us
    <3>1. Sent(u, v, s, "OPENED", 0) BY <2>3
    <3> QED BY <2>1, <2>2, <3>1 DEF Upward, Sent
  <2>4. CASE ~us
    <3>1. Same(u, v, s) BY <2>4
    <3> QED BY <2>1, <2>4, <3>1 DEF Upward, Same
  <2> QED BY <2>3, <2>4
<1> QED BY <1>1, <1>3, <1>4 DEF Sane

(* The local server sends a chunk. *)
LEMMA Sends ==
  ASSUME NEW s, NEW k \in SockRec, NEW l \in LocalRec, NEW u, NEW d,
         NEW us \in BOOLEAN, NEW ds \in BOOLEAN, NEW ao \in BOOLEAN, Sane(s, k, l, u, d, us, ds, ao),
         NEW m \in LocalRec, m.mapped = l.mapped, m.sent = l.sent + 1, m.got = l.got,
         l.state = "open", m.state = l.state,
         NEW v, us => Sent(u, v, s, "DATA", m.sent), ~us => Same(u, v, s)
  PROVE  Sane(s, k, m, v, d, us, ds, ao)
<1>1. Paired(k, m, ao) /\ k.on \in Link BY DEF Sane, Paired
<1>2. Downward(s, k, l, d, ds) BY <1>1 DEF Sane
<1>3. Downward(s, k, m, d, ds) BY <1>2 DEF Downward
<1>4. ASSUME k.mapped PROVE Upward(s, k, m, v, d, us)
  <2>1. Upward(s, k, l, u, d, us) BY <1>4 DEF Sane
  <2>2. Run(Numbers(u, s), Len(k.got), l.sent) BY <2>1 DEF Upward
  <2>3. l.sent \in Nat /\ Len(k.got) \in Nat BY Lengths
  <2>4. CASE us
    <3>1. Sent(u, v, s, "DATA", l.sent + 1) BY <2>4
    <3>2. Numbers(u, s) = Len(k.got) + 1 .. l.sent BY <2>1, <2>4 DEF Upward
    <3>3. Numbers(v, s) = Numbers(u, s) \cup {l.sent + 1} BY <3>1 DEF Sent
    <3>4. Run(Numbers(v, s), Len(k.got), l.sent + 1) /\ Numbers(v, s) = Len(k.got) + 1 .. l.sent + 1
      <4>6. PICK g \in Nat : g = Len(k.got) BY <2>3
      <4>7. PICK w \in Nat : w = l.sent BY <2>3
      <4>8. PICK x, N, P : x = l.sent + 1 /\ N = Numbers(u, s) /\ P = Numbers(v, s) OBVIOUS
      <4>3. Run(N, g, w) /\ N = g + 1 .. w /\ x = w + 1 /\ P = N \cup {x} BY <2>2, <3>2, <3>3, <4>6, <4>7, <4>8
      <4>4. P = g + 1 .. x
        <5>1. g <= w BY <4>3, RunKept
        <5> QED BY <4>3, <5>1
      <4>5. Run(P, g, x) BY <4>3, RunSent
      <4> QED BY <4>4, <4>5, <4>6, <4>7, <4>8
    <3>5. \A n \in Numbers(u, s) : n < l.sent + 1 BY <2>3, <3>2
    <3>6. Orderly(v, s) BY <2>1, <3>1, <3>5 DEF Upward, Sent
    <3>7. k.state = "connecting" => Has(u, s, "OPENED") BY <2>1, <2>4 DEF Upward
    <3> QED BY <1>1, <2>1, <2>4, <3>1, <3>4, <3>6, <3>7 DEF Upward, Sent, Paired
  <2>5. CASE ~us
    <3>1. Same(u, v, s) BY <2>5
    <3>2. Run(Numbers(v, s), Len(k.got), l.sent + 1) BY <2>2, <2>3, <3>1, RunKept DEF Same
    <3> QED BY <2>1, <2>5, <3>1, <3>2 DEF Upward, Same
  <2> QED BY <2>4, <2>5
<1> QED BY <1>1, <1>3, <1>4 DEF Sane

(* The agent refuses a stream. *)
LEMMA Refused ==
  ASSUME NEW s, NEW k \in SockRec, NEW l \in LocalRec, NEW u, NEW d,
         NEW us \in BOOLEAN, NEW ds \in BOOLEAN, NEW ao \in BOOLEAN, Sane(s, k, l, u, d, us, ds, ao),
         k.on \in Link, NEW e, NEW n, Taken(d, e, s, "OPEN", n),
         NEW v, Same(u, v, s) \/ Sent(u, v, s, "END", 0)
  PROVE  Sane(s, k, l, v, e, us, ds, ao)
<1>1. Paired(k, l, ao) /\ Downward(s, k, l, d, ds) BY DEF Sane
<1>2. l.state = "none" /\ ~l.mapped BY <1>1 DEF Downward, Taken, Paired
<1>3. ~Has(e, s, "OPEN") BY DEF Taken
<1>4. Downward(s, k, l, e, ds) BY <1>1, <1>2, <1>3 DEF Downward, Taken
<1>5. ASSUME k.mapped PROVE Upward(s, k, l, v, e, us)
  <2>1. Upward(s, k, l, u, d, us) BY <1>5 DEF Sane
  <2>2. CASE Same(u, v, s) BY <1>2, <1>3, <2>1, <2>2 DEF Upward, Same
  <2>3. CASE Sent(u, v, s, "END", 0) BY <1>2, <1>3, <2>1, <2>3 DEF Upward, Sent
  <2> QED BY <2>2, <2>3
<1> QED BY <1>1, <1>4, <1>5 DEF Sane

(* The agent accepts a stream and connects to the local server. *)
LEMMA Accepted ==
  ASSUME NEW s, NEW k \in SockRec, NEW l \in LocalRec, NEW u, NEW d,
         NEW us \in BOOLEAN, NEW ds \in BOOLEAN, NEW ao \in BOOLEAN, Sane(s, k, l, u, d, us, ds, ao),
         k.on \in Link, ao, NEW e, NEW n, Taken(d, e, s, "OPEN", n),
         NEW m \in LocalRec, m.state = "connecting", m.mapped, m.sent = l.sent, m.got = l.got
  PROVE  Sane(s, k, m, u, e, us, ds, ao)
<1>1. Paired(k, l, ao) /\ Downward(s, k, l, d, ds) BY DEF Sane
<1>2. l.state = "none" /\ ~l.mapped /\ l.got = <<>> /\ l.sent = 0 BY <1>1 DEF Downward, Taken, Paired
<1>3. ~Has(e, s, "OPEN") BY DEF Taken
<1>4. ASSUME k.mapped PROVE Upward(s, k, m, u, e, us)
  <2>1. Upward(s, k, l, u, d, us) BY <1>4 DEF Sane
  <2>2. ~Has(u, s, "END") BY <2>1 DEF Upward, Taken
  <2> QED BY <1>2, <2>1, <2>2 DEF Upward
<1>5. k.state # "open"
  <2>1. k.mapped => Upward(s, k, l, u, d, us) BY DEF Sane
  <2> QED BY <1>1, <1>2, <2>1 DEF Upward, Paired
<1>6. Downward(s, k, m, e, ds)
  <2>1. Numbers(d, s) = {} /\ Numbers(e, s) = {} /\ ~Has(e, s, "DATA")
    BY <1>1, <1>2, Data DEF Downward, Taken
  <2>2. Run({}, Len(m.got), k.sent) BY <1>2, Lengths, RunNone
  <2>3. ds /\ ~k.mapped => Has(e, s, "END") BY <1>1 DEF Downward, Taken
  <2> QED BY <1>1, <1>2, <1>3, <1>5, <2>1, <2>2, <2>3 DEF Downward, Taken
<1>7. Paired(k, m, ao) BY <1>1, <1>2 DEF Paired
<1> QED BY <1>4, <1>6, <1>7 DEF Sane

(* The agent hears a chunk: the next one, if it still has the stream. *)
LEMMA Reads ==
  ASSUME NEW s, NEW k \in SockRec, NEW l \in LocalRec, NEW u, NEW d,
         NEW us \in BOOLEAN, NEW ds \in BOOLEAN, NEW ao \in BOOLEAN, Sane(s, k, l, u, d, us, ds, ao),
         k.on \in Link, NEW e, NEW n, Taken(d, e, s, "DATA", n),
         NEW m \in LocalRec, m.state = l.state, m.mapped = l.mapped, m.sent = l.sent,
         l.mapped => Len(m.got) = Len(l.got) + 1, ~l.mapped => m.got = l.got
  PROVE  Sane(s, k, m, u, e, us, ds, ao)
<1>1. Paired(k, l, ao) /\ Downward(s, k, l, d, ds) BY DEF Sane
<1>2. l.state # "none" /\ k.state # "connecting" BY <1>1 DEF Downward, Taken
<1>3. Has(e, s, "OPEN") => Has(d, s, "OPEN") BY DEF Taken
<1>4. Paired(k, m, ao) BY <1>1, <1>2 DEF Paired
<1>5. ASSUME k.mapped PROVE Upward(s, k, m, u, e, us)
  <2>1. Upward(s, k, l, u, d, us) BY <1>5 DEF Sane
  <2> QED BY <1>3, <2>1 DEF Upward
<1>6. Downward(s, k, m, e, ds)
  <2>1. CASE l.mapped
    <3>1. Run(Numbers(d, s), Len(l.got), k.sent) /\ k.sent \in Nat /\ Len(l.got) \in Nat
      BY <1>1, <2>1, Lengths DEF Downward
    <3>2. n \in Numbers(d, s) /\ (\A i \in Numbers(d, s) : n <= i) /\ Numbers(e, s) = Numbers(d, s) \ {n}
      BY DEF Taken
    <3>3. /\ Run(Numbers(e, s), Len(m.got), k.sent)
          /\ Numbers(d, s) = Len(l.got) + 1 .. k.sent => Numbers(e, s) = Len(m.got) + 1 .. k.sent
      <4>6. PICK g \in Nat : g = Len(l.got) BY <3>1
      <4>7. PICK w \in Nat : w = k.sent BY <3>1
      <4>8. PICK x, N, P : x = Len(m.got) /\ N = Numbers(d, s) /\ P = Numbers(e, s) OBVIOUS
      <4>2. Run(N, g, w) /\ n \in N /\ x = g + 1 /\ P = N \ {n} BY <2>1, <3>1, <3>2, <4>6, <4>7, <4>8
      <4>3. \A i \in N : n <= i BY <3>2, <4>8
      <4>4. Run(P, x, w) BY <4>2, <4>3, RunTaken
      <4>5. N = g + 1 .. w => P = x + 1 .. w BY <4>2, <4>3, RunTaken
      <4> QED BY <4>4, <4>5, <4>6, <4>7, <4>8
    <3> QED BY <1>1, <1>2, <2>1, <3>2, <3>3 DEF Downward, Taken
  <2>2. CASE ~l.mapped BY <1>1, <1>2, <2>2 DEF Downward, Taken
  <2> QED BY <2>1, <2>2
<1> QED BY <1>4, <1>5, <1>6 DEF Sane

(* The agent hears that the app is finished with the stream. *)
LEMMA Drains ==
  ASSUME NEW s, NEW k \in SockRec, NEW l \in LocalRec, NEW u, NEW d,
         NEW us \in BOOLEAN, NEW ds \in BOOLEAN, NEW ao \in BOOLEAN, Sane(s, k, l, u, d, us, ds, ao),
         k.on \in Link, NEW e, NEW n, Taken(d, e, s, "END", n),
         NEW m \in LocalRec, m.sent = l.sent, m.got = l.got, ~m.mapped,
         l.mapped => m.state = "draining", ~l.mapped => m.state = l.state
  PROVE  Sane(s, k, m, u, e, us, ds, ao)
<1>1. Paired(k, l, ao) /\ Downward(s, k, l, d, ds) BY DEF Sane
<1>2. ~k.mapped /\ ~Has(e, s, "OPEN") BY <1>1 DEF Downward, Taken
<1>3. Paired(k, m, ao) BY <1>1, <1>2 DEF Paired
<1>4. Downward(s, k, m, e, ds) BY <1>1, <1>2 DEF Downward, Taken, Paired
<1> QED BY <1>2, <1>3, <1>4 DEF Sane

-----------------------------------------------------------------------------
(* What may be sent, and on which connection                               *)

(* The agent and the app may send on c. *)
AgentOn(c) == c \in Link /\ agent[c] = "open"
AgentSends(c) == AgentOn(c) /\ Hears(app, c)
AppSends(c) == c \in Link /\ app[c] = "open" /\ Hears(agent, c)

(* The agent has one WebSocket after another, what was sent to it is gone   *)
(* with it, and streams are of WebSockets that were accepted.               *)
OneByOne ==
    /\ \A c \in Link : /\ agent[c] # "none" => \A d \in Link : d < c => agent[d] = "closed"
                       /\ agent[c] # "open" => down[c] = <<>>
    /\ \A s \in Sockets : sock[s].on \in Link => app[sock[s].on] \in {"open", "closing", "closed"}

(* The streams that the agent carries when it reads the OPEN of s. *)
Before(c, s) == {r \in Sockets : /\ local[r].mapped \/ Ahead(down[c], s, r, "OPEN")
                                 /\ ~Ahead(down[c], s, r, "END")}

(* A stream the app counted as allowed finds room at the agent. *)
Room == \A c \in Link, s \in Sockets : Has(down[c], s, "OPEN") => Cardinality(Before(c, s)) < limit

(* The stream s, of whichever WebSocket. *)
Piped(s) ==
    \A us, ds, ao \in BOOLEAN :
       LET c == sock[s].on IN
       (us <=> AgentSends(c)) /\ (ds <=> AppSends(c)) /\ (ao <=> AgentOn(c)) =>
         Sane(s, sock[s], local[s], up[c], down[c], us, ds, ao)

Fair == honest => Room /\ \A s \in Sockets : Piped(s)

-----------------------------------------------------------------------------
(* What is sent, seen from one stream                                      *)

(* A queue that stays as it is. *)
LEMMA SameSelf ==
  ASSUME NEW q, NEW s
  PROVE  Same(q, q, s)
BY DEF Same

(* A frame to the agent. *)
LEMMA ToldAgent ==
  ASSUME Inv, NEW c \in Link, NEW f \in Frames, NEW d \in Link, NEW s
  PROVE  IF d = c /\ f.own = s /\ AppSends(c)
           THEN Sent(down[d], ToAgent(c, <<f>>)[d], s, f.type, f.n)
           ELSE Same(down[d], ToAgent(c, <<f>>)[d], s)
<1>1. down[d] \in Seq(Frames) /\ down \in [Link -> Seq(Frames)] BY DEF Inv, Wires
<1>2. ToAgent(c, <<f>>)[d] = IF d = c /\ AppSends(c) THEN Then(down[d], <<f>>) ELSE down[d]
  BY <1>1 DEF ToAgent, AppSends, Then
<1>3. f.own = s => Sent(down[d], Then(down[d], <<f>>), s, f.type, f.n) BY <1>1, OwnSent
<1>4. f.own # s => Same(down[d], Then(down[d], <<f>>), s)
  <2>1. PICK r \in Seq(Frames) : r = <<f>> BY OneHas
  <2>2. Len(r) = 1 /\ r[1] = f BY <2>1
  <2>3. f.own # s => \A i \in 1 .. Len(r) : r[i].own # s BY <2>2
  <2>4. f.own # s => Same(down[d], Then(down[d], r), s) BY <1>1, <2>3, OtherSent
  <2> QED BY <2>1, <2>4
<1> QED BY <1>2, <1>3, <1>4, SameSelf

(* A frame to the app. *)
LEMMA ToldApp ==
  ASSUME Inv, NEW c \in Link, NEW f \in Frames, NEW d \in Link, NEW s
  PROVE  IF d = c /\ f.own = s /\ AgentSends(c)
           THEN Sent(up[d], ToApp(c, <<f>>)[d], s, f.type, f.n)
           ELSE Same(up[d], ToApp(c, <<f>>)[d], s)
<1>1. up[d] \in Seq(Frames) /\ up \in [Link -> Seq(Frames)] BY DEF Inv, Wires
<1>2. ToApp(c, <<f>>)[d] = IF d = c /\ AgentSends(c) THEN Then(up[d], <<f>>) ELSE up[d]
  BY <1>1 DEF ToApp, AgentSends, AgentOn, Then
<1>3. f.own = s => Sent(up[d], Then(up[d], <<f>>), s, f.type, f.n) BY <1>1, OwnSent
<1>4. f.own # s => Same(up[d], Then(up[d], <<f>>), s)
  <2>1. PICK r \in Seq(Frames) : r = <<f>> BY OneHas
  <2>2. Len(r) = 1 /\ r[1] = f BY <2>1
  <2>3. f.own # s => \A i \in 1 .. Len(r) : r[i].own # s BY <2>2
  <2>4. f.own # s => Same(up[d], Then(up[d], r), s) BY <1>1, <2>3, OtherSent
  <2> QED BY <2>1, <2>4
<1> QED BY <1>2, <1>3, <1>4, SameSelf

\* The chunks that wait until s is open.
Backlog(s) == [i \in 1 .. sock[s].sent |-> Frame("DATA", s, i)]

(* They are all the chunks that s has written, in order. *)
LEMMA Kept ==
  ASSUME Inv, NEW s \in Sockets, NEW fs, fs = Backlog(s)
  PROVE  /\ fs \in Seq(Frames) /\ Len(fs) = sock[s].sent
         /\ \A i \in 1 .. Len(fs) : fs[i].own = s /\ fs[i].type = "DATA" /\ fs[i].n = i
<1>1. PICK w \in 0 .. MaxSent : w = sock[s].sent BY DEF Inv, Ranges, SockRec
<1>2. w \in Nat /\ \A i \in 1 .. w : i \in 0 .. MaxSent BY TunnelAssumption
<1>3. \A i \in 1 .. w : /\ Frame("DATA", s, i) \in Frames /\ Frame("DATA", s, i).own = s
                        /\ Frame("DATA", s, i).type = "DATA" /\ Frame("DATA", s, i).n = i
  <2> TAKE i \in 1 .. w
  <2>1. i \in 0 .. MaxSent BY <1>2
  <2> QED BY <2>1, Framing DEF Inv, Frame
<1>4. fs \in Seq(Frames) /\ Len(fs) = w /\ \A i \in 1 .. w : fs[i] = Frame("DATA", s, i)
  BY <1>1, <1>2, <1>3 DEF Backlog
<1> QED BY <1>1, <1>3, <1>4

(* Chunks to the agent. *)
LEMMA ToldKept ==
  ASSUME Inv, NEW c \in Link, NEW r, NEW fs \in Seq(Frames),
         \A i \in 1 .. Len(fs) : fs[i].own = r /\ fs[i].type = "DATA" /\ fs[i].n = i,
         NEW d \in Link, NEW s, ~Has(down[c], r, "DATA")
  PROVE  /\ d = c /\ s = r /\ AppSends(c) =>
              /\ \A t : t # "DATA" => (Has(ToAgent(c, fs)[d], s, t) <=> Has(down[d], s, t))
              /\ Numbers(ToAgent(c, fs)[d], s) = 1 .. Len(fs)
              /\ Orderly(down[d], s) => Orderly(ToAgent(c, fs)[d], s)
         /\ ~(d = c /\ s = r /\ AppSends(c)) => Same(down[d], ToAgent(c, fs)[d], s)
<1>1. down[d] \in Seq(Frames) /\ down \in [Link -> Seq(Frames)] BY DEF Inv, Wires
<1>2. ToAgent(c, fs)[d] = IF d = c /\ AppSends(c) THEN Then(down[d], fs) ELSE down[d]
  BY <1>1 DEF ToAgent, AppSends, Then
<1>3. ASSUME d = c, s = r, AppSends(c)
      PROVE  /\ \A t : t # "DATA" => (Has(ToAgent(c, fs)[d], s, t) <=> Has(down[d], s, t))
             /\ Numbers(ToAgent(c, fs)[d], s) = 1 .. Len(fs)
             /\ Orderly(down[d], s) => Orderly(ToAgent(c, fs)[d], s)
  <2>1. PICK q \in Seq(Frames) : q = down[d] BY <1>1
  <2>2. ~Has(q, r, "DATA") BY <1>3, <2>1
  <2>3. \A t : t # "DATA" => (Has(Then(q, fs), r, t) <=> Has(q, r, t)) BY <2>2, KeptSent
  <2>4. Numbers(Then(q, fs), r) = 1 .. Len(fs) BY <2>2, KeptSent
  <2>5. Orderly(q, r) => Orderly(Then(q, fs), r) BY <2>2, KeptSent
  <2>6. ToAgent(c, fs)[d] = Then(q, fs) BY <1>2, <1>3, <2>1
  <2> QED BY <1>3, <2>1, <2>3, <2>4, <2>5, <2>6
<1>4. CASE ~(d = c /\ AppSends(c)) BY <1>2, <1>4, SameSelf
<1>5. CASE s # r
  <2>1. \A i \in 1 .. Len(fs) : fs[i].own # s BY <1>5
  <2>2. Same(down[d], Then(down[d], fs), s) BY <1>1, <2>1, OtherSent
  <2> QED BY <1>2, <1>5, <2>2, SameSelf
<1> QED BY <1>3, <1>4, <1>5

-----------------------------------------------------------------------------
(* One connection after another                                            *)

(* At the start. *)
LEMMA OneFirst == Init => OneByOne
BY TunnelAssumption DEF Init, OneByOne, NewSocket, Link

(* What is sent to the agent is not for a WebSocket it closed or has not opened. *)
LEMMA SentToOne ==
  ASSUME Inv, OneByOne, NEW c, NEW fs, NEW d \in Link, agent[d] # "open"
  PROVE  ToAgent(c, fs)[d] = <<>>
<1>1. down[d] = <<>> BY DEF OneByOne
<1>2. ~AppSends(d) BY DEF Inv, Held, Ranges, AppSends, Hears
<1> QED BY <1>1, <1>2 DEF Inv, Wires, ToAgent, AppSends

(* Steps that leave the connections as they are. *)
LEMMA OneKept ==
  ASSUME Inv, OneByOne, agent' = agent,
         \A d \in Link : app[d] \in {"open", "closing", "closed"} => app'[d] \in {"open", "closing", "closed"},
         \A s \in Sockets : sock'[s].on = sock[s].on \/ sock'[s].on = live,
         \A d \in Link : down'[d] \in {<<>>, down[d], Tail(down[d])} \/ \E c, fs : down'[d] = ToAgent(c, fs)[d],
         \A d \in Link : down'[d] = Tail(down[d]) => agent[d] = "open" \/ down'[d] = down[d]
  PROVE  OneByOne'
<1>1. ASSUME NEW d \in Link, agent[d] # "open" PROVE down'[d] = <<>>
  <2>1. down[d] = <<>> BY <1>1 DEF OneByOne
  <2>2. \A c, fs : ToAgent(c, fs)[d] = <<>> BY <1>1, SentToOne
  <2> QED BY <1>1, <2>1, <2>2
<1>2. ASSUME NEW s \in Sockets, sock'[s].on \in Link
      PROVE  app'[sock'[s].on] \in {"open", "closing", "closed"}
  <2>1. CASE sock'[s].on = sock[s].on BY <1>2, <2>1 DEF OneByOne
  <2>2. CASE sock'[s].on = live
    <3>1. live \in Link /\ live # None BY <1>2, <2>2, TunnelAssumption DEF Link
    <3>2. PICK d \in Link : d = live BY <3>1
    <3>3. app[d] \in {"open", "closing", "closed"} BY <3>1, <3>2 DEF Inv, Held
    <3>4. app'[d] \in {"open", "closing", "closed"} BY <3>3
    <3> QED BY <2>2, <3>2, <3>4
  <2> QED BY <2>1, <2>2
<1> QED BY <1>1, <1>2 DEF OneByOne

(* Steps of streams. *)
LEMMA OneStreams ==
  ASSUME Inv, OneByOne, NEW s \in Sockets,
         Start(s) \/ Ends(s) \/ AppWrites(s) \/ LocalEnds(s) \/ LocalConnects(s) \/ LocalSends(s) \/ LocalDrained(s)
  PROVE  OneByOne'
<1>1. agent' = agent /\ app' = app
  BY DEF Start, Ends, AppWrites, LocalEnds, LocalConnects, LocalSends, LocalDrained, wires
<1>2. down' = down \/ \E c, fs : down' = ToAgent(c, fs)
  <2>1. CASE Start(s) BY <2>1 DEF Start
  <2>2. CASE Ends(s) BY <2>2 DEF Ends
  <2>3. CASE AppWrites(s) BY <2>3 DEF AppWrites
  <2>4. CASE ~(Start(s) \/ Ends(s) \/ AppWrites(s))
    BY <2>4 DEF LocalEnds, LocalConnects, LocalSends, LocalDrained
  <2> QED BY <2>1, <2>2, <2>3, <2>4
<1>3. ASSUME NEW r \in Sockets PROVE sock'[r].on = sock[r].on \/ sock'[r].on = live
  <2>1. sock[r] \in SockRec /\ sock \in [Sockets -> SockRec] BY DEF Inv, Ranges
  <2>2. CASE r # s
    BY <2>1, <2>2 DEF Start, Ends, AppWrites, LocalEnds, LocalConnects, LocalSends, LocalDrained
  <2>3. CASE r = s /\ Start(s)
    <3>1. CASE sock' = [sock EXCEPT ![s] = Dead(s)] BY <2>1, <2>3, <3>1 DEF Dead, SockRec
    <3>2. CASE sock' = [sock EXCEPT ![s] = [@ EXCEPT !.state = "connecting", !.on = live,
                                                     !.id = next[live], !.mapped = TRUE]]
      <4>1. PICK m : m = [sock[s] EXCEPT !.state = "connecting", !.on = live, !.id = next[live], !.mapped = TRUE]
        OBVIOUS
      <4>2. m.on = live BY <2>1, <2>3, <4>1 DEF SockRec
      <4> QED BY <2>1, <2>3, <3>2, <4>1, <4>2
    <3> QED BY <2>3, <3>1, <3>2 DEF Start
  <2>4. CASE r = s /\ Ends(s) BY <2>1, <2>4 DEF Ends, Dead, SockRec
  <2>5. CASE r = s /\ AppWrites(s) BY <2>1, <2>5 DEF AppWrites, SockRec
  <2>6. CASE ~(Start(s) \/ Ends(s) \/ AppWrites(s))
    BY <2>6 DEF LocalEnds, LocalConnects, LocalSends, LocalDrained
  <2> QED BY <2>2, <2>3, <2>4, <2>5, <2>6
<1>4. \A d \in Link : down'[d] = down[d] \/ \E c, fs : down'[d] = ToAgent(c, fs)[d] BY <1>2
<1>5. \A d \in Link : down'[d] = Tail(down[d]) => agent[d] = "open" \/ down'[d] = down[d]
  <2> TAKE d \in Link
  <2>1. agent[d] # "open" => down[d] = <<>> /\ \A c, fs : ToAgent(c, fs)[d] = <<>> BY SentToOne DEF OneByOne
  <2> QED BY <1>4, <2>1
<1> QED BY <1>1, <1>3, <1>4, <1>5, OneKept

(* Frames arrive. *)
LEMMA OneArrives ==
  ASSUME Inv, OneByOne, NEW c \in Link, Arrives(c) \/ AgentReads(c) \/ Misbehaves(c)
  PROVE  OneByOne'
<1>1. agent' = agent
  BY DEF Arrives, Ignored, Opened, Received, RemoteEnds, ProtocolViolation, Takes, AgentReads, AgentOpens,
         AgentData, AgentCloses, AgentTakes, wires, Misbehaves
<1>2. \A d \in Link : app[d] \in {"open", "closing", "closed"} => app'[d] \in {"open", "closing", "closed"}
  BY DEF Arrives, Ignored, Opened, Received, RemoteEnds, ProtocolViolation, Takes, AgentReads, AgentOpens,
         AgentData, AgentCloses, AgentTakes, wires, Misbehaves, Inv, Ranges
<1>3. ASSUME NEW r \in Sockets PROVE sock'[r].on = sock[r].on
  <2>1. sock[r] \in SockRec /\ sock \in [Sockets -> SockRec] BY DEF Inv, Ranges
  <2>2. CASE sock' = sock BY <2>2
  <2>3. CASE Opened(c) BY <2>1, <2>3 DEF Opened, SockRec
  <2>4. CASE Received(c) BY <2>1, <2>4 DEF Received, SockRec
  <2>5. CASE RemoteEnds(c) BY <2>1, <2>5 DEF RemoteEnds, Dead, SockRec
  <2> QED BY <2>2, <2>3, <2>4, <2>5 DEF Arrives, Ignored, ProtocolViolation, AgentReads, AgentOpens,
         AgentData, AgentCloses, AgentTakes, Misbehaves
<1>4. /\ \A d \in Link : down'[d] \in {<<>>, down[d], Tail(down[d])} \/ \E e, fs : down'[d] = ToAgent(e, fs)[d]
      /\ \A d \in Link : down'[d] = Tail(down[d]) => agent[d] = "open" \/ down'[d] = down[d]
  <2>1. CASE down' = down BY <2>1
  <2>2. CASE Opened(c)
    <3>1. \E fs : down' = ToAgent(c, fs) BY <2>2 DEF Opened
    <3>2. \A d \in Link : agent[d] # "open" => down[d] = <<>> /\ \A fs : ToAgent(c, fs)[d] = <<>>
      BY SentToOne DEF OneByOne
    <3> QED BY <3>1, <3>2
  <2>3. CASE AgentReads(c)
    <3>1. down' = [down EXCEPT ![c] = Tail(@)] /\ agent[c] = "open" /\ down \in [Link -> Seq(Frames)]
      BY <2>3 DEF AgentReads, AgentOpens, AgentData, AgentCloses, AgentTakes, Inv, Wires
    <3>2. ASSUME NEW d \in Link
          PROVE  down'[d] \in {down[d], Tail(down[d])} /\ (d # c => down'[d] = down[d])
      BY <3>1
    <3> QED BY <3>1, <3>2
  <2> QED BY <2>1, <2>2, <2>3 DEF Arrives, Ignored, Received, RemoteEnds, ProtocolViolation, Takes, Misbehaves
<1> QED BY <1>1, <1>2, <1>3, <1>4, OneKept

(* Connections open, are accepted, close and are lost. *)
LEMMA OneLinks ==
  ASSUME Inv, OneByOne, NEW c \in Link,
         AgentConnects(c) \/ Accept(c) \/ AppGone(c) \/ AgentNotices(c) \/ AgentLeaves(c) \/ Lose(c) \/ Revoke
  PROVE  OneByOne'
<1>1. \A r \in Sockets : sock'[r].on = sock[r].on
  <2>1. CASE sock' = sock BY <2>1
  <2>2. CASE \E d \in Link : sock' = Failed(d) BY <2>2, ManyOver DEF Inv
  <2> QED BY <2>1, <2>2 DEF AgentConnects, Accept, AppGone, AgentNotices, AgentLeaves, AgentGone, Lose, Revoke,
                            Inv, Ranges
<1>2. CASE AgentConnects(c)
  <2>2. app[c] = "none" /\ down[c] = <<>>
           /\ app' = [app EXCEPT ![c] = "upgrading"] /\ agent' = [agent EXCEPT ![c] = "open"]
        /\ down' = down /\ \A d \in Link : d < c => agent[d] = "closed"
    BY <1>2 DEF AgentConnects, Inv, Held, Ranges, OneByOne
  <2>3. \A d \in Link : d # c => agent'[d] = agent[d] /\ app'[d] = app[d] BY <2>2 DEF Inv, Ranges
  <2>4. agent'[c] = "open" /\ agent[c] = "none" BY <1>2, <2>2 DEF AgentConnects, Inv, Ranges
  <2>5. ASSUME NEW d \in Link, agent'[d] # "none", NEW e \in Link, e < d PROVE agent'[e] = "closed"
    <3>1. CASE d = c BY <2>2, <2>3, <2>5, <3>1 DEF Link
    <3>2. CASE d # c
      <4>1. agent[e] = "closed" BY <2>3, <2>5, <3>2 DEF OneByOne
      <4> QED BY <2>3, <2>4, <4>1
    <3> QED BY <3>1, <3>2
  <2>6. ASSUME NEW d \in Link, agent'[d] # "open" PROVE down'[d] = <<>>
    BY <2>2, <2>3, <2>4, <2>6 DEF OneByOne
  <2>7. ASSUME NEW s \in Sockets, sock'[s].on \in Link PROVE app'[sock'[s].on] \in {"open", "closing", "closed"}
    <3>1. app[sock[s].on] \in {"open", "closing", "closed"} BY <1>1, <2>7 DEF OneByOne
    <3>2. sock[s].on # c BY <2>2, <3>1
    <3> QED BY <1>1, <2>3, <2>7, <3>1, <3>2
  <2> QED BY <2>5, <2>6, <2>7 DEF OneByOne
<1>3. CASE AgentNotices(c) \/ AgentLeaves(c)
  <2>1. /\ agent[c] = "open" /\ agent' = [agent EXCEPT ![c] = "closed"] /\ down' = [down EXCEPT ![c] = <<>>]
        /\ app' = app
    BY <1>3 DEF AgentNotices, AgentLeaves, AgentGone
  <2>2. \A d \in Link : /\ d # c => agent'[d] = agent[d] /\ down'[d] = down[d]
                        /\ agent'[c] = "closed" /\ down'[c] = <<>>
    BY <2>1 DEF Inv, Ranges, Wires
  <2> QED BY <1>1, <2>1, <2>2 DEF OneByOne
<1>4. CASE Accept(c) \/ AppGone(c) \/ Lose(c) \/ Revoke
  <2>1. agent' = agent BY <1>4 DEF Accept, AppGone, Lose, Revoke
  <2>2. \A d \in Link : app[d] \in {"open", "closing", "closed"} => app'[d] \in {"open", "closing", "closed"}
    BY <1>4 DEF Accept, AppGone, Lose, Revoke, Inv, Ranges
  <2>3. \A d \in Link : down'[d] = down[d] \/ down'[d] = <<>>
    BY <1>4 DEF Accept, AppGone, Lose, Revoke, Inv, Wires
  <2>4. \A d \in Link : agent[d] # "open" => down'[d] = down[d] BY <2>3 DEF OneByOne
  <2> QED BY <1>1, <2>1, <2>2, <2>3, <2>4, OneKept
<1> QED BY <1>2, <1>3, <1>4

(* Every state of every behaviour. *)
LEMMA OneAlways == Spec => []OneByOne
<1>1. Inv /\ OneByOne /\ [Next]_vars => OneByOne'
  <2> SUFFICES ASSUME Inv, OneByOne, [Next]_vars PROVE OneByOne' OBVIOUS
  <2>1. CASE UNCHANGED vars BY <2>1 DEF vars, OneByOne
  <2>2. ASSUME NEW s \in Sockets,
               \/ Start(s) \/ AppEnds(s) \/ OpenTimeout(s) \/ AppWrites(s)
               \/ LocalEnds(s) \/ LocalConnects(s) \/ LocalSends(s) \/ LocalDrained(s)
        PROVE  OneByOne'
    BY <2>2, OneStreams DEF AppEnds, OpenTimeout
  <2>3. ASSUME NEW c \in Link, Arrives(c) \/ AgentReads(c) \/ Misbehaves(c)
        PROVE  OneByOne'
    BY <2>3, OneArrives
  <2>4. ASSUME NEW c \in Link,
               \/ AgentConnects(c) \/ Accept(c) \/ AppGone(c)
               \/ AgentNotices(c) \/ AgentLeaves(c) \/ Lose(c)
        PROVE  OneByOne'
    BY <2>4, OneLinks
  <2>5. CASE Revoke
    <3>1. CASE Link = {}
      BY <2>5, <3>1 DEF Revoke, OneByOne
    <3>2. CASE Link # {} BY <2>5, <3>2, OneLinks
    <3> QED BY <3>1, <3>2
  <2> QED BY <2>1, <2>2, <2>3, <2>4, <2>5 DEF Next
<1> QED BY OneFirst, Inductive, <1>1, PTL DEF Spec

-----------------------------------------------------------------------------
(* A step, seen from one stream                                            *)

(* The two ends of a stream of c, and what they may send. *)
LEMMA Parts ==
  ASSUME NEW r \in Sockets, NEW c, sock[r].on = c, Piped(r)
  PROVE  \E us, ds, ao \in BOOLEAN :
           /\ us <=> AgentSends(c)
           /\ ds <=> AppSends(c)
           /\ ao <=> AgentOn(c)
           /\ Sane(r, sock[r], local[r], up[c], down[c], us, ds, ao)
<1>1. PICK us \in BOOLEAN : us <=> AgentSends(c) OBVIOUS
<1>2. PICK ds \in BOOLEAN : ds <=> AppSends(c) OBVIOUS
<1>3. PICK ao \in BOOLEAN : ao <=> AgentOn(c) OBVIOUS
<1>4. Sane(r, sock[r], local[r], up[c], down[c], us, ds, ao) BY <1>1, <1>2, <1>3 DEF Piped
<1> QED BY <1>1, <1>2, <1>3, <1>4

(* A stream without a WebSocket has nothing on its way. *)
LEMMA Unplaced ==
  ASSUME NEW s, NEW k, NEW l, NEW u, NEW d, NEW v, NEW e,
         NEW us \in BOOLEAN, NEW ds \in BOOLEAN, NEW ao \in BOOLEAN,
         NEW vs \in BOOLEAN, NEW es \in BOOLEAN, NEW bo \in BOOLEAN,
         Sane(s, k, l, u, d, us, ds, ao), k.on \notin Link
  PROVE  Sane(s, k, l, v, e, vs, es, bo)
BY DEF Sane, Paired

(* A stream for which nothing happens but that its WebSocket closes. *)
Still(r, c) ==
    /\ Same(up[c], up'[c], r) \/ ~sock[r].mapped \/ (up'[c] = <<>> /\ ~AgentSends(c)')
    /\ Same(down[c], down'[c], r) \/ (down'[c] = <<>> /\ ~AppSends(c)')
    /\ AgentSends(c)' => AgentSends(c)
    /\ AppSends(c)' => AppSends(c)
    /\ (AgentOn(c)' <=> AgentOn(c)) \/ ~local[r].mapped

(* It stays as it should be. *)
LEMMA Stays ==
  ASSUME Inv, NEW r \in Sockets, Piped(r), sock'[r] = sock[r], local'[r] = local[r],
         \A c \in Link : sock[r].on = c => Still(r, c)
  PROVE  Piped(r)'
<1>0. sock[r] \in SockRec /\ local[r] \in LocalRec BY DEF Inv, Ranges
<1>1. SUFFICES ASSUME NEW vs \in BOOLEAN, NEW es \in BOOLEAN, NEW bo \in BOOLEAN,
                      vs <=> AgentSends(sock[r].on)', es <=> AppSends(sock[r].on)', bo <=> AgentOn(sock[r].on)'
               PROVE  Sane(r, sock[r], local[r], up'[sock[r].on], down'[sock[r].on], vs, es, bo)
  BY DEF Piped
<1>2. CASE sock[r].on \notin Link
  <2>1. PICK us \in BOOLEAN : us <=> AgentSends(sock[r].on) OBVIOUS
  <2>2. PICK ds \in BOOLEAN : ds <=> AppSends(sock[r].on) OBVIOUS
  <2>3. PICK ao \in BOOLEAN : ao <=> AgentOn(sock[r].on) OBVIOUS
  <2>4. Sane(r, sock[r], local[r], up[sock[r].on], down[sock[r].on], us, ds, ao)
    BY <2>1, <2>2, <2>3 DEF Piped
  <2> QED BY <1>2, <2>4, Unplaced
<1>3. ASSUME NEW c \in Link, sock[r].on = c
      PROVE  Sane(r, sock[r], local[r], up'[sock[r].on], down'[sock[r].on], vs, es, bo)
  <2>1. PICK us \in BOOLEAN, ds \in BOOLEAN, ao \in BOOLEAN :
           /\ us <=> AgentSends(c)
           /\ ds <=> AppSends(c)
           /\ ao <=> AgentOn(c)
           /\ Sane(r, sock[r], local[r], up[c], down[c], us, ds, ao)
    BY <1>3, Parts
  <2>2. Still(r, c) BY <1>3
  <2>3. Same(up[c], up'[c], r) \/ (up'[c] = <<>> /\ ~vs) \/ ~sock[r].mapped BY <1>1, <1>3, <2>2 DEF Still
  <2>4. Same(down[c], down'[c], r) \/ (down'[c] = <<>> /\ ~es) BY <1>1, <1>3, <2>2 DEF Still
  <2>5. vs => us BY <1>1, <1>3, <2>1, <2>2 DEF Still
  <2>6. es => ds BY <1>1, <1>3, <2>1, <2>2 DEF Still
  <2>7. bo = ao \/ ~local[r].mapped BY <1>1, <1>3, <2>1, <2>2 DEF Still
  <2>8. Sane(r, sock[r], local[r], up'[c], down'[c], vs, es, bo)
    BY <1>0, <2>1, <2>3, <2>4, <2>5, <2>6, <2>7, Calm
  <2> QED BY <1>3, <2>8
<1> QED BY <1>2, <1>3

(* The two ends of a stream fit together. *)
LEMMA Placed ==
  ASSUME NEW s \in Sockets, Piped(s)
  PROVE  \E ao \in BOOLEAN : (ao <=> AgentOn(sock[s].on)) /\ Paired(sock[s], local[s], ao)
<1>1. PICK us \in BOOLEAN : us <=> AgentSends(sock[s].on) OBVIOUS
<1>2. PICK ds \in BOOLEAN : ds <=> AppSends(sock[s].on) OBVIOUS
<1>3. PICK ao \in BOOLEAN : ao <=> AgentOn(sock[s].on) OBVIOUS
<1>4. Sane(s, sock[s], local[s], up[sock[s].on], down[sock[s].on], us, ds, ao)
  BY <1>1, <1>2, <1>3 DEF Piped
<1> QED BY <1>3, <1>4 DEF Sane

(* The WebSockets stay as they are. *)
SameLinks == UNCHANGED <<app, agent, lost>>

(* So does what may be sent on them. *)
LEMMA SameSenders ==
  ASSUME SameLinks, NEW c
  PROVE  /\ AgentSends(c)' <=> AgentSends(c)
         /\ AppSends(c)' <=> AppSends(c)
         /\ AgentOn(c)' <=> AgentOn(c)
BY DEF SameLinks, AgentSends, AppSends, AgentOn, Hears

(* A stream of c at which something happens while the WebSockets stay. *)
LEMMA Acts ==
  ASSUME NEW r \in Sockets, NEW c \in Link, sock[r].on = c, sock'[r].on = c, Piped(r), SameLinks,
         \A us, ds, ao \in BOOLEAN :
            /\ us <=> AgentSends(c)
            /\ ds <=> AppSends(c)
            /\ ao <=> AgentOn(c)
            /\ Sane(r, sock[r], local[r], up[c], down[c], us, ds, ao)
            => Sane(r, sock'[r], local'[r], up'[c], down'[c], us, ds, ao)
  PROVE  Piped(r)'
<1>1. SUFFICES ASSUME NEW us \in BOOLEAN, NEW ds \in BOOLEAN, NEW ao \in BOOLEAN,
                      us <=> AgentSends(c)', ds <=> AppSends(c)', ao <=> AgentOn(c)'
               PROVE  Sane(r, sock'[r], local'[r], up'[c], down'[c], us, ds, ao)
  BY DEF Piped
<1>2. (us <=> AgentSends(c)) /\ (ds <=> AppSends(c)) /\ (ao <=> AgentOn(c)) BY <1>1, SameSenders
<1>3. Sane(r, sock[r], local[r], up[c], down[c], us, ds, ao) BY <1>2 DEF Piped
<1> QED BY <1>2, <1>3

(* One at which nothing happens. *)
LEMMA Rests ==
  ASSUME Inv, NEW r \in Sockets, Piped(r), sock'[r] = sock[r], local'[r] = local[r], SameLinks,
         \A c \in Link : sock[r].on = c => Same(up[c], up'[c], r) \/ ~sock[r].mapped,
         \A c \in Link : sock[r].on = c => Same(down[c], down'[c], r)
  PROVE  Piped(r)'
<1>1. \A c \in Link : sock[r].on = c => Still(r, c) BY SameSenders DEF Still
<1> QED BY <1>1, Stays

(* A frame about s. *)
LEMMA Framed ==
  ASSUME Inv, NEW s \in Sockets, NEW n \in 0 .. MaxSent, NEW t \in {"OPEN", "OPENED", "DATA", "END"}
  PROVE  /\ Frame(t, s, n) \in Frames
         /\ Frame(t, s, n).own = s /\ Frame(t, s, n).type = t /\ Frame(t, s, n).n = n
BY Framing DEF Inv, Frame

(* The app is finished with a stream. *)
LEMMA PipedEnds ==
  ASSUME Inv, NEW s \in Sockets, Ends(s), Piped(s), NEW r \in Sockets, Piped(r)
  PROVE  Piped(r)'
<1>0. sock[s] \in SockRec /\ local[s] \in LocalRec /\ sock \in [Sockets -> SockRec] BY DEF Inv, Ranges
<1>1. /\ sock[s].state \in {"connecting", "open"} /\ sock' = [sock EXCEPT ![s] = Dead(s)]
      /\ SameLinks /\ up' = up /\ local' = local
  BY DEF Ends, wires, SameLinks
<1>2. PICK c \in Link : c = sock[s].on BY <1>1, Placed DEF Paired
<1>3. 0 \in 0 .. MaxSent BY TunnelAssumption
<1>4. PICK f \in Frames : f = Frame("END", s, 0) /\ f.own = s /\ f.type = "END" /\ f.n = 0 BY <1>3, Framed
<1>5. down' = ToAgent(c, <<f>>) BY <1>2, <1>4 DEF Ends
<1>6. CASE r # s
  <2>1. sock'[r] = sock[r] BY <1>0, <1>1, <1>6
  <2>2. ASSUME NEW d \in Link PROVE Same(up[d], up'[d], r) /\ Same(down[d], down'[d], r)
    BY <1>1, <1>4, <1>5, <1>6, ToldAgent, SameSelf
  <2> QED BY <1>1, <2>1, <2>2, Rests
<1>7. CASE r = s
  <2>1. /\ sock'[s] = Dead(s) /\ sock'[s] \in SockRec /\ sock'[s].state = "dead" /\ ~sock'[s].mapped
        /\ sock'[s].on = sock[s].on /\ sock'[s].sent = sock[s].sent
    BY <1>0, <1>1 DEF Dead, SockRec
  <2>2. IF AppSends(c) THEN Sent(down[c], down'[c], s, "END", 0) ELSE Same(down[c], down'[c], s)
    BY <1>4, <1>5, ToldAgent
  <2>3. ASSUME NEW us \in BOOLEAN, NEW ds \in BOOLEAN, NEW ao \in BOOLEAN, ds <=> AppSends(c),
               Sane(s, sock[s], local[s], up[c], down[c], us, ds, ao)
        PROVE  Sane(s, sock'[s], local[s], up'[c], down'[c], us, ds, ao)
    BY <1>0, <2>1, <2>2, <2>3, Dies
  <2> QED BY <1>1, <1>2, <1>7, <2>1, <2>3, Acts
<1> QED BY <1>6, <1>7

(* The app writes. *)
LEMMA PipedWrites ==
  ASSUME Inv, Inv', NEW s \in Sockets, AppWrites(s), Piped(s), NEW r \in Sockets, Piped(r)
  PROVE  Piped(r)'
<1>0. sock[s] \in SockRec /\ local[s] \in LocalRec /\ sock \in [Sockets -> SockRec] /\ sock'[s] \in SockRec
  BY DEF Inv, Ranges
<1>1. /\ sock[s].state \in {"connecting", "open"} /\ sock' = [sock EXCEPT ![s].sent = @ + 1]
      /\ SameLinks /\ up' = up /\ local' = local
  BY DEF AppWrites, wires, SameLinks
<1>2. PICK c \in Link : c = sock[s].on BY <1>1, Placed DEF Paired
<1>3. sock[s].sent + 1 \in 0 .. MaxSent BY <1>0, TunnelAssumption DEF AppWrites, SockRec
<1>4. PICK f \in Frames : f = Frame("DATA", s, sock[s].sent + 1)
                         /\ f.own = s /\ f.type = "DATA" /\ f.n = sock[s].sent + 1
  BY <1>3, Framed
<1>5. down' = IF sock[s].state = "open" THEN ToAgent(c, <<f>>) ELSE down BY <1>2, <1>4 DEF AppWrites
<1>6. CASE r # s
  <2>1. sock'[r] = sock[r] BY <1>0, <1>1, <1>6
  <2>2. ASSUME NEW d \in Link PROVE Same(up[d], up'[d], r) /\ Same(down[d], down'[d], r)
    BY <1>1, <1>4, <1>5, <1>6, ToldAgent, SameSelf
  <2> QED BY <1>1, <2>1, <2>2, Rests
<1>7. CASE r = s
  <2>1. /\ sock'[s].state = sock[s].state /\ sock'[s].mapped = sock[s].mapped /\ sock'[s].got = sock[s].got
        /\ sock'[s].on = sock[s].on /\ sock'[s].sent = sock[s].sent + 1
    BY <1>0, <1>1 DEF SockRec
  <2>2. IF sock[s].state = "open" /\ AppSends(c) THEN Sent(down[c], down'[c], s, "DATA", sock'[s].sent)
        ELSE Same(down[c], down'[c], s)
    BY <1>4, <1>5, <2>1, ToldAgent, SameSelf
  <2>3. ASSUME NEW us \in BOOLEAN, NEW ds \in BOOLEAN, NEW ao \in BOOLEAN, ds <=> AppSends(c),
               Sane(s, sock[s], local[s], up[c], down[c], us, ds, ao)
        PROVE  Sane(s, sock'[s], local[s], up'[c], down'[c], us, ds, ao)
    <3>1. /\ sock[s].state = "open" /\ ds => Sent(down[c], down'[c], s, "DATA", sock'[s].sent)
          /\ ~(sock[s].state = "open" /\ ds) => Same(down[c], down'[c], s)
      BY <2>2, <2>3
    <3>2. PICK k \in SockRec : k = sock[s] BY <1>0
    <3>3. PICK m \in SockRec : m = sock'[s] BY <1>0
    <3>4. /\ m.state = k.state /\ m.mapped = k.mapped /\ m.got = k.got /\ m.on = k.on /\ m.sent = k.sent + 1
          /\ k.state \in {"connecting", "open"}
      BY <1>1, <2>1, <3>2, <3>3
    <3>5. Sane(s, k, local[s], up[c], down[c], us, ds, ao) BY <2>3, <3>2
    <3>6. /\ k.state = "open" /\ ds => Sent(down[c], down'[c], s, "DATA", m.sent)
          /\ ~(k.state = "open" /\ ds) => Same(down[c], down'[c], s)
      BY <3>1, <3>2, <3>3
    <3>7. Sane(s, m, local[s], up[c], down'[c], us, ds, ao)
      BY <1>0, <3>4, <3>5, <3>6, Writes
    <3> QED BY <1>1, <3>3, <3>7
  <2> QED BY <1>1, <1>2, <1>7, <2>1, <2>3, Acts
<1> QED BY <1>6, <1>7

(* Nothing about a stream of another WebSocket is on its way. *)
LEMMA NoFrames ==
  ASSUME Inv, NEW s \in Sockets, NEW c \in Link, sock[s].on # c
  PROVE  /\ Orderly(up[c], s) /\ \A t : ~Has(up[c], s, t)
         /\ Orderly(down[c], s) /\ \A t : ~Has(down[c], s, t)
<1>1. ASSUME NEW q \in {up[c], down[c]}, NEW i \in 1 .. Len(q) PROVE q[i].own # s
  <2>1. q[i] \in On(up[c]) \cup On(down[c]) BY <1>1 DEF On
  <2>2. Right(c, q[i]) BY <2>1 DEF Inv, Addressed
  <2> QED BY <2>2 DEF Right
<1>2. ASSUME NEW q \in {up[c], down[c]}, NEW t PROVE At(q, s, t) = {}
  BY <1>1 DEF At
<1>3. \A q \in {up[c], down[c]} : Orderly(q, s) /\ \A t : ~Has(q, s, t)
  BY <1>2 DEF Orderly, Has
<1> QED BY <1>3

(* A stream is asked for. *)
LEMMA PipedStart ==
  ASSUME Inv, Inv', NEW s \in Sockets, Start(s), Piped(s), NEW r \in Sockets, Piped(r)
  PROVE  Piped(r)'
<1>0. /\ sock[s] \in SockRec /\ local[s] \in LocalRec /\ sock \in [Sockets -> SockRec] /\ sock'[s] \in SockRec
      /\ sock[s].state = "new" /\ sock[s].on = None /\ None \notin Link
  BY TunnelAssumption DEF Inv, Ranges, Start, Numbered, Link
<1>1. SameLinks /\ up' = up /\ local' = local BY DEF Start, SameLinks
<1>2. PICK us \in BOOLEAN, ds \in BOOLEAN, ao \in BOOLEAN :
         Sane(s, sock[s], local[s], up[None], down[None], us, ds, ao)
  BY <1>0, Parts
<1>3. CASE sock' = [sock EXCEPT ![s] = Dead(s)] /\ down' = down
  <2>1. CASE r # s
    <3>1. sock'[r] = sock[r] BY <1>0, <1>3, <2>1
    <3>2. ASSUME NEW d \in Link PROVE Same(up[d], up'[d], r) /\ Same(down[d], down'[d], r)
      BY <1>1, <1>3, SameSelf
    <3> QED BY <1>1, <3>1, <3>2, Rests
  <2>2. CASE r = s
    <3>1. sock'[s].state = "dead" /\ ~sock'[s].mapped /\ sock'[s].on = None
      BY <1>0, <1>3 DEF Dead, SockRec
    <3>2. ASSUME NEW vs \in BOOLEAN, NEW es \in BOOLEAN, NEW bo \in BOOLEAN
          PROVE  Sane(s, sock'[s], local[s], up'[None], down'[None], vs, es, bo)
      BY <1>0, <1>2, <3>1 DEF Sane, Paired
    <3> QED BY <1>1, <2>2, <3>1, <3>2 DEF Piped
  <2> QED BY <2>1, <2>2
<1> DEFINE g == [type |-> "OPEN", id |-> next[live], own |-> s, n |-> 0]
           m == [sock[s] EXCEPT !.state = "connecting", !.on = live, !.id = next[live], !.mapped = TRUE]
<1>4. CASE /\ live # None /\ sock' = [sock EXCEPT ![s] = m]
           /\ down' = ToAgent(live, <<g>>)
  <2>1. PICK c \in Link : c = live BY <1>4 DEF Inv, Ranges
  <2>2. PICK f \in Frames : f = g /\ f.own = s /\ f.type = "OPEN" /\ f.n = 0
    <3>1. next[live] \in Nat BY <2>1 DEF Inv, Ranges
    <3>2. g \in Frames BY <3>1, TunnelAssumption DEF Frames
    <3>3. g.own = s /\ g.type = "OPEN" /\ g.n = 0 OBVIOUS
    <3> HIDE DEF g
    <3> QED BY <3>2, <3>3
  <2>3. PICK k : k = m OBVIOUS
  <2>4. k.state = "connecting" /\ k.mapped /\ k.on = c /\ k.got = sock[s].got /\ sock'[s] = k
    BY <1>0, <1>4, <2>1, <2>3 DEF SockRec
  <2>5. \A d \in Link : IF d = c /\ s = r /\ AppSends(c) THEN Sent(down[d], down'[d], r, "OPEN", 0)
                        ELSE Same(down[d], down'[d], r)
    BY <1>4, <2>1, <2>2, ToldAgent
  <2>6. CASE r # s
    <3>1. sock'[r] = sock[r] BY <1>0, <1>4, <2>6
    <3>2. ASSUME NEW d \in Link PROVE Same(up[d], up'[d], r) /\ Same(down[d], down'[d], r)
      BY <1>1, <2>5, <2>6, SameSelf
    <3> QED BY <1>1, <3>1, <3>2, Rests
  <2>7. CASE r = s
    <3>1. /\ Orderly(up[c], s) /\ \A t : ~Has(up[c], s, t)
          /\ Orderly(down[c], s) /\ \A t : ~Has(down[c], s, t)
      BY <1>0, NoFrames
    <3>2. Same(down[c], down'[c], s) \/ Sent(down[c], down'[c], s, "OPEN", 0) BY <2>5, <2>7
    <3>3. sock[s].on \notin Link /\ k \in SockRec /\ k.on \in Link BY <1>0, <2>4
    <3>4. ASSUME NEW vs \in BOOLEAN, NEW es \in BOOLEAN, NEW bo \in BOOLEAN
          PROVE  Sane(s, k, local[s], up[c], down'[c], vs, es, bo)
      BY <1>0, <1>2, <2>4, <3>1, <3>2, <3>3, Starts
    <3> QED BY <1>1, <2>4, <2>7, <3>4 DEF Piped
  <2> QED BY <2>6, <2>7
<1> QED BY <1>3, <1>4 DEF Start

(* A frame about another stream arrives, or one about a stream that is gone. *)
LEMMA Passes ==
  ASSUME Inv, NEW c \in Link, up[c] # <<>>, up' = [up EXCEPT ![c] = Tail(@)], NEW r \in Sockets, sock[r].on \in Link,
         Head(up[c]).own # r \/ r \notin Named(c, Head(up[c]).id)
  PROVE  Same(up[sock[r].on], up'[sock[r].on], r) \/ ~sock[r].mapped
<1>1. up \in [Link -> Seq(Frames)] /\ sock[r] \in SockRec BY DEF Inv, Wires, Ranges
<1>2. CASE sock[r].on # c BY <1>1, <1>2, SameSelf
<1>3. CASE sock[r].on = c /\ Head(up[c]).own # r
  <2>1. up'[c] = Tail(up[c]) BY <1>1
  <2>2. up[c] \in Seq(Frames) BY <1>1
  <2> QED BY <1>3, <2>1, <2>2, OtherTaken
<1>4. CASE sock[r].on = c /\ Head(up[c]).own = r /\ r \notin Named(c, Head(up[c]).id)
  <2>1. Head(up[c]) \in On(up[c]) BY <1>1, Taking
  <2>2. Right(c, Head(up[c])) BY <2>1 DEF Inv, Addressed
  <2>3. sock[r].id = Head(up[c]).id BY <1>4, <2>2 DEF Right
  <2> QED BY <1>4, <2>3 DEF Named, StreamsOf
<1> QED BY <1>2, <1>3, <1>4

(* The stream a frame arrives for is the one it was sent for. *)
LEMMA ForOwn ==
  ASSUME Inv, NEW c \in Link, up[c] # <<>>, NEW s \in Named(c, Head(up[c]).id)
  PROVE  s \in Sockets /\ s = Head(up[c]).own /\ sock[s].on = c /\ sock[s].mapped
<1>1. Head(up[c]) \in On(up[c]) /\ Head(up[c]) \in Frames BY Taking DEF Inv, Wires
<1>2. Right(c, Head(up[c])) /\ Head(up[c]).own \in Sockets BY <1>1 DEF Inv, Addressed, Frames
<1>3. s \in Sockets /\ sock[s].on = c /\ sock[s].mapped /\ sock[s].id = Head(up[c]).id BY DEF Named, StreamsOf
<1> QED BY <1>2, <1>3 DEF Inv, Numbered, Right

(* It is taken from what is on its way to that stream. *)
LEMMA TakenUp ==
  ASSUME Inv, NEW c \in Link, up[c] # <<>>, up' = [up EXCEPT ![c] = Tail(@)], NEW s, s = Head(up[c]).own,
         Orderly(up[c], s)
  PROVE  Taken(up[c], up'[c], s, Head(up[c]).type, Head(up[c]).n)
<1>1. up[c] \in Seq(Frames) /\ up'[c] = Tail(up[c]) BY DEF Inv, Wires
<1> QED BY <1>1, OwnTaken

(* The app hears that a stream is open. *)
LEMMA PipedOpened ==
  ASSUME Inv, Inv', NEW c \in Link, Opened(c), \A s \in Sockets : Piped(s), NEW r \in Sockets
  PROVE  Piped(r)'
<1>1. /\ up[c] # <<>> /\ up' = [up EXCEPT ![c] = Tail(@)] /\ SameLinks /\ local' = local
      /\ Head(up[c]).type = "OPENED"
  BY DEF Opened, Takes, SameLinks
<1>2. PICK s \in Named(c, Head(up[c]).id) :
         /\ sock[s].state = "connecting" /\ sock' = [sock EXCEPT ![s].state = "open"]
         /\ down' = ToAgent(c, [i \in 1 .. sock[s].sent |-> Frame("DATA", s, i)])
  BY DEF Opened
<1>3. s \in Sockets /\ s = Head(up[c]).own /\ sock[s].on = c /\ sock[s].mapped BY <1>1, ForOwn
<1>4. sock \in [Sockets -> SockRec] /\ sock[s] \in SockRec /\ local[s] \in LocalRec /\ sock'[s] \in SockRec
      /\ sock[s].sent \in 0 .. MaxSent
  BY <1>3 DEF Inv, Ranges, SockRec
<1>5. PICK fs : fs = Backlog(s) OBVIOUS
<1>6. ~Has(down[c], s, "DATA") /\ Orderly(up[c], s)
  <2>1. PICK us \in BOOLEAN, ds \in BOOLEAN, ao \in BOOLEAN :
           Sane(s, sock[s], local[s], up[c], down[c], us, ds, ao)
    BY <1>3, Parts
  <2> QED BY <1>2, <1>3, <2>1 DEF Sane, Upward, Downward
<1>7. /\ AppSends(c) => /\ \A t : t # "DATA" => (Has(down'[c], s, t) <=> Has(down[c], s, t))
                        /\ Numbers(down'[c], s) = 1 .. sock[s].sent
                        /\ Orderly(down[c], s) => Orderly(down'[c], s)
      /\ \A d \in Link : ~(d = c /\ r = s /\ AppSends(c)) => Same(down[d], down'[d], r)
  <2>1. /\ fs \in Seq(Frames) /\ Len(fs) = sock[s].sent
        /\ \A i \in 1 .. Len(fs) : fs[i].own = s /\ fs[i].type = "DATA" /\ fs[i].n = i
    BY <1>3, <1>5, Kept
  <2>2. \A i \in 1 .. Len(fs) : fs[i].own = s /\ fs[i].type = "DATA" /\ fs[i].n = i BY <2>1
  <2>3. down' = ToAgent(c, fs) BY <1>2, <1>5 DEF Backlog
  <2>4. ASSUME AppSends(c)
        PROVE  /\ \A t : t # "DATA" => (Has(ToAgent(c, fs)[c], s, t) <=> Has(down[c], s, t))
               /\ Numbers(ToAgent(c, fs)[c], s) = 1 .. Len(fs)
               /\ Orderly(down[c], s) => Orderly(ToAgent(c, fs)[c], s)
    BY <1>6, <2>1, <2>2, <2>4, ToldKept
  <2>5. ASSUME NEW d \in Link, ~(d = c /\ r = s /\ AppSends(c)) PROVE Same(down[d], ToAgent(c, fs)[d], r)
    BY <1>6, <2>1, <2>2, <2>5, ToldKept
  <2> QED BY <2>1, <2>3, <2>4, <2>5
<1>8. CASE r # s
  <2>1. sock'[r] = sock[r] BY <1>2, <1>4, <1>8
  <2>2. \A d \in Link : sock[r].on = d => Same(up[d], up'[d], r) \/ ~sock[r].mapped
    BY <1>1, <1>3, <1>8, Passes
  <2>3. \A d \in Link : sock[r].on = d => Same(down[d], down'[d], r) BY <1>7, <1>8
  <2> QED BY <1>1, <2>1, <2>2, <2>3, Rests
<1>9. CASE r = s
  <2>1. /\ sock'[s].state = "open" /\ sock'[s].mapped = sock[s].mapped /\ sock'[s].got = sock[s].got
        /\ sock'[s].on = sock[s].on /\ sock'[s].sent = sock[s].sent
    BY <1>2, <1>3, <1>4 DEF SockRec
  <2>2. PICK n : n = Head(up[c]).n OBVIOUS
  <2>3. Taken(up[c], up'[c], s, "OPENED", n) BY <1>1, <1>3, <1>6, <2>2, TakenUp
  <2>4. ASSUME NEW us \in BOOLEAN, NEW ds \in BOOLEAN, NEW ao \in BOOLEAN, ds <=> AppSends(c),
               Sane(s, sock[s], local[s], up[c], down[c], us, ds, ao)
        PROVE  Sane(s, sock'[s], local[s], up'[c], down'[c], us, ds, ao)
    <3>1. PICK k \in SockRec, m \in SockRec : k = sock[s] /\ m = sock'[s] BY <1>4
    <3>2. /\ m.state = "open" /\ m.mapped = k.mapped /\ m.on = k.on /\ m.got = k.got /\ m.sent = k.sent
          /\ k.state = "connecting"
      BY <1>2, <2>1, <3>1
    <3>3. /\ ds => /\ \A t : t # "DATA" => (Has(down'[c], s, t) <=> Has(down[c], s, t))
                   /\ Numbers(down'[c], s) = 1 .. k.sent
                   /\ Orderly(down[c], s) => Orderly(down'[c], s)
          /\ ~ds => Same(down[c], down'[c], s)
      BY <1>7, <1>9, <2>4, <3>1
    <3>4. Sane(s, k, local[s], up[c], down[c], us, ds, ao) BY <2>4, <3>1
    <3>5. Sane(s, m, local[s], up'[c], down'[c], us, ds, ao)
      BY <1>4, <2>3, <3>2, <3>3, <3>4, Opens
    <3> QED BY <3>1, <3>5
  <2> QED BY <1>1, <1>3, <1>9, <2>1, <2>4, Acts
<1> QED BY <1>8, <1>9

(* The app hears a chunk. *)
LEMMA PipedReceived ==
  ASSUME Inv, Inv', NEW c \in Link, Received(c), \A s \in Sockets : Piped(s), NEW r \in Sockets
  PROVE  Piped(r)'
<1>1. /\ up[c] # <<>> /\ up' = [up EXCEPT ![c] = Tail(@)] /\ SameLinks /\ local' = local /\ down' = down
      /\ Head(up[c]).type = "DATA"
  BY DEF Received, Takes, SameLinks
<1>2. PICK s \in Named(c, Head(up[c]).id) :
         /\ sock[s].state = "open"
         /\ sock' = [sock EXCEPT ![s].got = Append(@, <<Head(up[c]).own, Head(up[c]).n>>)]
  BY DEF Received
<1>3. s \in Sockets /\ s = Head(up[c]).own /\ sock[s].on = c /\ sock[s].mapped BY <1>1, ForOwn
<1>4. sock \in [Sockets -> SockRec] /\ sock[s] \in SockRec /\ local[s] \in LocalRec /\ sock'[s] \in SockRec
  BY <1>3 DEF Inv, Ranges
<1>5. CASE r # s
  <2>1. sock'[r] = sock[r] BY <1>2, <1>4, <1>5
  <2>2. \A d \in Link : sock[r].on = d => Same(up[d], up'[d], r) \/ ~sock[r].mapped
    BY <1>1, <1>3, <1>5, Passes
  <2>3. \A d \in Link : sock[r].on = d => Same(down[d], down'[d], r) BY <1>1, SameSelf
  <2> QED BY <1>1, <2>1, <2>2, <2>3, Rests
<1>6. CASE r = s
  <2>1. PICK g : g = Append(sock[s].got, <<Head(up[c]).own, Head(up[c]).n>>) OBVIOUS
  <2>2. /\ sock'[s].state = "open" /\ sock'[s].mapped = sock[s].mapped /\ sock'[s].got = g
        /\ sock'[s].on = sock[s].on /\ sock'[s].sent = sock[s].sent
    BY <1>2, <1>3, <1>4, <2>1 DEF SockRec
  <2>3. Len(g) = Len(sock[s].got) + 1 BY <1>4, <2>1 DEF SockRec, Chunks
  <2>4. PICK n : n = Head(up[c]).n OBVIOUS
  <2>5. ASSUME NEW us \in BOOLEAN, NEW ds \in BOOLEAN, NEW ao \in BOOLEAN,
               Sane(s, sock[s], local[s], up[c], down[c], us, ds, ao)
        PROVE  Sane(s, sock'[s], local[s], up'[c], down'[c], us, ds, ao)
    <3>1. PICK k \in SockRec, m \in SockRec : k = sock[s] /\ m = sock'[s] BY <1>4
    <3>2. /\ m.state = k.state /\ m.mapped = k.mapped /\ m.on = k.on /\ m.sent = k.sent
          /\ k.state = "open" /\ Len(m.got) = Len(k.got) + 1
      BY <1>2, <2>2, <2>3, <3>1
    <3>3. Sane(s, k, local[s], up[c], down[c], us, ds, ao) BY <2>5, <3>1
    <3>4. Orderly(up[c], s) BY <1>3, <2>5 DEF Sane, Upward
    <3>5. Taken(up[c], up'[c], s, "DATA", n) BY <1>1, <1>3, <2>4, <3>4, TakenUp
    <3>6. Sane(s, m, local[s], up'[c], down[c], us, ds, ao) BY <1>4, <3>2, <3>3, <3>5, Receives
    <3> QED BY <1>1, <3>1, <3>6
  <2> QED BY <1>1, <1>3, <1>6, <2>2, <2>5, Acts
<1> QED BY <1>5, <1>6

(* The app hears that the agent is finished with a stream. *)
LEMMA PipedRemoteEnds ==
  ASSUME Inv, Inv', NEW c \in Link, RemoteEnds(c), \A s \in Sockets : Piped(s), NEW r \in Sockets
  PROVE  Piped(r)'
<1>1. /\ up[c] # <<>> /\ up' = [up EXCEPT ![c] = Tail(@)] /\ SameLinks /\ local' = local /\ down' = down
      /\ Head(up[c]).type = "END"
  BY DEF RemoteEnds, Takes, SameLinks
<1>2. PICK s \in Named(c, Head(up[c]).id) : sock' = [sock EXCEPT ![s] = Dead(s)]
  BY DEF RemoteEnds
<1>3. s \in Sockets /\ s = Head(up[c]).own /\ sock[s].on = c /\ sock[s].mapped BY <1>1, ForOwn
<1>4. sock \in [Sockets -> SockRec] /\ sock[s] \in SockRec /\ local[s] \in LocalRec /\ sock'[s] \in SockRec
  BY <1>3 DEF Inv, Ranges
<1>5. CASE r # s
  <2>1. sock'[r] = sock[r] BY <1>2, <1>4, <1>5
  <2>2. \A d \in Link : sock[r].on = d => Same(up[d], up'[d], r) \/ ~sock[r].mapped
    BY <1>1, <1>3, <1>5, Passes
  <2>3. \A d \in Link : sock[r].on = d => Same(down[d], down'[d], r) BY <1>1, SameSelf
  <2> QED BY <1>1, <2>1, <2>2, <2>3, Rests
<1>6. CASE r = s
  <2>1. /\ sock'[s].state = "dead" /\ ~sock'[s].mapped /\ sock'[s].on = sock[s].on /\ sock'[s].sent = sock[s].sent
    BY <1>2, <1>3, <1>4 DEF Dead, SockRec
  <2>2. ASSUME NEW us \in BOOLEAN, NEW ds \in BOOLEAN, NEW ao \in BOOLEAN,
               Sane(s, sock[s], local[s], up[c], down[c], us, ds, ao)
        PROVE  Sane(s, sock'[s], local[s], up'[c], down'[c], us, ds, ao)
    <3>1. Upward(s, sock[s], local[s], up[c], down[c], us) BY <1>3, <2>2 DEF Sane
    <3>2. Taken(up[c], up'[c], s, Head(up[c]).type, Head(up[c]).n) BY <1>1, <1>3, <3>1, TakenUp DEF Upward
    <3>3. ~(local[s].mapped \/ Has(down[c], s, "OPEN")) BY <1>1, <3>1, <3>2 DEF Upward, Taken
    <3> QED BY <1>1, <1>4, <2>1, <2>2, <3>3, SameSelf, Dies
  <2> QED BY <1>1, <1>3, <1>6, <2>1, <2>2, Acts
<1> QED BY <1>5, <1>6

(* The app hears nothing of use. *)
LEMMA PipedIgnored ==
  ASSUME Inv, NEW c \in Link, Ignored(c), NEW r \in Sockets, Piped(r)
  PROVE  Piped(r)'
<1>1. /\ up[c] # <<>> /\ up' = [up EXCEPT ![c] = Tail(@)] /\ SameLinks /\ local' = local /\ down' = down
      /\ sock' = sock /\ Named(c, Head(up[c]).id) = {}
  BY DEF Ignored, Takes, SameLinks
<1>2. \A d \in Link : sock[r].on = d => Same(up[d], up'[d], r) \/ ~sock[r].mapped BY <1>1, Passes
<1> QED BY <1>1, <1>2, SameSelf, Rests

(* A frame of the agent, told or not. *)
LEMMA Told ==
  ASSUME Inv, NEW s \in Sockets, NEW c \in Link, sock[s].on = c, NEW n \in 0 .. MaxSent,
         NEW t \in {"OPENED", "DATA", "END"}, up' = ToApp(sock[s].on, <<Frame(t, s, n)>>)
  PROVE  /\ AgentSends(c) => Sent(up[c], up'[c], s, t, n)
         /\ ~AgentSends(c) => Same(up[c], up'[c], s)
         /\ \A r \in Sockets, d \in Link : r # s => Same(up[d], up'[d], r)
<1>1. PICK f \in Frames : f = Frame(t, s, n) /\ f.own = s /\ f.type = t /\ f.n = n BY Framed
<1>2. up' = ToApp(c, <<f>>) BY <1>1
<1> QED BY <1>1, <1>2, ToldApp

(* The agent's end of a stream that is not idle belongs to a WebSocket. *)
LEMMA Lodged ==
  ASSUME NEW s \in Sockets, Piped(s), local[s].state # "none"
  PROVE  sock[s].on \in Link
BY Placed DEF Paired

(* The agent's end closes. *)
LEMMA PipedLocalEnds ==
  ASSUME Inv, Inv', NEW s \in Sockets, LocalEnds(s) \/ LocalDrained(s), Piped(s), NEW r \in Sockets, Piped(r)
  PROVE  Piped(r)'
<1>1. /\ local[s].state # "none" /\ local' = [local EXCEPT ![s] = Shut(s)]
      /\ SameLinks /\ down' = down /\ sock' = sock
      /\ up' = up \/ up' = ToApp(sock[s].on, <<Frame("END", s, 0)>>)
  BY DEF LocalEnds, LocalDrained, wires, SameLinks
<1>2. PICK c \in Link : c = sock[s].on BY <1>1, Lodged
<1>3. 0 \in 0 .. MaxSent BY TunnelAssumption
<1>4. local \in [Sockets -> LocalRec] /\ local[s] \in LocalRec /\ sock[s] \in SockRec /\ local'[s] \in LocalRec
  BY DEF Inv, Ranges
<1>5. /\ Same(up[c], up'[c], s) \/ Sent(up[c], up'[c], s, "END", 0)
      /\ \A q \in Sockets, d \in Link : q # s => Same(up[d], up'[d], q)
  BY <1>1, <1>2, <1>3, Told, SameSelf
<1>6. CASE r # s
  <2>1. local'[r] = local[r] BY <1>1, <1>4, <1>6
  <2> QED BY <1>1, <1>5, <1>6, <2>1, SameSelf, Rests
<1>7. CASE r = s
  <2>1. /\ local'[s].state = "closed" /\ ~local'[s].mapped /\ local'[s].sent = local[s].sent
        /\ local'[s].got = local[s].got
    BY <1>1, <1>4 DEF Shut, LocalRec
  <2>2. ASSUME NEW us \in BOOLEAN, NEW ds \in BOOLEAN, NEW ao \in BOOLEAN,
               Sane(s, sock[s], local[s], up[c], down[c], us, ds, ao)
        PROVE  Sane(s, sock[s], local'[s], up'[c], down[c], us, ds, ao)
    BY <1>1, <1>4, <1>5, <2>1, <2>2, SameSelf, Shuts
  <2> QED BY <1>1, <1>2, <1>7, <2>2, Acts
<1> QED BY <1>6, <1>7

(* The local server answers. *)
LEMMA PipedConnects ==
  ASSUME Inv, Inv', NEW s \in Sockets, LocalConnects(s), Piped(s), NEW r \in Sockets, Piped(r)
  PROVE  Piped(r)'
<1>1. /\ local[s].state \in {"connecting", "draining"}
      /\ local' = [local EXCEPT ![s].opened = TRUE, ![s].state = IF @ = "connecting" THEN "open" ELSE @]
      /\ SameLinks /\ down' = down /\ sock' = sock
      /\ up' = ToApp(sock[s].on, <<Frame("OPENED", s, 0)>>)
  BY DEF LocalConnects, wires, SameLinks
<1>2. PICK c \in Link : c = sock[s].on BY <1>1, Lodged
<1>3. 0 \in 0 .. MaxSent BY TunnelAssumption
<1>4. local \in [Sockets -> LocalRec] /\ local[s] \in LocalRec /\ sock[s] \in SockRec /\ local'[s] \in LocalRec
  BY DEF Inv, Ranges
<1>5. /\ AgentSends(c) => Sent(up[c], up'[c], s, "OPENED", 0)
      /\ ~AgentSends(c) => Same(up[c], up'[c], s)
      /\ \A q \in Sockets, d \in Link : q # s => Same(up[d], up'[d], q)
  BY <1>1, <1>2, <1>3, Told
<1>6. CASE r # s
  <2>1. local'[r] = local[r] BY <1>1, <1>4, <1>6
  <2> QED BY <1>1, <1>5, <1>6, <2>1, SameSelf, Rests
<1>7. CASE r = s
  <2>1. /\ local'[s].state = IF local[s].state = "connecting" THEN "open" ELSE local[s].state
        /\ local'[s].mapped = local[s].mapped /\ local'[s].sent = local[s].sent
        /\ local'[s].got = local[s].got
    BY <1>1, <1>4 DEF LocalRec
  <2>2. ASSUME NEW us \in BOOLEAN, NEW ds \in BOOLEAN, NEW ao \in BOOLEAN, us <=> AgentSends(c),
               Sane(s, sock[s], local[s], up[c], down[c], us, ds, ao)
        PROVE  Sane(s, sock[s], local'[s], up'[c], down[c], us, ds, ao)
    <3>1. PICK l \in LocalRec, m \in LocalRec : l = local[s] /\ m = local'[s] BY <1>4
    <3>2. /\ m.mapped = l.mapped /\ m.sent = l.sent /\ m.got = l.got /\ l.state \in {"connecting", "draining"}
          /\ m.state = IF l.state = "connecting" THEN "open" ELSE l.state
      BY <1>1, <2>1, <3>1
    <3>3. Sane(s, sock[s], l, up[c], down[c], us, ds, ao) BY <2>2, <3>1
    <3>4. (us => Sent(up[c], up'[c], s, "OPENED", 0)) /\ (~us => Same(up[c], up'[c], s)) BY <1>5, <2>2
    <3>5. Sane(s, sock[s], m, up'[c], down[c], us, ds, ao) BY <1>4, <3>2, <3>3, <3>4, Connects
    <3> QED BY <3>1, <3>5
  <2>3. SameLinks /\ down' = down /\ sock' = sock BY <1>1
  <2> QED BY <1>2, <1>7, <2>2, <2>3, Acts
<1> QED BY <1>6, <1>7

(* The local server sends. *)
LEMMA PipedSends ==
  ASSUME Inv, Inv', NEW s \in Sockets, LocalSends(s), Piped(s), NEW r \in Sockets, Piped(r)
  PROVE  Piped(r)'
<1>1. /\ local[s].state = "open" /\ local' = [local EXCEPT ![s].sent = @ + 1]
      /\ SameLinks /\ down' = down /\ sock' = sock
      /\ up' = ToApp(sock[s].on, <<Frame("DATA", s, local[s].sent + 1)>>)
  BY DEF LocalSends, wires, SameLinks
<1>2. PICK c \in Link : c = sock[s].on BY <1>1, Lodged
<1>4. local \in [Sockets -> LocalRec] /\ local[s] \in LocalRec /\ sock[s] \in SockRec /\ local'[s] \in LocalRec
  BY DEF Inv, Ranges
<1>3. PICK n \in 0 .. MaxSent : n = local[s].sent + 1 BY <1>4, TunnelAssumption DEF LocalSends, LocalRec
<1>5. /\ AgentSends(c) => Sent(up[c], up'[c], s, "DATA", n)
      /\ ~AgentSends(c) => Same(up[c], up'[c], s)
      /\ \A q \in Sockets, d \in Link : q # s => Same(up[d], up'[d], q)
  BY <1>1, <1>2, <1>3, Told
<1>6. CASE r # s
  <2>1. local'[r] = local[r] BY <1>1, <1>4, <1>6
  <2> QED BY <1>1, <1>5, <1>6, <2>1, SameSelf, Rests
<1>7. CASE r = s
  <2>1. /\ local'[s].state = local[s].state /\ local'[s].mapped = local[s].mapped /\ local'[s].sent = n
        /\ local'[s].got = local[s].got
    BY <1>1, <1>3, <1>4 DEF LocalRec
  <2>2. ASSUME NEW us \in BOOLEAN, NEW ds \in BOOLEAN, NEW ao \in BOOLEAN, us <=> AgentSends(c),
               Sane(s, sock[s], local[s], up[c], down[c], us, ds, ao)
        PROVE  Sane(s, sock[s], local'[s], up'[c], down[c], us, ds, ao)
    <3>1. PICK l \in LocalRec, m \in LocalRec : l = local[s] /\ m = local'[s] BY <1>4
    <3>2. m.mapped = l.mapped /\ m.sent = l.sent + 1 /\ m.got = l.got /\ l.state = "open" /\ m.state = l.state
      BY <1>1, <1>3, <2>1, <3>1
    <3>3. Sane(s, sock[s], l, up[c], down[c], us, ds, ao) BY <2>2, <3>1
    <3>4. (us => Sent(up[c], up'[c], s, "DATA", m.sent)) /\ (~us => Same(up[c], up'[c], s))
      BY <1>5, <2>1, <2>2, <3>1
    <3>5. Sane(s, sock[s], m, up'[c], down[c], us, ds, ao) BY <1>4, <3>2, <3>3, <3>4, Sends
    <3> QED BY <3>1, <3>5
  <2> QED BY <1>1, <1>2, <1>7, <2>2, Acts
<1> QED BY <1>6, <1>7

(* The one WebSocket the agent has open. *)
LEMMA OneOpen ==
  ASSUME OneByOne, NEW c \in Link, NEW d \in Link, agent[c] = "open", agent[d] = "open"
  PROVE  c = d
<1>1. c \in Nat /\ d \in Nat /\ ~(c < d) /\ ~(d < c)
  <2>1. c \in Nat /\ d \in Nat BY TunnelAssumption DEF Link
  <2> QED BY <2>1 DEF OneByOne
<1> QED BY <1>1

(* A stream the agent lists is of that one. *)
LEMMA ListedOn ==
  ASSUME OneByOne, NEW c \in Link, agent[c] = "open", NEW r \in Sockets, Piped(r), local[r].mapped
  PROVE  sock[r].on = c
<1>1. AgentOn(sock[r].on) BY Placed DEF Paired
<1> QED BY <1>1, OneOpen DEF AgentOn

(* The frame the agent reads, and the stream it finds for it. *)
LEMMA AgentFinds ==
  ASSUME Inv, OneByOne, NEW c \in Link, agent[c] = "open", down[c] # <<>>, \A s \in Sockets : Piped(s)
  PROVE  /\ Head(down[c]) \in Frames /\ Head(down[c]).own \in Sockets /\ sock[Head(down[c]).own].on = c
         /\ \A r \in Sockets : r \in LocalNamed(Head(down[c]).id) <=> local[r].mapped /\ r = Head(down[c]).own
<1>1. Head(down[c]) \in On(down[c]) /\ Head(down[c]) \in Frames BY Taking DEF Inv, Wires
<1>2. Right(c, Head(down[c])) /\ Head(down[c]).own \in Sockets BY <1>1 DEF Inv, Addressed, Frames
<1>3. ASSUME NEW r \in Sockets, r \in LocalNamed(Head(down[c]).id) PROVE local[r].mapped /\ r = Head(down[c]).own
  <2>1. local[r].mapped /\ sock[r].id = Head(down[c]).id BY <1>3 DEF LocalNamed
  <2>2. sock[r].on = c BY <2>1, ListedOn
  <2> QED BY <1>2, <2>1, <2>2 DEF Inv, Numbered, Right
<1>4. ASSUME NEW r \in Sockets, local[r].mapped, r = Head(down[c]).own PROVE r \in LocalNamed(Head(down[c]).id)
  BY <1>2, <1>4 DEF LocalNamed, Right
<1> QED BY <1>1, <1>2, <1>3, <1>4 DEF Right

(* What is on its way to the other streams. *)
LEMMA TakenDown ==
  ASSUME Inv, NEW c \in Link, down[c] # <<>>, down' = [down EXCEPT ![c] = Tail(@)], NEW s
  PROVE  /\ Head(down[c]).own # s => \A d \in Link : Same(down[d], down'[d], s)
         /\ Head(down[c]).own = s /\ Orderly(down[c], s) =>
              Taken(down[c], down'[c], s, Head(down[c]).type, Head(down[c]).n)
<1>1. down \in [Link -> Seq(Frames)] BY DEF Inv, Wires
<1>2. down[c] \in Seq(Frames) /\ down'[c] = Tail(down[c]) /\ \A d \in Link : d # c => down'[d] = down[d] BY <1>1
<1>3. Head(down[c]).own # s => Same(down[c], down'[c], s) BY <1>2, OtherTaken
<1>4. Head(down[c]).own = s /\ Orderly(down[c], s) => Taken(down[c], down'[c], s, Head(down[c]).type, Head(down[c]).n)
  BY <1>2, OwnTaken
<1> QED BY <1>2, <1>3, <1>4, SameSelf

(* The agent is asked for a stream, and refuses or connects. *)
LEMMA PipedOpens ==
  ASSUME Inv, Inv', OneByOne, NEW c \in Link, AgentOpens(c), \A s \in Sockets : Piped(s), NEW r \in Sockets
  PROVE  Piped(r)'
<1>1. /\ agent[c] = "open" /\ down[c] # <<>> /\ down' = [down EXCEPT ![c] = Tail(@)] /\ SameLinks /\ sock' = sock
      /\ Head(down[c]).type = "OPEN"
  BY DEF AgentOpens, AgentTakes, wires, SameLinks
<1>2. PICK s \in Sockets : s = Head(down[c]).own /\ sock[s].on = c BY <1>1, AgentFinds
<1>3. /\ local \in [Sockets -> LocalRec] /\ local[s] \in LocalRec /\ sock[s] \in SockRec /\ local'[s] \in LocalRec
  BY DEF Inv, Ranges
<1>4. PICK n : n = Head(down[c]).n OBVIOUS
<1>5. ASSUME NEW us \in BOOLEAN, NEW ds \in BOOLEAN, NEW ao \in BOOLEAN,
             Sane(s, sock[s], local[s], up[c], down[c], us, ds, ao)
      PROVE  Taken(down[c], down'[c], s, "OPEN", n)
  <2>1. Orderly(down[c], s) BY <1>2, <1>5 DEF Sane, Downward
  <2> QED BY <1>1, <1>2, <1>4, <2>1, TakenDown
<1>6. CASE up' = ToApp(c, <<Frame("END", s, 0)>>) /\ local' = local
  <2>0. 0 \in 0 .. MaxSent BY TunnelAssumption
  <2>1. /\ Same(up[c], up'[c], s) \/ Sent(up[c], up'[c], s, "END", 0)
        /\ \A q \in Sockets, d \in Link : q # s => Same(up[d], up'[d], q)
    BY <1>2, <1>6, <2>0, Told
  <2>2. CASE r # s
    <3>1. \A d \in Link : Same(down[d], down'[d], r) BY <1>1, <1>2, <2>2, TakenDown
    <3> QED BY <1>1, <1>6, <2>1, <2>2, <3>1, Rests
  <2>3. CASE r = s
    <3>1. ASSUME NEW us \in BOOLEAN, NEW ds \in BOOLEAN, NEW ao \in BOOLEAN,
                 Sane(s, sock[s], local[s], up[c], down[c], us, ds, ao)
          PROVE  Sane(s, sock[s], local[s], up'[c], down'[c], us, ds, ao)
      BY <1>2, <1>3, <1>5, <2>1, <3>1, Refused
    <3>2. SameLinks /\ sock' = sock /\ local' = local BY <1>1, <1>6
    <3> QED BY <1>2, <2>3, <3>1, <3>2, Acts
  <2> QED BY <2>2, <2>3
<1>7. CASE local' = [local EXCEPT ![s].state = "connecting", ![s].mapped = TRUE] /\ up' = up
  <2>1. CASE r # s
    <3>1. \A d \in Link : Same(down[d], down'[d], r) /\ Same(up[d], up'[d], r)
      BY <1>1, <1>2, <1>7, <2>1, TakenDown, SameSelf
    <3>2. local'[r] = local[r] BY <1>3, <1>7, <2>1
    <3>3. SameLinks /\ sock' = sock BY <1>1
    <3> QED BY <3>1, <3>2, <3>3, Rests
  <2>2. CASE r = s
    <3>1. /\ local'[s].state = "connecting" /\ local'[s].mapped /\ local'[s].sent = local[s].sent
          /\ local'[s].got = local[s].got
      BY <1>3, <1>7 DEF LocalRec
    <3>2. ASSUME NEW us \in BOOLEAN, NEW ds \in BOOLEAN, NEW ao \in BOOLEAN, ao <=> AgentOn(c),
                 Sane(s, sock[s], local[s], up[c], down[c], us, ds, ao)
          PROVE  Sane(s, sock[s], local'[s], up[c], down'[c], us, ds, ao)
      <4>1. ao BY <1>1, <3>2 DEF AgentOn
      <4>2. Taken(down[c], down'[c], s, "OPEN", n) BY <1>5, <3>2
      <4>3. PICK l \in LocalRec, m \in LocalRec : l = local[s] /\ m = local'[s] BY <1>3
      <4>4. m.state = "connecting" /\ m.mapped /\ m.sent = l.sent /\ m.got = l.got BY <3>1, <4>3
      <4>5. Sane(s, sock[s], l, up[c], down[c], us, ds, ao) BY <3>2, <4>3
      <4>6. PICK k \in SockRec : k = sock[s] BY <1>3
      <4>7. PICK u, d, e : u = up[c] /\ d = down[c] /\ e = down'[c] OBVIOUS
      <4>8. k.on \in Link /\ Sane(s, k, l, u, d, us, ds, ao) /\ Taken(d, e, s, "OPEN", n)
        BY <1>2, <4>2, <4>5, <4>6, <4>7
      <4>9. Sane(s, k, m, u, e, us, ds, ao) BY <4>1, <4>4, <4>8, Accepted, ZenonT(40)
      <4> QED BY <4>3, <4>6, <4>7, <4>9
    <3>3. SameLinks /\ sock' = sock /\ up' = up BY <1>1, <1>7
    <3> QED BY <1>2, <2>2, <3>2, <3>3, Acts
  <2> QED BY <2>1, <2>2
<1> QED BY <1>2, <1>6, <1>7 DEF AgentOpens

(* The agent hears a chunk. *)
LEMMA PipedData ==
  ASSUME Inv, Inv', OneByOne, NEW c \in Link, AgentData(c), \A s \in Sockets : Piped(s), NEW r \in Sockets
  PROVE  Piped(r)'
<1>1. /\ agent[c] = "open" /\ down[c] # <<>> /\ down' = [down EXCEPT ![c] = Tail(@)] /\ SameLinks /\ sock' = sock
      /\ Head(down[c]).type = "DATA" /\ up' = up
  BY DEF AgentData, AgentTakes, wires, SameLinks
<1>2. PICK s \in Sockets : s = Head(down[c]).own /\ sock[s].on = c BY <1>1, AgentFinds
<1>3. /\ local \in [Sockets -> LocalRec] /\ local[s] \in LocalRec /\ sock[s] \in SockRec /\ local'[s] \in LocalRec
  BY DEF Inv, Ranges
<1>4. PICK x : x = <<Head(down[c]).own, Head(down[c]).n>> OBVIOUS
<1>5. ASSUME NEW q \in Sockets
      PROVE  local'[q] = IF local[q].mapped /\ q = s THEN [local[q] EXCEPT !.got = Append(@, x)] ELSE local[q]
  <2>1. q \in LocalNamed(Head(down[c]).id) <=> local[q].mapped /\ q = s BY <1>1, <1>2, AgentFinds
  <2> QED BY <1>4, <2>1 DEF AgentData
<1>6. CASE r # s
  <2>1. \A d \in Link : Same(down[d], down'[d], r) BY <1>1, <1>2, <1>6, TakenDown
  <2>2. local'[r] = local[r] BY <1>5, <1>6
  <2> QED BY <1>1, <2>1, <2>2, SameSelf, Rests
<1>7. CASE r = s
  <2>1. /\ local'[s].state = local[s].state /\ local'[s].mapped = local[s].mapped /\ local'[s].sent = local[s].sent
        /\ local[s].mapped => Len(local'[s].got) = Len(local[s].got) + 1
        /\ ~local[s].mapped => local'[s].got = local[s].got
    <3>1. CASE ~local[s].mapped BY <1>5, <3>1
    <3>2. CASE local[s].mapped
      <4>1. PICK g : g = Append(local[s].got, x) OBVIOUS
      <4>2. Len(g) = Len(local[s].got) + 1 BY <1>3, <4>1 DEF LocalRec, Chunks
      <4>3. local'[s] = [local[s] EXCEPT !.got = g] BY <1>5, <3>2, <4>1
      <4> QED BY <1>3, <3>2, <4>2, <4>3 DEF LocalRec
    <3> QED BY <3>1, <3>2
  <2>2. PICK n : n = Head(down[c]).n OBVIOUS
  <2>3. ASSUME NEW us \in BOOLEAN, NEW ds \in BOOLEAN, NEW ao \in BOOLEAN,
               Sane(s, sock[s], local[s], up[c], down[c], us, ds, ao)
        PROVE  Sane(s, sock[s], local'[s], up[c], down'[c], us, ds, ao)
    <3>1. Orderly(down[c], s) BY <1>2, <2>3 DEF Sane, Downward
    <3>2. Taken(down[c], down'[c], s, "DATA", n) BY <1>1, <1>2, <2>2, <3>1, TakenDown
    <3>3. PICK l \in LocalRec, m \in LocalRec : l = local[s] /\ m = local'[s] BY <1>3
    <3>4. /\ m.state = l.state /\ m.mapped = l.mapped /\ m.sent = l.sent
          /\ l.mapped => Len(m.got) = Len(l.got) + 1
          /\ ~l.mapped => m.got = l.got
      BY <2>1, <3>3
    <3>5. Sane(s, sock[s], l, up[c], down[c], us, ds, ao) BY <2>3, <3>3
    <3>6. Sane(s, sock[s], m, up[c], down'[c], us, ds, ao) BY <1>2, <1>3, <3>2, <3>4, <3>5, Reads
    <3> QED BY <3>3, <3>6
  <2> QED BY <1>1, <1>2, <1>7, <2>3, Acts
<1> QED BY <1>6, <1>7

(* The agent hears that the app is finished with a stream. *)
LEMMA PipedCloses ==
  ASSUME Inv, Inv', OneByOne, NEW c \in Link, AgentCloses(c), \A s \in Sockets : Piped(s), NEW r \in Sockets
  PROVE  Piped(r)'
<1>1. /\ agent[c] = "open" /\ down[c] # <<>> /\ down' = [down EXCEPT ![c] = Tail(@)] /\ SameLinks /\ sock' = sock
      /\ Head(down[c]).type = "END" /\ up' = up
  BY DEF AgentCloses, AgentTakes, wires, SameLinks
<1>2. PICK s \in Sockets : s = Head(down[c]).own /\ sock[s].on = c BY <1>1, AgentFinds
<1>3. /\ local \in [Sockets -> LocalRec] /\ local[s] \in LocalRec /\ sock[s] \in SockRec /\ local'[s] \in LocalRec
  BY DEF Inv, Ranges
<1>4. ASSUME NEW q \in Sockets
      PROVE  local'[q] = IF local[q].mapped /\ q = s THEN [local[q] EXCEPT !.state = "draining", !.mapped = FALSE]
                         ELSE local[q]
  <2>1. q \in LocalNamed(Head(down[c]).id) <=> local[q].mapped /\ q = s BY <1>1, <1>2, AgentFinds
  <2> QED BY <2>1 DEF AgentCloses
<1>5. CASE r # s
  <2>1. \A d \in Link : Same(down[d], down'[d], r) BY <1>1, <1>2, <1>5, TakenDown
  <2>2. local'[r] = local[r] BY <1>4, <1>5
  <2> QED BY <1>1, <2>1, <2>2, SameSelf, Rests
<1>6. CASE r = s
  <2>1. /\ ~local'[s].mapped /\ local'[s].sent = local[s].sent /\ local'[s].got = local[s].got
        /\ local[s].mapped => local'[s].state = "draining"
        /\ ~local[s].mapped => local'[s].state = local[s].state
    BY <1>3, <1>4 DEF LocalRec
  <2>2. PICK n : n = Head(down[c]).n OBVIOUS
  <2>3. ASSUME NEW us \in BOOLEAN, NEW ds \in BOOLEAN, NEW ao \in BOOLEAN,
               Sane(s, sock[s], local[s], up[c], down[c], us, ds, ao)
        PROVE  Sane(s, sock[s], local'[s], up[c], down'[c], us, ds, ao)
    <3>1. Orderly(down[c], s) BY <1>2, <2>3 DEF Sane, Downward
    <3>2. Taken(down[c], down'[c], s, "END", n) BY <1>1, <1>2, <2>2, <3>1, TakenDown
    <3> QED BY <1>2, <1>3, <2>1, <2>3, <3>2, Drains
  <2> QED BY <1>1, <1>2, <1>6, <2>3, Acts
<1> QED BY <1>5, <1>6

-----------------------------------------------------------------------------
(* A WebSocket opens, closes or is lost                                    *)

(* A WebSocket that stays as it is. *)
LEMMA SameLink ==
  ASSUME NEW d, app'[d] = app[d], agent'[d] = agent[d], d \in lost' <=> d \in lost
  PROVE  /\ AgentSends(d)' <=> AgentSends(d)
         /\ AppSends(d)' <=> AppSends(d)
         /\ AgentOn(d)' <=> AgentOn(d)
BY DEF AgentSends, AppSends, AgentOn, Hears

(* The agent connects, or its new WebSocket is refused: no stream is on it. *)
LEMMA PipedConnecting ==
  ASSUME Inv, OneByOne, NEW c \in Link, app[c] \in {"none", "upgrading"},
         \A d \in Link : d # c => agent'[d] = agent[d] /\ app'[d] = app[d],
         NEW r \in Sockets, Piped(r),
         UNCHANGED <<lost, up, down, sock, local>>
  PROVE  Piped(r)'
<1>1. ASSUME NEW d \in Link, sock[r].on = d PROVE Still(r, d)
  <2>1. d # c BY <1>1 DEF OneByOne
  <2>2. app'[d] = app[d] /\ agent'[d] = agent[d] /\ lost' = lost BY <1>1, <2>1
  <2> QED BY <2>2, SameLink, SameSelf DEF Still
<1> QED BY <1>1, Stays

(* The app gives up a WebSocket, and its streams with it. *)
LEMMA PipedDrops ==
  ASSUME Inv, Inv', NEW r \in Sockets, Piped(r), NEW c \in Link, sock' = Failed(c),
         app'[c] \in {"closing", "closed"},
         app[c] # "closed", \A d \in Link : d # c => up'[d] = up[d],
         \A d \in Link : d # c /\ sock[r].on = d => app'[d] = app[d],
         UNCHANGED <<agent, lost, down, local>>
  PROVE  Piped(r)'
<1>0. sock[r] \in SockRec /\ local[r] \in LocalRec /\ sock'[r] \in SockRec BY DEF Inv, Ranges
<1>1. ~AppSends(c)' /\ (AgentSends(c)' => AgentSends(c)) /\ (AgentOn(c)' <=> AgentOn(c))
  BY DEF AppSends, AgentSends, AgentOn, Hears
<1>2. CASE r \in StreamsOf(c)
  <2>1. sock[r].on = c /\ sock'[r] = Dead(r) BY <1>2 DEF StreamsOf, Failed
  <2>2. sock'[r].state = "dead" /\ ~sock'[r].mapped /\ sock'[r].on = c /\ sock'[r].sent = sock[r].sent
    BY <1>0, <2>1 DEF Dead, SockRec
  <2>3. PICK us \in BOOLEAN, ds \in BOOLEAN, ao \in BOOLEAN :
           (ao <=> AgentOn(c)) /\ Sane(r, sock[r], local[r], up[c], down[c], us, ds, ao)
    BY <2>1, Parts
  <2>4. ASSUME NEW vs \in BOOLEAN, NEW es \in BOOLEAN, NEW bo \in BOOLEAN, ~es, bo <=> AgentOn(c)
        PROVE  Sane(r, sock'[r], local[r], up'[c], down[c], vs, es, bo)
    <3>1. bo = ao BY <2>3, <2>4
    <3>2. Same(down[c], down[c], r) BY SameSelf
    <3>3. Sane(r, sock'[r], local[r], up'[c], down[c], vs, es, ao)
      BY <1>0, <2>1, <2>2, <2>3, <2>4, <3>2, Dies
    <3> QED BY <3>1, <3>3
  <2> QED BY <1>1, <2>2, <2>4 DEF Piped
<1>3. CASE r \notin StreamsOf(c)
  <2>1. sock'[r] = sock[r] BY <1>3 DEF Failed
  <2>2. ASSUME NEW d \in Link, sock[r].on = d PROVE Still(r, d)
    <3>1. CASE d = c
      <4>1. ~sock[r].mapped BY <1>3, <2>2, <3>1 DEF StreamsOf
      <4> QED BY <1>1, <3>1, <4>1, SameSelf DEF Still
    <3>2. CASE d # c
      <4>1. app'[d] = app[d] /\ agent' = agent /\ lost' = lost /\ up'[d] = up[d] /\ down' = down BY <2>2, <3>2
      <4> QED BY <4>1, SameLink, SameSelf DEF Still
    <3> QED BY <3>1, <3>2
  <2> QED BY <2>1, <2>2, Stays
<1> QED BY <1>2, <1>3

(* A WebSocket is accepted; the one before it is given up. *)
LEMMA PipedAccept ==
  ASSUME Inv, Inv', OneByOne, NEW c \in Link, Accept(c), NEW r \in Sockets, Piped(r)
  PROVE  Piped(r)'
<1>1. app[c] = "upgrading" /\ agent' = agent /\ UNCHANGED <<lost, up, down, local>> BY DEF Accept
<1>2. sock[r].on # c BY <1>1 DEF OneByOne
<1>3. CASE sock' = sock /\ \A d \in Link : d # c => agent'[d] = agent[d] /\ app'[d] = app[d]
  BY <1>1, <1>3, PipedConnecting
<1>4. CASE /\ live # None /\ sock' = Failed(live)
           /\ app' = [d \in Link |-> IF d = c THEN "open" ELSE IF d = live THEN "closing" ELSE app[d]]
  <2>1. PICK e \in Link : e = live /\ app[e] \in {"open", "closing"} BY <1>4 DEF Inv, Ranges, Held
  <2>2. e # c /\ app'[e] = "closing" BY <1>1, <1>4, <2>1
  <2>3. \A d \in Link : d # e /\ sock[r].on = d => app'[d] = app[d] BY <1>2, <1>4, <2>1
  <2>4. UNCHANGED <<agent, lost, down, local>> /\ up' = up BY <1>1
  <2>5. sock' = Failed(e) BY <1>4, <2>1
  <2>6. app[e] # "closed" BY <2>1
  <2> QED BY <2>2, <2>3, <2>4, <2>5, <2>6, PipedDrops
<1>5. CASE /\ live = None /\ sock' = sock
           /\ app' = [d \in Link |-> IF d = c THEN "open" ELSE IF d = live THEN "closing" ELSE app[d]]
  <2>1. \A d \in Link : d # c => agent'[d] = agent[d] /\ app'[d] = app[d] BY <1>1, <1>5, TunnelAssumption DEF Link
  <2> QED BY <1>3, <1>5, <2>1
<1>6. CASE StillRevoked /\ app' = [app EXCEPT ![c] = "closing"] /\ sock' = sock
  <2>1. \A d \in Link : d # c => agent'[d] = agent[d] /\ app'[d] = app[d] BY <1>1, <1>6 DEF Inv, Ranges
  <2> QED BY <1>3, <1>6, <2>1
<1> QED BY <1>4, <1>5, <1>6 DEF Accept

(* The agent's WebSocket closes, with the streams it lists. *)
LEMMA PipedGone ==
  ASSUME Inv, Inv', OneByOne, NEW c \in Link, AgentGone(c), NEW r \in Sockets, Piped(r)
  PROVE  Piped(r)'
<1>0. sock[r] \in SockRec /\ local[r] \in LocalRec /\ local'[r] \in LocalRec BY DEF Inv, Ranges
<1>1. /\ agent[c] = "open" /\ agent' = [agent EXCEPT ![c] = "closed"] /\ local' = Destroyed
      /\ down' = [down EXCEPT ![c] = <<>>] /\ UNCHANGED <<app, lost, up, sock>>
  BY DEF AgentGone
<1>2. agent'[c] = "closed" /\ down'[c] = <<>> /\ \A d \in Link : d # c => agent'[d] = agent[d] /\ down'[d] = down[d]
  BY <1>1 DEF Inv, Ranges, Wires
<1>3. ~AppSends(c)' /\ ~AgentSends(c)' /\ ~AgentOn(c)' BY <1>2 DEF AppSends, AgentSends, AgentOn, Hears
<1>4. CASE local[r].mapped
  <2>1. sock[r].on = c BY <1>1, <1>4, ListedOn
  <2>2. local'[r] = Shut(r) BY <1>1, <1>4 DEF Destroyed
  <2>3. local'[r].state = "closed" /\ ~local'[r].mapped
           /\ local'[r].sent = local[r].sent /\ local'[r].got = local[r].got
    BY <1>0, <2>2 DEF Shut, LocalRec
  <2>4. PICK us \in BOOLEAN, ds \in BOOLEAN, ao \in BOOLEAN : Sane(r, sock[r], local[r], up[c], down[c], us, ds, ao)
    BY <2>1, Parts
  <2>5. local[r].state # "none" BY <1>4, <2>4 DEF Sane, Paired
  <2>6. ASSUME NEW vs \in BOOLEAN, NEW es \in BOOLEAN, NEW bo \in BOOLEAN, ~es
        PROVE  Sane(r, sock[r], local'[r], up[c], down'[c], vs, es, bo)
    <3>1. Same(up[c], up[c], r) BY SameSelf
    <3> QED BY <1>0, <1>2, <2>3, <2>4, <2>5, <2>6, <3>1, Shuts
  <2>7. sock' = sock /\ up' = up BY <1>1
  <2> QED BY <1>3, <2>1, <2>6, <2>7 DEF Piped
<1>5. CASE ~local[r].mapped
  <2>1. local'[r] = local[r] /\ sock'[r] = sock[r] BY <1>1, <1>5 DEF Destroyed
  <2>2. ASSUME NEW d \in Link, sock[r].on = d PROVE Still(r, d)
    <3>1. CASE d = c BY <1>1, <1>2, <1>3, <1>5, <3>1, SameSelf DEF Still
    <3>2. CASE d # c
      <4>1. app' = app /\ agent'[d] = agent[d] /\ lost' = lost /\ up' = up /\ down'[d] = down[d] BY <1>1, <1>2, <3>2
      <4> QED BY <4>1, SameLink, SameSelf DEF Still
    <3> QED BY <3>1, <3>2
  <2> QED BY <2>1, <2>2, Stays
<1> QED BY <1>4, <1>5

(* The network of a WebSocket is lost. *)
LEMMA PipedLose ==
  ASSUME Inv, NEW c \in Link, Lose(c), NEW r \in Sockets, Piped(r)
  PROVE  Piped(r)'
<1>1. /\ lost' = lost \cup {c} /\ up' = [up EXCEPT ![c] = <<>>] /\ down' = [down EXCEPT ![c] = <<>>]
      /\ UNCHANGED <<app, agent, sock, local>>
  BY DEF Lose
<1>2. /\ up'[c] = <<>> /\ down'[c] = <<>>
      /\ \A d \in Link : d # c => up'[d] = up[d] /\ down'[d] = down[d] /\ (d \in lost' <=> d \in lost)
  BY <1>1 DEF Inv, Wires
<1>3. ~AppSends(c)' /\ ~AgentSends(c)' /\ (AgentOn(c)' <=> AgentOn(c))
  BY <1>1 DEF AppSends, AgentSends, AgentOn, Hears
<1>4. ASSUME NEW d \in Link, sock[r].on = d PROVE Still(r, d)
  <2>1. CASE d = c BY <1>2, <1>3, <2>1 DEF Still
  <2>2. CASE d # c
    <3>1. app' = app /\ agent' = agent /\ (d \in lost' <=> d \in lost) /\ up'[d] = up[d] /\ down'[d] = down[d]
      BY <1>1, <1>2, <2>2
    <3> QED BY <3>1, SameLink, SameSelf DEF Still
  <2> QED BY <2>1, <2>2
<1>5. sock' = sock /\ local' = local BY <1>1
<1> QED BY <1>4, <1>5, Stays

(* Every step at the WebSockets. *)
LEMMA PipedLinks ==
  ASSUME Inv, Inv', OneByOne, NEW c \in Link,
         AgentConnects(c) \/ Accept(c) \/ AppGone(c) \/ AgentNotices(c) \/ AgentLeaves(c) \/ Lose(c) \/ Revoke,
         NEW r \in Sockets, Piped(r)
  PROVE  Piped(r)'
<1>1. CASE AgentConnects(c)
  <2>1. app[c] = "none" BY <1>1 DEF AgentConnects, Inv, Held
  <2>2. \A d \in Link : d # c => agent'[d] = agent[d] /\ app'[d] = app[d] BY <1>1 DEF AgentConnects, Inv, Ranges
  <2>3. UNCHANGED <<lost, up, down, sock, local>> BY <1>1 DEF AgentConnects
  <2> QED BY <2>1, <2>2, <2>3, PipedConnecting
<1>2. CASE AppGone(c)
  <2>1. /\ sock' = Failed(c) /\ app[c] # "closed" /\ app'[c] = "closed" /\ up'[c] = <<>>
        /\ \A d \in Link : d # c => up'[d] = up[d] /\ app'[d] = app[d]
        /\ UNCHANGED <<agent, lost, down, local>>
    BY <1>2 DEF AppGone, Inv, Ranges, Wires
  <2> QED BY <2>1, PipedDrops
<1>3. CASE Revoke
  <2>1. UNCHANGED <<agent, lost, up, down, local>> BY <1>3 DEF Revoke
  <2>2. CASE live = None
    <3>1. app' = app /\ sock' = sock BY <1>3, <2>2 DEF Revoke
    <3>2. SameLinks BY <2>1, <3>1 DEF SameLinks
    <3> QED BY <2>1, <3>1, <3>2, SameSelf, Rests
  <2>3. CASE live # None
    <3>1. PICK e \in Link : e = live /\ app[e] \in {"open", "closing"} BY <2>3 DEF Inv, Ranges, Held
    <3>2. sock' = Failed(e) /\ app' = [app EXCEPT ![e] = "closing"] BY <1>3, <2>3, <3>1 DEF Revoke
    <3>3. app'[e] = "closing" /\ \A d \in Link : d # e => app'[d] = app[d] BY <3>2 DEF Inv, Ranges
    <3> QED BY <2>1, <3>1, <3>2, <3>3, PipedDrops
  <2> QED BY <2>2, <2>3
<1> QED BY <1>1, <1>2, <1>3, PipedAccept, PipedGone, PipedLose DEF AgentNotices, AgentLeaves

(* Every step of a stream. *)
LEMMA PipedStreams ==
  ASSUME Inv, Inv', NEW s \in Sockets, \A q \in Sockets : Piped(q),
         Start(s) \/ Ends(s) \/ AppWrites(s) \/ LocalEnds(s) \/ LocalConnects(s) \/ LocalSends(s) \/ LocalDrained(s),
         NEW r \in Sockets
  PROVE  Piped(r)'
BY PipedStart, PipedEnds, PipedWrites, PipedLocalEnds, PipedConnects, PipedSends

-----------------------------------------------------------------------------
(* The agent's turn                                                        *)

(* No frame on its way to the app is out of turn. *)
LEMMA InTurn ==
  ASSUME Inv, \A q \in Sockets : Piped(q), NEW c \in Link, up[c] # <<>>
  PROVE  ~OutOfTurn(c)
<1> SUFFICES ASSUME NEW s \in Named(c, Head(up[c]).id),
                    \/ Head(up[c]).type = "OPENED" /\ sock[s].state # "connecting"
                    \/ Head(up[c]).type = "DATA" /\ sock[s].state = "connecting"
             PROVE  FALSE
  BY DEF OutOfTurn
<1>1. s \in Sockets /\ s = Head(up[c]).own /\ sock[s].on = c /\ sock[s].mapped BY ForOwn
<1>2. PICK us \in BOOLEAN, ds \in BOOLEAN, ao \in BOOLEAN : Sane(s, sock[s], local[s], up[c], down[c], us, ds, ao)
  BY <1>1, Parts
<1>3. Upward(s, sock[s], local[s], up[c], down[c], us) BY <1>1, <1>2 DEF Sane
<1>4. up[c] \in Seq(Frames) /\ Orderly(up[c], s) BY <1>3 DEF Inv, Wires, Upward
<1>5. /\ Has(up[c], s, Head(up[c]).type)
      /\ Head(up[c]).type = "DATA" => ~Has(up[c], s, "OPENED")
  BY <1>1, <1>4, HeadFirst
<1> QED BY <1>3, <1>5 DEF Upward

(* Every frame that arrives, at either end. *)
LEMMA PipedArrives ==
  ASSUME Inv, Inv', OneByOne, \A q \in Sockets : Piped(q), NEW c \in Link,
         Arrives(c) \/ AgentReads(c), NEW r \in Sockets
  PROVE  Piped(r)'
<1>1. ~ProtocolViolation(c) BY InTurn DEF ProtocolViolation, Takes
<1> QED BY <1>1, PipedOpened, PipedReceived, PipedRemoteEnds, PipedIgnored, PipedOpens, PipedData, PipedCloses
        DEF Arrives, AgentReads

-----------------------------------------------------------------------------
(* Room at the agent                                                       *)

(* Once q has become p, an OPEN of s is no less far ahead: only what is     *)
(* behind it came.                                                          *)
Nearer(q, p, s) ==
    Has(p, s, "OPEN") => Has(q, s, "OPEN") /\ \A x, t : Ahead(p, s, x, t) <=> Ahead(q, s, x, t)

(* Frames that ask for no stream are added. *)
LEMMA NearerSent ==
  ASSUME NEW q \in Seq(Frames), NEW r \in Seq(Frames), NEW s, ~Has(r, s, "OPEN")
  PROVE  Nearer(q, Then(q, r), s)
<1>1. \A j : j \in At(Then(q, r), s, "OPEN") <=> j \in At(q, s, "OPEN")
  <2>1. \A j \in At(q, s, "OPEN") : j \in At(Then(q, r), s, "OPEN") BY OldAt
  <2>2. \A j \in At(Then(q, r), s, "OPEN") : j \in At(q, s, "OPEN") BY AddedAt DEF Has
  <2> QED BY <2>1, <2>2
<1>2. ASSUME NEW x, NEW t, Ahead(Then(q, r), s, x, t) PROVE Ahead(q, s, x, t)
  <2>1. PICK i \in At(Then(q, r), x, t), j \in At(Then(q, r), s, "OPEN") : i < j BY <1>2 DEF Ahead
  <2>2. j \in At(q, s, "OPEN") BY <1>1
  <2>3. j <= Len(q) /\ j \in Nat /\ Len(q) \in Nat BY <2>2 DEF At
  <2>4. i \in Nat /\ (i \in At(q, x, t) \/ i > Len(q)) BY AddedAt
  <2>5. i \in At(q, x, t) BY <2>1, <2>3, <2>4
  <2> QED BY <2>1, <2>2, <2>5 DEF Ahead
<1>3. ASSUME NEW x, NEW t, Ahead(q, s, x, t) PROVE Ahead(Then(q, r), s, x, t)
  <2>1. PICK i \in At(q, x, t), j \in At(q, s, "OPEN") : i < j BY <1>3 DEF Ahead
  <2>2. i \in At(Then(q, r), x, t) /\ j \in At(Then(q, r), s, "OPEN") BY OldAt
  <2> QED BY <2>1, <2>2 DEF Ahead
<1> QED BY <1>1, <1>2, <1>3 DEF Nearer, Has

(* A queue that stays, or is lost. *)
LEMMA NearerStill ==
  ASSUME NEW q, NEW s
  PROVE  Nearer(q, q, s) /\ Nearer(q, <<>>, s)
BY NoneHas DEF Nearer

(* The first frame is taken. *)
LEMMA AheadTaken ==
  ASSUME NEW q \in Seq(Frames), q # <<>>, NEW s
  PROVE  /\ Has(Tail(q), s, "OPEN") => Has(q, s, "OPEN") /\ Ahead(q, s, Head(q).own, Head(q).type)
         /\ \A x, t : Ahead(Tail(q), s, x, t) => Ahead(q, s, x, t)
         /\ \A x, t : Ahead(q, s, x, t) => Ahead(Tail(q), s, x, t) \/ (Head(q).own = x /\ Head(q).type = t)
<1>1. ASSUME Has(Tail(q), s, "OPEN") PROVE Has(q, s, "OPEN") /\ Ahead(q, s, Head(q).own, Head(q).type)
  <2>1. PICK j \in At(Tail(q), s, "OPEN") : TRUE BY <1>1 DEF Has
  <2>2. j + 1 \in At(q, s, "OPEN") /\ j \in Nat /\ j > 0 BY TailAt
  <2>3. 1 \in At(q, Head(q).own, Head(q).type) BY HeadAt
  <2>4. 1 < j + 1 BY <2>2
  <2> QED BY <2>2, <2>3, <2>4 DEF Has, Ahead
<1>2. ASSUME NEW x, NEW t, Ahead(Tail(q), s, x, t) PROVE Ahead(q, s, x, t)
  <2>1. PICK i \in At(Tail(q), x, t), j \in At(Tail(q), s, "OPEN") : i < j BY <1>2 DEF Ahead
  <2>2. i + 1 \in At(q, x, t) /\ i \in Nat BY TailAt
  <2>3. j + 1 \in At(q, s, "OPEN") /\ j \in Nat BY TailAt
  <2>4. i + 1 < j + 1 BY <2>1, <2>2, <2>3
  <2> QED BY <2>2, <2>3, <2>4 DEF Ahead
<1>3. ASSUME NEW x, NEW t, Ahead(q, s, x, t) PROVE Ahead(Tail(q), s, x, t) \/ (Head(q).own = x /\ Head(q).type = t)
  <2>1. PICK i \in At(q, x, t), j \in At(q, s, "OPEN") : i < j BY <1>3 DEF Ahead
  <2>2. CASE i = 1 BY <2>1, <2>2, HeadAt
  <2>3. CASE i # 1
    <3>1. i - 1 \in At(Tail(q), x, t) /\ i \in Nat /\ i > 1 BY <2>3, NowAt
    <3>2. j # 1 /\ j \in Nat BY <2>1, <3>1 DEF At
    <3>3. j - 1 \in At(Tail(q), s, "OPEN") BY <3>2, NowAt
    <3>4. i - 1 < j - 1 BY <2>1, <3>1, <3>2
    <3> QED BY <3>1, <3>3, <3>4 DEF Ahead
  <2> QED BY <2>2, <2>3
<1> QED BY <1>1, <1>2, <1>3

(* Fewer streams fill no more room. *)
LEMMA FewerRoom ==
  ASSUME Inv, NEW A, NEW B, A \subseteq B, B \subseteq Sockets, Cardinality(B) < limit
  PROVE  Cardinality(A) < limit
<1>1. IsFiniteSet(Sockets) BY FS_Interval, TunnelAssumption DEF Sockets
<1>2. IsFiniteSet(B) BY <1>1, FS_Subset
<1>3. Cardinality(A) <= Cardinality(B) /\ IsFiniteSet(A) BY <1>2, FS_Subset
<1>4. limit \in Nat BY TunnelAssumption DEF Inv, Ranges
<1>5. Cardinality(A) \in Nat /\ Cardinality(B) \in Nat BY <1>2, <1>3, FS_CardinalityType
<1> QED BY <1>3, <1>4, <1>5

(* No stream is before the OPEN of another that was not before it. *)
LEMMA RoomKept ==
  ASSUME Inv, Room, limit' = limit,
         \A c \in Link, s \in Sockets : Has(down'[c], s, "OPEN") => Has(down[c], s, "OPEN")
                     /\ Before(c, s)' \subseteq Before(c, s)
  PROVE  Room'
<1> SUFFICES ASSUME NEW c \in Link, NEW s \in Sockets, Has(down'[c], s, "OPEN")
             PROVE  Cardinality(Before(c, s)') < limit
  BY DEF Room
<1>1. Cardinality(Before(c, s)) < limit BY DEF Room
<1>2. Before(c, s) \subseteq Sockets BY DEF Before
<1> QED BY <1>1, <1>2, FewerRoom

(* Nothing is taken and no stream is asked for. *)
LEMMA RoomStays ==
  ASSUME Inv, Room, limit' = limit, \A r \in Sockets : local'[r].mapped => local[r].mapped,
         \A c \in Link, s \in Sockets : Nearer(down[c], down'[c], s)
  PROVE  Room'
<1>1. ASSUME NEW c \in Link, NEW s \in Sockets, Has(down'[c], s, "OPEN")
      PROVE  Has(down[c], s, "OPEN") /\ Before(c, s)' \subseteq Before(c, s)
  <2>1. Has(down[c], s, "OPEN") /\ \A x, t : Ahead(down'[c], s, x, t) <=> Ahead(down[c], s, x, t)
    BY <1>1 DEF Nearer
  <2> QED BY <2>1 DEF Before
<1> QED BY <1>1, RoomKept

(* A frame that asks for no stream is sent. *)
LEMMA NearerTold ==
  ASSUME Inv, NEW s \in Sockets, NEW fs \in Seq(Frames), \A i \in 1 .. Len(fs) : fs[i].type # "OPEN",
         NEW c \in Link, NEW d \in Link
  PROVE  Nearer(down[d], ToAgent(c, fs)[d], s)
<1>1. down[d] \in Seq(Frames) /\ down \in [Link -> Seq(Frames)] BY DEF Inv, Wires
<1>2. ToAgent(c, fs)[d] = IF d = c /\ AppSends(c) THEN Then(down[d], fs) ELSE down[d]
  BY <1>1 DEF ToAgent, AppSends, Then
<1>3. ~Has(fs, s, "OPEN") BY DEF Has, At
<1> QED BY <1>1, <1>2, <1>3, NearerSent, NearerStill

(* One such frame. *)
LEMMA NearerOne ==
  ASSUME Inv, NEW s \in Sockets, NEW f \in Frames, f.type # "OPEN", NEW c \in Link, NEW d \in Link
  PROVE  Nearer(down[d], ToAgent(c, <<f>>)[d], s)
<1>1. PICK fs \in Seq(Frames) : fs = <<f>> BY OneHas
<1>2. \A i \in 1 .. Len(fs) : fs[i].type # "OPEN" BY <1>1
<1>3. Nearer(down[d], ToAgent(c, fs)[d], s) BY <1>2, NearerTold
<1> QED BY <1>1, <1>3

(* A stream is asked for: the agent will carry, before it, streams that the *)
(* app counts.                                                              *)
LEMMA RoomAsked ==
  ASSUME Inv, OneByOne, Room, \A q \in Sockets : Piped(q), NEW s \in Sockets, sock[s].state = "new",
         NEW c \in Link, Cardinality(StreamsOf(c)) < limit, limit' = limit, local' = local,
         NEW f \in Frames, f.own = s, f.type = "OPEN", down' = ToAgent(c, <<f>>)
  PROVE  Room'
<1>1. PICK fs \in Seq(Frames) : fs = <<f>> /\ Len(fs) = 1 /\ fs[1] = f BY OneHas
<1>2. down[c] \in Seq(Frames) /\ down \in [Link -> Seq(Frames)] BY DEF Inv, Wires
<1>3. \A d \in Link : down'[d] = IF d = c /\ AppSends(c) THEN Then(down[d], fs) ELSE down[d]
  BY <1>1, <1>2 DEF ToAgent, AppSends, Then
<1>4. sock[s].on \notin Link BY TunnelAssumption DEF Inv, Numbered, Link
<1>5. \A t : ~Has(down[c], s, t) BY <1>4, NoFrames
<1>6. ~local[s].mapped BY <1>4, Placed DEF Paired
<1>7. \A r, t : At(fs, r, t) = IF r = s /\ t = "OPEN" THEN {1} ELSE {} BY <1>1 DEF At
<1>8. ASSUME AppSends(c), NEW r \in Sockets, r \in Before(c, s)' PROVE r \in StreamsOf(c)
  <2>1. down'[c] = Then(down[c], fs) BY <1>3, <1>8
  <2>2. PICK p \in Seq(Frames) : p = Then(down[c], fs) BY <1>2, Longer
  <2>3. (local[r].mapped \/ Ahead(p, s, r, "OPEN")) /\ ~Ahead(p, s, r, "END")
    BY <1>8, <2>1, <2>2 DEF Before
  <2>4. At(p, s, "OPEN") = {Len(down[c]) + 1}
    <3>1. 1 \in At(fs, s, "OPEN") BY <1>7
    <3>2. Len(down[c]) + 1 \in At(p, s, "OPEN") BY <2>2, <3>1, <1>2, NewAt
    <3>3. ASSUME NEW j \in At(p, s, "OPEN") PROVE j = Len(down[c]) + 1
      <4>1. j \in Nat /\ Len(down[c]) \in Nat
            /\ (j \in At(down[c], s, "OPEN") \/ j - Len(down[c]) \in At(fs, s, "OPEN"))
        BY <1>2, <2>2, AddedAt
      <4>2. j - Len(down[c]) = 1 BY <1>5, <1>7, <4>1 DEF Has
      <4> QED BY <4>1, <4>2
    <3> QED BY <3>2, <3>3
  <2>5. Len(down[c]) \in Nat /\ Len(down[c]) + 1 \in At(p, s, "OPEN") BY <1>2, <2>4
  <2>6. ASSUME NEW t, NEW i \in At(down[c], r, t) PROVE Ahead(p, s, r, t)
    <3>1. i \in At(p, r, t) BY <1>2, <2>2, OldAt
    <3>2. i < Len(down[c]) + 1 BY <2>5 DEF At
    <3> QED BY <2>5, <3>1, <3>2 DEF Ahead
  <2>7. ~Has(down[c], r, "END") BY <2>3, <2>6 DEF Has
  <2>8. Ahead(p, s, r, "OPEN") => Has(down[c], r, "OPEN")
    <3> SUFFICES ASSUME NEW i \in At(p, r, "OPEN"), NEW j \in At(p, s, "OPEN"), i < j PROVE Has(down[c], r, "OPEN")
      BY DEF Ahead
    <3>1. j = Len(down[c]) + 1 BY <2>4
    <3>2. i \in Nat /\ (i \in At(down[c], r, "OPEN") \/ (i - Len(down[c]) \in At(fs, r, "OPEN") /\ i > Len(down[c])))
      BY <1>2, <2>2, AddedAt
    <3>3. i \in At(down[c], r, "OPEN") BY <2>5, <3>1, <3>2
    <3> QED BY <3>3 DEF Has
  <2>9. local[r].mapped \/ Has(down[c], r, "OPEN") BY <2>3, <2>8
  <2>10. agent[c] = "open" BY <1>8 DEF AppSends, Hears, Inv, Held, Ranges
  <2>11. sock[r].on = c BY <2>9, <2>10, ListedOn, NoFrames
  <2>12. PICK us \in BOOLEAN, ds \in BOOLEAN, ao \in BOOLEAN :
            (ds <=> AppSends(c)) /\ Sane(r, sock[r], local[r], up[c], down[c], us, ds, ao)
    BY <2>11, Parts
  <2>13. Downward(r, sock[r], local[r], down[c], ds) BY <2>11, <2>12 DEF Sane
  <2>14. sock[r].mapped BY <1>8, <2>7, <2>9, <2>12, <2>13 DEF Downward
  <2> QED BY <2>11, <2>14 DEF StreamsOf
<1>9. SUFFICES ASSUME NEW d \in Link, NEW r \in Sockets, Has(down'[d], r, "OPEN")
               PROVE  Cardinality(Before(d, r)') < limit
  BY DEF Room
<1>10. CASE d = c /\ r = s /\ AppSends(c)
  <2>1. Before(c, s)' \subseteq StreamsOf(c) BY <1>8, <1>10 DEF Before
  <2>2. StreamsOf(c) \subseteq Sockets BY DEF StreamsOf
  <2> QED BY <1>10, <2>1, <2>2, FewerRoom
<1>11. CASE ~(d = c /\ r = s /\ AppSends(c))
  <2>1. Nearer(down[d], down'[d], r)
    <3>1. CASE d = c /\ AppSends(c)
      <4>1. ~Has(fs, r, "OPEN") BY <1>7, <1>11, <3>1 DEF Has
      <4> QED BY <1>2, <1>3, <3>1, <4>1, NearerSent
    <3>2. CASE ~(d = c /\ AppSends(c)) BY <1>3, <3>2, NearerStill
    <3> QED BY <3>1, <3>2
  <2>2. Has(down[d], r, "OPEN") /\ \A x, t : Ahead(down'[d], r, x, t) <=> Ahead(down[d], r, x, t)
    BY <1>9, <2>1 DEF Nearer
  <2>3. Before(d, r)' \subseteq Before(d, r) /\ Before(d, r) \subseteq Sockets BY <2>2 DEF Before
  <2>4. Cardinality(Before(d, r)) < limit BY <2>2 DEF Room
  <2> QED BY <2>3, <2>4, FewerRoom
<1> QED BY <1>10, <1>11

(* Steps of streams. *)
LEMMA RoomStreams ==
  ASSUME Inv, Inv', OneByOne, Room, \A q \in Sockets : Piped(q), NEW s \in Sockets,
         Start(s) \/ Ends(s) \/ AppWrites(s) \/ LocalEnds(s) \/ LocalConnects(s) \/ LocalSends(s) \/ LocalDrained(s)
  PROVE  Room'
<1>1. limit' = limit BY DEF Start, Ends, AppWrites, LocalEnds, LocalConnects, LocalSends, LocalDrained, wires
<1>2. \A r \in Sockets : local'[r].mapped => local[r].mapped
  <2>1. local \in [Sockets -> LocalRec] /\ local[s] \in LocalRec BY DEF Inv, Ranges
  <2>2. CASE local' = local BY <2>2
  <2>3. CASE local' = [local EXCEPT ![s] = Shut(s)] BY <2>1, <2>3 DEF Shut, LocalRec
  <2>4. CASE LocalConnects(s) BY <2>1, <2>4 DEF LocalConnects, LocalRec
  <2>5. CASE LocalSends(s) BY <2>1, <2>5 DEF LocalSends, LocalRec
  <2> QED BY <2>2, <2>3, <2>4, <2>5 DEF Start, Ends, AppWrites, LocalEnds, LocalDrained
<1>3. CASE down' = down
  <2>1. \A c \in Link, q \in Sockets : Nearer(down[c], down'[c], q) BY <1>3, NearerStill
  <2> QED BY <1>1, <1>2, <2>1, RoomStays
<1>4. CASE Ends(s) \/ AppWrites(s)
  <2>1. PICK n \in 0 .. MaxSent, t \in {"DATA", "END"} : down' \in {down, ToAgent(sock[s].on, <<Frame(t, s, n)>>)}
    <3>1. sock[s] \in SockRec BY DEF Inv, Ranges
    <3>2. 0 \in 0 .. MaxSent /\ (sock[s].sent < MaxSent => sock[s].sent + 1 \in 0 .. MaxSent)
      BY <3>1, TunnelAssumption DEF SockRec
    <3> QED BY <1>4, <3>2 DEF Ends, AppWrites
  <2>2. PICK f \in Frames : f = Frame(t, s, n) /\ f.type # "OPEN" BY Framed
  <2>3. sock[s].on \in Link BY <1>4, Placed DEF Ends, AppWrites, Paired
  <2>4. \A c \in Link, q \in Sockets : Nearer(down[c], down'[c], q) BY <2>1, <2>2, <2>3, NearerStill, NearerOne
  <2> QED BY <1>1, <1>2, <2>4, RoomStays
<1> DEFINE g == [type |-> "OPEN", id |-> next[live], own |-> s, n |-> 0]
<1>5. CASE /\ Start(s) /\ live # None /\ Cardinality(StreamsOf(live)) < limit
           /\ down' = ToAgent(live, <<g>>)
  <2>1. PICK c \in Link : c = live BY <1>5 DEF Inv, Ranges
  <2>2. PICK f \in Frames : f = g /\ f.own = s /\ f.type = "OPEN"
    <3>1. next[live] \in Nat BY <2>1 DEF Inv, Ranges
    <3>2. g \in Frames BY <3>1, TunnelAssumption DEF Frames
    <3>3. g.own = s /\ g.type = "OPEN" OBVIOUS
    <3> HIDE DEF g
    <3> QED BY <3>2, <3>3
  <2>3. down' = ToAgent(c, <<f>>) /\ Cardinality(StreamsOf(c)) < limit BY <1>5, <2>1, <2>2
  <2>4. sock[s].state = "new" /\ local' = local BY <1>5 DEF Start
  <2> QED BY <1>1, <2>2, <2>3, <2>4, RoomAsked
<1> QED BY <1>3, <1>4, <1>5 DEF Start, LocalEnds, LocalConnects, LocalSends, LocalDrained

(* A frame arrives at the app, or a WebSocket opens or closes. *)
LEMMA RoomLinks ==
  ASSUME Inv, Inv', Room, NEW c \in Link,
         \/ Arrives(c) \/ AgentConnects(c) \/ Accept(c) \/ AppGone(c)
         \/ AgentNotices(c) \/ AgentLeaves(c) \/ Lose(c) \/ Revoke
  PROVE  Room'
<1>1. limit' = limit
  BY DEF Arrives, Ignored, Opened, Received, RemoteEnds, ProtocolViolation, Takes, AgentConnects, Accept, AppGone,
         AgentNotices, AgentLeaves, AgentGone, Lose, Revoke
<1>2. \A r \in Sockets : local'[r].mapped => local[r].mapped
  <2>1. CASE local' = local BY <2>1
  <2>2. CASE AgentGone(c)
    <3>1. \A r \in Sockets : local[r] \in LocalRec BY DEF Inv, Ranges
    <3> QED BY <2>2, <3>1 DEF AgentGone, Destroyed, Shut, LocalRec
  <2> QED BY <2>1, <2>2 DEF Arrives, Ignored, Opened, Received, RemoteEnds, ProtocolViolation, Takes, AgentConnects,
             Accept, AppGone, AgentNotices, AgentLeaves, Lose, Revoke
<1>3. ASSUME NEW d \in Link, NEW q \in Sockets PROVE Nearer(down[d], down'[d], q)
  <2>1. CASE down' = down BY <2>1, NearerStill
  <2>2. CASE down' = [down EXCEPT ![c] = <<>>]
    <3>1. down'[d] = down[d] \/ down'[d] = <<>> BY <2>2 DEF Inv, Wires
    <3> QED BY <3>1, NearerStill
  <2>3. CASE Opened(c)
    <3>1. up[c] # <<>> BY <2>3 DEF Opened, Takes
    <3>2. PICK s \in Named(c, Head(up[c]).id) :
            down' = ToAgent(c, [i \in 1 .. sock[s].sent |-> Frame("DATA", s, i)])
      BY <2>3 DEF Opened
    <3>3. s \in Sockets BY <3>1, ForOwn
    <3>4. PICK fs : fs = Backlog(s) OBVIOUS
    <3>5. fs \in Seq(Frames) BY <3>3, <3>4, Kept
    <3>6. \A i \in 1 .. Len(fs) : fs[i].type # "OPEN" BY <3>3, <3>4, Kept
    <3>7. down' = ToAgent(c, fs) BY <3>2, <3>4 DEF Backlog
    <3> QED BY <3>5, <3>6, <3>7, NearerTold
  <2> QED BY <2>1, <2>2, <2>3 DEF Arrives, Ignored, Received, RemoteEnds, ProtocolViolation, AgentConnects, Accept,
             AppGone, AgentNotices, AgentLeaves, AgentGone, Lose, Revoke
<1> QED BY <1>1, <1>2, <1>3, RoomStays

(* The agent reads a frame. *)
LEMMA RoomReads ==
  ASSUME Inv, Inv', OneByOne, Room, \A q \in Sockets : Piped(q), NEW c \in Link, AgentReads(c)
  PROVE  Room'
<1>1. /\ limit' = limit /\ agent[c] = "open" /\ down[c] # <<>> /\ down' = [down EXCEPT ![c] = Tail(@)]
      /\ down \in [Link -> Seq(Frames)] /\ local \in [Sockets -> LocalRec]
  BY DEF AgentReads, AgentOpens, AgentData, AgentCloses, AgentTakes, wires, Inv, Wires, Ranges
<1>2. PICK q \in Seq(Frames) : q = down[c] /\ q # <<>> /\ down'[c] = Tail(q) BY <1>1
<1>3. PICK o \in Sockets : o = Head(q).own /\ sock[o].on = c BY <1>1, <1>2, AgentFinds
<1>4. \A r \in Sockets : r \in LocalNamed(Head(q).id) <=> local[r].mapped /\ r = o
  BY <1>1, <1>2, <1>3, AgentFinds
<1>5. ASSUME NEW r \in Sockets, local'[r].mapped, ~local[r].mapped PROVE r = o /\ Head(q).type = "OPEN"
  <2>1. CASE AgentOpens(c) BY <1>1, <1>2, <1>3, <1>5, <2>1 DEF AgentOpens
  <2>2. CASE AgentData(c) BY <1>1, <1>2, <1>5, <2>2 DEF AgentData, LocalRec
  <2>3. CASE AgentCloses(c) BY <1>1, <1>2, <1>5, <2>3 DEF AgentCloses, LocalRec
  <2> QED BY <2>1, <2>2, <2>3 DEF AgentReads
<1>6. ASSUME Head(q).type = "END" PROVE ~local'[o].mapped /\ ~Has(q, o, "OPEN")
  <2>1. AgentCloses(c) BY <1>2, <1>6 DEF AgentReads, AgentOpens, AgentData
  <2>2. ~local'[o].mapped
    <3>1. CASE local[o].mapped BY <1>1, <1>2, <1>4, <2>1, <3>1 DEF AgentCloses, LocalRec
    <3>2. CASE ~local[o].mapped BY <1>5, <1>6, <3>2
    <3> QED BY <3>1, <3>2
  <2>3. PICK us \in BOOLEAN, ds \in BOOLEAN, ao \in BOOLEAN : Sane(o, sock[o], local[o], up[c], q, us, ds, ao)
    BY <1>2, <1>3, Parts
  <2>4. Orderly(q, o) BY <1>3, <2>3 DEF Sane, Downward
  <2>5. ~Has(q, o, "OPEN") BY <1>2, <1>3, <1>6, <2>4, HeadFirst
  <2> QED BY <2>2, <2>5
<1>7. ASSUME NEW d \in Link, NEW s \in Sockets, Has(down'[d], s, "OPEN")
      PROVE  Has(down[d], s, "OPEN") /\ Before(d, s)' \subseteq Before(d, s)
  <2>1. CASE d # c
    <3>1. down'[d] = down[d] BY <1>1, <2>1
    <3>2. agent[d] # "open" BY <1>1, <2>1, OneOpen
    <3>3. down'[d] = <<>> BY <3>1, <3>2 DEF OneByOne
    <3> QED BY <1>7, <3>3, NoneHas
  <2>2. CASE d = c
    <3>1. Has(Tail(q), s, "OPEN") BY <1>2, <1>7, <2>2
    <3>2. Has(q, s, "OPEN") /\ Ahead(q, s, o, Head(q).type) BY <1>2, <1>3, <3>1, AheadTaken
    <3>3. ASSUME NEW r \in Sockets, r \in Before(d, s)' PROVE r \in Before(d, s)
      <4>1. (local'[r].mapped \/ Ahead(Tail(q), s, r, "OPEN")) /\ ~Ahead(Tail(q), s, r, "END")
        BY <1>2, <2>2, <3>3 DEF Before
      <4>2. Ahead(Tail(q), s, r, "OPEN") => Ahead(q, s, r, "OPEN") BY <1>2, AheadTaken
      <4>3. local[r].mapped \/ Ahead(q, s, r, "OPEN") BY <1>5, <3>2, <4>1, <4>2
      <4>4. Ahead(q, s, r, "END") => r = o /\ Head(q).type = "END" BY <1>2, <1>3, <4>1, AheadTaken
      <4>5. ~(r = o /\ Head(q).type = "END")
        <5>1. Ahead(q, s, o, "OPEN") => Has(q, o, "OPEN") BY DEF Ahead, Has
        <5> QED BY <1>6, <4>1, <4>2, <5>1
      <4> QED BY <1>2, <2>2, <4>3, <4>4, <4>5 DEF Before
    <3> QED BY <1>2, <2>2, <3>2, <3>3 DEF Before
  <2> QED BY <2>1, <2>2
<1> QED BY <1>1, <1>7, RoomKept

-----------------------------------------------------------------------------

(* At the start nothing is on its way. *)
LEMMA FairFirst == Init => Fair
<1> SUFFICES ASSUME Init PROVE Room /\ \A s \in Sockets : Piped(s)
  BY DEF Fair
<1>1. \A c \in Link : down[c] = <<>> BY DEF Init
<1>2. Room BY <1>1, NoneHas DEF Room
<1>3. ASSUME NEW s \in Sockets PROVE Piped(s)
  <2>1. sock[s] = NewSocket /\ local[s] = NoLocal BY DEF Init
  <2>2. NewSocket.on \notin Link BY TunnelAssumption DEF NewSocket, Link
  <2>3. \A us, ds, ao \in BOOLEAN : Sane(s, NewSocket, NoLocal, up[NewSocket.on], down[NewSocket.on], us, ds, ao)
    BY <2>2 DEF Sane, Paired, NewSocket, NoLocal
  <2> QED BY <2>1, <2>3 DEF Piped
<1> QED BY <1>2, <1>3

(* While the agent is this program every stream stays sane, and finds room. *)
LEMMA FairNext == Inv /\ Inv' /\ OneByOne /\ Fair /\ [Next]_vars => Fair'
<1> SUFFICES ASSUME Inv, Inv', OneByOne, Fair, [Next]_vars, honest'
             PROVE  Room' /\ \A r \in Sockets : Piped(r)'
  BY DEF Fair
<1>1. CASE UNCHANGED vars
  <2>1. honest BY <1>1 DEF vars
  <2>2. Room /\ \A r \in Sockets : Piped(r) BY <2>1 DEF Fair
  <2>3. SameLinks /\ UNCHANGED <<limit, up, down, sock, local>> BY <1>1 DEF vars, SameLinks
  <2>4. \A r \in Sockets : Piped(r)' BY <2>2, <2>3, SameSelf, Rests
  <2>5. Room' BY <2>2, <2>3, NearerStill, RoomStays
  <2> QED BY <2>4, <2>5
<1>2. ASSUME NEW s \in Sockets,
             \/ Start(s) \/ AppEnds(s) \/ OpenTimeout(s) \/ AppWrites(s)
             \/ LocalEnds(s) \/ LocalConnects(s) \/ LocalSends(s) \/ LocalDrained(s)
      PROVE  Room' /\ \A r \in Sockets : Piped(r)'
  <2>1. Start(s) \/ Ends(s) \/ AppWrites(s) \/ LocalEnds(s) \/ LocalConnects(s) \/ LocalSends(s) \/ LocalDrained(s)
    BY <1>2 DEF AppEnds, OpenTimeout
  <2>2. honest BY <2>1 DEF Start, Ends, AppWrites, LocalEnds, LocalConnects, LocalSends, LocalDrained, wires
  <2>3. Room /\ \A r \in Sockets : Piped(r) BY <2>2 DEF Fair
  <2> QED BY <2>1, <2>3, PipedStreams, RoomStreams
<1>3. ASSUME NEW c \in Link, Arrives(c) \/ AgentReads(c)
      PROVE  Room' /\ \A r \in Sockets : Piped(r)'
  <2>1. honest
    BY <1>3 DEF Arrives, Ignored, Opened, Received, RemoteEnds, ProtocolViolation, Takes, AgentReads, AgentOpens,
                AgentData, AgentCloses, AgentTakes, wires
  <2>2. Room /\ \A r \in Sockets : Piped(r) BY <2>1 DEF Fair
  <2> QED BY <1>3, <2>2, PipedArrives, RoomReads, RoomLinks
<1>4. ASSUME NEW c \in Link,
             \/ AgentConnects(c) \/ Accept(c) \/ AppGone(c)
             \/ AgentNotices(c) \/ AgentLeaves(c) \/ Lose(c) \/ Revoke
      PROVE  Room' /\ \A r \in Sockets : Piped(r)'
  <2>1. honest BY <1>4 DEF AgentConnects, Accept, AppGone, AgentNotices, AgentLeaves, AgentGone, Lose, Revoke
  <2>2. Room /\ \A r \in Sockets : Piped(r) BY <2>1 DEF Fair
  <2> QED BY <1>4, <2>2, PipedLinks, RoomLinks
<1>5. ASSUME NEW c \in Link, Misbehaves(c) PROVE FALSE BY <1>5 DEF Misbehaves
<1>6. CASE Revoke /\ Link = {}
  <2>1. honest /\ live = None /\ UNCHANGED <<app, agent, lost, limit, up, down, sock, local>>
    BY <1>6 DEF Revoke, Inv, Ranges
  <2>2. Room /\ \A r \in Sockets : Piped(r) BY <2>1 DEF Fair
  <2>3. \A r \in Sockets : Piped(r)' BY <2>1, <2>2, SameSelf, Rests DEF SameLinks
  <2>4. Room' BY <1>6 DEF Room
  <2> QED BY <2>3, <2>4
<1>7. CASE Revoke /\ Link # {} BY <1>4, <1>7
<1> QED BY <1>1, <1>2, <1>3, <1>4, <1>5, <1>6, <1>7 DEF Next

(* The agent refuses no stream that the app counted as allowed. *)
LEMMA NeverRefused ==
  ASSUME Inv, OneByOne, Room, \A q \in Sockets : Piped(q),
         NEW c \in Link, agent[c] = "open", down[c] # <<>>, Head(down[c]).type = "OPEN"
  PROVE  ~Refuses(Head(down[c]))
<1>1. PICK q \in Seq(Frames) : q = down[c] /\ q # <<>> BY DEF Inv, Wires
<1>2. PICK o \in Sockets : o = Head(q).own /\ sock[o].on = c BY <1>1, AgentFinds
<1>3. PICK us \in BOOLEAN, ds \in BOOLEAN, ao \in BOOLEAN : Sane(o, sock[o], local[o], up[c], q, us, ds, ao)
  BY <1>1, <1>2, Parts
<1>4. Paired(sock[o], local[o], ao) /\ Downward(o, sock[o], local[o], q, ds) BY <1>2, <1>3 DEF Sane
<1>5. 1 \in At(q, o, "OPEN") BY <1>1, <1>2, HeadAt
<1>6. ~local[o].mapped BY <1>4, <1>5 DEF Downward, Paired, Has
<1>7. LocalNamed(Head(q).id) = {}
  <2>1. \A r \in Sockets : r \notin LocalNamed(Head(q).id) BY <1>1, <1>2, <1>6, AgentFinds
  <2> QED BY <2>1 DEF LocalNamed
<1>8. \A x : ~Ahead(q, o, x, "END")
  <2> SUFFICES ASSUME NEW x, NEW i \in At(q, x, "END"), NEW j \in At(q, o, "OPEN"), i < j PROVE FALSE
    BY DEF Ahead
  <2>1. j = 1 BY <1>4, <1>5 DEF Downward, Orderly
  <2> QED BY <2>1 DEF At
<1>9. Carried \subseteq Before(c, o) BY <1>1, <1>8 DEF Carried, Before
<1>10. Cardinality(Before(c, o)) < limit BY <1>1, <1>5 DEF Room, Has
<1>11. Cardinality(Carried) < limit
  <2>1. Before(c, o) \subseteq Sockets BY DEF Before
  <2> QED BY <1>9, <1>10, <2>1, FewerRoom
<1>12. Cardinality(Carried) \in Nat /\ limit \in Nat
  <2>1. IsFiniteSet(Sockets) BY FS_Interval, TunnelAssumption DEF Sockets
  <2>2. IsFiniteSet(Carried) BY <2>1, FS_Subset DEF Carried
  <2> QED BY <2>2, FS_CardinalityType, TunnelAssumption DEF Inv, Ranges
<1> QED BY <1>1, <1>7, <1>11, <1>12 DEF Refuses

(* hub.ts onMessage, packages/agent: an agent that is this program is never  *)
(* closed for a frame out of turn, and refuses no stream that the app        *)
(* counted as allowed, whatever the limit, the streams, the connections and  *)
(* the order in which frames, time-outs, failures and reconnections happen.  *)
THEOREM HonestKept == Spec => []HonestAgentKept
<1>1. Inv /\ OneByOne /\ Fair => HonestAgentKept
  <2> SUFFICES ASSUME Inv, OneByOne, Fair, honest, NEW c \in Link
               PROVE  /\ app[c] \in {"open", "closing"} /\ up[c] # <<>> => ~OutOfTurn(c)
                      /\ agent[c] = "open" /\ down[c] # <<>> /\ Head(down[c]).type = "OPEN" => ~Refuses(Head(down[c]))
    BY DEF HonestAgentKept
  <2>1. Room /\ \A q \in Sockets : Piped(q) BY DEF Fair
  <2> QED BY <2>1, InTurn, NeverRefused
<1> QED BY <1>1, Inductive, OneAlways, FairFirst, FairNext, PTL DEF Spec

-----------------------------------------------------------------------------
(* Streams are pipes                                                       *)

(* The state of TunnelPipe. *)
Both == {"app", "agent"}
Wrote == [s \in Sockets |-> [e \in Both |-> IF e = "app" THEN sock[s].sent ELSE local[s].sent]]
Got == [s \in Sockets |-> [e \in Both |-> IF e = "app" THEN sock[s].got ELSE local[s].got]]
Gone == [s \in Sockets |-> (IF sock[s].state = "dead" THEN {"app"} ELSE {})
                           \cup (IF local[s].state = "closed" THEN {"agent"} ELSE {})]

(* What is kept per stream and end, changed at one of them. *)
Pairs(f) == f = [r \in Sockets |-> [d \in Both |-> f[r][d]]]
LEMMA Spot ==
  ASSUME NEW f, Pairs(f), NEW g, Pairs(g), NEW s \in Sockets, NEW e \in Both,
         \A r \in Sockets, d \in Both : ~(r = s /\ d = e) => g[r][d] = f[r][d]
  PROVE  g = [f EXCEPT ![s][e] = g[s][e]]
<1> DEFINE h == [f EXCEPT ![s][e] = g[s][e]]
<1>1. DOMAIN f = Sockets /\ \A r \in Sockets : DOMAIN f[r] = Both BY DEF Pairs
<1>2. h = [r \in Sockets |-> IF r = s THEN [f[s] EXCEPT ![e] = g[s][e]] ELSE f[r]] BY <1>1
<1>3. \A r \in Sockets : h[r] = [d \in Both |-> g[r][d]]
  <2> TAKE r \in Sockets
  <2>1. f[r] = [d \in Both |-> f[r][d]] BY DEF Pairs
  <2>2. CASE r = s
    <3>1. h[r] = [d \in Both |-> IF d = e THEN g[s][e] ELSE f[s][d]] BY <1>1, <1>2, <2>2
    <3> QED BY <2>2, <3>1
  <2>3. CASE r # s BY <1>2, <2>1, <2>3
  <2> QED BY <2>2, <2>3
<1>4. h = [r \in Sockets |-> [d \in Both |-> g[r][d]]]
  <2>1. h = [r \in Sockets |-> h[r]] BY <1>2
  <2> QED BY <1>3, <2>1
<1> QED BY <1>4 DEF Pairs

PipeStep == [honest => Pipe!Next]_(Pipe!vars)

(* Its steps, in the terms of the tunnel. *)
LEMMA PipeSteps ==
  ASSUME \/ /\ \A s \in Sockets : Gone[s] \subseteq Gone'[s]
            /\ Wrote' = Wrote /\ Got' = Got
         \/ \E s \in Sockets, e \in Both :
              /\ e \notin Gone[s] /\ Wrote' = [Wrote EXCEPT ![s][e] = @ + 1]
              /\ Got' = Got /\ Gone' = Gone
         \/ \E s \in Sockets, e \in Both :
              /\ e \notin Gone[s]
              /\ Len(Got[s][e]) < Wrote[s][IF e = "app" THEN "agent" ELSE "app"]
              /\ Got' = [Got EXCEPT ![s][e] = Append(@, <<s, Len(@) + 1>>)]
              /\ Wrote' = Wrote /\ Gone' = Gone
  PROVE  PipeStep
<1>1. CASE \E s \in Sockets, e \in Both :
              /\ e \notin Gone[s] /\ Wrote' = [Wrote EXCEPT ![s][e] = @ + 1]
              /\ Got' = Got /\ Gone' = Gone
  BY <1>1 DEF PipeStep, Pipe!Next, Pipe!Write, Pipe!Ends, Wrote, Got, Gone, Both
<1>2. CASE \E s \in Sockets, e \in Both :
              /\ e \notin Gone[s]
              /\ Len(Got[s][e]) < Wrote[s][IF e = "app" THEN "agent" ELSE "app"]
              /\ Got' = [Got EXCEPT ![s][e] = Append(@, <<s, Len(@) + 1>>)]
              /\ Wrote' = Wrote /\ Gone' = Gone
  BY <1>2 DEF PipeStep, Pipe!Next, Pipe!Read, Pipe!Ends, Pipe!Other, Wrote, Got, Gone, Both
<1>3. CASE /\ \A s \in Sockets : Gone[s] \subseteq Gone'[s]
           /\ Wrote' = Wrote /\ Got' = Got
  <2>1. Gone' \in [Sockets -> SUBSET Both] BY DEF Gone, Both
  <2>2. CASE Gone' # Gone BY <1>3, <2>1, <2>2 DEF PipeStep, Pipe!Next, Pipe!Leave, Pipe!Ends, Wrote, Got, Gone, Both
  <2>3. CASE Gone' = Gone BY <1>3, <2>3 DEF PipeStep, Pipe!vars, Wrote, Got, Gone, Both
  <2> QED BY <2>2, <2>3
<1> QED BY <1>1, <1>2, <1>3

(* Ends go, or nothing happens that a pipe knows of. *)
LEMMA PipeLeaves ==
  ASSUME \A r \in Sockets : /\ sock'[r].sent = sock[r].sent /\ sock'[r].got = sock[r].got
                            /\ local'[r].sent = local[r].sent /\ local'[r].got = local[r].got
                            /\ sock[r].state = "dead" => sock'[r].state = "dead"
                            /\ local[r].state = "closed" => local'[r].state = "closed"
  PROVE  PipeStep
<1>1. Wrote' = Wrote /\ Got' = Got BY DEF Wrote, Got
<1>2. \A s \in Sockets : Gone[s] \subseteq Gone'[s] BY DEF Gone
<1> QED BY <1>1, <1>2, PipeSteps

(* No end goes. *)
Present ==
    \A r \in Sockets : /\ sock[r].state = "dead" <=> sock'[r].state = "dead"
                       /\ local[r].state = "closed" <=> local'[r].state = "closed"

(* The app writes. *)
LEMMA PipeAppWrites ==
  ASSUME NEW s \in Sockets, sock[s].state # "dead", Present,
         \A r \in Sockets : /\ sock'[r].got = sock[r].got
                            /\ local'[r].sent = local[r].sent /\ local'[r].got = local[r].got,
         \A r \in Sockets : r # s => sock'[r].sent = sock[r].sent,
         sock'[s].sent = sock[s].sent + 1
  PROVE  PipeStep
<1>1. Got' = Got BY DEF Got
<1>2. Gone' = Gone /\ "app" \notin Gone[s] BY DEF Gone, Present
<1>3. Wrote' = [Wrote EXCEPT ![s]["app"] = Wrote'[s]["app"]]
  <2>1. Pairs(Wrote) /\ Pairs(Wrote') BY DEF Pairs, Wrote
  <2>2. \A r \in Sockets, d \in Both : ~(r = s /\ d = "app") => Wrote'[r][d] = Wrote[r][d] BY DEF Wrote, Both
  <2> QED BY <2>1, <2>2, Spot DEF Both
<1>4. Wrote'[s]["app"] = Wrote[s]["app"] + 1 BY DEF Wrote, Both
<1>5. Wrote' = [Wrote EXCEPT ![s]["app"] = @ + 1] BY <1>3, <1>4
<1> QED BY <1>1, <1>2, <1>5, PipeSteps DEF Both

(* The local server sends. *)
LEMMA PipeAgentWrites ==
  ASSUME NEW s \in Sockets, local[s].state # "closed", Present,
         \A r \in Sockets : /\ local'[r].got = local[r].got
                            /\ sock'[r].sent = sock[r].sent /\ sock'[r].got = sock[r].got,
         \A r \in Sockets : r # s => local'[r].sent = local[r].sent,
         local'[s].sent = local[s].sent + 1
  PROVE  PipeStep
<1>1. Got' = Got BY DEF Got
<1>2. Gone' = Gone /\ "agent" \notin Gone[s] BY DEF Gone, Present
<1>3. Wrote' = [Wrote EXCEPT ![s]["agent"] = Wrote'[s]["agent"]]
  <2>1. Pairs(Wrote) /\ Pairs(Wrote') BY DEF Pairs, Wrote
  <2>2. \A r \in Sockets, d \in Both : ~(r = s /\ d = "agent") => Wrote'[r][d] = Wrote[r][d] BY DEF Wrote, Both
  <2> QED BY <2>1, <2>2, Spot DEF Both
<1>4. Wrote'[s]["agent"] = Wrote[s]["agent"] + 1 BY DEF Wrote, Both
<1>5. Wrote' = [Wrote EXCEPT ![s]["agent"] = @ + 1] BY <1>3, <1>4
<1> QED BY <1>1, <1>2, <1>5, PipeSteps DEF Both

(* The app reads the next chunk. *)
LEMMA PipeAppReads ==
  ASSUME NEW s \in Sockets, sock[s].state # "dead", Present,
         \A r \in Sockets : /\ sock'[r].sent = sock[r].sent
                            /\ local'[r].sent = local[r].sent /\ local'[r].got = local[r].got,
         \A r \in Sockets : r # s => sock'[r].got = sock[r].got,
         Len(sock[s].got) < local[s].sent,
         sock'[s].got = Append(sock[s].got, <<s, Len(sock[s].got) + 1>>)
  PROVE  PipeStep
<1>1. Wrote' = Wrote BY DEF Wrote
<1>2. Gone' = Gone /\ "app" \notin Gone[s] BY DEF Gone, Present
<1>3. Got[s]["app"] = sock[s].got /\ Wrote[s]["agent"] = local[s].sent BY DEF Got, Wrote, Both
<1>4. Got' = [Got EXCEPT ![s]["app"] = Got'[s]["app"]]
  <2>1. Pairs(Got) /\ Pairs(Got') BY DEF Pairs, Got
  <2>2. \A r \in Sockets, d \in Both : ~(r = s /\ d = "app") => Got'[r][d] = Got[r][d] BY DEF Got, Both
  <2> QED BY <2>1, <2>2, Spot DEF Both
<1>5. Got'[s]["app"] = Append(Got[s]["app"], <<s, Len(Got[s]["app"]) + 1>>) BY <1>3 DEF Got, Both
<1>6. Got' = [Got EXCEPT ![s]["app"] = Append(@, <<s, Len(@) + 1>>)] BY <1>4, <1>5
<1>7. Len(Got[s]["app"]) < Wrote[s][IF "app" = "app" THEN "agent" ELSE "app"] BY <1>3
<1> QED BY <1>1, <1>2, <1>6, <1>7, PipeSteps DEF Both

(* The local server is given the next chunk. *)
LEMMA PipeAgentReads ==
  ASSUME NEW s \in Sockets, local[s].state # "closed", Present,
         \A r \in Sockets : /\ local'[r].sent = local[r].sent
                            /\ sock'[r].sent = sock[r].sent /\ sock'[r].got = sock[r].got,
         \A r \in Sockets : r # s => local'[r].got = local[r].got,
         Len(local[s].got) < sock[s].sent,
         local'[s].got = Append(local[s].got, <<s, Len(local[s].got) + 1>>)
  PROVE  PipeStep
<1>1. Wrote' = Wrote BY DEF Wrote
<1>2. Gone' = Gone /\ "agent" \notin Gone[s] BY DEF Gone, Present
<1>3. Got[s]["agent"] = local[s].got /\ Wrote[s]["app"] = sock[s].sent BY DEF Got, Wrote, Both
<1>4. Got' = [Got EXCEPT ![s]["agent"] = Got'[s]["agent"]]
  <2>1. Pairs(Got) /\ Pairs(Got') BY DEF Pairs, Got
  <2>2. \A r \in Sockets, d \in Both : ~(r = s /\ d = "agent") => Got'[r][d] = Got[r][d] BY DEF Got, Both
  <2> QED BY <2>1, <2>2, Spot DEF Both
<1>5. Got'[s]["agent"] = Append(Got[s]["agent"], <<s, Len(Got[s]["agent"]) + 1>>) BY <1>3 DEF Got, Both
<1>6. Got' = [Got EXCEPT ![s]["agent"] = Append(@, <<s, Len(@) + 1>>)] BY <1>4, <1>5
<1>7. Len(Got[s]["agent"]) < Wrote[s][IF "agent" = "app" THEN "agent" ELSE "app"] BY <1>3
<1> QED BY <1>1, <1>2, <1>6, <1>7, PipeSteps DEF Both

(* The next chunk is the one that arrives. *)
LEMMA NextUp ==
  ASSUME Inv, \A q \in Sockets : Piped(q), NEW c \in Link, up[c] # <<>>, Head(up[c]).type = "DATA",
         NEW s \in Named(c, Head(up[c]).id)
  PROVE  Head(up[c]).own = s /\ Head(up[c]).n = Len(sock[s].got) + 1 /\ Len(sock[s].got) < local[s].sent
<1>1. s \in Sockets /\ s = Head(up[c]).own /\ sock[s].on = c /\ sock[s].mapped BY ForOwn
<1>2. PICK us \in BOOLEAN, ds \in BOOLEAN, ao \in BOOLEAN : Sane(s, sock[s], local[s], up[c], down[c], us, ds, ao)
  BY <1>1, Parts
<1>3. Upward(s, sock[s], local[s], up[c], down[c], us) BY <1>1, <1>2 DEF Sane
<1>4. PICK q \in Seq(Frames) : q = up[c] BY DEF Inv, Wires
<1>5. PICK n : n = Head(q).n OBVIOUS
<1>6. n \in Numbers(q, s) /\ \A m \in Numbers(q, s) : n <= m
  BY <1>1, <1>3, <1>4, <1>5, TailNumbers DEF Upward
<1>7. PICK k \in SockRec, l \in LocalRec : k = sock[s] /\ l = local[s] BY <1>1 DEF Inv, Ranges
<1>8. PICK g \in Nat, w \in Nat : g = Len(k.got) /\ w = l.sent BY Lengths
<1>9. PICK N : N = Numbers(q, s) OBVIOUS
<1>10. Run(N, g, w) BY <1>3, <1>4, <1>7, <1>8, <1>9 DEF Upward
<1>11. n \in N /\ \A m \in N : n <= m BY <1>6, <1>9
<1>12. n = g + 1 /\ g < w
  <2>1. PICK j \in g .. w : N = g + 1 .. j BY <1>10 DEF Run
  <2>2. n \in g + 1 .. j BY <1>11, <2>1
  <2>3. g + 1 \in N BY <2>1, <2>2
  <2> QED BY <1>11, <2>2, <2>3
<1> QED BY <1>1, <1>4, <1>5, <1>7, <1>8, <1>12

(* So it is at the agent. *)
LEMMA NextDown ==
  ASSUME Inv, OneByOne, \A q \in Sockets : Piped(q), NEW c \in Link, agent[c] = "open", down[c] # <<>>,
         Head(down[c]).type = "DATA", NEW s \in Sockets, s = Head(down[c]).own, local[s].mapped
  PROVE  Head(down[c]).n = Len(local[s].got) + 1 /\ Len(local[s].got) < sock[s].sent
<1>1. sock[s].on = c BY AgentFinds
<1>2. PICK us \in BOOLEAN, ds \in BOOLEAN, ao \in BOOLEAN : Sane(s, sock[s], local[s], up[c], down[c], us, ds, ao)
  BY <1>1, Parts
<1>3. Downward(s, sock[s], local[s], down[c], ds) BY <1>1, <1>2 DEF Sane
<1>4. PICK q \in Seq(Frames) : q = down[c] BY DEF Inv, Wires
<1>5. PICK n : n = Head(q).n OBVIOUS
<1>6. n \in Numbers(q, s) /\ \A m \in Numbers(q, s) : n <= m
  BY <1>1, <1>3, <1>4, <1>5, TailNumbers DEF Downward
<1>7. PICK k \in SockRec, l \in LocalRec : k = sock[s] /\ l = local[s] BY <1>1 DEF Inv, Ranges
<1>8. PICK g \in Nat, w \in Nat : g = Len(l.got) /\ w = k.sent BY Lengths
<1>9. PICK N : N = Numbers(q, s) OBVIOUS
<1>10. Run(N, g, w) BY <1>3, <1>4, <1>7, <1>8, <1>9 DEF Downward
<1>11. n \in N /\ \A m \in N : n <= m BY <1>6, <1>9
<1>12. n = g + 1 /\ g < w
  <2>1. PICK j \in g .. w : N = g + 1 .. j BY <1>10 DEF Run
  <2>2. n \in g + 1 .. j BY <1>11, <2>1
  <2>3. g + 1 \in N BY <2>1, <2>2
  <2> QED BY <1>11, <2>2, <2>3
<1> QED BY <1>4, <1>5, <1>7, <1>8, <1>12

(* The app's sockets and the agent's, when nothing of them changes that a pipe knows of. *)
LEMMA PipeCalm ==
  ASSUME UNCHANGED <<sock, local>>
  PROVE  PipeStep
BY PipeLeaves

(* A stream ends, or opens. *)
LEMMA PipeOne ==
  ASSUME Inv, NEW q \in Sockets, local' = local,
         \/ sock' = [sock EXCEPT ![q] = Dead(q)]
         \/ sock[q].state = "connecting" /\ sock' = [sock EXCEPT ![q].state = "open"]
  PROVE  PipeStep
<1>1. sock \in [Sockets -> SockRec] /\ \A r \in Sockets : sock[r] \in SockRec BY DEF Inv, Ranges
<1>2. \A r \in Sockets : /\ sock'[r].sent = sock[r].sent /\ sock'[r].got = sock[r].got
                         /\ sock[r].state = "dead" => sock'[r].state = "dead"
  <2>1. CASE sock' = [sock EXCEPT ![q] = Dead(q)] BY <1>1, <2>1 DEF Dead, SockRec
  <2>2. CASE sock[q].state = "connecting" /\ sock' = [sock EXCEPT ![q].state = "open"] BY <1>1, <2>2 DEF SockRec
  <2> QED BY <2>1, <2>2
<1> QED BY <1>2, PipeLeaves

(* A stream is asked for, or the app is finished with one. *)
LEMMA PipeSockets ==
  ASSUME Inv, NEW s \in Sockets, Start(s) \/ Ends(s)
  PROVE  PipeStep
<1>1. sock \in [Sockets -> SockRec] /\ \A r \in Sockets : sock[r] \in SockRec BY DEF Inv, Ranges
<1>2. local' = local BY DEF Start, Ends
<1>3. CASE sock' = [sock EXCEPT ![s] = Dead(s)] BY <1>2, <1>3, PipeOne
<1>4. CASE /\ sock[s].state = "new"
           /\ sock' = [sock EXCEPT ![s] = [@ EXCEPT !.state = "connecting", !.on = live,
                                                   !.id = next[live], !.mapped = TRUE]]
  <2>1. PICK m : m = [sock[s] EXCEPT !.state = "connecting", !.on = live, !.id = next[live], !.mapped = TRUE]
    OBVIOUS
  <2>2. m.sent = sock[s].sent /\ m.got = sock[s].got BY <1>1, <2>1 DEF SockRec
  <2>3. sock' = [sock EXCEPT ![s] = m] BY <1>4, <2>1
  <2>4. \A r \in Sockets : /\ sock'[r].sent = sock[r].sent /\ sock'[r].got = sock[r].got
                           /\ sock[r].state = "dead" => sock'[r].state = "dead"
    BY <1>1, <1>4, <2>2, <2>3
  <2> QED BY <1>2, <2>4, PipeLeaves
<1> QED BY <1>3, <1>4 DEF Start, Ends

(* The app hears that a stream is open, or over. *)
LEMMA PipeOpened ==
  ASSUME Inv, NEW c \in Link, up[c] # <<>>, Opened(c) \/ RemoteEnds(c)
  PROVE  PipeStep
<1>1. local' = local BY DEF Opened, RemoteEnds, Takes
<1>2. PICK q \in Named(c, Head(up[c]).id) :
         \/ sock[q].state = "connecting" /\ sock' = [sock EXCEPT ![q].state = "open"]
         \/ sock' = [sock EXCEPT ![q] = Dead(q)]
  BY DEF Opened, RemoteEnds
<1>3. q \in Sockets BY ForOwn
<1> QED BY <1>1, <1>2, <1>3, PipeOne

(* The app gives up the streams of a connection, or has none. *)
LEMMA PipeFails ==
  ASSUME Inv, local' = local, sock' = sock \/ \E c \in Link \cup {None} : sock' = Failed(c)
  PROVE  PipeStep
<1>1. ASSUME NEW r \in Sockets
      PROVE  /\ sock'[r].sent = sock[r].sent /\ sock'[r].got = sock[r].got
             /\ sock[r].state = "dead" => sock'[r].state = "dead"
  <2>1. sock[r] \in SockRec BY DEF Inv, Ranges
  <2>2. Dead(r).sent = sock[r].sent /\ Dead(r).got = sock[r].got /\ Dead(r).state = "dead" BY <2>1 DEF Dead, SockRec
  <2>3. sock'[r] = sock[r] \/ sock'[r] = Dead(r) BY DEF Failed
  <2> QED BY <2>2, <2>3
<1> QED BY <1>1, PipeLeaves

(* Either end writes, or the agent's end closes. *)
LEMMA PipeEnds ==
  ASSUME Inv, NEW s \in Sockets,
         AppWrites(s) \/ LocalEnds(s) \/ LocalConnects(s) \/ LocalSends(s) \/ LocalDrained(s)
  PROVE  PipeStep
<1>1. /\ sock \in [Sockets -> SockRec] /\ \A r \in Sockets : sock[r] \in SockRec
      /\ local \in [Sockets -> LocalRec] /\ \A r \in Sockets : local[r] \in LocalRec
  BY DEF Inv, Ranges
<1>2. CASE AppWrites(s)
  <2>1. /\ local' = local /\ sock[s].state # "dead"
        /\ \A r \in Sockets : r # s => sock'[r] = sock[r]
        /\ sock'[s].state = sock[s].state /\ sock'[s].got = sock[s].got /\ sock'[s].sent = sock[s].sent + 1
    BY <1>1, <1>2 DEF AppWrites, SockRec
  <2> QED BY <2>1, PipeAppWrites DEF Present
<1>3. CASE LocalSends(s)
  <2>1. /\ sock' = sock /\ local[s].state # "closed"
        /\ \A r \in Sockets : r # s => local'[r] = local[r]
        /\ local'[s].state = local[s].state /\ local'[s].got = local[s].got /\ local'[s].sent = local[s].sent + 1
    BY <1>1, <1>3 DEF LocalSends, LocalRec
  <2> QED BY <2>1, PipeAgentWrites DEF Present
<1>4. CASE LocalEnds(s) \/ LocalDrained(s)
  <2>1. sock' = sock /\ local' = [local EXCEPT ![s] = Shut(s)] BY <1>4 DEF LocalEnds, LocalDrained
  <2>2. Shut(s).sent = local[s].sent /\ Shut(s).got = local[s].got /\ Shut(s).state = "closed"
    BY <1>1 DEF Shut, LocalRec
  <2>3. \A r \in Sockets : local'[r] = IF r = s THEN Shut(s) ELSE local[r] BY <1>1, <2>1
  <2> QED BY <2>1, <2>2, <2>3, PipeLeaves
<1>5. CASE LocalConnects(s)
  <2>1. /\ sock' = sock /\ local[s].state # "closed"
        /\ \A r \in Sockets : r # s => local'[r] = local[r]
        /\ local'[s].got = local[s].got /\ local'[s].sent = local[s].sent
    BY <1>1, <1>5 DEF LocalConnects, LocalRec
  <2> QED BY <2>1, PipeLeaves
<1> QED BY <1>2, <1>3, <1>4, <1>5

(* A chunk arrives. *)
LEMMA PipeReceives ==
  ASSUME Inv, \A q \in Sockets : Piped(q), NEW c \in Link, Received(c)
  PROVE  PipeStep
<1>1. sock \in [Sockets -> SockRec] /\ \A r \in Sockets : sock[r] \in SockRec BY DEF Inv, Ranges
<1>2. up[c] # <<>> /\ Head(up[c]).type = "DATA" /\ local' = local BY DEF Received, Takes
<1>3. PICK s \in Named(c, Head(up[c]).id) :
         /\ sock[s].state = "open"
         /\ sock' = [sock EXCEPT ![s].got = Append(@, <<Head(up[c]).own, Head(up[c]).n>>)]
  BY DEF Received
<1>4. s \in Sockets BY <1>2, ForOwn
<1>5. /\ Head(up[c]).own = s /\ Head(up[c]).n = Len(sock[s].got) + 1
      /\ Len(sock[s].got) < local[s].sent
  BY <1>2, NextUp
<1>6. PICK g : g = Append(sock[s].got, <<s, Len(sock[s].got) + 1>>) OBVIOUS
<1>7. sock' = [sock EXCEPT ![s].got = g] BY <1>3, <1>5, <1>6
<1>8. /\ \A r \in Sockets : r # s => sock'[r] = sock[r]
      /\ sock'[s].got = g /\ sock'[s].sent = sock[s].sent /\ sock'[s].state = "open"
  BY <1>1, <1>3, <1>4, <1>7 DEF SockRec
<1>9. Present /\ \A r \in Sockets : sock'[r].sent = sock[r].sent BY <1>2, <1>3, <1>4, <1>8 DEF Present
<1> QED BY <1>2, <1>3, <1>4, <1>5, <1>6, <1>8, <1>9, PipeAppReads

(* The agent reads a frame. *)
LEMMA PipeAgent ==
  ASSUME Inv, OneByOne, \A q \in Sockets : Piped(q), NEW c \in Link, AgentReads(c)
  PROVE  PipeStep
<1>1. local \in [Sockets -> LocalRec] /\ \A r \in Sockets : local[r] \in LocalRec BY DEF Inv, Ranges
<1>2. agent[c] = "open" /\ down[c] # <<>> /\ sock' = sock
  BY DEF AgentReads, AgentOpens, AgentData, AgentCloses, AgentTakes
<1>3. PICK s \in Sockets : s = Head(down[c]).own /\ sock[s].on = c BY <1>2, AgentFinds
<1>4. \A r \in Sockets : r \in LocalNamed(Head(down[c]).id) <=> local[r].mapped /\ r = s BY <1>2, <1>3, AgentFinds
<1>5. PICK us \in BOOLEAN, ds \in BOOLEAN, ao \in BOOLEAN : Sane(s, sock[s], local[s], up[c], down[c], us, ds, ao)
  BY <1>3, Parts
<1>6. Paired(sock[s], local[s], ao) /\ Downward(s, sock[s], local[s], down[c], ds) BY <1>3, <1>5 DEF Sane
<1>7. local[s].mapped => local[s].state # "closed" BY <1>6 DEF Paired
<1>8. CASE AgentOpens(c)
  <2>1. Has(down[c], s, "OPEN")
    <3>1. 1 \in At(down[c], s, "OPEN") BY <1>2, <1>3, <1>8, HeadAt DEF AgentOpens, Inv, Wires
    <3> QED BY <3>1 DEF Has
  <2>2. local[s].state = "none" BY <1>6, <2>1 DEF Downward
  <2>3. local' = local \/ local' = [local EXCEPT ![s].state = "connecting", ![s].mapped = TRUE]
    BY <1>3, <1>8 DEF AgentOpens
  <2>4. /\ \A r \in Sockets : r # s => local'[r] = local[r]
        /\ local'[s].got = local[s].got /\ local'[s].sent = local[s].sent
    BY <1>1, <2>3 DEF LocalRec
  <2> QED BY <1>2, <2>2, <2>4, PipeLeaves
<1>9. CASE AgentCloses(c)
  <2>1. \A r \in Sockets : local'[r] = IF r \in LocalNamed(Head(down[c]).id)
                                         THEN [local[r] EXCEPT !.state = "draining", !.mapped = FALSE] ELSE local[r]
    BY <1>9 DEF AgentCloses
  <2>2. /\ \A r \in Sockets : r # s => local'[r] = local[r]
        /\ ~local[s].mapped => local'[s] = local[s]
        /\ local'[s].got = local[s].got /\ local'[s].sent = local[s].sent
    BY <1>1, <1>4, <2>1 DEF LocalRec
  <2> QED BY <1>2, <1>7, <2>2, PipeLeaves
<1>10. CASE AgentData(c)
  <2>1. PICK x : x = <<Head(down[c]).own, Head(down[c]).n>> OBVIOUS
  <2>2. \A r \in Sockets : local'[r] = IF local[r].mapped /\ r = s
                                         THEN [local[r] EXCEPT !.got = Append(@, x)] ELSE local[r]
    BY <1>4, <1>10, <2>1 DEF AgentData
  <2>3. CASE ~local[s].mapped
    <3>1. \A r \in Sockets : local'[r] = local[r] BY <2>2, <2>3
    <3> QED BY <1>2, <3>1, PipeLeaves
  <2>4. CASE local[s].mapped
    <3>1. Head(down[c]).type = "DATA" BY <1>10 DEF AgentData
    <3>2. Head(down[c]).n = Len(local[s].got) + 1 /\ Len(local[s].got) < sock[s].sent
      BY <1>2, <1>3, <2>4, <3>1, NextDown
    <3>3. x = <<s, Len(local[s].got) + 1>> BY <1>3, <2>1, <3>2
    <3>4. PICK g : g = Append(local[s].got, <<s, Len(local[s].got) + 1>>) OBVIOUS
    <3>5. local'[s] = [local[s] EXCEPT !.got = g] BY <2>2, <2>4, <3>3, <3>4
    <3>6. /\ \A r \in Sockets : r # s => local'[r] = local[r]
          /\ local'[s].got = g /\ local'[s].sent = local[s].sent /\ local'[s].state = local[s].state
      BY <1>1, <2>2, <3>5 DEF LocalRec
    <3>7. Present /\ \A r \in Sockets : local'[r].sent = local[r].sent BY <1>2, <3>6 DEF Present
    <3> QED BY <1>2, <1>7, <2>4, <3>2, <3>4, <3>6, <3>7, PipeAgentReads
  <2> QED BY <2>3, <2>4
<1> QED BY <1>8, <1>9, <1>10 DEF AgentReads

(* WebSockets open, close and are lost: the streams of a connection go at once. *)
LEMMA PipeLinks ==
  ASSUME Inv, NEW c \in Link,
         AgentConnects(c) \/ Accept(c) \/ AppGone(c) \/ AgentNotices(c) \/ AgentLeaves(c) \/ Lose(c)
  PROVE  PipeStep
<1>1. CASE AgentConnects(c) \/ Lose(c) BY <1>1, PipeCalm DEF AgentConnects, Lose
<1>2. CASE Accept(c) \/ AppGone(c) BY <1>2, PipeFails DEF Accept, AppGone, Inv, Ranges
<1>3. CASE AgentNotices(c) \/ AgentLeaves(c)
  <2>1. sock' = sock /\ local' = Destroyed BY <1>3 DEF AgentNotices, AgentLeaves, AgentGone
  <2>2. ASSUME NEW r \in Sockets
        PROVE  /\ local'[r].sent = local[r].sent /\ local'[r].got = local[r].got
               /\ local[r].state = "closed" => local'[r].state = "closed"
    <3>1. local[r] \in LocalRec BY DEF Inv, Ranges
    <3> QED BY <2>1, <3>1 DEF Destroyed, Shut, LocalRec
  <2> QED BY <2>1, <2>2, PipeLeaves
<1> QED BY <1>1, <1>2, <1>3

(* Every step of the tunnel is a step of the pipes, or none of theirs. *)
LEMMA PipeNext == Inv /\ OneByOne /\ Fair /\ [Next]_vars => PipeStep
<1> SUFFICES ASSUME Inv, OneByOne, Fair, [Next]_vars, honest PROVE PipeStep
  BY DEF PipeStep
<1>1. \A q \in Sockets : Piped(q) BY DEF Fair
<1>2. CASE UNCHANGED vars BY <1>2, PipeCalm DEF vars
<1>3. ASSUME NEW s \in Sockets,
             \/ Start(s) \/ AppEnds(s) \/ OpenTimeout(s) \/ AppWrites(s)
             \/ LocalEnds(s) \/ LocalConnects(s) \/ LocalSends(s) \/ LocalDrained(s)
      PROVE  PipeStep
  BY <1>3, PipeSockets, PipeEnds DEF AppEnds, OpenTimeout
<1>4. ASSUME NEW c \in Link, Arrives(c)
      PROVE  PipeStep
  <2>1. up[c] # <<>> BY <1>4 DEF Arrives, Ignored, Opened, Received, RemoteEnds, ProtocolViolation, Takes
  <2>2. CASE Ignored(c) \/ ProtocolViolation(c)
    BY <2>2, PipeCalm DEF Ignored, ProtocolViolation, Takes
  <2>3. CASE Opened(c) \/ RemoteEnds(c)
    BY <2>1, <2>3, PipeOpened
  <2>4. CASE Received(c) BY <1>1, <2>4, PipeReceives
  <2> QED BY <1>4, <2>2, <2>3, <2>4 DEF Arrives
<1>5. ASSUME NEW c \in Link, AgentReads(c) PROVE PipeStep BY <1>1, <1>5, PipeAgent
<1>6. ASSUME NEW c \in Link, Misbehaves(c) PROVE PipeStep BY <1>6, PipeCalm DEF Misbehaves
<1>7. ASSUME NEW c \in Link,
             \/ AgentConnects(c) \/ Accept(c) \/ AppGone(c)
             \/ AgentNotices(c) \/ AgentLeaves(c) \/ Lose(c)
      PROVE  PipeStep
  BY <1>7, PipeLinks
<1>8. CASE Revoke BY <1>8, PipeFails DEF Revoke, Inv, Ranges
<1> QED BY <1>2, <1>3, <1>4, <1>5, <1>6, <1>7, <1>8 DEF Next

(* No chunk is on its way at the start. *)
LEMMA PipeFirst == Init => Pipe!Init
BY DEF Init, Pipe!Init, Pipe!Ends, NewSocket, NoLocal

(* tunnel-socket.ts: what is written at one end of a stream is read at the   *)
(* other, in order and without a gap, and nothing of another stream, of this *)
(* connection or of one it replaced, for any number of them.                 *)
THEOREM StreamsArePipes == Spec => Pipes
<1>1. Spec => [][PipeStep]_(Pipe!vars)
  BY Inductive, OneAlways, FairFirst, FairNext, PipeNext, PTL DEF Spec, PipeStep
<1> QED BY <1>1, PipeFirst, PTL DEF Pipes, Spec, PipeStep
=============================================================================
