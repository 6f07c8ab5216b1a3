----------------------------- MODULE TunnelPipe -----------------------------
(***************************************************************************)
(* What a tunnelled stream promises to ssh2 at one end and the local SSH   *)
(* server at the other (agents/tunnel-socket.ts, packages/agent): two      *)
(* pipes.  Each end reads what the other end of the same stream wrote, in  *)
(* order and without a gap; an end that is gone neither reads nor writes,  *)
(* and never comes back.                                                   *)
(***************************************************************************)
EXTENDS Naturals, Sequences

CONSTANTS Sockets

VARIABLES
    wrote,      \* per stream and end: how many chunks it wrote
    read,       \* per stream and end: the chunks it read, as <<stream, number>>
    gone        \* per stream: the ends that are gone

vars == <<wrote, read, gone>>

Ends == {"app", "agent"}
Other(e) == IF e = "app" THEN "agent" ELSE "app"

Init ==
    /\ wrote = [s \in Sockets |-> [e \in Ends |-> 0]]
    /\ read = [s \in Sockets |-> [e \in Ends |-> <<>>]]
    /\ gone = [s \in Sockets |-> {}]

Write(s, e) ==
    /\ e \notin gone[s]
    /\ wrote' = [wrote EXCEPT ![s][e] = @ + 1]
    /\ UNCHANGED <<read, gone>>

Read(s, e) ==
    /\ e \notin gone[s]
    /\ Len(read[s][e]) < wrote[s][Other(e)]
    /\ read' = [read EXCEPT ![s][e] = Append(@, <<s, Len(@) + 1>>)]
    /\ UNCHANGED <<wrote, gone>>

\* Ends go, of one stream or of all streams of a connection.
Leave ==
    /\ gone' \in [Sockets -> SUBSET Ends]
    /\ \A s \in Sockets : gone[s] \subseteq gone'[s]
    /\ gone' # gone
    /\ UNCHANGED <<wrote, read>>

Next == Leave \/ \E s \in Sockets, e \in Ends : Write(s, e) \/ Read(s, e)

Spec == Init /\ [][Next]_vars
=============================================================================
