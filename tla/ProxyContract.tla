---------------------------- MODULE ProxyContract ----------------------------
(***************************************************************************)
(* What the proxy promises its user, without sockets, locks or goroutines. *)
(*                                                                         *)
(* It serves a set of app connections.  Under "redis_unavailable" the gate *)
(* closes: nobody new is served from then on, and when the cut is reported *)
(* as done nobody is served at all, until the gate opens again.  When the  *)
(* shutdown is reported as done nobody is served, for good.                *)
(***************************************************************************)
CONSTANT Conn

VARIABLES
    phase,    \* "down", "up", "stopping" or "stopped"
    gate,     \* "open", "closing" or "cut"
    live      \* the app connections being served

vars == <<phase, gate, live>>

Init == phase = "down" /\ gate = "open" /\ live = {}

StartUp == phase = "down" /\ phase' = "up" /\ UNCHANGED <<gate, live>>

\* A connection is served only while the proxy runs with its gate open.
Serve(c) ==
    /\ phase \in {"up", "stopping"}
    /\ gate = "open"
    /\ live' = live \cup {c}
    /\ UNCHANGED <<phase, gate>>

\* Either side may end a connection at any time.
Drop(c) == live' = live \ {c} /\ UNCHANGED <<phase, gate>>

\* The gate is the controller's, and only while the proxy is up.
CloseGate ==
    phase = "up" /\ gate = "open" /\ gate' = "closing" /\ UNCHANGED <<phase, live>>

Cut ==
    /\ phase = "up"
    /\ gate = "closing"
    /\ live = {}
    /\ gate' = "cut"
    /\ UNCHANGED <<phase, live>>

OpenGate ==
    phase = "up" /\ gate' = "open" /\ UNCHANGED <<phase, live>>

BeginStop == phase = "up" /\ phase' = "stopping" /\ UNCHANGED <<gate, live>>

Stop ==
    /\ phase = "stopping"
    /\ live = {}
    /\ phase' = "stopped"
    /\ UNCHANGED <<gate, live>>

Next ==
    \/ StartUp \/ CloseGate \/ Cut \/ OpenGate \/ BeginStop \/ Stop
    \/ \E c \in Conn : Serve(c) \/ Drop(c)

Spec == Init /\ [][Next]_vars
=============================================================================
