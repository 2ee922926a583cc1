------------------------------ MODULE PfrGate ------------------------------
(***************************************************************************)
(* What the rest of pfrd relies on when the main thread works on the       *)
(* measurements: a gate.  While the gate is open, replies are stored in    *)
(* r[][][][] freely.  While the main thread works (the gate is shut) at    *)
(* most ONE more reply is stored.  Once the daemon has stopped nothing     *)
(* changes.  PfrHandshake shows that the two flags, the two mutexes and    *)
(* the loop of the receiver thread implement this.                         *)
(***************************************************************************)
EXTENDS Naturals

VARIABLES
    gate,   \* "open", "shut" or "stopped"
    late    \* replies stored since the gate was last shut

vars == <<gate, late>>

Init == gate = "open" /\ late = 0

\* The main thread starts to work on the measurements.
Shut == gate = "open" /\ gate' = "shut" /\ late' = 0

\* A reply that the receiver had already taken from the socket is stored.
LateReply == gate = "shut" /\ late = 0 /\ late' = 1 /\ UNCHANGED gate

\* The main thread is done with this round.
Open == gate = "shut" /\ gate' = "open" /\ UNCHANGED late

\* The process ends: graceful shutdown, or an error on the socket or in the
\* configuration file.
Stop == gate # "stopped" /\ gate' = "stopped" /\ UNCHANGED late

Next == Shut \/ LateReply \/ Open \/ Stop

Spec == Init /\ [][Next]_vars
=============================================================================
