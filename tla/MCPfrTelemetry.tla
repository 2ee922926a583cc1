-------------------------- MODULE MCPfrTelemetry ---------------------------
(***************************************************************************)
(* A small instance of PfrTelemetry: one router with two peers and one     *)
(* with one.                                                               *)
(***************************************************************************)
EXTENDS PfrTelemetry

MCPeersOf == [a \in {"PE0", "PE1"} |-> IF a = "PE0" THEN {2, 5} ELSE {4}]
=============================================================================
