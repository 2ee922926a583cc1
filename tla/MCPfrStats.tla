----------------------------- MODULE MCPfrStats -----------------------------
(***************************************************************************)
(* Small instances of PfrStats.                                            *)
(***************************************************************************)
EXTENDS PfrStats
=============================================================================
