--------------------------- MODULE MCPfrHandshake ---------------------------
(***************************************************************************)
(* The handshake is finite as it stands: one main thread, one receiver,    *)
(* no counters but the history variable late.  This module only gives TLC  *)
(* a root of its own.                                                      *)
(***************************************************************************)
EXTENDS PfrHandshake
=============================================================================
