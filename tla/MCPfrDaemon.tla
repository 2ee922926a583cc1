---------------------------- MODULE MCPfrDaemon ----------------------------
(***************************************************************************)
(* A small instance of PfrDaemon: one destination, one peer, three rounds  *)
(* of which one may be skipped.                                            *)
(***************************************************************************)
EXTENDS PfrDaemon
=============================================================================
