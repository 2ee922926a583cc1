---------------------------- MODULE MCPfrSender ----------------------------
(***************************************************************************)
(* A small instance of PfrSender.                                          *)
(***************************************************************************)
EXTENDS PfrSender
=============================================================================
