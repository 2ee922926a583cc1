---------------------------- MODULE MCPfrRounds ----------------------------
(***************************************************************************)
(* Small instances of PfrRounds, and what a comment of the code says about *)
(* the rounds, stated literally.  TLC finds the statement violated by what *)
(* the code does.                                                          *)
(***************************************************************************)
EXTENDS PfrRounds

\* pfr_rdata.cpp, above pfr_route_update: "its removes entities from r[] &&
\* route[] which don't exist in ipfix.  Important: need to remove entities from
\* mxs too before remove from r[] && route[]."  So a route in gobgp always
\* belongs to a destination that route still knows.
RemovedFromRoutersToo ==
    pc # "dead" => \A d \in Dst : rib[d] # 0 => d \in DOMAIN route
=============================================================================
