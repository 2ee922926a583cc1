-------------------------- MODULE PfrDaemonProofs --------------------------
(***************************************************************************)
(* Proofs about the rounds (PfrRounds) and about the process that runs     *)
(* them in two threads (PfrDaemon), for every set of destinations, peers   *)
(* and metrics, every configuration, number of rounds and of restarts.     *)
(* Where a theorem says Spec it is about PfrRounds; the last section shows *)
(* that the process implements it.                                         *)
(*                                                                         *)
(* First part: route never outgrows r, and a NULL dereference needs a      *)
(* reply stored during the work of the round, or a destination that a log  *)
(* thread has created again.                                               *)
(***************************************************************************)
EXTENDS PfrDaemon, FiniteSetTheorems, WellFoundedInduction, TLAPS

(***************************************************************************)
(* The inductive invariant.  Between pfr_calc_avg_rtt and pfr_route_scan   *)
(* every peer that has answered has its aggregate, and from pfr_route_scan *)
(* on every destination of route has the decision of this round, unless a  *)
(* reply came in or a log thread has created a destination again.  Round 0 *)
(* is apart: it stores no decision for a destination without answer, and   *)
(* starts with an empty route.                                             *)
(***************************************************************************)
TypeInv == probe_id \in Nat /\ late \in BOOLEAN /\ DOMAIN r \subseteq Dst

AliveInv == crash # "no" => pc = "dead"

NullInv == crash = "null" => late \/ revived

FirstRoundInv ==
    probe_id = 0 /\ pc \in {"begin", "open", "update", "calc", "stddev", "scan"} =>
        DOMAIN route = {}

MeasuredInv ==
    pc \in {"stddev", "scan"} /\ ~late => \A d \in DOMAIN r : Peers(d) = Measured(d)

DecidedInv ==
    pc \in {"free", "delete", "signals", "advertise"} /\ ~late /\ ~revived =>
        \A d \in DOMAIN route : probe_id \in DOMAIN route[d]

ScannedInv ==
    pc = "free" /\ ~late /\ ~revived /\ probe_id > 0 => DOMAIN r \subseteq DOMAIN route

RInv == /\ TypeInv /\ AliveInv /\ NullInv /\ RouteWithinR
        /\ FirstRoundInv /\ MeasuredInv /\ DecidedInv /\ ScannedInv
----------------------------------------------------------------------------
\* Touch (the operator [] on r[d][probe_id]) creates entries but changes neither
\* the destinations of r nor who has answered.
LEMMA TouchPeers ==
    ASSUME r' = Touch, probe_id' = probe_id
    PROVE  DOMAIN r' = DOMAIN r /\ \A d \in DOMAIN r : Peers(d)' = Peers(d)
  BY DEF Touch, Peers, Put, At

\* A non-empty set of destinations has a first one, the one the loops meet first.
LEMMA MinIsMember ==
    ASSUME NEW S, S \subseteq Nat, S # {}
    PROVE  Min(S) \in S /\ \A n \in S : Min(S) <= n
<1> DEFINE Less == {p \in Nat \X Nat : p[1] < p[2]}
<1>1. IsWellFoundedOn(Less, Nat)
  BY Zenon, NatLessThanWellFounded DEF OpToRel
<1> HIDE DEF Less
<1>2. PICK x \in S : \A y \in S : ~(<<y, x>> \in Less)
  BY <1>1, WFMin
<1>3. ASSUME NEW y \in S PROVE x <= y
  <2>1. <<y, x>> \in Nat \X Nat /\ <<y, x>>[1] = y /\ <<y, x>>[2] = x
    OBVIOUS
  <2>2. ~(y < x)
    BY <1>2, <2>1 DEF Less
  <2> QED
    BY <2>2
<1> QED
  BY <1>3 DEF Min

\* The daemon starts in the inductive invariant.
LEMMA InitRInv == Init => RInv
<1> SUFFICES ASSUME Init PROVE RInv
  OBVIOUS
<1>1. late \in BOOLEAN
  BY Zenon DEF Init
<1>2. DOMAIN route = {} /\ DOMAIN r = {}
  BY DEF Init, Empty
<1> QED
  BY <1>1, <1>2 DEF Init, RInv, TypeInv, AliveInv, NullInv, RouteWithinR, FirstRoundInv,
     MeasuredInv, DecidedInv, ScannedInv

\* A reply changes r only: it adds destinations, and in the work of a round it
\* sets late, which releases the invariant from everything about replies.
LEMMA ReplyInv == ASSUME RInv, NEW d \in Dst, NEW q, NEW n, Reply(d, q, n) PROVE RInv'
<1>1. DOMAIN r \subseteq DOMAIN r' /\ DOMAIN r' \subseteq Dst
  BY DEF Reply, Store, Put, RInv, TypeInv
<1>2. pc \in Work => late'
  BY DEF Reply, Store
<1>3. late' \in BOOLEAN
  BY Zenon DEF Reply, Store, RInv, TypeInv
<1>4. late => late'
  BY DEF Reply, Store
<1>5. /\ probe_id' = probe_id /\ route' = route /\ revived' = revived
      /\ \/ pc' = pc /\ crash' = crash
         \/ pc' = "dead" /\ crash' = "race"
  BY DEF Reply, Store, Goto, Die, noise
<1>6. pc \in {"begin", "open"} \cup Work
  BY DEF Reply, Store
<1> QED
  BY <1>1, <1>2, <1>3, <1>4, <1>5, <1>6 DEF RInv, TypeInv, AliveInv, NullInv, RouteWithinR,
     FirstRoundInv, MeasuredInv, DecidedInv, ScannedInv, Work

\* The steps between two works keep the invariant.
LEMMA OutsideInv == RInv /\ (Begin \/ StartWork \/ SkipRound) => RInv'
<1> SUFFICES ASSUME RInv, Begin \/ StartWork \/ SkipRound PROVE RInv'
  OBVIOUS
<1>1. late' \in BOOLEAN
  BY Zenon DEF RInv, TypeInv, Begin, StartWork, SkipRound
<1> QED
  BY <1>1 DEF RInv, TypeInv, AliveInv, NullInv, RouteWithinR, FirstRoundInv, MeasuredInv,
     DecidedInv, ScannedInv, Begin, StartWork, SkipRound, Goto, history, noise

\* A log thread adds an empty destination to r, and says so.
LEMMA ReviveInv == ASSUME RInv, NEW d \in Dst, NEW q, Revive(d, q) PROVE RInv'
<1>1. /\ UNCHANGED <<pc, probe_id, agg, route, late, crash>> /\ revived'
      /\ r' = Put(r, d, [x \in {q} |-> {}])
  BY DEF Revive
<1>2. /\ DOMAIN r' = DOMAIN r \cup {d} /\ Peers(d)' = {}
      /\ \A e \in DOMAIN r : e # d => Peers(e)' = Peers(e) /\ Measured(e)' = Measured(e)
  BY <1>1 DEF Put, Peers, Measured, At
<1>3. Measured(d)' = {}
  BY <1>2 DEF Measured
<1> QED
  BY <1>1, <1>2, <1>3 DEF RInv, TypeInv, AliveInv, NullInv, RouteWithinR, FirstRoundInv,
     MeasuredInv, DecidedInv, ScannedInv

\* pfr_route_update removes the same destinations from r and route.
LEMMA UpdateInv == RInv /\ RouteUpdate => RInv'
<1> SUFFICES ASSUME RInv, RouteUpdate PROVE RInv'
  OBVIOUS
<1>1. /\ DOMAIN route' \subseteq DOMAIN r' /\ DOMAIN route' \subseteq DOMAIN route
      /\ DOMAIN r' \subseteq DOMAIN r
  BY DEF RouteUpdate, RInv, RouteWithinR, Drop
<1>2. \/ pc' = "calc" /\ crash' = crash
      \/ pc' = "dead" /\ crash' = "iterator"
  BY DEF RouteUpdate, Goto, Die
<1>3. pc = "update" /\ probe_id' = probe_id /\ late' = late /\ revived' = revived
  BY DEF RouteUpdate, Erase
<1> QED
  BY <1>1, <1>2, <1>3 DEF RInv, TypeInv, AliveInv, NullInv, RouteWithinR, FirstRoundInv,
     MeasuredInv, DecidedInv, ScannedInv

\* pfr_calc_avg_rtt gives every peer that has answered its aggregate.
LEMMA CalcAvgInv == RInv /\ CalcAvgRtt => RInv'
<1> SUFFICES ASSUME RInv, CalcAvgRtt PROVE RInv'
  OBVIOUS
<1>1. /\ pc = "calc" /\ pc' = "stddev" /\ r' = Touch
      /\ probe_id' = probe_id /\ late' = late /\ route' = route /\ crash' = crash
      /\ revived' = revived
  BY DEF CalcAvgRtt, Goto, history, noise
<1>2. DOMAIN r' = DOMAIN r /\ \A d \in DOMAIN r : Peers(d)' = Peers(d)
  BY <1>1, TouchPeers
<1>3. DOMAIN agg' = DOMAIN r /\ \A d \in DOMAIN r : DOMAIN agg'[d] = Peers(d)
  BY DEF CalcAvgRtt
<1>4. \A d \in DOMAIN r' : Peers(d)' = Measured(d)'
  BY <1>2, <1>3 DEF Measured, At
<1> QED
  BY <1>1, <1>2, <1>4 DEF RInv, TypeInv, AliveInv, NullInv, RouteWithinR, FirstRoundInv,
     MeasuredInv, DecidedInv, ScannedInv

\* pfr_calc_stddev_rtt dies only on a reply without aggregate.
LEMMA CalcStddevInv == RInv /\ CalcStddevRtt => RInv'
<1> SUFFICES ASSUME RInv, CalcStddevRtt PROVE RInv'
  OBVIOUS
<1>1. /\ pc = "stddev" /\ r' = Touch /\ agg' = agg /\ revived' = revived
      /\ probe_id' = probe_id /\ late' = late /\ route' = route
  BY DEF CalcStddevRtt, history, noise
<1>2. DOMAIN r' = DOMAIN r /\ \A d \in DOMAIN r : Peers(d)' = Peers(d)
  BY <1>1, TouchPeers
<1>3. \A d \in DOMAIN r : Measured(d)' = Measured(d)
  BY <1>1, <1>2 DEF Measured
<1>4. \/ pc' = "scan" /\ crash' = crash
      \/ pc' = "dead" /\ late
  BY DEF CalcStddevRtt, Goto, Die, RInv, MeasuredInv
<1> QED
  BY <1>1, <1>2, <1>3, <1>4 DEF RInv, TypeInv, AliveInv, NullInv, RouteWithinR,
     FirstRoundInv, MeasuredInv, DecidedInv, ScannedInv

\* What pfr_route_scan stores is, for each destination, what its search finds or what a
\* log thread makes of it.
LEMMA ScanFound ==
    ASSUME RouteScan
    PROVE  \E start \in {min_rtt, MinRtt} : \E found :
              /\ StoreDecisions(found)
              /\ \A d \in DOMAIN r : \/ found[d] = Search(d, From(d, start))
                                     \/ found[d] \in Disturbed(d)
              /\ ~mixed' => /\ ~mixed
                            /\ \A d \in DOMAIN r : found[d] = Search(d, From(d, start))
<1>1. PICK start \in {min_rtt, MinRtt} :
         LET searched == [d \in DOMAIN r |-> Search(d, From(d, start))]
         IN  \E found \in Outcomes(searched) :
                /\ mixed' = (mixed \/ found # searched)
                /\ StoreDecisions(found)
  BY DEF RouteScan
<1> DEFINE searched == [d \in DOMAIN r |-> Search(d, From(d, start))]
<1>2. PICK found \in Outcomes(searched) :
         mixed' = (mixed \/ found # searched) /\ StoreDecisions(found)
  BY <1>1
<1>3. \A d \in DOMAIN r : searched[d] = Search(d, From(d, start))
  OBVIOUS
<1>4. ~mixed' => ~mixed /\ found = searched
  BY <1>2
<1> HIDE DEF searched
<1>5. \A d \in DOMAIN r : found[d] = searched[d] \/ found[d] \in Disturbed(d)
  BY <1>2 DEF Outcomes
<1> QED
  BY <1>2, <1>3, <1>4, <1>5

\* pfr_route_scan decides for every destination of r, and before it route has
\* no others.
LEMMA ScanInv == RInv /\ RouteScan => RInv'
<1> SUFFICES ASSUME RInv, RouteScan PROVE RInv'
  OBVIOUS
<1>1. /\ pc = "scan" /\ r' = Touch /\ probe_id' = probe_id /\ late' = late
      /\ revived' = revived
  BY DEF RouteScan
<1>2. DOMAIN r' = DOMAIN r
  BY <1>1, TouchPeers
<1>3. PICK found : StoreDecisions(found)
  BY ScanFound
<1>4. CASE Die("null") /\ route' = route /\ \E d \in DOMAIN r : Peers(d) # Measured(d)
  BY <1>1, <1>2, <1>4 DEF Die, RInv, TypeInv, AliveInv, NullInv, RouteWithinR,
     FirstRoundInv, MeasuredInv, DecidedInv, ScannedInv
<1>5. CASE /\ Goto("free")
           /\ route' = [d \in DOMAIN route \cup Scanned |->
                          IF d \in Scanned
                          THEN Put(At(route, d, Empty), probe_id, NewEntry(d, found[d]))
                          ELSE route[d]]
  <2>2. DOMAIN route' \subseteq DOMAIN r'
    BY <1>2, <1>5 DEF Scanned, RInv, RouteWithinR
  <2>3. DOMAIN route \subseteq Scanned
    BY <1>1 DEF RInv, RouteWithinR, FirstRoundInv, Scanned, TypeInv
  <2>4. \A d \in DOMAIN route' : probe_id \in DOMAIN route'[d]
    BY <1>5, <2>3 DEF Put
  <2>5. probe_id > 0 => DOMAIN r' \subseteq DOMAIN route'
    BY <1>2, <1>5 DEF Scanned
  <2> QED
    BY <1>1, <1>2, <1>5, <2>2, <2>4, <2>5 DEF Goto, RInv, TypeInv, AliveInv, NullInv, RouteWithinR,
       FirstRoundInv, MeasuredInv, DecidedInv, ScannedInv
<1> QED
  BY <1>3, <1>4, <1>5 DEF StoreDecisions

\* pfr_route_free creates entries of route for destinations of r only, and for
\* none without decision unless a reply came in or a log thread created one again.
LEMMA FreeInv == RInv /\ RouteFree => RInv'
<1> SUFFICES ASSUME RInv, RouteFree PROVE RInv'
  OBVIOUS
<1>1. /\ pc = "free" /\ pc' = "delete" /\ probe_id' = probe_id /\ late' = late
      /\ crash' = crash /\ revived' = revived
  BY DEF RouteFree, Goto, history, noise
<1>2. CASE probe_id < 2
  BY <1>1, <1>2 DEF RouteFree, RInv, TypeInv, AliveInv, NullInv, RouteWithinR,
     FirstRoundInv, MeasuredInv, DecidedInv, ScannedInv
<1>3. CASE probe_id >= 2
  <2>1. /\ DOMAIN r' = DOMAIN r
        /\ route' = [d \in DOMAIN route \cup DOMAIN r |->
                        IF d \in DOMAIN r
                        THEN Drop(At(route, d, Empty), {probe_id - 2})
                        ELSE route[d]]
    <3>1. ~(probe_id < 2)
      BY <1>3 DEF RInv, TypeInv
    <3> QED
      BY <3>1 DEF RouteFree
  <2>2. DOMAIN route' \subseteq DOMAIN r'
    BY <2>1 DEF RInv, RouteWithinR
  <2>3. ASSUME ~late, ~revived, NEW d \in DOMAIN route' PROVE probe_id \in DOMAIN route'[d]
    <3>1. d \in DOMAIN route /\ d \in DOMAIN r
      BY <1>1, <1>3, <2>1, <2>3 DEF RInv, RouteWithinR, ScannedInv, TypeInv
    <3>2. route'[d] = Drop(route[d], {probe_id - 2})
      BY <2>1, <3>1 DEF At
    <3>3. probe_id \in DOMAIN route[d] /\ probe_id # probe_id - 2
      BY <1>1, <2>3, <3>1 DEF RInv, DecidedInv, TypeInv
    <3> QED
      BY <3>2, <3>3 DEF Drop
  <2> QED
    BY <1>1, <1>3, <2>1, <2>2, <2>3 DEF RInv, TypeInv, AliveInv, NullInv, RouteWithinR,
       FirstRoundInv, MeasuredInv, DecidedInv, ScannedInv
<1> QED
  BY <1>2, <1>3 DEF RInv, TypeInv

\* pfr_delete and pfr_delete_all remove the same destinations from r and route.
LEMMA DeleteInv ==
    ASSUME RInv, NEW S, NEW place \in {"signals", "exit"}, DeleteRoutes(S, place),
           pc \in {"delete", "signals"}, probe_id' = probe_id, late' = late
    PROVE  RInv'
<1>1. PICK T : r' = Drop(r, T) /\ route' = Drop(route, T)
  BY DEF DeleteRoutes
<1>2. /\ DOMAIN route' \subseteq DOMAIN r' /\ DOMAIN r' \subseteq DOMAIN r
      /\ \A d \in DOMAIN route' : d \in DOMAIN route /\ route'[d] = route[d]
  BY <1>1 DEF RInv, RouteWithinR, Drop
<1>3. /\ revived' = revived
      /\ \/ pc' = place /\ crash' = crash
         \/ pc' = "dead" /\ crash' = "stoi"
  BY DEF DeleteRoutes, Erase, Goto, Die
<1> QED
  BY <1>2, <1>3 DEF RInv, TypeInv, AliveInv, NullInv, RouteWithinR, FirstRoundInv,
     MeasuredInv, DecidedInv, ScannedInv

\* pfr_routes_man dies of NULL only at a destination without decision, which a
\* late reply or a log thread has brought in.
LEMMA AdvertiseInv == RInv /\ RoutesMan => RInv'
<1> SUFFICES ASSUME RInv, RoutesMan PROVE RInv'
  OBVIOUS
<1>1. /\ pc = "advertise" /\ r' = r /\ route' = route /\ late' = late
      /\ revived' = revived
  BY DEF RoutesMan, noise
<1>2. CASE Fatal # {} /\ pc' = "dead" /\ UNCHANGED probe_id
             /\ crash' = IF probe_id \in DOMAIN route[Min(Fatal)] THEN "stoi" ELSE "null"
  <2>1. Min(Fatal) \in DOMAIN route
    <3>1. Fatal \subseteq DOMAIN route /\ Fatal \subseteq Nat
      BY RoundsAssumption DEF Fatal, RInv, TypeInv, RouteWithinR
    <3> QED
      BY <1>2, <3>1, MinIsMember
  <2>2. crash' = "null" => late \/ revived
    BY <1>1, <1>2, <2>1 DEF RInv, DecidedInv
  <2> QED
    BY <1>1, <1>2, <2>2 DEF RInv, TypeInv, AliveInv, NullInv, RouteWithinR,
       FirstRoundInv, MeasuredInv, DecidedInv, ScannedInv
<1>3. CASE pc' = "begin" /\ probe_id' = probe_id + 1 /\ crash' = crash
  BY <1>1, <1>3 DEF RInv, TypeInv, AliveInv, NullInv, RouteWithinR,
     FirstRoundInv, MeasuredInv, DecidedInv, ScannedInv
<1> QED
  BY <1>2, <1>3 DEF RoutesMan, Goto, Die

\* A new process knows nothing, whatever the earlier one left in gobgp.
LEMMA RestartInv == Restart => RInv'
<1> SUFFICES ASSUME Restart PROVE RInv'
  OBVIOUS
<1>1. late' \in BOOLEAN
  BY Zenon DEF Restart
<1>2. DOMAIN route' = {} /\ DOMAIN r' = {}
  BY DEF Restart, Empty
<1> QED
  BY <1>1, <1>2 DEF Restart, RInv, TypeInv, AliveInv, NullInv, RouteWithinR, FirstRoundInv,
     MeasuredInv, DecidedInv, ScannedInv

\* The invariant is inductive for every step of the rounds.
LEMMA NextRInv == RInv /\ [Next]_vars => RInv'
<1> SUFFICES ASSUME RInv, [Next]_vars PROVE RInv'
  OBVIOUS
<1>1. CASE Receive
  BY <1>1, ReplyInv DEF Receive
<1>2. CASE Begin \/ StartWork \/ SkipRound
  BY <1>2, OutsideInv
<1>3. CASE RouteUpdate
  BY <1>3, UpdateInv
<1>4. CASE CalcAvgRtt
  BY <1>4, CalcAvgInv
<1>5. CASE CalcStddevRtt
  BY <1>5, CalcStddevInv
<1>6. CASE RouteScan
  BY <1>6, ScanInv
<1>7. CASE RouteFree
  BY <1>7, FreeInv
<1>8. CASE RouteDelete
  BY <1>8, DeleteInv DEF RouteDelete
<1>9. CASE Shutdown
  BY <1>9, DeleteInv DEF Shutdown
<1>10. CASE NoShutdown
  BY <1>10 DEF NoShutdown, Goto, Die, noise, RInv, TypeInv, AliveInv, NullInv, RouteWithinR,
     FirstRoundInv, MeasuredInv, DecidedInv, ScannedInv
<1>11. CASE RoutesMan
  BY <1>11, AdvertiseInv
<1>12. CASE NoAdvertise
  BY <1>12 DEF NoAdvertise, Goto, history, noise, RInv, TypeInv, AliveInv, NullInv, RouteWithinR,
     FirstRoundInv, MeasuredInv, DecidedInv, ScannedInv
<1>13. CASE ThreadExits
  BY <1>13 DEF ThreadExits, Die, history, noise, RInv, TypeInv, AliveInv, NullInv, RouteWithinR,
     FirstRoundInv, MeasuredInv, DecidedInv, ScannedInv
<1>14. CASE Restart
  BY <1>14, RestartInv
<1>15. CASE UNCHANGED vars
  BY <1>15 DEF vars, history, noise, RInv, TypeInv, AliveInv, NullInv, RouteWithinR, FirstRoundInv,
     MeasuredInv, DecidedInv, ScannedInv, Peers, Measured
<1>16. CASE LogWalks
  BY <1>16, ReviveInv DEF LogWalks
<1> QED
  BY <1>1, <1>2, <1>3, <1>4, <1>5, <1>6, <1>7, <1>8, <1>9, <1>10, <1>11, <1>12, <1>13,
     <1>14, <1>15, <1>16 DEF Next, Finished

\* The inductive invariant holds in every reachable state.
LEMMA RoundsInv == Spec => []RInv
  BY InitRInv, NextRInv, PTL DEF Spec

\* A destination that route knows has measurements in r, whatever is removed,
\* given up, created by an operator [] or brought back by a late reply.
THEOREM RouteCorrect == Spec => []RouteWithinR
<1>1. RInv => RouteWithinR
  BY DEF RInv
<1> QED
  BY <1>1, RoundsInv, PTL

\* A NULL dereference of pfr_calc_stddev_rtt, pfr_route_scan or pfr_routes_man
\* needs a reply that proc_v4 stored during the work of that round, or a destination
\* that pfr_route_scan_sql has created behind its erasure.
THEOREM NullCorrect == Spec => []NullNeedsLateReply
<1>1. RInv => NullNeedsLateReply
  BY DEF RInv, NullInv, NullNeedsLateReply
<1> QED
  BY <1>1, RoundsInv, PTL
----------------------------------------------------------------------------
(***************************************************************************)
(* What the rounds leave in gobgp: no route without a decision unless      *)
(* something went wrong, and no difference between the decisions and the   *)
(* routes although most decisions are not sent.  The last part is about    *)
(* what stays in the maps of the daemon itself.                            *)
(***************************************************************************)
\* The places of a round before and after pfr_route_scan.
Before == {"begin", "open", "update", "calc", "stddev", "scan"}
After == {"free", "delete", "signals", "advertise"}

Decided(d, q) == HasRoute(d, q) /\ route[d][q].curr # 0

(***************************************************************************)
(* The inductive invariant.  The last decision about a destination is that *)
(* of the previous round before pfr_route_scan, and that of this round     *)
(* after it.  OwnedInv: a route of this process in gobgp has a last        *)
(* decision, with a peer.  FollowInv: from round 2 on, the route in gobgp  *)
(* is that of the last decision before pfr_route_scan, and the one that    *)
(* the new decision calls its predecessor after it.                        *)
(***************************************************************************)
BoundInv ==
    /\ skips \in Nat
    /\ \A d \in DOMAIN route : \A q \in DOMAIN route[d] :
          q \in Nat /\ q <= probe_id /\ (pc \in Before => q < probe_id)

OwnedInv ==
    skips = 0 /\ ~batch /\ ~lost =>
        \A d \in Dst : rib[d] # 0 /\ d \notin inherited =>
            /\ d \in DOMAIN route
            /\ pc \in Before => probe_id > 0 /\ Decided(d, probe_id - 1)
            /\ pc \in After => Decided(d, probe_id)
            /\ pc # "exit"

FollowInv ==
    advertise /\ ~changed /\ ~lost /\ probe_id > 1 =>
        \A d \in DOMAIN route :
            /\ pc \in Before /\ Decided(d, probe_id - 1) =>
                  rib[d] = route[d][probe_id - 1].curr /\ d \notin inherited
            /\ pc \in After /\ HasRoute(d, probe_id) /\ route[d][probe_id].prev # 0 =>
                  rib[d] = route[d][probe_id].prev /\ d \notin inherited

RibInv == BoundInv /\ OwnedInv /\ FollowInv
----------------------------------------------------------------------------
\* The daemon starts without decisions, and without routes of its own.
LEMMA InitRibInv == Init => RibInv
<1> SUFFICES ASSUME Init PROVE RibInv
  OBVIOUS
<1>1. DOMAIN route = {} /\ skips = 0 /\ probe_id = 0 /\ \A d \in Dst : rib[d] = 0
  BY DEF Init, Empty
<1> QED
  BY <1>1 DEF RibInv, BoundInv, OwnedInv, FollowInv

\* After a restart every route in gobgp is one of an earlier process.
LEMMA RestartRibInv == Restart => RibInv'
<1> SUFFICES ASSUME Restart PROVE RibInv'
  OBVIOUS
<1>1. /\ DOMAIN route' = {} /\ skips' = 0 /\ probe_id' = 0
      /\ rib' = rib /\ inherited' = {d \in Dst : rib[d] # 0}
  BY DEF Restart, Empty
<1> QED
  BY <1>1 DEF RibInv, BoundInv, OwnedInv, FollowInv

\* Steps that change neither decisions nor routes, on one side of pfr_route_scan,
\* or into death.
LEMMA StillRibInv ==
    ASSUME RibInv,
           UNCHANGED <<route, rib, inherited, probe_id, skips, batch, lost, advertise, changed>>,
           \/ pc' = pc
           \/ pc' = "dead"
           \/ pc \in Before /\ pc' \in Before
           \/ pc \in After /\ pc' \in After
    PROVE  RibInv'
<1>1. BoundInv'
  BY DEF RibInv, BoundInv, Before, After
<1>2. OwnedInv'
  BY DEF RibInv, OwnedInv, Before, After, Decided, HasRoute
<1>3. FollowInv'
  BY DEF RibInv, FollowInv, Before, After, Decided, HasRoute
<1> QED
  BY <1>1, <1>2, <1>3 DEF RibInv

\* A skipped round leaves no decision at all for the round before: FollowInv has
\* nothing to say in the next one, and OwnedInv gives up.
LEMMA SkipRibInv == RInv /\ RibInv /\ SkipRound => RibInv'
<1> SUFFICES ASSUME RInv, RibInv, SkipRound PROVE RibInv'
  OBVIOUS
<1>1. /\ pc = "open" /\ pc' = "begin" /\ probe_id' = probe_id + 1 /\ probe_id \in Nat
      /\ skips' = skips + 1 /\ skips \in Nat /\ route' = route
  BY DEF SkipRound, Goto, RInv, TypeInv, RibInv, BoundInv
<1>2. BoundInv'
  BY <1>1 DEF RibInv, BoundInv, Before
<1>3. OwnedInv'
  BY <1>1 DEF OwnedInv
<1>4. FollowInv'
  <2>1. \A d \in DOMAIN route : ~HasRoute(d, probe_id)
    BY <1>1 DEF RibInv, BoundInv, HasRoute, Before
  <2> QED
    BY <1>1, <2>1 DEF FollowInv, Decided, HasRoute, After
<1> QED
  BY <1>2, <1>3, <1>4 DEF RibInv

\* Removing destinations together with their routes keeps the invariant, when
\* every removed destination that has a route of this process is withdrawn.
LEMMA RemoveRibInv ==
    ASSUME RInv, RibInv, NEW S, NEW W, NEW failed, W \subseteq S,
           route' = Drop(route, S), Withdraw(W, failed),
           probe_id' = probe_id, skips' = skips, conf' = conf,
           batch => batch',
           skips = 0 /\ ~batch' /\ ~lost' =>
               \A d \in S \cap Dst : rib[d] # 0 => d \in W \/ d \in inherited,
           \/ pc \in Before /\ pc' \in Before \cup {"dead"}
           \/ pc \in After /\ pc' \in After \cup {"dead"}
    PROVE  RibInv'
<1>1. /\ \A d \in Dst : rib'[d] = IF d \in W \ failed THEN 0 ELSE rib[d]
      /\ inherited' \subseteq inherited
      /\ \A d \in Dst : d \in inherited /\ d \notin W => d \in inherited'
      /\ lost => lost'
      /\ ~lost' => failed = {}
  BY DEF Withdraw
<1>2. /\ DOMAIN route' = DOMAIN route \ S
      /\ \A d \in DOMAIN route' : route'[d] = route[d]
  BY DEF Drop
<1>3. advertise' = advertise /\ changed' = changed
  BY DEF conf, settings
<1>4. BoundInv'
  BY <1>2 DEF RibInv, BoundInv, Before, After
<1>5. OwnedInv'
  <2> SUFFICES ASSUME skips' = 0, ~batch', ~lost', NEW d \in Dst, rib'[d] # 0, d \notin inherited'
               PROVE  /\ d \in DOMAIN route'
                      /\ pc' \in Before => probe_id' > 0 /\ Decided(d, probe_id - 1)'
                      /\ pc' \in After => Decided(d, probe_id)'
                      /\ pc' # "exit"
    BY DEF OwnedInv, Decided, HasRoute
  <2>1. skips = 0 /\ ~batch /\ ~lost
    BY <1>1
  <2>2. rib[d] # 0 /\ d \notin W
    BY <1>1
  <2>3. d \notin inherited
    BY <1>1, <2>2
  <2>4. d \notin S
    BY <2>1, <2>2, <2>3
  <2>5. /\ d \in DOMAIN route
        /\ pc \in Before => probe_id > 0 /\ Decided(d, probe_id - 1)
        /\ pc \in After => Decided(d, probe_id)
    BY <2>1, <2>2, <2>3 DEF RibInv, OwnedInv
  <2> QED
    BY <1>2, <2>4, <2>5 DEF Decided, HasRoute, Before, After
<1>6. FollowInv'
  <2> SUFFICES ASSUME advertise', ~changed', ~lost', probe_id' > 1, NEW d \in DOMAIN route'
               PROVE  /\ pc' \in Before /\ Decided(d, probe_id - 1)' =>
                            rib'[d] = route'[d][probe_id - 1].curr /\ d \notin inherited'
                      /\ pc' \in After /\ HasRoute(d, probe_id)' /\ route'[d][probe_id].prev # 0 =>
                            rib'[d] = route'[d][probe_id].prev /\ d \notin inherited'
    BY DEF FollowInv
  <2>1. advertise /\ ~changed /\ ~lost /\ probe_id > 1
    BY <1>1, <1>3
  <2>2. d \in DOMAIN route /\ d \notin W /\ route'[d] = route[d]
    BY <1>2
  <2>3. /\ pc \in Before /\ Decided(d, probe_id - 1) =>
              rib[d] = route[d][probe_id - 1].curr /\ d \notin inherited
        /\ pc \in After /\ HasRoute(d, probe_id) /\ route[d][probe_id].prev # 0 =>
              rib[d] = route[d][probe_id].prev /\ d \notin inherited
    BY <2>1, <2>2 DEF RibInv, FollowInv
  <2>4. rib'[d] = rib[d]
    BY <1>1, <2>2 DEF RInv, TypeInv, RouteWithinR
  <2> QED
    BY <1>1, <2>2, <2>3, <2>4 DEF Decided, HasRoute, Before, After
<1> QED
  BY <1>4, <1>5, <1>6 DEF RibInv

\* A destination that pfr_route_update removes alone is the first that it
\* removes: the decision it looks up is the last one.
LEMMA UpdateRibInv == RInv /\ RibInv /\ RouteUpdate => RibInv'
<1> SUFFICES ASSUME RInv, RibInv, RouteUpdate PROVE RibInv'
  OBVIOUS
<1>1. PICK S \in SUBSET Unlisted : \E failed \in RpcLost(Withdrawn(S)) :
         /\ route' = Drop(route, S)
         /\ Withdraw(Withdrawn(S), failed)
         /\ batch' = (batch \/ Cardinality(S) > 1)
         /\ \/ Goto("calc")
            \/ S # {} /\ Die("iterator")
  BY DEF RouteUpdate
<1>2. PICK failed \in RpcLost(Withdrawn(S)) : Withdraw(Withdrawn(S), failed)
  BY <1>1
<1>3. /\ pc = "update" /\ pc' \in {"calc", "dead"} /\ probe_id' = probe_id /\ skips' = skips
      /\ conf' = conf /\ Withdrawn(S) \subseteq S
  BY <1>1 DEF RouteUpdate, Goto, Die, Withdrawn
<1>4. S \subseteq Nat /\ IsFiniteSet(S)
  <2>1. S \subseteq Dst
    BY DEF Unlisted, RInv, TypeInv
  <2> QED
    BY <2>1, RoundsAssumption, FS_Subset
<1>5. ASSUME skips = 0, ~batch', ~lost', NEW d \in S \cap Dst, rib[d] # 0, d \notin inherited
      PROVE  d \in Withdrawn(S)
  <2>1. ~(Cardinality(S) > 1) /\ ~batch
    BY <1>1, <1>5
  <2>2. S = {d}
    <3>1. Cardinality(S) \in Nat /\ Cardinality(S) # 0
      BY <1>4, <1>5, FS_CardinalityType, FS_EmptySet
    <3>2. Cardinality(S) = 1
      BY <2>1, <3>1
    <3> QED
      BY <1>4, <1>5, <3>2, FS_Singleton
  <2>3. LookedUp(S, d) = probe_id
    BY <1>4, <2>2, MinIsMember DEF LookedUp
  <2>4. ~lost
    BY <1>2, <1>5 DEF Withdraw
  <2>5. probe_id > 0 /\ Decided(d, probe_id - 1) /\ probe_id \in Nat
    BY <1>3, <1>5, <2>1, <2>4 DEF RibInv, OwnedInv, Before, RInv, TypeInv
  <2>6. PICK q \in DOMAIN route[d] : q + 1 = probe_id /\ route[d][q].curr # 0
    BY <2>5 DEF Decided, HasRoute
  <2> QED
    BY <2>3, <2>5, <2>6 DEF Withdrawn, At, Decided, HasRoute
<1>6. batch => batch'
  BY <1>1
<1>7. skips = 0 /\ ~batch' /\ ~lost' =>
         \A d \in S \cap Dst : rib[d] # 0 => d \in Withdrawn(S) \/ d \in inherited
  BY <1>5
<1> QED
  BY <1>1, <1>2, <1>3, <1>6, <1>7, RemoveRibInv DEF Before

\* What pfr_route_scan writes, whatever a log thread makes of the search: the
\* predecessor is the decision of the previous round, and a destination that had a peer
\* keeps one.
LEMMA NewEntryPeers ==
    ASSUME NEW d, NEW s, probe_id \in Nat
    PROVE  /\ NewEntry(d, s).prev # 0 =>
                 /\ probe_id > 0 /\ Decided(d, probe_id - 1)
                 /\ NewEntry(d, s).prev = route[d][probe_id - 1].curr
           /\ probe_id > 0 /\ Decided(d, probe_id - 1) => NewEntry(d, s).curr # 0
  BY DEF NewEntry, Decided

\* pfr_route_scan turns the last decisions into predecessors.
LEMMA ScanRibInv == RInv /\ RibInv /\ RouteScan => RibInv'
<1> SUFFICES ASSUME RInv, RibInv, RouteScan PROVE RibInv'
  OBVIOUS
<1>1. /\ pc = "scan" /\ probe_id' = probe_id /\ probe_id \in Nat
      /\ UNCHANGED <<rib, inherited, skips, batch, lost, advertise, changed>>
  BY DEF RouteScan, RInv, TypeInv
<1>2. PICK found : StoreDecisions(found)
  BY ScanFound
<1>3. CASE route' = route /\ pc' = "dead"
  BY <1>1, <1>3, StillRibInv
<1>4. CASE /\ pc' = "free"
           /\ route' = [d \in DOMAIN route \cup Scanned |->
                          IF d \in Scanned
                          THEN Put(At(route, d, Empty), probe_id, NewEntry(d, found[d]))
                          ELSE route[d]]
  <2>1. \A d \in Scanned : /\ d \in DOMAIN route' /\ d \in DOMAIN r
                           /\ DOMAIN route'[d] = DOMAIN At(route, d, Empty) \cup {probe_id}
                           /\ route'[d][probe_id] = NewEntry(d, found[d])
    BY <1>4 DEF Put, Scanned
  <2>2. \A d \in DOMAIN route' \ Scanned : d \in DOMAIN route /\ route'[d] = route[d]
    BY <1>4
  <2>3. \A d \in DOMAIN route : probe_id > 0 => d \in Scanned
    BY DEF Scanned, RInv, RouteWithinR
  <2>4. BoundInv'
    <3>1. ASSUME NEW d \in DOMAIN route', NEW q \in DOMAIN route'[d]
          PROVE  q \in Nat /\ q <= probe_id
      <4>1. CASE d \in Scanned
        <5>1. q = probe_id \/ q \in DOMAIN At(route, d, Empty)
          BY <3>1, <4>1, <2>1
        <5>2. DOMAIN Empty = {}
          BY DEF Empty
        <5>3. q = probe_id \/ (d \in DOMAIN route /\ q \in DOMAIN route[d])
          BY <5>1, <5>2 DEF At
        <5> QED
          BY <1>1, <5>3 DEF RibInv, BoundInv
      <4>2. CASE d \notin Scanned
        BY <3>1, <4>2, <2>2 DEF RibInv, BoundInv
      <4> QED
        BY <4>1, <4>2
    <3> QED
      BY <1>1, <1>4, <3>1 DEF RibInv, BoundInv, Before
  <2>5. OwnedInv'
    <3> SUFFICES ASSUME skips = 0, ~batch, ~lost, NEW d \in Dst, rib[d] # 0, d \notin inherited
                 PROVE  d \in DOMAIN route' /\ Decided(d, probe_id)'
      BY <1>1, <1>4 DEF OwnedInv, Before
    <3>1. d \in DOMAIN route /\ probe_id > 0 /\ Decided(d, probe_id - 1)
      BY <1>1 DEF RibInv, OwnedInv, Before
    <3>2. d \in Scanned
      BY <2>3, <3>1
    <3>3. NewEntry(d, found[d]).curr # 0
      BY <1>1, <3>1, NewEntryPeers
    <3> QED
      BY <1>1, <2>1, <3>2, <3>3 DEF Decided, HasRoute
  <2>6. FollowInv'
    <3> SUFFICES ASSUME advertise, ~changed, ~lost, probe_id > 1, NEW d \in DOMAIN route',
                        HasRoute(d, probe_id)', route'[d][probe_id].prev # 0
                 PROVE  rib[d] = route'[d][probe_id].prev /\ d \notin inherited
      BY <1>1, <1>4 DEF FollowInv, Before, Decided
    <3>1. d \in Scanned
      <4>1. d \notin Scanned => HasRoute(d, probe_id)
        BY <1>1, <2>2 DEF HasRoute
      <4> QED
        BY <1>1, <4>1 DEF HasRoute, RibInv, BoundInv, Before
    <3>2. route'[d][probe_id] = NewEntry(d, found[d])
      BY <2>1, <3>1
    <3>3. Decided(d, probe_id - 1) /\ NewEntry(d, found[d]).prev = route[d][probe_id - 1].curr
      BY <1>1, <3>2, NewEntryPeers
    <3> QED
      BY <1>1, <3>2, <3>3 DEF RibInv, FollowInv, Before, Decided, HasRoute
  <2> QED
    BY <2>4, <2>5, <2>6 DEF RibInv
<1> QED
  BY <1>2, <1>3, <1>4 DEF StoreDecisions, Goto, Die

\* pfr_route_free takes the decisions of round probe_id - 2 away, none of the last.
LEMMA FreeRibInv == RInv /\ RibInv /\ RouteFree => RibInv'
<1> SUFFICES ASSUME RInv, RibInv, RouteFree PROVE RibInv'
  OBVIOUS
<1>1. /\ pc = "free" /\ pc' = "delete" /\ probe_id' = probe_id /\ probe_id \in Nat
      /\ UNCHANGED <<rib, inherited, skips, batch, lost, advertise, changed>>
  BY DEF RouteFree, Goto, settings, history, RInv, TypeInv
<1>2. CASE route' = route
  BY <1>1, <1>2, StillRibInv DEF After
<1>3. CASE /\ probe_id >= 2
           /\ route' = [d \in DOMAIN route \cup DOMAIN r |->
                          IF d \in DOMAIN r
                          THEN Drop(At(route, d, Empty), {probe_id - 2})
                          ELSE route[d]]
  <2>1. DOMAIN route \subseteq DOMAIN r /\ DOMAIN route' = DOMAIN r /\ DOMAIN Empty = {}
    BY <1>3 DEF RInv, RouteWithinR, Empty
  <2>2. \A d \in DOMAIN route' \ DOMAIN route : DOMAIN route'[d] = {}
    BY <1>3, <2>1 DEF At, Drop
  <2>3. \A d \in DOMAIN route : /\ DOMAIN route'[d] = DOMAIN route[d] \ {probe_id - 2}
                                /\ \A q \in DOMAIN route'[d] : route'[d][q] = route[d][q]
    BY <1>3, <2>1 DEF At, Drop
  <2>4. BoundInv'
    BY <1>1, <2>2, <2>3 DEF RibInv, BoundInv, Before
  <2>5. \A d \in DOMAIN route' : HasRoute(d, probe_id)' <=> HasRoute(d, probe_id)
    BY <1>1, <2>1, <2>2, <2>3 DEF HasRoute
  <2>6. \A d \in DOMAIN route' : HasRoute(d, probe_id)' =>
           route'[d][probe_id] = route[d][probe_id]
    BY <1>1, <2>3, <2>5 DEF HasRoute
  <2>7. OwnedInv'
    <3> SUFFICES ASSUME skips = 0, ~batch, ~lost, NEW d \in Dst, rib[d] # 0, d \notin inherited
                 PROVE  d \in DOMAIN route' /\ Decided(d, probe_id)'
      BY <1>1 DEF OwnedInv, Before
    <3>1. d \in DOMAIN route /\ Decided(d, probe_id)
      BY <1>1 DEF RibInv, OwnedInv, After
    <3> QED
      BY <1>1, <2>1, <2>5, <2>6, <3>1 DEF Decided
  <2>8. FollowInv'
    <3> SUFFICES ASSUME advertise, ~changed, ~lost, probe_id > 1, NEW d \in DOMAIN route',
                        HasRoute(d, probe_id)', route'[d][probe_id].prev # 0
                 PROVE  rib[d] = route'[d][probe_id].prev /\ d \notin inherited
      BY <1>1 DEF FollowInv, Before
    <3>1. HasRoute(d, probe_id) /\ route'[d][probe_id] = route[d][probe_id]
      BY <2>5, <2>6
    <3> QED
      BY <1>1, <3>1 DEF RibInv, FollowInv, After, HasRoute
  <2> QED
    BY <2>4, <2>7, <2>8 DEF RibInv
<1> QED
  BY <1>2, <1>3 DEF RouteFree

\* pfr_delete withdraws every destination that it erases.
LEMMA DeleteRibInv == RInv /\ RibInv /\ RouteDelete => RibInv'
<1> SUFFICES ASSUME RInv, RibInv, RouteDelete PROVE RibInv'
  OBVIOUS
<1>1. /\ pc = "delete" /\ probe_id' = probe_id /\ skips' = skips /\ conf' = conf
      /\ batch' = batch /\ pc' \in {"signals", "dead"}
  BY DEF RouteDelete, DeleteRoutes, Goto, Die
<1>2. PICK T : /\ route' = Drop(route, T)
               /\ \E failed \in RpcLost(T) : Withdraw(T, failed)
  BY DEF RouteDelete, DeleteRoutes
<1>3. PICK failed : Withdraw(T, failed)
  BY <1>2
<1> QED
  BY <1>1, <1>2, <1>3, RemoveRibInv DEF After

\* pfr_delete_all withdraws every destination with a decision of this round,
\* which after pfr_route_scan is every destination with a route of this process.
LEMMA ShutdownRibInv == RInv /\ RibInv /\ Shutdown => RibInv'
<1> SUFFICES ASSUME RInv, RibInv, Shutdown PROVE RibInv'
  OBVIOUS
<1> DEFINE S == {d \in DOMAIN route : probe_id \in DOMAIN route[d]}
           fatal == {d \in S : route[d][probe_id].curr = 0}
           done == {d \in S \ fatal : \A e \in fatal : d < e}
<1>1. /\ pc = "signals" /\ probe_id' = probe_id /\ skips' = skips /\ conf' = conf
      /\ batch' = batch
      /\ \/ fatal = {} /\ pc' = "exit"
         \/ pc' = "dead"
  BY DEF Shutdown, DeleteRoutes, Goto, Die
<1>2. /\ route' = Drop(route, done)
      /\ \E failed \in RpcLost(done) : Withdraw(done, failed)
  BY DEF Shutdown, DeleteRoutes
<1>3. PICK failed : Withdraw(done, failed)
  BY <1>2
<1>4. CASE pc' = "dead"
  <2> HIDE DEF done
  <2> QED
    BY <1>1, <1>2, <1>3, <1>4, RemoveRibInv DEF After
<1>5. CASE fatal = {} /\ pc' = "exit"
  <2>1. DOMAIN route' \subseteq DOMAIN route /\ \A d \in DOMAIN route' : route'[d] = route[d]
    BY <1>2 DEF Drop
  <2>2. BoundInv'
    BY <1>1, <1>5, <2>1 DEF RibInv, BoundInv, Before
  <2>3. FollowInv'
    BY <1>5 DEF FollowInv, Before, After
  <2>4. OwnedInv'
    <3> SUFFICES ASSUME skips = 0, ~batch, ~lost', NEW d \in Dst, rib'[d] # 0,
                        d \notin inherited'
                 PROVE  FALSE
      BY <1>1 DEF OwnedInv
    <3>1. ~lost /\ failed = {}
      BY <1>3 DEF Withdraw
    <3>2. d \notin done /\ rib[d] # 0 /\ d \notin inherited
      <4> HIDE DEF done
      <4> QED
        BY <1>3, <3>1 DEF Withdraw
    <3>3. Decided(d, probe_id)
      BY <1>1, <3>1, <3>2 DEF RibInv, OwnedInv, After
    <3> QED
      BY <1>5, <3>2, <3>3 DEF Decided, HasRoute
  <2> QED
    BY <2>2, <2>3, <2>4 DEF RibInv
<1> QED
  BY <1>1, <1>4, <1>5

\* A reread of the configuration that switches enable_advertise is a change.
LEMMA SignalsRibInv == RInv /\ RibInv /\ NoShutdown => RibInv'
<1> SUFFICES ASSUME RInv, RibInv, NoShutdown PROVE RibInv'
  OBVIOUS
<1>1. /\ pc = "signals" /\ pc' \in {"advertise", "dead"}
      /\ UNCHANGED <<route, rib, inherited, probe_id, skips, batch, lost>>
  BY DEF NoShutdown, Goto, Die
<1>2. changed => changed'
  BY DEF NoShutdown, conf
<1>3. ~changed' => advertise' = advertise
  BY DEF NoShutdown, conf, settings
<1>4. BoundInv'
  BY <1>1 DEF RibInv, BoundInv, Before
<1>5. OwnedInv'
  BY <1>1 DEF RibInv, OwnedInv, Before, After, Decided, HasRoute
<1>6. FollowInv'
  BY <1>1, <1>2, <1>3 DEF RibInv, FollowInv, Before, After, Decided, HasRoute
<1> QED
  BY <1>4, <1>5, <1>6 DEF RibInv

\* A path that pfr_routes_man sends goes to a peer.
LEMMA SentDecided ==
    ASSUME NEW d \in Sent
    PROVE  d \in DOMAIN route /\ Decided(d, probe_id)
  BY DEF Sent, Fatal, Decided, HasRoute

\* A decision with a peer that the walk over route does not send goes to the
\* peer of its predecessor, and not before round 2.
LEMMA NotSent ==
    ASSUME Fatal = {}, probe_id > 0, NEW d \in DOMAIN route, d \notin Sent
    PROVE  /\ probe_id > 1 /\ HasRoute(d, probe_id)
           /\ route[d][probe_id].prev = route[d][probe_id].curr
  BY DEF Sent, Fatal, Suppressed, HasRoute

\* After pfr_routes_man the route of every destination is that of its decision:
\* it was sent now, or it is the one of the predecessor, which is in gobgp.
LEMMA AdvertiseRibInv == RInv /\ RibInv /\ RoutesMan => RibInv'
<1> SUFFICES ASSUME RInv, RibInv, RoutesMan PROVE RibInv'
  OBVIOUS
<1>1. /\ pc = "advertise" /\ probe_id \in Nat /\ route' = route
      /\ UNCHANGED <<skips, batch, advertise, changed>>
      /\ DOMAIN route \subseteq Dst
  BY DEF RoutesMan, conf, settings, RInv, TypeInv, RouteWithinR
<1>2. PICK failed \in RpcLost(Sent) : \E gone \in SUBSET failed : Send(failed, gone)
  BY DEF RoutesMan
<1>3. PICK gone \in SUBSET failed : Send(failed, gone)
  BY <1>2
<1>4. /\ lost => lost'
      /\ ~lost' => failed = {} /\ gone = {}
  BY <1>3 DEF Send
<1>5. ASSUME ~lost'
      PROVE  /\ \A d \in Dst : rib'[d] = IF d \in Sent THEN route[d][probe_id].curr ELSE rib[d]
             /\ inherited' = inherited \ Sent
  BY <1>3, <1>4, <1>5 DEF Send
<1>6. ASSUME skips = 0, ~batch, ~lost', NEW d \in Dst, rib'[d] # 0, d \notin inherited'
      PROVE  d \in DOMAIN route /\ Decided(d, probe_id)
  <2>1. CASE d \in Sent
    BY <2>1, SentDecided
  <2>2. CASE d \notin Sent
    <3>1. rib[d] # 0 /\ d \notin inherited /\ ~lost
      BY <1>4, <1>5, <1>6, <2>2
    <3> QED
      BY <1>1, <1>6, <3>1 DEF RibInv, OwnedInv, After
  <2> QED
    BY <2>1, <2>2
<1>7. CASE pc' = "dead" /\ probe_id' = probe_id
  <2>1. BoundInv'
    BY <1>1, <1>7 DEF RibInv, BoundInv, Before
  <2>2. OwnedInv'
    BY <1>1, <1>6, <1>7 DEF OwnedInv, Before, After
  <2>3. FollowInv'
    BY <1>7 DEF FollowInv, Before, After
  <2> QED
    BY <2>1, <2>2, <2>3 DEF RibInv
<1>8. CASE pc' = "begin" /\ probe_id' = probe_id + 1 /\ Fatal = {}
  <2>1. BoundInv'
    BY <1>1, <1>8 DEF RibInv, BoundInv, Before
  <2>2. OwnedInv'
    <3>1. probe_id' > 0 /\ probe_id' - 1 = probe_id
      BY <1>1, <1>8
    <3> QED
      BY <1>1, <1>6, <1>8, <3>1 DEF OwnedInv, Before, After, Decided, HasRoute
  <2>3. FollowInv'
    <3> SUFFICES ASSUME advertise, ~changed, ~lost', probe_id > 0, NEW d \in DOMAIN route,
                        Decided(d, probe_id)
                 PROVE  rib'[d] = route[d][probe_id].curr /\ d \notin inherited'
      BY <1>1, <1>8 DEF FollowInv, Before, After, Decided, HasRoute
    <3>1. CASE d \in Sent
      BY <1>1, <1>5, <3>1
    <3>2. CASE d \notin Sent
      <4>1. /\ probe_id > 1 /\ HasRoute(d, probe_id)
            /\ route[d][probe_id].prev = route[d][probe_id].curr
            /\ route[d][probe_id].curr # 0
        BY <1>8, <3>2, NotSent DEF Decided
      <4>2. rib[d] = route[d][probe_id].curr /\ d \notin inherited
        BY <1>1, <1>4, <4>1 DEF RibInv, FollowInv, After
      <4> QED
        BY <1>1, <1>5, <3>2, <4>2
    <3> QED
      BY <3>1, <3>2
  <2> QED
    BY <2>1, <2>2, <2>3 DEF RibInv
<1> QED
  BY <1>7, <1>8 DEF RoutesMan, Goto, Die

\* Without advertisements nothing is said about the routes in gobgp.
LEMMA SilentRibInv == RInv /\ RibInv /\ NoAdvertise => RibInv'
<1> SUFFICES ASSUME RInv, RibInv, NoAdvertise PROVE RibInv'
  OBVIOUS
<1>1. /\ pc = "advertise" /\ pc' = "begin" /\ probe_id' = probe_id + 1 /\ probe_id \in Nat
      /\ UNCHANGED <<route, rib, inherited, skips, batch, lost, advertise, changed>>
      /\ ~advertise /\ probe_id' - 1 = probe_id /\ probe_id' > 0
  BY DEF NoAdvertise, Goto, settings, history, RInv, TypeInv
<1>2. BoundInv'
  BY <1>1 DEF RibInv, BoundInv, Before
<1>3. OwnedInv'
  BY <1>1 DEF RibInv, OwnedInv, Before, After, Decided, HasRoute
<1>4. FollowInv'
  BY <1>1 DEF FollowInv
<1> QED
  BY <1>2, <1>3, <1>4 DEF RibInv

\* The invariant is inductive for every step of the rounds.
LEMMA NextRibInv == RInv /\ RibInv /\ [Next]_vars => RibInv'
<1> SUFFICES ASSUME RInv, RibInv, [Next]_vars PROVE RibInv'
  OBVIOUS
<1>1. CASE Receive
  <2>1. /\ UNCHANGED <<route, rib, inherited, probe_id, skips, batch, lost, advertise, changed>>
        /\ pc' = pc \/ pc' = "dead"
    BY <1>1 DEF Receive, Reply, Store, Goto, Die, conf, settings
  <2> QED
    BY <2>1, StillRibInv
<1>2. CASE Begin \/ StartWork \/ CalcAvgRtt \/ CalcStddevRtt \/ ThreadExits
  <2>1. /\ UNCHANGED <<route, rib, inherited, probe_id, skips, batch, lost, advertise, changed>>
        /\ pc' = "dead" \/ (pc \in Before /\ pc' \in Before)
    BY <1>2 DEF Begin, StartWork, CalcAvgRtt, CalcStddevRtt, ThreadExits, Goto, Die, settings,
       history, Before
  <2> QED
    BY <2>1, StillRibInv
<1>3. CASE Finished \/ LogWalks \/ UNCHANGED vars
  BY <1>3, StillRibInv DEF Finished, LogWalks, Revive, vars, settings, history
<1> QED
  BY <1>1, <1>2, <1>3, SkipRibInv, UpdateRibInv, ScanRibInv, FreeRibInv, DeleteRibInv,
     ShutdownRibInv, SignalsRibInv, AdvertiseRibInv, SilentRibInv, RestartRibInv DEF Next

\* The invariant holds in every reachable state.
LEMMA RibCorrect == Spec => [](RInv /\ RibInv)
  BY InitRInv, NextRInv, InitRibInv, NextRibInv, PTL DEF Spec

\* A route of this process stays in gobgp without a decision only after a skipped
\* round, a removal of two destinations at once, or a failed call to gobgp.
THEOREM OrphanCorrect == Spec => []OrphanNeedsCause
<1>1. RibInv => OrphanNeedsCause
  BY DEF RibInv, OwnedInv, OrphanNeedsCause
<1> QED
  BY <1>1, RibCorrect, PTL

\* Under the same conditions pfr_delete_all leaves no route of this process.
THEOREM ShutdownCorrect == Spec => []ShutdownWithdrawsAll
<1>1. RibInv => ShutdownWithdrawsAll
  BY DEF RibInv, OwnedInv, ShutdownWithdrawsAll
<1> QED
  BY <1>1, RibCorrect, PTL

\* Between rounds gobgp has the peers that pfr_route_scan decided, although
\* pfr_routes_man only compares a decision with its predecessor.
THEOREM RibFollows == Spec => []RibFollowsRoute
<1>1. RInv /\ RibInv => RibFollowsRoute
  <2> SUFFICES ASSUME RInv, RibInv, pc = "begin", advertise, ~changed, ~lost, probe_id > 1,
                      NEW d \in DOMAIN route, NEW q \in DOMAIN route[d],
                      q + 1 = probe_id, route[d][q].curr # 0
               PROVE  rib[d] = route[d][q].curr
    BY DEF RibFollowsRoute
  <2>1. q = probe_id - 1
    BY DEF RibInv, BoundInv, RInv, TypeInv
  <2> QED
    BY <2>1 DEF RibInv, FollowInv, Before, Decided, HasRoute
<1> QED
  BY <1>1, RibCorrect, PTL

\* After round 1 of a restarted daemon, an untouched route of an earlier process
\* belongs to a destination without a peer.
THEOREM TakeOver == Spec => []RestartTakesOver
<1>1. RInv /\ RibInv => RestartTakesOver
  <2> SUFFICES ASSUME RInv, RibInv, pc = "begin", advertise, ~changed, ~lost, probe_id > 1,
                      NEW d \in inherited \cap DOMAIN route, NEW q \in DOMAIN route[d],
                      q + 1 = probe_id
               PROVE  route[d][q].curr = 0
    BY DEF RestartTakesOver
  <2>1. q = probe_id - 1
    BY DEF RibInv, BoundInv, RInv, TypeInv
  <2> QED
    BY <2>1 DEF RibInv, FollowInv, Before, Decided, HasRoute
<1> QED
  BY <1>1, RibCorrect, PTL
----------------------------------------------------------------------------
(***************************************************************************)
(* The maps stay small: pfr_route_free takes one round away per call, and  *)
(* as long as no round is skipped nothing older than the last two rounds   *)
(* remains.                                                                *)
(***************************************************************************)

\* The places behind pfr_route_free.
Freed == {"delete", "signals", "advertise"}

\* A round that may still be in the maps.
Kept(q) == q + 2 >= probe_id /\ (pc \in Freed => q + 1 >= probe_id)

(***************************************************************************)
(* The inductive invariant: before pfr_route_free three rounds are there,  *)
(* behind it two.  A dead daemon keeps what it had.                        *)
(***************************************************************************)
RoundsTyped == \A d \in DOMAIN r : \A q \in DOMAIN r[d] : q \in Nat

KeptRoute ==
    skips = 0 /\ pc \notin {"exit", "dead"} =>
        \A d \in DOMAIN route : \A q \in DOMAIN route[d] : Kept(q)

KeptReplies ==
    skips = 0 /\ pc \notin {"exit", "dead"} =>
        \A d \in DOMAIN r : \A q \in DOMAIN r[d] : r[d][q] # {} => Kept(q)

KeptInv == RoundsTyped /\ KeptRoute /\ KeptReplies

\* A place from which no more is kept than from the one before.
Onward == /\ probe_id' = probe_id
          /\ skips' = skips
          /\ \/ pc' \in {"exit", "dead"}
             \/ pc \notin {"exit", "dead"} /\ (pc' \in Freed => pc \in Freed)
----------------------------------------------------------------------------
\* A step onward that adds no round to the maps keeps the invariant.
LEMMA FewerKept ==
    ASSUME KeptInv, Onward,
           DOMAIN route' \subseteq DOMAIN route, DOMAIN r' \subseteq DOMAIN r,
           \A d \in DOMAIN route' : route'[d] = route[d],
           \A d \in DOMAIN r' : r'[d] = r[d]
    PROVE  KeptInv'
  BY DEF KeptInv, RoundsTyped, KeptRoute, KeptReplies, Kept, Onward, Freed

\* The operator [] on r[d][probe_id] adds an empty round.
LEMMA TouchKept ==
    ASSUME RInv, KeptInv, Onward, r' = Touch, KeptRoute'
    PROVE  KeptInv'
<1>1. /\ DOMAIN r' = DOMAIN r
      /\ \A d \in DOMAIN r : \A q \in DOMAIN r'[d] :
            \/ q \in DOMAIN r[d] /\ r'[d][q] = r[d][q]
            \/ q = probe_id /\ r'[d][q] = {}
  BY DEF Touch, Put, At
<1>2. RoundsTyped'
  BY <1>1 DEF KeptInv, RoundsTyped, RInv, TypeInv
<1>3. KeptReplies'
  BY <1>1 DEF KeptInv, KeptReplies, Kept, Onward, Freed
<1> QED
  BY <1>2, <1>3 DEF KeptInv

\* A reply belongs to the round that is running or to the one before.
LEMMA ReplyKept ==
    ASSUME RInv, KeptInv, NEW d \in Dst, NEW q \in 0..probe_id, NEW n, Reply(d, q, n)
    PROVE  KeptInv'
<1>1. /\ probe_id' = probe_id /\ skips' = skips /\ route' = route /\ probe_id \in Nat
      /\ pc \notin {"exit", "dead"} /\ pc' \in {pc, "dead"}
  BY DEF Reply, Store, Goto, Die, Work, RInv, TypeInv
<1>2. q \in Nat /\ (pc # "begin" => q + 1 >= probe_id) /\ q + 2 >= probe_id
  BY <1>1 DEF Reply, Store, Awaited
<1>3. DOMAIN Empty = {}
  BY DEF Empty
<1>4. r' = Put(r, d, Put(At(r, d, Empty), q, At(At(r, d, Empty), q, {}) \cup {n}))
  BY DEF Reply, Store
<1>5. \A e \in DOMAIN r' : \A k \in DOMAIN r'[e] :
         \/ e \in DOMAIN r /\ k \in DOMAIN r[e] /\ r'[e][k] = r[e][k]
         \/ k = q
  BY <1>3, <1>4 DEF Put, At
<1>6. Kept(q)
  BY <1>2 DEF Kept, Freed
<1>7. RoundsTyped'
  BY <1>2, <1>5 DEF KeptInv, RoundsTyped
<1>8. KeptRoute'
  BY <1>1 DEF KeptInv, KeptRoute, Kept, Freed
<1>9. KeptReplies'
  BY <1>1, <1>5, <1>6 DEF KeptInv, KeptReplies, Kept, Freed
<1> QED
  BY <1>7, <1>8, <1>9 DEF KeptInv

\* A log thread adds an empty round to a destination that was not there.
LEMMA ReviveKept ==
    ASSUME RInv, KeptInv, NEW d, NEW q \in 0..probe_id, Revive(d, q)
    PROVE  KeptInv'
<1>1. /\ UNCHANGED <<pc, probe_id, skips, route>>
      /\ r' = Put(r, d, [x \in {q} |-> {}]) /\ q \in Nat
  BY DEF Revive, RInv, TypeInv
<1>2. \A e \in DOMAIN r' : \A k \in DOMAIN r'[e] :
         \/ e \in DOMAIN r /\ k \in DOMAIN r[e] /\ r'[e][k] = r[e][k]
         \/ k = q /\ r'[e][k] = {}
  BY <1>1 DEF Put
<1> QED
  BY <1>1, <1>2 DEF KeptInv, RoundsTyped, KeptRoute, KeptReplies, Kept

\* pfr_route_scan adds the decision of this round.
LEMMA ScanKept == RInv /\ KeptInv /\ RouteScan => KeptInv'
<1> SUFFICES ASSUME RInv, KeptInv, RouteScan PROVE KeptInv'
  OBVIOUS
<1>1. PICK found : StoreDecisions(found)
  BY ScanFound
<1>2. Onward /\ r' = Touch /\ pc = "scan" /\ probe_id \in Nat
  BY <1>1 DEF RouteScan, StoreDecisions, Goto, Die, Onward, Freed, RInv, TypeInv
<1>3. CASE route' = route
  BY <1>2, <1>3, TouchKept DEF KeptInv, KeptRoute, Kept, Onward
<1>4. CASE route' = [d \in DOMAIN route \cup Scanned |->
                        IF d \in Scanned
                        THEN Put(At(route, d, Empty), probe_id, NewEntry(d, found[d]))
                        ELSE route[d]]
  <2>1. DOMAIN Empty = {}
    BY DEF Empty
  <2>2. \A d \in DOMAIN route' : \A q \in DOMAIN route'[d] :
           (d \in DOMAIN route /\ q \in DOMAIN route[d]) \/ q = probe_id
    BY <1>4, <2>1 DEF Put, At
  <2>3. KeptRoute'
    BY <1>2, <2>2 DEF KeptInv, KeptRoute, Kept, Onward, Freed
  <2> QED
    BY <1>2, <2>3, TouchKept
<1> QED
  BY <1>1, <1>3, <1>4 DEF StoreDecisions

\* pfr_route_free: the oldest of the three rounds goes.
LEMMA FreeKept == RInv /\ RibInv /\ KeptInv /\ RouteFree => KeptInv'
<1> SUFFICES ASSUME RInv, RibInv, KeptInv, RouteFree PROVE KeptInv'
  OBVIOUS
<1>1. /\ pc = "free" /\ pc' = "delete" /\ probe_id' = probe_id /\ probe_id \in Nat
      /\ skips' = skips
  BY DEF RouteFree, Goto, history, RInv, TypeInv
<1>2. CASE probe_id < 2 /\ r' = r /\ route' = route
  <2>1. \A q \in Nat : q + 1 >= probe_id /\ q + 2 >= probe_id
    BY <1>1, <1>2
  <2> QED
    BY <1>1, <1>2, <2>1 DEF KeptInv, RoundsTyped, KeptRoute, KeptReplies, Kept, RibInv, BoundInv
<1>3. CASE /\ probe_id >= 2
           /\ r' = [d \in DOMAIN r |-> Put(r[d], probe_id - 2, {})]
           /\ route' = [d \in DOMAIN route \cup DOMAIN r |->
                          IF d \in DOMAIN r
                          THEN Drop(At(route, d, Empty), {probe_id - 2})
                          ELSE route[d]]
  <2>1. DOMAIN Empty = {} /\ DOMAIN route \subseteq DOMAIN r
    BY DEF Empty, RInv, RouteWithinR
  <2>2. \A d \in DOMAIN route' : \A q \in DOMAIN route'[d] :
           d \in DOMAIN route /\ q \in DOMAIN route[d] /\ q # probe_id - 2
    BY <1>3, <2>1 DEF Drop, At
  <2>3. KeptRoute'
    <3> SUFFICES ASSUME skips = 0, NEW d \in DOMAIN route', NEW q \in DOMAIN route'[d]
                 PROVE  Kept(q)'
      BY <1>1 DEF KeptRoute
    <3>1. q \in Nat /\ q + 2 >= probe_id /\ q # probe_id - 2
      BY <1>1, <2>2 DEF KeptInv, KeptRoute, Kept, RibInv, BoundInv
    <3> QED
      BY <1>1, <3>1 DEF Kept
  <2>4. /\ DOMAIN r' = DOMAIN r
        /\ \A d \in DOMAIN r' : \A q \in DOMAIN r'[d] :
              \/ q = probe_id - 2 /\ r'[d][q] = {}
              \/ q # probe_id - 2 /\ q \in DOMAIN r[d] /\ r'[d][q] = r[d][q]
    BY <1>3 DEF Put
  <2>5. RoundsTyped'
    BY <1>1, <1>3, <2>4 DEF KeptInv, RoundsTyped
  <2>6. KeptReplies'
    <3> SUFFICES ASSUME skips = 0, NEW d \in DOMAIN r', NEW q \in DOMAIN r'[d], r'[d][q] # {}
                 PROVE  Kept(q)'
      BY <1>1 DEF KeptReplies
    <3>1. q \in Nat /\ q + 2 >= probe_id /\ q # probe_id - 2
      BY <1>1, <2>4 DEF KeptInv, KeptReplies, Kept, RoundsTyped
    <3> QED
      BY <1>1, <3>1 DEF Kept
  <2> QED
    BY <2>3, <2>5, <2>6 DEF KeptInv
<1> QED
  BY <1>2, <1>3 DEF RouteFree

\* The end of a round makes two rounds of the past and one to come.
LEMMA RoundKept ==
    ASSUME RInv, KeptInv, pc \in Freed, pc' = "begin", probe_id' = probe_id + 1,
           UNCHANGED <<route, r, skips>>, RibInv
    PROVE  KeptInv'
  BY DEF KeptInv, RoundsTyped, KeptRoute, KeptReplies, Kept, Freed, RInv, TypeInv, RibInv,
     BoundInv

\* The invariant is inductive for every step of the rounds.
LEMMA NextKept == RInv /\ RibInv /\ KeptInv /\ [Next]_vars => KeptInv'
<1> SUFFICES ASSUME RInv, RibInv, KeptInv, [Next]_vars PROVE KeptInv'
  OBVIOUS
<1>1. CASE Receive
  BY <1>1, ReplyKept DEF Receive
<1>2. CASE Begin \/ StartWork \/ NoShutdown \/ ThreadExits
  <2>1. Onward /\ route' = route /\ r' = r
    BY <1>2 DEF Begin, StartWork, NoShutdown, ThreadExits, Goto, Die, Onward, Freed, history
  <2> QED
    BY <2>1, FewerKept
<1>3. CASE SkipRound
  <2>1. r' = r /\ skips' = skips + 1 /\ skips \in Nat
    BY <1>3 DEF SkipRound, RibInv, BoundInv
  <2> QED
    BY <2>1 DEF KeptInv, RoundsTyped, KeptRoute, KeptReplies
<1>4. CASE RouteUpdate \/ RouteDelete \/ Shutdown
  <2>1. Onward
    BY <1>4 DEF RouteUpdate, RouteDelete, Shutdown, DeleteRoutes, Goto, Die, Onward, Freed
  <2>2. \E S : r' = Drop(r, S) /\ route' = Drop(route, S)
    BY <1>4 DEF RouteUpdate, RouteDelete, Shutdown, DeleteRoutes
  <2> QED
    BY <2>1, <2>2, FewerKept DEF Drop
<1>5. CASE CalcAvgRtt \/ CalcStddevRtt
  <2>1. Onward /\ route' = route /\ r' = Touch
    BY <1>5 DEF CalcAvgRtt, CalcStddevRtt, Goto, Die, Onward, Freed, history
  <2>2. KeptRoute'
    BY <2>1 DEF KeptInv, KeptRoute, Kept, Onward
  <2> QED
    BY <2>1, <2>2, TouchKept
<1>6. CASE RoutesMan
  <2>1. UNCHANGED <<route, r, skips>> /\ pc = "advertise"
    BY <1>6 DEF RoutesMan
  <2>2. CASE pc' = "dead"
    BY <2>1, <2>2 DEF KeptInv, RoundsTyped, KeptRoute, KeptReplies
  <2>3. CASE pc' = "begin" /\ probe_id' = probe_id + 1
    BY <2>1, <2>3, RoundKept DEF Freed
  <2> QED
    BY <1>6, <2>2, <2>3 DEF RoutesMan, Goto, Die
<1>7. CASE NoAdvertise
  BY <1>7, RoundKept DEF NoAdvertise, Goto, history, Freed
<1>8. CASE Restart
  BY <1>8 DEF Restart, Empty, KeptInv, RoundsTyped, KeptRoute, KeptReplies
<1>9. CASE Finished \/ UNCHANGED vars
  <2>1. UNCHANGED <<pc, probe_id, skips, route, r>>
    BY <1>9 DEF Finished, vars, history
  <2> QED
    BY <2>1 DEF KeptInv, RoundsTyped, KeptRoute, KeptReplies, Kept
<1>10. CASE LogWalks
  BY <1>10, ReviveKept DEF LogWalks
<1> QED
  BY <1>1, <1>2, <1>3, <1>4, <1>5, <1>6, <1>7, <1>8, <1>9, <1>10, ScanKept, FreeKept DEF Next

\* Behind pfr_route_free the maps hold the replies and decisions of the last two
\* rounds, as long as none was skipped.
THEOREM KeptCorrect == Spec => []TwoRoundsKept
<1>1. Init => KeptInv
  BY DEF Init, Empty, KeptInv, RoundsTyped, KeptRoute, KeptReplies
<1>2. RInv /\ RibInv /\ KeptInv => TwoRoundsKept
  <2> SUFFICES ASSUME RInv, KeptInv, pc \in Freed, skips = 0, RibInv
               PROVE  /\ \A d \in DOMAIN route : \A q \in DOMAIN route[d] : q + 1 >= probe_id
                      /\ \A d \in DOMAIN r : \A q \in DOMAIN r[d] :
                            q + 1 < probe_id => r[d][q] = {}
    BY DEF TwoRoundsKept, Freed
  <2> QED
    BY DEF KeptInv, RoundsTyped, KeptRoute, KeptReplies, Kept, Freed, RInv, TypeInv
<1> QED
  BY <1>1, <1>2, RibCorrect, NextKept, PTL DEF Spec
----------------------------------------------------------------------------
(***************************************************************************)
(* The search for the least metric.  The loop over the peers is a          *)
(* recursion on their numbers; what is said of it needs induction and      *)
(* recursion on the natural numbers.                                       *)
(***************************************************************************)

\* Induction on the natural numbers, for a set of them.
LEMMA NatInd ==
    ASSUME NEW S, 0 \in S, \A n \in Nat : n \in S => n + 1 \in S
    PROVE  Nat \subseteq S
<1> DEFINE Less == {p \in Nat \X Nat : p[1] < p[2]}
           T == Nat \ S
<1>1. IsWellFoundedOn(Less, Nat)
  BY Zenon, NatLessThanWellFounded DEF OpToRel
<1>2. SUFFICES ASSUME T # {} PROVE FALSE
  OBVIOUS
<1> HIDE DEF Less
<1>3. PICK x \in T : \A y \in T : ~(<<y, x>> \in Less)
  BY <1>1, <1>2, WFMin
<1>4. x \in Nat /\ x # 0
  BY <1>3
<1>5. x - 1 \in Nat /\ <<x - 1, x>> \in Less
  BY <1>4 DEF Less
<1>6. x - 1 \in S
  BY <1>3, <1>5
<1> QED
  BY <1>3, <1>4, <1>5, <1>6

\* Function f starts with x0 and goes on with F.
Recursive(f, x0, F) == f[0] = x0 /\ \A n \in Nat : f[n + 1] = F[<<n + 1, f[n]>>]

\* There is such a function.
LEMMA Recursion ==
    ASSUME NEW X, NEW x0 \in X, NEW F \in [Nat \X X -> X]
    PROVE  \E f \in [Nat -> X] : Recursive(f, x0, F)
<1> DEFINE Start(n, g) == /\ g \in [0 .. n -> X] /\ g[0] = x0
                          /\ \A i \in Nat : i < n => g[i + 1] = F[<<i + 1, g[i]>>]
           Good == {n \in Nat : \E g \in [0 .. n -> X] : Start(n, g)}
           Partial(n) == CHOOSE g : Start(n, g)
           f == [n \in Nat |-> Partial(n)[n]]
<1>1. 0 \in Good
  <2>1. Start(0, [i \in 0 .. 0 |-> x0])
    OBVIOUS
  <2> QED
    BY <2>1
<1>2. ASSUME NEW n \in Nat, n \in Good PROVE n + 1 \in Good
  <2>1. PICK g : Start(n, g)
    BY <1>2
  <2> DEFINE h == [i \in 0 .. n + 1 |-> IF i = n + 1 THEN F[<<n + 1, g[n]>>] ELSE g[i]]
  <2>2. n + 1 \in Nat /\ h \in [0 .. n + 1 -> X]
    BY <2>1
  <2>3. h[0] = x0
    BY <2>1
  <2>4. ASSUME NEW i \in Nat, i < n + 1 PROVE h[i + 1] = F[<<i + 1, h[i]>>]
    <3>1. h[i] = g[i]
      BY <2>4
    <3>2. CASE i = n
      <4>1. h[n + 1] = F[<<n + 1, g[n]>>]
        BY <2>2
      <4> QED
        BY Zenon, <3>1, <3>2, <4>1
    <3>3. CASE i < n
      <4>1. h[i + 1] = g[i + 1]
        BY <3>3
      <4>2. g[i + 1] = F[<<i + 1, g[i]>>]
        BY <2>1, <3>3
      <4> QED
        BY <3>1, <4>1, <4>2
    <3> QED
      BY <2>4, <3>2, <3>3
  <2> HIDE DEF h
  <2>5. Start(n + 1, h)
    BY <2>2, <2>3, <2>4
  <2> HIDE DEF Start
  <2> QED
    BY <2>2, <2>5
<1>3. \A n \in Nat : Start(n, Partial(n))
  <2>1. Nat \subseteq Good
    <3> HIDE DEF Good
    <3> QED
      BY <1>1, <1>2, NatInd
  <2> QED
    BY <2>1
<1> HIDE DEF Partial
<1>4. ASSUME NEW n \in Nat PROVE Partial(n + 1)[n] = Partial(n)[n]
  <2> DEFINE g == Partial(n)
             h == Partial(n + 1)
             Same == {i \in Nat : i <= n => h[i] = g[i]}
  <2>1. Start(n, g) /\ Start(n + 1, h)
    BY <1>3
  <2> HIDE DEF g, h
  <2>2. 0 \in Same
    BY <2>1
  <2>3. ASSUME NEW i \in Nat, i \in Same PROVE i + 1 \in Same
    <3> SUFFICES ASSUME i + 1 <= n PROVE h[i + 1] = g[i + 1]
      OBVIOUS
    <3>1. h[i] = g[i] /\ i < n /\ i < n + 1
      BY <2>3
    <3> QED
      BY <2>1, <3>1
  <2>4. Nat \subseteq Same
    <3> HIDE DEF Same
    <3> QED
      BY <2>2, <2>3, NatInd
  <2> QED
    BY <2>4 DEF g, h
<1>5. f \in [Nat -> X]
  BY <1>3
<1>6. f[0] = x0
  BY <1>3
<1>7. ASSUME NEW n \in Nat PROVE f[n + 1] = F[<<n + 1, f[n]>>]
  <2>1. Start(n + 1, Partial(n + 1)) /\ n < n + 1
    BY <1>3
  <2>2. Partial(n + 1)[n + 1] = F[<<n + 1, Partial(n + 1)[n]>>]
    BY <2>1
  <2> QED
    BY <1>4, <2>2
<1> QED
  BY <1>5, <1>6, <1>7 DEF Recursive

ScanAcc == [curr : Nat, min : Nat, peer : Nat]

ScanStart(from) == [curr |-> 0, min |-> from, peer |-> 0]

\* One turn of the loop keeps the accumulators numbers.
LEMMA ScanStepTyped ==
    ASSUME NEW a \in ScanAcc, NEW n \in Nat, NEW metrics, \A k \in DOMAIN metrics : metrics[k] \in Nat
    PROVE  ScanStep(a, n, metrics) \in ScanAcc
<1> DEFINE c == IF MetricRead /\ n \in DOMAIN metrics THEN metrics[n] ELSE a.curr
<1>1. c \in Nat
  BY DEF ScanAcc
<1>2. ScanStep(a, n, metrics) = IF c < a.min THEN [curr |-> c, min |-> c, peer |-> n]
                                             ELSE [a EXCEPT !.curr = c]
  BY DEF ScanStep
<1> HIDE DEF c
<1> QED
  BY <1>1, <1>2 DEF ScanAcc

\* The equations of the loop.
LEMMA ScansDef ==
    ASSUME NEW from \in Nat, NEW peers, NEW metrics, \A k \in DOMAIN metrics : metrics[k] \in Nat
    PROVE  /\ Scans(peers, metrics, from) \in [Nat -> ScanAcc]
           /\ Scans(peers, metrics, from)[0] = ScanStart(from)
           /\ \A n \in Nat : Scans(peers, metrics, from)[n + 1] =
                  IF n + 1 \in peers THEN ScanStep(Scans(peers, metrics, from)[n], n + 1, metrics)
                  ELSE Scans(peers, metrics, from)[n]
<1> DEFINE Turn(n, a) == IF n \in peers THEN ScanStep(a, n, metrics) ELSE a
           Turns == [p \in Nat \X ScanAcc |-> Turn(p[1], p[2])]
           Eqn(g) == g = [n \in Nat |-> IF n = 0 THEN [curr |-> 0, min |-> from, peer |-> 0]
                                    ELSE IF n \in peers THEN ScanStep(g[n - 1], n, metrics)
                                    ELSE g[n - 1]]
<1>1. \A n \in Nat, a \in ScanAcc : Turn(n, a) \in ScanAcc
  BY ScanStepTyped
<1>2. \A n \in Nat, a \in ScanAcc : <<n, a>> \in Nat \X ScanAcc /\ Turns[<<n, a>>] = Turn(n, a)
  <2> HIDE DEF Turn
  <2> QED
    OBVIOUS
<1>3. Turns \in [Nat \X ScanAcc -> ScanAcc]
  <2> HIDE DEF Turn
  <2> QED
    BY <1>1
<1>4. ScanStart(from) \in ScanAcc
  BY DEF ScanStart, ScanAcc
<1> HIDE DEF Turns
<1>5. PICK h \in [Nat -> ScanAcc] : Recursive(h, ScanStart(from), Turns)
  BY Zenon, <1>3, <1>4, Recursion
<1>6. ASSUME NEW n \in Nat PROVE h[n + 1] = Turn(n + 1, h[n])
  <2>1. n + 1 \in Nat /\ h[n] \in ScanAcc /\ h[n + 1] = Turns[<<n + 1, h[n]>>]
    BY <1>5 DEF Recursive
  <2> HIDE DEF Turn
  <2> QED
    BY <1>2, <2>1
<1>7. ASSUME NEW n \in Nat
      PROVE  h[n] = IF n = 0 THEN [curr |-> 0, min |-> from, peer |-> 0]
                    ELSE IF n \in peers THEN ScanStep(h[n - 1], n, metrics) ELSE h[n - 1]
  <2>1. CASE n = 0
    BY <1>5, <2>1 DEF Recursive, ScanStart
  <2>2. CASE n # 0
    <3>1. n - 1 \in Nat /\ (n - 1) + 1 = n
      BY <2>2
    <3>2. h[n] = Turn(n, h[n - 1])
      BY <1>6, <3>1
    <3> QED
      BY <2>2, <3>2
  <2> QED
    BY <2>1, <2>2
<1>8. Eqn(h)
  BY <1>7
<1>9. Scans(peers, metrics, from) = CHOOSE g : Eqn(g)
  BY DEF Scans
<1>10. Eqn(Scans(peers, metrics, from))
  <2> HIDE DEF Eqn
  <2> QED
    BY <1>8, <1>9
<1> DEFINE t == Scans(peers, metrics, from)
<1>11. t = [n \in Nat |-> IF n = 0 THEN [curr |-> 0, min |-> from, peer |-> 0]
                          ELSE IF n \in peers THEN ScanStep(t[n - 1], n, metrics) ELSE t[n - 1]]
  BY <1>10
<1> HIDE DEF t
<1>12. t[0] = ScanStart(from) /\ DOMAIN t = Nat
  BY <1>11 DEF ScanStart
<1>13. ASSUME NEW n \in Nat PROVE t[n + 1] = Turn(n + 1, t[n])
  <2>1. n + 1 \in Nat /\ n + 1 # 0 /\ (n + 1) - 1 = n
    OBVIOUS
  <2> QED
    BY <1>11, <2>1
<1>14. t \in [Nat -> ScanAcc]
  <2> DEFINE S == {n \in Nat : t[n] \in ScanAcc}
  <2>1. 0 \in S
    BY <1>4, <1>12
  <2>2. \A n \in Nat : n \in S => n + 1 \in S
    <3> HIDE DEF Turn
    <3> QED
      BY <1>1, <1>13
  <2>3. Nat \subseteq S
    <3> HIDE DEF S
    <3> QED
      BY <2>1, <2>2, NatInd
  <2> QED
    BY <1>11, <1>12, <2>3
<1> QED
  BY <1>12, <1>13, <1>14 DEF t

\* The metric of peer k is read in its turn.
Read(k, metrics) == MetricRead /\ k \in DOMAIN metrics

\* The accumulators behind the peers of seen: untouched; or the first peer has no
\* metric, takes the leftover 0 of curr_rtt and keeps the choice for good; or the
\* choice is the first peer with the least metric that was read, if below from.
ScanState(a, seen, metrics, from) ==
    \/ seen = {} /\ a = ScanStart(from)
    \/ /\ a.peer \in seen /\ ~Read(a.peer, metrics) /\ a.min = 0
    \/ /\ \E k \in seen : Read(k, metrics)
       /\ a.min <= a.curr /\ a.min <= from
       /\ \A k \in seen : Read(k, metrics) => a.min <= metrics[k]
       /\ \/ a.peer = 0 /\ a.min = from
          \/ /\ a.peer \in seen /\ Read(a.peer, metrics) /\ a.min = metrics[a.peer]
             /\ \A k \in seen : Read(k, metrics) /\ metrics[k] = a.min => a.peer <= k

\* One turn of the loop keeps that.
LEMMA ScanStepState ==
    ASSUME NEW from \in Nat, from # 0, NEW a \in ScanAcc, NEW seen, seen \subseteq Nat, NEW n \in Nat,
           \A k \in seen : k <= n,
           NEW metrics, \A k \in DOMAIN metrics : metrics[k] \in Nat,
           ScanState(a, seen, metrics, from)
    PROVE  ScanState(ScanStep(a, n + 1, metrics), seen \cup {n + 1}, metrics, from)
<1> DEFINE m == n + 1
           c == IF Read(m, metrics) THEN metrics[m] ELSE a.curr
           b == ScanStep(a, m, metrics)
<1>1. b = IF c < a.min THEN [curr |-> c, min |-> c, peer |-> m] ELSE [a EXCEPT !.curr = c]
  BY DEF ScanStep, Read
<1>2. c \in Nat /\ (Read(m, metrics) => c = metrics[m]) /\ (~Read(m, metrics) => c = a.curr)
  BY DEF Read, ScanAcc
<1>3. m \in Nat /\ m # 0 /\ \A k \in seen : k < m /\ k # m
  OBVIOUS
<1>4. a.curr \in Nat /\ a.min \in Nat /\ a.peer \in Nat
  BY DEF ScanAcc
<1>5. from \in Nat /\ from # 0
  OBVIOUS
<1>6. \A k \in seen : Read(k, metrics) => metrics[k] \in Nat
  BY DEF Read
<1>7. CASE c < a.min
  <2>1. b.curr = c /\ b.min = c /\ b.peer = m
    BY <1>1, <1>7
  <2> HIDE DEF b, c, m
  <2>2. CASE seen = {} /\ a = ScanStart(from)
    <3>1. a.curr = 0 /\ a.min = from
      BY <2>2 DEF ScanStart
    <3> QED
      BY <1>2, <1>3, <1>4, <1>5, <1>7, <2>1, <2>2, <3>1 DEF ScanState, b, m
  <2>3. CASE a.min = 0
    BY <1>2, <1>7, <2>3
  <2>4. CASE /\ a.min <= a.curr /\ a.min <= from
             /\ \A k \in seen : Read(k, metrics) => a.min <= metrics[k]
    <3>1. Read(m, metrics)
      BY <1>2, <1>4, <1>7, <2>4
    <3>2. \A k \in seen : Read(k, metrics) => c < metrics[k]
      BY <1>2, <1>4, <1>6, <1>7, <2>4
    <3>3. \A k \in seen \cup {m} : Read(k, metrics) => c <= metrics[k] /\ (metrics[k] = c => m <= k)
      BY <1>2, <1>3, <1>6, <3>2
    <3> QED
      BY <1>2, <1>4, <1>5, <1>7, <2>1, <2>4, <3>1, <3>3 DEF ScanState, b, m
  <2> QED
    BY <2>2, <2>3, <2>4 DEF ScanState
<1>8. CASE ~(c < a.min)
  <2>1. b.curr = c /\ b.min = a.min /\ b.peer = a.peer
    BY <1>1, <1>8 DEF ScanAcc
  <2>2. a.min <= c
    BY <1>2, <1>4, <1>8
  <2> HIDE DEF b, c, m
  <2>3. CASE seen = {} /\ a = ScanStart(from)
    <3>1. a.curr = 0 /\ a.min = from /\ a.peer = 0
      BY <2>3 DEF ScanStart
    <3>2. Read(m, metrics)
      BY <1>2, <1>5, <2>2, <3>1
    <3> QED
      BY <1>2, <1>5, <2>1, <2>2, <2>3, <3>1, <3>2 DEF ScanState, b, m
  <2>4. CASE a.peer \in seen /\ ~Read(a.peer, metrics) /\ a.min = 0
    BY <2>1, <2>4 DEF ScanState, b, m
  <2>5. CASE /\ \E k \in seen : Read(k, metrics)
             /\ a.min <= a.curr /\ a.min <= from
             /\ \A k \in seen : Read(k, metrics) => a.min <= metrics[k]
             /\ \/ a.peer = 0 /\ a.min = from
                \/ /\ a.peer \in seen /\ Read(a.peer, metrics) /\ a.min = metrics[a.peer]
                   /\ \A k \in seen : Read(k, metrics) /\ metrics[k] = a.min => a.peer <= k
    <3>1. \A k \in seen \cup {m} : Read(k, metrics) => a.min <= metrics[k]
      BY <1>2, <2>2, <2>5
    <3>2. a.peer \in seen => a.peer <= m
      BY <1>3, <1>4
    <3> QED
      BY <2>1, <2>2, <2>5, <3>1, <3>2 DEF ScanState, b, m
  <2> QED
    BY <2>3, <2>4, <2>5 DEF ScanState
<1> QED
  BY <1>7, <1>8

\* A finite set of numbers that is not empty has a greatest element.
LEMMA MaxIsMember ==
    ASSUME NEW S, S \subseteq Nat, S # {}, IsFiniteSet(S)
    PROVE  Max(S) \in S /\ \A n \in S : n <= Max(S)
<1> DEFINE Bounds == {b \in Nat : \A s \in S : s <= b}
<1>1. Bounds # {}
  <2>1. PICK n \in Nat : ExistsBijection(1 .. n, S)
    BY FS_NatBijection
  <2>2. PICK f \in [1 .. n -> S] : \A s \in S : \E i \in 1 .. n : f[i] = s
    BY <2>1 DEF ExistsBijection, Bijection, Surjection, Injection, IsInjective
  <2> DEFINE T == {k \in Nat : k <= n => \E b \in Nat : \A i \in 1 .. k : f[i] <= b}
  <2>3. 0 \in T
    BY 1 .. 0 = {}
  <2>4. ASSUME NEW k \in Nat, k \in T PROVE k + 1 \in T
    <3> SUFFICES ASSUME k + 1 <= n PROVE \E b \in Nat : \A i \in 1 .. k + 1 : f[i] <= b
      OBVIOUS
    <3>1. PICK b \in Nat : \A i \in 1 .. k : f[i] <= b
      BY <2>4
    <3>2. f[k + 1] \in Nat /\ \A i \in 1 .. k : f[i] \in Nat
      <4>1. k + 1 \in 1 .. n /\ \A i \in 1 .. k : i \in 1 .. n
        BY <2>4
      <4>2. \A i \in 1 .. n : f[i] \in Nat
        BY <2>2
      <4> HIDE DEF T
      <4> QED
        BY <4>1, <4>2
    <3>3. \A i \in 1 .. k + 1 : i \in 1 .. k \/ i = k + 1
      OBVIOUS
    <3>4. b + f[k + 1] \in Nat /\ \A i \in 1 .. k + 1 : f[i] <= b + f[k + 1]
      <4> DEFINE last == f[k + 1]
      <4>1. last \in Nat
        BY <3>2
      <4>2. \A i \in 1 .. k : f[i] <= b + last
        BY <3>1, <3>2, <4>1
      <4>3. f[k + 1] <= b + last
        BY <4>1
      <4> HIDE DEF last
      <4>4. b + last \in Nat /\ \A i \in 1 .. k + 1 : f[i] <= b + last
        BY <3>3, <4>1, <4>2, <4>3
      <4> QED
        BY <4>4 DEF last
    <3> QED
      BY <3>4
  <2>5. n \in T
    <3> HIDE DEF T
    <3> QED
      BY <2>3, <2>4, NatInd
  <2>6. PICK b \in Nat : \A i \in 1 .. n : f[i] <= b
    BY <2>5
  <2>7. \A s \in S : s <= b
    BY <2>2, <2>6
  <2> QED
    BY <2>7
<1> DEFINE m == Min(Bounds)
<1>2. m \in Bounds /\ \A b \in Bounds : m <= b
  BY <1>1, MinIsMember
<1> HIDE DEF m
<1>3. m \in S
  <2> SUFFICES ASSUME m \notin S PROVE FALSE
    OBVIOUS
  <2>1. \A s \in S : s < m
    BY <1>2
  <2>2. m - 1 \in Nat /\ \A s \in S : s <= m - 1
    <3>1. m \in Nat /\ \A s \in S : s \in Nat
      BY <1>2
    <3>2. PICK s \in S : s < m
      BY <2>1
    <3> QED
      BY <2>1, <3>1, <3>2
  <2>3. m - 1 \in Bounds
    BY <2>2
  <2> QED
    BY <1>2, <2>3
<1>4. m \in S /\ \A n \in S : m >= n
  BY <1>2, <1>3
<1>5. Max(S) \in S /\ \A n \in S : Max(S) >= n
  <2> HIDE DEF Bounds
  <2> QED
    BY <1>4 DEF Max
<1> HIDE DEF Bounds
<1> QED
  BY <1>5

\* What the loop over all peers of a destination leaves.
LEMMA ScanLoopState ==
    ASSUME NEW from \in Nat, NEW peers, peers \subseteq Peer, peers # {},
           NEW metrics, \A k \in DOMAIN metrics : metrics[k] \in Nat
    PROVE  /\ ScanLoop(peers, metrics, from) \in ScanAcc
           /\ from # 0 => ScanState(ScanLoop(peers, metrics, from), peers, metrics, from)
<1> DEFINE t == Scans(peers, metrics, from)
           seen(n) == {k \in peers : k <= n}
           S == {n \in Nat : ScanState(t[n], seen(n), metrics, from)}
<1>1. /\ t \in [Nat -> ScanAcc] /\ t[0] = ScanStart(from)
      /\ \A n \in Nat : t[n + 1] = IF n + 1 \in peers THEN ScanStep(t[n], n + 1, metrics) ELSE t[n]
  BY ScansDef
<1>2. peers \subseteq Nat /\ 0 \notin peers /\ IsFiniteSet(peers)
  BY RoundsAssumption, FS_Subset
<1>9. \A k \in peers : k \in Nat /\ k # 0 /\ k > 0
  BY <1>2
<1> HIDE DEF t
<1>3. 0 \in S
  <2>1. seen(0) = {}
    BY <1>9
  <2> HIDE DEF seen
  <2> QED
    BY <1>1, <2>1 DEF ScanState
<1>4. ASSUME from # 0, NEW n \in Nat, n \in S PROVE n + 1 \in S
  <2>1. CASE n + 1 \in peers
    <3>1. seen(n + 1) = seen(n) \cup {n + 1}
      <4>1. \A k \in peers : k <= n + 1 <=> k <= n \/ k = n + 1
        BY <1>9
      <4> QED
        BY <2>1, <4>1
    <3>2. seen(n) \subseteq Nat /\ \A k \in seen(n) : k <= n
      BY <1>2
    <3>3. t[n] \in ScanAcc /\ t[n + 1] = ScanStep(t[n], n + 1, metrics) /\ ScanState(t[n], seen(n), metrics, from)
      BY <1>1, <1>4, <2>1
    <3> HIDE DEF seen
    <3>4. ScanState(ScanStep(t[n], n + 1, metrics), seen(n) \cup {n + 1}, metrics, from)
      BY <1>4, <3>2, <3>3, ScanStepState
    <3>5. ScanState(t[n + 1], seen(n + 1), metrics, from)
      BY <3>1, <3>3, <3>4
    <3> QED
      BY <3>5
  <2>2. CASE n + 1 \notin peers
    <3>1. seen(n + 1) = seen(n)
      <4>1. \A k \in peers : k <= n + 1 <=> k <= n
        BY <1>9, <2>2
      <4> QED
        BY <4>1
    <3>2. t[n + 1] = t[n]
      BY <1>1, <2>2
    <3> HIDE DEF seen
    <3> QED
      BY <1>4, <3>1, <3>2
  <2> QED
    BY <2>1, <2>2
<1>5. Max(peers) \in peers /\ Max(peers) \in Nat /\ \A k \in peers : k <= Max(peers)
  BY <1>2, MaxIsMember
<1>6. from # 0 => Max(peers) \in S
  <2> HIDE DEF S
  <2>1. from # 0 => Nat \subseteq S
    BY <1>3, <1>4, NatInd
  <2> QED
    BY <1>5, <2>1
<1>7. seen(Max(peers)) = peers
  BY <1>5
<1>8. ScanLoop(peers, metrics, from) = t[Max(peers)]
  BY DEF ScanLoop, t
<1> HIDE DEF seen
<1> QED
  BY <1>1, <1>5, <1>6, <1>7, <1>8

----------------------------------------------------------------------------
(***************************************************************************)
(* What the maps contain: replies of peers, metrics, and minima that are   *)
(* numbers.                                                                *)
(***************************************************************************)
RepliesOfPeers == \A d \in DOMAIN r : \A q \in DOMAIN r[d] : r[d][q] \subseteq Peer

AggIsMetric == \A d \in DOMAIN agg : \A n \in DOMAIN agg[d] : agg[d][n] \in Metric

MinimumIsNumber == \A d \in DOMAIN route : \A q \in DOMAIN route[d] : route[d][q].cmin \in Nat

DataInv == RepliesOfPeers /\ AggIsMetric /\ MinimumIsNumber

\* The aggregates of a destination are numbers.
LEMMA MetricsTyped ==
    ASSUME DataInv, NEW d
    PROVE  \A k \in DOMAIN At(agg, d, Empty) :
              At(agg, d, Empty)[k] \in Metric /\ At(agg, d, Empty)[k] \in Nat
  BY RoundsAssumption DEF DataInv, AggIsMetric, At, Empty

\* Only peers answer.
LEMMA PeersArePeers ==
    ASSUME DataInv, NEW d \in DOMAIN r
    PROVE  Peers(d) \subseteq Peer
  BY DEF DataInv, RepliesOfPeers, Peers, At

\* When every metric is below the start of the search, a peer that answered is chosen.
LEMMA ChosenExists ==
    ASSUME RInv, DataInv, NEW d \in DOMAIN r, Peers(d) # {},
           NEW from \in Nat, \A m \in Metric : m < from
    PROVE  Chosen(d, from) # 0
<1> DEFINE metrics == At(agg, d, Empty)
           last == ScanLoop(Peers(d), metrics, from)
<1>1. /\ Peers(d) \subseteq Peer /\ Peers(d) \subseteq Nat /\ 0 \notin Peers(d)
      /\ \A k \in DOMAIN metrics : metrics[k] \in Nat /\ metrics[k] < from
  BY PeersArePeers, MetricsTyped, RoundsAssumption
<1>2. from # 0
  <2>1. PICK m \in Metric : m \in Nat
    BY RoundsAssumption
  <2> QED
    BY <2>1
<1>3. CASE probe_id = 0
  BY <1>1, <1>3, MinIsMember DEF Chosen
<1>4. CASE probe_id # 0
  <2> HIDE DEF metrics
  <2>1. ScanState(last, Peers(d), metrics, from) /\ last \in ScanAcc
    BY <1>1, <1>2, ScanLoopState
  <2>2. Chosen(d, from) = last.peer
    BY <1>4 DEF Chosen, metrics
  <2> HIDE DEF last
  <2>3. ASSUME last.peer = 0, NEW k \in Peers(d), Read(k, metrics), last.min <= metrics[k],
               last.min = from
        PROVE  FALSE
    <3>1. metrics[k] \in Nat /\ metrics[k] < from /\ from <= metrics[k]
      BY <1>1, <2>3 DEF Read
    <3> QED
      BY <3>1
  <2> QED
    BY <1>1, <2>1, <2>2, <2>3 DEF ScanState
<1> QED
  BY <1>3, <1>4

\* What the search leaves in min_rtt is a number.
LEMMA ChosenRttTyped ==
    ASSUME RInv, DataInv, NEW d \in DOMAIN r, NEW from \in Nat
    PROVE  ChosenRtt(d, from) \in Nat
<1> DEFINE metrics == At(agg, d, Empty)
           last == ScanLoop(Peers(d), metrics, from)
<1>1. CASE Chosen(d, from) = 0
  BY <1>1 DEF ChosenRtt
<1>2. CASE Chosen(d, from) \in Measured(d)
  <2>1. d \in DOMAIN agg /\ metrics = agg[d] /\ Chosen(d, from) \in DOMAIN metrics
    BY <1>2 DEF Measured, At, Empty
  <2>2. agg[d][Chosen(d, from)] \in Nat
    BY <2>1, MetricsTyped
  <2>3. last.min \in Nat
    <3>1. /\ Peers(d) \subseteq Peer /\ Peers(d) # {}
          /\ \A k \in DOMAIN metrics : metrics[k] \in Nat
      BY <1>2, PeersArePeers, MetricsTyped DEF Measured
    <3> HIDE DEF metrics
    <3> QED
      BY <3>1, ScanLoopState DEF ScanAcc
  <2> QED
    BY <2>2, <2>3 DEF ChosenRtt
<1>3. CASE Chosen(d, from) # 0 /\ Chosen(d, from) \notin Measured(d)
  <2>1. last.min \in Nat
    <3>1. /\ Peers(d) \subseteq Peer /\ Peers(d) # {}
          /\ \A k \in DOMAIN metrics : metrics[k] \in Nat
      BY <1>3, PeersArePeers, MetricsTyped DEF Chosen
    <3> HIDE DEF metrics
    <3> QED
      BY <3>1, ScanLoopState DEF ScanAcc
  <2> QED
    BY <1>3, <2>1 DEF ChosenRtt
<1> QED
  BY <1>1, <1>2, <1>3

\* The choice is the best peer that has a metric, if that is below the start.
LEMMA ChosenIsBest ==
    ASSUME RInv, DataInv, NEW d \in DOMAIN r, NEW from \in Nat,
           Chosen(d, from) \notin Peers(d) \ Measured(d),
           MetricRead, probe_id > 0,
           NEW n \in Measured(d), agg[d][n] < from
    PROVE  Chosen(d, from) = Best(d) /\ Chosen(d, from) # 0
<1> DEFINE metrics == At(agg, d, Empty)
           last == ScanLoop(Peers(d), metrics, from)
           c == Chosen(d, from)
<1>1. /\ Peers(d) \subseteq Peer /\ Peers(d) \subseteq Nat /\ 0 \notin Peers(d)
      /\ \A k \in DOMAIN metrics : metrics[k] \in Nat
  BY PeersArePeers, MetricsTyped, RoundsAssumption
<1>2. d \in DOMAIN agg /\ metrics = agg[d] /\ Measured(d) = Peers(d) \cap DOMAIN metrics
  BY DEF Measured, At, Empty
<1>3. \A k \in Measured(d) : k \in Nat /\ metrics[k] \in Nat /\ Read(k, metrics)
  BY <1>1, <1>2 DEF Read
<1>4. \A k \in Peers(d) : Read(k, metrics) <=> k \in Measured(d)
  BY <1>2 DEF Read
<1>5. probe_id # 0 /\ Peers(d) # {}
  BY <1>2 DEF RInv, TypeInv
<1>6. c = last.peer
  BY <1>5 DEF Chosen
<1> HIDE DEF metrics
<1>7. n \in Peers(d) /\ Read(n, metrics) /\ metrics[n] < from /\ metrics[n] \in Nat
  BY <1>2, <1>3
<1>8. ScanState(last, Peers(d), metrics, from) /\ last \in ScanAcc
  <2>1. from # 0
    BY <1>7
  <2> QED
    BY <1>1, <1>5, <2>1, ScanLoopState
<1> HIDE DEF last, c
<1>9. ~(last.peer \in Peers(d) /\ ~Read(last.peer, metrics))
  BY <1>4, <1>6 DEF c
<1>10. ~(last.min = from /\ \A k \in Peers(d) : Read(k, metrics) => last.min <= metrics[k])
  <2>1. ~(from <= metrics[n])
    BY <1>7
  <2> QED
    BY <1>7, <2>1
<1>11. /\ c \in Peers(d) /\ Read(c, metrics) /\ last.min = metrics[c]
       /\ \A k \in Peers(d) : Read(k, metrics) => last.min <= metrics[k]
       /\ \A k \in Peers(d) : Read(k, metrics) /\ metrics[k] = last.min => c <= k
  BY <1>5, <1>6, <1>8, <1>9, <1>10 DEF ScanState
<1>12. c \in Measured(d)
  BY <1>4, <1>11
<1>13. \A k \in Measured(d) : metrics[c] <= metrics[k] /\ (metrics[k] = metrics[c] => c <= k)
  BY <1>2, <1>3, <1>11
<1> DEFINE IsBest(x) == /\ x \in Measured(d)
                        /\ \A k \in Measured(d) :
                              metrics[x] < metrics[k] \/ (metrics[x] = metrics[k] /\ x <= k)
<1>14. IsBest(c)
  BY <1>3, <1>12, <1>13
<1>15. Best(d) = CHOOSE x \in Measured(d) : \A k \in Measured(d) :
                     metrics[x] < metrics[k] \/ (metrics[x] = metrics[k] /\ x <= k)
  BY <1>2 DEF Best
<1>16. IsBest(Best(d))
  BY <1>14, <1>15
<1> DEFINE b == Best(d)
<1> HIDE DEF b
<1>17. IsBest(b)
  BY <1>16 DEF b
<1>18. b = c
  BY <1>3, <1>14, <1>17
<1> QED
  BY <1>1, <1>11, <1>18 DEF b, c

\* The decision that pfr_route_scan stores is made of what the search left and of the
\* decision of the previous round.
LEMMA NewEntryIs ==
    ASSUME DataInv, NEW d, NEW s, s.min \in Nat
    PROVE  /\ NewEntry(d, s).cmin \in Nat
           /\ \/ NewEntry(d, s).curr = s.peer
              \/ HasRoute(d, probe_id - 1) /\ NewEntry(d, s).curr = route[d][probe_id - 1].curr
           /\ s.peer = 0 => (probe_id = 0 \/ ~HasRoute(d, probe_id - 1)
                             \/ NewEntry(d, s).curr = route[d][probe_id - 1].curr)
<1>1. HasRoute(d, probe_id - 1) => route[d][probe_id - 1].cmin \in Nat
  BY DEF DataInv, MinimumIsNumber, HasRoute
<1> QED
  BY <1>1 DEF NewEntry

\* What pfr_route_scan writes into route.
LEMMA ScanWrites ==
    ASSUME RInv, RouteScan, NEW found, StoreDecisions(found), pc' = "free"
    PROVE  /\ \A d \in DOMAIN r : found[d].peer \notin Peers(d) \ Measured(d)
           /\ DOMAIN route' = DOMAIN route \cup Scanned
           /\ DOMAIN route \subseteq Scanned
           /\ \A d \in Scanned :
                 /\ probe_id \in DOMAIN route'[d] /\ route'[d][probe_id] = NewEntry(d, found[d])
                 /\ \A q \in DOMAIN route'[d] : q # probe_id =>
                       d \in DOMAIN route /\ q \in DOMAIN route[d] /\ route'[d][q] = route[d][q]
           /\ DOMAIN agg' = {} /\ DOMAIN r' = DOMAIN r
<1>1. /\ \A d \in DOMAIN r : found[d].peer \notin Peers(d) \ Measured(d)
      /\ route' = [d \in DOMAIN route \cup Scanned |->
                          IF d \in Scanned
                          THEN Put(At(route, d, Empty), probe_id, NewEntry(d, found[d]))
                          ELSE route[d]]
      /\ agg' = Empty /\ r' = Touch
  BY DEF RouteScan, StoreDecisions, Die
<1>2. DOMAIN Empty = {}
  BY DEF Empty
<1>3. DOMAIN route \subseteq Scanned
  BY DEF RouteScan, RInv, RouteWithinR, FirstRoundInv, Scanned, TypeInv
<1>4. ASSUME NEW d \in Scanned
      PROVE  /\ probe_id \in DOMAIN route'[d] /\ route'[d][probe_id] = NewEntry(d, found[d])
             /\ \A q \in DOMAIN route'[d] : q # probe_id =>
                   d \in DOMAIN route /\ q \in DOMAIN route[d] /\ route'[d][q] = route[d][q]
  <2>1. route'[d] = Put(At(route, d, Empty), probe_id, NewEntry(d, found[d]))
    BY <1>1
  <2> QED
    BY <1>2, <2>1 DEF Put, At
<1> QED
  BY <1>1, <1>2, <1>3, <1>4 DEF Touch

(***************************************************************************)
(* What a search can start with: the configured min_rtt until the first    *)
(* search, and again after a reread; 50000 after any search.               *)
(***************************************************************************)
StartInv == min_rtt \in Configured \cup {MinRtt}

LEMMA NextStart == StartInv /\ [Next]_vars => StartInv'
<1> SUFFICES ASSUME StartInv, [Next]_vars PROVE StartInv'
  OBVIOUS
<1>1. CASE RouteScan
  <2>1. min_rtt' \in {min_rtt, MinRtt}
    BY <1>1 DEF RouteScan
  <2> QED
    BY <2>1 DEF StartInv
<1>2. CASE NoShutdown
  <2>1. min_rtt' \in Configured \cup {min_rtt}
    BY <1>2 DEF NoShutdown, conf, settings
  <2> QED
    BY <2>1 DEF StartInv
<1>3. CASE Restart
  BY <1>3 DEF Restart, StartInv
<1>4. CASE Receive \/ LogWalks
  BY <1>4 DEF Receive, Reply, Store, LogWalks, Revive, conf, settings, StartInv
<1>5. CASE \/ Begin \/ StartWork \/ SkipRound \/ CalcAvgRtt \/ CalcStddevRtt \/ RouteFree
           \/ NoAdvertise \/ ThreadExits \/ Finished \/ UNCHANGED vars
  <2>1. min_rtt' = min_rtt
    BY <1>5 DEF Begin, StartWork, SkipRound, CalcAvgRtt, CalcStddevRtt, RouteFree, NoAdvertise,
       ThreadExits, Finished, vars, settings, conf
  <2> QED
    BY <2>1 DEF StartInv
<1>6. CASE RouteUpdate \/ RouteDelete \/ Shutdown \/ RoutesMan
  <2>1. min_rtt' = min_rtt
    BY <1>6 DEF RouteUpdate, RouteDelete, Shutdown, RoutesMan, settings, conf
  <2> QED
    BY <2>1 DEF StartInv
<1> QED
  BY <1>1, <1>2, <1>3, <1>4, <1>5, <1>6 DEF Next

\* Every start of a search is a number.
LEMMA StartTyped ==
    ASSUME StartInv, NEW start \in {min_rtt, MinRtt}, NEW d
    PROVE  From(d, start) \in Nat /\ From(d, start) \in Configured \cup {MinRtt}
  BY RoundsAssumption DEF StartInv, From

\* What is stored as a minimum is a number, whoever wrote it.
LEMMA FoundTyped ==
    ASSUME RInv, DataInv, StartInv, NEW start \in {min_rtt, MinRtt}, NEW d \in DOMAIN r,
           NEW s, s = Search(d, From(d, start)) \/ s \in Disturbed(d)
    PROVE  s.min \in Nat
<1>1. CASE s = Search(d, From(d, start))
  BY <1>1, StartTyped, ChosenRttTyped DEF Search
<1>2. CASE s \in Disturbed(d)
  BY <1>2, RoundsAssumption DEF Disturbed
<1> QED
  BY <1>1, <1>2

\* Removing destinations, or stuttering, keeps the data.
LEMMA FewerData ==
    ASSUME DataInv,
           DOMAIN r' \subseteq DOMAIN r, DOMAIN route' \subseteq DOMAIN route,
           \A d \in DOMAIN r' : r'[d] = r[d],
           \A d \in DOMAIN route' : route'[d] = route[d],
           agg' = agg
    PROVE  DataInv'
  BY DEF DataInv, RepliesOfPeers, AggIsMetric, MinimumIsNumber

\* Looking up r[d][probe_id] adds no reply.
LEMMA TouchData == DataInv /\ r' = Touch => RepliesOfPeers'
<1> SUFFICES ASSUME DataInv, r' = Touch, NEW d \in DOMAIN r', NEW q \in DOMAIN r'[d]
             PROVE  r'[d][q] \subseteq Peer
  BY DEF RepliesOfPeers
<1>1. \/ q \in DOMAIN r[d] /\ r'[d][q] = r[d][q]
      \/ r'[d][q] = {}
  BY DEF Touch, Put, At
<1>2. d \in DOMAIN r
  BY DEF Touch
<1> QED
  BY <1>1, <1>2 DEF DataInv, RepliesOfPeers

\* Every step keeps the data.
LEMMA NextData == RInv /\ DataInv /\ StartInv /\ [Next]_vars => DataInv'
<1> SUFFICES ASSUME RInv, DataInv, StartInv, [Next]_vars PROVE DataInv'
  OBVIOUS
<1>1. CASE Receive
  <2>1. PICK d \in Dst, q \in 0..probe_id, n \in Peer : Reply(d, q, n)
    BY <1>1 DEF Receive
  <2>2. /\ agg' = agg /\ route' = route
        /\ r' = Put(r, d, Put(At(r, d, Empty), q, At(At(r, d, Empty), q, {}) \cup {n}))
    BY <2>1 DEF Reply, Store
  <2>3. DOMAIN Empty = {}
    BY DEF Empty
  <2>4. \A e \in DOMAIN r' : \A k \in DOMAIN r'[e] :
           \/ e \in DOMAIN r /\ k \in DOMAIN r[e] /\ r'[e][k] \subseteq r[e][k] \cup {n}
           \/ r'[e][k] \subseteq {n}
    BY <2>2, <2>3 DEF Put, At
  <2> QED
    BY <2>2, <2>4 DEF DataInv, RepliesOfPeers, AggIsMetric, MinimumIsNumber
<1>2. CASE RouteUpdate \/ RouteDelete \/ Shutdown
  <2>1. \E S : r' = Drop(r, S) /\ route' = Drop(route, S) /\ agg' = agg
    BY <1>2 DEF RouteUpdate, RouteDelete, Shutdown, DeleteRoutes
  <2> QED
    BY <2>1, FewerData DEF Drop
<1>3. CASE CalcAvgRtt
  <2>1. route' = route /\ r' = Touch
    BY <1>3 DEF CalcAvgRtt
  <2>2. AggIsMetric'
    <3>1. PICK m \in [DOMAIN r -> [Peer -> Metric]] :
             agg' = [d \in DOMAIN r |-> [n \in Peers(d) |-> m[d][n]]]
      BY <1>3 DEF CalcAvgRtt
    <3> QED
      BY <3>1, PeersArePeers DEF AggIsMetric
  <2> QED
    BY <2>1, <2>2, TouchData DEF DataInv, MinimumIsNumber
<1>4. CASE CalcStddevRtt
  BY <1>4, TouchData DEF CalcStddevRtt, DataInv, MinimumIsNumber, AggIsMetric
<1>5. CASE RouteScan /\ pc' # "free"
  <2>1. PICK found : StoreDecisions(found)
    BY <1>5, ScanFound
  <2> QED
    BY <1>5, <2>1, TouchData DEF RouteScan, StoreDecisions, Goto, DataInv, MinimumIsNumber,
       AggIsMetric
<1>6. CASE RouteScan /\ pc' = "free"
  <2>start. PICK start \in {min_rtt, MinRtt} : \E found :
           /\ StoreDecisions(found)
           /\ \A d \in DOMAIN r : \/ found[d] = Search(d, From(d, start))
                                  \/ found[d] \in Disturbed(d)
    BY <1>6, ScanFound
  <2>1. PICK found :
           /\ StoreDecisions(found)
           /\ \A d \in DOMAIN r : \/ found[d] = Search(d, From(d, start))
                                  \/ found[d] \in Disturbed(d)
    BY <2>start
  <2>2. RepliesOfPeers'
    BY <1>6, TouchData DEF RouteScan
  <2>3. AggIsMetric'
    BY <1>6, <2>1, ScanWrites DEF AggIsMetric
  <2>4. MinimumIsNumber'
    <3> SUFFICES ASSUME NEW d \in DOMAIN route', NEW q \in DOMAIN route'[d]
                 PROVE  route'[d][q].cmin \in Nat
      BY DEF MinimumIsNumber
    <3>1. d \in Scanned /\ d \in DOMAIN r
      BY <1>6, <2>1, ScanWrites DEF Scanned
    <3>2. NewEntry(d, found[d]).cmin \in Nat
      BY <2>1, <3>1, FoundTyped, NewEntryIs
    <3>3. \/ route'[d][q] = NewEntry(d, found[d])
          \/ d \in DOMAIN route /\ q \in DOMAIN route[d] /\ route'[d][q] = route[d][q]
      BY <1>6, <2>1, <3>1, ScanWrites
    <3> QED
      BY <3>2, <3>3 DEF DataInv, MinimumIsNumber
  <2> QED
    BY <2>2, <2>3, <2>4 DEF DataInv
<1>7. CASE RouteFree
  <2>1. agg' = agg
    BY <1>7 DEF RouteFree
  <2>2. CASE r' = r /\ route' = route
    BY <2>1, <2>2, FewerData
  <2>3. CASE /\ r' = [d \in DOMAIN r |-> Put(r[d], probe_id - 2, {})]
             /\ route' = [d \in DOMAIN route \cup DOMAIN r |->
                             IF d \in DOMAIN r
                             THEN Drop(At(route, d, Empty), {probe_id - 2})
                             ELSE route[d]]
    <3>1. \A d \in DOMAIN r' : \A q \in DOMAIN r'[d] :
             \/ d \in DOMAIN r /\ q \in DOMAIN r[d] /\ r'[d][q] = r[d][q]
             \/ r'[d][q] = {}
      BY <2>3 DEF Put
    <3>2. DOMAIN Empty = {}
      BY DEF Empty
    <3>3. \A d \in DOMAIN route' : \A q \in DOMAIN route'[d] :
             d \in DOMAIN route /\ q \in DOMAIN route[d] /\ route'[d][q] = route[d][q]
      BY <2>3, <3>2 DEF Drop, At
    <3> QED
      BY <2>1, <3>1, <3>3 DEF DataInv, RepliesOfPeers, AggIsMetric, MinimumIsNumber
  <2> QED
    BY <1>7, <2>2, <2>3 DEF RouteFree
<1>8. CASE Restart
  BY <1>8 DEF Restart, Empty, DataInv, RepliesOfPeers, AggIsMetric, MinimumIsNumber
<1>9. CASE \/ Begin \/ StartWork \/ SkipRound \/ NoShutdown \/ RoutesMan \/ NoAdvertise
           \/ ThreadExits \/ Finished \/ UNCHANGED vars
  <2>1. r' = r /\ agg' = agg /\ route' = route
    BY <1>9 DEF Begin, StartWork, SkipRound, NoShutdown, RoutesMan, NoAdvertise, ThreadExits,
       Finished, vars
  <2> QED
    BY <2>1, FewerData
<1>10. CASE LogWalks
  <2>1. PICK d \in Dst, q \in 0..probe_id : Revive(d, q)
    BY <1>10 DEF LogWalks
  <2>2. agg' = agg /\ route' = route /\ r' = Put(r, d, [x \in {q} |-> {}])
    BY <2>1 DEF Revive
  <2> QED
    BY <2>2 DEF Put, DataInv, RepliesOfPeers, AggIsMetric, MinimumIsNumber
<1> QED
  BY <1>1, <1>2, <1>3, <1>4, <1>5, <1>6, <1>7, <1>8, <1>9, <1>10 DEF Next

\* The data are as stated in every reachable state.
LEMMA DataCorrect == Spec => [](RInv /\ RibInv /\ DataInv /\ StartInv)
<1>1. Init => DataInv /\ StartInv
  BY DEF Init, Empty, DataInv, RepliesOfPeers, AggIsMetric, MinimumIsNumber, StartInv
<1> QED
  BY <1>1, RibCorrect, NextData, NextStart, PTL DEF Spec

\* Only pfr_route_scan goes from "scan" to "free".
LEMMA ScanStepOnly == [Next]_vars /\ pc = "scan" /\ pc' = "free" => RouteScan
  BY DEF Next, Receive, Reply, Store, Begin, StartWork, SkipRound, RouteUpdate, CalcAvgRtt,
     CalcStddevRtt, RouteFree, RouteDelete, Shutdown, NoShutdown, RoutesMan, NoAdvertise,
     ThreadExits, Restart, Finished, LogWalks, Revive, vars, Goto, Die

\* Without a log thread in between, pfr_route_scan decides by its own searches.
LEMMA ScanDecides ==
    ASSUME RInv, [Next]_vars, ScanDone, ~mixed'
    PROVE  \E start \in {min_rtt, MinRtt} : \A d \in Scanned :
              LET s == Search(d, From(d, start))
              IN  /\ d \in DOMAIN r /\ s.peer \notin Peers(d) \ Measured(d)
                  /\ route'[d][probe_id] = NewEntry(d, s)
<1>1. RouteScan /\ pc' = "free"
  BY ScanStepOnly DEF ScanDone
<1>start. PICK start \in {min_rtt, MinRtt} : \E found :
         /\ StoreDecisions(found)
         /\ \A d \in DOMAIN r : found[d] = Search(d, From(d, start))
  BY <1>1, ScanFound
<1>2. PICK found :
         /\ StoreDecisions(found)
         /\ \A d \in DOMAIN r : found[d] = Search(d, From(d, start))
  BY <1>start
<1>3. \A d \in DOMAIN r : found[d].peer \notin Peers(d) \ Measured(d)
  BY <1>1, <1>2, ScanWrites
<1>4. \A d \in Scanned : d \in DOMAIN r /\ route'[d][probe_id] = NewEntry(d, found[d])
  BY <1>1, <1>2, ScanWrites DEF Scanned
<1> QED
  BY <1>2, <1>3, <1>4

\* pfr_route_scan takes the peer with the least metric, the first in the map among
\* equals, whatever reply without aggregate it meets on the way, if that metric is below
\* what the search starts with: the configured min_rtt for the first destination, 50000
\* for the others.  Only a log thread that writes min_rtt during the search breaks this.
THEOREM BestCorrect == Spec => BestPeerChosen
<1>1. RInv /\ DataInv /\ StartInv /\ [Next]_vars =>
        [ScanDone /\ probe_id > 0 /\ MetricRead /\ ~leastMove /\ ~mixed' =>
           \A d \in DOMAIN r :
              (\E n \in Measured(d) : BelowStart(d, agg[d][n])) =>
                  route'[d][probe_id].curr = Best(d)]_vars
  <2> SUFFICES ASSUME RInv, DataInv, StartInv, [Next]_vars, ScanDone, probe_id > 0, MetricRead,
                      ~leastMove, ~mixed',
                      NEW d \in DOMAIN r, NEW n \in Measured(d), BelowStart(d, agg[d][n])
               PROVE  route'[d][probe_id].curr = Best(d)
    OBVIOUS
  <2>1. PICK start \in {min_rtt, MinRtt} : \A e \in Scanned :
           LET s == Search(e, From(e, start))
           IN  /\ e \in DOMAIN r /\ s.peer \notin Peers(e) \ Measured(e)
               /\ route'[e][probe_id] = NewEntry(e, s)
    BY ScanDecides
  <2> DEFINE from == From(d, start)
             s == Search(d, from)
  <2>2. d \in Scanned
    BY DEF Scanned
  <2>3. /\ Chosen(d, from) \notin Peers(d) \ Measured(d)
        /\ route'[d][probe_id] = NewEntry(d, s)
    BY <2>1, <2>2 DEF Search
  <2>4. from \in Nat
    BY StartTyped
  <2>5. agg[d][n] < from
    BY DEF BelowStart, From
  <2> HIDE DEF from
  <2>6. Chosen(d, from) = Best(d) /\ Chosen(d, from) # 0
    BY <2>3, <2>4, <2>5, ChosenIsBest
  <2>7. NewEntry(d, s).curr = Chosen(d, from)
    BY <2>6 DEF NewEntry, Search
  <2> QED
    BY <2>3, <2>6, <2>7
<1> QED
  BY <1>1, DataCorrect, PTL DEF Spec, BestPeerChosen

\* rtt_least_move compares with the best minimum ever stored, which never rises; a
\* silent round makes it 0, and then the peer stays for as long as the entry does, unless
\* a log thread writes min_rtt between the search and the decision.
THEOREM MinimumCorrect == Spec => MinimumOnlyFalls
<1>1. RInv /\ RibInv /\ DataInv /\ StartInv /\ [Next]_vars =>
        [ScanDone /\ leastMove /\ ~mixed' =>
           \A d \in DOMAIN r : \A q \in DOMAIN At(route, d, Empty) :
              q + 1 = probe_id =>
                  /\ route'[d][probe_id].cmin <= route[d][q].cmin
                  /\ route[d][q].cmin = 0 =>
                        /\ route'[d][probe_id].curr = route[d][q].curr
                        /\ route'[d][probe_id].cmin = 0]_vars
  <2> SUFFICES ASSUME RInv, RibInv, DataInv, StartInv, [Next]_vars, ScanDone, leastMove, ~mixed',
                      NEW d \in DOMAIN r, NEW q \in DOMAIN At(route, d, Empty),
                      q + 1 = probe_id
               PROVE  /\ route'[d][probe_id].cmin <= route[d][q].cmin
                      /\ route[d][q].cmin = 0 =>
                            /\ route'[d][probe_id].curr = route[d][q].curr
                            /\ route'[d][probe_id].cmin = 0
    OBVIOUS
  <2>1. PICK start \in {min_rtt, MinRtt} : \A e \in Scanned :
           LET s == Search(e, From(e, start))
           IN  /\ e \in DOMAIN r /\ s.peer \notin Peers(e) \ Measured(e)
               /\ route'[e][probe_id] = NewEntry(e, s)
    BY ScanDecides
  <2>2. d \in DOMAIN route /\ q \in DOMAIN route[d]
    BY DEF At, Empty
  <2>3. q \in Nat /\ probe_id \in Nat /\ q = probe_id - 1 /\ probe_id # 0 /\ probe_id > 0
    BY <2>2 DEF RibInv, BoundInv, RInv, TypeInv
  <2> DEFINE old == route[d][q]
             from == From(d, start)
             peer == Chosen(d, from)
             new == ChosenRtt(d, from)
             entry == NewEntry(d, Search(d, from))
  <2>4. route'[d][probe_id] = entry
    BY <2>1, <2>3 DEF Scanned
  <2>5. from \in Nat
    BY StartTyped
  <2>6. old.cmin \in Nat /\ new \in Nat /\ RttLeastThresh \in Nat
    <3> HIDE DEF from
    <3> QED
      BY <2>2, <2>5, ChosenRttTyped, RoundsAssumption DEF DataInv, MinimumIsNumber
  <2>7. peer = 0 => new = 0
    BY DEF ChosenRtt
  <2>8. entry = IF peer = 0 \/ ~(~Moves(old.cmin, new))
                THEN [prev |-> old.curr, curr |-> IF peer = 0 THEN old.curr ELSE peer, cmin |-> new]
                ELSE [prev |-> old.curr, curr |-> old.curr, cmin |-> old.cmin]
    <3> HIDE DEF from, peer, new
    <3>1. Search(d, from) = [peer |-> peer, tested |-> new, min |-> new]
      BY DEF Search, peer, new
    <3> QED
      BY <2>2, <2>3, <3>1 DEF NewEntry, HasRoute
  <2>9. Moves(old.cmin, new) => new <= old.cmin /\ old.cmin # 0
    <3> HIDE DEF old, new
    <3>1. new * RttLeastThresh \in Nat /\ new * (100 + RttLeastThresh) = new * 100 + new * RttLeastThresh
      BY <2>6
    <3> QED
      BY <2>6, <3>1 DEF Moves
  <2> HIDE DEF old, from, peer, new, entry
  <2>10. /\ entry.cmin <= old.cmin
         /\ old.cmin = 0 => entry.curr = old.curr /\ entry.cmin = 0
    BY <2>6, <2>7, <2>8, <2>9
  <2> QED
    BY <2>4, <2>10 DEF old
<1> QED
  BY <1>1, DataCorrect, PTL DEF Spec, MinimumOnlyFalls
----------------------------------------------------------------------------
(***************************************************************************)
(* Peer 0.  As long as replies come before their round is evaluated, no    *)
(* round is skipped, every metric is below what a search can start with    *)
(* and no log thread changes a search or brings a destination back, a      *)
(* destination of r has answered in this round or has the decision of the  *)
(* round before, so that no decision is without peer.                      *)
(***************************************************************************)
Undisturbed ==
    /\ \A m \in Metric : m < MinRtt /\ \A c \in Configured : m < c
    /\ ~stray /\ skips = 0 /\ ~mixed /\ ~revived

PeerInv ==
    Undisturbed =>
        /\ \A d \in DOMAIN route : \A q \in DOMAIN route[d] : route[d][q].curr # 0
        /\ pc \in Before => \A d \in DOMAIN r : \/ HasRoute(d, probe_id - 1)
                                                \/ pc # "begin" /\ Peers(d) # {}
        /\ pc \in After => \A d \in DOMAIN r : HasRoute(d, probe_id)

\* Steps that change neither map nor round.
LEMMA StillPeer ==
    ASSUME PeerInv, UNCHANGED <<r, route, probe_id, stray, skips, mixed, revived>>,
           \/ pc' = pc
           \/ pc' \in {"dead", "exit"}
           \/ pc \in Before /\ pc' \in Before \ {"begin"}
           \/ pc \in After /\ pc' \in After
    PROVE  PeerInv'
  BY DEF PeerInv, Undisturbed, HasRoute, Peers, Before, After

\* Steps that remove the same destinations from both maps.
LEMMA DropPeer ==
    ASSUME PeerInv, RInv, NEW S, r' = Drop(r, S), route' = Drop(route, S), UNCHANGED <<probe_id, stray, skips, mixed, revived>>,
           \/ pc' \in {"dead", "exit"}
           \/ pc = "update" /\ pc' = "calc"
           \/ pc \in After /\ pc' \in After
    PROVE  PeerInv'
<1>1. /\ DOMAIN r' = DOMAIN r \ S /\ DOMAIN route' = DOMAIN route \ S
      /\ \A d \in DOMAIN r' : r'[d] = r[d]
      /\ \A d \in DOMAIN route' : route'[d] = route[d]
  BY DEF Drop
<1>2. /\ \A d \in DOMAIN r' : Peers(d)' = Peers(d)
      /\ \A d \in DOMAIN r' : \A q : HasRoute(d, q) => HasRoute(d, q)'
  BY <1>1 DEF Peers, HasRoute
<1> QED
  BY <1>1, <1>2 DEF PeerInv, Undisturbed, Before, After

\* Steps that look up r[d][probe_id].
LEMMA TouchPeer ==
    ASSUME PeerInv, r' = Touch, UNCHANGED <<probe_id, route, stray, skips, mixed, revived>>,
           pc \in Before \ {"begin"}, pc' \in Before \cup {"dead"}, pc' # "begin"
    PROVE  PeerInv'
<1>1. DOMAIN r' = DOMAIN r /\ \A d \in DOMAIN r : Peers(d)' = Peers(d)
  BY TouchPeers
<1> QED
  BY <1>1 DEF PeerInv, Undisturbed, HasRoute, Before, After

\* A reply that is not stray belongs to the round that is open.
LEMMA ReplyPeer ==
    ASSUME PeerInv, RInv, RibInv, NEW d \in Dst, NEW q \in 0..probe_id, NEW n \in Peer, Reply(d, q, n)
    PROVE  PeerInv'
<1> SUFFICES ASSUME Undisturbed'
             PROVE  /\ \A e \in DOMAIN route' : \A k \in DOMAIN route'[e] : route'[e][k].curr # 0
                    /\ pc' \in Before => \A e \in DOMAIN r' : \/ HasRoute(e, probe_id - 1)'
                                                              \/ pc' # "begin" /\ Peers(e)' # {}
                    /\ pc' \in After => \A e \in DOMAIN r' : HasRoute(e, probe_id)'
  BY DEF PeerInv
<1>1. /\ Undisturbed /\ pc \notin Work /\ q = probe_id
      /\ UNCHANGED <<route, probe_id>> /\ pc \in {"begin", "open"} /\ pc' = pc
  BY DEF Reply, Store, Goto, Die, Racing, Work, Undisturbed, noise
<1>2. pc = "open"
  <2>1. probe_id \in Nat
    BY DEF RInv, TypeInv
  <2> QED
    BY <1>1, <2>1 DEF Reply, Store, Awaited
<1>3. r' = Put(r, d, Put(At(r, d, Empty), q, At(At(r, d, Empty), q, {}) \cup {n}))
  BY DEF Reply, Store
<1>4. /\ DOMAIN r' = DOMAIN r \cup {d} /\ Peers(d)' # {}
      /\ \A e \in DOMAIN r : e # d => Peers(e)' = Peers(e)
  BY <1>1, <1>3 DEF Put, At, Peers
<1>5. \A e \in DOMAIN r : HasRoute(e, probe_id - 1) => HasRoute(e, probe_id - 1)'
  BY <1>1 DEF HasRoute
<1> QED
  BY <1>1, <1>2, <1>4, <1>5 DEF PeerInv, Before, After

\* pfr_route_scan decides for every destination, each time for a peer.
LEMMA ScanPeer ==
    ASSUME RInv, RibInv, DataInv, StartInv, PeerInv, RouteScan, pc' = "free"
    PROVE  PeerInv'
<1> SUFFICES ASSUME Undisturbed, ~mixed'
             PROVE  /\ \A d \in DOMAIN route' : \A q \in DOMAIN route'[d] : route'[d][q].curr # 0
                    /\ \A d \in DOMAIN r' : HasRoute(d, probe_id)'
  <2>1. UNCHANGED <<stray, skips, revived>>
    BY DEF RouteScan
  <2>2. ~mixed' => ~mixed
    BY ScanFound
  <2> QED
    BY <2>1, <2>2 DEF PeerInv, Before, Undisturbed
<1>start. PICK start \in {min_rtt, MinRtt} : \E found :
         /\ StoreDecisions(found)
         /\ \A d \in DOMAIN r : found[d] = Search(d, From(d, start))
  BY ScanFound
<1>0. PICK found :
         /\ StoreDecisions(found)
         /\ \A d \in DOMAIN r : found[d] = Search(d, From(d, start))
  BY <1>start
<1>1. /\ pc = "scan" /\ pc \in Before /\ probe_id' = probe_id /\ probe_id \in Nat
  BY DEF RouteScan, Before, RInv, TypeInv
<1>2. probe_id = 0 => \A d \in DOMAIN r : ~HasRoute(d, probe_id - 1)
  BY <1>1 DEF RibInv, BoundInv, HasRoute
<1>3. \A d \in DOMAIN r : HasRoute(d, probe_id - 1) \/ Peers(d) # {}
  BY <1>1 DEF PeerInv
<1>4. Scanned = DOMAIN r
  BY <1>1, <1>2, <1>3 DEF Scanned
<1>5. \A d \in DOMAIN r' : HasRoute(d, probe_id)'
  BY <1>0, <1>1, <1>4, ScanWrites DEF HasRoute
<1>6. ASSUME NEW d \in DOMAIN r PROVE NewEntry(d, found[d]).curr # 0
  <2> DEFINE from == From(d, start)
  <2>1. /\ from \in Nat /\ \A m \in Metric : m < from
        /\ found[d].peer = Chosen(d, from) /\ found[d].min \in Nat
    <3>1. from \in Nat /\ from \in Configured \cup {MinRtt}
      BY StartTyped
    <3>2. found[d] = Search(d, from)
      BY <1>0
    <3>3. found[d].min \in Nat
      BY <3>2, FoundTyped
    <3> HIDE DEF from
    <3> QED
      BY <3>1, <3>2, <3>3 DEF Search, Undisturbed
  <2> HIDE DEF from
  <2>2. HasRoute(d, probe_id - 1) => route[d][probe_id - 1].curr # 0
    BY DEF PeerInv, HasRoute
  <2>3. CASE found[d].peer = 0
    <3>1. Peers(d) = {}
      BY <2>1, <2>3, ChosenExists
    <3> QED
      BY <1>2, <1>3, <2>1, <2>2, <2>3, <3>1, NewEntryIs
  <2>4. CASE found[d].peer # 0
    BY <2>1, <2>2, <2>4, NewEntryIs
  <2> QED
    BY <2>3, <2>4
<1>7. ASSUME NEW d \in DOMAIN route', NEW q \in DOMAIN route'[d] PROVE route'[d][q].curr # 0
  <2>1. d \in Scanned /\ d \in DOMAIN r
    BY <1>0, <1>4, ScanWrites
  <2>2. \/ route'[d][q] = NewEntry(d, found[d])
        \/ d \in DOMAIN route /\ q \in DOMAIN route[d] /\ route'[d][q] = route[d][q]
    BY <1>0, <2>1, ScanWrites
  <2> QED
    BY <1>6, <2>1, <2>2 DEF PeerInv
<1> QED
  BY <1>5, <1>7

\* pfr_route_free takes an older decision away.
LEMMA FreePeer == RInv /\ PeerInv /\ RouteFree => PeerInv'
<1> SUFFICES ASSUME RInv, PeerInv, RouteFree PROVE PeerInv'
  OBVIOUS
<1>1. /\ pc = "free" /\ pc' = "delete" /\ probe_id' = probe_id /\ probe_id \in Nat
      /\ UNCHANGED <<stray, skips, mixed, revived>>
  BY DEF RouteFree, Goto, history, noise, RInv, TypeInv
<1>2. CASE r' = r /\ route' = route
  BY <1>1, <1>2, StillPeer DEF After
<1>3. CASE /\ r' = [d \in DOMAIN r |-> Put(r[d], probe_id - 2, {})]
           /\ route' = [d \in DOMAIN route \cup DOMAIN r |->
                           IF d \in DOMAIN r
                           THEN Drop(At(route, d, Empty), {probe_id - 2})
                           ELSE route[d]]
  <2>1. DOMAIN Empty = {}
    BY DEF Empty
  <2>2. \A d \in DOMAIN route' : \A q \in DOMAIN route'[d] :
           d \in DOMAIN route /\ q \in DOMAIN route[d] /\ route'[d][q] = route[d][q]
    BY <1>3, <2>1 DEF Drop, At
  <2>3. DOMAIN r' = DOMAIN r /\ \A d \in DOMAIN r : HasRoute(d, probe_id) => HasRoute(d, probe_id)'
    <3>1. probe_id # probe_id - 2
      BY <1>1
    <3> QED
      BY <1>1, <1>3, <3>1 DEF HasRoute, Drop, At
  <2> QED
    BY <1>1, <2>2, <2>3 DEF PeerInv, Undisturbed, Before, After
<1> QED
  BY <1>2, <1>3 DEF RouteFree

\* The decision of this round is that of the previous one in the next.
LEMMA RoundPeer ==
    ASSUME RInv, PeerInv, pc = "advertise", pc' = "begin", probe_id' = probe_id + 1,
           UNCHANGED <<r, route, stray, skips, mixed, revived>>
    PROVE  PeerInv'
<1>1. probe_id \in Nat /\ probe_id' - 1 = probe_id
  BY DEF RInv, TypeInv
<1> QED
  BY <1>1 DEF PeerInv, Undisturbed, HasRoute, Before, After

\* The invariant is inductive for every step of the rounds.
LEMMA NextPeer == RInv /\ RibInv /\ DataInv /\ StartInv /\ PeerInv /\ [Next]_vars => PeerInv'
<1> SUFFICES ASSUME RInv, RibInv, DataInv, StartInv, PeerInv, [Next]_vars PROVE PeerInv'
  OBVIOUS
<1>1. CASE Receive
  BY <1>1, ReplyPeer DEF Receive
<1>2. CASE Begin \/ StartWork \/ NoShutdown \/ ThreadExits \/ Finished \/ UNCHANGED vars
  <2>1. UNCHANGED <<r, route, probe_id, stray, skips, mixed, revived>>
    BY <1>2 DEF Begin, StartWork, NoShutdown, ThreadExits, Finished, vars, history, noise
  <2>2. \/ pc' = pc \/ pc' = "dead"
        \/ pc \in Before /\ pc' \in Before \ {"begin"}
        \/ pc \in After /\ pc' \in After
    BY <1>2 DEF Begin, StartWork, NoShutdown, ThreadExits, Finished, vars, Goto, Die, Before, After
  <2> QED
    BY <2>1, <2>2, StillPeer
<1>3. CASE SkipRound
  BY <1>3 DEF SkipRound, RibInv, BoundInv, PeerInv, Undisturbed
<1>4. CASE RouteUpdate \/ RouteDelete \/ Shutdown
  <2>1. PICK S : r' = Drop(r, S) /\ route' = Drop(route, S)
    BY <1>4 DEF RouteUpdate, RouteDelete, Shutdown, DeleteRoutes
  <2>2. /\ UNCHANGED <<probe_id, stray, skips, mixed, revived>>
        /\ \/ pc' \in {"dead", "exit"}
           \/ pc = "update" /\ pc' = "calc"
           \/ pc \in After /\ pc' \in After
    BY <1>4 DEF RouteUpdate, RouteDelete, Shutdown, DeleteRoutes, Erase, Goto, Die, After
  <2> QED
    BY <2>1, <2>2, DropPeer
<1>5. CASE CalcAvgRtt \/ CalcStddevRtt
  <2>1. r' = Touch /\ UNCHANGED <<probe_id, route, stray, skips, mixed, revived>>
    BY <1>5 DEF CalcAvgRtt, CalcStddevRtt, Goto, history, noise
  <2>2. pc \in Before \ {"begin"} /\ pc' \in Before \cup {"dead"} /\ pc' # "begin"
    BY <1>5 DEF CalcAvgRtt, CalcStddevRtt, Goto, Die, Before
  <2> QED
    BY <2>1, <2>2, TouchPeer
<1>9. CASE RouteScan /\ pc' # "free"
  <2>1. route' = route /\ pc' = "dead" /\ (Undisturbed' => Undisturbed)
    <3>1. PICK found : StoreDecisions(found)
      BY <1>9, ScanFound
    <3> QED
      BY <1>9, <3>1 DEF RouteScan, StoreDecisions, Goto, Die, Undisturbed
  <2> QED
    BY <2>1 DEF PeerInv, Before, After
<1>10. CASE LogWalks
  BY <1>10 DEF LogWalks, Revive, PeerInv, Undisturbed
<1>6. CASE RoutesMan
  <2>1. UNCHANGED <<r, route, stray, skips, mixed, revived>> /\ pc = "advertise"
    BY <1>6 DEF RoutesMan, noise
  <2>2. CASE pc' = "dead" /\ probe_id' = probe_id
    BY <2>1, <2>2, StillPeer
  <2>3. CASE pc' = "begin" /\ probe_id' = probe_id + 1
    BY <2>1, <2>3, RoundPeer
  <2> QED
    BY <1>6, <2>2, <2>3 DEF RoutesMan, Goto, Die
<1>7. CASE NoAdvertise
  BY <1>7, RoundPeer DEF NoAdvertise, Goto, history, noise
<1>8. CASE Restart
  BY <1>8 DEF Restart, Empty, PeerInv
<1> QED
  BY <1>1, <1>2, <1>3, <1>4, <1>5, <1>6, <1>7, <1>8, <1>9, <1>10, ScanPeer, FreePeer DEF Next

\* A decision without peer needs a reply that came after its round was evaluated, a
\* skipped round, a metric that is not below every start of a search, or a log thread at
\* the same destination as main.
THEOREM PeerZeroCorrect == Spec => []PeerZeroNeedsStrayReply
<1>1. Init => PeerInv
  BY DEF Init, Empty, PeerInv
<1>2. PeerInv => PeerZeroNeedsStrayReply
  BY DEF PeerInv, Undisturbed, PeerZeroNeedsStrayReply
<1> QED
  BY <1>1, <1>2, DataCorrect, NextPeer, PTL DEF Spec
----------------------------------------------------------------------------
(***************************************************************************)
(* The composition of the two threads and the rounds implements PfrRounds: *)
(* what PfrRounds assumes about replies during the work of a round is what *)
(* the mutex mt_req_send enforces.                                         *)
(***************************************************************************)
(***************************************************************************)
(* The inductive invariant: during the work the main thread holds          *)
(* mt_req_send, which it gives back only at "unlock"; a receiver that has  *)
(* stored a reply during the work waits for it; a dead process stands      *)
(* still.                                                                  *)
(***************************************************************************)
HoldInv == /\ pc \in Work => mt_req_send = "main"
           /\ main = "unlock" => pc = "begin"

WaitInv == pc \in Work /\ late => reader = "ack"

StopInv == pc \in {"exit", "dead"} => main = "exit"

DInv == HoldInv /\ WaitInv /\ StopInv

\* The process starts in the invariant.
LEMMA InitDInv == DaemonInit => DInv
  BY DEF DaemonInit, Init, H!Init, DInv, HoldInv, WaitInv, StopInv, Work

\* Every function that main calls is a step of the rounds.
LEMMA CallNext == Call => Next
  BY DEF Call, Next

\* A reply is stored while the receiver is inside proc_v4, hence not waiting:
\* it is the first one during the work of a round.
LEMMA StoreNext == DInv /\ StoreReply => Next
<1> SUFFICES ASSUME DInv, StoreReply PROVE Next
  OBVIOUS
<1>1. PICK d \in Dst, q \in 0..probe_id, n \in Peer : Store(d, q, n) /\ reader = "store"
  BY DEF StoreReply, H!StoreReply
<1>2. pc \in Work => ~late
  BY <1>1 DEF DInv, WaitInv
<1>3. Reply(d, q, n)
  BY <1>1, <1>2 DEF Reply
<1> QED
  BY <1>1, <1>3 DEF Receive, Next

\* Every step of the process is a step of the rounds or leaves the maps alone.
LEMMA StepRounds == DInv /\ [DaemonNext]_daemonVars => [Next]_vars
<1> SUFFICES ASSUME DInv, [DaemonNext]_daemonVars PROVE [Next]_vars
  OBVIOUS
<1>1. CASE ThreadStep \/ DropPacket
  BY <1>1 DEF ThreadStep, DropPacket
<1>2. CASE MainStep
  BY <1>2, CallNext DEF MainStep
<1>3. CASE MainDies
  BY <1>3 DEF MainDies, Next
<1>4. CASE StoreReply
  BY <1>4, StoreNext
<1>5. CASE OtherDies
  BY <1>5 DEF OtherDies, Next
<1>6. CASE DaemonFinished
  BY <1>6 DEF DaemonFinished, Finished
<1>7. CASE UNCHANGED daemonVars
  BY <1>7 DEF daemonVars
<1>8. CASE LogStep
  BY <1>8 DEF LogStep, Next
<1> QED
  BY <1>1, <1>2, <1>3, <1>4, <1>5, <1>6, <1>7, <1>8 DEF DaemonNext

\* The steps of the threads outside the maps keep the invariant: while main holds
\* the mutex a waiting receiver stays where it is.
LEMMA ThreadDInv == DInv /\ ThreadStep => DInv'
<1> SUFFICES ASSUME DInv, ThreadStep PROVE DInv'
  OBVIOUS
<1>1. pc' = pc /\ late' = late
  BY DEF ThreadStep, vars
<1> USE DEF DInv, HoldInv, WaitInv, StopInv, Work
<1>2. CASE H!RequestStop \/ H!SpawnSqlLog \/ H!LockRoutes \/ H!CheckSignals \/ H!ResetFlags
  BY <1>1, <1>2 DEF H!RequestStop, H!SpawnSqlLog, H!LockRoutes, H!CheckSignals, H!ResetFlags,
     H!Goto
<1>3. CASE H!EndWork \/ H!NextRound
  BY <1>1, <1>3 DEF H!EndWork, H!NextRound, H!Goto
<1>4. CASE H!Select \/ H!Recv \/ H!RecvInterrupted \/ H!LockReplies \/ H!Ack \/ H!Signal
  BY <1>1, <1>4 DEF H!Select, H!Recv, H!RecvInterrupted, H!LockReplies, H!Ack, H!Signal
<1> QED
  BY <1>2, <1>3, <1>4 DEF ThreadStep

\* What a function called by main does to the place of the rounds and to late.
LEMMA CallPlaces ==
    ASSUME Call
    PROVE  /\ reader' = reader
           /\ \/ /\ pc \in Work /\ late' = late /\ mt_req_send' = mt_req_send
                 /\ main' = "unlock" => pc' \notin Work
              \/ /\ pc' = "update" /\ late' = FALSE /\ mt_req_send' = "main"
                 /\ main' = "update"
              \/ /\ pc' \in {"begin", "open"} /\ mt_req_send' = mt_req_send
                 /\ main' # "unlock"
<1> USE DEF Work, Goto, Die, H!Goto
<1>1. CASE H!SendProbes /\ Begin
  BY <1>1 DEF H!SendProbes, Begin
<1>2. CASE H!StartWork /\ main' = "update" /\ StartWork
  BY <1>2 DEF H!StartWork, StartWork
<1>3. CASE H!StartWork /\ main' = "next" /\ SkipRound
  BY <1>3 DEF H!StartWork, SkipRound
<1>4. CASE H!RouteUpdate /\ RouteUpdate
  BY <1>4 DEF H!RouteUpdate, RouteUpdate
<1>5. CASE main = "calc" /\ CalcAvgRtt /\ UNCHANGED threads
  BY <1>5 DEF CalcAvgRtt, threads
<1>6. CASE H!CalcRtt /\ CalcStddevRtt
  BY <1>6 DEF H!CalcRtt, CalcStddevRtt
<1>7. CASE H!RouteScan /\ RouteScan
  BY <1>7 DEF H!RouteScan, RouteScan
<1>8. CASE H!RouteFree /\ RouteFree
  BY <1>8 DEF H!RouteFree, RouteFree
<1>9. CASE H!RouteDelete /\ RouteDelete
  BY <1>9 DEF H!RouteDelete, RouteDelete, DeleteRoutes
<1>10. CASE H!Shutdown /\ Shutdown
  BY <1>10 DEF H!Shutdown, Shutdown, DeleteRoutes
<1>11. CASE H!CheckSignals /\ NoShutdown
  BY <1>11 DEF H!CheckSignals, NoShutdown
<1>12. CASE H!Reread /\ NoShutdown
  BY <1>12 DEF H!Reread, NoShutdown
<1>13. CASE H!Advertise /\ (RoutesMan \/ NoAdvertise)
  BY <1>13 DEF H!Advertise, RoutesMan, NoAdvertise
<1> QED
  BY <1>1, <1>2, <1>3, <1>4, <1>5, <1>6, <1>7, <1>8, <1>9, <1>10, <1>11, <1>12, <1>13 DEF Call

\* The functions that main calls keep the invariant.
LEMMA MainDInv == DInv /\ MainStep => DInv'
<1> SUFFICES ASSUME DInv, MainStep PROVE DInv'
  OBVIOUS
<1>1. Call /\ (pc' \in {"exit", "dead"} <=> main' = "exit")
  BY DEF MainStep
<1>2. main' = "unlock" => H!Advertise /\ (RoutesMan \/ NoAdvertise)
  BY <1>1 DEF Call, H!SendProbes, H!StartWork, H!RouteUpdate, H!CalcRtt, H!RouteScan,
     H!RouteFree, H!RouteDelete, H!Shutdown, H!CheckSignals, H!Reread, H!Goto, CalcAvgRtt,
     DInv, HoldInv, threads
<1>3. main' = "unlock" => pc' = "begin"
  BY <1>1, <1>2 DEF RoutesMan, NoAdvertise, Goto, Die
<1>4. reader' = reader /\ (pc' \in Work => pc \in Work \/ pc' = "update")
  BY <1>1, CallPlaces DEF Work
<1>5. pc' \in Work => mt_req_send' = "main"
  BY <1>1, CallPlaces DEF DInv, HoldInv, Work
<1>6. ASSUME pc' \in Work, late' PROVE reader' = "ack"
  <2>1. pc \in Work /\ late
    BY <1>1, <1>6, CallPlaces DEF Work
  <2> QED
    BY <2>1, <1>4 DEF DInv, WaitInv
<1>7. HoldInv'
  BY <1>3, <1>5 DEF HoldInv, Work
<1>8. WaitInv'
  BY <1>6 DEF WaitInv, Work
<1>9. StopInv'
  BY <1>1 DEF StopInv
<1> QED
  BY <1>7, <1>8, <1>9 DEF DInv

\* The invariant is inductive for every step of the process.
LEMMA NextDInv == DInv /\ [DaemonNext]_daemonVars => DInv'
<1> SUFFICES ASSUME DInv, [DaemonNext]_daemonVars PROVE DInv'
  OBVIOUS
<1> USE DEF DInv, HoldInv, WaitInv, StopInv, Work
<1>1. CASE ThreadStep
  BY <1>1, ThreadDInv
<1>2. CASE MainStep
  BY <1>2, MainDInv
<1>3. CASE MainDies
  BY <1>3 DEF MainDies, H!Crash
<1>4. CASE StoreReply
  <2>1. PICK d \in Dst, q \in 0..probe_id, n \in Peer :
           /\ Store(d, q, n)
           /\ (pc' # "dead" /\ H!StoreReply) \/ (pc' = "dead" /\ H!Crash)
    BY <1>4 DEF StoreReply
  <2>2. pc' \in {pc, "dead"} /\ late' = (late \/ pc \in Work) /\ pc \notin {"exit", "dead"}
    BY <2>1 DEF Store, Goto, Die
  <2>3. CASE pc' = pc /\ H!StoreReply
    BY <2>2, <2>3 DEF H!StoreReply
  <2>4. CASE pc' = "dead" /\ H!Crash
    BY <2>4 DEF H!Crash
  <2> QED
    BY <2>1, <2>2, <2>3, <2>4
<1>5. CASE DropPacket
  BY <1>5 DEF DropPacket, H!StoreReply, vars
<1>6. CASE OtherDies
  BY <1>6 DEF OtherDies, ThreadExits, Die, H!RecvError, H!Crash
<1>7. CASE DaemonFinished
  BY <1>7 DEF DaemonFinished, Finished, vars, threads
<1>8. CASE UNCHANGED daemonVars
  BY <1>8 DEF daemonVars, vars, threads
<1>9. CASE LogStep
  BY <1>9 DEF LogStep, LogWalks, Revive, threads
<1> QED
  BY <1>1, <1>2, <1>3, <1>4, <1>5, <1>6, <1>7, <1>8, <1>9 DEF DaemonNext

\* The invariant holds in every reachable state.
LEMMA DaemonInv == DaemonSpec => []DInv
  BY InitDInv, NextDInv, PTL DEF DaemonSpec

\* The process implements the rounds: the restraint that PfrRounds puts on replies
\* during the work is a consequence of how readloop and main use mt_req_send.
THEOREM DaemonImplementsRounds == DaemonSpec => ImplementsRounds
<1>1. DaemonInit => Init
  BY DEF DaemonInit
<1> QED
  BY <1>1, StepRounds, DaemonInv, PTL DEF DaemonSpec, Spec, ImplementsRounds

\* What a log thread has created again stays on record while the process lives, and a
\* process that dies of a NULL dereference has not been started anew.
LEMMA RevivedStays == [Next]_vars /\ crash' = "null" /\ revived => revived'
<1> SUFFICES ASSUME [Next]_vars, crash' = "null", revived PROVE revived'
  OBVIOUS
<1>1. CASE RouteUpdate \/ RouteDelete \/ Shutdown
  BY <1>1 DEF RouteUpdate, RouteDelete, Shutdown, DeleteRoutes, Erase
<1>2. CASE Receive \/ LogWalks
  BY <1>2 DEF Receive, Reply, Store, LogWalks, Revive, noise
<1>3. CASE RouteScan
  BY <1>3 DEF RouteScan
<1>4. CASE NoShutdown \/ RoutesMan \/ SkipRound
  BY <1>4 DEF NoShutdown, RoutesMan, SkipRound, noise
<1>5. CASE Restart
  BY <1>5 DEF Restart
<1>6. CASE \/ Begin \/ StartWork \/ CalcAvgRtt \/ CalcStddevRtt \/ RouteFree \/ NoAdvertise
           \/ ThreadExits \/ Finished \/ UNCHANGED vars
  BY <1>6 DEF Begin, StartWork, CalcAvgRtt, CalcStddevRtt, RouteFree, NoAdvertise, ThreadExits,
     Finished, vars, history, noise
<1> QED
  BY <1>1, <1>2, <1>3, <1>4, <1>5, <1>6 DEF Next

\* A process that has died of a NULL dereference does not move any more, and the
\* step that dies of one happens during the work, after a late reply, unless a log thread
\* has created a destination again.
LEMMA NextNull ==
    DInv /\ RInv /\ RInv' /\ NullWhileReceiverWaits /\ [DaemonNext]_daemonVars
      => NullWhileReceiverWaits'
<1> SUFFICES ASSUME DInv, RInv, RInv', NullWhileReceiverWaits, [DaemonNext]_daemonVars,
                    crash' = "null", ~revived'
             PROVE  reader' = "ack"
  BY DEF NullWhileReceiverWaits
<1>0. ~revived
  BY StepRounds, RevivedStays
<1>1. CASE crash = "null"
  <2>1. pc = "dead" /\ main = "exit" /\ reader = "ack"
    BY <1>0, <1>1 DEF DInv, StopInv, RInv, AliveInv, NullWhileReceiverWaits
  <2>2. CASE ThreadStep \/ DropPacket
    BY <2>1, <2>2 DEF ThreadStep, DropPacket, H!RequestStop, H!SpawnSqlLog, H!LockRoutes,
       H!CheckSignals, H!ResetFlags, H!EndWork, H!NextRound, H!Goto, H!Select, H!Recv,
       H!RecvInterrupted, H!LockReplies, H!Ack, H!Signal, H!StoreReply, H!Running
  <2>3. CASE MainStep
    BY <2>1, <2>3, CallPlaces DEF MainStep
  <2>4. CASE MainDies
    BY <2>1, <2>4 DEF MainDies, H!Crash, H!Running
  <2>5. CASE StoreReply
    BY <2>1, <2>5 DEF StoreReply, Store, Work
  <2>6. CASE OtherDies
    BY <2>1, <2>6 DEF OtherDies, ThreadExits
  <2>7. CASE DaemonFinished \/ UNCHANGED daemonVars
    BY <2>1, <2>7 DEF DaemonFinished, daemonVars, threads
  <2>8. CASE LogStep
    BY <2>1, <2>8 DEF LogStep, threads
  <2> QED
    BY <2>2, <2>3, <2>4, <2>5, <2>6, <2>7, <2>8 DEF DaemonNext
<1>2. CASE crash # "null"
  <2>1. pc' = "dead" /\ late'
    BY DEF RInv, AliveInv, NullInv
  <2>2. CASE ThreadStep \/ DropPacket
    BY <1>2, <2>2 DEF ThreadStep, DropPacket, vars
  <2>3. CASE MainStep
    <3>1. pc \in Work /\ late' = late /\ reader' = reader
      BY <2>1, <2>3, CallPlaces DEF MainStep
    <3> QED
      BY <2>1, <3>1 DEF DInv, WaitInv
  <2>4. CASE MainDies
    <3>1. pc \in Work /\ late' = late /\ reader' = reader
      BY <2>4 DEF MainDies, H!Crash, RouteUpdate, CalcStddevRtt, RouteScan, RouteDelete,
         RoutesMan, Work
    <3> QED
      BY <2>1, <3>1 DEF DInv, WaitInv
  <2>5. CASE StoreReply
    BY <1>2, <2>5 DEF StoreReply, Store, Goto, Die
  <2>6. CASE OtherDies
    BY <1>2, <2>6 DEF OtherDies, ThreadExits, Die
  <2>7. CASE DaemonFinished \/ UNCHANGED daemonVars
    BY <1>2, <2>7 DEF DaemonFinished, Finished, daemonVars, vars
  <2>8. CASE LogStep
    BY <1>2, <2>8 DEF LogStep, LogWalks, Revive
  <2> QED
    BY <2>2, <2>3, <2>4, <2>5, <2>6, <2>7, <2>8 DEF DaemonNext
<1> QED
  BY <1>1, <1>2

\* When a function of main dereferences a NULL pointer, the receiver, which has
\* stored the reply that caused it, waits for mt_req_send, unless a log thread has created
\* a destination behind its erasure.
THEOREM NullCause == DaemonSpec => []NullWhileReceiverWaits
<1>1. DaemonInit => Init /\ NullWhileReceiverWaits
  BY DEF DaemonInit, Init, NullWhileReceiverWaits
<1> QED
  BY <1>1, InitRInv, NextRInv, StepRounds, DaemonInv, NextNull, PTL DEF DaemonSpec
=============================================================================
