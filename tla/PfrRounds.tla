----------------------------- MODULE PfrRounds -----------------------------
(***************************************************************************)
(* The rounds of pfrd: what one pass of the for(;;) of main (pfrd.cpp)     *)
(* does to the measurements r, the decisions route, the history route_log1 *)
(* and the routing table of gobgp, while the receiver thread stores        *)
(* replies in r (proc_v4).                                                 *)
(*                                                                         *)
(* A destination is one entry of the list, a peer one upstream provider;   *)
(* both are numbers because the maps of the code are ordered and the loops *)
(* visit them in that order.  Peer 0 means none, as in the code.  The      *)
(* replies of one peer to one probe round are one fact (the peer answered) *)
(* and the path metric computed from them is any member of Metric: how it  *)
(* is computed is the subject of PfrStats.  A pointer that the code        *)
(* dereferences without a test, and an exception that nobody catches, end  *)
(* the daemon: pc = "dead".                                                *)
(*                                                                         *)
(* That at most one reply enters r while the main thread works on it is    *)
(* what PfrHandshake shows of the two threads (PfrGate).                   *)
(*                                                                         *)
(* The threads that write the history (PfrSqlLog) search r as well, with   *)
(* the same global min_rtt and without a lock.  Here they are what they    *)
(* can do to the main thread: any outcome of a search of pfr_route_scan,   *)
(* and an entry of r created again behind its erasure.                     *)
(***************************************************************************)
EXTENDS Naturals, FiniteSets, FiniteSetsExt

CONSTANTS
    Dst,               \* the destinations under study, among others that stay listed
    Peer,              \* peers (upstream providers)
    Metric,            \* values of the path metric
    MinRtt,            \* 50000: initial value of min_rtt, and what every search leaves
    Configured,        \* the values min_rtt may have in the configuration file
    PathMetric,        \* path_metric: 0..5 for metric0..metric5
    DeepDelete,        \* deep_delete
    RttLeastMove,      \* the values rtt_least_move may have
    RttLeastThresh,    \* rtt_least_thresh, in percent
    EnableAdvertise,   \* enable_advertise, when the daemon starts
    MayReread,         \* SIGUSR2 may arrive: the configuration is read again
    AdvertiseSame,     \* enable_advertise_same
    ExplicitWithdraw,  \* enable_explicit_withdraw
    RpcMayFail,        \* calls to gobgp may fail
    ThreadMayExit,     \* another thread may end the daemon
    Noise,             \* bound: what min_rtt may be when a log thread has written it during a
                       \* search of main; {}: no log thread meets main at a destination
    MaxProbe,          \* bound: the last round that is modelled
    MaxSkip,           \* bound: rounds without acknowledgement
    MaxRestart         \* bound: restarts of the daemon

ASSUME RoundsAssumption ==
    /\ Dst \subseteq Nat /\ IsFiniteSet(Dst)
    /\ Peer \subseteq Nat \ {0} /\ IsFiniteSet(Peer)
    /\ Metric \subseteq Nat \ {0} /\ Metric # {}
    /\ MinRtt \in Nat \ {0} /\ Configured \subseteq Nat
    /\ PathMetric \in 0..5
    /\ DeepDelete \in Nat
    /\ RttLeastThresh \in Nat
    /\ RttLeastMove \subseteq BOOLEAN
    /\ {EnableAdvertise, MayReread, AdvertiseSame, ExplicitWithdraw, RpcMayFail,
        ThreadMayExit} \subseteq BOOLEAN
    /\ Noise \subseteq Nat
    /\ MaxProbe \in Nat
    /\ MaxSkip \in Nat
    /\ MaxRestart \in Nat

VARIABLES
    pc,        \* where the main thread is
    probe_id,  \* the round
    list,      \* pfrList of this round
    prevList,  \* pfrList of the round before
    r,         \* r[d][q]: the peers whose reply to round q of d is stored
    agg,       \* r[d][probe_id][n][99]: the metric of peer n in this round
    route,     \* route[d][q]: the decision of round q
    answered,  \* route_log1[d]: the rounds whose entry has a peer
    rib,       \* gobgp: the peer that the /32 of d points to, 0 for no route
    advertise, \* enable_advertise
    leastMove, \* rtt_least_move
    min_rtt,   \* the global min_rtt: what the search of the next destination starts with
    late,      \* a reply was stored during the work of this round
    skips,     \* history: rounds skipped so far
    stray,     \* history: a reply was stored after its round was evaluated
    batch,     \* history: one pfr_route_update removed two destinations
    lost,      \* history: a call to gobgp failed
    changed,   \* history: enable_advertise was changed by a reread
    inherited, \* history: routes in gobgp that only an earlier process has set
    restarts,  \* history: restarts so far
    logged,    \* history: the rounds whose log thread was started
    erased,    \* history: <<d, q>>: d was erased while the log thread of round q could walk
    mixed,     \* history: a log thread changed what a search of pfr_route_scan found
    revived,   \* history: a log thread created an erased destination again
    crash      \* why the daemon died

noise == <<logged, erased, mixed, revived>>
history == <<skips, stray, batch, lost, changed, inherited, restarts, noise>>
settings == <<advertise, leastMove, min_rtt>>
conf == <<settings, changed>>
vars == <<pc, probe_id, list, prevList, r, agg, route, answered, rib, settings,
          late, history, crash>>

\* The places of the main thread during the work of a round, and those among
\* them where it walks or changes r without mtr.
Work == {"update", "calc", "stddev", "scan", "free", "delete", "signals", "advertise"}
Racing == {"update", "calc", "stddev", "scan", "delete", "signals"}

----------------------------------------------------------------------------
\* Maps.  The operator [] of a std::map creates the entry it does not find.

Empty == [x \in {} |-> {}]
At(f, x, default) == IF x \in DOMAIN f THEN f[x] ELSE default
Put(f, x, v) == [y \in DOMAIN f \cup {x} |-> IF y = x THEN v ELSE f[y]]
Drop(f, S) == [y \in DOMAIN f \ S |-> f[y]]

\* r[d][probe_id] is looked up for every d of r, and thereby created.
Touch == [d \in DOMAIN r |-> Put(r[d], probe_id, At(r[d], probe_id, {}))]

\* The peers that answered d in this round.
Peers(d) == At(r[d], probe_id, {})

\* The peers of Peers(d) whose aggregate [99] exists.
Measured(d) == Peers(d) \cap DOMAIN At(agg, d, Empty)

\* The decision of round q for d exists.
HasRoute(d, q) == d \in DOMAIN route /\ q \in DOMAIN route[d]

----------------------------------------------------------------------------
\* gobgp (external).  A path is identified by its prefix: AddPath replaces,
\* DeletePath removes.  The code ignores the status of both calls.

RpcLost(S) == IF RpcMayFail THEN SUBSET S ELSE {{}}

Withdraw(S, failed) ==
    /\ rib' = [d \in Dst |-> IF d \in S \ failed THEN 0 ELSE rib[d]]
    /\ inherited' = inherited \ (S \ failed)
    /\ lost' = (lost \/ failed # {})

\* The process ends in the middle of a function.
Die(why) == pc' = "dead" /\ crash' = why

Goto(place) == pc' = place /\ UNCHANGED crash

----------------------------------------------------------------------------
\* The receiver

\* A probe of round q to d was sent in this round or in the one before.  In
\* "begin" probe_id is already that of the round to come.
Awaited(d, q) ==
    LET round == IF pc = "begin" THEN q + 1 ELSE q
    IN  \/ round = probe_id /\ d \in list
        \/ round + 1 = probe_id /\ d \in prevList

\* proc_v4 stores a reply.  Inserting into a std::map that the main thread is
\* using is a data race: the reply is in the map for the next function that
\* looks, or the daemon dies.
Store(d, q, n) ==
    /\ pc \in {"begin", "open"} \cup Work
    /\ Awaited(d, q)
    /\ n \notin At(At(r, d, Empty), q, {})
    /\ r' = LET rd == At(r, d, Empty) IN Put(r, d, Put(rd, q, At(rd, q, {}) \cup {n}))
    /\ late' = (late \/ pc \in Work)
    /\ stray' = (stray \/ pc \in Work \/ q # probe_id)
    /\ \/ Goto(pc)
       \/ pc \in Racing /\ Die("race")
    /\ UNCHANGED <<probe_id, list, prevList, agg, route, answered, rib,
                   skips, batch, lost, inherited, restarts, noise, conf>>

\* While the main thread works (mt_req_send held), only the first reply gets
\* through.  PfrDaemon shows that this is what the two threads do.
Reply(d, q, n) ==
    /\ pc \in Work => ~late
    /\ Store(d, q, n)

----------------------------------------------------------------------------
\* The main thread

\* The list is read again (any list: what ipfix saw), the senders run.
Begin ==
    /\ pc = "begin"
    /\ probe_id <= MaxProbe
    /\ prevList' = list
    /\ list' \in SUBSET Dst
    /\ Goto("open")
    /\ UNCHANGED <<probe_id, r, agg, route, answered, rib, settings, late, history>>

\* The receiver has acknowledged, the work begins.
StartWork ==
    /\ pc = "open"
    /\ late' = FALSE
    /\ Goto("update")
    /\ UNCHANGED <<probe_id, list, prevList, r, agg, route, answered, rib, settings, history>>

\* The receiver has not acknowledged: the round is lost.
SkipRound ==
    /\ pc = "open"
    /\ skips < MaxSkip
    /\ skips' = skips + 1
    /\ probe_id' = probe_id + 1
    /\ Goto("begin")
    /\ UNCHANGED <<list, prevList, r, agg, route, answered, rib, late, stray, batch, lost,
                   inherited, restarts, noise, conf>>

----------------------------------------------------------------------------
\* The log threads, at the destinations that main erases

\* No log thread that has been started is known to be over, and any of them may have
\* copied the name of a destination of S before main erases it.
Erase(S) ==
    /\ erased' = erased \cup (IF Noise = {} THEN {} ELSE S \X logged)
    /\ UNCHANGED <<logged, mixed, revived>>

\* pfr_route_scan_sql looks r[dst_ip][probe_id] up behind the erasure, which creates
\* both.  An undefined access that ends the daemon is among ThreadExits.
Revive(d, q) ==
    /\ pc \in {"begin", "open"} \cup Work
    /\ <<d, q>> \in erased
    /\ d \notin DOMAIN r
    /\ r' = Put(r, d, [x \in {q} |-> {}])
    /\ revived' = TRUE
    /\ UNCHANGED <<pc, probe_id, list, prevList, agg, route, answered, rib, settings, late,
                   skips, stray, batch, lost, changed, inherited, restarts,
                   logged, erased, mixed, crash>>

----------------------------------------------------------------------------
\* pfr_route_update removes the destinations that left the list.  The loop
\* variable of the inner loop is the PARAMETER probe_id: behind the first
\* removed destination, the decision that is looked up is the one before the
\* highest round stored for the destination removed last.
Unlisted == DOMAIN r \ list

LookedUp(S, d) ==
    IF d = Min(S) THEN probe_id ELSE Max(DOMAIN r[Max({e \in S : e < d})])

\* Mutant: the decision of this round is looked up, not the one before it.
WithdrawnThisRound(S) ==
    {d \in S : \E q \in DOMAIN At(route, d, Empty) :
                  q = LookedUp(S, d) /\ route[d][q].curr # 0}

Withdrawn(S) ==
    {d \in S : \E q \in DOMAIN At(route, d, Empty) :
                  q + 1 = LookedUp(S, d) /\ route[d][q].curr # 0}

\* The loop increments an iterator whose element it has just erased.  What that
\* reads is undefined: the loop continues with some later element, ends, or the
\* daemon dies.
RouteUpdate ==
    /\ pc = "update"
    /\ \E S \in SUBSET Unlisted : \E failed \in RpcLost(Withdrawn(S)) :
          /\ Unlisted # {} => Min(Unlisted) \in S
          /\ r' = Drop(r, S)
          /\ route' = Drop(route, S)
          /\ Withdraw(Withdrawn(S), failed)
          /\ Erase(S)
          /\ batch' = (batch \/ Cardinality(S) > 1)
          /\ \/ Goto("calc")
             \/ S # {} /\ Die("iterator")
    /\ UNCHANGED <<probe_id, list, prevList, agg, answered, late, skips, stray, restarts,
                   conf>>

\* pfr_calc_avg_rtt stores the aggregate of every peer that has answered by now.
CalcAvgRtt ==
    /\ pc = "calc"
    /\ \E m \in [DOMAIN r -> [Peer -> Metric]] :
          agg' = [d \in DOMAIN r |-> [n \in Peers(d) |-> m[d][n]]]
    /\ r' = Touch
    /\ Goto("stddev")
    /\ UNCHANGED <<probe_id, list, prevList, route, answered, rib, settings, late, history>>

\* pfr_calc_stddev_rtt dereferences [99] of every peer that has answered by now.
CalcStddevRtt ==
    /\ pc = "stddev"
    /\ r' = Touch
    /\ IF \E d \in DOMAIN r : Peers(d) # Measured(d) THEN Die("null") ELSE Goto("scan")
    /\ UNCHANGED <<probe_id, list, prevList, agg, route, answered, rib, settings, late, history>>

----------------------------------------------------------------------------
\* pfr_route_scan: the search for the least metric.

\* Only metric0 and metric1 are ever read.
MetricRead == PathMetric \in {0, 1}

\* Mutant: <= instead of <, so the last of equal peers is taken.
ScanStepOrEqual(acc, n, metrics) ==
    LET c == IF MetricRead /\ n \in DOMAIN metrics THEN metrics[n] ELSE acc.curr
    IN  IF c <= acc.min THEN [curr |-> c, min |-> c, peer |-> n]
                        ELSE [acc EXCEPT !.curr = c]

\* One turn of the loop over the peers.  curr_rtt keeps its value when there is
\* no aggregate to read.
ScanStep(acc, n, metrics) ==
    LET c == IF MetricRead /\ n \in DOMAIN metrics THEN metrics[n] ELSE acc.curr
    IN  IF c < acc.min THEN [curr |-> c, min |-> c, peer |-> n]
                       ELSE [acc EXCEPT !.curr = c]

\* The accumulators behind the peers up to n, in the order of the map.
Scans(peers, metrics, from) ==
    LET scan[n \in Nat] == IF n = 0 THEN [curr |-> 0, min |-> from, peer |-> 0]
                           ELSE IF n \in peers THEN ScanStep(scan[n - 1], n, metrics)
                           ELSE scan[n - 1]
    IN  scan

ScanLoop(peers, metrics, from) == Scans(peers, metrics, from)[Max(peers)]

\* The peer chosen for d, when the search starts with from: in round 0 the first that
\* answered, later the one with the least metric, 0 when none is below from.
Chosen(d, from) ==
    IF Peers(d) = {} THEN 0
    ELSE IF probe_id = 0 THEN Min(Peers(d))
    ELSE ScanLoop(Peers(d), At(agg, d, Empty), from).peer

\* min_rtt behind the search.  A peer without aggregate ends the daemon.
ChosenRtt(d, from) ==
    IF Chosen(d, from) = 0 THEN 0
    ELSE IF MetricRead /\ Chosen(d, from) \in Measured(d) THEN agg[d][Chosen(d, from)]
    ELSE IF probe_id = 0 THEN from
    ELSE ScanLoop(Peers(d), At(agg, d, Empty), from).min

\* A search: the peer, and min_rtt as the test of rtt_least_move and the new decision
\* read it.  They differ only when a log thread writes the global in between.
Search(d, from) ==
    [peer |-> Chosen(d, from), tested |-> ChosenRtt(d, from), min |-> ChosenRtt(d, from)]

\* With a log thread inside a destination at the same time, each read of min_rtt may find
\* a value of Noise, and any peer may be taken.
Disturbed(d) == [peer : {0} \cup Peers(d), tested : Noise, min : Noise]

Outcomes(searched) ==
    IF logged = {} THEN {searched}
    ELSE LET any == UNION {{searched[d]} \cup Disturbed(d) : d \in DOMAIN r}
         IN  {found \in [DOMAIN r -> any] :
                 \A d \in DOMAIN r : found[d] = searched[d] \/ found[d] \in Disturbed(d)}

\* The first destination is searched from start, the others from the 50000 that the
\* search before them has left.
From(d, start) == IF d = Min(DOMAIN r) THEN start ELSE MinRtt

\* rtt_least_move: the stored minimum must exceed the new one by the threshold.
Moves(stored, new) == stored * 100 > new * (100 + RttLeastThresh)

\* Mutant: case 2.0 stores the peer of this round (none).
NewEntryNoPeer(d, s) ==
    LET q == probe_id - 1
    IN  [prev |-> IF probe_id > 0 /\ HasRoute(d, q) THEN route[d][q].curr ELSE 0,
         curr |-> s.peer,
         cmin |-> s.min]

\* Mutant: a destination that does not move takes over the new metric.
NewEntryNewMin(d, s) ==
    LET q == probe_id - 1
    IN  [prev |-> IF probe_id > 0 /\ HasRoute(d, q) THEN route[d][q].curr ELSE 0,
         curr |-> IF probe_id > 0 /\ HasRoute(d, q)
                      /\ (s.peer = 0 \/ ~Moves(route[d][q].cmin, s.tested))
                  THEN route[d][q].curr ELSE s.peer,
         cmin |-> s.min]

\* Case 1.1 (no decision in the previous round), 2.0 (no answer) and 2.1 of the code.
NewEntry(d, s) ==
    LET q == probe_id - 1
        old == route[d][q]
    IN  IF probe_id = 0 \/ ~HasRoute(d, q)
        THEN [prev |-> 0, curr |-> s.peer, cmin |-> s.min]
        ELSE IF s.peer = 0
        THEN [prev |-> old.curr, curr |-> old.curr, cmin |-> s.min]
        ELSE IF leastMove /\ ~Moves(old.cmin, s.tested)
        THEN [prev |-> old.curr, curr |-> old.curr, cmin |-> old.cmin]
        ELSE [prev |-> old.curr, curr |-> s.peer, cmin |-> s.min]

\* Mutant: in every round, only destinations that answered get a decision.
ScannedAnswering == {d \in DOMAIN r : Peers(d) # {}}

\* In round 0 a decision is only stored inside the loop over the peers.
Scanned == {d \in DOMAIN r : probe_id > 0 \/ Peers(d) # {}}

\* What the searches have found is stored, unless one has taken a peer without aggregate.
StoreDecisions(found) ==
    \/ /\ \E d \in DOMAIN r : found[d].peer \in Peers(d) \ Measured(d)
       /\ Die("null")
       /\ UNCHANGED <<agg, route, answered>>
    \/ /\ \A d \in DOMAIN r : found[d].peer \notin Peers(d) \ Measured(d)
       /\ route' = [d \in DOMAIN route \cup Scanned |->
                       IF d \in Scanned
                       THEN Put(At(route, d, Empty), probe_id, NewEntry(d, found[d]))
                       ELSE route[d]]
       /\ answered' = [d \in Dst |->
                          IF d \in DOMAIN r /\ found[d].peer # 0
                          THEN answered[d] \cup {probe_id} ELSE answered[d]]
       /\ agg' = Empty
       /\ Goto("free")

\* The search starts with min_rtt, or with 50000 when another destination or the walk of
\* a log thread came first.  Behind it the log thread of the round is started.
RouteScan ==
    /\ pc = "scan"
    /\ r' = Touch
    /\ \E start \in {min_rtt, MinRtt} :
          LET searched == [d \in DOMAIN r |-> Search(d, From(d, start))]
          IN  /\ min_rtt' = IF DOMAIN r = {} THEN start ELSE MinRtt
              /\ \E found \in Outcomes(searched) :
                    /\ mixed' = (mixed \/ found # searched)
                    /\ StoreDecisions(found)
    /\ logged' = logged \cup {probe_id}
    /\ UNCHANGED <<probe_id, list, prevList, rib, advertise, leastMove, late, skips, stray, batch,
                   lost, changed, inherited, restarts, erased, revived>>

----------------------------------------------------------------------------
\* Mutant: the guard off by one.
RouteFreeLate ==
    /\ pc = "free"
    /\ \/ /\ probe_id < 3
          /\ UNCHANGED <<r, route>>
       \/ /\ probe_id >= 3
          /\ r' = [d \in DOMAIN r |-> Put(r[d], probe_id - 2, {})]
          /\ route' = [d \in DOMAIN route \cup DOMAIN r |->
                          IF d \in DOMAIN r
                          THEN Drop(At(route, d, Empty), {probe_id - 2})
                          ELSE route[d]]
    /\ Goto("delete")
    /\ UNCHANGED <<probe_id, list, prevList, agg, answered, rib, settings, late, history>>

\* pfr_route_free empties round probe_id - 2 of every destination of r.  Its use
\* of route[dst_ip] creates the entries of route that do not exist.
RouteFree ==
    /\ pc = "free"
    /\ \/ /\ probe_id < 2
          /\ UNCHANGED <<r, route>>
       \/ /\ probe_id >= 2
          /\ r' = [d \in DOMAIN r |-> Put(r[d], probe_id - 2, {})]
          /\ route' = [d \in DOMAIN route \cup DOMAIN r |->
                          IF d \in DOMAIN r
                          THEN Drop(At(route, d, Empty), {probe_id - 2})
                          ELSE route[d]]
    /\ Goto("delete")
    /\ UNCHANGED <<probe_id, list, prevList, agg, answered, rib, settings, late, history>>

\* No entry with a peer among the last deep_delete + 1 rounds of route_log1.
Silent(d) == \A q \in answered[d] : q + DeepDelete < probe_id

\* pfr_delete: the destinations to give up.
GivenUp == {d \in DOMAIN route : /\ probe_id > DeepDelete
                                 /\ probe_id \in DOMAIN route[d]
                                 /\ Silent(d)}

\* Mutant: only the measurements are erased.
DeleteMeasurements(S, place) ==
    /\ r' = Drop(r, S)
    /\ \E failed \in RpcLost(S) : Withdraw(S, failed)
    /\ Erase(S)
    /\ Goto(place)
    /\ UNCHANGED route

\* pfr_delete_r_route for each d of S: erase r[d] and route[d], withdraw.  The
\* community of peer 0 is the empty string, on which std::stoi throws.
DeleteRoutes(S, place) ==
    LET fatal == {d \in S : route[d][probe_id].curr = 0}
        done == {d \in S \ fatal : \A e \in fatal : d < e}
    IN  /\ r' = Drop(r, done)
        /\ route' = Drop(route, done)
        /\ \E failed \in RpcLost(done) : Withdraw(done, failed)
        /\ Erase(done)
        /\ \/ fatal = {} /\ Goto(place)
           \/ fatal # {} /\ Die("stoi")

RouteDelete ==
    /\ pc = "delete"
    /\ DeleteRoutes(GivenUp, "signals")
    /\ UNCHANGED <<probe_id, list, prevList, agg, answered, late, skips, stray, batch,
                   restarts, conf>>

\* Mutant: the shutdown withdraws only what pfr_delete would.
ShutdownGivenUp ==
    /\ pc = "signals"
    /\ DeleteRoutes(GivenUp, "exit")
    /\ UNCHANGED <<probe_id, list, prevList, agg, answered, late, skips, stray, batch,
                   restarts, conf>>

\* SIGUSR1 or SIGINT has arrived: pfr_delete_all, exit(1).
Shutdown ==
    /\ pc = "signals"
    /\ DeleteRoutes({d \in DOMAIN route : probe_id \in DOMAIN route[d]}, "exit")
    /\ UNCHANGED <<probe_id, list, prevList, agg, answered, late, skips, stray, batch,
                   restarts, conf>>

\* No shutdown.  After SIGUSR2 the configuration is read again, which exits
\* without withdrawing anything when the file cannot be opened, and may change
\* enable_advertise, rtt_least_move and min_rtt (the other values are constants here); then
\* the flags of the handshake are reset.
NoShutdown ==
    /\ pc = "signals"
    /\ \/ /\ Goto("advertise")
          /\ advertise' \in IF MayReread THEN BOOLEAN ELSE {advertise}
          /\ leastMove' \in IF MayReread THEN RttLeastMove ELSE {leastMove}
          /\ min_rtt' \in IF MayReread THEN Configured \cup {min_rtt} ELSE {min_rtt}
          /\ changed' = (changed \/ advertise' # advertise)
       \/ MayReread /\ Die("config") /\ UNCHANGED conf
    /\ UNCHANGED <<probe_id, list, prevList, r, agg, route, answered, rib, late,
                   skips, stray, batch, lost, inherited, restarts, noise>>

----------------------------------------------------------------------------
\* pfr_routes_man

\* Mutant: the first advertisement is suppressed too.
SuppressedAlways(e) == ~AdvertiseSame /\ e.prev = e.curr

\* The route to the same peer is not sent again.
Suppressed(e) == ~AdvertiseSame /\ e.prev = e.curr /\ probe_id > 1

\* The destinations at which the walk over route ends the daemon: no decision
\* of this round (NULL), or a path to peer 0.
Fatal == {d \in DOMAIN route :
             \/ probe_id \notin DOMAIN route[d]
             \/ /\ probe_id > 0
                /\ route[d][probe_id].curr = 0
                /\ ~Suppressed(route[d][probe_id])}

\* The paths sent before the walk ends; none in round 0.
Sent == {d \in DOMAIN route \ Fatal :
            /\ probe_id > 0
            /\ \A e \in Fatal : d < e
            /\ ~Suppressed(route[d][probe_id])}

\* pfr_create_set_jrouter_rt: AddPath, after a DeletePath of the previous path
\* with enable_explicit_withdraw.  The DeletePath may succeed (gone) and the
\* AddPath fail.
Send(failed, gone) ==
    /\ gone \subseteq {d \in failed : /\ ExplicitWithdraw
                                      /\ probe_id > 1
                                      /\ route[d][probe_id].prev # 0}
    /\ rib' = [d \in Dst |-> IF d \in Sent \ failed THEN route[d][probe_id].curr
                             ELSE IF d \in gone THEN 0
                             ELSE rib[d]]
    /\ inherited' = inherited \ ((Sent \ failed) \cup gone)
    /\ lost' = (lost \/ failed # {})

RoutesMan ==
    /\ pc = "advertise"
    /\ advertise
    /\ \E failed \in RpcLost(Sent) : \E gone \in SUBSET failed : Send(failed, gone)
    /\ \/ /\ Fatal # {}
          /\ Die(IF probe_id \in DOMAIN route[Min(Fatal)] THEN "stoi" ELSE "null")
          /\ UNCHANGED probe_id
       \/ /\ Fatal = {}
          /\ probe_id' = probe_id + 1
          /\ Goto("begin")
    /\ UNCHANGED <<list, prevList, r, agg, route, answered, late, skips, stray, batch,
                   restarts, noise, conf>>

\* enable_advertise is off.
NoAdvertise ==
    /\ pc = "advertise"
    /\ ~advertise
    /\ probe_id' = probe_id + 1
    /\ Goto("begin")
    /\ UNCHANGED <<list, prevList, r, agg, route, answered, rib, settings, late, history>>

----------------------------------------------------------------------------
\* The process ends in another thread: an error of recvmsg (readloop), a log thread
\* without connection to the database or one that clears the result of a failed
\* INSERT twice (pfr_sql_log).  Nothing is withdrawn.
ThreadExits ==
    /\ ThreadMayExit
    /\ pc \notin {"exit", "dead"}
    /\ Die("thread")
    /\ UNCHANGED <<probe_id, list, prevList, r, agg, route, answered, rib, settings, late, history>>

\* The daemon is started again.  Everything it knew is gone; gobgp keeps the
\* routes, and pfr_get_jrouter_rt, which should read them back, is empty.
Restart ==
    /\ pc \in {"exit", "dead"}
    /\ restarts < MaxRestart
    /\ restarts' = restarts + 1
    /\ inherited' = {d \in Dst : rib[d] # 0}
    /\ pc' = "begin"
    /\ probe_id' = 0
    /\ list' = {} /\ prevList' = {}
    /\ r' = Empty /\ agg' = Empty /\ route' = Empty
    /\ answered' = [d \in Dst |-> {}]
    /\ advertise' = EnableAdvertise
    /\ leastMove' \in RttLeastMove
    /\ min_rtt' \in Configured \cup {MinRtt}
    /\ late' = FALSE
    /\ skips' = 0 /\ stray' = FALSE /\ batch' = FALSE /\ lost' = FALSE /\ changed' = FALSE
    /\ logged' = {} /\ erased' = {} /\ mixed' = FALSE /\ revived' = FALSE
    /\ crash' = "no"
    /\ UNCHANGED rib

\* The daemon is gone, or the last modelled round is over.
Finished ==
    /\ pc \in {"exit", "dead"} \/ (pc = "begin" /\ probe_id > MaxProbe)
    /\ UNCHANGED vars

Init ==
    /\ pc = "begin"
    /\ probe_id = 0
    /\ list = {} /\ prevList = {}
    /\ r = Empty /\ agg = Empty /\ route = Empty
    /\ answered = [d \in Dst |-> {}]
    /\ advertise = EnableAdvertise
    /\ leastMove \in RttLeastMove
    /\ min_rtt \in Configured \cup {MinRtt}
    /\ late = FALSE
    /\ skips = 0 /\ stray = FALSE /\ batch = FALSE /\ lost = FALSE /\ changed = FALSE
    /\ logged = {} /\ erased = {} /\ mixed = FALSE /\ revived = FALSE
    /\ crash = "no"
    /\ rib = [d \in Dst |-> 0]
    /\ inherited = {} /\ restarts = 0

Receive == \E d \in Dst, q \in 0..probe_id, n \in Peer : Reply(d, q, n)
LogWalks == \E d \in Dst, q \in 0..probe_id : Revive(d, q)

Next ==
    \/ Receive \/ LogWalks
    \/ Begin \/ StartWork \/ SkipRound
    \/ RouteUpdate \/ CalcAvgRtt \/ CalcStddevRtt \/ RouteScan \/ RouteFree
    \/ RouteDelete \/ Shutdown \/ NoShutdown
    \/ RoutesMan \/ NoAdvertise
    \/ ThreadExits \/ Restart
    \/ Finished

Spec == Init /\ [][Next]_vars
----------------------------------------------------------------------------
\* Properties

\* A destination with decisions also has measurements.  pfr_route_scan walks r
\* and pfr_routes_man walks route: a destination of route that is missing in r
\* would get no decision and a NULL dereference every round.  Every removal
\* (pfr_route_update, pfr_delete, pfr_delete_all) and every operator [] with which
\* main creates an entry of route (pfr_route_free) keeps this.
RouteWithinR == DOMAIN route \subseteq DOMAIN r

\* The NULL dereferences of pfr_calc_stddev_rtt, pfr_route_scan and
\* pfr_routes_man happen only in a round in which a reply was stored while the
\* main thread worked on r without mtr, or after a log thread has created an erased
\* destination again: pfr_route_free gives it an entry without a decision.
NullNeedsLateReply == crash = "null" => late \/ revived

\* A decision for peer 0, on which the next call to gobgp throws, needs a reply that came
\* after its round was evaluated, a skipped round, a log thread that changed what a
\* search found or created an erased destination again, or a metric that is not below
\* 50000 and every configured min_rtt.
PeerZeroNeedsStrayReply ==
    /\ \A m \in Metric : m < MinRtt /\ \A c \in Configured : m < c
    /\ ~stray /\ skips = 0 /\ ~mixed /\ ~revived
    => \A d \in DOMAIN route : \A q \in DOMAIN route[d] : route[d][q].curr # 0

\* After a round of advertisements, gobgp has for every destination the peer
\* decided in that round (if one was), although with enable_advertise_same = off most
\* decisions were not sent (pfr_routes_man compares prev and curr only).
RibFollowsRoute ==
    pc = "begin" /\ advertise /\ ~changed /\ ~lost /\ probe_id > 1 =>
        \A d \in DOMAIN route : \A q \in DOMAIN route[d] :
            q + 1 = probe_id /\ route[d][q].curr # 0 => rib[d] = route[d][q].curr

\* A route is left behind in gobgp without a decision to withdraw it by only if
\* a round was skipped, pfr_route_update removed two destinations at once, a call
\* to gobgp failed, or the route was set by an earlier process and this one has
\* not touched it.  Holds across removals, give-ups, late replies that bring a
\* destination back, iterators that skip one, and restarts.
OrphanNeedsCause ==
    skips = 0 /\ ~batch /\ ~lost =>
        \A d \in Dst : rib[d] # 0 => d \in DOMAIN route \/ d \in inherited

\* Under the same conditions the graceful shutdown (pfr_delete_all) leaves no
\* route in gobgp but those of earlier processes.
ShutdownWithdrawsAll ==
    pc = "exit" /\ skips = 0 /\ ~batch /\ ~lost =>
        \A d \in Dst : rib[d] = 0 \/ d \in inherited

\* After a restart the daemon does not ask gobgp for its routes, yet a route of
\* an earlier process survives its round 1 only at a destination for which it
\* has no peer: round 1 sends every decision, changed or not.
RestartTakesOver ==
    pc = "begin" /\ advertise /\ ~changed /\ ~lost /\ probe_id > 1 =>
        \A d \in inherited \cap DOMAIN route : \A q \in DOMAIN route[d] :
            q + 1 = probe_id => route[d][q].curr = 0

\* Without skipped rounds, pfr_route_free keeps the measurements and decisions
\* of the last two rounds only, although it frees one round per call.
TwoRoundsKept ==
    pc \in {"delete", "signals", "advertise"} /\ skips = 0 =>
        /\ \A d \in DOMAIN route : \A q \in DOMAIN route[d] : q + 1 >= probe_id
        /\ \A d \in DOMAIN r : \A q \in DOMAIN r[d] : q + 1 < probe_id => r[d][q] = {}

\* The peer with the least metric, the lowest number among equals.
Best(d) ==
    CHOOSE n \in Measured(d) : \A k \in Measured(d) :
        agg[d][n] < agg[d][k] \/ (agg[d][n] = agg[d][k] /\ n <= k)

ScanDone == pc = "scan" /\ pc' = "free"

\* Below both values that a search can start with: the first destination may be searched
\* from the configured min_rtt, the others are searched from 50000.
BelowStart(d, rtt) == rtt < MinRtt /\ rtt < From(d, min_rtt)

\* From round 1 on and without rtt_least_move, pfr_route_scan sends a destination
\* through the peer with the least metric, if that is below min_rtt, also when a reply
\* without aggregate has slipped in; if path_metric names a metric that is read, and as
\* long as no log thread has changed what a search found.
BestPeerChosen ==
    [][ScanDone /\ probe_id > 0 /\ MetricRead /\ ~leastMove /\ ~mixed' =>
         \A d \in DOMAIN r :
            (\E n \in Measured(d) : BelowStart(d, agg[d][n])) =>
                route'[d][probe_id].curr = Best(d)]_vars

\* With rtt_least_move the stored minimum of a destination that keeps its entry
\* never grows, and once a silent round has made it 0 the peer never changes:
\* the threshold is applied to the best value ever seen, not to the current one.  Only
\* a log thread that changes min_rtt during the search can break this.
MinimumOnlyFalls ==
    [][ScanDone /\ leastMove /\ ~mixed' =>
         \A d \in DOMAIN r : \A q \in DOMAIN At(route, d, Empty) :
            q + 1 = probe_id =>
                /\ route'[d][probe_id].cmin <= route[d][q].cmin
                /\ route[d][q].cmin = 0 =>
                      /\ route'[d][probe_id].curr = route[d][q].curr
                      /\ route'[d][probe_id].cmin = 0]_vars
=============================================================================
