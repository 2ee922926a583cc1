----------------------------- MODULE PfrSqlLog -----------------------------
(***************************************************************************)
(* The threads that write the history of the rounds to the database        *)
(* (pfr_route_scan_sql, pfr_sql_log) beside the main thread.  After        *)
(* pfr_route_scan every round starts one; nobody joins it, it takes no     *)
(* mutex, walks r while the main thread goes on to change r, and uses the  *)
(* GLOBAL min_rtt that pfr_route_scan searches the least metric with.      *)
(* load_configuration_file writes that global too: at start, and at a      *)
(* reread, beside the log thread that the same round has just started.     *)
(*                                                                         *)
(* path_metric is metric0, also after a reread, so both walks compare      *)
(* avg_rtt.  Destinations and peers are numbers, walked in their order.    *)
(* An undefined access ends the daemon or is survived.                     *)
(***************************************************************************)
EXTENDS Naturals, FiniteSets, FiniteSetsExt

CONSTANTS
    Dst,           \* destinations
    Peer,          \* peers
    Metric,        \* values of avg_rtt
    Replies,       \* bound: what a round may measure for a destination, avg_rtt by peer
    MinRtt,        \* 50000: the initial value, and what the walks reset min_rtt to
    Configured,    \* the values min_rtt may have in the configuration file
    EnableSqlLog,  \* enable_sql_log
    DbMayFail,     \* the database may refuse a connection or a statement
    MaxProbe       \* bound: the last round that is modelled

ASSUME SqlLogAssumption ==
    /\ Dst \subseteq Nat \ {0} /\ IsFiniteSet(Dst)
    /\ Peer \subseteq Nat \ {0} /\ IsFiniteSet(Peer)
    /\ Metric \subseteq Nat \ {0}
    /\ Replies \subseteq UNION {[P -> Metric] : P \in SUBSET Peer}
    /\ MinRtt \in Nat /\ Configured \subseteq Nat
    /\ {EnableSqlLog, DbMayFail} \subseteq BOOLEAN
    /\ MaxProbe \in Nat

VARIABLES
    pc,       \* where the main thread is
    probe_id, \* the round
    r,        \* r[d][q]: the avg_rtt of the peers that answered round q
    min_rtt,  \* the global of both walks and of the configuration
    loaded,   \* history: the configured min_rtt while no walk has reset it, else MinRtt
    scan,     \* the walk of pfr_route_scan
    decided,  \* decided[q]: what pfr_route_scan chose in round q
    ithlog,   \* the argument all log threads get a pointer to: its probe_id
    log,      \* log[k]: the log thread started in round k
    table,    \* pfr_log: the rows committed
    crash,    \* why the daemon died
    mixed,    \* history: a walk inside a destination met another one, or a reread
    overtaken \* history: a round started its log thread before an earlier one had run

main == <<pc, probe_id, scan, decided, ithlog>>
global == <<min_rtt, loaded>>
vars == <<main, r, global, log, table, crash, mixed, overtaken>>

Empty == [x \in {} |-> {}]
At(f, x) == IF x \in DOMAIN f THEN f[x] ELSE Empty
Put(f, x, v) == [y \in DOMAIN f \cup {x} |-> IF y = x THEN v ELSE f[y]]

\* A walk: the destination it is at (0: between two), the one before, the peers
\* left to compare, the best so far.
Idle == [dst |-> 0, last |-> 0, left |-> {}, peer |-> 0]
Inside == scan.dst # 0 \/ \E k \in DOMAIN log : log[k].walk.dst # 0
Walking == {k \in DOMAIN log : log[k].at = "walk"}
Following(walk) == {d \in DOMAIN r : d > walk.last}

\* What min_rtt may be between two destinations.
MinRtts == Configured \cup {MinRtt}

Running == pc \notin {"dead", "exit"}
Die(why) == pc' = "dead" /\ crash' = why /\ UNCHANGED <<probe_id, scan, decided, ithlog>>

Init ==
    /\ pc = "measure" /\ probe_id = 0
    /\ r = Empty
    /\ min_rtt \in MinRtts /\ loaded = min_rtt
    /\ scan = Idle
    /\ decided = Empty
    /\ ithlog = 0
    /\ log = Empty
    /\ table = {}
    /\ crash = "no"
    /\ mixed = FALSE /\ overtaken = FALSE

----------------------------------------------------------------------------
\* One step of either walk.

\* The next destination, and the peers that answered it in round q.
Enter(walk, q) ==
    LET d == Min(Following(walk))
    IN  [dst |-> d, last |-> d, left |-> DOMAIN At(r[d], q), peer |-> 0]

\* Mutant: the walk compares with <=.
BetterOrEqual(rtt, q) == q = 0 \/ rtt <= min_rtt

\* In round 0 the first peer is taken without a comparison.
Better(rtt, q) == q = 0 \/ rtt < min_rtt

Compare(walk, rtt, q) ==
    [walk EXCEPT !.left = IF q = 0 THEN {} ELSE @ \ {Min(@)},
                 !.peer = IF Better(rtt, q) THEN Min(walk.left) ELSE @]

Compared(rtt, q) == min_rtt' = IF Better(rtt, q) THEN rtt ELSE min_rtt

\* Mutant: min_rtt keeps the value of the destination.
LeaveKeeping(walk) == min_rtt' = min_rtt /\ loaded' = MinRtt

\* The end of the body: min_rtt = 50000, whatever the configuration says.
Leave(walk) == min_rtt' = MinRtt /\ loaded' = MinRtt

----------------------------------------------------------------------------
\* The main thread

\* The replies of a round come in, pfr_route_update removes destinations and
\* pfr_calc_avg_rtt stores the averages.  A new destination is one that answered.
\* Changing the map under a walk is a data race.
Measure ==
    /\ pc = "measure" /\ probe_id <= MaxProbe
    /\ \/ /\ \E S \in SUBSET Dst :
             \E m \in [S -> Replies] :
                /\ \A d \in S \ DOMAIN r : DOMAIN m[d] # {}
                /\ r' = [d \in S |-> Put(At(r, d), probe_id, m[d])]
          /\ pc' = "scan"
          /\ UNCHANGED <<probe_id, scan, decided, ithlog, crash>>
       \/ Walking # {} /\ Die("race") /\ UNCHANGED r
    /\ UNCHANGED <<global, log, table, mixed, overtaken>>

ScanEnter ==
    /\ pc = "scan" /\ scan.dst = 0 /\ Following(scan) # {}
    /\ scan' = Enter(scan, probe_id)
    /\ mixed' = (mixed \/ Inside)
    /\ UNCHANGED <<pc, probe_id, decided, ithlog, r, global, log, table, crash, overtaken>>

ScanPeer ==
    /\ pc = "scan" /\ scan.dst # 0 /\ scan.left # {}
    /\ LET rtt == r[scan.dst][probe_id][Min(scan.left)]
       IN  scan' = Compare(scan, rtt, probe_id) /\ Compared(rtt, probe_id)
    /\ UNCHANGED <<pc, probe_id, decided, ithlog, r, loaded, log, table, crash, mixed, overtaken>>

ScanLeave ==
    /\ pc = "scan" /\ scan.dst # 0 /\ scan.left = {}
    /\ decided' = Put(decided, probe_id, Put(At(decided, probe_id), scan.dst, scan.peer))
    /\ Leave(scan)
    /\ scan' = [Idle EXCEPT !.last = scan.last]
    /\ UNCHANGED <<pc, probe_id, ithlog, r, log, table, crash, mixed, overtaken>>

\* Mutant: the argument is not set before the thread is created.
SetNoArgument ==
    /\ pc = "scan" /\ scan.dst = 0 /\ Following(scan) = {}
    /\ overtaken' = (overtaken \/ \E k \in DOMAIN log : log[k].at = "start")
    /\ scan' = Idle
    /\ pc' = "spawn"
    /\ UNCHANGED <<probe_id, decided, ithlog, r, global, log, table, crash, mixed>>

\* The scan is over: the round is written into the argument all log threads share.
SetArgument ==
    /\ pc = "scan" /\ scan.dst = 0 /\ Following(scan) = {}
    /\ ithlog' = probe_id
    /\ overtaken' = (overtaken \/ \E k \in DOMAIN log : log[k].at = "start")
    /\ scan' = Idle
    /\ pc' = "spawn"
    /\ UNCHANGED <<probe_id, decided, r, global, log, table, crash, mixed>>

\* The log thread is created, whatever enable_sql_log says.
Spawn ==
    /\ pc = "spawn"
    /\ log' = Put(log, probe_id, [at |-> "start", probe |-> 0, walk |-> Idle, rows |-> {}])
    /\ pc' = "delete"
    /\ UNCHANGED <<probe_id, scan, decided, ithlog, r, global, table, crash, mixed, overtaken>>

\* pfr_route_free and pfr_delete: round probe_id - 2 is freed, destinations that
\* were silent for too long are erased.
Delete ==
    /\ pc = "delete"
    /\ \/ /\ \E S \in SUBSET DOMAIN r :
             r' = [d \in S |-> IF probe_id < 2 THEN r[d] ELSE Put(r[d], probe_id - 2, Empty)]
          /\ pc' = "signals"
          /\ UNCHANGED <<probe_id, scan, decided, ithlog, crash>>
       \/ Walking # {} /\ r # Empty /\ Die("race") /\ UNCHANGED r
    /\ UNCHANGED <<global, log, table, mixed, overtaken>>

\* A shutdown signal, seen before the log thread would be started or after pfr_delete:
\* the daemon withdraws its routes and exits.  It exits as well when the configuration
\* file of a reread cannot be opened.
Shutdown ==
    /\ \/ pc = "scan" /\ scan.dst = 0 /\ Following(scan) = {}
       \/ pc = "signals"
    /\ pc' = "exit"
    /\ UNCHANGED <<probe_id, scan, decided, ithlog, r, global, log, table, crash, mixed, overtaken>>

\* No configuration to reread, or none that names min_rtt.
NextRound ==
    /\ pc = "signals"
    /\ pc' = "measure" /\ probe_id' = probe_id + 1
    /\ UNCHANGED <<scan, decided, ithlog, r, global, log, table, crash, mixed, overtaken>>

\* load_configuration_file assigns the global while log threads may be walking.
Reread ==
    /\ pc = "signals"
    /\ \E m \in Configured : min_rtt' = m /\ loaded' = m
    /\ mixed' = (mixed \/ Inside)
    /\ pc' = "measure" /\ probe_id' = probe_id + 1
    /\ UNCHANGED <<scan, decided, ithlog, r, log, table, crash, overtaken>>

----------------------------------------------------------------------------
\* The log thread started in round k

\* thl->probe_id is read; the pointer thl->log becomes the bool of a NEW
\* pfr_sql_log, whose constructor exits when it cannot connect.
LogStart(k) ==
    /\ Running /\ log[k].at = "start"
    /\ \/ /\ log' = [log EXCEPT ![k].at = "walk", ![k].probe = ithlog]
          /\ UNCHANGED <<main, crash>>
       \/ DbMayFail /\ Die("connect") /\ UNCHANGED log
    /\ UNCHANGED <<r, global, table, mixed, overtaken>>

LogEnter(k) ==
    /\ Running /\ log[k].at = "walk" /\ log[k].walk.dst = 0 /\ Following(log[k].walk) # {}
    /\ log' = [log EXCEPT ![k].walk = Enter(log[k].walk, log[k].probe)]
    /\ mixed' = (mixed \/ Inside)
    /\ UNCHANGED <<main, r, global, table, crash, overtaken>>

\* The measurement of walk w is still in r.
There(w, q, n) == n \in DOMAIN At(At(r, w.dst), q)

LogPeer(k) ==
    LET w == log[k].walk
        q == log[k].probe
        n == Min(w.left)
    IN  /\ Running /\ log[k].at = "walk" /\ w.dst # 0 /\ w.left # {}
        /\ \/ /\ There(w, q, n)
              /\ log' = [log EXCEPT ![k].walk = Compare(w, r[w.dst][q][n], q)]
              /\ Compared(r[w.dst][q][n], q)
              /\ UNCHANGED <<main, crash>>
           \/ /\ ~There(w, q, n)
              /\ Die("race")
              /\ UNCHANGED <<log, min_rtt>>
        /\ UNCHANGED <<r, loaded, table, mixed, overtaken>>

\* avg_rtt of the row: that of the peer, 0 without one.
AvgRtt(w, q) == IF There(w, q, w.peer) THEN r[w.dst][q][w.peer] ELSE 0

\* Mutant: the row carries the round of the shared argument, not of the thread.
RowShared(w, q) == [probe |-> ithlog, dst |-> w.dst, peer |-> w.peer, avg |-> AvgRtt(w, q)]

Row(w, q) == [probe |-> q, dst |-> w.dst, peer |-> w.peer, avg |-> AvgRtt(w, q)]

\* One row per destination; with a peer, its aggregate is dereferenced.  The body gives
\* min_rtt the value of the row before it resets it; another walk can see that only
\* while this one is inside the destination, which is what mixed records.
LogLeave(k) ==
    LET w == log[k].walk
        q == log[k].probe
    IN  /\ Running /\ log[k].at = "walk" /\ w.dst # 0 /\ w.left = {}
        /\ log' = [log EXCEPT
                      ![k].walk = [Idle EXCEPT !.last = w.last],
                      ![k].rows = @ \cup {Row(w, q)}]
        /\ Leave(w)
        /\ \/ /\ w.peer = 0 \/ There(w, q, w.peer)
              /\ UNCHANGED <<main, crash>>
           \/ /\ w.peer # 0 /\ ~There(w, q, w.peer)
              /\ Die("null")
        /\ UNCHANGED <<r, table, mixed, overtaken>>

\* commit: one INSERT for all rows.  Without rows the statement is malformed.  After
\* a failure the result is cleared twice, which the daemon survives or not.
LogCommit(k) ==
    /\ Running /\ log[k].at = "walk" /\ log[k].walk.dst = 0 /\ Following(log[k].walk) = {}
    /\ log' = [log EXCEPT ![k].at = "sleep", ![k].rows = {}]
    /\ \/ /\ log[k].rows # {}
          /\ table' = table \cup log[k].rows
          /\ UNCHANGED <<main, crash>>
       \/ /\ log[k].rows = {} \/ DbMayFail
          /\ UNCHANGED table
          /\ Die("pqclear") \/ UNCHANGED <<main, crash>>
    /\ UNCHANGED <<r, global, mixed, overtaken>>

Finished ==
    /\ ~Running \/ (pc = "measure" /\ probe_id > MaxProbe)
    /\ UNCHANGED vars

Logger(k) == LogStart(k) \/ LogEnter(k) \/ LogPeer(k) \/ LogLeave(k) \/ LogCommit(k)

Next ==
    \/ Measure \/ ScanEnter \/ ScanPeer \/ ScanLeave \/ SetArgument \/ Spawn
    \/ Delete \/ Shutdown \/ NextRound \/ Reread
    \/ \E k \in DOMAIN log : Logger(k)
    \/ Finished

Spec == Init /\ [][Next]_vars

----------------------------------------------------------------------------
\* Properties

\* Outside the body of a walk the global min_rtt is 50000 again, however many log
\* threads and scans have used it in turn or at the same time, or else the value the
\* last load of the configuration gave it, if no walk has finished a destination since.
MinRttRestored == Running /\ ~Inside => min_rtt = loaded

\* The peer with the least metric below from (in round 0 the first one), or 0.
Least(rtt, q, from) ==
    LET low == {n \in DOMAIN rtt : rtt[n] < from /\ \A k \in DOMAIN rtt : rtt[n] <= rtt[k]}
        candidates == IF q = 0 THEN DOMAIN rtt ELSE low
    IN  IF candidates = {} THEN 0 ELSE Min(candidates)

\* As long as no walk inside a destination has met another one or a reread, the decision
\* of pfr_route_scan is the peer with the least metric of the round below 50000: below
\* the configured min_rtt for the first destination any walk finishes after a load.
DecisionUndisturbed ==
    [][ScanLeave /\ ~mixed =>
         decided'[probe_id][scan.dst] = Least(r[scan.dst][probe_id], probe_id, loaded)]_vars

\* Under the same condition, a peer that pfr_log names for a destination is the one
\* decided in that round, also when the log thread lags behind by rounds and its
\* destination has been erased or measured again.  Only a decision for no peer may
\* differ, when one of the two searches had to start at or below the metric of the row.
LogAgreesWithDecision ==
    ~mixed => \A row \in table : row.peer # 0 =>
        \/ decided[row.probe][row.dst] = row.peer
        \/ decided[row.probe][row.dst] = 0 /\ \E c \in MinRtts : c <= row.avg

\* Two log threads write the same round only if a round has started its thread before
\* the thread of an earlier round had read the shared argument.
RoundLoggedOnce ==
    ~overtaken => \A j, k \in DOMAIN log :
        j # k /\ "start" \notin {log[j].at, log[k].at} => log[j].probe # log[k].probe
=============================================================================
