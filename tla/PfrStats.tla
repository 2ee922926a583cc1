------------------------------ MODULE PfrStats ------------------------------
(***************************************************************************)
(* The two passes over the replies of a round: pfr_calc_avg_rtt stores the *)
(* aggregate [99] of every path (a destination through a peer, in the      *)
(* order of the maps), pfr_calc_stddev_rtt adds the deviation and the      *)
(* median to it.  The accumulators are variables of the functions, set     *)
(* back by hand at the end of each path.  The receiver may store one more  *)
(* reply meanwhile (PfrGate), and neither pass holds mtr.                  *)
(*                                                                         *)
(* A round trip is a whole number of microseconds; avg and stddev are in   *)
(* hundredths of a millisecond, to which the code rounds them up; mediana  *)
(* is kept doubled.  Values of type double are exact here.  The replies of *)
(* a path are numbered from 1 (icmp_seq starts at 0): only their order     *)
(* matters, and that [99] comes behind them.                               *)
(***************************************************************************)
EXTENDS Integers, FiniteSetsExt, SequencesExt

CONSTANTS
    NPath,     \* number of paths
    PingReq,   \* pfr_ping_req: probes per path and round
    Rtt,       \* round trip times
    RttCap     \* 50000 ms, where the search for the least one starts

ASSUME StatsAssumption ==
    /\ NPath \in Nat
    /\ PingReq \in Nat \ {0}
    /\ Rtt \subseteq Nat
    /\ RttCap \in Nat

VARIABLES
    pass,      \* "avg", "stddev", "done", or "dead"
    path,      \* the path the pass is at, End behind the last one
    seq,       \* the last reply of the path that was visited
    samples,   \* samples[p][s]: the reply s of path p
    agg,       \* agg[p]: the aggregate [99] of path p
    acc,       \* accumulators of pfr_calc_avg_rtt
    dev,       \* accumulators of pfr_calc_stddev_rtt
    late,      \* a reply was stored during the passes
    start      \* history: the replies before the passes

vars == <<pass, path, seq, samples, agg, acc, dev, late, start>>

Path == 1..NPath
End == NPath + 1
Replies == UNION {[S -> Rtt] : S \in SUBSET (1..PingReq)}

acc0 == [curr_rtt |-> 0, cnt_rtt |-> 0, alive |-> 0, m_rtt |-> RttCap, max_rtt |-> 0]
dev0 == [cnt_rtt |-> 0, dispersion |-> 0, smediana |-> <<>>]

CeilDiv(a, b) == -((-a) \div b)

\* The path after p that has replies: std::map iterates in order, and sees what
\* was inserted ahead of it.
NextPath(p, smp) == Min({q \in Path : q > p /\ DOMAIN smp[q] # {}} \cup {End})

\* The replies of the path that are still to be visited.
Rest == {s \in DOMAIN samples[path] : s > seq}

----------------------------------------------------------------------------
\* pfr_calc_avg_rtt

AvgSample ==
    /\ pass = "avg" /\ path # End
    /\ Rest # {}
    /\ seq' = Min(Rest)
    /\ LET x == samples[path][Min(Rest)]
       IN  acc' = [curr_rtt |-> acc.curr_rtt + x,
                   cnt_rtt  |-> acc.cnt_rtt + 1,
                   alive    |-> acc.alive + 1,
                   m_rtt    |-> Min({acc.m_rtt, x}),
                   max_rtt  |-> Max({acc.max_rtt, x})]
    /\ UNCHANGED <<pass, path, samples, agg, dev, late, start>>

\* Mutant: lost counts the replies.
AggregateLostAlive(a) ==
    [avg |-> CeilDiv(a.curr_rtt, 10 * a.cnt_rtt), lost |-> a.alive, min |-> a.m_rtt,
     max |-> a.max_rtt, metric1 |-> a.m_rtt + a.m_rtt * a.alive, stddev |-> 0, mediana |-> 0]

\* The aggregate of the accumulated replies: metric1 is the least round trip,
\* once more for every probe that was lost.
Aggregate(a) ==
    LET lost == PingReq - a.alive
    IN  [avg     |-> CeilDiv(a.curr_rtt, 10 * a.cnt_rtt),
         lost    |-> lost,
         min     |-> a.m_rtt,
         max     |-> a.max_rtt,
         metric1 |-> a.m_rtt + a.m_rtt * lost,
         stddev  |-> 0,
         mediana |-> 0]

\* Mutants: an accumulator is not set back, or the iterator is advanced twice.
AvgPathWith(acc1, path1) ==
    /\ pass = "avg" /\ path # End
    /\ Rest = {}
    /\ agg' = [p \in DOMAIN agg \cup {path} |-> IF p = path THEN Aggregate(acc) ELSE agg[p]]
    /\ acc' = acc1
    /\ path' = path1
    /\ seq' = 0
    /\ UNCHANGED <<pass, samples, dev, late, start>>

AvgPathKeepsMin ==
    AvgPathWith([acc0 EXCEPT !.m_rtt = acc.m_rtt], NextPath(path, samples))
AvgPathSkips == AvgPathWith(acc0, NextPath(NextPath(path, samples), samples))

\* The end of a path: new tparm, then the accumulators are set back.
AvgPath ==
    /\ pass = "avg" /\ path # End
    /\ Rest = {}
    /\ agg' = [p \in DOMAIN agg \cup {path} |-> IF p = path THEN Aggregate(acc) ELSE agg[p]]
    /\ acc' = acc0
    /\ path' = NextPath(path, samples)
    /\ seq' = 0
    /\ UNCHANGED <<pass, samples, dev, late, start>>

AvgDone ==
    /\ pass = "avg" /\ path = End
    /\ pass' = "stddev"
    /\ path' = NextPath(0, samples)
    /\ UNCHANGED <<seq, samples, agg, acc, dev, late, start>>

----------------------------------------------------------------------------
\* pfr_calc_stddev_rtt

\* A path without aggregate: tp99 is NULL and is dereferenced.
DevNull ==
    /\ pass = "stddev" /\ path # End
    /\ path \notin DOMAIN agg
    /\ pass' = "dead"
    /\ UNCHANGED <<path, seq, samples, agg, acc, dev, late, start>>

DevSample ==
    /\ pass = "stddev" /\ path \in DOMAIN agg
    /\ Rest # {}
    /\ seq' = Min(Rest)
    /\ LET x == samples[path][Min(Rest)]
           d == x - 10 * agg[path].avg
       IN  dev' = [cnt_rtt    |-> dev.cnt_rtt + 1,
                   dispersion |-> dev.dispersion + d * d,
                   smediana   |-> Append(dev.smediana, x)]
    /\ UNCHANGED <<pass, path, samples, agg, acc, late, start>>

\* ceil(sqrt(dispersion / cnt) * 100 / cnt): the least s whose square is not less.
Stddev(a) ==
    CHOOSE s \in 0..a.dispersion :
        /\ s * s * 100 * a.cnt_rtt * a.cnt_rtt * a.cnt_rtt >= a.dispersion
        /\ s > 0 => (s - 1) * (s - 1) * 100 * a.cnt_rtt * a.cnt_rtt * a.cnt_rtt < a.dispersion

\* std::sort: v in ascending order.
Sort(v) ==
    LET place == CHOOSE p \in Bijection(1..Len(v), 1..Len(v)) :
                    \A i, j \in 1..Len(v) : i < j => v[p[i]] <= v[p[j]]
    IN  [i \in 1..Len(v) |-> v[place[i]]]

\* Twice mediana.  The vector counts from 0: at(i) is sorted[i + 1].
Mediana(v) ==
    LET sorted == Sort(v)
        xnm == Len(v) \div 2
    IN  IF Len(v) = 0 THEN 0
        ELSE IF Len(v) = 1 THEN 2 * sorted[1]
        ELSE IF Len(v) % 2 # 0 THEN 2 * sorted[xnm + 2]
        ELSE sorted[xnm] + sorted[xnm + 1]

\* Mutant: smediana is not cleared.
DevPathKeepsMediana ==
    /\ pass = "stddev" /\ path \in DOMAIN agg
    /\ Rest = {}
    /\ agg' = [agg EXCEPT ![path].stddev = Stddev(dev), ![path].mediana = Mediana(dev.smediana)]
    /\ dev' = [dev0 EXCEPT !.smediana = dev.smediana]
    /\ path' = NextPath(path, samples)
    /\ seq' = 0
    /\ UNCHANGED <<pass, samples, acc, late, start>>

\* The end of a path; smediana is cleared when the next one begins.
DevPath ==
    /\ pass = "stddev" /\ path \in DOMAIN agg
    /\ Rest = {}
    /\ agg' = [agg EXCEPT ![path].stddev = Stddev(dev), ![path].mediana = Mediana(dev.smediana)]
    /\ dev' = dev0
    /\ path' = NextPath(path, samples)
    /\ seq' = 0
    /\ UNCHANGED <<pass, samples, acc, late, start>>

DevDone ==
    /\ pass = "stddev" /\ path = End
    /\ pass' = "done"
    /\ UNCHANGED <<path, seq, samples, agg, acc, dev, late, start>>

----------------------------------------------------------------------------
\* proc_v4 stores the one reply that the gate lets through; a duplicate is not
\* stored.
LateReply(p, s, x) ==
    /\ pass \in {"avg", "stddev"}
    /\ ~late
    /\ s \notin DOMAIN samples[p]
    /\ samples' = [samples EXCEPT ![p] =
                      [t \in DOMAIN samples[p] \cup {s} |-> IF t = s THEN x ELSE samples[p][t]]]
    /\ late' = TRUE
    /\ UNCHANGED <<pass, path, seq, agg, acc, dev, start>>

Finished == pass \in {"done", "dead"} /\ UNCHANGED vars

Init ==
    /\ samples \in [Path -> Replies]
    /\ start = samples
    /\ pass = "avg"
    /\ path = NextPath(0, samples)
    /\ seq = 0
    /\ agg = [p \in {} |-> acc0]
    /\ acc = acc0
    /\ dev = dev0
    /\ late = FALSE

Receive == \E p \in Path, s \in 1..PingReq, x \in Rtt : LateReply(p, s, x)

Next ==
    \/ AvgSample \/ AvgPath \/ AvgDone
    \/ DevNull \/ DevSample \/ DevPath \/ DevDone
    \/ Receive
    \/ Finished

Spec == Init /\ [][Next]_vars
----------------------------------------------------------------------------
\* Properties

Values(f) == {f[s] : s \in DOMAIN f}

\* The sums of the replies up to each number.
PartialTotal(f) ==
    LET sum[s \in Nat] == IF s = 0 THEN 0 ELSE sum[s - 1] + (IF s \in DOMAIN f THEN f[s] ELSE 0)
    IN  sum

Total(f) == PartialTotal(f)[PingReq]

\* What [99] says of the replies f of one path: their own number, extremes and
\* mean, rounded up to a hundredth of a millisecond.
Describes(a, f) ==
    LET n == Cardinality(DOMAIN f)
    IN  /\ n > 0
        /\ a.lost = PingReq - n
        /\ a.min = Min(Values(f) \cup {RttCap})
        /\ a.max = Max(Values(f))
        /\ 10 * a.avg * n >= Total(f)
        /\ 10 * (a.avg - 1) * n < Total(f)

\* Every aggregate of pfr_calc_avg_rtt describes the replies of its own path,
\* as they were before or after the late reply, and never a mixture: nothing
\* leaks from the path before through the accumulators, and a reply inserted
\* under the running iterator counts entirely or not at all.
AggregateIsSnapshot ==
    \A p \in DOMAIN agg : Describes(agg[p], start[p]) \/ Describes(agg[p], samples[p])

\* Among paths measured without a late reply, one that answered all that another
\* one answered, and as fast, never gets a worse metric1: an additional reply
\* can only help a peer in pfr_route_scan.
MoreRepliesNeverHurt ==
    ~late =>
        \A p, q \in DOMAIN agg :
            (\A s \in DOMAIN samples[p] :
                s \in DOMAIN samples[q] /\ samples[q][s] <= samples[p][s]) =>
            agg[q].metric1 <= agg[p].metric1

\* Without a late reply the deviation and the median of a path are those of its own
\* replies (smediana and dispersion are not those of the path before), when no
\* reply takes longer than the cap.  mediana is not more than one rank too high: for
\* three replies and more, when their number is odd, the element behind the
\* middle one is taken.
DeviationWithinRange ==
    pass = "done" /\ ~late /\ (\A p \in Path : \A x \in Values(samples[p]) : x <= RttCap) =>
        \A p \in DOMAIN agg :
            LET f == samples[p]
                n == Cardinality(DOMAIN f)
            IN  /\ 2 * Cardinality({s \in DOMAIN f : 2 * f[s] > agg[p].mediana}) <= n
                /\ 2 * Cardinality({s \in DOMAIN f : 2 * f[s] < agg[p].mediana}) <= n + 1
                /\ 10 * agg[p].stddev < agg[p].max - agg[p].min + 20

\* pfr_calc_stddev_rtt meets a NULL aggregate only when the late reply was the
\* first of a path that had not answered in this round.
NullNeedsNewPath ==
    pass = "dead" => late /\ start[path] # samples[path] /\ DOMAIN start[path] = {}
=============================================================================
