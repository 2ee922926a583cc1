--------------------------- MODULE PfrStatsProofs ---------------------------
(***************************************************************************)
(* Proofs about PfrStats, for any number of paths and probes and any round *)
(* trip times: the aggregate of a path describes the replies of this path  *)
(* before or after the late reply, more replies never hurt a path, the     *)
(* NULL aggregate needs a path whose first reply came during the passes,   *)
(* and without a late reply deviation and median fit the path's replies.   *)
(***************************************************************************)
EXTENDS PfrStats, FiniteSetTheorems, WellFoundedInduction, TLAPS

IsReplies(f) == DOMAIN f \subseteq 1..PingReq /\ \A s \in DOMAIN f : f[s] \in Rtt

StatsType ==
    /\ DOMAIN samples = Path /\ DOMAIN start = Path
    /\ \A p \in Path : IsReplies(samples[p]) /\ IsReplies(start[p])
    /\ path \in 1..End
    /\ seq \in 0..PingReq
    /\ DOMAIN agg \subseteq Path
    /\ \A p \in DOMAIN agg :
          DOMAIN agg[p] = {"avg", "lost", "min", "max", "metric1", "stddev", "mediana"}
    /\ late \in BOOLEAN

\* Replies are added, and only a late one.
GrownInv ==
    /\ ~late => samples = start
    /\ \A p \in Path : \A s \in DOMAIN start[p] : s \in DOMAIN samples[p] /\ samples[p][s] = start[p][s]

\* What had answered before the passes has its aggregate once the first pass is past
\* it; the passes are at paths that have answered.
CoveredInv ==
    /\ \A p \in Path : DOMAIN start[p] # {} /\ (pass = "avg" => p < path) => p \in DOMAIN agg
    /\ pass \in {"avg", "stddev", "dead"} /\ path # End => DOMAIN samples[path] # {}
    /\ pass = "dead" => path \in Path \ DOMAIN agg

Upto(f, n) == {s \in DOMAIN f : s <= n}

\* The accumulators a after the replies of f up to n.
Visited(a, f, n) ==
    /\ a.curr_rtt = PartialTotal(f)[n]
    /\ a.cnt_rtt = Cardinality(Upto(f, n)) /\ a.alive = a.cnt_rtt
    /\ a.m_rtt \in Nat /\ a.m_rtt <= RttCap /\ \A s \in Upto(f, n) : a.m_rtt <= f[s]
    /\ a.m_rtt = RttCap \/ \E s \in Upto(f, n) : a.m_rtt = f[s]
    /\ a.max_rtt \in Nat /\ \A s \in Upto(f, n) : f[s] <= a.max_rtt
    /\ a.max_rtt = 0 \/ \E s \in Upto(f, n) : a.max_rtt = f[s]

\* What is still to be visited is the same in f and g.
SameRest(f, g) ==
    \A s \in 1..PingReq : s > seq =>
        (s \in DOMAIN f <=> s \in DOMAIN g) /\ (s \in DOMAIN f => f[s] = g[s])

\* The pass accumulates the replies of its path from before or from after the late one.
AccumulatedInv ==
    pass = "avg" /\ path # End =>
        \E f \in {start[path], samples[path]} :
            DOMAIN f # {} /\ Visited(acc, f, seq) /\ SameRest(f, samples[path])

MetricInv ==
    \A p \in DOMAIN agg :
        agg[p].avg \in Int /\ agg[p].metric1 = agg[p].min + agg[p].min * agg[p].lost

(***************************************************************************)
(* The inductive invariant.                                                *)
(***************************************************************************)
SInv == /\ StatsType /\ GrownInv /\ CoveredInv /\ AccumulatedInv
        /\ AggregateIsSnapshot /\ MetricInv
----------------------------------------------------------------------------
(***************************************************************************)
(* Induction and recursion on the natural numbers.                         *)
(***************************************************************************)

\* Induction on the natural numbers, for a set of them.
LEMMA NatInd ==
    ASSUME NEW S, 0 \in S, \A n \in Nat : n \in S => n + 1 \in S
    PROVE  Nat \subseteq S
<1> DEFINE Less == {p \in Nat \X Nat : p[1] < p[2]}
           T == Nat \ S
<1>1. IsWellFoundedOn(Less, Nat)
  BY Zenon, NatLessThanWellFounded DEF OpToRel
<1>2. SUFFICES ASSUME T # {} PROVE FALSE
  OBVIOUS
<1> HIDE DEF Less
<1>3. PICK x \in T : \A y \in T : ~(<<y, x>> \in Less)
  BY <1>1, <1>2, WFMin
<1>4. x \in Nat /\ x # 0
  BY <1>3
<1>5. x - 1 \in Nat /\ <<x - 1, x>> \in Less
  BY <1>4 DEF Less
<1>6. x - 1 \in S
  BY <1>3, <1>5
<1> QED
  BY <1>3, <1>4, <1>5, <1>6

\* Function f starts with x0 and goes on with F.
Recursive(f, x0, F) == f[0] = x0 /\ \A n \in Nat : f[n + 1] = F[<<n + 1, f[n]>>]

\* There is such a function.
LEMMA Recursion ==
    ASSUME NEW X, NEW x0 \in X, NEW F \in [Nat \X X -> X]
    PROVE  \E f \in [Nat -> X] : Recursive(f, x0, F)
<1> DEFINE Start(n, g) == /\ g \in [0 .. n -> X] /\ g[0] = x0
                          /\ \A i \in Nat : i < n => g[i + 1] = F[<<i + 1, g[i]>>]
           Good == {n \in Nat : \E g \in [0 .. n -> X] : Start(n, g)}
           Partial(n) == CHOOSE g : Start(n, g)
           f == [n \in Nat |-> Partial(n)[n]]
<1>1. 0 \in Good
  <2>1. Start(0, [i \in 0 .. 0 |-> x0])
    OBVIOUS
  <2> QED
    BY <2>1
<1>2. ASSUME NEW n \in Nat, n \in Good PROVE n + 1 \in Good
  <2>1. PICK g : Start(n, g)
    BY <1>2
  <2> DEFINE h == [i \in 0 .. n + 1 |-> IF i = n + 1 THEN F[<<n + 1, g[n]>>] ELSE g[i]]
  <2>2. n + 1 \in Nat /\ h \in [0 .. n + 1 -> X]
    BY <2>1
  <2>3. h[0] = x0
    BY <2>1
  <2>4. ASSUME NEW i \in Nat, i < n + 1 PROVE h[i + 1] = F[<<i + 1, h[i]>>]
    <3>1. h[i] = g[i]
      BY <2>4
    <3>2. CASE i = n
      <4>1. h[n + 1] = F[<<n + 1, g[n]>>]
        BY <2>2
      <4> QED
        BY Zenon, <3>1, <3>2, <4>1
    <3>3. CASE i < n
      <4>1. h[i + 1] = g[i + 1]
        BY <3>3
      <4>2. g[i + 1] = F[<<i + 1, g[i]>>]
        BY <2>1, <3>3
      <4> QED
        BY <3>1, <4>1, <4>2
    <3> QED
      BY <2>4, <3>2, <3>3
  <2> HIDE DEF h
  <2>5. Start(n + 1, h)
    BY <2>2, <2>3, <2>4
  <2> HIDE DEF Start
  <2> QED
    BY <2>2, <2>5
<1>3. \A n \in Nat : Start(n, Partial(n))
  <2>1. Nat \subseteq Good
    <3> HIDE DEF Good
    <3> QED
      BY <1>1, <1>2, NatInd
  <2> QED
    BY <2>1
<1> HIDE DEF Partial
<1>4. ASSUME NEW n \in Nat PROVE Partial(n + 1)[n] = Partial(n)[n]
  <2> DEFINE g == Partial(n)
             h == Partial(n + 1)
             Same == {i \in Nat : i <= n => h[i] = g[i]}
  <2>1. Start(n, g) /\ Start(n + 1, h)
    BY <1>3
  <2> HIDE DEF g, h
  <2>2. 0 \in Same
    BY <2>1
  <2>3. ASSUME NEW i \in Nat, i \in Same PROVE i + 1 \in Same
    <3> SUFFICES ASSUME i + 1 <= n PROVE h[i + 1] = g[i + 1]
      OBVIOUS
    <3>1. h[i] = g[i] /\ i < n /\ i < n + 1
      BY <2>3
    <3> QED
      BY <2>1, <3>1
  <2>4. Nat \subseteq Same
    <3> HIDE DEF Same
    <3> QED
      BY <2>2, <2>3, NatInd
  <2> QED
    BY <2>4 DEF g, h
<1>5. f \in [Nat -> X]
  BY <1>3
<1>6. f[0] = x0
  BY <1>3
<1>7. ASSUME NEW n \in Nat PROVE f[n + 1] = F[<<n + 1, f[n]>>]
  <2>1. Start(n + 1, Partial(n + 1)) /\ n < n + 1
    BY <1>3
  <2>2. Partial(n + 1)[n + 1] = F[<<n + 1, Partial(n + 1)[n]>>]
    BY <2>1
  <2> QED
    BY <1>4, <2>2
<1> QED
  BY <1>5, <1>6, <1>7 DEF Recursive

\* A set of numbers that is not empty has a least element.
LEMMA MinFirst ==
    ASSUME NEW S, S \subseteq Nat, S # {}
    PROVE  Min(S) \in S /\ \A n \in S : Min(S) <= n
<1> DEFINE Less == {p \in Nat \X Nat : p[1] < p[2]}
<1>1. IsWellFoundedOn(Less, Nat)
  BY Zenon, NatLessThanWellFounded DEF OpToRel
<1> HIDE DEF Less
<1>2. PICK x \in S : \A y \in S : ~(<<y, x>> \in Less)
  BY <1>1, WFMin
<1>3. ASSUME NEW y \in S PROVE x <= y
  <2>1. <<y, x>> \in Nat \X Nat /\ <<y, x>>[1] = y /\ <<y, x>>[2] = x
    OBVIOUS
  <2>2. ~(y < x)
    BY <1>2, <2>1 DEF Less
  <2> QED
    BY <2>2
<1> QED
  BY <1>3 DEF Min

\* An upper bound in a set is its greatest element.
LEMMA MaxIs ==
    ASSUME NEW S, S \subseteq Nat, NEW m \in S, \A n \in S : n <= m
    PROVE  Max(S) = m
<1>1. Max(S) \in S /\ \A n \in S : Max(S) >= n
  BY DEF Max
<1> HIDE DEF Max
<1>2. /\ Max(S) \in Nat /\ m \in Nat
      /\ Max(S) <= m /\ Max(S) >= m
  BY <1>1
<1> QED
  BY <1>2

LEMMA CeilDivBounds ==
    ASSUME NEW a \in Nat, NEW b \in Nat \ {0}
    PROVE  CeilDiv(a, b) \in Int /\ b * CeilDiv(a, b) >= a /\ b * (CeilDiv(a, b) - 1) < a
  BY DEF CeilDiv

----------------------------------------------------------------------------
(***************************************************************************)
(* Partial sums.                                                           *)
(***************************************************************************)

\* The equations of the recursion.
LEMMA PartialTotalDef ==
    ASSUME NEW f, \A s \in DOMAIN f : f[s] \in Nat
    PROVE  /\ PartialTotal(f) \in [Nat -> Nat]
           /\ PartialTotal(f)[0] = 0
           /\ \A n \in Nat : PartialTotal(f)[n + 1] =
                  PartialTotal(f)[n] + (IF n + 1 \in DOMAIN f THEN f[n + 1] ELSE 0)
<1> DEFINE Add == [p \in Nat \X Nat |-> p[2] + (IF p[1] \in DOMAIN f THEN f[p[1]] ELSE 0)]
           Eqn(g) == g = [n \in Nat |-> IF n = 0 THEN 0
                                    ELSE g[n - 1] + (IF n \in DOMAIN f THEN f[n] ELSE 0)]
<1>1. \A n \in Nat, x \in Nat : <<n, x>> \in Nat \X Nat
       /\ Add[<<n, x>>] = x + (IF n \in DOMAIN f THEN f[n] ELSE 0)
  OBVIOUS
<1>2. Add \in [Nat \X Nat -> Nat]
  <2>1. \A n \in Nat : (IF n \in DOMAIN f THEN f[n] ELSE 0) \in Nat
    OBVIOUS
  <2> QED
    BY <2>1
<1> HIDE DEF Add
<1>3. PICK h \in [Nat -> Nat] : Recursive(h, 0, Add)
  <2>1. 0 \in Nat
    OBVIOUS
  <2> QED
    BY Zenon, <1>2, <2>1, Recursion
<1>4. \A n \in Nat : h[n + 1] = h[n] + (IF n + 1 \in DOMAIN f THEN f[n + 1] ELSE 0)
  <2> SUFFICES ASSUME NEW n \in Nat
               PROVE  h[n + 1] = h[n] + (IF n + 1 \in DOMAIN f THEN f[n + 1] ELSE 0)
    OBVIOUS
  <2>1. n + 1 \in Nat /\ h[n] \in Nat /\ h[n + 1] = Add[<<n + 1, h[n]>>]
    BY <1>3 DEF Recursive
  <2> QED
    BY <1>1, <2>1
<1>5. ASSUME NEW n \in Nat
      PROVE  h[n] = IF n = 0 THEN 0 ELSE h[n - 1] + (IF n \in DOMAIN f THEN f[n] ELSE 0)
  <2>1. CASE n = 0
    BY <1>3, <2>1 DEF Recursive
  <2>2. CASE n # 0
    <3>1. n - 1 \in Nat /\ (n - 1) + 1 = n
      BY <2>2
    <3> QED
      BY <1>4, <2>2, <3>1
  <2> QED
    BY <2>1, <2>2
<1>6. Eqn(h)
  BY <1>5
<1>7. PartialTotal(f) = CHOOSE g : Eqn(g)
  BY DEF PartialTotal
<1>8. Eqn(PartialTotal(f))
  <2> HIDE DEF Eqn
  <2> QED
    BY <1>6, <1>7
<1> DEFINE t == PartialTotal(f)
<1>9. t = [n \in Nat |-> IF n = 0 THEN 0 ELSE t[n - 1] + (IF n \in DOMAIN f THEN f[n] ELSE 0)]
  BY <1>8
<1> HIDE DEF t
<1>10. t[0] = 0 /\ DOMAIN t = Nat
  BY <1>9
<1>11. \A n \in Nat : t[n + 1] = t[n] + (IF n + 1 \in DOMAIN f THEN f[n + 1] ELSE 0)
  <2> SUFFICES ASSUME NEW n \in Nat
               PROVE t[n + 1] = t[n] + (IF n + 1 \in DOMAIN f THEN f[n + 1] ELSE 0)
    OBVIOUS
  <2>1. n + 1 \in Nat /\ n + 1 # 0 /\ (n + 1) - 1 = n
    OBVIOUS
  <2> QED
    BY <1>9, <2>1
<1>12. t \in [Nat -> Nat]
  <2> DEFINE S == {n \in Nat : t[n] \in Nat}
  <2>1. 0 \in S /\ \A n \in Nat : n \in S => n + 1 \in S
    BY <1>10, <1>11
  <2>2. Nat \subseteq S
    <3> HIDE DEF S
    <3> QED
      BY <2>1, NatInd
  <2> QED
    BY <1>9, <1>10, <2>2
<1> QED
  BY <1>10, <1>11, <1>12 DEF t

\* Where there is no reply the sum stays.
LEMMA PartialTotalGap ==
    ASSUME NEW f, \A s \in DOMAIN f : f[s] \in Nat,
           NEW n \in Nat, NEW m \in Nat, n <= m, \A s \in DOMAIN f : ~(n < s /\ s <= m)
    PROVE  PartialTotal(f)[m] = PartialTotal(f)[n]
<1> DEFINE t == PartialTotal(f)
           S == {k \in Nat : n + k <= m => t[n + k] = t[n]}
<1>1. t \in [Nat -> Nat] /\ \A k \in Nat : t[k + 1] = t[k] + (IF k + 1 \in DOMAIN f THEN f[k + 1] ELSE 0)
  BY PartialTotalDef
<1> HIDE DEF t
<1>2. 0 \in S
  OBVIOUS
<1>3. ASSUME NEW k \in Nat, k \in S PROVE k + 1 \in S
  <2> SUFFICES ASSUME n + (k + 1) <= m PROVE t[n + (k + 1)] = t[n]
    OBVIOUS
  <2>1. n + k \in Nat /\ n + (k + 1) = (n + k) + 1 /\ n + k <= m
    OBVIOUS
  <2>2. (n + k) + 1 \notin DOMAIN f
    BY <2>1
  <2>3. t[(n + k) + 1] = t[n + k] + 0
    BY <1>1, <2>1, <2>2
  <2>4. t[n + k] = t[n] /\ t[n + k] \in Nat
    BY <1>1, <1>3, <2>1
  <2> QED
    BY <2>1, <2>3, <2>4
<1>4. Nat \subseteq S
  <2> HIDE DEF S
  <2> QED
    BY <1>2, <1>3, NatInd
<1>5. m - n \in Nat /\ n + (m - n) = m
  OBVIOUS
<1>6. t[m] = t[n]
  BY <1>4, <1>5
<1> QED
  BY <1>6 DEF t

\* The sum up to n depends on the replies up to n only.
LEMMA PartialTotalSame ==
    ASSUME NEW f, \A s \in DOMAIN f : f[s] \in Nat, NEW g, \A s \in DOMAIN g : g[s] \in Nat,
           NEW n \in Nat,
           \A s \in Nat : s <= n => (s \in DOMAIN f <=> s \in DOMAIN g) /\ (s \in DOMAIN f => f[s] = g[s])
    PROVE  PartialTotal(f)[n] = PartialTotal(g)[n]
<1> DEFINE t == PartialTotal(f)
           u == PartialTotal(g)
           S == {k \in Nat : k <= n => t[k] = u[k]}
<1>1. t[0] = 0 /\ \A k \in Nat : t[k + 1] = t[k] + (IF k + 1 \in DOMAIN f THEN f[k + 1] ELSE 0)
  BY PartialTotalDef
<1>2. u[0] = 0 /\ \A k \in Nat : u[k + 1] = u[k] + (IF k + 1 \in DOMAIN g THEN g[k + 1] ELSE 0)
  BY PartialTotalDef
<1> HIDE DEF t, u
<1>3. 0 \in S
  BY <1>1, <1>2
<1>4. ASSUME NEW k \in Nat, k \in S PROVE k + 1 \in S
  <2> SUFFICES ASSUME k + 1 <= n PROVE t[k + 1] = u[k + 1]
    OBVIOUS
  <2>1. k + 1 \in Nat /\ t[k] = u[k]
    BY <1>4
  <2> QED
    BY <1>1, <1>2, <2>1
<1>5. Nat \subseteq S
  <2> HIDE DEF S
  <2> QED
    BY <1>3, <1>4, NatInd
<1> QED
  BY <1>5 DEF t, u


----------------------------------------------------------------------------
(***************************************************************************)
(* The accumulators.                                                       *)
(***************************************************************************)

\* Replies are finite in number, and their values numbers.
LEMMA RepliesFinite ==
    ASSUME NEW f, IsReplies(f)
    PROVE  /\ DOMAIN f \subseteq Nat \ {0} /\ \A s \in DOMAIN f : f[s] \in Nat
           /\ \A S \in SUBSET DOMAIN f :
                 IsFiniteSet(S) /\ Cardinality(S) \in Nat /\ Cardinality(S) <= PingReq
<1>1. DOMAIN f \subseteq 1..PingReq /\ PingReq \in Nat
  BY StatsAssumption DEF IsReplies
<1>2. DOMAIN f \subseteq Nat \ {0} /\ \A s \in DOMAIN f : f[s] \in Nat
  <2>1. \A s \in 1..PingReq : s \in Nat \ {0}
    OBVIOUS
  <2>2. Rtt \subseteq Nat
    BY StatsAssumption
  <2> QED
    BY <1>1, <2>1, <2>2 DEF IsReplies
<1>3. IsFiniteSet(1..PingReq) /\ Cardinality(1..PingReq) = PingReq
  <2>1. 1 \in Int /\ PingReq \in Int /\ 1 <= PingReq /\ PingReq - 1 + 1 = PingReq
    BY StatsAssumption
  <2> QED
    BY <2>1, FS_Interval
<1>4. ASSUME NEW S \in SUBSET DOMAIN f
      PROVE  IsFiniteSet(S) /\ Cardinality(S) \in Nat /\ Cardinality(S) <= PingReq
  <2>1. S \subseteq 1..PingReq
    BY <1>1
  <2>2. IsFiniteSet(S) /\ Cardinality(S) <= PingReq
    BY <1>3, <2>1, FS_Subset
  <2> QED
    BY <2>2, FS_CardinalityType
<1> QED
  BY <1>2, <1>4

\* At the start of a path nothing is accumulated.
LEMMA VisitedStart == ASSUME NEW f, IsReplies(f) PROVE Visited(acc0, f, 0)
<1>1. Upto(f, 0) = {}
  BY RepliesFinite DEF Upto
<1>2. Cardinality({}) = 0
  BY FS_EmptySet
<1>3. PartialTotal(f)[0] = 0
  BY RepliesFinite, PartialTotalDef
<1> QED
  BY <1>1, <1>2, <1>3, StatsAssumption DEF Visited, acc0

\* The next reply of a path.
LEMMA VisitedNext ==
    ASSUME NEW f, IsReplies(f), NEW a, NEW n \in Nat, Visited(a, f, n),
           NEW m \in DOMAIN f, n < m, \A s \in DOMAIN f : ~(n < s /\ s < m)
    PROVE  Visited([curr_rtt |-> a.curr_rtt + f[m], cnt_rtt |-> a.cnt_rtt + 1,
                    alive |-> a.alive + 1, m_rtt |-> Min({a.m_rtt, f[m]}),
                    max_rtt |-> Max({a.max_rtt, f[m]})], f, m)
<1>1. m \in Nat \ {0} /\ f[m] \in Nat /\ m - 1 \in Nat /\ (m - 1) + 1 = m /\ n <= m - 1
  BY RepliesFinite
<1>2. PartialTotal(f)[m] = PartialTotal(f)[n] + f[m]
  <2>1. \A s \in DOMAIN f : f[s] \in Nat /\ s \in Nat
    BY RepliesFinite
  <2>2. \A s \in DOMAIN f : ~(n < s /\ s <= m - 1)
    BY <1>1, <2>1
  <2>3. PartialTotal(f)[m - 1] = PartialTotal(f)[n]
    BY <1>1, <2>1, <2>2, PartialTotalGap
  <2>4. PartialTotal(f)[(m - 1) + 1] =
          PartialTotal(f)[m - 1] + (IF (m - 1) + 1 \in DOMAIN f THEN f[(m - 1) + 1] ELSE 0)
    BY <1>1, <2>1, PartialTotalDef
  <2> QED
    BY <1>1, <2>3, <2>4
<1>3. Upto(f, m) = Upto(f, n) \cup {m} /\ m \notin Upto(f, n)
  BY <1>1, RepliesFinite DEF Upto
<1>4. Cardinality(Upto(f, m)) = Cardinality(Upto(f, n)) + 1
  <2>1. IsFiniteSet(Upto(f, n))
    BY RepliesFinite DEF Upto
  <2> QED
    BY <1>3, <2>1, FS_AddElement
<1>5. /\ Min({a.m_rtt, f[m]}) \in {a.m_rtt, f[m]}
      /\ Min({a.m_rtt, f[m]}) <= a.m_rtt /\ Min({a.m_rtt, f[m]}) <= f[m]
  <2>1. {a.m_rtt, f[m]} \subseteq Nat
    BY <1>1 DEF Visited
  <2> QED
    BY <2>1, MinFirst
<1>6. /\ Max({a.max_rtt, f[m]}) \in {a.max_rtt, f[m]}
      /\ Max({a.max_rtt, f[m]}) >= a.max_rtt /\ Max({a.max_rtt, f[m]}) >= f[m]
  <2>1. {a.max_rtt, f[m]} \subseteq Nat
    BY <1>1 DEF Visited
  <2>2. CASE a.max_rtt <= f[m]
    <3>1. Max({a.max_rtt, f[m]}) = f[m]
      BY <2>1, <2>2, MaxIs
    <3> QED
      BY <2>1, <2>2, <3>1
  <2>3. CASE f[m] <= a.max_rtt
    <3>1. Max({a.max_rtt, f[m]}) = a.max_rtt
      BY <2>1, <2>3, MaxIs
    <3> QED
      BY <2>1, <2>3, <3>1
  <2> QED
    BY <2>1, <2>2, <2>3
<1> DEFINE lo == Min({a.m_rtt, f[m]})
           hi == Max({a.max_rtt, f[m]})
<1> HIDE DEF lo, hi
<1>7. /\ lo \in Nat /\ lo <= RttCap /\ \A s \in Upto(f, m) : lo <= f[s]
      /\ lo = RttCap \/ \E s \in Upto(f, m) : lo = f[s]
  <2>1. lo \in {a.m_rtt, f[m]} /\ lo <= a.m_rtt /\ lo <= f[m] /\ a.m_rtt \in Nat
    BY <1>5 DEF lo, Visited
  <2>2. lo \in Nat /\ lo <= RttCap
    BY <1>1, <2>1, StatsAssumption DEF Visited
  <2>3. \A s \in Upto(f, n) : f[s] \in Nat /\ a.m_rtt <= f[s]
    BY RepliesFinite DEF Visited, Upto
  <2> QED
    BY <1>3, <2>1, <2>2, <2>3 DEF Visited
<1>8. /\ hi \in Nat /\ \A s \in Upto(f, m) : f[s] <= hi
      /\ hi = 0 \/ \E s \in Upto(f, m) : hi = f[s]
  <2>1. hi \in {a.max_rtt, f[m]} /\ hi >= a.max_rtt /\ hi >= f[m] /\ a.max_rtt \in Nat
    BY <1>6 DEF hi, Visited
  <2>2. hi \in Nat
    BY <1>1, <2>1
  <2>3. \A s \in Upto(f, n) : f[s] \in Nat /\ f[s] <= a.max_rtt
    BY RepliesFinite DEF Visited, Upto
  <2> QED
    BY <1>1, <1>3, <2>1, <2>2, <2>3 DEF Visited
<1> QED
  BY <1>2, <1>4, <1>7, <1>8 DEF Visited, lo, hi

\* Only the replies visited count.
LEMMA VisitedSame ==
    ASSUME NEW f, IsReplies(f), NEW g, IsReplies(g), NEW a, NEW n \in Nat, Visited(a, f, n),
           \A s \in 1..PingReq : s <= n =>
               (s \in DOMAIN f <=> s \in DOMAIN g) /\ (s \in DOMAIN f => f[s] = g[s])
    PROVE  Visited(a, g, n)
<1>1. Upto(f, n) = Upto(g, n) /\ \A s \in Upto(f, n) : f[s] = g[s]
  BY DEF Upto, IsReplies
<1>2. PartialTotal(f)[n] = PartialTotal(g)[n]
  <2>1. \A s \in Nat : s <= n =>
           (s \in DOMAIN f <=> s \in DOMAIN g) /\ (s \in DOMAIN f => f[s] = g[s])
    BY DEF IsReplies
  <2>2. (\A s \in DOMAIN f : f[s] \in Nat) /\ (\A s \in DOMAIN g : g[s] \in Nat)
    BY RepliesFinite
  <2> QED
    BY <2>1, <2>2, PartialTotalSame
<1> QED
  BY <1>1, <1>2 DEF Visited

\* What is stored when all replies of a path are visited.
LEMMA VisitedDescribes ==
    ASSUME NEW f, IsReplies(f), DOMAIN f # {}, NEW a, NEW n \in 0..PingReq, Visited(a, f, n),
           \A s \in DOMAIN f : s <= n
    PROVE  /\ Describes(Aggregate(a), f) /\ Aggregate(a).avg \in Int
           /\ Aggregate(a).metric1 = Aggregate(a).min + Aggregate(a).min * Aggregate(a).lost
           /\ DOMAIN Aggregate(a) = {"avg", "lost", "min", "max", "metric1", "stddev", "mediana"}
<1> DEFINE c == Cardinality(DOMAIN f)
           b == Aggregate(a)
<1>1. Upto(f, n) = DOMAIN f
  BY DEF Upto
<1>2. c \in Nat \ {0} /\ a.cnt_rtt = c /\ a.alive = c
  <2>1. IsFiniteSet(DOMAIN f) /\ c \in Nat
    BY RepliesFinite
  <2>2. c # 0
    BY <2>1, FS_EmptySet
  <2> QED
    BY <1>1, <2>1, <2>2 DEF Visited
<1>3. /\ b.avg = CeilDiv(a.curr_rtt, 10 * a.cnt_rtt) /\ b.lost = PingReq - a.alive
      /\ b.min = a.m_rtt /\ b.max = a.max_rtt
      /\ b.metric1 = a.m_rtt + a.m_rtt * (PingReq - a.alive)
      /\ DOMAIN b = {"avg", "lost", "min", "max", "metric1", "stddev", "mediana"}
  BY DEF Aggregate
<1>4. a.curr_rtt = Total(f) /\ a.curr_rtt \in Nat
  <2>1. \A s \in DOMAIN f : f[s] \in Nat /\ s \in Nat
    BY RepliesFinite
  <2>2. \A s \in DOMAIN f : ~(n < s /\ s <= PingReq)
    BY <2>1
  <2>3. n \in Nat /\ PingReq \in Nat /\ n <= PingReq
    BY StatsAssumption
  <2>4. PartialTotal(f)[PingReq] = PartialTotal(f)[n]
    BY <2>1, <2>2, <2>3, PartialTotalGap
  <2>5. PartialTotal(f)[n] \in Nat
    BY <2>1, <2>3, PartialTotalDef
  <2> QED
    BY <2>4, <2>5 DEF Total, Visited
<1>5. b.avg \in Int /\ 10 * b.avg * c >= Total(f) /\ 10 * (b.avg - 1) * c < Total(f)
  <2> DEFINE k == 10 * c
             v == CeilDiv(a.curr_rtt, k)
  <2>1. k \in Nat \ {0}
    BY <1>2
  <2>2. v \in Int /\ k * v >= a.curr_rtt /\ k * (v - 1) < a.curr_rtt
    <3> HIDE DEF k
    <3> QED
      BY <1>4, <2>1, CeilDivBounds
  <2>3. b.avg = v
    BY <1>2, <1>3
  <2> HIDE DEF v, b, c
  <2>4. c \in Int /\ v \in Int
    BY <1>2, <2>2
  <2>5. 10 * v * c = k * v /\ 10 * (v - 1) * c = k * (v - 1)
    BY <2>4
  <2> QED
    BY <1>4, <2>2, <2>3, <2>5
<1>6. \A s \in DOMAIN f : f[s] \in Nat
  BY RepliesFinite
<1>7. b.min = Min(Values(f) \cup {RttCap})
  <2> DEFINE S == Values(f) \cup {RttCap}
  <2>1. S \subseteq Nat /\ a.m_rtt \in S /\ \A x \in S : a.m_rtt <= x
    BY <1>1, <1>6, StatsAssumption DEF Values, Visited
  <2> HIDE DEF S
  <2>2. Min(S) \in S /\ Min(S) <= a.m_rtt
    BY <2>1, MinFirst
  <2>3. Min(S) \in Nat /\ a.m_rtt \in Nat /\ a.m_rtt <= Min(S)
    BY <2>1, <2>2
  <2>4. Min(S) = a.m_rtt
    BY <2>2, <2>3
  <2> QED
    BY <1>3, <2>4 DEF S
<1>8. b.max = Max(Values(f))
  <2>1. Values(f) \subseteq Nat /\ \A x \in Values(f) : x <= a.max_rtt
    BY <1>1, <1>6 DEF Values, Visited
  <2>2. a.max_rtt \in Values(f)
    <3>1. CASE a.max_rtt = 0
      <4>1. PICK s \in DOMAIN f : TRUE
        OBVIOUS
      <4>2. f[s] \in Nat /\ f[s] <= 0
        BY <1>1, <1>6, <3>1, <4>1 DEF Visited
      <4>3. f[s] = 0
        BY <4>2
      <4> QED
        BY <3>1, <4>3 DEF Values
    <3>2. CASE \E s \in DOMAIN f : a.max_rtt = f[s]
      BY <3>2 DEF Values
    <3> QED
      BY <1>1, <3>1, <3>2 DEF Visited
  <2>3. Max(Values(f)) = a.max_rtt
    BY <2>1, <2>2, MaxIs
  <2> QED
    BY <1>3, <2>3
<1> HIDE DEF b
<1>9. Describes(b, f)
  BY <1>2, <1>3, <1>5, <1>7, <1>8 DEF Describes
<1>10. b.metric1 = b.min + b.min * b.lost
  BY <1>3
<1> QED
  BY <1>3, <1>5, <1>9, <1>10 DEF b


----------------------------------------------------------------------------
(***************************************************************************)
(* The steps.                                                              *)
(***************************************************************************)

\* Between a path and the next nobody has answered.
LEMMA NextPathIs ==
    ASSUME NEW k \in Nat, k < End, NEW smp
    PROVE  /\ NextPath(k, smp) \in 1..End /\ NextPath(k, smp) > k
           /\ NextPath(k, smp) # End => DOMAIN smp[NextPath(k, smp)] # {}
           /\ \A q \in Path : k < q /\ q < NextPath(k, smp) => DOMAIN smp[q] = {}
<1> DEFINE S == {q \in Path : q > k /\ DOMAIN smp[q] # {}} \cup {End}
<1>1. S \subseteq 1..End /\ S \subseteq Nat /\ \A q \in S : q > k
  BY StatsAssumption DEF Path, End
<1>2. Min(S) \in S /\ \A q \in S : Min(S) <= q
  <2>1. S # {}
    OBVIOUS
  <2> HIDE DEF S
  <2> QED
    BY <1>1, <2>1, MinFirst
<1>3. NextPath(k, smp) = Min(S)
  BY DEF NextPath
<1> DEFINE m == Min(S)
<1> HIDE DEF m
<1>4. m \in 1..End /\ m > k /\ (m # End => DOMAIN smp[m] # {})
  BY <1>1, <1>2 DEF m
<1>5. ASSUME NEW q \in Path, k < q, q < m PROVE DOMAIN smp[q] = {}
  <2>1. q \notin S
    <3>1. q \in S => m <= q
      BY <1>2 DEF m
    <3>2. q \in Nat /\ m \in Nat
      BY <1>4, StatsAssumption DEF Path, End
    <3> QED
      BY <1>5, <3>1, <3>2
  <2> QED
    BY <1>5, <2>1
<1> QED
  BY <1>3, <1>4, <1>5 DEF m

\* The next reply to visit.
LEMMA RestIs ==
    ASSUME StatsType, path # End, Rest # {}
    PROVE  /\ Min(Rest) \in DOMAIN samples[path] /\ Min(Rest) > seq
           /\ \A s \in DOMAIN samples[path] : ~(seq < s /\ s < Min(Rest))
           /\ Min(Rest) \in 0..PingReq /\ path \in Path
<1>1. path \in Path
  BY StatsAssumption DEF StatsType, Path, End
<1>2. Rest \subseteq 1..PingReq /\ Rest \subseteq Nat
  BY <1>1 DEF Rest, StatsType, IsReplies
<1>3. Min(Rest) \in Rest /\ \A s \in Rest : Min(Rest) <= s
  <2> HIDE DEF Rest
  <2> QED
    BY <1>2, MinFirst
<1> DEFINE m == Min(Rest)
<1> HIDE DEF m
<1>4. m \in DOMAIN samples[path] /\ m > seq /\ m \in 1..PingReq
  BY <1>2, <1>3 DEF Rest, m
<1>5. ASSUME NEW s \in DOMAIN samples[path], seq < s, s < m PROVE FALSE
  <2>1. s \in Rest
    BY <1>5 DEF Rest, StatsType
  <2>2. m <= s /\ s \in Nat /\ m \in Nat
    BY <1>2, <1>3, <2>1 DEF m
  <2> QED
    BY <1>5, <2>2
<1> QED
  BY <1>1, <1>4, <1>5 DEF m

\* The passes start in the invariant.
LEMMA InitSInv == Init => SInv
<1> SUFFICES ASSUME Init PROVE SInv
  OBVIOUS
<1>1. /\ samples \in [Path -> Replies] /\ start = samples /\ pass = "avg"
      /\ path = NextPath(0, samples) /\ seq = 0 /\ DOMAIN agg = {} /\ acc = acc0
  BY DEF Init
<1>2. late = FALSE
  BY DEF Init
<1>3. \A p \in Path : IsReplies(samples[p])
  BY <1>1 DEF Replies, IsReplies
<1>4. /\ path \in 1..End /\ (path # End => DOMAIN samples[path] # {})
      /\ \A q \in Path : q < path => DOMAIN samples[q] = {}
  <2>1. 0 \in Nat /\ 0 < End /\ \A q \in Path : 0 < q
    BY StatsAssumption DEF End, Path
  <2> QED
    BY <1>1, <2>1, NextPathIs
<1>5. StatsType
  <2>1. late \in BOOLEAN
    BY Zenon, <1>2
  <2>2. seq \in 0..PingReq
    BY <1>1, StatsAssumption
  <2>3. DOMAIN samples = Path /\ DOMAIN start = Path
    BY <1>1
  <2> QED
    BY <1>1, <1>3, <1>4, <2>1, <2>2, <2>3 DEF StatsType
<1>6. GrownInv /\ CoveredInv
  BY <1>1, <1>4 DEF GrownInv, CoveredInv
<1>7. AccumulatedInv
  <2> SUFFICES ASSUME path # End
               PROVE  /\ DOMAIN samples[path] # {} /\ Visited(acc, samples[path], seq)
                      /\ SameRest(samples[path], samples[path])
    BY DEF AccumulatedInv
  <2>1. path \in Path
    BY <1>4, StatsAssumption DEF Path, End
  <2> QED
    BY <1>1, <1>3, <1>4, <2>1, VisitedStart DEF SameRest
<1>8. AggregateIsSnapshot /\ MetricInv
  BY <1>1 DEF AggregateIsSnapshot, MetricInv
<1> QED
  BY <1>5, <1>6, <1>7, <1>8 DEF SInv

\* pfr_calc_avg_rtt visits a reply.
LEMMA AvgSampleInv == SInv /\ AvgSample => SInv'
<1> SUFFICES ASSUME SInv, AvgSample PROVE SInv'
  OBVIOUS
<1> DEFINE m == Min(Rest)
           smp == samples[path]
<1>1. /\ pass = "avg" /\ path # End /\ Rest # {} /\ seq' = m
      /\ acc' = [curr_rtt |-> acc.curr_rtt + smp[m], cnt_rtt |-> acc.cnt_rtt + 1,
                 alive |-> acc.alive + 1, m_rtt |-> Min({acc.m_rtt, smp[m]}),
                 max_rtt |-> Max({acc.max_rtt, smp[m]})]
      /\ UNCHANGED <<pass, path, samples, agg, late, start>>
  BY DEF AvgSample
<1>2. /\ m \in DOMAIN smp /\ m > seq /\ \A s \in DOMAIN smp : ~(seq < s /\ s < m)
      /\ m \in 0..PingReq /\ path \in Path
  BY <1>1, RestIs DEF SInv
<1> HIDE DEF m
<1>3. StatsType' /\ GrownInv' /\ CoveredInv' /\ AggregateIsSnapshot' /\ MetricInv'
  BY <1>1, <1>2 DEF SInv, StatsType, GrownInv, CoveredInv, AggregateIsSnapshot, MetricInv
<1>4. AccumulatedInv'
  <2>1. PICK f \in {start[path], samples[path]} :
              DOMAIN f # {} /\ Visited(acc, f, seq) /\ SameRest(f, smp)
    BY <1>1 DEF SInv, AccumulatedInv
  <2>2. IsReplies(f) /\ IsReplies(smp) /\ seq \in Nat
    BY <1>2 DEF SInv, StatsType
  <2>3. \A s \in 1..PingReq : s > seq =>
            (s \in DOMAIN f <=> s \in DOMAIN smp) /\ (s \in DOMAIN f => f[s] = smp[s])
    BY <2>1 DEF SameRest
  <2>4. /\ m \in DOMAIN f /\ f[m] = smp[m] /\ m > seq
        /\ \A s \in DOMAIN f : ~(seq < s /\ s < m)
    BY <1>2, <2>2, <2>3 DEF IsReplies
  <2>5. Visited(acc', f, m)
    BY <1>1, <2>1, <2>2, <2>4, VisitedNext
  <2>6. SameRest(f, smp)'
    <3>1. \A s \in 1..PingReq : s > m => s > seq
      BY <1>2, <2>2
    <3>2. UNCHANGED <<f, smp>>
      BY <1>1, <2>1
    <3> QED
      BY <1>1, <2>3, <3>1, <3>2 DEF SameRest
  <2> QED
    BY <1>1, <2>1, <2>5, <2>6 DEF AccumulatedInv
<1> QED
  BY <1>3, <1>4 DEF SInv

\* pfr_calc_avg_rtt stores an aggregate.
LEMMA AvgPathInv == SInv /\ AvgPath => SInv'
<1> SUFFICES ASSUME SInv, AvgPath PROVE SInv'
  OBVIOUS
<1> DEFINE b == Aggregate(acc)
<1>1. /\ pass = "avg" /\ path # End /\ Rest = {} /\ seq' = 0 /\ acc' = acc0
      /\ path' = NextPath(path, samples)
      /\ UNCHANGED <<pass, samples, late, start>>
  BY DEF AvgPath
<1>2. /\ DOMAIN agg' = DOMAIN agg \cup {path} /\ agg'[path] = b
      /\ \A p \in DOMAIN agg : p # path => agg'[p] = agg[p]
  <2> HIDE DEF b
  <2> QED
    BY DEF AvgPath, b
<1>3. path \in Path /\ path \in Nat /\ path < End
  BY <1>1, StatsAssumption DEF SInv, StatsType, Path, End
<1>4. PICK f \in {start[path], samples[path]} :
            DOMAIN f # {} /\ Visited(acc, f, seq) /\ SameRest(f, samples[path])
  BY <1>1 DEF SInv, AccumulatedInv
<1>5. /\ Describes(b, f) /\ b.avg \in Int /\ b.metric1 = b.min + b.min * b.lost
      /\ DOMAIN b = {"avg", "lost", "min", "max", "metric1", "stddev", "mediana"}
  <2>1. IsReplies(f) /\ seq \in 0..PingReq
    BY <1>3, <1>4 DEF SInv, StatsType
  <2>2. \A s \in DOMAIN f : s <= seq
    BY <1>1, <1>4, <2>1 DEF SameRest, Rest, IsReplies
  <2> HIDE DEF b
  <2> QED
    BY <1>4, <2>1, <2>2, VisitedDescribes DEF b
<1> HIDE DEF b
<1>6. /\ path' \in 1..End /\ path' > path /\ (path' # End => DOMAIN samples[path'] # {})
      /\ \A q \in Path : path < q /\ q < path' => DOMAIN samples[q] = {}
  BY <1>1, <1>3, NextPathIs
<1>7. StatsType'
  BY <1>1, <1>2, <1>3, <1>5, <1>6, StatsAssumption DEF SInv, StatsType
<1>8. GrownInv'
  BY <1>1 DEF SInv, GrownInv
<1>9. CoveredInv'
  <2>1. ASSUME NEW q \in Path, DOMAIN start[q] # {}, q < path' PROVE q \in DOMAIN agg'
    <3>1. DOMAIN samples[q] # {}
      BY <2>1 DEF SInv, GrownInv
    <3>2. q \in Nat /\ path \in Nat /\ ~(path < q)
      BY <1>3, <1>6, <2>1, <3>1 DEF Path
    <3>3. CASE q < path
      BY <1>1, <1>2, <2>1, <3>3 DEF SInv, CoveredInv
    <3>4. CASE q = path
      BY <1>2, <3>4
    <3> QED
      BY <3>2, <3>3, <3>4
  <2> QED
    BY <1>1, <1>6, <2>1 DEF CoveredInv
<1>10. AccumulatedInv'
  <2> SUFFICES ASSUME path' # End
               PROVE  DOMAIN samples[path'] # {} /\ Visited(acc0, samples[path'], 0)
    BY <1>1 DEF AccumulatedInv, SameRest
  <2>1. path' \in Path
    BY <1>6, StatsAssumption DEF Path, End
  <2> QED
    BY <1>6, <2>1, VisitedStart DEF SInv, StatsType
<1>11. AggregateIsSnapshot'
  <2>1. Describes(b, start[path]) \/ Describes(b, samples[path])
    BY <1>4, <1>5
  <2> QED
    BY <1>1, <1>2, <2>1 DEF SInv, AggregateIsSnapshot
<1>12. MetricInv'
  BY <1>2, <1>5 DEF SInv, MetricInv
<1> QED
  BY <1>7, <1>8, <1>9, <1>10, <1>11, <1>12 DEF SInv


\* The second pass leaves what the first one has stored.
LEMMA DevInv ==
    SInv /\ (AvgDone \/ DevNull \/ DevSample \/ DevPath \/ DevDone) => SInv'
<1> SUFFICES ASSUME SInv, AvgDone \/ DevNull \/ DevSample \/ DevPath \/ DevDone PROVE SInv'
  OBVIOUS
<1>1. pass' # "avg" /\ UNCHANGED <<samples, start, late>>
  BY DEF AvgDone, DevNull, DevSample, DevPath, DevDone
<1>2. /\ DOMAIN agg' = DOMAIN agg
      /\ \A p \in DOMAIN agg :
            /\ DOMAIN agg'[p] = DOMAIN agg[p]
            /\ agg'[p].avg = agg[p].avg /\ agg'[p].lost = agg[p].lost /\ agg'[p].min = agg[p].min
            /\ agg'[p].max = agg[p].max /\ agg'[p].metric1 = agg[p].metric1
  <2>1. CASE UNCHANGED agg
    BY <2>1
  <2>2. CASE DevPath
    <3>1. PICK x, y : agg' = [agg EXCEPT ![path].stddev = x, ![path].mediana = y]
      BY <2>2 DEF DevPath
    <3> QED
      BY <3>1 DEF SInv, StatsType
  <2> QED
    BY <2>1, <2>2 DEF AvgDone, DevNull, DevSample, DevDone
<1>3. /\ path' \in 1..End /\ seq' \in 0..PingReq
      /\ pass' \in {"stddev", "dead"} /\ path' # End => DOMAIN samples[path'] # {}
      /\ pass' = "dead" => path' \in Path \ DOMAIN agg
      /\ pass # "avg" \/ path = End
  <2>1. 0 \in Nat /\ 0 < End /\ 0 \in 0..PingReq
    BY StatsAssumption DEF End
  <2>2. CASE AvgDone
    <3>1. path' = NextPath(0, samples) /\ path = End /\ UNCHANGED seq /\ pass' = "stddev"
      BY <2>2 DEF AvgDone
    <3> QED
      BY <2>1, <3>1, NextPathIs DEF SInv, StatsType
  <2>3. CASE DevNull
    <3>1. path \in Path
      BY <2>3, StatsAssumption DEF DevNull, SInv, StatsType, Path, End
    <3> QED
      BY <2>3, <3>1 DEF DevNull, SInv, StatsType, CoveredInv
  <2>4. path \in DOMAIN agg => path \in Path /\ path \in Nat /\ path < End /\ path # End
    BY StatsAssumption DEF SInv, StatsType, Path, End
  <2>5. CASE DevSample
    BY <2>4, <2>5, RestIs DEF DevSample, SInv, StatsType, CoveredInv
  <2>6. CASE DevPath
    <3>1. path' = NextPath(path, samples) /\ seq' = 0 /\ pass' = "stddev" /\ pass = "stddev"
      BY <2>6 DEF DevPath
    <3>2. path \in Nat /\ path < End
      BY <2>4, <2>6 DEF DevPath
    <3> QED
      BY <2>1, <3>1, <3>2, NextPathIs
  <2>7. CASE DevDone
    BY <2>7 DEF DevDone, SInv, StatsType
  <2> QED
    BY <2>2, <2>3, <2>5, <2>6, <2>7
<1>4. StatsType'
  BY <1>1, <1>2, <1>3 DEF SInv, StatsType
<1>5. GrownInv'
  BY <1>1 DEF SInv, GrownInv
<1>6. CoveredInv'
  <2>1. \A p \in Path : pass = "avg" => p < path
    BY <1>3, StatsAssumption DEF Path, End
  <2> QED
    BY <1>1, <1>2, <1>3, <2>1 DEF SInv, CoveredInv
<1>7. AccumulatedInv'
  BY <1>1 DEF AccumulatedInv
<1>8. AggregateIsSnapshot' /\ MetricInv'
  BY <1>1, <1>2 DEF SInv, AggregateIsSnapshot, MetricInv, Describes
<1> QED
  BY <1>4, <1>5, <1>6, <1>7, <1>8 DEF SInv

\* The late reply.
LEMMA LateInv ==
    ASSUME SInv, NEW p \in Path, NEW s \in 1..PingReq, NEW x \in Rtt, LateReply(p, s, x)
    PROVE  SInv'
<1> DEFINE g == [t \in DOMAIN samples[p] \cup {s} |-> IF t = s THEN x ELSE samples[p][t]]
<1>1. /\ ~late /\ late' = TRUE /\ samples = start /\ s \notin DOMAIN samples[p]
      /\ UNCHANGED <<pass, path, seq, agg, acc, start>>
      /\ pass \in {"avg", "stddev"}
  BY DEF LateReply, SInv, GrownInv
<1>2. /\ DOMAIN samples' = Path /\ samples'[p] = g
      /\ \A q \in Path : q # p => samples'[q] = samples[q]
  <2> HIDE DEF g
  <2> QED
    BY DEF LateReply, SInv, StatsType, g
<1>3. /\ DOMAIN g = DOMAIN samples[p] \cup {s} /\ g[s] = x
      /\ \A t \in DOMAIN samples[p] : g[t] = samples[p][t]
  BY <1>1
<1> HIDE DEF g
<1>4. \A q \in Path : IsReplies(samples[q]) /\ IsReplies(start[q])
  BY DEF SInv, StatsType
<1>5. IsReplies(g)
  BY <1>3, <1>4 DEF IsReplies
<1>6. StatsType'
  <2>1. late' \in BOOLEAN
    BY Zenon, <1>1
  <2>2. \A q \in Path : IsReplies(samples'[q])
    BY <1>2, <1>4, <1>5
  <2> QED
    BY <1>1, <1>2, <2>1, <2>2 DEF SInv, StatsType, IsReplies
<1>7. GrownInv'
  BY <1>1, <1>2, <1>3 DEF SInv, GrownInv
<1>8. CoveredInv'
  <2>1. \A q \in Path : DOMAIN samples[q] # {} => DOMAIN samples'[q] # {}
    BY <1>2, <1>3
  <2>2. path \in Path \/ path = End
    BY StatsAssumption DEF SInv, StatsType, Path, End
  <2> QED
    BY <1>1, <2>1, <2>2 DEF SInv, CoveredInv
<1>9. AccumulatedInv'
  <2> SUFFICES ASSUME pass = "avg", path # End
               PROVE  \E f \in {start[path], samples'[path]} :
                          DOMAIN f # {} /\ Visited(acc, f, seq) /\ SameRest(f, samples'[path])
    BY <1>1 DEF AccumulatedInv, SameRest
  <2>1. /\ DOMAIN samples[path] # {} /\ Visited(acc, samples[path], seq)
        /\ path \in Path /\ seq \in Nat
    BY <1>1, StatsAssumption DEF SInv, AccumulatedInv, StatsType, Path, End
  <2>2. CASE path # p
    BY <1>1, <1>2, <2>1, <2>2 DEF SameRest
  <2>3. CASE path = p /\ s > seq
    <3>1. Visited(acc, g, seq)
      BY <1>3, <1>4, <1>5, <2>1, <2>3, VisitedSame
    <3> QED
      BY <1>2, <1>3, <2>3, <3>1 DEF SameRest
  <2>4. CASE path = p /\ ~(s > seq)
    <3>1. SameRest(start[path], g)
      BY <1>1, <1>3, <2>4 DEF SameRest
    <3> QED
      BY <1>1, <1>2, <2>1, <2>4, <3>1
  <2> QED
    BY <2>2, <2>3, <2>4
<1>10. AggregateIsSnapshot' /\ MetricInv'
  BY <1>1 DEF SInv, AggregateIsSnapshot, MetricInv
<1> QED
  BY <1>6, <1>7, <1>8, <1>9, <1>10 DEF SInv

\* The invariant holds in every reachable state.
LEMMA StatsInv == Spec => []SInv
<1>1. SInv /\ [Next]_vars => SInv'
  <2> SUFFICES ASSUME SInv, [Next]_vars PROVE SInv'
    OBVIOUS
  <2>1. CASE UNCHANGED vars
    BY <2>1 DEF vars, SInv, StatsType, GrownInv, CoveredInv, AccumulatedInv, SameRest,
       AggregateIsSnapshot, MetricInv
  <2> QED
    BY <2>1, AvgSampleInv, AvgPathInv, DevInv, LateInv DEF Next, Receive, Finished
<1> QED
  BY <1>1, InitSInv, PTL DEF Spec

\* Every aggregate describes the replies of its own path at one time, whatever path
\* the accumulators were used for before.
THEOREM SnapshotCorrect == Spec => []AggregateIsSnapshot
<1>1. SInv => AggregateIsSnapshot
  BY DEF SInv
<1> QED
  BY <1>1, StatsInv, PTL

\* pfr_calc_stddev_rtt dereferences NULL only for a path whose first reply is late.
THEOREM NullCorrect == Spec => []NullNeedsNewPath
<1>1. SInv => NullNeedsNewPath
  <2> SUFFICES ASSUME SInv, pass = "dead"
               PROVE  late /\ start[path] # samples[path] /\ DOMAIN start[path] = {}
    BY DEF NullNeedsNewPath
  <2>1. path \in Path \ DOMAIN agg /\ path # End
    BY StatsAssumption DEF SInv, CoveredInv, Path, End
  <2>2. DOMAIN start[path] = {} /\ DOMAIN samples[path] # {}
    BY <2>1 DEF SInv, CoveredInv
  <2>3. start[path] # samples[path] /\ samples # start
    BY <2>2
  <2> QED
    BY <2>2, <2>3 DEF SInv, GrownInv
<1> QED
  BY <1>1, StatsInv, PTL

\* Two paths, of which the second has answered all that the first has, and as fast.
LEMMA FasterIsBetter ==
    ASSUME NEW f, IsReplies(f), NEW g, IsReplies(g), NEW a, Describes(a, f), NEW b, Describes(b, g),
           \A s \in DOMAIN f : s \in DOMAIN g /\ g[s] <= f[s]
    PROVE  b.min + b.min * b.lost <= a.min + a.min * a.lost
<1>1. /\ a.lost \in Nat /\ b.lost \in Nat /\ b.lost <= a.lost
  <2>1. DOMAIN f \subseteq DOMAIN g
    OBVIOUS
  <2>2. IsFiniteSet(DOMAIN g) /\ Cardinality(DOMAIN g) \in Nat /\ Cardinality(DOMAIN g) <= PingReq
    BY RepliesFinite
  <2>3. Cardinality(DOMAIN f) <= Cardinality(DOMAIN g) /\ Cardinality(DOMAIN f) \in Nat
    BY <2>1, <2>2, FS_Subset, FS_CardinalityType
  <2> QED
    BY <2>2, <2>3, StatsAssumption DEF Describes
<1>2. /\ a.min \in Nat /\ b.min \in Nat /\ b.min <= a.min
  <2> DEFINE S == Values(f) \cup {RttCap}
             T == Values(g) \cup {RttCap}
  <2>1. S \subseteq Nat /\ T \subseteq Nat /\ S # {} /\ T # {}
    BY RepliesFinite, StatsAssumption DEF Values
  <2>2. \A x \in S : \E y \in T : y <= x
    BY StatsAssumption DEF Values
  <2>3. a.min = Min(S) /\ b.min = Min(T)
    BY DEF Describes
  <2> HIDE DEF S, T
  <2>4. Min(S) \in S /\ Min(T) \in T /\ \A y \in T : Min(T) <= y
    BY <2>1, MinFirst
  <2>5. PICK y \in T : y <= Min(S)
    BY <2>2, <2>4
  <2>6. y \in Nat /\ Min(S) \in Nat /\ Min(T) \in Nat /\ Min(T) <= y
    BY <2>1, <2>4
  <2> QED
    BY <2>3, <2>5, <2>6
<1> DEFINE k == a.min
           l == b.min
           u == a.lost
           v == b.lost
<1> HIDE DEF k, l, u, v
<1>3. k \in Nat /\ l \in Nat /\ u \in Nat /\ v \in Nat /\ l <= k /\ v <= u
  BY <1>1, <1>2 DEF k, l, u, v
<1>4. l * v <= k * v
  BY <1>3
<1>5. k * v <= k * u
  BY <1>3
<1>6. l + l * v <= k + k * u
  BY <1>3, <1>4, <1>5
<1> QED
  BY <1>6 DEF k, l, u, v

\* An additional or a faster reply never makes metric1 of a path worse.
THEOREM MoreRepliesCorrect == Spec => []MoreRepliesNeverHurt
<1>1. SInv => MoreRepliesNeverHurt
  <2> SUFFICES ASSUME SInv, ~late, NEW p \in DOMAIN agg, NEW q \in DOMAIN agg,
                      \A s \in DOMAIN samples[p] :
                          s \in DOMAIN samples[q] /\ samples[q][s] <= samples[p][s]
               PROVE  agg[q].metric1 <= agg[p].metric1
    BY DEF MoreRepliesNeverHurt
  <2>1. p \in Path /\ q \in Path /\ samples = start
    BY DEF SInv, StatsType, GrownInv
  <2>2. Describes(agg[p], samples[p]) /\ Describes(agg[q], samples[q])
    BY <2>1 DEF SInv, AggregateIsSnapshot
  <2>3. IsReplies(samples[p]) /\ IsReplies(samples[q])
    BY <2>1 DEF SInv, StatsType
  <2>4. agg[q].min + agg[q].min * agg[q].lost <= agg[p].min + agg[p].min * agg[p].lost
    BY <2>2, <2>3, FasterIsBetter
  <2> QED
    BY <2>4 DEF SInv, MetricInv
<1> QED
  BY <1>1, StatsInv, PTL

(***************************************************************************)
(* Sorting, and counting what is sorted.                                   *)
(***************************************************************************)

\* p puts v, with indices 1..n, in ascending order.
Ascending(v, n, p) == \A i, j \in 1..n : i < j => v[p[i]] <= v[p[j]]

\* One of several numbers is the greatest.
LEMMA GreatestExists ==
    ASSUME NEW m \in Nat, NEW u \in [1..m + 1 -> Nat]
    PROVE  \E l \in 1..m + 1 : \A i \in 1..m + 1 : u[i] <= u[l]
<1> DEFINE Good == {n \in Nat : n <= m => \E l \in 1..n + 1 : \A i \in 1..n + 1 : u[i] <= u[l]}
<1>1. 0 \in Good
  <2>1. 1 \in 1..0 + 1 /\ \A i \in 1..0 + 1 : u[i] <= u[1]
    OBVIOUS
  <2> QED
    BY <2>1
<1>2. ASSUME NEW n \in Nat, n \in Good PROVE n + 1 \in Good
  <2> SUFFICES ASSUME n + 1 <= m
               PROVE  \E l \in 1..(n + 1) + 1 : \A i \in 1..(n + 1) + 1 : u[i] <= u[l]
    OBVIOUS
  <2>1. PICK l \in 1..n + 1 : \A i \in 1..n + 1 : u[i] <= u[l]
    BY <1>2
  <2> DEFINE k == (n + 1) + 1
  <2>2. k \in 1..k /\ l \in 1..k /\ \A i \in 1..k : i = k \/ i \in 1..n + 1
    OBVIOUS
  <2>3. u[k] \in Nat /\ \A i \in 1..n + 1 : u[i] \in Nat
    OBVIOUS
  <2> HIDE DEF k
  <2>4. CASE u[k] <= u[l]
    BY <2>1, <2>2, <2>4 DEF k
  <2>5. CASE u[l] <= u[k]
    <3>1. \A i \in 1..n + 1 : u[i] <= u[k]
      BY <2>1, <2>3, <2>5
    <3>2. \A i \in 1..k : u[i] <= u[k]
      BY <2>2, <2>3, <3>1
    <3> QED
      BY <2>2, <3>2 DEF k
  <2> QED
    BY <2>3, <2>4, <2>5
<1>3. Nat \subseteq Good
  <2> HIDE DEF Good
  <2> QED
    BY <1>1, <1>2, NatInd
<1>4. m \in Good /\ m <= m
  <2> HIDE DEF Good
  <2> QED
    BY <1>3
<1> QED
  BY <1>4

\* Every sequence can be sorted: the greatest element goes to the end, and the last one
\* takes its place among those that are still to be sorted.
LEMMA SortExists ==
    ASSUME NEW m \in Nat, NEW u \in [1..m -> Nat]
    PROVE  \E p \in Bijection(1..m, 1..m) : Ascending(u, m, p)
<1> DEFINE Good == {n \in Nat : \A v \in [1..n -> Nat] :
                        \E p \in Bijection(1..n, 1..n) : Ascending(v, n, p)}
<1>1. 0 \in Good
  <2> SUFFICES ASSUME NEW v \in [1..0 -> Nat]
               PROVE  \E p \in Bijection(1..0, 1..0) : Ascending(v, 0, p)
    OBVIOUS
  <2> DEFINE p == [i \in 1..0 |-> i]
  <2>1. p \in Bijection(1..0, 1..0) /\ Ascending(v, 0, p)
    BY DEF Bijection, Injection, IsInjective, Surjection, Ascending
  <2> QED
    BY <2>1
<1>2. ASSUME NEW n \in Nat, n \in Good PROVE n + 1 \in Good
  <2> SUFFICES ASSUME NEW v \in [1..n + 1 -> Nat]
               PROVE  \E q \in Bijection(1..n + 1, 1..n + 1) : Ascending(v, n + 1, q)
    OBVIOUS
  <2>1. PICK l \in 1..n + 1 : \A i \in 1..n + 1 : v[i] <= v[l]
    BY GreatestExists
  <2> DEFINE to == [i \in 1..n |-> IF i = l THEN n + 1 ELSE i]
             w == [i \in 1..n |-> v[to[i]]]
  <2>2. /\ \A i \in 1..n : to[i] \in 1..n + 1 /\ to[i] # l
        /\ \A i, j \in 1..n : to[i] = to[j] => i = j
        /\ \A k \in 1..n + 1 : k # l => \E i \in 1..n : to[i] = k
    <3>1. ASSUME NEW k \in 1..n + 1, k # l PROVE \E i \in 1..n : to[i] = k
      <4>1. CASE k = n + 1
        <5>1. l \in 1..n /\ to[l] = k
          BY <3>1, <4>1
        <5> QED
          BY <5>1
      <4>2. CASE k # n + 1
        <5>1. k \in 1..n /\ to[k] = k
          BY <3>1, <4>2
        <5> QED
          BY <5>1
      <4> QED
        BY <4>1, <4>2
    <3> QED
      BY <3>1
  <2>3. w \in [1..n -> Nat] /\ \A i \in 1..n : w[i] = v[to[i]]
    BY <2>2
  <2> HIDE DEF to, w
  <2>4. PICK p \in Bijection(1..n, 1..n) : Ascending(w, n, p)
    BY <1>2, <2>3
  <2>5. /\ \A i \in 1..n : p[i] \in 1..n
        /\ \A i, j \in 1..n : p[i] = p[j] => i = j
        /\ \A k \in 1..n : \E i \in 1..n : p[i] = k
    BY <2>4 DEF Bijection, Injection, IsInjective, Surjection
  <2> DEFINE q == [i \in 1..n + 1 |-> IF i = n + 1 THEN l ELSE to[p[i]]]
  <2>6. /\ n + 1 \in 1..n + 1 /\ n + 1 \notin 1..n /\ 1..n \subseteq 1..n + 1
        /\ \A i \in 1..n + 1 : i = n + 1 \/ i \in 1..n
    OBVIOUS
  <2>7. q[n + 1] = l /\ \A i \in 1..n : q[i] = to[p[i]]
    BY <2>6
  <2>8. q \in [1..n + 1 -> 1..n + 1]
    <3>1. ASSUME NEW k \in 1..n + 1 PROVE q[k] \in 1..n + 1
      BY <2>2, <2>5, <2>6, <2>7
    <3> QED
      BY <3>1
  <2> HIDE DEF q
  <2>9. ASSUME NEW j \in 1..n + 1, NEW k \in 1..n + 1, q[j] = q[k] PROVE j = k
    <3>1. \A i \in 1..n : q[i] # l
      <4> SUFFICES ASSUME NEW i \in 1..n PROVE to[p[i]] # l
        BY <2>7
      <4>1. p[i] \in 1..n
        BY <2>5
      <4> QED
        BY <2>2, <4>1
    <3>2. CASE j \in 1..n /\ k \in 1..n
      <4>1. p[j] \in 1..n /\ p[k] \in 1..n /\ to[p[j]] = to[p[k]]
        BY <2>5, <2>7, <2>9, <3>2
      <4>2. p[j] = p[k]
        BY <2>2, <4>1
      <4> QED
        BY <2>5, <3>2, <4>2
    <3> QED
      BY <2>6, <2>7, <2>9, <3>1, <3>2
  <2>10. ASSUME NEW k \in 1..n + 1 PROVE \E i \in 1..n + 1 : q[i] = k
    <3>1. CASE k = l
      BY <2>6, <2>7, <3>1
    <3>2. CASE k # l
      <4>1. PICK a \in 1..n : to[a] = k
        BY <2>2, <3>2
      <4>2. PICK i \in 1..n : p[i] = a
        BY <2>5
      <4>3. q[i] = k
        BY <2>7, <4>1, <4>2
      <4> QED
        BY <2>6, <4>3
    <3> QED
      BY <3>1, <3>2
  <2>11. Ascending(v, n + 1, q)
    <3> SUFFICES ASSUME NEW j \in 1..n + 1, NEW k \in 1..n + 1, j < k PROVE v[q[j]] <= v[q[k]]
      BY DEF Ascending
    <3>1. CASE k = n + 1
      BY <2>1, <2>7, <2>8, <3>1
    <3>2. CASE k # n + 1
      <4>1. j \in 1..n /\ k \in 1..n
        BY <3>2
      <4>2. w[p[j]] <= w[p[k]]
        BY <2>4, <4>1 DEF Ascending
      <4>3. w[p[j]] = v[q[j]] /\ w[p[k]] = v[q[k]]
        <5>1. p[j] \in 1..n /\ p[k] \in 1..n
          BY <2>5, <4>1
        <5>2. q[j] = to[p[j]] /\ q[k] = to[p[k]]
          BY <2>7, <4>1
        <5>3. w[p[j]] = v[to[p[j]]]
          BY <2>3, <5>1
        <5> QED
          BY <2>3, <5>1, <5>2
      <4> QED
        BY <4>2, <4>3
    <3> QED
      BY <3>1, <3>2
  <2>12. q \in Bijection(1..n + 1, 1..n + 1)
    BY <2>8, <2>9, <2>10 DEF Bijection, Injection, IsInjective, Surjection
  <2> QED
    BY <2>11, <2>12
<1>3. Nat \subseteq Good
  <2> HIDE DEF Good
  <2> QED
    BY <1>1, <1>2, NatInd
<1> QED
  BY <1>3

\* What Sort returns.
LEMMA SortIs ==
    ASSUME NEW v \in Seq(Nat)
    PROVE  \E p \in Bijection(1..Len(v), 1..Len(v)) :
              Ascending(v, Len(v), p) /\ Sort(v) = [i \in 1..Len(v) |-> v[p[i]]]
<1> DEFINE n == Len(v)
           place == CHOOSE p \in Bijection(1..n, 1..n) : \A i, j \in 1..n : i < j => v[p[i]] <= v[p[j]]
<1>1. n \in Nat /\ v \in [1..n -> Nat]
  OBVIOUS
<1>2. \E p \in Bijection(1..n, 1..n) : Ascending(v, n, p)
  <2> HIDE DEF n
  <2> QED
    BY <1>1, SortExists
<1>3. place \in Bijection(1..n, 1..n) /\ Ascending(v, n, place)
  <2> HIDE DEF n
  <2> QED
    BY <1>2 DEF Ascending
<1>4. Sort(v) = [i \in 1..n |-> v[place[i]]]
  BY DEF Sort
<1> HIDE DEF place
<1> QED
  BY <1>3, <1>4

\* A set that h meets only between a and b has at most so many elements.
LEMMA CountBound ==
    ASSUME NEW n \in Nat, NEW S, NEW h \in Bijection(1..n, S), NEW T, T \subseteq S,
           NEW a \in Nat, NEW b \in Nat, a <= b + 1,
           \A i \in 1..n : h[i] \in T => a <= i /\ i <= b
    PROVE  Cardinality(T) <= b - a + 1
<1> DEFINE g == [t \in T |-> CHOOSE i \in 1..n : h[i] = t]
<1>1. \A t \in T : g[t] \in 1..n /\ h[g[t]] = t
  BY DEF Bijection, Surjection
<1> HIDE DEF g
<1>2. \A t \in T : g[t] \in a..b
  BY <1>1
<1>3. g \in [T -> a..b]
  BY <1>2 DEF g
<1>4. g \in Injection(T, a..b)
  BY <1>1, <1>3 DEF Injection, IsInjective
<1>5. IsFiniteSet(a..b) /\ Cardinality(a..b) = IF a > b THEN 0 ELSE b - a + 1
  BY FS_Interval
<1>6. Cardinality(T) <= Cardinality(a..b)
  BY <1>4, <1>5, FS_Injection
<1> QED
  BY <1>5, <1>6

(***************************************************************************)
(* The replies in a list, and their median.                                *)
(***************************************************************************)

\* The sequence v lists the replies of f with the numbers in S, each once.
Listed(v, S, f) ==
    /\ v \in Seq(Nat)
    /\ \E h \in Bijection(1..Len(v), S) : \A i \in 1..Len(v) : v[i] = f[h[i]]

\* Nothing is listed before the first reply.
LEMMA ListedStart == ASSUME NEW f PROVE Listed(<<>>, {}, f)
<1> DEFINE h == [i \in 1..0 |-> i]
<1>1. h \in Bijection(1..0, {})
  BY DEF Bijection, Injection, IsInjective, Surjection
<1>2. <<>> \in Seq(Nat) /\ Len(<<>>) = 0
  OBVIOUS
<1> QED
  BY <1>1, <1>2 DEF Listed

\* The next reply is appended.
LEMMA ListedNext ==
    ASSUME NEW f, NEW v, NEW S, Listed(v, S, f), NEW s, s \notin S, f[s] \in Nat
    PROVE  Listed(Append(v, f[s]), S \cup {s}, f) /\ Len(Append(v, f[s])) = Len(v) + 1
<1> DEFINE w == Append(v, f[s])
           n == Len(v)
<1>1. v \in Seq(Nat) /\ n \in Nat
  BY DEF Listed
<1>2. w \in Seq(Nat) /\ Len(w) = n + 1 /\ w[n + 1] = f[s] /\ \A i \in 1..n : w[i] = v[i]
  BY <1>1
<1>3. PICK h \in Bijection(1..n, S) : \A i \in 1..n : v[i] = f[h[i]]
  BY DEF Listed
<1> HIDE DEF w, n
<1>4. /\ \A i \in 1..n : h[i] \in S
      /\ \A i, j \in 1..n : h[i] = h[j] => i = j
      /\ \A t \in S : \E i \in 1..n : h[i] = t
  BY <1>3 DEF Bijection, Injection, IsInjective, Surjection
<1> DEFINE g == [i \in 1..n + 1 |-> IF i = n + 1 THEN s ELSE h[i]]
<1>5. /\ n + 1 \in 1..n + 1 /\ n + 1 \notin 1..n /\ 1..n \subseteq 1..n + 1
      /\ \A i \in 1..n + 1 : i = n + 1 \/ i \in 1..n
  BY <1>1
<1>6. g[n + 1] = s /\ \A i \in 1..n : g[i] = h[i]
  BY <1>5
<1>7. g \in [1..n + 1 -> S \cup {s}]
  <2>1. ASSUME NEW i \in 1..n + 1 PROVE g[i] \in S \cup {s}
    BY <1>4, <1>5, <1>6
  <2> QED
    BY <2>1
<1> HIDE DEF g
<1>8. ASSUME NEW i \in 1..n + 1, NEW j \in 1..n + 1, g[i] = g[j] PROVE i = j
  <2>1. \A k \in 1..n : g[k] # s
    BY <1>4, <1>6
  <2>2. CASE i \in 1..n /\ j \in 1..n
    BY <1>4, <1>6, <1>8, <2>2
  <2> QED
    BY <1>5, <1>6, <1>8, <2>1, <2>2
<1>9. ASSUME NEW t \in S \cup {s} PROVE \E i \in 1..n + 1 : g[i] = t
  <2>1. CASE t \in S
    <3>1. PICK i \in 1..n : h[i] = t
      BY <1>4, <2>1
    <3> QED
      BY <1>5, <1>6, <3>1
  <2> QED
    BY <1>5, <1>6, <2>1
<1>10. g \in Bijection(1..n + 1, S \cup {s})
  BY <1>7, <1>8, <1>9 DEF Bijection, Injection, IsInjective, Surjection
<1>11. ASSUME NEW i \in 1..n + 1 PROVE w[i] = f[g[i]]
  BY <1>2, <1>3, <1>5, <1>6
<1>12. Listed(w, S \cup {s}, f)
  BY <1>2, <1>10, <1>11 DEF Listed
<1> QED
  BY <1>2, <1>12 DEF w, n

\* Half of the replies at most are above mediana, and half and one below.
LEMMA MedianaIs ==
    ASSUME NEW f, IsReplies(f), NEW v, Listed(v, DOMAIN f, f), v # <<>>
    PROVE  /\ Cardinality(DOMAIN f) = Len(v)
           /\ 2 * Cardinality({s \in DOMAIN f : 2 * f[s] > Mediana(v)}) <= Len(v)
           /\ 2 * Cardinality({s \in DOMAIN f : 2 * f[s] < Mediana(v)}) <= Len(v) + 1
<1> DEFINE n == Len(v)
           x == Sort(v)
           Above(m) == {s \in DOMAIN f : 2 * f[s] > m}
           Below(m) == {s \in DOMAIN f : 2 * f[s] < m}
<1>1. v \in Seq(Nat) /\ n \in Nat \ {0} /\ v \in [1..n -> Nat]
  BY DEF Listed
<1>2. PICK h \in Bijection(1..n, DOMAIN f) : \A i \in 1..n : v[i] = f[h[i]]
  BY DEF Listed
<1>3. PICK p \in Bijection(1..n, 1..n) : Ascending(v, n, p) /\ x = [i \in 1..n |-> v[p[i]]]
  BY <1>1, SortIs
<1> HIDE DEF n, x
<1>4. Cardinality(DOMAIN f) = n
  BY <1>1, <1>2, FS_CountingElements DEF ExistsBijection
<1> DEFINE g == [i \in 1..n |-> h[p[i]]]
<1>5. /\ \A i \in 1..n : h[i] \in DOMAIN f /\ p[i] \in 1..n
      /\ \A i, j \in 1..n : h[i] = h[j] => i = j
      /\ \A i, j \in 1..n : p[i] = p[j] => i = j
      /\ \A t \in DOMAIN f : \E i \in 1..n : h[i] = t
      /\ \A t \in 1..n : \E i \in 1..n : p[i] = t
  BY <1>2, <1>3 DEF Bijection, Injection, IsInjective, Surjection
<1>6. g \in Bijection(1..n, DOMAIN f)
  <2>1. g \in [1..n -> DOMAIN f]
    BY <1>5
  <2>2. \A i \in 1..n : g[i] = h[p[i]]
    OBVIOUS
  <2> HIDE DEF g
  <2>3. ASSUME NEW i \in 1..n, NEW j \in 1..n, g[i] = g[j] PROVE i = j
    <3>1. p[i] \in 1..n /\ p[j] \in 1..n /\ h[p[i]] = h[p[j]]
      BY <1>5, <2>2, <2>3
    <3>2. p[i] = p[j]
      <4>1. \A a, b \in 1..n : h[a] = h[b] => a = b
        BY <1>5
      <4> QED
        BY Zenon, <3>1, <4>1
    <3> QED
      BY <1>5, <3>2
  <2>4. ASSUME NEW t \in DOMAIN f PROVE \E i \in 1..n : g[i] = t
    <3>1. PICK k \in 1..n : h[k] = t
      BY <1>5
    <3>2. PICK i \in 1..n : p[i] = k
      BY <1>5
    <3> QED
      BY <2>2, <3>1, <3>2
  <2> QED
    BY <2>1, <2>3, <2>4 DEF Bijection, Injection, IsInjective, Surjection
<1>7. ASSUME NEW i \in 1..n PROVE x[i] \in Nat /\ x[i] = f[g[i]]
  <2>1. p[i] \in 1..n /\ x[i] = v[p[i]] /\ g[i] = h[p[i]]
    BY <1>3, <1>5
  <2> QED
    BY <1>1, <1>2, <2>1
<1> HIDE DEF g
<1>8. ASSUME NEW i \in 1..n, NEW j \in 1..n, i <= j PROVE x[i] <= x[j]
  <2>1. CASE i = j
    BY <1>7, <2>1
  <2>2. CASE i < j
    <3>1. v[p[i]] <= v[p[j]]
      BY <1>3, <2>2 DEF Ascending
    <3> QED
      BY <1>3, <3>1
  <2> QED
    BY <1>8, <2>1, <2>2
<1>9. ASSUME NEW m \in Nat, NEW k \in Nat, k <= n, \A i \in 1..n : i <= k => 2 * x[i] <= m
      PROVE  Cardinality(Above(m)) <= n - k
  <2>1. ASSUME NEW i \in 1..n, g[i] \in Above(m) PROVE k + 1 <= i /\ i <= n
    <3>1. 2 * x[i] > m
      BY <1>7, <2>1
    <3> QED
      BY <1>7, <1>9, <3>1
  <2>2. k + 1 \in Nat /\ n \in Nat /\ k + 1 <= n + 1 /\ n - (k + 1) + 1 = n - k
    BY <1>1, <1>9
  <2>3. Above(m) \subseteq DOMAIN f
    OBVIOUS
  <2> HIDE DEF Above
  <2>4. Cardinality(Above(m)) <= n - (k + 1) + 1
    BY <1>6, <2>1, <2>2, <2>3, CountBound
  <2> QED
    BY <2>2, <2>4
<1>10. ASSUME NEW m \in Nat, NEW k \in Nat, k <= n, \A i \in 1..n : i > k => 2 * x[i] >= m
       PROVE  Cardinality(Below(m)) <= k
  <2>1. ASSUME NEW i \in 1..n, g[i] \in Below(m) PROVE 1 <= i /\ i <= k
    <3>1. 2 * x[i] < m
      BY <1>7, <2>1
    <3> QED
      BY <1>7, <1>10, <3>1
  <2>2. 1 \in Nat /\ n \in Nat /\ 1 <= k + 1 /\ k - 1 + 1 = k
    BY <1>1, <1>10
  <2>3. Below(m) \subseteq DOMAIN f
    OBVIOUS
  <2> HIDE DEF Below
  <2>4. Cardinality(Below(m)) <= k - 1 + 1
    BY <1>6, <2>1, <2>2, <2>3, CountBound
  <2> QED
    BY <2>2, <2>4
<1> DEFINE c == n \div 2
           m == Mediana(v)
<1>11. \A k \in Nat : IsFiniteSet(Above(k)) /\ IsFiniteSet(Below(k))
                      /\ Cardinality(Above(k)) \in Nat /\ Cardinality(Below(k)) \in Nat
  BY RepliesFinite
<1>12. c \in Nat /\ n \in Nat \ {0} /\ (n % 2 = 0 => n = 2 * c) /\ (n % 2 # 0 => n = 2 * c + 1)
  BY <1>1
<1>13. /\ n = 1 => m = 2 * x[1]
       /\ n # 1 /\ n % 2 # 0 => m = 2 * x[c + 2]
       /\ n # 1 /\ n % 2 = 0 => m = x[c] + x[c + 1]
  BY <1>12 DEF Mediana, n, x
<1> HIDE DEF c, m, Above, Below
<1>14. CASE n = 1
  <2>1. x[1] \in Nat /\ 1 \in 1..n
    BY <1>7, <1>14
  <2>2. m \in Nat /\ \A i \in 1..n : 2 * x[i] <= m /\ 2 * x[i] >= m
    BY <1>13, <1>14, <2>1
  <2>3. Cardinality(Above(m)) <= n - 1
    BY <1>9, <1>14, <2>2
  <2>4. Cardinality(Below(m)) <= 0
    BY <1>10, <1>14, <2>2
  <2>5. 2 * Cardinality(Above(m)) <= n /\ 2 * Cardinality(Below(m)) <= n + 1
    <3>1. Cardinality(Above(m)) \in Nat /\ Cardinality(Below(m)) \in Nat
      BY <1>11, <2>2
    <3> QED
      BY <1>14, <1>12, <2>3, <2>4, <3>1
  <2> QED
    BY <1>4, <2>5 DEF Above, Below, m, n
<1>15. CASE n # 1 /\ n % 2 # 0
  <2>1. c + 2 \in 1..n /\ n = 2 * c + 1
    BY <1>12, <1>15
  <2>2. x[c + 2] \in Nat
    BY <1>7, <2>1
  <2>3. m \in Nat /\ m = 2 * x[c + 2]
    BY <1>13, <1>15, <2>2
  <2>4. ASSUME NEW i \in 1..n
        PROVE  (i <= c + 2 => 2 * x[i] <= m) /\ (i > c + 1 => 2 * x[i] >= m)
    <3>1. x[i] \in Nat
      BY <1>7
    <3>2. (i <= c + 2 => x[i] <= x[c + 2]) /\ (c + 2 <= i => x[c + 2] <= x[i])
      BY <1>8, <2>1
    <3>3. i > c + 1 => c + 2 <= i
      BY <1>12
    <3> QED
      BY <2>2, <2>3, <3>1, <3>2, <3>3
  <2>5. c + 2 \in Nat /\ c + 2 <= n /\ c + 1 \in Nat /\ c + 1 <= n
    BY <1>12, <2>1
  <2>6. Cardinality(Above(m)) <= n - (c + 2)
    BY <1>9, <2>3, <2>4, <2>5
  <2>7. Cardinality(Below(m)) <= c + 1
    BY <1>10, <2>3, <2>4, <2>5
  <2>8. 2 * Cardinality(Above(m)) <= n /\ 2 * Cardinality(Below(m)) <= n + 1
    <3>1. Cardinality(Above(m)) \in Nat /\ Cardinality(Below(m)) \in Nat
      BY <1>11, <2>3
    <3> QED
      BY <1>12, <2>1, <2>6, <2>7, <3>1
  <2> QED
    BY <1>4, <2>8 DEF Above, Below, m, n
<1>16. CASE n # 1 /\ n % 2 = 0
  <2>1. c \in 1..n /\ c + 1 \in 1..n /\ n = 2 * c
    BY <1>12, <1>16
  <2>2. x[c] \in Nat /\ x[c + 1] \in Nat /\ x[c] <= x[c + 1]
    BY <1>7, <1>8, <2>1
  <2>3. m \in Nat /\ m = x[c] + x[c + 1]
    BY <1>13, <1>16, <2>2
  <2>4. ASSUME NEW i \in 1..n
        PROVE  (i <= c => 2 * x[i] <= m) /\ (i > c => 2 * x[i] >= m)
    <3>1. x[i] \in Nat
      BY <1>7
    <3>2. (i <= c => x[i] <= x[c]) /\ (c + 1 <= i => x[c + 1] <= x[i])
      BY <1>8, <2>1
    <3>3. i > c => c + 1 <= i
      BY <1>12
    <3> QED
      BY <2>2, <2>3, <3>1, <3>2, <3>3
  <2>5. c \in Nat /\ c <= n
    BY <1>12, <2>1
  <2>6. Cardinality(Above(m)) <= n - c
    BY <1>9, <2>3, <2>4, <2>5
  <2>7. Cardinality(Below(m)) <= c
    BY <1>10, <2>3, <2>4, <2>5
  <2>8. 2 * Cardinality(Above(m)) <= n /\ 2 * Cardinality(Below(m)) <= n + 1
    <3>1. Cardinality(Above(m)) \in Nat /\ Cardinality(Below(m)) \in Nat
      BY <1>11, <2>3
    <3> QED
      BY <1>12, <2>1, <2>6, <2>7, <3>1
  <2> QED
    BY <1>4, <2>8 DEF Above, Below, m, n
<1> QED
  BY <1>14, <1>15, <1>16

(***************************************************************************)
(* Sums, squares and the deviation.                                        *)
(***************************************************************************)

\* The greatest reply.
LEMMA MaxOfReplies ==
    ASSUME NEW f, IsReplies(f), DOMAIN f # {}
    PROVE  Max(Values(f)) \in Nat /\ \A s \in DOMAIN f : f[s] <= Max(Values(f))
<1> DEFINE n == Cardinality(DOMAIN f)
<1>1. IsFiniteSet(DOMAIN f) /\ \A s \in DOMAIN f : f[s] \in Nat
  BY RepliesFinite
<1>2. n \in Nat \ {0} /\ ExistsBijection(1..n, DOMAIN f)
  BY <1>1, FS_CardinalityType, FS_EmptySet
<1> HIDE DEF n
<1>3. PICK h \in [1..n -> DOMAIN f] : \A s \in DOMAIN f : \E i \in 1..n : h[i] = s
  BY <1>2 DEF ExistsBijection, Bijection, Injection, Surjection
<1> DEFINE u == [i \in 1..n |-> f[h[i]]]
<1>4. n - 1 \in Nat /\ (n - 1) + 1 = n /\ u \in [1..n -> Nat] /\ \A i \in 1..n : u[i] = f[h[i]]
  BY <1>1, <1>2, <1>3
<1> HIDE DEF u
<1>5. PICK l \in 1..n : \A i \in 1..n : u[i] <= u[l]
  <2> DEFINE m == n - 1
  <2>1. m \in Nat /\ m + 1 = n
    BY <1>4
  <2> HIDE DEF m
  <2>2. \E l \in 1..m + 1 : \A i \in 1..m + 1 : u[i] <= u[l]
    BY <1>4, <2>1, GreatestExists
  <2> QED
    BY <2>1, <2>2
<1> DEFINE x == f[h[l]]
<1>6. h[l] \in DOMAIN f /\ x \in Nat /\ u[l] = x
  BY <1>1, <1>3, <1>4
<1> HIDE DEF x
<1>7. ASSUME NEW s \in DOMAIN f PROVE f[s] <= x
  <2>1. PICK i \in 1..n : h[i] = s
    BY <1>3
  <2>2. u[i] = f[s] /\ u[i] <= u[l]
    BY <1>4, <1>5, <2>1
  <2> QED
    BY <1>6, <2>2
<1>8. Values(f) \subseteq Nat /\ x \in Values(f) /\ \A y \in Values(f) : y <= x
  BY <1>1, <1>6, <1>7 DEF Values, x
<1>9. Max(Values(f)) = x
  BY <1>8, MaxIs
<1> QED
  BY <1>6, <1>7, <1>9

\* The sum of the replies lies between so many times the least and the greatest.
LEMMA TotalBounds ==
    ASSUME NEW f, IsReplies(f), NEW lo \in Nat, NEW hi \in Nat,
           \A s \in DOMAIN f : lo <= f[s] /\ f[s] <= hi
    PROVE  /\ Total(f) \in Nat
           /\ lo * Cardinality(DOMAIN f) <= Total(f) /\ Total(f) <= hi * Cardinality(DOMAIN f)
<1> DEFINE t == PartialTotal(f)
           c(k) == Cardinality(Upto(f, k))
           Good == {k \in Nat : lo * c(k) <= t[k] /\ t[k] <= hi * c(k)}
<1>1. \A s \in DOMAIN f : f[s] \in Nat /\ s \in Nat \ {0}
  BY RepliesFinite
<1>2. /\ t \in [Nat -> Nat] /\ t[0] = 0
      /\ \A k \in Nat : t[k + 1] = t[k] + (IF k + 1 \in DOMAIN f THEN f[k + 1] ELSE 0)
  BY <1>1, PartialTotalDef
<1> HIDE DEF t
<1>3. \A k \in Nat : IsFiniteSet(Upto(f, k)) /\ c(k) \in Nat
  BY RepliesFinite DEF Upto
<1>4. 0 \in Good
  <2>1. Upto(f, 0) = {}
    BY <1>1 DEF Upto
  <2>2. c(0) = 0
    BY <2>1, FS_EmptySet
  <2> QED
    BY <1>2, <2>2
<1>5. ASSUME NEW k \in Nat, k \in Good PROVE k + 1 \in Good
  <2>1. c(k) \in Nat /\ t[k] \in Nat /\ lo * c(k) <= t[k] /\ t[k] <= hi * c(k)
    BY <1>2, <1>3, <1>5
  <2>2. CASE k + 1 \in DOMAIN f
    <3>1. Upto(f, k + 1) = Upto(f, k) \cup {k + 1} /\ k + 1 \notin Upto(f, k)
      BY <1>1, <2>2 DEF Upto
    <3>2. c(k + 1) = c(k) + 1
      BY <1>3, <3>1, FS_AddElement
    <3>3. t[k + 1] = t[k] + f[k + 1] /\ f[k + 1] \in Nat /\ lo <= f[k + 1] /\ f[k + 1] <= hi
      BY <1>1, <1>2, <2>2
    <3> HIDE DEF c
    <3>4. lo * c(k + 1) = lo * c(k) + lo /\ hi * c(k + 1) = hi * c(k) + hi
      BY <2>1, <3>2
    <3>5. lo * c(k) \in Nat /\ hi * c(k) \in Nat
      BY <2>1
    <3>6. lo * c(k + 1) <= t[k + 1] /\ t[k + 1] <= hi * c(k + 1)
      BY <2>1, <3>3, <3>4, <3>5
    <3> QED
      BY <3>6
  <2>3. CASE k + 1 \notin DOMAIN f
    <3>1. Upto(f, k + 1) = Upto(f, k)
      BY <1>1, <2>3 DEF Upto
    <3>2. t[k + 1] = t[k]
      <4>1. t[k + 1] = t[k] + 0
        BY <1>2, <2>3
      <4> QED
        BY <2>1, <4>1
    <3> QED
      BY <2>1, <3>1, <3>2
  <2> QED
    BY <2>2, <2>3
<1>6. PingReq \in Good /\ PingReq \in Nat
  <2>1. Nat \subseteq Good
    <3> HIDE DEF Good
    <3> QED
      BY <1>4, <1>5, NatInd
  <2> QED
    BY <2>1, StatsAssumption
<1>7. Upto(f, PingReq) = DOMAIN f
  BY StatsAssumption DEF Upto, IsReplies
<1> QED
  BY <1>2, <1>6, <1>7 DEF Total, t

\* A product that is not less comes from a factor that is not less.
LEMMA CancelLeq ==
    ASSUME NEW a \in Int, NEW b \in Int, NEW n \in Nat, n # 0, a * n <= b * n
    PROVE  a <= b
<1> SUFFICES ASSUME b + 1 <= a PROVE FALSE
  OBVIOUS
<1>1. (a - b - 1) * n >= 0
  <2> DEFINE e == a - b - 1
  <2>1. e \in Nat
    OBVIOUS
  <2> HIDE DEF e
  <2>2. e * n \in Nat
    BY <2>1
  <2> QED
    BY <2>2 DEF e
<1>2. (a - b - 1) * n = a * n - b * n - n
  OBVIOUS
<1> QED
  BY <1>1, <1>2

\* How far a reply is from the average of its path, rounded up as it is.
LEMMA DeltaBound ==
    ASSUME NEW f, IsReplies(f), NEW a, Describes(a, f), a.avg \in Int,
           \A y \in Values(f) : y <= RttCap
    PROVE  /\ a.min \in Nat /\ a.max \in Nat /\ a.min <= a.max
           /\ \A s \in DOMAIN f : /\ f[s] - 10 * a.avg <= a.max - a.min + 9
                                  /\ 10 * a.avg - f[s] <= a.max - a.min + 9
<1> DEFINE n == Cardinality(DOMAIN f)
           lo == a.min
           hi == a.max
           v == 10 * a.avg
<1>1. n \in Nat \ {0} /\ DOMAIN f # {} /\ \A s \in DOMAIN f : f[s] \in Nat
  BY RepliesFinite, FS_EmptySet DEF Describes
<1>2. hi \in Nat /\ \A s \in DOMAIN f : f[s] <= hi
  BY <1>1, MaxOfReplies DEF Describes
<1>3. lo \in Nat /\ \A s \in DOMAIN f : lo <= f[s]
  <2> DEFINE S == Values(f) \cup {RttCap}
  <2>1. S \subseteq Nat /\ S # {} /\ \A s \in DOMAIN f : f[s] \in S
    BY <1>1, StatsAssumption DEF Values
  <2>2. lo = Min(S)
    BY DEF Describes
  <2> HIDE DEF S, lo
  <2> QED
    BY <2>1, <2>2, MinFirst
<1>4. v \in Int /\ 10 * (a.avg - 1) = v - 10
  OBVIOUS
<1>5. v * n >= Total(f) /\ (v - 10) * n < Total(f)
  BY <1>4 DEF Describes
<1> HIDE DEF n, lo, hi, v
<1>6. Total(f) \in Nat /\ lo * n <= Total(f) /\ Total(f) <= hi * n
  BY <1>2, <1>3, TotalBounds DEF n
<1>7. lo <= v
  <2>1. lo * n \in Int /\ v * n \in Int
    BY <1>1, <1>3, <1>4
  <2>2. lo * n <= v * n
    BY <1>5, <1>6, <2>1
  <2> QED
    BY <1>1, <1>3, <1>4, <2>2, CancelLeq
<1>8. v <= hi + 9
  <2> SUFFICES ASSUME hi <= v - 10 PROVE FALSE
    BY <1>2, <1>4
  <2> DEFINE e == v - 10 - hi
  <2>1. e \in Nat /\ v - 10 = hi + e
    BY <1>2, <1>4
  <2> HIDE DEF e
  <2>2. (v - 10) * n = hi * n + e * n /\ e * n \in Nat /\ hi * n \in Nat
    BY <1>1, <1>2, <2>1
  <2> QED
    BY <1>5, <1>6, <2>2
<1>9. PICK s \in DOMAIN f : TRUE
  BY <1>1
<1>10. lo <= hi
  BY <1>1, <1>2, <1>3, <1>9
<1>11. \A t \in DOMAIN f : f[t] - v <= hi - lo + 9 /\ v - f[t] <= hi - lo + 9
  BY <1>1, <1>2, <1>3, <1>4, <1>7, <1>8
<1> QED
  BY <1>2, <1>3, <1>10, <1>11 DEF lo, hi, v

\* The square of a small number is small.
LEMMA SquareBound ==
    ASSUME NEW d \in Int, NEW b \in Nat, d <= b, -d <= b
    PROVE  d * d \in Nat /\ d * d <= b * b
<1>1. ASSUME NEW e \in Nat, e <= b PROVE e * e \in Nat /\ e * e <= b * b
  <2> DEFINE k == b - e
  <2>1. k \in Nat /\ b = e + k
    BY <1>1
  <2> HIDE DEF k
  <2>2. b * b = e * e + (2 * (e * k) + k * k)
    BY <2>1
  <2>3. e * e \in Nat /\ e * k \in Nat /\ k * k \in Nat
    BY <2>1
  <2> QED
    BY <2>2, <2>3
<1>2. CASE d >= 0
  BY <1>1, <1>2
<1>3. CASE d < 0
  <2>1. -d \in Nat /\ (-d) * (-d) = d * d
    BY <1>3
  <2> DEFINE e == -d
  <2>2. e \in Nat /\ e <= b /\ e * e = d * d
    BY <2>1
  <2> HIDE DEF e
  <2> QED
    BY <1>1, <2>2
<1> QED
  BY <1>2, <1>3

\* The deviation is a tenth of the bound of the distances, and rounded up.
LEMMA StddevIs ==
    ASSUME NEW a, a.cnt_rtt \in Nat \ {0}, a.dispersion \in Nat,
           NEW b \in Nat, a.dispersion <= a.cnt_rtt * (b * b)
    PROVE  Stddev(a) \in Nat /\ 10 * Stddev(a) < b + 10
<1> DEFINE n == a.cnt_rtt
           D == a.dispersion
           Enough(s) == s * s * 100 * n * n * n >= D
           Is(s) == Enough(s) /\ (s > 0 => (s - 1) * (s - 1) * 100 * n * n * n < D)
           z == Stddev(a)
<1>1. z = CHOOSE s \in 0..D : Is(s)
  BY DEF Stddev
<1> DEFINE nn == n * n * n
<1> HIDE DEF n, D, z
<1>2. n \in Nat \ {0} /\ D \in Nat /\ D <= n * (b * b)
  BY DEF n, D
<1>3. nn \in Nat /\ nn >= n /\ nn >= 1
  <2>1. n * n \in Nat /\ n * n >= n
    <3> DEFINE k == n - 1
    <3>1. k \in Nat /\ n = k + 1
      BY <1>2
    <3> HIDE DEF k
    <3>2. n * n = k * k + k + n /\ k * k \in Nat
      BY <3>1
    <3> QED
      BY <1>2, <3>1, <3>2
  <2> DEFINE k == n - 1
             q == n * n
  <2>2. k \in Nat /\ n = k + 1 /\ q \in Nat /\ q >= n
    BY <1>2, <2>1
  <2> HIDE DEF k, q
  <2>3. q * n = q * k + q /\ q * k \in Nat
    BY <2>2
  <2>4. nn = q * n
    BY DEF q
  <2> QED
    BY <1>2, <2>2, <2>3, <2>4
<1>4. \A s \in Int : s * s * 100 * n * n * n = (s * s * 100) * nn
  BY <1>2
<1> HIDE DEF nn
<1>5. \E s \in 0..D : Is(s)
  <2> DEFINE S == {s \in Nat : Enough(s)}
  <2>1. D \in S
    <3>1. D * D \in Nat /\ D * D >= D
      <4>1. CASE D = 0
        BY <4>1
      <4>2. CASE D # 0
        <5> DEFINE k == D - 1
        <5>1. k \in Nat /\ D = k + 1
          BY <1>2, <4>2
        <5> HIDE DEF k
        <5>2. D * D = k * D + D /\ k * D \in Nat
          BY <1>2, <5>1
        <5> QED
          BY <1>2, <5>2
      <4> QED
        BY <4>1, <4>2
    <3> DEFINE e == D * D * 100
               k == nn - 1
    <3>2. e \in Nat /\ e >= D
      BY <1>2, <3>1
    <3>3. k \in Nat /\ nn = k + 1
      BY <1>3
    <3> HIDE DEF e, k
    <3>4. e * nn = e * k + e /\ e * k \in Nat
      BY <3>2, <3>3
    <3>5. e * nn >= D
      BY <1>2, <3>2, <3>4
    <3> QED
      BY <1>2, <1>4, <3>5 DEF e
  <2>2. Min(S) \in S /\ \A s \in S : Min(S) <= s
    <3>1. S \subseteq Nat
      OBVIOUS
    <3> HIDE DEF S
    <3> QED
      BY <2>1, <3>1, MinFirst
  <2> DEFINE l == Min(S)
  <2> HIDE DEF l
  <2>3. l \in S /\ l <= D /\ \A s \in S : l <= s
    BY <2>1, <2>2 DEF l
  <2>4. l \in 0..D /\ Enough(l)
    BY <1>2, <2>3
  <2>5. ASSUME l > 0 PROVE (l - 1) * (l - 1) * 100 * n * n * n < D
    <3>1. l - 1 \in Nat /\ ~(l <= l - 1)
      BY <2>4, <2>5
    <3>2. l - 1 \notin S
      BY <2>3, <3>1
    <3>3. ~Enough(l - 1)
      BY <3>1, <3>2
    <3>4. (l - 1) * (l - 1) * 100 * n * n * n \in Int
      BY <1>2, <3>1
    <3> QED
      BY <1>2, <3>3, <3>4
  <2> QED
    BY <2>4, <2>5
<1>6. z \in 0..D /\ Is(z)
  <2> HIDE DEF Is
  <2> QED
    BY <1>1, <1>5
<1>7. z \in Nat
  BY <1>2, <1>6
<1>8. SUFFICES ASSUME b + 10 <= 10 * z PROVE FALSE
  BY <1>7 DEF z
<1> DEFINE t == z - 1
           k == 10 * t
<1>9. t \in Nat /\ k \in Nat /\ b <= k /\ z > 0
  BY <1>7, <1>8
<1>10. (t * t * 100) * nn < D
  <2>1. t * t * 100 * n * n * n < D
    BY <1>6, <1>9
  <2> QED
    BY <1>4, <1>9, <2>1
<1>11. t * t * 100 = k * k
  BY <1>9
<1> HIDE DEF t, k
<1>12. b * b <= k * k /\ b * b \in Nat /\ k * k \in Nat
  BY <1>9, SquareBound
<1>13. n * (b * b) <= (k * k) * nn
  <2> DEFINE x == b * b
             y == k * k
             e == y - x
             g == nn - n
  <2>1. x \in Nat /\ e \in Nat /\ g \in Nat /\ y = x + e /\ nn = n + g
    BY <1>2, <1>3, <1>12
  <2> HIDE DEF x, y, e, g
  <2>2. y * nn = n * x + (x * g + e * n + e * g)
    BY <1>2, <2>1
  <2>3. x * g \in Nat /\ e * n \in Nat /\ e * g \in Nat /\ n * x \in Nat
    BY <1>2, <2>1
  <2>4. n * x <= y * nn
    BY <2>2, <2>3
  <2> QED
    BY <2>4 DEF x, y
<1>14. (k * k) * nn \in Nat /\ n * (b * b) \in Nat
  BY <1>2, <1>3, <1>12
<1>15. (k * k) * nn < D
  BY <1>10, <1>11
<1> QED
  BY <1>2, <1>13, <1>14, <1>15

(***************************************************************************)
(* The second pass.                                                        *)
(***************************************************************************)

InRange(smp) == \A p \in Path : \A x \in Values(smp[p]) : x <= RttCap

\* A bound of the distances between the replies of aggregate a and their average.
Spread(a) == a.max - a.min + 9

\* Deviation and median of aggregate a are those of the replies f.
Fits(a, f) ==
    LET n == Cardinality(DOMAIN f)
    IN  /\ 2 * Cardinality({s \in DOMAIN f : 2 * f[s] > a.mediana}) <= n
        /\ 2 * Cardinality({s \in DOMAIN f : 2 * f[s] < a.mediana}) <= n + 1
        /\ 10 * a.stddev < a.max - a.min + 20

\* The accumulators d of the pass after the replies of f up to n.
Gathered(d, a, f, n) ==
    /\ Listed(d.smediana, Upto(f, n), f)
    /\ d.cnt_rtt = Len(d.smediana)
    /\ d.dispersion \in Nat /\ d.dispersion <= d.cnt_rtt * (Spread(a) * Spread(a))

FreshInv ==
    /\ pass = "avg" => dev = dev0 /\ (path = End => seq = 0)
    /\ pass = "done" => path = End

GatheredInv ==
    ~late /\ InRange(samples) /\ pass = "stddev" /\ path \in DOMAIN agg =>
        Gathered(dev, agg[path], samples[path], seq)

FitsInv ==
    ~late /\ InRange(samples) /\ pass \in {"stddev", "done"} =>
        \A p \in DOMAIN agg : p < path => Fits(agg[p], samples[p])

DeviationInv == FreshInv /\ GatheredInv /\ FitsInv

\* Without a late reply an aggregate describes the replies of its path.
LEMMA OwnReplies ==
    ASSUME SInv, ~late, NEW p \in DOMAIN agg
    PROVE  /\ p \in Path /\ p \in Nat /\ p < End /\ p # End /\ IsReplies(samples[p])
           /\ Describes(agg[p], samples[p]) /\ DOMAIN samples[p] # {} /\ agg[p].avg \in Int
<1>1. p \in Path /\ p \in Nat /\ p < End /\ p # End /\ IsReplies(samples[p]) /\ samples = start
  BY StatsAssumption DEF SInv, StatsType, GrownInv, Path, End
<1>2. Describes(agg[p], samples[p]) /\ agg[p].avg \in Int
  BY <1>1 DEF SInv, AggregateIsSnapshot, MetricInv
<1>3. DOMAIN samples[p] # {}
  <2>1. Cardinality(DOMAIN samples[p]) > 0 /\ Cardinality({}) = 0
    BY <1>2, FS_EmptySet DEF Describes
  <2> QED
    BY <2>1
<1> QED
  BY <1>1, <1>2, <1>3

\* In range, the spread of a path is a number.
LEMMA SpreadIs ==
    ASSUME NEW f, IsReplies(f), NEW a, Describes(a, f), a.avg \in Int,
           \A y \in Values(f) : y <= RttCap
    PROVE  /\ Spread(a) \in Nat /\ Spread(a) + 10 < a.max - a.min + 20
           /\ \A s \in DOMAIN f : /\ f[s] - 10 * a.avg <= Spread(a)
                                  /\ -(f[s] - 10 * a.avg) <= Spread(a)
<1>1. /\ a.min \in Nat /\ a.max \in Nat /\ a.min <= a.max
      /\ \A s \in DOMAIN f : /\ f[s] - 10 * a.avg <= a.max - a.min + 9
                             /\ 10 * a.avg - f[s] <= a.max - a.min + 9
  BY DeltaBound
<1>2. \A s \in DOMAIN f : f[s] \in Nat /\ -(f[s] - 10 * a.avg) = 10 * a.avg - f[s]
  BY RepliesFinite
<1> QED
  BY <1>1, <1>2 DEF Spread

\* At the start of a path nothing is gathered.
LEMMA GatheredStart ==
    ASSUME NEW f, IsReplies(f), NEW a, Spread(a) \in Nat
    PROVE  Gathered(dev0, a, f, 0)
<1>1. Upto(f, 0) = {}
  BY RepliesFinite DEF Upto
<1>2. 0 * (Spread(a) * Spread(a)) = 0
  OBVIOUS
<1>3. Listed(<<>>, Upto(f, 0), f) /\ Len(<<>>) = 0
  BY <1>1, ListedStart
<1>4. dev0.cnt_rtt = 0 /\ dev0.dispersion = 0 /\ dev0.smediana = <<>>
  BY DEF dev0
<1>5. 0 \in Nat /\ 0 <= 0
  OBVIOUS
<1> QED
  BY <1>2, <1>3, <1>4, <1>5 DEF Gathered

\* The next reply of a path.
LEMMA GatheredNext ==
    ASSUME NEW f, IsReplies(f), NEW a, Spread(a) \in Nat, a.avg \in Int,
           NEW d, NEW n \in Nat, Gathered(d, a, f, n),
           NEW m \in DOMAIN f, n < m, \A s \in DOMAIN f : ~(n < s /\ s < m),
           f[m] - 10 * a.avg <= Spread(a), -(f[m] - 10 * a.avg) <= Spread(a)
    PROVE  Gathered([cnt_rtt |-> d.cnt_rtt + 1,
                     dispersion |-> d.dispersion + (f[m] - 10 * a.avg) * (f[m] - 10 * a.avg),
                     smediana |-> Append(d.smediana, f[m])], a, f, m)
<1> DEFINE b == Spread(a)
           e == f[m] - 10 * a.avg
           c == d.cnt_rtt
<1>1. f[m] \in Nat /\ m \in Nat
  BY RepliesFinite
<1>2. Upto(f, m) = Upto(f, n) \cup {m} /\ m \notin Upto(f, n)
  BY <1>1, RepliesFinite DEF Upto
<1>3. /\ Listed(Append(d.smediana, f[m]), Upto(f, m), f)
      /\ Len(Append(d.smediana, f[m])) = c + 1
  <2> DEFINE w == d.smediana
             S == Upto(f, n)
  <2>1. Listed(w, S, f) /\ c = Len(w)
    BY DEF Gathered
  <2> HIDE DEF w, S, c
  <2>2. m \notin S /\ Upto(f, m) = S \cup {m}
    BY <1>2 DEF S
  <2>3. Listed(Append(w, f[m]), S \cup {m}, f) /\ Len(Append(w, f[m])) = Len(w) + 1
    BY <1>1, <2>1, <2>2, ListedNext
  <2> QED
    BY <2>1, <2>2, <2>3 DEF w
<1>4. c \in Nat /\ d.dispersion \in Nat /\ d.dispersion <= c * (b * b)
  BY DEF Gathered, Listed
<1>5. e \in Int /\ b \in Nat /\ e <= b /\ -e <= b
  BY <1>1
<1> HIDE DEF b, e, c
<1>6. e * e \in Nat /\ e * e <= b * b /\ b * b \in Nat
  BY <1>5, SquareBound
<1>7. (c + 1) * (b * b) = c * (b * b) + b * b /\ c * (b * b) \in Nat
  BY <1>4, <1>6
<1>8. d.dispersion + e * e \in Nat /\ d.dispersion + e * e <= (c + 1) * (b * b)
  BY <1>4, <1>6, <1>7
<1> QED
  BY <1>3, <1>8 DEF Gathered, b, e, c

\* What is stored when all replies of a path are gathered.
LEMMA GatheredFits ==
    ASSUME NEW f, IsReplies(f), DOMAIN f # {}, NEW a, Spread(a) \in Nat,
           Spread(a) + 10 < a.max - a.min + 20, a.max \in Int, a.min \in Int,
           NEW d, NEW n, Gathered(d, a, f, n), \A s \in DOMAIN f : s <= n,
           NEW z, z.max = a.max, z.min = a.min,
           z.stddev = Stddev(d), z.mediana = Mediana(d.smediana)
    PROVE  Fits(z, f)
<1> DEFINE v == d.smediana
<1>1. Listed(v, DOMAIN f, f) /\ d.cnt_rtt = Len(v)
  BY DEF Gathered, Upto
<1>2. v # <<>>
  <2> SUFFICES ASSUME v = <<>> PROVE FALSE
    OBVIOUS
  <2>1. Len(v) = 0 /\ 1..0 = {}
    OBVIOUS
  <2>2. PICK h \in Bijection(1..Len(v), DOMAIN f) : TRUE
    BY <1>1 DEF Listed
  <2> QED
    BY <2>1, <2>2 DEF Bijection, Surjection
<1>3. Len(v) \in Nat \ {0}
  BY <1>1, <1>2 DEF Listed
<1> HIDE DEF v
<1>4. /\ Cardinality(DOMAIN f) = Len(v)
      /\ 2 * Cardinality({s \in DOMAIN f : 2 * f[s] > Mediana(v)}) <= Len(v)
      /\ 2 * Cardinality({s \in DOMAIN f : 2 * f[s] < Mediana(v)}) <= Len(v) + 1
  BY <1>1, <1>2, MedianaIs
<1> DEFINE b == Spread(a)
<1>5. d.cnt_rtt \in Nat \ {0} /\ d.dispersion \in Nat /\ b \in Nat /\ d.dispersion <= d.cnt_rtt * (b * b)
  BY <1>1, <1>3 DEF Gathered
<1>6. 10 * Stddev(d) < b + 10 /\ Stddev(d) \in Int
  <2> HIDE DEF b
  <2> QED
    BY <1>5, StddevIs
<1>7. 10 * Stddev(d) < a.max - a.min + 20
  BY <1>6
<1> QED
  BY <1>4, <1>7 DEF Fits, v

\* All of this for an aggregate, without a late reply and in range.
LEMMA OwnSpread ==
    ASSUME SInv, ~late, InRange(samples), NEW p \in DOMAIN agg
    PROVE  /\ Spread(agg[p]) \in Nat /\ Spread(agg[p]) + 10 < agg[p].max - agg[p].min + 20
           /\ agg[p].max \in Int /\ agg[p].min \in Int /\ agg[p].avg \in Int
           /\ \A s \in DOMAIN samples[p] :
                 /\ samples[p][s] - 10 * agg[p].avg <= Spread(agg[p])
                 /\ -(samples[p][s] - 10 * agg[p].avg) <= Spread(agg[p])
<1> DEFINE f == samples[p]
           a == agg[p]
<1>1. IsReplies(f) /\ Describes(a, f) /\ a.avg \in Int /\ p \in Path
  BY OwnReplies
<1>2. \A y \in Values(f) : y <= RttCap
  BY <1>1 DEF InRange
<1> HIDE DEF f, a
<1>3. /\ Spread(a) \in Nat /\ Spread(a) + 10 < a.max - a.min + 20
      /\ \A s \in DOMAIN f : f[s] - 10 * a.avg <= Spread(a) /\ -(f[s] - 10 * a.avg) <= Spread(a)
  BY <1>1, <1>2, SpreadIs
<1>4. a.max \in Int /\ a.min \in Int
  BY <1>1, <1>2, DeltaBound
<1> QED
  BY <1>1, <1>3, <1>4 DEF f, a

\* The first pass leaves the accumulators of the second one alone.
LEMMA FirstPassDeviation ==
    ASSUME SInv, DeviationInv, AvgSample \/ AvgPath
    PROVE  DeviationInv'
<1>1. pass = "avg" /\ pass' = "avg" /\ dev' = dev
  BY DEF AvgSample, AvgPath
<1>2. path' = End => seq' = 0
  BY DEF AvgSample, AvgPath
<1> QED
  BY <1>1, <1>2 DEF DeviationInv, FreshInv, GatheredInv, FitsInv

\* The second pass starts at the first path that has answered.
LEMMA AvgDoneDeviation ==
    ASSUME SInv, DeviationInv, AvgDone
    PROVE  DeviationInv'
<1>1. /\ pass' = "stddev" /\ path' = NextPath(0, samples) /\ dev' = dev0 /\ seq' = 0
      /\ UNCHANGED <<samples, agg, late>>
  BY DEF AvgDone, DeviationInv, FreshInv
<1>2. \A q \in Path : q < path' => DOMAIN samples[q] = {}
  <2>1. 0 \in Nat /\ 0 < End /\ \A q \in Path : 0 < q
    BY StatsAssumption DEF End, Path
  <2> QED
    BY <1>1, <2>1, NextPathIs
<1>3. ASSUME ~late, InRange(samples), path' \in DOMAIN agg
      PROVE  Gathered(dev0, agg[path'], samples[path'], 0)
  <2>1. IsReplies(samples[path']) /\ Spread(agg[path']) \in Nat
    BY <1>3, OwnReplies, OwnSpread
  <2> QED
    BY <2>1, GatheredStart
<1>4. ASSUME ~late, NEW p \in DOMAIN agg, p < path'
      PROVE  FALSE
  BY <1>2, <1>4, OwnReplies
<1> QED
  BY <1>1, <1>3, <1>4 DEF DeviationInv, FreshInv, GatheredInv, FitsInv

\* The second pass visits a reply.
LEMMA DevSampleDeviation ==
    ASSUME SInv, DeviationInv, DevSample
    PROVE  DeviationInv'
<1> DEFINE m == Min(Rest)
           f == samples[path]
           a == agg[path]
<1>1. /\ pass = "stddev" /\ path \in DOMAIN agg /\ Rest # {} /\ seq' = m
      /\ dev' = [cnt_rtt |-> dev.cnt_rtt + 1,
                 dispersion |-> dev.dispersion + (f[m] - 10 * a.avg) * (f[m] - 10 * a.avg),
                 smediana |-> Append(dev.smediana, f[m])]
      /\ UNCHANGED <<pass, path, samples, agg, late>>
  BY DEF DevSample
<1>2. ASSUME ~late, InRange(samples)
      PROVE  Gathered(dev', a, f, m)
  <2>1. IsReplies(f) /\ path # End
    BY <1>1, <1>2, OwnReplies
  <2>2. m \in DOMAIN f /\ m > seq /\ \A s \in DOMAIN f : ~(seq < s /\ s < m)
    BY <1>1, <2>1, RestIs DEF SInv
  <2>3. seq \in Nat
    BY DEF SInv, StatsType
  <2>4. Gathered(dev, a, f, seq)
    BY <1>1, <1>2 DEF DeviationInv, GatheredInv
  <2>5. /\ Spread(a) \in Nat /\ a.avg \in Int
        /\ \A s \in DOMAIN f : f[s] - 10 * a.avg <= Spread(a) /\ -(f[s] - 10 * a.avg) <= Spread(a)
    BY <1>1, <1>2, OwnSpread
  <2> HIDE DEF m, f, a
  <2>6. seq < m /\ f[m] - 10 * a.avg <= Spread(a) /\ -(f[m] - 10 * a.avg) <= Spread(a)
    BY <2>2, <2>5
  <2> QED
    BY <1>1, <2>1, <2>2, <2>3, <2>4, <2>5, <2>6, GatheredNext
<1> HIDE DEF m
<1>3. GatheredInv'
  BY <1>1, <1>2 DEF GatheredInv
<1> QED
  BY <1>1, <1>3 DEF DeviationInv, FreshInv, FitsInv

\* The second pass stores deviation and median of a path, and the accumulators are set back.
LEMMA DevPathDeviation ==
    ASSUME SInv, DeviationInv, DevPath
    PROVE  DeviationInv'
<1> DEFINE f == samples[path]
           a == agg[path]
           z == agg'[path]
<1>1. /\ pass = "stddev" /\ path \in DOMAIN agg /\ Rest = {} /\ seq' = 0 /\ dev' = dev0
      /\ path' = NextPath(path, samples) /\ UNCHANGED <<pass, samples, late>>
  BY DEF DevPath
<1>2. /\ DOMAIN agg' = DOMAIN agg /\ \A p \in DOMAIN agg : p # path => agg'[p] = agg[p]
      /\ z.max = a.max /\ z.min = a.min
      /\ z.stddev = Stddev(dev) /\ z.mediana = Mediana(dev.smediana)
  <2>1. DOMAIN a = {"avg", "lost", "min", "max", "metric1", "stddev", "mediana"}
    BY <1>1 DEF SInv, StatsType
  <2>2. agg' = [agg EXCEPT ![path].stddev = Stddev(dev), ![path].mediana = Mediana(dev.smediana)]
    BY DEF DevPath
  <2> DEFINE x == Stddev(dev)
             y == Mediana(dev.smediana)
  <2> HIDE DEF x, y
  <2>3. agg' = [agg EXCEPT ![path].stddev = x, ![path].mediana = y]
    BY <2>2 DEF x, y
  <2>4. /\ DOMAIN agg' = DOMAIN agg /\ \A p \in DOMAIN agg : p # path => agg'[p] = agg[p]
        /\ z.max = a.max /\ z.min = a.min /\ z.stddev = x /\ z.mediana = y
    BY <1>1, <2>1, <2>3
  <2> QED
    BY <2>4 DEF x, y
<1>3. path \in Path /\ path \in Nat /\ path < End
  BY <1>1, StatsAssumption DEF SInv, StatsType, Path, End
<1>4. \A q \in Path : path < q /\ q < path' => DOMAIN samples[q] = {}
  BY <1>1, <1>3, NextPathIs
<1>5. ASSUME ~late, InRange(samples)
      PROVE  Fits(z, f)
  <2>1. IsReplies(f) /\ DOMAIN f # {}
    BY <1>1, <1>5, OwnReplies
  <2>2. Gathered(dev, a, f, seq)
    BY <1>1, <1>5 DEF DeviationInv, GatheredInv
  <2>3. \A s \in DOMAIN f : s <= seq
    <3>1. seq \in Nat /\ \A s \in DOMAIN f : s \in Nat
      BY <2>1, RepliesFinite DEF SInv, StatsType
    <3>2. \A s \in DOMAIN f : ~(s > seq)
      BY <1>1 DEF Rest
    <3> QED
      BY <3>1, <3>2
  <2>4. /\ Spread(a) \in Nat /\ Spread(a) + 10 < a.max - a.min + 20
        /\ a.max \in Int /\ a.min \in Int
    BY <1>1, <1>5, OwnSpread
  <2> HIDE DEF f, a, z
  <2> QED
    BY <1>2, <2>1, <2>2, <2>3, <2>4, GatheredFits
<1> HIDE DEF z
<1>6. FitsInv'
  <2> SUFFICES ASSUME ~late, InRange(samples), NEW p \in DOMAIN agg, p < path'
               PROVE  Fits(agg'[p], samples[p])
    BY <1>1, <1>2 DEF FitsInv
  <2>1. p \in Path /\ p \in Nat /\ DOMAIN samples[p] # {}
    BY OwnReplies
  <2>2. ~(path < p)
    BY <1>4, <2>1
  <2>3. CASE p = path
    BY <1>5, <2>3 DEF z
  <2>4. CASE p < path
    BY <1>1, <1>2, <1>3, <2>4 DEF DeviationInv, FitsInv
  <2> QED
    BY <1>3, <2>1, <2>2, <2>3, <2>4
<1>7. GatheredInv'
  <2> SUFFICES ASSUME ~late, InRange(samples), path' \in DOMAIN agg
               PROVE  Gathered(dev0, agg'[path'], samples[path'], 0)
    BY <1>1, <1>2 DEF GatheredInv
  <2>1. path' # path
    BY <1>1, <1>3, NextPathIs
  <2>2. IsReplies(samples[path']) /\ Spread(agg[path']) \in Nat
    BY OwnReplies, OwnSpread
  <2> QED
    BY <1>2, <2>1, <2>2, GatheredStart
<1> QED
  BY <1>1, <1>6, <1>7 DEF DeviationInv, FreshInv

\* After a late reply nothing is said, but the accumulators are fresh in the first pass.
LEMMA OtherDeviation ==
    ASSUME SInv, DeviationInv, Receive \/ DevNull \/ DevDone \/ UNCHANGED vars
    PROVE  DeviationInv'
<1>1. CASE Receive
  <2>1. late' = TRUE /\ UNCHANGED <<pass, path, seq, dev>>
    BY <1>1 DEF Receive, LateReply
  <2> QED
    BY <2>1 DEF DeviationInv, FreshInv, GatheredInv, FitsInv
<1>2. CASE DevNull
  BY <1>2 DEF DevNull, DeviationInv, FreshInv, GatheredInv, FitsInv
<1>3. CASE DevDone
  BY <1>3 DEF DevDone, DeviationInv, FreshInv, GatheredInv, FitsInv
<1>4. CASE UNCHANGED vars
  BY <1>4 DEF vars, DeviationInv, FreshInv, GatheredInv, FitsInv
<1> QED
  BY <1>1, <1>2, <1>3, <1>4

\* The invariant of the second pass holds in every reachable state.
LEMMA DeviationInvHolds == Spec => [](SInv /\ DeviationInv)
<1>1. Init => DeviationInv
  BY DEF Init, DeviationInv, FreshInv, GatheredInv, FitsInv
<1>2. SInv /\ DeviationInv /\ [Next]_vars => DeviationInv'
  BY FirstPassDeviation, AvgDoneDeviation, DevSampleDeviation, DevPathDeviation, OtherDeviation
     DEF Next, Finished
<1> QED
  BY <1>1, <1>2, StatsInv, PTL DEF Spec

\* For any replies below the cap and without a late one, stddev and mediana of every path are
\* those of its own replies: the median at most one rank too high, the deviation
\* within the spread of the path.
THEOREM DeviationCorrect == Spec => []DeviationWithinRange
<1>1. SInv /\ DeviationInv => DeviationWithinRange
  <2> SUFFICES ASSUME SInv, DeviationInv, pass = "done", ~late, InRange(samples),
                      NEW p \in DOMAIN agg
               PROVE  Fits(agg[p], samples[p])
    BY DEF DeviationWithinRange, InRange, Fits
  <2>1. p < path
    BY OwnReplies DEF DeviationInv, FreshInv
  <2> QED
    BY <2>1 DEF DeviationInv, FitsInv
<1> QED
  BY <1>1, DeviationInvHolds, PTL
=============================================================================
