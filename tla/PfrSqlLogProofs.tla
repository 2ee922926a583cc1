-------------------------- MODULE PfrSqlLogProofs --------------------------
(***************************************************************************)
(* Proofs about PfrSqlLog, for any destinations, peers, measurements and   *)
(* number of rounds, and any configured min_rtt: the global is 50000, or   *)
(* what was loaded last, whenever no walk is inside a destination; no      *)
(* round is logged twice unless a log thread was overtaken before it had   *)
(* read its argument; and as long as no walk inside a destination met      *)
(* another one or a reread, the scan decides for the least metric and the  *)
(* history names the peer of the decision.                                 *)
(***************************************************************************)
EXTENDS PfrSqlLog, WellFoundedInduction, TLAPS

\* The threads are numbered by the rounds in which they were started, all of them
\* before the scan of the present round is over.
ThreadInv ==
    /\ probe_id \in Nat
    /\ \A k \in DOMAIN log : /\ k \in Nat /\ k <= probe_id
                            /\ DOMAIN log[k] = {"at", "probe", "walk", "rows"}
    /\ pc \in {"measure", "scan", "spawn"} => \A k \in DOMAIN log : k < probe_id
    /\ \A k \in DOMAIN log : log[k].at = "start" => log[k].walk.dst = 0

\* The argument that all threads share is that of the thread to be created, or of the
\* latest one; without overtaking it is the only one that has not read it yet.
ArgumentInv ==
    /\ pc = "spawn" => ithlog = probe_id
    /\ ~overtaken => \A k \in DOMAIN log :
          /\ log[k].at = "start" => ithlog = k /\ pc # "spawn"
          /\ log[k].at # "start" => log[k].probe = k

(***************************************************************************)
(* The inductive invariant.                                                *)
(***************************************************************************)
QInv == ThreadInv /\ ArgumentInv /\ MinRttRestored
----------------------------------------------------------------------------
\* The daemon starts without log threads.
LEMMA InitQInv == Init => QInv
  BY DEF Init, QInv, ThreadInv, ArgumentInv, MinRttRestored, Empty

\* The argument is written while the thread of the round does not exist.
LEMMA SetArgumentQInv == QInv /\ SetArgument => QInv'
<1> SUFFICES ASSUME QInv, SetArgument PROVE QInv'
  OBVIOUS
<1>1. /\ pc = "scan" /\ scan.dst = 0 /\ pc' = "spawn" /\ scan' = Idle /\ ithlog' = probe_id
      /\ UNCHANGED <<probe_id, min_rtt, loaded, log>>
      /\ overtaken' = (overtaken \/ \E k \in DOMAIN log : log[k].at = "start")
  BY DEF SetArgument, global
<1>2. ThreadInv'
  BY <1>1 DEF QInv, ThreadInv
<1>3. ArgumentInv'
  <2> SUFFICES ASSUME ~overtaken', NEW k \in DOMAIN log
               PROVE  log[k].at # "start" /\ log[k].probe = k
    BY <1>1 DEF ArgumentInv
  <2> QED
    BY <1>1 DEF QInv, ArgumentInv
<1>4. MinRttRestored'
  BY <1>1 DEF QInv, MinRttRestored, Inside, Running
<1> QED
  BY <1>2, <1>3, <1>4 DEF QInv

\* A new thread starts outside every destination.
LEMMA SpawnQInv == QInv /\ Spawn => QInv'
<1> SUFFICES ASSUME QInv, Spawn PROVE QInv'
  OBVIOUS
<1>1. /\ pc = "spawn" /\ pc' = "delete" /\ ithlog = probe_id
      /\ UNCHANGED <<probe_id, scan, ithlog, min_rtt, loaded, overtaken>>
      /\ probe_id \notin DOMAIN log /\ probe_id \in Nat
  BY DEF Spawn, global, QInv, ThreadInv, ArgumentInv
<1>2. /\ DOMAIN log' = DOMAIN log \cup {probe_id}
      /\ log'[probe_id] = [at |-> "start", probe |-> 0, walk |-> Idle, rows |-> {}]
      /\ \A k \in DOMAIN log : log'[k] = log[k]
  BY <1>1 DEF Spawn, Put
<1>3. ThreadInv'
  BY <1>1, <1>2 DEF QInv, ThreadInv, Idle
<1>4. ArgumentInv'
  BY <1>1, <1>2 DEF QInv, ArgumentInv
<1>5. MinRttRestored'
  <2>1. ~Inside' => ~Inside
    BY <1>1, <1>2 DEF Inside
  <2> QED
    BY <1>1, <2>1 DEF QInv, MinRttRestored, Running
<1> QED
  BY <1>3, <1>4, <1>5 DEF QInv

\* The other steps of the main thread leave the log threads alone.
LEMMA MainQInv ==
    ASSUME QInv,
           \/ Measure \/ ScanEnter \/ ScanPeer \/ ScanLeave
           \/ Delete \/ Shutdown \/ NextRound \/ Reread
    PROVE  QInv'
<1>1. UNCHANGED <<log, ithlog, overtaken>>
  BY DEF Measure, ScanEnter, ScanPeer, ScanLeave, Delete, Shutdown, NextRound, Reread, Die
<1>2. /\ pc \in {"measure", "scan", "delete", "signals"} /\ pc' # "spawn"
      /\ \/ probe_id' = probe_id /\ (pc' \in {"measure", "scan"} => pc \in {"measure", "scan"})
         \/ probe_id' = probe_id + 1
  BY DEF Measure, ScanEnter, ScanPeer, ScanLeave, Delete, Shutdown, NextRound, Reread, Die
<1>3. ThreadInv'
  BY <1>1, <1>2 DEF QInv, ThreadInv
<1>4. ArgumentInv'
  BY <1>1, <1>2 DEF QInv, ArgumentInv
<1>5. MinRttRestored'
  <2>1. CASE UNCHANGED <<scan, min_rtt, loaded>>
    BY <1>1, <1>2, <2>1 DEF QInv, MinRttRestored, Inside, Running
  <2>2. CASE ScanEnter
    <3>1. UNCHANGED <<min_rtt, loaded, log>> /\ scan.dst = 0
      BY <2>2 DEF ScanEnter, global
    <3> QED
      BY <1>2, <3>1 DEF QInv, MinRttRestored, Inside, Running
  <2>3. CASE ScanPeer
    <3>1. scan'.dst = scan.dst /\ scan.dst # 0
      BY <2>3 DEF ScanPeer, Compare
    <3> QED
      BY <3>1 DEF MinRttRestored, Inside
  <2>4. CASE ScanLeave
    BY <2>4 DEF ScanLeave, Leave, MinRttRestored
  <2>5. CASE Reread
    BY <2>5 DEF Reread, MinRttRestored
  <2> QED
    BY <2>1, <2>2, <2>3, <2>4, <2>5 DEF Measure, Delete, Shutdown, NextRound, Die, global
<1> QED
  BY <1>3, <1>4, <1>5 DEF QInv

\* What a step of log thread k does to the threads.
LEMMA LoggerSteps ==
    ASSUME QInv, NEW k \in DOMAIN log, Logger(k)
    PROVE  /\ DOMAIN log' = DOMAIN log
           /\ \A j \in DOMAIN log \ {k} : log'[j] = log[j]
           /\ DOMAIN log'[k] = DOMAIN log[k]
           /\ UNCHANGED <<probe_id, scan, ithlog, overtaken>>
           /\ pc' = pc \/ pc' = "dead"
           /\ LogLeave(k) \/ loaded' = loaded
           /\ \/ log' = log
              \/ log[k].at = "start" /\ log'[k].at # "start" /\ log'[k].probe = ithlog
                 /\ log'[k].walk = log[k].walk
              \/ log[k].at # "start" /\ log'[k].at # "start" /\ log'[k].probe = log[k].probe
<1> USE DEF QInv, ThreadInv, main, global, Die
<1>1. CASE LogStart(k)
  BY <1>1 DEF LogStart
<1>2. CASE LogEnter(k)
  BY <1>2 DEF LogEnter
<1>3. CASE LogPeer(k)
  BY <1>3 DEF LogPeer
<1>4. CASE LogLeave(k)
  BY <1>4 DEF LogLeave
<1>5. CASE LogCommit(k)
  BY <1>5 DEF LogCommit
<1> QED
  BY <1>1, <1>2, <1>3, <1>4, <1>5 DEF Logger

\* A log thread that changes min_rtt is inside a destination, and resets it when
\* it leaves.
LEMMA LoggerMinRtt ==
    ASSUME QInv, NEW k \in DOMAIN log, Logger(k)
    PROVE  MinRttRestored'
<1> USE DEF QInv, ThreadInv
<1>1. /\ DOMAIN log' = DOMAIN log /\ scan' = scan
      /\ \A j \in DOMAIN log \ {k} : log'[j] = log[j]
      /\ pc' = pc \/ pc' = "dead"
  BY LoggerSteps
<1>2. Running
  BY DEF Logger, LogStart, LogEnter, LogPeer, LogLeave, LogCommit
<1>3. CASE LogStart(k) \/ LogEnter(k) \/ LogCommit(k)
  <2>1. min_rtt' = min_rtt /\ loaded' = loaded /\ log[k].walk.dst = 0
    BY <1>3 DEF LogStart, LogEnter, LogCommit, global
  <2>2. ~Inside' => ~Inside
    BY <1>1, <2>1 DEF Inside
  <2> QED
    BY <1>2, <2>1, <2>2 DEF MinRttRestored
<1>4. CASE LogPeer(k)
  <2>1. CASE Running'
    <3>1. log'[k].walk = Compare(log[k].walk, r[log[k].walk.dst][log[k].probe][Min(log[k].walk.left)],
                                 log[k].probe)
      BY <1>4, <2>1 DEF LogPeer, Die, Running
    <3>2. log[k].walk.dst # 0
      BY <1>4 DEF LogPeer
    <3>3. log'[k].walk.dst # 0
      BY <3>1, <3>2 DEF Compare
    <3> QED
      BY <1>1, <3>3 DEF MinRttRestored, Inside
  <2> QED
    BY <2>1 DEF MinRttRestored
<1>5. CASE LogLeave(k)
  BY <1>5 DEF LogLeave, Leave, MinRttRestored
<1> QED
  BY <1>3, <1>4, <1>5 DEF Logger

\* A step of a log thread keeps the invariant.
LEMMA LoggerQInv == ASSUME QInv, NEW k \in DOMAIN log, Logger(k) PROVE QInv'
<1>1. ThreadInv'
  <2>1. ASSUME log'[k].at = "start" PROVE log'[k].walk.dst = 0
    BY <2>1, LoggerSteps DEF QInv, ThreadInv
  <2> QED
    BY <2>1, LoggerSteps DEF QInv, ThreadInv
<1>2. ArgumentInv'
  <2> SUFFICES ASSUME ~overtaken, NEW j \in DOMAIN log
               PROVE  /\ log'[j].at = "start" => ithlog = j /\ pc # "spawn"
                      /\ log'[j].at # "start" => log'[j].probe = j
    BY LoggerSteps DEF QInv, ArgumentInv
  <2>1. /\ log[j].at = "start" => ithlog = j /\ pc # "spawn"
        /\ log[j].at # "start" => log[j].probe = j
    BY DEF QInv, ArgumentInv
  <2>2. CASE j # k \/ log' = log
    BY <2>1, <2>2, LoggerSteps
  <2>3. CASE j = k /\ log' # log
    BY <2>1, <2>3, LoggerSteps
  <2> QED
    BY <2>2, <2>3
<1> QED
  BY <1>1, <1>2, LoggerMinRtt DEF QInv

\* The invariant holds in every reachable state.
LEMMA SqlLogInv == Spec => []QInv
<1>1. QInv /\ [Next]_vars => QInv'
  <2> SUFFICES ASSUME QInv, [Next]_vars PROVE QInv'
    OBVIOUS
  <2>1. CASE UNCHANGED vars
    BY <2>1 DEF vars, main, global, QInv, ThreadInv, ArgumentInv, MinRttRestored, Inside, Running
  <2> QED
    BY <2>1, SetArgumentQInv, SpawnQInv, MainQInv, LoggerQInv DEF Next, Finished
<1> QED
  BY <1>1, InitQInv, PTL DEF Spec

\* Outside the bodies of pfr_route_scan and pfr_route_scan_sql, the global min_rtt
\* that both search with is 50000, or the configured value that was loaded last.
THEOREM MinRttCorrect == Spec => []MinRttRestored
<1>1. QInv => MinRttRestored
  BY DEF QInv
<1> QED
  BY <1>1, SqlLogInv, PTL

\* No two log threads write the same round, unless one was overtaken before it
\* had read the argument that main shares with all of them.
THEOREM LoggedOnce == Spec => []RoundLoggedOnce
<1>1. QInv => RoundLoggedOnce
  BY DEF QInv, ArgumentInv, RoundLoggedOnce
<1> QED
  BY <1>1, SqlLogInv, PTL


----------------------------------------------------------------------------
(***************************************************************************)
(* The searches.                                                           *)
(***************************************************************************)

\* What round q has measured for d, as far as it is still in r.
Data(d, q) == At(At(r, d), q)

\* The scan of round q is over.
Settled(q) == q < probe_id \/ (q = probe_id /\ pc \in {"spawn", "delete", "signals"})

\* Peer n is the least of the peers seen, in metric and then in number; 0: none of
\* them is below from, the value the search started with.
Best(rtt, seen, n, least, from) ==
    /\ n = 0 => least = from /\ \A k \in seen : rtt[k] >= from
    /\ n # 0 => /\ n \in seen /\ least = rtt[n] /\ least < from
                /\ \A k \in seen : least <= rtt[k] /\ (k < n => least < rtt[k])

\* How far walk w of round q, at a destination with the measurements rtt, has come,
\* when min_rtt is least and was from at the start.
Walked(w, rtt, q, least, from) ==
    /\ w.left \subseteq DOMAIN rtt
    /\ q = 0 => \/ w.left = DOMAIN rtt /\ w.peer = 0
                \/ w.left = {} /\ DOMAIN rtt # {} /\ w.peer = Min(DOMAIN rtt)
    /\ q # 0 => /\ \A k \in DOMAIN rtt \ w.left : \A n \in w.left : k < n
                /\ Best(rtt, DOMAIN rtt \ w.left, w.peer, least, from)

\* The decision for d in round q is the best of what is left of its measurements, for
\* one of the values the search can have started with.
Decided(d, q) ==
    /\ d \in DOMAIN At(decided, q)
    /\ \E c \in MinRtts : At(decided, q)[d] = Least(Data(d, q), q, c)

\* The row names no peer or the one decided, or the decision was for no peer.
Agrees(row) ==
    row.peer # 0 => /\ row.dst \in DOMAIN At(decided, row.probe)
                    /\ \/ At(decided, row.probe)[row.dst] = row.peer
                       \/ /\ At(decided, row.probe)[row.dst] = 0
                          /\ \E c \in MinRtts : c <= row.avg

WalkType(w) == DOMAIN w = {"dst", "last", "left", "peer"} /\ w.dst \in Dst \cup {0} /\ w.last \in Nat

DataInv ==
    /\ DOMAIN r \subseteq Dst
    /\ \A d \in DOMAIN r : \A q \in DOMAIN r[d] : \A n \in DOMAIN r[d][q] :
          n \in Peer /\ r[d][q][n] \in Metric
    /\ pc = "scan" => \A d \in DOMAIN r : probe_id \in DOMAIN r[d]
    /\ WalkType(scan) /\ \A k \in DOMAIN log : WalkType(log[k].walk)
    /\ pc # "scan" => scan = Idle
    /\ loaded \in MinRtts

\* Only threads of settled rounds write rows.
ProbeInv ==
    /\ \A k \in DOMAIN log :
          /\ log[k].at = "start" => ithlog \in Nat /\ Settled(ithlog)
          /\ log[k].at # "start" => log[k].probe \in Nat /\ Settled(log[k].probe)
          /\ \A row \in log[k].rows : row.probe \in Nat /\ Settled(row.probe)
    /\ \A row \in table : row.probe \in Nat /\ Settled(row.probe)

\* At most one walk is inside a destination.
OneInside ==
    /\ scan.dst # 0 => \A k \in DOMAIN log : log[k].walk.dst = 0
    /\ \A j, k \in DOMAIN log : log[j].walk.dst # 0 /\ log[k].walk.dst # 0 => j = k

\* How far the scan has come.
ScanInv ==
    pc = "scan" =>
        /\ scan.dst # 0 => /\ scan.dst \in DOMAIN r
                            /\ Walked(scan, Data(scan.dst, probe_id), probe_id, min_rtt, loaded)
        /\ \A d \in DOMAIN r : d <= scan.last /\ d # scan.dst => Decided(d, probe_id)

\* A log thread searches what is still there of what the scan has searched.
LogInv ==
    \A k \in DOMAIN log :
        LET w == log[k].walk
            rtt == Data(w.dst, log[k].probe)
        IN  w.dst # 0 /\ DOMAIN rtt # {} => Walked(w, rtt, log[k].probe, min_rtt, loaded)

DecidedInv ==
    \A d \in Dst : \A q \in 0 .. probe_id :
        Settled(q) /\ DOMAIN Data(d, q) # {} => Decided(d, q)

RowsInv == \A k \in DOMAIN log : \A row \in log[k].rows : Agrees(row)
TableInv == \A row \in table : Agrees(row)

SearchInv == OneInside /\ ScanInv /\ LogInv /\ DecidedInv /\ RowsInv

(***************************************************************************)
(* The inductive invariant of the searches.                                *)
(***************************************************************************)
HInv ==
    /\ Running => DataInv /\ ProbeInv
    /\ Running /\ ~mixed => SearchInv
    /\ ~mixed => TableInv
----------------------------------------------------------------------------
\* A set of numbers that is not empty has a least element.
LEMMA MinFirst ==
    ASSUME NEW S, S \subseteq Nat, S # {}
    PROVE  Min(S) \in S /\ \A n \in S : Min(S) <= n
<1> DEFINE Less == {p \in Nat \X Nat : p[1] < p[2]}
<1>1. IsWellFoundedOn(Less, Nat)
  BY Zenon, NatLessThanWellFounded DEF OpToRel
<1> HIDE DEF Less
<1>2. PICK x \in S : \A y \in S : ~(<<y, x>> \in Less)
  BY <1>1, WFMin
<1>3. ASSUME NEW y \in S PROVE x <= y
  <2>1. <<y, x>> \in Nat \X Nat /\ <<y, x>>[1] = y /\ <<y, x>>[2] = x
    OBVIOUS
  <2>2. ~(y < x)
    BY <1>2, <2>1 DEF Less
  <2> QED
    BY <2>2
<1> QED
  BY <1>3 DEF Min

\* What Data stands for.
LEMMA DataThere ==
    /\ \A d, q : d \in DOMAIN r /\ q \in DOMAIN r[d] => Data(d, q) = r[d][q]
    /\ \A d, q : DOMAIN Data(d, q) # {} => d \in DOMAIN r /\ q \in DOMAIN r[d]
  BY DEF Data, At, Empty

\* One comparison of a walk, whatever the metrics are.
LEMMA CompareWalked ==
    ASSUME NEW w, NEW rtt, NEW q \in Nat,
           DOMAIN rtt \subseteq Nat \ {0}, \A n \in DOMAIN rtt : rtt[n] \in Nat,
           DOMAIN w = {"dst", "last", "left", "peer"},
           NEW from \in Nat, Walked(w, rtt, q, min_rtt, from), w.left # {}
    PROVE  LET n == Min(w.left)
           IN  /\ n \in DOMAIN rtt
               /\ Walked(Compare(w, rtt[n], q), rtt, q,
                         IF Better(rtt[n], q) THEN rtt[n] ELSE min_rtt, from)
<1> DEFINE n == Min(w.left)
           v == Compare(w, rtt[n], q)
           seen == DOMAIN rtt \ w.left
<1>1. /\ w.left \subseteq DOMAIN rtt /\ n \in w.left /\ \A k \in w.left : n <= k
      /\ n \in Nat \ {0} /\ n \in DOMAIN rtt /\ rtt[n] \in Nat
  BY MinFirst DEF Walked
<1>2. /\ v.left = IF q = 0 THEN {} ELSE w.left \ {n}
      /\ v.peer = IF Better(rtt[n], q) THEN n ELSE w.peer
  BY DEF Compare
<1> HIDE DEF n, v
<1>3. CASE q = 0
  <2>1. w.left = DOMAIN rtt
    BY <1>3 DEF Walked
  <2>2. v.left = {} /\ v.peer = Min(DOMAIN rtt)
    BY <1>2, <1>3, <2>1 DEF Better, n
  <2> QED
    BY <1>1, <1>3, <2>2 DEF Walked, n, v
<1>4. CASE q # 0
  <2>1. /\ \A k \in seen : \A j \in w.left : k < j
        /\ Best(rtt, seen, w.peer, min_rtt, from)
    BY <1>4 DEF Walked
  <2>2. DOMAIN rtt \ v.left = seen \cup {n} /\ v.left \subseteq DOMAIN rtt
    BY <1>1, <1>2, <1>4
  <2>3. ASSUME NEW k \in seen \cup {n}, NEW j \in v.left PROVE k < j
    <3>1. CASE k = n
      <4>1. j \in Nat /\ n <= j /\ n # j
        BY <1>1, <1>2, <1>4
      <4> QED
        BY <1>1, <3>1, <4>1
    <3>2. CASE k # n
      BY <1>2, <1>4, <2>1, <3>2
    <3> QED
      BY <3>1, <3>2
  <2>4. min_rtt \in Nat /\ min_rtt <= from
    BY <2>1 DEF Best
  <2>5. CASE rtt[n] < min_rtt
    <3>1. \A k \in seen : rtt[n] < rtt[k]
      BY <1>1, <2>1, <2>4, <2>5 DEF Best
    <3>2. Best(rtt, seen \cup {n}, n, rtt[n], from)
      BY <1>1, <2>4, <2>5, <3>1 DEF Best
    <3>3. Better(rtt[n], q) /\ v.peer = n
      BY <1>2, <2>5 DEF Better
    <3> QED
      BY <1>4, <2>2, <2>3, <3>2, <3>3 DEF Walked, n, v
  <2>6. CASE ~(rtt[n] < min_rtt)
    <3>1. rtt[n] >= min_rtt
      BY <1>1, <2>4, <2>6
    <3>2. w.peer # 0 => w.peer < n
      BY <1>1, <2>1 DEF Best
    <3>3. Best(rtt, seen \cup {n}, w.peer, min_rtt, from)
      BY <1>1, <2>1, <2>4, <3>1, <3>2 DEF Best
    <3>4. ~Better(rtt[n], q) /\ v.peer = w.peer
      BY <1>2, <1>4, <2>6 DEF Better
    <3> QED
      BY <1>4, <2>2, <2>3, <3>3, <3>4 DEF Walked, n, v
  <2> QED
    BY <2>5, <2>6
<1> QED
  BY <1>1, <1>3, <1>4 DEF n, v

\* A walk that has compared all peers has found the least.
LEMMA WalkedLeast ==
    ASSUME NEW w, NEW rtt, NEW q \in Nat, NEW least, NEW from \in Nat,
           DOMAIN rtt \subseteq Nat \ {0}, \A n \in DOMAIN rtt : rtt[n] \in Nat,
           Walked(w, rtt, q, least, from), w.left = {}
    PROVE  w.peer = Least(rtt, q, from)
<1> DEFINE low == {n \in DOMAIN rtt : rtt[n] < from /\ \A k \in DOMAIN rtt : rtt[n] <= rtt[k]}
<1>1. CASE q = 0
  BY <1>1 DEF Walked, Least
<1>2. CASE q # 0
  <2>1. Best(rtt, DOMAIN rtt, w.peer, least, from)
    BY <1>2 DEF Walked
  <2>2. CASE w.peer = 0
    <3>1. low = {}
      BY <2>1, <2>2 DEF Best
    <3> QED
      BY <1>2, <2>2, <3>1 DEF Least
  <2>3. CASE w.peer # 0
    <3>1. w.peer \in low /\ \A n \in low : w.peer <= n
      BY <2>1, <2>3 DEF Best
    <3>2. low \subseteq Nat /\ low # {}
      BY <3>1
    <3>3. Min(low) \in low /\ Min(low) <= w.peer
      BY <3>1, <3>2, MinFirst
    <3>4. w.peer = Min(low)
      BY <3>1, <3>2, <3>3
    <3> QED
      BY <1>2, <3>2, <3>4 DEF Least
  <2> QED
    BY <2>2, <2>3
<1> QED
  BY <1>1, <1>2

\* Two searches of the same measurements from different values find the same peer, or
\* one of them finds none below the value it started with.
LEMMA LeastAgrees ==
    ASSUME NEW rtt, NEW q \in Nat, NEW from \in Nat, NEW c \in Nat,
           DOMAIN rtt \subseteq Nat \ {0}, \A n \in DOMAIN rtt : rtt[n] \in Nat,
           Least(rtt, q, from) # 0
    PROVE  \/ Least(rtt, q, c) = Least(rtt, q, from)
           \/ Least(rtt, q, c) = 0 /\ c <= rtt[Least(rtt, q, from)]
<1> DEFINE low(a) == {n \in DOMAIN rtt : rtt[n] < a /\ \A k \in DOMAIN rtt : rtt[n] <= rtt[k]}
           n == Min(low(from))
<1>1. CASE q = 0
  BY <1>1 DEF Least
<1>2. CASE q # 0
  <2>1. \A a : Least(rtt, q, a) = IF low(a) = {} THEN 0 ELSE Min(low(a))
    BY <1>2 DEF Least
  <2>2. low(from) # {} /\ low(from) \subseteq Nat /\ Least(rtt, q, from) = n
    BY <2>1
  <2>3. n \in low(from)
    BY <2>2, MinFirst
  <2>4. CASE rtt[n] < c
    <3>1. \A k \in DOMAIN rtt : k \in low(c) <=> k \in low(from)
      BY <2>3, <2>4
    <3>2. low(c) = low(from)
      BY <3>1
    <3> QED
      BY <2>1, <3>2
  <2>5. CASE ~(rtt[n] < c)
    <3>1. low(c) = {}
      BY <2>3, <2>5
    <3>2. c <= rtt[n]
      BY <2>3, <2>5
    <3> QED
      BY <2>1, <2>2, <3>1, <3>2
  <2> QED
    BY <2>4, <2>5
<1> QED
  BY <1>1, <1>2

\* A walk that enters the next destination.
LEMMA EnterWalked ==
    ASSUME DataInv, NEW w, WalkType(w), Following(w) # {}, NEW q \in Nat, NEW from \in Nat
    PROVE  LET v == Enter(w, q)
           IN  /\ WalkType(v) /\ v.dst \in DOMAIN r /\ v.dst # 0 /\ v.last = v.dst
               /\ \A d \in DOMAIN r : d <= v.last /\ d # v.dst => d <= w.last
               /\ v.left = DOMAIN Data(v.dst, q) /\ v.peer = 0
               /\ Walked(v, Data(v.dst, q), q, from, from)
<1> DEFINE v == Enter(w, q)
           d == Min(Following(w))
<1>1. /\ Following(w) \subseteq Nat /\ DOMAIN r \subseteq Dst /\ Dst \subseteq Nat \ {0}
      /\ w.last \in Nat
  BY SqlLogAssumption DEF DataInv, Following, WalkType
<1>2. d \in Following(w) /\ \A e \in Following(w) : d <= e
  BY <1>1, MinFirst
<1>3. v = [dst |-> d, last |-> d, left |-> DOMAIN Data(d, q), peer |-> 0]
  BY <1>2 DEF Enter, Data, At, Following
<1>4. WalkType(v) /\ v.dst \in DOMAIN r /\ v.dst # 0 /\ v.last = v.dst
  BY <1>1, <1>2, <1>3 DEF WalkType, Following
<1>5. ASSUME NEW e \in DOMAIN r, e <= d, e # d PROVE e <= w.last
  <2> HIDE DEF d
  <2>1. e \notin Following(w)
    BY <1>1, <1>2, <1>5
  <2> QED
    <3>1. e \in Nat /\ w.last \in Nat
      BY <1>1, <1>5
    <3>2. ~(e > w.last)
      BY <1>5, <2>1 DEF Following
    <3> QED
      BY <3>1, <3>2
<1>6. Walked(v, Data(d, q), q, from, from)
  BY <1>3 DEF Walked, Best
<1> QED
  BY <1>3, <1>4, <1>5, <1>6

----------------------------------------------------------------------------
\* What a round measures, and what of the earlier rounds stays.
LEMMA MeasureData ==
    ASSUME Measure, Running'
    PROVE  /\ pc = "measure" /\ pc' = "scan" /\ probe_id' = probe_id
           /\ DOMAIN r' \subseteq Dst
           /\ \A d \in DOMAIN r' : probe_id \in DOMAIN r'[d]
           /\ \A d : \A n \in DOMAIN Data(d, probe_id)' :
                 n \in Peer /\ Data(d, probe_id)'[n] \in Metric
           /\ \A d, q : q # probe_id =>
                 Data(d, q)' = Data(d, q) \/ DOMAIN Data(d, q)' = {}
<1>1. ~Die("race")
  BY DEF Die, Running
<1>2. PICK S \in SUBSET Dst : \E m \in [S -> Replies] :
              r' = [d \in S |-> Put(At(r, d), probe_id, m[d])]
  BY <1>1 DEF Measure
<1>3. PICK m \in [S -> Replies] : r' = [d \in S |-> Put(At(r, d), probe_id, m[d])]
  BY <1>2
<1>4. pc = "measure" /\ pc' = "scan" /\ probe_id' = probe_id
  BY <1>1 DEF Measure
<1>5. DOMAIN r' = S
  BY <1>3
<1>6. ASSUME NEW d \in S
      PROVE  /\ probe_id \in DOMAIN r'[d]
             /\ Data(d, probe_id)' = m[d]
             /\ \A q : q # probe_id => Data(d, q)' = Data(d, q)
  <2>1. r'[d] = Put(At(r, d), probe_id, m[d]) /\ d \in DOMAIN r'
    BY <1>3
  <2>2. At(r', d) = Put(At(r, d), probe_id, m[d])
    BY <2>1 DEF At
  <2>3. At(Put(At(r, d), probe_id, m[d]), probe_id) = m[d]
    BY DEF At, Put
  <2>4. ASSUME NEW q, q # probe_id
        PROVE  At(Put(At(r, d), probe_id, m[d]), q) = At(At(r, d), q)
    <3> DEFINE f == At(r, d)
    <3> HIDE DEF f
    <3>1. At(Put(f, probe_id, m[d]), q) = At(f, q)
      BY <2>4 DEF At, Put
    <3> QED
      BY <3>1 DEF f
  <2> QED
    BY <1>4, <2>1, <2>2, <2>3, <2>4 DEF Put, Data
<1>7. ASSUME NEW d, d \notin S PROVE \A q : DOMAIN Data(d, q)' = {}
  BY <1>5, <1>7 DEF Data, At, Empty
<1>8. ASSUME NEW d \in S, NEW n \in DOMAIN m[d] PROVE n \in Peer /\ m[d][n] \in Metric
  <2>1. m[d] \in UNION {[P -> Metric] : P \in SUBSET Peer}
    BY SqlLogAssumption
  <2>2. PICK P \in SUBSET Peer : m[d] \in [P -> Metric]
    BY <2>1
  <2> QED
    BY <1>8, <2>2
<1>9. ASSUME NEW d, NEW n \in DOMAIN Data(d, probe_id)'
      PROVE  n \in Peer /\ Data(d, probe_id)'[n] \in Metric
  BY <1>6, <1>7, <1>8, <1>9
<1> QED
  BY <1>4, <1>5, <1>6, <1>7, <1>9

\* What is freed and erased.
LEMMA DeleteData ==
    ASSUME Delete, Running'
    PROVE  /\ pc = "delete" /\ pc' = "signals" /\ probe_id' = probe_id
           /\ DOMAIN r' \subseteq DOMAIN r
           /\ \A d, q : Data(d, q)' = Data(d, q) \/ DOMAIN Data(d, q)' = {}
<1>1. ~Die("race")
  BY DEF Die, Running
<1>2. PICK S \in SUBSET DOMAIN r :
          r' = [d \in S |-> IF probe_id < 2 THEN r[d] ELSE Put(r[d], probe_id - 2, Empty)]
  BY <1>1 DEF Delete
<1>3. pc = "delete" /\ pc' = "signals" /\ probe_id' = probe_id
  BY <1>1 DEF Delete
<1>4. ASSUME NEW d, NEW q PROVE Data(d, q)' = Data(d, q) \/ DOMAIN Data(d, q)' = {}
  <2>1. CASE d \notin S
    BY <1>2, <2>1 DEF Data, At, Empty
  <2>2. CASE d \in S /\ probe_id < 2
    BY <1>2, <2>2 DEF Data, At
  <2>3. CASE d \in S /\ ~(probe_id < 2)
    <3>1. r'[d] = Put(r[d], probe_id - 2, Empty) /\ d \in DOMAIN r' /\ d \in DOMAIN r
      BY <1>2, <2>3
    <3>2. At(r', d) = Put(r[d], probe_id - 2, Empty) /\ At(r, d) = r[d]
      BY <3>1 DEF At
    <3> QED
      BY <3>2 DEF Put, Data, At, Empty
  <2> QED
    BY <2>1, <2>2, <2>3
<1> QED
  BY <1>2, <1>3, <1>4

\* A comparison leaves the walk at its destination.
LEMMA CompareType ==
    ASSUME NEW w, WalkType(w), NEW rtt, NEW q
    PROVE  /\ WalkType(Compare(w, rtt, q))
           /\ Compare(w, rtt, q).dst = w.dst /\ Compare(w, rtt, q).last = w.last
  BY DEF WalkType, Compare

\* The step of a log thread in the history: its walk, its rows, the table.
LEMMA LoggerWalk ==
    ASSUME QInv, DataInv, NEW k \in DOMAIN log, Logger(k), Running'
    PROVE  /\ UNCHANGED <<pc, probe_id, scan, decided, ithlog, r>>
           /\ DOMAIN log' = DOMAIN log /\ \A j \in DOMAIN log \ {k} : log'[j] = log[j]
           /\ DOMAIN log'[k] = DOMAIN log[k]
           /\ WalkType(log'[k].walk)
           /\ log'[k].probe = IF log[k].at = "start" THEN ithlog ELSE log[k].probe
           /\ log'[k].at # "start"
<1> USE DEF QInv, ThreadInv, main
<1>1. /\ WalkType(log[k].walk) /\ Running /\ pc' # "dead"
      /\ DOMAIN log[k] = {"at", "probe", "walk", "rows"}
  BY DEF DataInv, Logger, LogStart, LogEnter, LogPeer, LogLeave, LogCommit, Running
<1>2. CASE LogStart(k)
  BY <1>1, <1>2 DEF LogStart, Die
<1>3. CASE LogEnter(k)
  <2>1. WalkType(Enter(log[k].walk, log[k].probe))
    <3>1. /\ Following(log[k].walk) \subseteq Nat /\ Following(log[k].walk) # {}
          /\ DOMAIN r \subseteq Dst /\ Following(log[k].walk) \subseteq DOMAIN r
      BY <1>3, SqlLogAssumption DEF LogEnter, DataInv, Following
    <3>2. Min(Following(log[k].walk)) \in Dst /\ Min(Following(log[k].walk)) \in Nat
      BY <3>1, MinFirst
    <3> QED
      BY <3>2 DEF Enter, WalkType
  <2> QED
    BY <1>3, <2>1 DEF LogEnter
<1>4. CASE LogPeer(k)
  <2>1. /\ log' = [log EXCEPT ![k].walk =
              Compare(log[k].walk, r[log[k].walk.dst][log[k].probe][Min(log[k].walk.left)],
                      log[k].probe)]
        /\ log[k].at = "walk" /\ UNCHANGED <<main, r>>
    BY <1>1, <1>4 DEF LogPeer, Die
  <2> QED
    BY <1>1, <2>1, CompareType
<1>5. CASE LogLeave(k)
  BY <1>1, <1>5 DEF LogLeave, Die, Idle, WalkType
<1>6. CASE LogCommit(k)
  BY <1>1, <1>6 DEF LogCommit, Die
<1> QED
  BY <1>2, <1>3, <1>4, <1>5, <1>6 DEF Logger

\* What a settled round is stays settled.
LEMMA SettledStays ==
    ASSUME QInv, [Next]_vars, Running', NEW q \in Nat, Settled(q)
    PROVE  Settled(q)'
<1>1. CASE \/ Measure \/ ScanEnter \/ ScanPeer \/ ScanLeave \/ SetArgument \/ Spawn
           \/ Delete \/ NextRound \/ Reread
  BY <1>1, DeleteData, MeasureData DEF ScanEnter, ScanPeer, ScanLeave, SetArgument, Spawn,
     NextRound, Reread, Settled, QInv, ThreadInv
<1>2. CASE Shutdown
  BY <1>2 DEF Shutdown, Running
<1>3. ASSUME NEW k \in DOMAIN log, Logger(k) PROVE Settled(q)'
  BY <1>3, LoggerSteps DEF Running, Settled
<1>4. CASE UNCHANGED vars
  BY <1>4 DEF vars, main, Settled
<1> QED
  BY <1>1, <1>2, <1>3, <1>4 DEF Next, Finished

\* The measurements keep their type.
LEMMA NextDataInv ==
    ASSUME QInv, DataInv, [Next]_vars, Running'
    PROVE  DataInv'
<1>1. CASE Measure
  <2>1. ASSUME NEW d \in DOMAIN r', NEW q \in DOMAIN r'[d], NEW n \in DOMAIN r'[d][q]
        PROVE  n \in Peer /\ r'[d][q][n] \in Metric
    <3>1. r'[d][q] = Data(d, q)'
      BY DEF Data, At
    <3>2. CASE q = probe_id
      <4>1. Data(d, probe_id)' = Data(d, q)'
        BY <1>1, <3>2, MeasureData DEF Data
      <4> QED
        BY <1>1, <3>1, <4>1, MeasureData
    <3>3. CASE q # probe_id
      <4>1. n \in DOMAIN Data(d, q) /\ Data(d, q)' = Data(d, q)
        BY <1>1, <3>1, <3>3, MeasureData
      <4>2. d \in DOMAIN r /\ q \in DOMAIN r[d] /\ r[d][q] = Data(d, q)
        BY <4>1, DataThere
      <4> QED
        BY <3>1, <4>1, <4>2 DEF DataInv
    <3> QED
      BY <3>2, <3>3
  <2>2. UNCHANGED <<scan, log, loaded>> /\ scan = Idle
    BY <1>1 DEF Measure, Die, Running, DataInv, global
  <2> QED
    BY <1>1, <2>1, <2>2, MeasureData DEF DataInv
<1>2. CASE Delete
  <2>1. ASSUME NEW d \in DOMAIN r', NEW q \in DOMAIN r'[d], NEW n \in DOMAIN r'[d][q]
        PROVE  n \in Peer /\ r'[d][q][n] \in Metric
    <3>1. r'[d][q] = Data(d, q)'
      BY DEF Data, At
    <3>2. n \in DOMAIN Data(d, q) /\ Data(d, q)' = Data(d, q)
      BY <1>2, <3>1, DeleteData
    <3>3. d \in DOMAIN r /\ q \in DOMAIN r[d] /\ r[d][q] = Data(d, q)
      BY <3>2, DataThere
    <3> QED
      BY <3>1, <3>2, <3>3 DEF DataInv
  <2>2. UNCHANGED <<scan, log, loaded>>
    BY <1>2 DEF Delete, Die, Running, global
  <2> QED
    BY <1>2, <2>1, <2>2, DeleteData DEF DataInv
<1>3. CASE ScanEnter
  <2>1. UNCHANGED <<pc, probe_id, r, log, loaded>> /\ pc = "scan" /\ scan' = Enter(scan, probe_id)
    BY <1>3 DEF ScanEnter, global
  <2>2. WalkType(Enter(scan, probe_id))
    BY <1>3, EnterWalked DEF ScanEnter, DataInv, QInv, ThreadInv
  <2> QED
    BY <2>1, <2>2 DEF DataInv
<1>4. CASE ScanPeer
  <2>1. UNCHANGED <<pc, probe_id, r, log, loaded>> /\ pc = "scan"
        /\ scan' = Compare(scan, r[scan.dst][probe_id][Min(scan.left)], probe_id)
    BY <1>4 DEF ScanPeer
  <2> QED
    BY <2>1, CompareType DEF DataInv
<1>5. CASE ScanLeave
  <2>1. UNCHANGED <<pc, probe_id, r, log>> /\ pc = "scan" /\ loaded' = MinRtt
        /\ scan' = [Idle EXCEPT !.last = scan.last]
    BY <1>5 DEF ScanLeave, Leave
  <2> QED
    BY <2>1 DEF DataInv, WalkType, Idle, MinRtts
<1>6. CASE Spawn
  <2>1. UNCHANGED <<probe_id, r, loaded>> /\ pc = "spawn" /\ pc' = "delete" /\ scan' = scan
    BY <1>6 DEF Spawn, global
  <2>2. \A k \in DOMAIN log' : \/ log'[k].walk = Idle
                               \/ k \in DOMAIN log /\ log'[k].walk = log[k].walk
    BY <1>6 DEF Spawn, Put
  <2>3. WalkType(Idle)
    BY DEF WalkType, Idle
  <2> QED
    BY <2>1, <2>2, <2>3 DEF DataInv, WalkType
<1>7. CASE Shutdown
  BY <1>7 DEF Shutdown, Running
<1>8. ASSUME NEW k \in DOMAIN log, Logger(k) PROVE DataInv'
  <2>1. loaded' \in MinRtts
    BY <1>8, LoggerSteps DEF LogLeave, Leave, DataInv, MinRtts
  <2> QED
    BY <1>8, <2>1, LoggerWalk DEF DataInv, WalkType
<1>9. CASE UNCHANGED vars
  BY <1>9 DEF vars, main, global, DataInv, WalkType
<1>10. CASE SetArgument
  <2>1. UNCHANGED <<probe_id, r, log, loaded>> /\ pc' = "spawn" /\ scan' = Idle
    BY <1>10 DEF SetArgument, global
  <2>2. WalkType(Idle)
    BY DEF WalkType, Idle
  <2> QED
    BY <2>1, <2>2 DEF DataInv, WalkType
<1>11. CASE NextRound \/ Reread
  <2>1. UNCHANGED <<scan, r, log>> /\ pc = "signals" /\ pc' = "measure" /\ scan = Idle
        /\ loaded' \in MinRtts
    BY <1>11 DEF NextRound, Reread, global, DataInv, MinRtts
  <2> QED
    BY <2>1 DEF DataInv, WalkType
<1> QED
  BY <1>1, <1>2, <1>3, <1>4, <1>5, <1>6, <1>7, <1>8, <1>9, <1>10, <1>11 DEF Next, Finished

\* The rounds of the threads and of their rows are settled.
LEMMA NextProbeInv ==
    ASSUME QInv, DataInv, ProbeInv, [Next]_vars, Running'
    PROVE  ProbeInv'
<1>1. CASE UNCHANGED <<log, ithlog, table>>
  BY <1>1, SettledStays DEF ProbeInv
<1>2. CASE Spawn
  <2>1. /\ ithlog' = probe_id /\ probe_id' = probe_id /\ pc' = "delete" /\ table' = table
        /\ probe_id \in Nat
    BY <1>2 DEF Spawn, QInv, ThreadInv, ArgumentInv
  <2>2. Settled(probe_id)'
    BY <2>1 DEF Settled
  <2>3. \A k \in DOMAIN log' :
          \/ log'[k].at = "start" /\ log'[k].rows = {}
          \/ k \in DOMAIN log /\ log'[k] = log[k]
    BY <1>2 DEF Spawn, Put
  <2>4. Settled(ithlog)'
    BY <2>1, <2>2
  <2> QED
    BY <2>1, <2>3, <2>4, SettledStays DEF ProbeInv
<1>3. ASSUME NEW k \in DOMAIN log, Logger(k) PROVE ProbeInv'
  <2>1. /\ ithlog' = ithlog /\ DOMAIN log' = DOMAIN log
        /\ \A j \in DOMAIN log \ {k} : log'[j] = log[j]
        /\ log'[k].probe = IF log[k].at = "start" THEN ithlog ELSE log[k].probe
        /\ log'[k].at # "start"
    BY <1>3, LoggerWalk
  <2>2. log'[k].probe \in Nat /\ Settled(log'[k].probe)
    BY <2>1 DEF ProbeInv
  <2>3. /\ \A row \in log'[k].rows : row \in log[k].rows \/ row.probe = log'[k].probe
        /\ \A row \in table' : row \in table \/ row \in log[k].rows
    <3>1. DOMAIN log[k] = {"at", "probe", "walk", "rows"} /\ pc' # "dead"
      BY DEF QInv, ThreadInv, Running
    <3>2. CASE LogStart(k) \/ LogEnter(k) \/ LogPeer(k)
      BY <3>1, <3>2 DEF LogStart, LogEnter, LogPeer, Die
    <3>3. CASE LogLeave(k)
      BY <3>1, <3>3 DEF LogLeave, Die, Row
    <3>4. CASE LogCommit(k)
      BY <3>1, <3>4 DEF LogCommit, Die
    <3> QED
      BY <1>3, <3>2, <3>3, <3>4 DEF Logger
  <2>4. \A j \in DOMAIN log' : \A row \in log'[j].rows : row.probe \in Nat /\ Settled(row.probe)
    BY <2>1, <2>2, <2>3 DEF ProbeInv
  <2>5. \A row \in table' : row.probe \in Nat /\ Settled(row.probe)
    BY <2>3 DEF ProbeInv
  <2>6. \A q \in Nat : Settled(q) => Settled(q)'
    BY SettledStays
  <2> QED
    BY <2>1, <2>2, <2>4, <2>5, <2>6 DEF ProbeInv
<1>4. CASE SetArgument
  <2>1. /\ UNCHANGED <<log, table, probe_id>> /\ ithlog' = probe_id /\ pc' = "spawn"
        /\ probe_id \in Nat
    BY <1>4 DEF SetArgument, QInv, ThreadInv
  <2>2. Settled(ithlog)'
    BY <2>1 DEF Settled
  <2> QED
    BY <2>1, <2>2, SettledStays DEF ProbeInv
<1> QED
  BY <1>1, <1>2, <1>3, <1>4 DEF Next, Finished, Measure, ScanEnter, ScanPeer, ScanLeave, Delete,
     Shutdown, NextRound, Reread, Die, vars, main

----------------------------------------------------------------------------
\* What a walk compares: numbers of peers and metrics.
LEMMA DataType ==
    ASSUME DataInv, NEW d, NEW q
    PROVE  /\ DOMAIN Data(d, q) \subseteq Nat \ {0}
           /\ \A n \in DOMAIN Data(d, q) : Data(d, q)[n] \in Nat
<1>1. CASE DOMAIN Data(d, q) = {}
  BY <1>1
<1>2. CASE DOMAIN Data(d, q) # {}
  <2>1. d \in DOMAIN r /\ q \in DOMAIN r[d] /\ Data(d, q) = r[d][q]
    BY <1>2, DataThere
  <2> QED
    BY <2>1, SqlLogAssumption DEF DataInv
<1> QED
  BY <1>1, <1>2

\* Measuring and erasing between two scans.
LEMMA RoundSearch ==
    ASSUME QInv, DataInv, ProbeInv, SearchInv, Measure \/ Delete, Running'
    PROVE  SearchInv'
<1>1. UNCHANGED <<scan, log, decided, min_rtt, loaded>> /\ scan = Idle
  BY DEF Measure, Delete, Die, Running, DataInv, global
<1>2. ASSUME NEW q \in Nat, Settled(q)' PROVE Settled(q) /\ (Measure => q # probe_id)
  BY <1>2, MeasureData, DeleteData DEF Settled, QInv, ThreadInv
<1>3. \A q \in Nat : Settled(q) => Settled(q)'
  BY SettledStays DEF Next
<1>4. ASSUME NEW d, NEW q \in Nat, Settled(q)
      PROVE  Data(d, q)' = Data(d, q) \/ DOMAIN Data(d, q)' = {}
  BY <1>2, <1>3, <1>4, MeasureData, DeleteData
<1>5. OneInside'
  BY <1>1 DEF SearchInv, OneInside
<1>6. ScanInv'
  <2>1. DOMAIN r' \subseteq Nat \ {0} \/ pc' # "scan"
    BY MeasureData, DeleteData, SqlLogAssumption
  <2>2. scan' = Idle
    BY <1>1
  <2> QED
    BY <2>1, <2>2 DEF ScanInv, Idle
<1>7. LogInv'
  <2> SUFFICES ASSUME NEW k \in DOMAIN log, log[k].walk.dst # 0,
                      DOMAIN Data(log[k].walk.dst, log[k].probe)' # {}
               PROVE  Walked(log[k].walk, Data(log[k].walk.dst, log[k].probe)', log[k].probe,
                             min_rtt, loaded)
    BY <1>1 DEF LogInv, Data
  <2>1. log[k].probe \in Nat /\ Settled(log[k].probe)
    BY DEF QInv, ThreadInv, ProbeInv
  <2>2. Data(log[k].walk.dst, log[k].probe)' = Data(log[k].walk.dst, log[k].probe)
    <3>1. \A d, q : q = log[k].probe => Data(d, q)' = Data(d, q) \/ DOMAIN Data(d, q)' = {}
      BY <1>4, <2>1
    <3>2. \A d, q : d = log[k].walk.dst /\ q = log[k].probe =>
             Data(log[k].walk.dst, log[k].probe)' = Data(d, q)'
      BY <1>1 DEF Data
    <3> QED
      BY <3>1, <3>2
  <2> QED
    BY <2>2 DEF SearchInv, LogInv
<1>8. DecidedInv'
  <2> SUFFICES ASSUME NEW d \in Dst, NEW q \in Nat, Settled(q)', DOMAIN Data(d, q)' # {}
               PROVE  Decided(d, q)'
    BY DEF DecidedInv, Settled, QInv, ThreadInv
  <2>1. Settled(q) /\ Data(d, q)' = Data(d, q)
    BY <1>2, <1>4
  <2>2. Decided(d, q)
    BY <2>1 DEF SearchInv, DecidedInv, Settled, QInv, ThreadInv
  <2> QED
    BY <1>1, <2>1, <2>2 DEF Decided
<1>9. RowsInv'
  BY <1>1 DEF SearchInv, RowsInv, Agrees
<1> QED
  BY <1>5, <1>6, <1>7, <1>8, <1>9 DEF SearchInv

\* The next round, with or without a reread that meets no walk inside a destination.
LEMMA SignalsSearch ==
    ASSUME QInv, DataInv, SearchInv, NextRound \/ Reread, ~mixed' PROVE SearchInv'
<1>1. /\ UNCHANGED <<scan, decided, r, log>> /\ pc = "signals" /\ pc' = "measure" /\ scan = Idle
      /\ probe_id' = probe_id + 1 /\ probe_id \in Nat
  BY DEF NextRound, Reread, DataInv, QInv, ThreadInv
<1>2. \A d, q : Data(d, q)' = Data(d, q) /\ Decided(d, q)' = Decided(d, q)
  BY <1>1 DEF Data, Decided
<1>3. \A q \in Nat : Settled(q)' => Settled(q)
  BY <1>1 DEF Settled
<1>4. OneInside' /\ ScanInv' /\ RowsInv'
  BY <1>1 DEF SearchInv, OneInside, ScanInv, RowsInv, Agrees
<1>5. LogInv'
  <2>1. CASE NextRound
    <3>1. UNCHANGED <<min_rtt, loaded>>
      BY <2>1 DEF NextRound, global
    <3> QED
      BY <1>1, <3>1 DEF SearchInv, LogInv, Data
  <2>2. CASE Reread
    <3>1. ~Inside
      BY <2>2 DEF Reread
    <3> QED
      BY <1>1, <3>1 DEF Inside, LogInv
  <2> QED
    BY <2>1, <2>2
<1>6. DecidedInv'
  <2> SUFFICES ASSUME NEW d \in Dst, NEW q \in Nat, Settled(q)', DOMAIN Data(d, q) # {}
               PROVE  Decided(d, q)
    BY <1>1, <1>2 DEF DecidedInv
  <2> QED
    BY <1>1, <1>3 DEF SearchInv, DecidedInv, Settled
<1> QED
  BY <1>4, <1>5, <1>6 DEF SearchInv

\* The scan enters a destination while nobody is inside one.
LEMMA ScanEnterSearch ==
    ASSUME QInv, DataInv, SearchInv, ScanEnter, ~mixed' PROVE SearchInv'
<1>1. /\ UNCHANGED <<pc, probe_id, decided, r, min_rtt, loaded, log>> /\ pc = "scan" /\ scan.dst = 0
      /\ scan' = Enter(scan, probe_id) /\ ~Inside /\ WalkType(scan) /\ Following(scan) # {}
      /\ probe_id \in Nat /\ loaded \in Nat
  BY SqlLogAssumption DEF ScanEnter, DataInv, QInv, ThreadInv, global, MinRtts
<1>2. min_rtt = loaded /\ \A k \in DOMAIN log : log[k].walk.dst = 0
  BY <1>1 DEF QInv, MinRttRestored, Running, Inside
<1>3. /\ scan'.dst \in DOMAIN r
      /\ \A d \in DOMAIN r : d <= scan'.last /\ d # scan'.dst => d <= scan.last
      /\ Walked(scan', Data(scan'.dst, probe_id), probe_id, loaded, loaded)
  BY <1>1, EnterWalked
<1>4. \A d, q : Data(d, q)' = Data(d, q) /\ Decided(d, q)' = Decided(d, q) /\ Settled(q)' = Settled(q)
  BY <1>1 DEF Data, Decided, Settled
<1>5. ScanInv'
  <2>1. Walked(scan', Data(scan'.dst, probe_id), probe_id, min_rtt, loaded)
    BY <1>2, <1>3
  <2>2. ASSUME NEW d \in DOMAIN r, d <= scan'.last, d # scan'.dst PROVE Decided(d, probe_id)'
    <3>1. d <= scan.last /\ d # 0
      BY <1>3, <2>2, SqlLogAssumption DEF DataInv
    <3>2. Decided(d, probe_id)
      BY <1>1, <3>1 DEF SearchInv, ScanInv
    <3> QED
      BY <1>1, <3>2 DEF Decided, Data
  <2>3. Data(scan.dst, probe_id)' = Data(scan'.dst, probe_id)
    BY <1>1 DEF Data
  <2> QED
    BY <1>1, <1>3, <2>1, <2>2, <2>3 DEF ScanInv
<1>6. OneInside' /\ LogInv'
  BY <1>1, <1>2 DEF OneInside, LogInv
<1>7. DecidedInv' /\ RowsInv'
  BY <1>1, <1>4 DEF SearchInv, DecidedInv, RowsInv, Agrees
<1> QED
  BY <1>5, <1>6, <1>7 DEF SearchInv

\* The scan compares a peer.
LEMMA ScanPeerSearch ==
    ASSUME QInv, DataInv, SearchInv, ScanPeer PROVE SearchInv'
<1> DEFINE rtt == Data(scan.dst, probe_id)
           n == Min(scan.left)
<1>1. /\ UNCHANGED <<pc, probe_id, decided, r, log, loaded>> /\ pc = "scan" /\ scan.dst # 0
      /\ scan.left # {} /\ WalkType(scan) /\ probe_id \in Nat /\ loaded \in Nat
  BY SqlLogAssumption DEF ScanPeer, DataInv, QInv, ThreadInv, MinRtts
<1>2. scan.dst \in DOMAIN r /\ Walked(scan, rtt, probe_id, min_rtt, loaded) /\ rtt = r[scan.dst][probe_id]
  BY <1>1, DataThere DEF SearchInv, ScanInv, DataInv
<1>3. /\ scan' = Compare(scan, rtt[n], probe_id)
      /\ min_rtt' = IF Better(rtt[n], probe_id) THEN rtt[n] ELSE min_rtt
  BY <1>2 DEF ScanPeer, Compared
<1>4. Walked(scan', rtt, probe_id, min_rtt', loaded)
  <2> HIDE DEF rtt
  <2>1. DOMAIN rtt \subseteq Nat \ {0} /\ \A k \in DOMAIN rtt : rtt[k] \in Nat
    BY DataType DEF rtt
  <2>2. Walked(Compare(scan, rtt[n], probe_id), rtt, probe_id,
               IF Better(rtt[n], probe_id) THEN rtt[n] ELSE min_rtt, loaded)
    BY <1>1, <1>2, <2>1, CompareWalked DEF WalkType
  <2> QED
    BY <1>3, <2>2
<1>5. scan'.dst = scan.dst /\ scan'.last = scan.last
  BY <1>1, <1>3, CompareType
<1>6. \A k \in DOMAIN log : log[k].walk.dst = 0
  BY <1>1 DEF SearchInv, OneInside
<1>7. \A d, q : Data(d, q)' = Data(d, q) /\ Decided(d, q)' = Decided(d, q) /\ Settled(q)' = Settled(q)
  BY <1>1 DEF Data, Decided, Settled
<1>8. ScanInv'
  <2>1. Data(scan.dst, probe_id)' = rtt
    BY <1>1, <1>5 DEF Data
  <2>2. \A d \in DOMAIN r : d <= scan.last /\ d # scan.dst => Decided(d, probe_id)'
    BY <1>1 DEF SearchInv, ScanInv, Decided, Data
  <2> HIDE DEF rtt
  <2> QED
    BY <1>1, <1>2, <1>4, <1>5, <2>1, <2>2 DEF ScanInv
<1>9. OneInside' /\ LogInv'
  BY <1>1, <1>6 DEF OneInside, LogInv
<1>10. DecidedInv' /\ RowsInv'
  BY <1>1, <1>7 DEF SearchInv, DecidedInv, RowsInv, Agrees
<1> QED
  BY <1>8, <1>9, <1>10 DEF SearchInv

\* What the scan stores is the least of the destination it leaves.
LEMMA ScanLeaveLeast ==
    ASSUME QInv, DataInv, SearchInv, ScanLeave
    PROVE  /\ scan.dst \in DOMAIN r
           /\ scan.peer = Least(Data(scan.dst, probe_id), probe_id, loaded) /\ loaded \in MinRtts
           /\ Data(scan.dst, probe_id) = r[scan.dst][probe_id]
           /\ DOMAIN decided' = DOMAIN decided \cup {probe_id}
           /\ \A q \in DOMAIN decided \ {probe_id} : decided'[q] = decided[q]
           /\ decided'[probe_id] = Put(At(decided, probe_id), scan.dst, scan.peer)
<1>1. /\ scan.dst # 0 /\ pc = "scan" /\ scan.left = {} /\ probe_id \in Nat
      /\ loaded \in MinRtts /\ loaded \in Nat
  BY SqlLogAssumption DEF ScanLeave, QInv, ThreadInv, DataInv, MinRtts
<1>2. /\ scan.dst \in DOMAIN r
      /\ Walked(scan, Data(scan.dst, probe_id), probe_id, min_rtt, loaded)
  BY <1>1 DEF SearchInv, ScanInv
<1>3. Data(scan.dst, probe_id) = r[scan.dst][probe_id]
  BY <1>1, <1>2, DataThere DEF DataInv
<1>4. scan.peer = Least(Data(scan.dst, probe_id), probe_id, loaded)
  BY <1>1, <1>2, DataType, WalkedLeast
<1>5. decided' = Put(decided, probe_id, Put(At(decided, probe_id), scan.dst, scan.peer))
  BY DEF ScanLeave
<1>6. /\ DOMAIN decided' = DOMAIN decided \cup {probe_id}
      /\ \A q \in DOMAIN decided \ {probe_id} : decided'[q] = decided[q]
      /\ decided'[probe_id] = Put(At(decided, probe_id), scan.dst, scan.peer)
  <2> DEFINE v == Put(At(decided, probe_id), scan.dst, scan.peer)
  <2> HIDE DEF v
  <2> QED
    BY <1>5 DEF Put, v
<1> QED
  BY <1>1, <1>2, <1>3, <1>4, <1>6

\* The scan leaves a destination and stores its decision.
LEMMA ScanLeaveSearch ==
    ASSUME QInv, DataInv, ProbeInv, SearchInv, ScanLeave PROVE SearchInv'
<1>1. /\ UNCHANGED <<pc, probe_id, r, log>> /\ pc = "scan" /\ scan.dst # 0
      /\ scan'.dst = 0 /\ scan'.last = scan.last /\ WalkType(scan) /\ probe_id \in Nat
  BY DEF ScanLeave, Idle, DataInv, QInv, ThreadInv
<1>2. \A k \in DOMAIN log : log[k].walk.dst = 0
  BY <1>1 DEF SearchInv, OneInside
<1>3. \A d, q : Data(d, q)' = Data(d, q) /\ Settled(q)' = Settled(q)
  BY <1>1 DEF Data, Settled
<1>4. \A q : q # probe_id => At(decided', q) = At(decided, q)
  BY ScanLeaveLeast DEF At
<1>5. At(decided', probe_id) = Put(At(decided, probe_id), scan.dst, scan.peer)
  BY ScanLeaveLeast DEF At
<1>6. ScanInv'
  <2>1. ASSUME NEW d \in DOMAIN r, d <= scan.last PROVE Decided(d, probe_id)'
    <3>1. Data(d, probe_id)' = Data(d, probe_id)
      BY <1>1 DEF Data
    <3>2. CASE d = scan.dst
      <4>1. d \in DOMAIN At(decided', probe_id) /\ At(decided', probe_id)[d] = scan.peer
        BY <1>5, <3>2 DEF Put
      <4>2. \E c \in MinRtts : scan.peer = Least(Data(d, probe_id), probe_id, c)
        BY <3>2, ScanLeaveLeast
      <4> QED
        BY <1>1, <3>1, <4>1, <4>2 DEF Decided
    <3>3. CASE d # scan.dst
      <4>1. Decided(d, probe_id)
        BY <1>1, <2>1, <3>3 DEF SearchInv, ScanInv
      <4>2. /\ d \in DOMAIN At(decided', probe_id)
            /\ At(decided', probe_id)[d] = At(decided, probe_id)[d]
        BY <1>5, <3>3, <4>1 DEF Put, Decided
      <4> QED
        BY <1>1, <3>1, <4>1, <4>2 DEF Decided
    <3> QED
      BY <3>2, <3>3
  <2> QED
    BY <1>1, <2>1 DEF ScanInv
<1>7. OneInside' /\ LogInv'
  BY <1>1, <1>2 DEF OneInside, LogInv
<1>8. DecidedInv'
  <2> SUFFICES ASSUME NEW d \in Dst, NEW q \in 0 .. probe_id, Settled(q), DOMAIN Data(d, q) # {}
               PROVE  Decided(d, q)'
    BY <1>1, <1>3 DEF DecidedInv
  <2>1. q # probe_id /\ Decided(d, q)
    BY <1>1 DEF Settled, SearchInv, DecidedInv
  <2> QED
    BY <1>3, <1>4, <2>1 DEF Decided
<1>9. RowsInv'
  <2> SUFFICES ASSUME NEW k \in DOMAIN log, NEW row \in log[k].rows PROVE Agrees(row)'
    BY <1>1 DEF RowsInv
  <2>1. row.probe # probe_id /\ Agrees(row)
    BY <1>1 DEF ProbeInv, Settled, SearchInv, RowsInv
  <2> QED
    BY <1>4, <2>1 DEF Agrees
<1> QED
  BY <1>6, <1>7, <1>8, <1>9 DEF SearchInv

\* The scan is over: its round is settled.
LEMMA SetArgumentSearch ==
    ASSUME QInv, DataInv, SearchInv, SetArgument PROVE SearchInv'
<1>1. /\ UNCHANGED <<probe_id, decided, r, log, min_rtt, loaded>> /\ pc = "scan" /\ pc' = "spawn"
      /\ scan.dst = 0 /\ Following(scan) = {} /\ scan' = Idle /\ WalkType(scan)
      /\ DOMAIN r \subseteq Nat \ {0}
  BY SqlLogAssumption DEF SetArgument, DataInv, global
<1>2. OneInside' /\ ScanInv' /\ LogInv'
  BY <1>1 DEF SearchInv, OneInside, ScanInv, LogInv, Data, Idle
<1>3. DecidedInv'
  <2> SUFFICES ASSUME NEW d \in Dst, NEW q \in 0 .. probe_id, DOMAIN Data(d, q) # {}
               PROVE  Decided(d, q)
    BY <1>1 DEF DecidedInv, Data, Decided
  <2>1. CASE q = probe_id
    <3>1. d \in DOMAIN r
      BY DataThere
    <3>2. d \in Nat \ {0} /\ ~(d > scan.last) /\ scan.last \in Nat
      BY <1>1, <3>1 DEF Following, WalkType
    <3>3. d <= scan.last /\ d # scan.dst
      BY <1>1, <3>2
    <3> QED
      BY <1>1, <2>1, <3>1, <3>3 DEF SearchInv, ScanInv
  <2>2. CASE q # probe_id
    <3>1. Settled(q)
      BY <2>2 DEF Settled, QInv, ThreadInv
    <3> QED
      BY <3>1 DEF SearchInv, DecidedInv
  <2> QED
    BY <2>1, <2>2
<1>4. RowsInv'
  BY <1>1 DEF SearchInv, RowsInv, Agrees
<1> QED
  BY <1>2, <1>3, <1>4 DEF SearchInv

\* A new log thread is outside every destination and has no rows.
LEMMA SpawnSearch ==
    ASSUME QInv, DataInv, SearchInv, Spawn PROVE SearchInv'
<1>1. /\ UNCHANGED <<probe_id, scan, decided, r, min_rtt, loaded>>
      /\ pc = "spawn" /\ pc' = "delete" /\ scan.dst = 0
  BY DEF Spawn, DataInv, global, Idle
<1>2. \A k \in DOMAIN log' : \/ log'[k].walk = Idle /\ log'[k].rows = {}
                             \/ k \in DOMAIN log /\ log'[k] = log[k]
  BY DEF Spawn, Put
<1>3. OneInside'
  <2>1. Idle.dst = 0
    BY DEF Idle
  <2> QED
    BY <1>1, <1>2, <2>1 DEF SearchInv, OneInside
<1>4. ScanInv'
  BY <1>1 DEF ScanInv
<1>5. LogInv'
  <2> SUFFICES ASSUME NEW k \in DOMAIN log', log'[k].walk.dst # 0,
                      DOMAIN Data(log'[k].walk.dst, log'[k].probe) # {}
               PROVE  Walked(log'[k].walk, Data(log'[k].walk.dst, log'[k].probe), log'[k].probe,
                             min_rtt, loaded)
    BY <1>1 DEF LogInv, Data
  <2>1. k \in DOMAIN log /\ log'[k] = log[k]
    BY <1>2 DEF Idle
  <2> QED
    BY <2>1 DEF SearchInv, LogInv
<1>6. DecidedInv'
  <2>1. \A d, q : /\ Data(d, q)' = Data(d, q) /\ Decided(d, q)' = Decided(d, q)
                  /\ Settled(q)' = Settled(q)
    BY <1>1 DEF Data, Decided, Settled
  <2> QED
    BY <1>1, <2>1 DEF SearchInv, DecidedInv
<1>7. RowsInv'
  BY <1>1, <1>2 DEF SearchInv, RowsInv, Agrees
<1> QED
  BY <1>3, <1>4, <1>5, <1>6, <1>7 DEF SearchInv

\* A step of a log thread: what is left to show is its own walk and rows.
LEMMA LoggerRest ==
    ASSUME QInv, DataInv, SearchInv, NEW k \in DOMAIN log, Logger(k), Running',
           log'[k].walk.dst # 0 =>
              /\ scan.dst = 0 /\ \A j \in DOMAIN log \ {k} : log[j].walk.dst = 0
              /\ DOMAIN Data(log'[k].walk.dst, log'[k].probe) # {} =>
                    Walked(log'[k].walk, Data(log'[k].walk.dst, log'[k].probe), log'[k].probe,
                           min_rtt', loaded'),
           min_rtt' # min_rtt \/ loaded' # loaded =>
              scan.dst = 0 /\ \A j \in DOMAIN log \ {k} : log[j].walk.dst = 0,
           \A row \in log'[k].rows : Agrees(row)
    PROVE  SearchInv'
<1>1. /\ UNCHANGED <<pc, probe_id, scan, decided, ithlog, r>>
      /\ DOMAIN log' = DOMAIN log /\ \A j \in DOMAIN log \ {k} : log'[j] = log[j]
  BY LoggerWalk
<1>2. \A d, q : Data(d, q)' = Data(d, q) /\ Decided(d, q)' = Decided(d, q) /\ Settled(q)' = Settled(q)
  BY <1>1 DEF Data, Decided, Settled
<1>3. OneInside'
  BY <1>1 DEF SearchInv, OneInside
<1>4. ScanInv'
  <2>1. Data(scan.dst, probe_id)' = Data(scan.dst, probe_id)
    BY <1>1 DEF Data
  <2>2. \A d : Decided(d, probe_id)' = Decided(d, probe_id)
    BY <1>1 DEF Decided, Data
  <2>3. scan.dst # 0 => min_rtt' = min_rtt /\ loaded' = loaded
    OBVIOUS
  <2> QED
    BY <1>1, <2>1, <2>2, <2>3 DEF SearchInv, ScanInv
<1>5. LogInv'
  <2> SUFFICES ASSUME NEW j \in DOMAIN log, log'[j].walk.dst # 0,
                      DOMAIN Data(log'[j].walk.dst, log'[j].probe) # {}
               PROVE  Walked(log'[j].walk, Data(log'[j].walk.dst, log'[j].probe), log'[j].probe,
                             min_rtt', loaded')
    BY <1>1 DEF LogInv, Data
  <2>1. CASE j = k
    BY <2>1
  <2>2. CASE j # k
    <3>1. log'[j] = log[j] /\ min_rtt' = min_rtt /\ loaded' = loaded
      BY <1>1, <2>2
    <3> QED
      BY <3>1 DEF SearchInv, LogInv
  <2> QED
    BY <2>1, <2>2
<1>6. DecidedInv'
  BY <1>1, <1>2 DEF SearchInv, DecidedInv
<1>7. RowsInv'
  <2>1. \A row : Agrees(row)' = Agrees(row)
    BY <1>1 DEF Agrees
  <2> QED
    BY <1>1, <2>1 DEF SearchInv, RowsInv
<1> QED
  BY <1>3, <1>4, <1>5, <1>6, <1>7 DEF SearchInv

LEMMA LoggerSearch ==
    ASSUME QInv, DataInv, ProbeInv, SearchInv, NEW k \in DOMAIN log, Logger(k), Running', ~mixed'
    PROVE  SearchInv'
<1> DEFINE w == log[k].walk
           q == log[k].probe
           rtt == Data(w.dst, q)
<1>1. /\ WalkType(w) /\ DOMAIN log[k] = {"at", "probe", "walk", "rows"} /\ pc' # "dead"
      /\ \A row \in log[k].rows : Agrees(row)
      /\ log[k].at # "start" => q \in Nat /\ Settled(q)
      /\ Running /\ loaded \in MinRtts /\ MinRtts \subseteq Nat
  BY SqlLogAssumption DEF DataInv, QInv, ThreadInv, SearchInv, RowsInv, ProbeInv, Running, MinRtts,
     Logger, LogStart, LogEnter, LogPeer, LogLeave, LogCommit
<1>2. CASE LogStart(k) \/ LogCommit(k)
  <2>1. log'[k].walk.dst = 0 /\ min_rtt' = min_rtt /\ loaded' = loaded
    BY <1>1, <1>2 DEF LogStart, LogCommit, Die, QInv, ThreadInv, global
  <2>2. log'[k].rows \subseteq log[k].rows
    BY <1>1, <1>2 DEF LogStart, LogCommit, Die
  <2> QED
    BY <1>1, <2>1, <2>2, LoggerRest
<1>3. CASE LogEnter(k)
  <2>1. /\ log' = [log EXCEPT ![k].walk = Enter(w, q)] /\ UNCHANGED <<min_rtt, loaded>> /\ ~Inside
        /\ log[k].at = "walk" /\ Following(w) # {}
    BY <1>3 DEF LogEnter, global
  <2>2. log'[k].walk = Enter(w, q) /\ log'[k].probe = q /\ log'[k].rows = log[k].rows
    BY <1>1, <2>1
  <2>3. min_rtt = loaded
    BY <1>1, <2>1 DEF QInv, MinRttRestored
  <2>4. Walked(log'[k].walk, Data(log'[k].walk.dst, q), q, min_rtt, loaded)
    BY <1>1, <2>1, <2>2, <2>3, EnterWalked
  <2>5. scan.dst = 0 /\ \A j \in DOMAIN log \ {k} : log[j].walk.dst = 0
    BY <2>1 DEF Inside
  <2> QED
    BY <1>1, <2>1, <2>2, <2>4, <2>5, LoggerRest
<1>4. CASE LogPeer(k)
  <2> DEFINE n == Min(w.left)
  <2>1. /\ w.dst # 0 /\ w.left # {} /\ There(w, q, n) /\ log[k].at = "walk"
        /\ log' = [log EXCEPT ![k].walk = Compare(w, r[w.dst][q][n], q)]
        /\ Compared(r[w.dst][q][n], q) /\ loaded' = loaded
    BY <1>1, <1>4 DEF LogPeer, Die
  <2>2. n \in DOMAIN rtt
    BY <2>1 DEF There, Data
  <2>3. rtt = r[w.dst][q]
    BY <2>2, DataThere
  <2>4. Walked(w, rtt, q, min_rtt, loaded)
    BY <2>1, <2>2 DEF SearchInv, LogInv
  <2>5. /\ log'[k].walk = Compare(w, rtt[n], q) /\ log'[k].probe = q /\ log'[k].rows = log[k].rows
        /\ min_rtt' = IF Better(rtt[n], q) THEN rtt[n] ELSE min_rtt
    BY <1>1, <2>1, <2>3 DEF Compared
  <2>6. Walked(log'[k].walk, rtt, q, min_rtt', loaded)
    <3> HIDE DEF rtt
    <3>1. DOMAIN rtt \subseteq Nat \ {0} /\ \A j \in DOMAIN rtt : rtt[j] \in Nat
      BY DataType DEF rtt
    <3>2. q \in Nat /\ loaded \in Nat /\ DOMAIN w = {"dst", "last", "left", "peer"}
      BY <1>1, <2>1 DEF WalkType
    <3> HIDE DEF w, q
    <3>3. Walked(Compare(w, rtt[n], q), rtt, q, IF Better(rtt[n], q) THEN rtt[n] ELSE min_rtt,
                 loaded)
      BY <2>1, <2>4, <3>1, <3>2, CompareWalked
    <3> QED
      BY <2>5, <3>3
  <2>7. log'[k].walk.dst = w.dst
    BY <1>1, <2>5, CompareType
  <2>8. scan.dst = 0 /\ \A j \in DOMAIN log \ {k} : log[j].walk.dst = 0
    BY <2>1 DEF SearchInv, OneInside
  <2>9. Walked(log'[k].walk, Data(log'[k].walk.dst, log'[k].probe), log'[k].probe, min_rtt', loaded')
    BY <2>1, <2>5, <2>6, <2>7
  <2> QED
    BY <1>1, <2>1, <2>5, <2>7, <2>8, <2>9, LoggerRest
<1>5. CASE LogLeave(k)
  <2> DEFINE row == Row(w, q)
  <2>1. /\ w.dst # 0 /\ w.left = {} /\ log[k].at = "walk"
        /\ log' = [log EXCEPT ![k].walk = [Idle EXCEPT !.last = w.last],
                              ![k].rows = @ \cup {row}]
        /\ w.peer = 0 \/ There(w, q, w.peer)
    BY <1>1, <1>5 DEF LogLeave, Die
  <2>2. log'[k].walk.dst = 0 /\ log'[k].rows = log[k].rows \cup {row}
    BY <1>1, <2>1 DEF Idle
  <2>3. ASSUME w.peer # 0
        PROVE  /\ w.dst \in DOMAIN At(decided, q)
               /\ \/ At(decided, q)[w.dst] = w.peer
                  \/ At(decided, q)[w.dst] = 0 /\ \E c \in MinRtts : c <= rtt[w.peer]
    <3>1. w.dst \in Dst /\ q \in 0 .. probe_id /\ Settled(q) /\ q \in Nat
      BY <1>1, <2>1 DEF WalkType, Settled, QInv, ThreadInv
    <3>2. DOMAIN rtt # {}
      BY <2>1, <2>3 DEF There, Data
    <3>3. Walked(w, rtt, q, min_rtt, loaded)
      BY <2>1, <3>2 DEF SearchInv, LogInv
    <3>4. DOMAIN rtt \subseteq Nat \ {0} /\ \A n \in DOMAIN rtt : rtt[n] \in Nat
      BY DataType
    <3>5. Decided(w.dst, q)
      BY <3>1, <3>2 DEF SearchInv, DecidedInv
    <3>6. PICK c \in MinRtts : At(decided, q)[w.dst] = Least(rtt, q, c)
      BY <3>5 DEF Decided
    <3>7. w.dst \in DOMAIN At(decided, q) /\ c \in Nat /\ loaded \in Nat
      BY <1>1, <3>5 DEF Decided
    <3> HIDE DEF w, q, rtt
    <3>8. w.peer = Least(rtt, q, loaded)
      BY <2>1, <3>1, <3>3, <3>4, <3>7, WalkedLeast
    <3>9. Least(rtt, q, c) = w.peer \/ (Least(rtt, q, c) = 0 /\ c <= rtt[w.peer])
      BY <2>3, <3>1, <3>4, <3>7, <3>8, LeastAgrees
    <3> QED
      BY <3>6, <3>7, <3>9
  <2>4. Agrees(row)
    <3>1. row.probe = q /\ row.dst = w.dst /\ row.peer = w.peer /\ row.avg = AvgRtt(w, q)
      BY DEF Row
    <3>2. w.peer # 0 => row.avg = rtt[w.peer]
      <4> SUFFICES ASSUME There(w, q, w.peer) PROVE AvgRtt(w, q) = rtt[w.peer]
        BY <2>1, <3>1
      <4>1. rtt = r[w.dst][q]
        BY DataThere DEF There, Data
      <4> QED
        BY <4>1 DEF AvgRtt
    <3> QED
      BY <2>3, <3>1, <3>2 DEF Agrees
  <2>5. scan.dst = 0 /\ \A j \in DOMAIN log \ {k} : log[j].walk.dst = 0
    BY <2>1 DEF SearchInv, OneInside
  <2> HIDE DEF row
  <2> QED
    BY <1>1, <2>2, <2>4, <2>5, LoggerRest
<1> QED
  BY <1>2, <1>3, <1>4, <1>5 DEF Logger

\* The history keeps to the decisions.
LEMMA NextTable ==
    ASSUME QInv, HInv, [Next]_vars, ~mixed, ~mixed' PROVE TableInv'
<1>1. CASE decided' = decided /\ table' = table
  BY <1>1 DEF HInv, TableInv, Agrees
<1>2. CASE ScanLeave
  <2>1. \A q : q # probe_id => At(decided', q) = At(decided, q)
    BY <1>2 DEF ScanLeave, Put, At
  <2>2. Running /\ pc = "scan" /\ table' = table
    BY <1>2 DEF ScanLeave, Running
  <2> SUFFICES ASSUME NEW row \in table PROVE Agrees(row)'
    BY <2>2 DEF TableInv
  <2>3. row.probe # probe_id /\ Agrees(row)
    BY <2>2 DEF HInv, ProbeInv, Settled, TableInv, QInv, ThreadInv
  <2> QED
    BY <2>1, <2>3 DEF Agrees
<1>3. ASSUME NEW k \in DOMAIN log, LogCommit(k) PROVE TableInv'
  <2>1. Running /\ table' \subseteq table \cup log[k].rows /\ decided' = decided
    BY <1>3 DEF LogCommit, Die, main
  <2>2. \A row \in log[k].rows : Agrees(row)
    BY <2>1 DEF HInv, SearchInv, RowsInv
  <2> QED
    BY <2>1, <2>2 DEF HInv, TableInv, Agrees
<1> QED
  BY <1>1, <1>2, <1>3 DEF Next, Finished, Logger, Measure, ScanEnter, ScanPeer, SetArgument, Spawn,
     Delete, Shutdown, NextRound, Reread, LogStart, LogEnter, LogPeer, LogLeave, Die, vars, main

\* The searches start together with everything else.
LEMMA InitHInv == Init => HInv
<1> SUFFICES ASSUME Init PROVE HInv
  OBVIOUS
<1>1. /\ DOMAIN r = {} /\ DOMAIN log = {} /\ table = {} /\ scan = Idle /\ pc = "measure"
      /\ probe_id = 0 /\ loaded \in MinRtts
  BY DEF Init, Empty
<1>2. WalkType(Idle) /\ Idle.dst = 0
  BY DEF WalkType, Idle
<1> QED
  BY <1>1, <1>2 DEF HInv, DataInv, ProbeInv, SearchInv, OneInside, ScanInv, LogInv, DecidedInv,
     RowsInv, TableInv, Settled

\* A step that goes on comes from a daemon that runs; walks that have met have met
\* for ever.
LEMMA RunningMixed ==
    ASSUME [Next]_vars
    PROVE  (Running' => Running) /\ (~mixed' => ~mixed)
<1>1. Running' => Running
  BY DEF Next, Finished, Logger, Measure, ScanEnter, ScanPeer, ScanLeave, SetArgument, Spawn,
     Delete, Shutdown, NextRound, Reread, LogStart, LogEnter, LogPeer, LogLeave, LogCommit, Running, vars, main
<1>2. mixed' = mixed \/ mixed' = (mixed \/ Inside)
  BY DEF Next, Finished, Logger, Measure, ScanEnter, ScanPeer, ScanLeave, SetArgument, Spawn,
     Delete, Shutdown, NextRound, Reread, LogStart, LogEnter, LogPeer, LogLeave, LogCommit, vars
<1>3. ~mixed' => ~mixed
  BY Zenon, <1>2
<1> QED
  BY <1>1, <1>3

\* The invariant of the searches holds in every reachable state.
LEMMA HistoryInv == Spec => [](QInv /\ HInv)
<1>1. QInv /\ HInv /\ [Next]_vars => HInv'
  <2> SUFFICES ASSUME QInv, HInv, [Next]_vars PROVE HInv'
    OBVIOUS
  <2>1. Running' => DataInv' /\ ProbeInv'
    BY RunningMixed, NextDataInv, NextProbeInv DEF HInv
  <2>2. ASSUME Running', ~mixed' PROVE SearchInv'
    <3>1. DataInv /\ ProbeInv /\ SearchInv
      BY <2>2, RunningMixed DEF HInv
    <3>2. CASE UNCHANGED vars
      BY <3>1, <3>2 DEF vars, main, global, SearchInv, OneInside, ScanInv, LogInv, DecidedInv, RowsInv,
         Decided, Data, Settled, Agrees
    <3>3. CASE Shutdown
      BY <2>2, <3>3 DEF Shutdown, Running
    <3> QED
      BY <2>2, <3>1, <3>2, <3>3, RoundSearch, ScanEnterSearch, ScanPeerSearch, ScanLeaveSearch,
         SetArgumentSearch, SpawnSearch, SignalsSearch, LoggerSearch DEF Next, Finished
  <2>3. ~mixed' => TableInv'
    BY RunningMixed, NextTable
  <2> QED
    BY <2>1, <2>2, <2>3 DEF HInv
<1> QED
  BY <1>1, SqlLogInv, InitHInv, PTL DEF Spec

\* As long as no walk inside a destination has met another one or a reread, the history
\* names the peer that the scan of the round has decided for, however late the thread
\* writes it; or the scan decided for none, and one of the two searches had to start at
\* or below the metric of that peer.
THEOREM HistoryAgrees == Spec => []LogAgreesWithDecision
<1>1. HInv => LogAgreesWithDecision
  BY DEF HInv, TableInv, Agrees, At, Empty, LogAgreesWithDecision
<1> QED
  BY <1>1, HistoryInv, PTL

\* Under the same condition the scan of a round decides for the least metric below
\* 50000, or below the configured value for the first destination after a load.
THEOREM DecisionCorrect == Spec => DecisionUndisturbed
<1>1. QInv /\ HInv /\ [Next]_vars =>
        [ScanLeave /\ ~mixed =>
           decided'[probe_id][scan.dst] = Least(r[scan.dst][probe_id], probe_id, loaded)]_vars
  <2> SUFFICES ASSUME QInv, HInv, ScanLeave, ~mixed
               PROVE  decided'[probe_id][scan.dst] = Least(r[scan.dst][probe_id], probe_id, loaded)
    OBVIOUS
  <2>1. DataInv /\ SearchInv
    BY DEF HInv, ScanLeave, Running
  <2>2. decided'[probe_id][scan.dst] = scan.peer
    BY <2>1, ScanLeaveLeast DEF Put
  <2> QED
    BY <2>1, <2>2, ScanLeaveLeast
<1> QED
  BY <1>1, HistoryInv, PTL DEF Spec, DecisionUndisturbed
=============================================================================
