------------------------- MODULE PfrLifecycleProofs -------------------------
(***************************************************************************)
(* Proofs about PfrLifecycle, for any number of processes, any files and   *)
(* any number of edits: the shared memory has one user at a time, two      *)
(* daemons on one pid file need a race between check and write, a read     *)
(* without news keeps the list, and a reread is a start unless the file    *)
(* has lost something.                                                     *)
(***************************************************************************)
EXTENDS PfrLifecycle, FiniteSetTheorems, TLAPS

LifeType ==
    /\ DOMAIN at = Proc /\ DOMAIN conf = Proc /\ DOMAIN wrote = Proc
    /\ DOMAIN pidfile = Paths
    /\ sem \in Nat
    /\ leaked \in BOOLEAN /\ raced \in BOOLEAN

\* The pid in the file of a daemon is its own, and nobody who has found a file free
\* shares it with a daemon or with another that is about to write it.
PidInv ==
    /\ \A p \in Daemons : wrote[p] \in Paths
    /\ ~raced =>
          /\ \A p \in Daemons : pidfile[wrote[p]] = p
          /\ \A q \in Proc : at[q] = "write" =>
                /\ \A p \in Daemons : wrote[p] # conf[q]["pid_path"]
                /\ \A p \in Proc \ {q} : at[p] = "write" =>
                      conf[p]["pid_path"] # conf[q]["pid_path"]

(***************************************************************************)
(* The inductive invariant: the semaphore is free, held once or lost, as   *)
(* ShmExclusive counts it, and the pid files are as PidInv says.           *)
(***************************************************************************)
LInv == LifeType /\ ShmExclusive /\ PidInv

----------------------------------------------------------------------------
\* The number of processes inside the memory, as processes enter and leave.
LEMMA HoldingCount ==
    /\ IsFiniteSet(Holding) /\ Cardinality(Holding) \in Nat
    /\ \A p \in Holding : /\ Cardinality(Holding \ {p}) = Cardinality(Holding) - 1
                          /\ Cardinality(Holding) >= 1
    /\ \A p : p \notin Holding => Cardinality(Holding \cup {p}) = Cardinality(Holding) + 1
<1>1. IsFiniteSet(Holding)
  BY LifecycleAssumption, FS_Subset DEF Holding
<1>2. Cardinality(Holding) \in Nat
  BY <1>1, FS_CardinalityType
<1>3. ASSUME NEW p \in Holding
      PROVE  /\ Cardinality(Holding \ {p}) = Cardinality(Holding) - 1
             /\ Cardinality(Holding) >= 1
  <2>1. Cardinality(Holding \ {p}) = Cardinality(Holding) - 1
    BY <1>1, FS_RemoveElement
  <2>2. Cardinality(Holding) # 0
    BY <1>1, FS_EmptySet
  <2> QED
    BY <1>2, <2>1, <2>2
<1>4. ASSUME NEW p, p \notin Holding
      PROVE  Cardinality(Holding \cup {p}) = Cardinality(Holding) + 1
  BY <1>1, <1>4, FS_AddElement
<1> QED
  BY <1>1, <1>2, <1>3, <1>4

\* Before the first start the semaphore is free and there are no daemons.
LEMMA InitLInv == Init => LInv
<1> SUFFICES ASSUME Init PROVE LInv
  OBVIOUS
<1>1. Holding = {} /\ Daemons = {} /\ \A p \in Proc : at[p] = "off"
  BY DEF Init, Holding, Daemons
<1>2. leaked \in BOOLEAN /\ raced \in BOOLEAN
  BY Zenon DEF Init
<1>3. LifeType
  <2>1. /\ DOMAIN at = Proc /\ DOMAIN conf = Proc /\ DOMAIN wrote = Proc
        /\ DOMAIN pidfile = Paths /\ sem \in Nat
    BY DEF Init
  <2> QED
    BY <1>2, <2>1 DEF LifeType
<1>4. Cardinality(Holding) = 0
  BY <1>1, FS_EmptySet
<1>5. ShmExclusive
  <2>1. sem = 1 /\ collector # "writing" /\ ~leaked
    BY DEF Init
  <2> QED
    BY <1>4, <2>1 DEF ShmExclusive
<1>6. PidInv
  BY <1>1 DEF PidInv
<1> QED
  BY <1>3, <1>5, <1>6 DEF LInv

\* A process that stays outside the memory, with the semaphore as it was.
LEMMA OutsideShm ==
    ASSUME ShmExclusive, Holding' = Holding, UNCHANGED <<sem, collector, leaked>>
    PROVE  ShmExclusive'
  BY DEF ShmExclusive

\* The semaphore.
LEMMA NextShm == LInv /\ [Next]_vars => ShmExclusive'
<1> SUFFICES ASSUME LInv, [Next]_vars PROVE ShmExclusive'
  OBVIOUS
<1>1. ASSUME NEW p \in Proc,
             Start(p) \/ LoadFirst(p) \/ CheckPid(p) \/ WritePid(p) \/ FinishRound(p)
               \/ Exit(p) \/ Sigusr2(p)
      PROVE  ShmExclusive'
  <2>1. UNCHANGED <<sem, collector, leaked>>
    BY <1>1 DEF Start, LoadFirst, CheckPid, WritePid, FinishRound, Exit, Sigusr2, shared
  <2>2. /\ DOMAIN at = Proc
        /\ at' = at \/ \E place \in {"load", "check", "dead", "write", "first", "wait"} :
              at' = [at EXCEPT ![p] = place]
    BY <1>1 DEF Start, LoadFirst, CheckPid, WritePid, FinishRound, Exit, Sigusr2, Move, LInv,
       LifeType
  <2>3. at' = at \/ p \notin Holding
    BY <1>1 DEF Start, LoadFirst, CheckPid, WritePid, FinishRound, Exit, Sigusr2, Holding
  <2>4. Holding' = Holding
    BY <2>2, <2>3 DEF Holding
  <2> QED
    BY <2>1, <2>4, OutsideShm DEF LInv
<1>2. ASSUME NEW p \in Proc, SemWait(p) PROVE ShmExclusive'
  <2>1. p \notin Holding /\ Holding' = Holding \cup {p}
    BY <1>2 DEF SemWait, Move, Holding, LInv, LifeType
  <2>2. Cardinality(Holding') = Cardinality(Holding) + 1 /\ Cardinality(Holding) \in Nat
    BY <2>1, HoldingCount
  <2>3. sem \in Nat /\ sem' = sem - 1 /\ UNCHANGED <<collector, leaked>>
    BY <1>2 DEF SemWait, LInv, LifeType
  <2> QED
    BY <2>2, <2>3 DEF LInv, ShmExclusive
<1>3. ASSUME NEW p \in Proc, ReadList(p) PROVE ShmExclusive'
  <2>1. p \in Holding /\ Holding' = Holding \ {p}
    BY <1>3 DEF ReadList, Move, Holding, LInv, LifeType
  <2>2. Cardinality(Holding') = Cardinality(Holding) - 1 /\ Cardinality(Holding) \in Nat
    BY <2>1, HoldingCount
  <2>3. sem \in Nat /\ sem' = sem + 1 /\ UNCHANGED <<collector, leaked>>
    BY <1>3 DEF ReadList, LInv, LifeType
  <2> QED
    BY <2>2, <2>3 DEF LInv, ShmExclusive
<1>4. ASSUME NEW p \in Proc, ReadFails(p) PROVE ShmExclusive'
  <2>1. p \in Holding /\ Holding' = Holding \ {p}
    BY <1>4 DEF ReadFails, Move, Holding, LInv, LifeType
  <2>2. /\ Cardinality(Holding') = Cardinality(Holding) - 1 /\ Cardinality(Holding) \in Nat
        /\ Cardinality(Holding) >= 1
    BY <2>1, HoldingCount
  <2>3. sem \in Nat /\ UNCHANGED <<sem, collector>> /\ leaked'
    BY <1>4 DEF ReadFails, LInv, LifeType
  <2>4. ~leaked
    BY <2>2, <2>3 DEF LInv, ShmExclusive
  <2> QED
    BY <2>2, <2>3, <2>4 DEF LInv, ShmExclusive
<1>5. CASE (\E k \in Key : \E line \in Lines[k] : Edit(k, line)) \/ UNCHANGED vars
  BY <1>5, OutsideShm DEF Edit, vars, proc, shared, Holding, LInv
<1>6. CASE CollectorWants \/ CollectorWait \/ \E flows \in Flows : Publish(flows)
  <2>1. Holding' = Holding /\ sem \in Nat /\ leaked' = leaked
    BY <1>6 DEF CollectorWants, CollectorWait, Publish, proc, Holding, LInv, LifeType
  <2>2. Cardinality(Holding) \in Nat
    BY HoldingCount
  <2>3. \/ collector # "writing" /\ collector' # "writing" /\ sem' = sem
        \/ collector # "writing" /\ collector' = "writing" /\ sem' = sem - 1
        \/ collector = "writing" /\ collector' # "writing" /\ sem' = sem + 1
    BY <1>6 DEF CollectorWants, CollectorWait, Publish
  <2> QED
    BY <2>1, <2>2, <2>3 DEF LInv, ShmExclusive
<1> QED
  BY <1>1, <1>2, <1>3, <1>4, <1>5, <1>6 DEF Next, Process, Collector

\* The types.
LEMMA NextLifeType == LInv /\ [Next]_vars => LifeType'
<1> SUFFICES ASSUME LInv, [Next]_vars PROVE LifeType'
  OBVIOUS
<1>1. /\ DOMAIN at' = DOMAIN at /\ DOMAIN conf' = DOMAIN conf /\ DOMAIN wrote' = DOMAIN wrote
      /\ DOMAIN pidfile' = DOMAIN pidfile
  BY DEF Next, Process, Collector, Start, LoadFirst, Load, CheckPid, WritePid, SemWait,
     ReadList, ReadFails, FinishRound, Exit, Sigusr2, Edit, CollectorWants, CollectorWait,
     Publish, Move, vars, proc, shared
<1>2. sem' \in Nat
  BY DEF LInv, LifeType, Next, Process, Collector, Start, LoadFirst, CheckPid, WritePid, SemWait,
     ReadList, ReadFails, FinishRound, Exit, Sigusr2, Edit, CollectorWants, CollectorWait,
     Publish, vars, shared
<1>3. leaked' \in BOOLEAN /\ raced' \in BOOLEAN
  <2>1. leaked' = leaked \/ leaked' = TRUE
    BY DEF Next, Process, Collector, Start, LoadFirst, CheckPid, WritePid, SemWait,
       ReadList, ReadFails, FinishRound, Exit, Sigusr2, Edit, CollectorWants, CollectorWait,
       Publish, vars, shared
  <2>2. raced' = raced \/ \E p \in Proc : raced' = (raced \/ CheckedToo(p))
    BY DEF Next, Process, Collector, Start, LoadFirst, CheckPid, WritePid, SemWait,
       ReadList, ReadFails, FinishRound, Exit, Sigusr2, Edit, CollectorWants, CollectorWait,
       Publish, vars
  <2> QED
    BY Zenon, <2>1, <2>2 DEF LInv, LifeType
<1> QED
  BY <1>1, <1>2, <1>3 DEF LInv, LifeType

\* Steps that leave the pid files alone: the daemons among them stay daemons or
\* die, and nobody comes from the check of the pid file.
LEMMA PidsStay ==
    ASSUME PidInv, UNCHANGED <<pidfile, wrote, raced>>, Daemons' \subseteq Daemons,
           \A q \in Proc : at'[q] = "write" => at[q] = "write" /\ conf'[q] = conf[q]
    PROVE  PidInv'
<1>1. \A p \in Daemons' : wrote'[p] \in Paths'
  BY DEF PidInv, Paths
<1>2. ASSUME ~raced', NEW p \in Daemons' PROVE pidfile'[wrote'[p]] = p
  BY <1>2 DEF PidInv
<1>3. ASSUME ~raced', NEW q \in Proc, at'[q] = "write", NEW p \in Daemons'
      PROVE  wrote'[p] # conf'[q]["pid_path"]
  BY <1>3 DEF PidInv
<1>4. ASSUME ~raced', NEW q \in Proc, at'[q] = "write", NEW p \in Proc \ {q}, at'[p] = "write"
      PROVE  conf'[p]["pid_path"] # conf'[q]["pid_path"]
  BY <1>4 DEF PidInv
<1> QED
  BY <1>1, <1>2, <1>3, <1>4 DEF PidInv

\* The check of the pid file finds every daemon that has written it.
LEMMA CheckPids == ASSUME LInv, NEW p \in Proc, CheckPid(p) PROVE PidInv'
<1>1. /\ at[p] = "check" /\ DOMAIN at = Proc /\ UNCHANGED <<pidfile, wrote, conf>>
      /\ at' = [at EXCEPT ![p] = IF Occupied(conf[p]["pid_path"]) THEN "dead" ELSE "write"]
      /\ raced' = (raced \/ CheckedToo(p))
  BY DEF CheckPid, Move, LInv, LifeType
<1>2. Daemons' = Daemons /\ \A q \in Proc \ {p} : at'[q] = at[q]
  BY <1>1 DEF Daemons
<1>3. raced => raced'
  BY <1>1
<1>4. ASSUME ~raced', at'[p] = "write", NEW q \in Daemons PROVE wrote[q] # conf[p]["pid_path"]
  <2>1. ~Occupied(conf[p]["pid_path"])
    BY <1>1, <1>4
  <2>2. wrote[q] \in Paths /\ pidfile[wrote[q]] = q
    BY <1>3, <1>4 DEF LInv, PidInv
  <2>3. q # 0 /\ Exists(q)
    BY LifecycleAssumption DEF Daemons, Exists
  <2> QED
    BY <2>1, <2>2, <2>3 DEF Occupied
<1>5. ASSUME ~raced', NEW q \in Proc \ {p}, at[q] = "write"
      PROVE  conf[q]["pid_path"] # conf[p]["pid_path"]
  BY <1>1, <1>5 DEF CheckedToo
<1>6. \A q \in Daemons' : wrote'[q] \in Paths'
  BY <1>1, <1>2 DEF LInv, PidInv, Paths
<1>7. ASSUME ~raced', NEW q \in Daemons' PROVE pidfile'[wrote'[q]] = q
  BY <1>1, <1>2, <1>3, <1>7 DEF LInv, PidInv
<1>8. ASSUME ~raced', NEW q \in Proc, at'[q] = "write", NEW k \in Daemons'
      PROVE  wrote'[k] # conf'[q]["pid_path"]
  <2>1. CASE q = p
    BY <1>1, <1>2, <1>4, <1>8, <2>1
  <2>2. CASE q # p
    BY <1>1, <1>2, <1>3, <1>8, <2>2 DEF LInv, PidInv
  <2> QED
    BY <2>1, <2>2
<1>9. ASSUME ~raced', NEW q \in Proc, at'[q] = "write", NEW k \in Proc \ {q}, at'[k] = "write"
      PROVE  conf'[k]["pid_path"] # conf'[q]["pid_path"]
  <2>1. CASE q = p \/ k = p
    BY <1>1, <1>2, <1>5, <1>9, <2>1
  <2>2. CASE q # p /\ k # p
    BY <1>1, <1>2, <1>3, <1>9, <2>2 DEF LInv, PidInv
  <2> QED
    BY <2>1, <2>2
<1> QED
  BY <1>6, <1>7, <1>8, <1>9 DEF PidInv

\* The write makes a daemon of the only process that is about to write the file.
LEMMA WritePids == ASSUME LInv, NEW p \in Proc, WritePid(p) PROVE PidInv'
<1> DEFINE path == conf[p]["pid_path"]
<1>1. /\ at[p] = "write" /\ UNCHANGED <<conf, raced>>
      /\ DOMAIN at = Proc /\ DOMAIN wrote = Proc /\ DOMAIN pidfile = Paths
  BY DEF WritePid, LInv, LifeType
<1>2. CASE path \notin Paths
  <2>1. at' = [at EXCEPT ![p] = "dead"] /\ UNCHANGED <<pidfile, wrote>>
    BY <1>2 DEF WritePid, Move
  <2>2. Daemons' \subseteq Daemons
    BY <1>1, <2>1 DEF Daemons
  <2> QED
    BY <1>1, <2>1, <2>2, PidsStay DEF LInv
<1>3. CASE path \in Paths
  <2>1. /\ at' = [at EXCEPT ![p] = "first"]
        /\ pidfile' = [pidfile EXCEPT ![path] = p]
        /\ wrote' = [wrote EXCEPT ![p] = path]
    BY <1>3 DEF WritePid, Move
  <2>2. /\ Daemons' = Daemons \cup {p} /\ p \notin Daemons
        /\ \A q \in Proc : at'[q] = "write" => at[q] = "write" /\ q # p
        /\ \A q \in Daemons : wrote'[q] = wrote[q]
        /\ wrote'[p] = path /\ pidfile'[path] = p
        /\ \A x \in Paths : x # path => pidfile'[x] = pidfile[x]
    BY <1>1, <1>3, <2>1 DEF Daemons
  <2>3. \A q \in Daemons' : wrote'[q] \in Paths'
    BY <1>3, <2>2 DEF LInv, PidInv, Paths
  <2>4. ASSUME ~raced, NEW q \in Daemons PROVE wrote[q] # path
    BY <1>1, <2>4 DEF LInv, PidInv
  <2>5. ASSUME ~raced', NEW q \in Daemons' PROVE pidfile'[wrote'[q]] = q
    <3>1. CASE q = p
      BY <2>2, <3>1
    <3>2. CASE q # p
      BY <1>1, <2>2, <2>4, <2>5, <3>2 DEF LInv, PidInv
    <3> QED
      BY <3>1, <3>2
  <2>6. ASSUME ~raced', NEW q \in Proc, at'[q] = "write", NEW k \in Daemons'
        PROVE  wrote'[k] # conf'[q]["pid_path"]
    <3>1. CASE k = p
      BY <1>1, <2>2, <2>6, <3>1 DEF LInv, PidInv
    <3>2. CASE k # p
      BY <1>1, <2>2, <2>6, <3>2 DEF LInv, PidInv
    <3> QED
      BY <3>1, <3>2
  <2>7. ASSUME ~raced', NEW q \in Proc, at'[q] = "write", NEW k \in Proc \ {q},
               at'[k] = "write"
        PROVE  conf'[k]["pid_path"] # conf'[q]["pid_path"]
    BY <1>1, <2>2, <2>7 DEF LInv, PidInv
  <2> QED
    BY <2>3, <2>5, <2>6, <2>7 DEF PidInv
<1> QED
  BY <1>2, <1>3

\* The pid files.
LEMMA NextPids == LInv /\ [Next]_vars => PidInv'
<1> SUFFICES ASSUME LInv, [Next]_vars PROVE PidInv'
  OBVIOUS
<1>1. ASSUME NEW p \in Proc, Start(p) \/ LoadFirst(p) \/ SemWait(p) \/ ReadList(p) \/ ReadFails(p)
                             \/ FinishRound(p) \/ Exit(p) \/ Sigusr2(p)
      PROVE  PidInv'
  <2>1. DOMAIN at = Proc /\ DOMAIN conf = Proc /\ UNCHANGED <<pidfile, wrote, raced>>
    BY <1>1 DEF Start, LoadFirst, SemWait, ReadList, ReadFails, FinishRound, Exit, Sigusr2, LInv,
       LifeType
  <2>2. /\ \A q \in Proc \ {p} : at'[q] = at[q] /\ conf'[q] = conf[q]
        /\ at'[p] # "write" \/ (at' = at /\ conf' = conf)
        /\ p \in Daemons' => p \in Daemons
    BY <1>1, <2>1 DEF Start, LoadFirst, Load, SemWait, ReadList, ReadFails, FinishRound, Exit,
       Sigusr2, Move, Daemons
  <2>3. Daemons' \subseteq Daemons
    BY <2>2 DEF Daemons
  <2>4. \A q \in Proc : at'[q] = "write" => at[q] = "write" /\ conf'[q] = conf[q]
    BY <2>2
  <2> QED
    BY <2>1, <2>3, <2>4, PidsStay DEF LInv
<1>2. CASE \/ \E k \in Key : \E line \in Lines[k] : Edit(k, line)
           \/ CollectorWants \/ Collector
           \/ UNCHANGED vars
  <2>1. UNCHANGED <<at, conf, pidfile, wrote, raced>>
    BY <1>2 DEF Edit, CollectorWants, Collector, CollectorWait, Publish, vars, proc
  <2>2. Daemons' = Daemons
    BY <2>1 DEF Daemons
  <2> QED
    BY <2>1, <2>2, PidsStay DEF LInv
<1> QED
  BY <1>1, <1>2, CheckPids, WritePids DEF Next, Process

\* The invariant holds in every reachable state.
LEMMA LifecycleInv == Spec => []LInv
<1>1. LInv /\ [Next]_vars => LInv'
  BY NextLifeType, NextShm, NextPids DEF LInv
<1> QED
  BY <1>1, InitLInv, PTL DEF Spec

\* One user of the shared memory at a time, and the semaphore is lost only by an
\* exit of a process that holds it.
THEOREM ShmCorrect == Spec => []ShmExclusive
<1>1. LInv => ShmExclusive
  BY DEF LInv
<1> QED
  BY <1>1, LifecycleInv, PTL

\* Two daemons on one pid file had both checked it before either wrote it.
THEOREM PidCorrect == Spec => []TwoDaemonsNeedRace
<1>1. LInv => TwoDaemonsNeedRace
  <2> SUFFICES ASSUME LInv, NEW p \in Daemons, NEW q \in Daemons, p # q, wrote[p] = wrote[q],
                      ~raced
               PROVE  FALSE
    BY DEF TwoDaemonsNeedRace
  <2> QED
    BY DEF LInv, PidInv
<1> QED
  BY <1>1, LifecycleInv, PTL


----------------------------------------------------------------------------
(***************************************************************************)
(* The list of destinations.  What the readers leave of the memory is at   *)
(* most one flow, so without a new publication fewer than three are there  *)
(* to be let through.                                                      *)
(***************************************************************************)
ListInv ==
    /\ DOMAIN at = Proc /\ DOMAIN list = Proc
    /\ shm \in Seq(Flow)
    /\ ~fresh => Len(shm) <= 1

\* What strtok leaves.
LEMMA StrtokLeaves ==
    ASSUME NEW flows \in Seq(Flow)
    PROVE  AfterStrtok(flows) \in Seq(Flow) /\ Len(AfterStrtok(flows)) <= 1
  BY DEF AfterStrtok

\* One flow is not enough for a new list.
LEMMA OneFlowKeeps ==
    ASSUME NEW flows \in Seq(Flow), Len(flows) <= 1, NEW prev
    PROVE  NextList(prev, flows) = prev
<1>1. Hits(flows) \subseteq {1}
  BY DEF Hits
<1>2. IsFiniteSet({1}) /\ Cardinality({1}) = 1
  BY FS_Singleton
<1>3. Cardinality(Hits(flows)) <= 1 /\ Cardinality(Hits(flows)) \in Nat
  <2> HIDE DEF Hits
  <2>1. IsFiniteSet(Hits(flows)) /\ Cardinality(Hits(flows)) <= Cardinality({1})
    BY <1>1, <1>2, FS_Subset
  <2>2. Cardinality(Hits(flows)) \in Nat
    BY <2>1, FS_CardinalityType
  <2> QED
    BY <1>2, <2>1, <2>2
<1> QED
  BY <1>3 DEF NextList

LEMMA ListInvariant == Spec => []ListInv
<1>1. Init => ListInv
  <2>1. Init => DOMAIN at = Proc /\ DOMAIN list = Proc /\ shm = <<>>
    BY DEF Init
  <2>2. <<>> \in Seq(Flow) /\ Len(<<>>) = 0
    OBVIOUS
  <2> QED
    BY <2>1, <2>2 DEF ListInv
<1>2. ListInv /\ [Next]_vars => ListInv'
  <2> SUFFICES ASSUME ListInv, [Next]_vars PROVE ListInv'
    OBVIOUS
  <2> USE DEF ListInv
  <2>1. DOMAIN at' = Proc /\ DOMAIN list' = Proc
    BY DEF Next, Process, Collector, Start, LoadFirst, CheckPid, WritePid, SemWait,
       ReadList, ReadFails, FinishRound, Exit, Sigusr2, Edit, CollectorWants, CollectorWait,
       Publish, Move, vars, proc, shared
  <2>2. \/ UNCHANGED <<shm, fresh>>
        \/ shm' = AfterStrtok(shm)
        \/ fresh' /\ shm' \in Flows
    BY DEF Next, Process, Collector, Start, LoadFirst, CheckPid, WritePid, SemWait,
       ReadList, ReadFails, FinishRound, Exit, Sigusr2, Edit, CollectorWants, CollectorWait,
       Publish, vars, shared
  <2> QED
    BY <2>1, <2>2, StrtokLeaves, LifecycleAssumption
<1> QED
  BY <1>1, <1>2, PTL DEF Spec

\* A read of a memory the collector has not written since leaves the list as it was,
\* whatever the flows, the customer and the local networks are.
THEOREM ListCorrect == Spec => NoNewsKeepsList
<1>1. ListInv /\ [Next]_vars =>
        [\A p \in Proc : at[p] = "read" /\ at'[p] = "run" /\ ~fresh => list'[p] = list[p]]_vars
  <2> SUFFICES ASSUME ListInv, [Next]_vars, NEW p \in Proc, at[p] = "read", at'[p] = "run",
                      ~fresh
               PROVE  list'[p] = list[p]
    BY DEF vars
  <2>1. CASE UNCHANGED list
    BY <2>1
  <2>2. ASSUME NEW q \in Proc, ReadList(q) PROVE list'[p] = list[p]
    <3>1. CASE q = p
      <4>1. list'[p] = NextList(list[p], shm)
        BY <2>2, <3>1 DEF ReadList, ListInv
      <4> QED
        BY <4>1, OneFlowKeeps DEF ListInv
    <3>2. CASE q # p
      BY <2>2, <3>2 DEF ReadList, ListInv
    <3> QED
      BY <3>1, <3>2
  <2> QED
    BY <2>1, <2>2 DEF Next, Process, Collector, Start, LoadFirst, CheckPid, WritePid, SemWait,
       ReadFails, FinishRound, Exit, Sigusr2, Edit, CollectorWants, CollectorWait, Publish,
       vars, proc, shared
<1> QED
  BY <1>1, ListInvariant, PTL DEF Spec, NoNewsKeepsList


----------------------------------------------------------------------------
(***************************************************************************)
(* The configuration.  As long as the file has not lost a key nor named an *)
(* unknown metric, settings c and map m differ from those of a start only  *)
(* in what the next load of file f overwrites.                             *)
(***************************************************************************)
Clean(c, m, f) ==
    /\ \A k \in Key : f[k] = Absent => m[k] = Absent
    /\ \A k \in Key : m[k] = Absent => c[k] = Default[k]
    /\ f["path_metric"] \notin Metrics => c["path_metric"] = Default["path_metric"]

ConfInv ==
    /\ DOMAIN at = Proc /\ DOMAIN conf = Proc /\ DOMAIN cmap = Proc /\ DOMAIN file = Key
    /\ \A p \in Proc : at[p] \in {"off", "load"} => conf[p] = Default /\ cmap[p] = NoKeys
    /\ \A p \in Proc : at[p] \notin {"off", "load"} /\ ~forgot[p] =>
          Clean(conf[p], cmap[p], file)

\* A load of clean settings gives what a start gives.
LEMMA CleanLoad ==
    ASSUME NEW c, NEW m, NEW f, Clean(c, m, f)
    PROVE  /\ Parsed(m, f) = Parsed(NoKeys, f)
           /\ Settings(c, Parsed(m, f)) = Settings(Default, Parsed(NoKeys, f))
<1>1. Parsed(m, f) = Parsed(NoKeys, f)
  BY DEF Clean, Parsed, NoKeys
<1>2. ASSUME NEW k \in Key, Parsed(NoKeys, f)[k] = Absent PROVE c[k] = Default[k]
  <2>1. f[k] = Absent
    BY <1>2 DEF Parsed
  <2> QED
    BY <2>1 DEF Clean
<1>3. ASSUME NEW k \in Key, Parsed(NoKeys, f)[k] # Absent
      PROVE  Converted(k, Parsed(NoKeys, f)[k], c[k])
               = Converted(k, Parsed(NoKeys, f)[k], Default[k])
  <2>1. Parsed(NoKeys, f)[k] = f[k]
    BY <1>3 DEF Parsed, NoKeys
  <2>2. CASE k = "path_metric"
    BY <2>1, <2>2 DEF Converted, Clean
  <2>3. CASE k # "path_metric"
    BY <2>3 DEF Converted, Key
  <2> QED
    BY <2>2, <2>3
<1>4. Settings(c, Parsed(NoKeys, f)) = Settings(Default, Parsed(NoKeys, f))
  BY <1>2, <1>3 DEF Settings
<1> QED
  BY <1>1, <1>4

\* A start is clean, and so is what it loads.
LEMMA StartClean ==
    ASSUME NEW f
    PROVE  /\ Clean(Default, NoKeys, f)
           /\ Clean(Settings(Default, Parsed(NoKeys, f)), Parsed(NoKeys, f), f)
<1>1. Clean(Default, NoKeys, f)
  BY DEF Clean, NoKeys
<1> DEFINE m == Parsed(NoKeys, f)
           c == Settings(Default, m)
<1>2. \A k \in Key : f[k] = Absent => m[k] = Absent
  BY DEF Parsed, NoKeys
<1>3. \A k \in Key : m[k] = Absent => c[k] = Default[k]
  BY DEF Settings
<1>4. ASSUME f["path_metric"] \notin Metrics PROVE c["path_metric"] = Default["path_metric"]
  <2>1. "path_metric" \in Key
    BY DEF Key
  <2>2. CASE f["path_metric"] = Absent
    BY <1>2, <1>3, <2>1, <2>2
  <2>3. CASE f["path_metric"] # Absent
    <3>1. m["path_metric"] = f["path_metric"]
      BY <2>1, <2>3 DEF Parsed
    <3>2. c["path_metric"] = Converted("path_metric", f["path_metric"], Default["path_metric"])
      BY <2>1, <2>3, <3>1 DEF Settings
    <3> QED
      BY <1>4, <3>2 DEF Converted
  <2> QED
    BY <2>2, <2>3
<1> QED
  BY <1>1, <1>2, <1>3, <1>4 DEF Clean

\* A load of process p, when its settings are those of a start or clean.
LEMMA LoadClean ==
    ASSUME ConfInv, NEW p \in Proc, Load(p), Clean(conf[p], cmap[p], file)
    PROVE  /\ conf'[p] = Settings(Default, Parsed(NoKeys, file))
           /\ Clean(conf'[p], cmap'[p], file)
<1>1. /\ cmap'[p] = Parsed(cmap[p], file)
      /\ conf'[p] = Settings(conf[p], Parsed(cmap[p], file))
  BY DEF Load, ConfInv
<1> QED
  BY <1>1, CleanLoad, StartClean

LEMMA ConfInvariant == Spec => []ConfInv
<1>1. Init => ConfInv
  BY LifecycleAssumption DEF Init, ConfInv
<1>2. ConfInv /\ [Next]_vars => ConfInv'
  <2> SUFFICES ASSUME ConfInv, [Next]_vars PROVE ConfInv'
    OBVIOUS
  <2>1. ASSUME NEW p \in Proc, LoadFirst(p) \/ FinishRound(p) PROVE ConfInv'
    <3>1. /\ UNCHANGED <<file, forgot>> /\ at[p] \in {"load", "run"}
          /\ DOMAIN at' = Proc /\ DOMAIN conf' = Proc /\ DOMAIN cmap' = Proc
          /\ at'[p] \notin {"off", "load"}
          /\ Load(p) \/ UNCHANGED <<conf, cmap>>
          /\ \A q \in Proc \ {p} : at'[q] = at[q] /\ conf'[q] = conf[q] /\ cmap'[q] = cmap[q]
      BY <2>1 DEF LoadFirst, FinishRound, Load, Move, ConfInv
    <3>2. ~forgot[p] => Clean(conf[p], cmap[p], file) 
      BY <3>1, StartClean DEF ConfInv
    <3>3. ~forgot[p] => Clean(conf'[p], cmap'[p], file)
      BY <3>1, <3>2, LoadClean
    <3> QED
      BY <3>1, <3>3 DEF ConfInv
  <2>2. ASSUME NEW p \in Proc,
               Start(p) \/ CheckPid(p) \/ WritePid(p) \/ SemWait(p) \/ ReadList(p) \/ ReadFails(p)
                 \/ Exit(p) \/ Sigusr2(p)
        PROVE  ConfInv'
    <3>1. /\ UNCHANGED <<file, forgot, conf, cmap>> /\ DOMAIN at' = Proc
          /\ \A q \in Proc \ {p} : at'[q] = at[q]
          /\ \/ at[p] = "off" /\ at'[p] = "load"
             \/ at[p] \notin {"off", "load"} /\ at'[p] \notin {"off", "load"}
      BY <2>2 DEF Start, CheckPid, WritePid, SemWait, ReadList, ReadFails, Exit, Sigusr2, Daemons,
         Move, ConfInv
    <3> QED
      BY <3>1 DEF ConfInv
  <2>3. ASSUME NEW k \in Key, NEW line \in Lines[k], Edit(k, line) PROVE ConfInv'
    <3>1. UNCHANGED <<at, conf, cmap>> /\ file' = [file EXCEPT ![k] = line] /\ DOMAIN file = Key
      BY <2>3 DEF Edit, proc, ConfInv
    <3>2. ASSUME NEW p \in Proc, at[p] \notin {"off", "load"}, ~forgot'[p]
          PROVE  Clean(conf[p], cmap[p], file')
      <4>1. ~forgot[p] /\ line # Absent /\ (k = "path_metric" => line \in Metrics)
        BY <2>3, <3>2 DEF Edit
      <4>2. Clean(conf[p], cmap[p], file)
        BY <3>2, <4>1 DEF ConfInv
      <4>3. "path_metric" \in Key
        BY DEF Key
      <4> QED
        BY <3>1, <4>1, <4>2, <4>3 DEF Clean
    <3> QED
      BY <3>1, <3>2 DEF ConfInv
  <2>4. CASE CollectorWants \/ Collector \/ UNCHANGED vars
    <3>1. UNCHANGED <<at, conf, cmap, file, forgot>>
      BY <2>4 DEF CollectorWants, Collector, CollectorWait, Publish, vars, proc
    <3> QED
      BY <3>1 DEF ConfInv
  <2> QED
    BY <2>1, <2>2, <2>3, <2>4 DEF Next, Process
<1> QED
  BY <1>1, <1>2, PTL DEF Spec

\* A reread of a file that has lost nothing gives the settings of a start, whatever
\* the operator may write and however often the file was edited and reread.
THEOREM RereadCorrect == Spec => RereadIsStart
<1>1. ConfInv /\ [Next]_vars =>
        [\A p \in Proc : at[p] = "run" /\ usr2[p] /\ at'[p] = "wait" /\ ~forgot[p] =>
            conf'[p] = Settings(Default, Parsed(NoKeys, file))]_vars
  <2> SUFFICES ASSUME ConfInv, [Next]_vars, at' # at, NEW p \in Proc, at[p] = "run", usr2[p],
                      at'[p] = "wait", ~forgot[p]
               PROVE  conf'[p] = Settings(Default, Parsed(NoKeys, file))
    BY DEF vars, proc
  <2>1. \E q \in Proc : Start(q) \/ Process(q) \/ Exit(q)
    BY DEF Next, Sigusr2, Edit, CollectorWants, Collector, CollectorWait, Publish, vars, proc
  <2>2. FinishRound(p)
    <3>1. PICK q \in Proc : Start(q) \/ Process(q) \/ Exit(q)
      BY <2>1
    <3>2. q = p
      <4>1. \E place : Move(q, place)
        BY <3>1 DEF Start, Process, LoadFirst, CheckPid, WritePid, SemWait, ReadList, ReadFails,
           FinishRound, Exit
      <4> QED
        BY <4>1 DEF Move, ConfInv
    <3> QED
      BY <3>1, <3>2 DEF Start, Process, LoadFirst, CheckPid, WritePid, SemWait, ReadList,
         ReadFails, Exit, Move, ConfInv
  <2>3. Load(p)
    BY <2>2 DEF FinishRound, Move, ConfInv
  <2> QED
    BY <2>3, LoadClean DEF ConfInv
<1> QED
  BY <1>1, ConfInvariant, PTL DEF Spec, RereadIsStart
=============================================================================
