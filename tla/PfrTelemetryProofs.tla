-------------------------- MODULE PfrTelemetryProofs --------------------------
(***************************************************************************)
(* Proofs about PfrTelemetry, for any routers, peers and number of         *)
(* periods.                                                                *)
(*                                                                         *)
(* The inductive invariant says exactly which periods the container holds  *)
(* for a peer: the last two before the thread comes to it, three between   *)
(* add and cleanup, and again two afterwards.  What is allocated is that   *)
(* and, until it is deleted, what cleanup has returned.                    *)
(***************************************************************************)
EXTENDS PfrTelemetry, TLAPS

\* The peer the thread of router a is at.
Front(a, n) == n \in todo[a] /\ \A k \in todo[a] : n <= k

\* The periods stored before add, between add and cleanup, and after cleanup.
Before(p) == {q \in Nat : q < p /\ q + 2 >= p}
Between(p) == {q \in Nat : q <= p /\ q + 2 >= p}
After(p) == {q \in Nat : q <= p /\ q + 2 > p}

\* What cleanup returns.
Two(p) == {q \in Nat : q + 2 = p}

PpmInv ==
    \A a \in Asbr : \A n \in PeersOf[a] :
        /\ n \notin todo[a] => ppm[n] = After(perf[a])
        /\ n \in todo[a] /\ ~Front(a, n) => ppm[n] = Before(perf[a])
        /\ Front(a, n) =>
              /\ at[a] = "add" => ppm[n] = Before(perf[a])
              /\ at[a] = "cleanup" => ppm[n] = Between(perf[a])
              /\ at[a] = "delete" => ppm[n] = After(perf[a])

GoneInv ==
    \A a \in Asbr :
        /\ at[a] = "delete" => gone[a] = Two(perf[a])
        /\ at[a] # "delete" => gone[a] = {}

HeapInv ==
    \A a \in Asbr : \A n \in PeersOf[a] :
        /\ Front(a, n) => heap[n] = ppm[n] \cup gone[a]
        /\ ~Front(a, n) => heap[n] = ppm[n]

\* A pointer to the present period is one that has been added.
PtrInv ==
    \A p \in ptr : \A a \in Asbr :
        p.peer \in PeersOf[a] =>
            p.perf <= perf[a] /\ (p.perf = perf[a] => p.perf \in ppm[p.peer])

IndInv == TypeOK /\ PpmInv /\ GoneInv /\ HeapInv /\ PtrInv

----------------------------------------------------------------------------

\* A peer of a router is a peer, and of no other router.
LEMMA PeerFacts ==
    /\ Peer \subseteq Nat
    /\ \A a \in Asbr : PeersOf[a] \subseteq Peer
    /\ \A a, b \in Asbr : \A n \in PeersOf[a] : n \in PeersOf[b] => a = b
  BY TelemetryAssumption DEF Peer

\* What add, cleanup and a new period make of these sets.
LEMMA PeriodFacts ==
    ASSUME NEW p \in Nat
    PROVE  /\ Before(p) \cup {p} = Between(p)
           /\ {q \in Between(p) : q + 2 # p} = After(p)
           /\ {q \in Between(p) : q + 2 = p} = Two(p)
           /\ Before(p + 1) = After(p)
           /\ Before(0) = {}
           /\ p \in After(p) /\ p \in Between(p)
  BY DEF Before, Between, After, Two

\* The threads start with an empty container.
LEMMA InitIndInv == Init => IndInv
<1> SUFFICES ASSUME Init PROVE IndInv
  OBVIOUS
<1> USE TelemetryAssumption, PeerFacts DEF Init
<1>1. TypeOK
  BY DEF TypeOK
<1>2. PpmInv
  BY PeriodFacts DEF PpmInv, Front
<1>3. GoneInv /\ HeapInv /\ PtrInv
  BY DEF GoneInv, HeapInv, PtrInv
<1> QED
  BY <1>1, <1>2, <1>3 DEF IndInv

\* new tperf_peer and add: the entry of this period appears in both places.
LEMMA AddInv ==
    ASSUME IndInv, NEW a \in Asbr, NEW n \in PeersOf[a], Add(a, n)
    PROVE  IndInv'
<1> USE TelemetryAssumption, PeerFacts DEF IndInv
<1>1. TypeOK'
  BY DEF TypeOK, Add
<1>2. Front(a, n) /\ at[a] = "add" /\ ppm[n] = Before(perf[a]) /\ perf[a] \in Nat
  BY DEF Add, Front, PpmInv, TypeOK
<1>3. ppm'[n] = Between(perf[a])
  <2>1. n \in DOMAIN ppm /\ ppm' = [ppm EXCEPT ![n] = ppm[n] \cup {perf[a]}]
    BY DEF Add, TypeOK
  <2>2. ppm'[n] = ppm[n] \cup {perf[a]}
    BY <2>1
  <2> QED
    BY <1>2, <2>2, PeriodFacts
<1>4. \A m \in Peer : m # n => ppm'[m] = ppm[m] /\ heap'[m] = heap[m]
  BY DEF Add, TypeOK
<1>5. \A b \in Asbr : \A m \in PeersOf[b] : Front(b, m)' = Front(b, m)
  BY DEF Add, Front
<1>6. \A b \in Asbr : at'[b] = IF b = a THEN "cleanup" ELSE at[b]
  BY DEF Add, TypeOK
<1>7. \A m \in PeersOf[a] : m # n => ~Front(a, m)
  BY <1>2 DEF Front
<1>8. PpmInv'
  <2> SUFFICES ASSUME NEW b \in Asbr, NEW m \in PeersOf[b]
               PROVE  /\ m \notin todo[b] => ppm'[m] = After(perf[b])
                      /\ m \in todo[b] /\ ~Front(b, m) => ppm'[m] = Before(perf[b])
                      /\ Front(b, m) =>
                            /\ at'[b] = "add" => ppm'[m] = Before(perf[b])
                            /\ at'[b] = "cleanup" => ppm'[m] = Between(perf[b])
                            /\ at'[b] = "delete" => ppm'[m] = After(perf[b])
    BY <1>5 DEF PpmInv, Add, After, Before, Between
  <2>1. CASE m = n
    BY <2>1, <1>2, <1>3, <1>6 DEF Front
  <2>2. CASE m # n /\ b = a
    BY <2>2, <1>4, <1>6, <1>7 DEF PpmInv
  <2>3. CASE m # n /\ b # a
    BY <2>3, <1>4, <1>6 DEF PpmInv
  <2> QED
    BY <2>1, <2>2, <2>3
<1>9. GoneInv'
  <2> SUFFICES ASSUME NEW b \in Asbr
               PROVE  /\ at'[b] = "delete" => gone[b] = Two(perf[b])
                      /\ at'[b] # "delete" => gone[b] = {}
    BY DEF GoneInv, Add, Two
  <2> QED
    BY <1>2, <1>6 DEF GoneInv
<1>10. HeapInv'
  <2> SUFFICES ASSUME NEW b \in Asbr, NEW m \in PeersOf[b]
               PROVE  /\ Front(b, m) => heap'[m] = ppm'[m] \cup gone[b]
                      /\ ~Front(b, m) => heap'[m] = ppm'[m]
    <3>1. gone' = gone
      BY DEF Add
    <3> QED
      BY <3>1, <1>5 DEF HeapInv
  <2>1. CASE m = n
    <3>1. heap[n] = ppm[n] \cup gone[a] /\ gone[a] = {}
      BY <1>2 DEF HeapInv, GoneInv
    <3>2. heap'[n] = heap[n] \cup {perf[a]} /\ ppm'[n] = ppm[n] \cup {perf[a]}
      BY DEF Add, TypeOK
    <3> QED
      BY <2>1, <3>1, <3>2, <1>2
  <2>2. CASE m # n
    BY <2>2, <1>4 DEF HeapInv
  <2> QED
    BY <2>1, <2>2
<1>11. PtrInv'
  <2>1. \A m \in Peer : ppm[m] \subseteq ppm'[m]
    BY DEF Add, TypeOK
  <2> QED
    BY <2>1 DEF PtrInv, Add, TypeOK
<1> QED
  BY <1>1, <1>8, <1>9, <1>10, <1>11

\* cleanup takes out the entry of two periods ago, if there is one, and nothing else.
LEMMA CleanupInv ==
    ASSUME IndInv, NEW a \in Asbr, NEW n \in PeersOf[a], Cleanup(a, n)
    PROVE  IndInv'
<1> USE TelemetryAssumption, PeerFacts DEF IndInv
<1>1. TypeOK'
  BY DEF TypeOK, Cleanup
<1>2. Front(a, n) /\ at[a] = "cleanup" /\ ppm[n] = Between(perf[a]) /\ perf[a] \in Nat
  BY DEF Cleanup, Front, PpmInv, TypeOK
<1>3. ppm'[n] = {q \in ppm[n] : q + 2 # perf[a]} /\ gone'[a] = {q \in ppm[n] : q + 2 = perf[a]}
  BY DEF Cleanup, TypeOK
<1>4. ppm'[n] = After(perf[a]) /\ gone'[a] = Two(perf[a])
  BY <1>2, <1>3, PeriodFacts
<1>5. /\ \A m \in Peer : m # n => ppm'[m] = ppm[m]
      /\ \A b \in Asbr : b # a => gone'[b] = gone[b]
  BY DEF Cleanup, TypeOK
<1>6. \A b \in Asbr : \A m \in PeersOf[b] : Front(b, m)' = Front(b, m)
  BY DEF Cleanup, Front
<1>0. UNCHANGED <<todo, perf, heap, ptr>>
  BY DEF Cleanup
<1>7. \A b \in Asbr : at'[b] = IF b = a THEN "delete" ELSE at[b]
  BY DEF Cleanup, TypeOK
<1>8. \A m \in PeersOf[a] : m # n => ~Front(a, m)
  BY <1>2 DEF Front
<1>9. PpmInv'
  <2> SUFFICES ASSUME NEW b \in Asbr, NEW m \in PeersOf[b]
               PROVE  /\ m \notin todo[b] => ppm'[m] = After(perf[b])
                      /\ m \in todo[b] /\ ~Front(b, m) => ppm'[m] = Before(perf[b])
                      /\ Front(b, m) =>
                            /\ at'[b] = "add" => ppm'[m] = Before(perf[b])
                            /\ at'[b] = "cleanup" => ppm'[m] = Between(perf[b])
                            /\ at'[b] = "delete" => ppm'[m] = After(perf[b])
    BY <1>0, <1>6 DEF PpmInv, After, Before, Between
  <2>1. CASE m = n
    BY <2>1, <1>2, <1>4, <1>7 DEF Front
  <2>2. CASE m # n /\ b = a
    BY <2>2, <1>5, <1>7, <1>8 DEF PpmInv
  <2>3. CASE m # n /\ b # a
    BY <2>3, <1>5, <1>7 DEF PpmInv
  <2> QED
    BY <2>1, <2>2, <2>3
<1>10. GoneInv'
  <2> SUFFICES ASSUME NEW b \in Asbr
               PROVE  /\ at'[b] = "delete" => gone'[b] = Two(perf[b])
                      /\ at'[b] # "delete" => gone'[b] = {}
    BY <1>0 DEF GoneInv, Two
  <2> QED
    BY <1>4, <1>5, <1>7 DEF GoneInv
<1>11. HeapInv'
  <2> SUFFICES ASSUME NEW b \in Asbr, NEW m \in PeersOf[b]
               PROVE  /\ Front(b, m) => heap[m] = ppm'[m] \cup gone'[b]
                      /\ ~Front(b, m) => heap[m] = ppm'[m]
    BY <1>0, <1>6 DEF HeapInv
  <2>1. CASE m = n
    <3>0. heap[n] = ppm[n] \cup gone[a] /\ gone[a] = {}
      BY <1>2 DEF HeapInv, GoneInv
    <3>1. heap[n] = ppm[n]
      BY <3>0
    <3>2. ppm[n] = ppm'[n] \cup gone'[a]
      BY <1>3
    <3> QED
      BY <2>1, <3>1, <3>2, <1>2
  <2>2. CASE m # n
    BY <2>2, <1>5, <1>8 DEF HeapInv
  <2> QED
    BY <2>1, <2>2
<1>12. PtrInv'
  <2> SUFFICES ASSUME NEW p \in ptr, NEW b \in Asbr, p.peer \in PeersOf[b]
               PROVE  p.perf <= perf[b] /\ (p.perf = perf[b] => p.perf \in ppm'[p.peer])
    BY <1>0 DEF PtrInv
  <2>1. CASE p.peer = n
    BY <2>1, <1>4, <1>2, PeriodFacts DEF PtrInv
  <2>2. CASE p.peer # n
    BY <2>2, <1>5 DEF PtrInv
  <2> QED
    BY <2>1, <2>2
<1> QED
  BY <1>1, <1>9, <1>10, <1>11, <1>12

\* delete gives back what cleanup returned, and the thread goes on to the next peer.
LEMMA DeleteInv ==
    ASSUME IndInv, NEW a \in Asbr, NEW n \in PeersOf[a], Delete(a, n)
    PROVE  IndInv'
<1> USE TelemetryAssumption, PeerFacts DEF IndInv
<1>1. TypeOK'
  BY DEF TypeOK, Delete
<1>2. Front(a, n) /\ at[a] = "delete" /\ ppm[n] = After(perf[a]) /\ gone[a] = Two(perf[a])
  BY DEF Delete, Front, PpmInv, GoneInv
<1>3. perf[a] \in Nat /\ n \in todo[a]
  BY <1>2 DEF TypeOK, Front
<1>4. \A b \in Asbr : /\ at'[b] = IF b = a THEN "add" ELSE at[b]
                      /\ todo'[b] = IF b = a THEN todo[a] \ {n} ELSE todo[b]
                      /\ gone'[b] = IF b = a THEN {} ELSE gone[b]
  BY DEF Delete, TypeOK
<1>5. \A b \in Asbr : \A m \in PeersOf[b] : b # a => Front(b, m)' = Front(b, m)
  BY <1>4 DEF Front
<1>6. \A m \in PeersOf[a] : m # n => ~Front(a, m)
  BY <1>2 DEF Front
<1>7. ~Front(a, n)'
  BY <1>4 DEF Front
<1>8. PpmInv'
  <2>1. ppm' = ppm /\ perf' = perf
    BY DEF Delete
  <2> SUFFICES ASSUME NEW b \in Asbr, NEW m \in PeersOf[b]
               PROVE  /\ m \notin todo'[b] => ppm[m] = After(perf[b])
                      /\ m \in todo'[b] /\ ~Front(b, m)' => ppm[m] = Before(perf[b])
                      /\ Front(b, m)' =>
                            /\ at'[b] = "add" => ppm[m] = Before(perf[b])
                            /\ at'[b] = "cleanup" => ppm[m] = Between(perf[b])
                            /\ at'[b] = "delete" => ppm[m] = After(perf[b])
    BY <2>1 DEF PpmInv, After, Before, Between
  <2>2. CASE m = n
    <3>1. b = a
      BY <2>2
    <3>2. n \notin todo'[a]
      BY <1>4
    <3>3. ppm[m] = After(perf[b]) /\ m \notin todo'[b]
      BY <2>2, <3>1, <3>2, <1>2
    <3>4. ~Front(b, m)'
      BY <3>3 DEF Front
    <3> QED
      BY <3>3, <3>4
  <2>3. CASE m # n /\ b = a
    <3>1. ~Front(a, m) /\ at'[a] = "add" /\ (m \in todo'[a] <=> m \in todo[a])
      BY <2>3, <1>4, <1>6
    <3>2. /\ m \notin todo[a] => ppm[m] = After(perf[a])
          /\ m \in todo[a] => ppm[m] = Before(perf[a])
      BY <2>3, <3>1 DEF PpmInv
    <3>3. Front(b, m)' => m \in todo'[b]
      BY DEF Front
    <3> QED
      BY <2>3, <3>1, <3>2, <3>3
  <2>4. CASE m # n /\ b # a
    BY <2>4, <1>4, <1>5 DEF PpmInv
  <2> QED
    BY <2>2, <2>3, <2>4
<1>9. GoneInv'
  <2>1. perf' = perf
    BY DEF Delete
  <2> SUFFICES ASSUME NEW b \in Asbr
               PROVE  /\ at'[b] = "delete" => gone'[b] = Two(perf[b])
                      /\ at'[b] # "delete" => gone'[b] = {}
    BY <2>1 DEF GoneInv, Two
  <2> QED
    BY <1>4 DEF GoneInv
<1>10. HeapInv'
  <2>1. ppm' = ppm
    BY DEF Delete
  <2>2. \A m \in Peer : heap'[m] = IF m = n THEN heap[n] \ gone[a] ELSE heap[m]
    BY DEF Delete, TypeOK
  <2> SUFFICES ASSUME NEW b \in Asbr, NEW m \in PeersOf[b]
               PROVE  /\ Front(b, m)' => heap'[m] = ppm[m] \cup gone'[b]
                      /\ ~Front(b, m)' => heap'[m] = ppm[m]
    BY <2>1 DEF HeapInv
  <2>3. CASE m = n
    <3>1. heap[n] = ppm[n] \cup gone[a]
      BY <1>2 DEF HeapInv
    <3>2. ppm[n] \cap gone[a] = {}
      BY <1>2, <1>3 DEF After, Two
    <3>3. heap'[n] = heap[n] \ gone[a]
      BY <2>2
    <3>4. heap'[n] = ppm[n]
      BY <3>1, <3>2, <3>3
    <3> QED
      BY <2>3, <3>4, <1>7
  <2>4. CASE m # n /\ b = a
    <3>1. heap[m] = ppm[m] /\ heap'[m] = heap[m] /\ gone'[b] = {}
      BY <2>4, <2>2, <1>4, <1>6 DEF HeapInv
    <3> QED
      BY <3>1
  <2>5. CASE m # n /\ b # a
    BY <2>5, <2>2, <1>4, <1>5 DEF HeapInv
  <2> QED
    BY <2>3, <2>4, <2>5
<1>11. PtrInv'
  BY DEF PtrInv, Delete
<1> QED
  BY <1>1, <1>8, <1>9, <1>10, <1>11

\* A new period: what was complete is now one period old.
LEMMA PeriodInv == ASSUME IndInv, NEW a \in Asbr, Period(a) PROVE IndInv'
<1> USE TelemetryAssumption, PeerFacts DEF IndInv
<1>1. TypeOK'
  BY DEF TypeOK, Period
<1>2. at[a] = "add" /\ todo[a] = {} /\ perf[a] \in Nat
  BY DEF Period, TypeOK
<1>3. \A b \in Asbr : /\ perf'[b] = IF b = a THEN perf[a] + 1 ELSE perf[b]
                      /\ todo'[b] = IF b = a THEN PeersOf[a] ELSE todo[b]
  BY DEF Period, TypeOK
<1>4. at' = at /\ ppm' = ppm /\ heap' = heap /\ gone' = gone /\ ptr' = ptr
  BY DEF Period
<1>5. \A b \in Asbr : \A m \in PeersOf[b] : b # a => Front(b, m)' = Front(b, m)
  BY <1>3 DEF Front
<1>6. \A m \in PeersOf[a] : ~Front(a, m) /\ ppm[m] = After(perf[a]) /\ ppm[m] = Before(perf[a] + 1)
  BY <1>2, PeriodFacts DEF Front, PpmInv
<1>7. PpmInv'
  <2> SUFFICES ASSUME NEW b \in Asbr, NEW m \in PeersOf[b]
               PROVE  /\ m \notin todo'[b] => ppm[m] = After(perf'[b])
                      /\ m \in todo'[b] /\ ~Front(b, m)' => ppm[m] = Before(perf'[b])
                      /\ Front(b, m)' =>
                            /\ at[b] = "add" => ppm[m] = Before(perf'[b])
                            /\ at[b] = "cleanup" => ppm[m] = Between(perf'[b])
                            /\ at[b] = "delete" => ppm[m] = After(perf'[b])
    BY <1>4 DEF PpmInv, After, Before, Between
  <2>1. CASE b = a
    BY <2>1, <1>2, <1>3, <1>6
  <2>2. CASE b # a
    BY <2>2, <1>3, <1>5 DEF PpmInv
  <2> QED
    BY <2>1, <2>2
<1>8. GoneInv'
  <2> SUFFICES ASSUME NEW b \in Asbr
               PROVE  /\ at[b] = "delete" => gone[b] = Two(perf'[b])
                      /\ at[b] # "delete" => gone[b] = {}
    BY <1>4 DEF GoneInv, Two
  <2> QED
    BY <1>2, <1>3 DEF GoneInv
<1>9. HeapInv'
  <2> SUFFICES ASSUME NEW b \in Asbr, NEW m \in PeersOf[b]
               PROVE  /\ Front(b, m)' => heap[m] = ppm[m] \cup gone[b]
                      /\ ~Front(b, m)' => heap[m] = ppm[m]
    BY <1>4 DEF HeapInv
  <2>1. CASE b = a
    <3>1. heap[m] = ppm[m] /\ gone[b] = {}
      BY <2>1, <1>2, <1>6 DEF HeapInv, GoneInv
    <3> QED
      BY <3>1
  <2>2. CASE b # a
    BY <2>2, <1>5 DEF HeapInv
  <2> QED
    BY <2>1, <2>2
<1>10. PtrInv'
  <2> SUFFICES ASSUME NEW p \in ptr, NEW b \in Asbr, p.peer \in PeersOf[b]
               PROVE  p.perf <= perf'[b] /\ (p.perf = perf'[b] => p.perf \in ppm[p.peer])
    BY <1>4 DEF PtrInv
  <2>1. p.perf \in Nat /\ perf[b] \in Nat
    BY DEF TypeOK
  <2> QED
    BY <2>1, <1>3 DEF PtrInv
<1> QED
  BY <1>1, <1>7, <1>8, <1>9, <1>10

\* The main thread changes only its own pointer.
LEMMA MainInv == IndInv /\ Main => IndInv'
<1> SUFFICES ASSUME IndInv, Main PROVE IndInv'
  OBVIOUS
<1> USE TelemetryAssumption, PeerFacts DEF IndInv
<1>1. at' = at /\ todo' = todo /\ perf' = perf /\ gone' = gone /\ ppm' = ppm /\ heap' = heap
  BY DEF Main, Get, Used
<1>2. PpmInv' /\ GoneInv' /\ HeapInv'
  BY <1>1 DEF PpmInv, GoneInv, HeapInv, Front, Before, Between, After, Two
<1>3. CASE Used
  BY <1>3, <1>1, <1>2 DEF Used, TypeOK, PtrInv
<1>4. ASSUME NEW n \in Peer, NEW q \in ppm[n], Get(n, q)
      PROVE  TypeOK' /\ PtrInv'
  <2>1. ptr' = {[peer |-> n, perf |-> q]} /\ q \in 0 .. MaxPerf
    BY <1>4 DEF Get, TypeOK
  <2>2. TypeOK'
    BY <2>1, <1>1, <1>4 DEF TypeOK, Get
  <2>3. \A a \in Asbr : n \in PeersOf[a] => q <= perf[a]
    <3> SUFFICES ASSUME NEW a \in Asbr, n \in PeersOf[a] PROVE q <= perf[a]
      OBVIOUS
    <3>1. ppm[n] \in {Before(perf[a]), Between(perf[a]), After(perf[a])} /\ perf[a] \in Nat
      BY DEF PpmInv, TypeOK
    <3> QED
      BY <3>1, <2>1 DEF Before, Between, After
  <2>4. PtrInv'
    BY <2>1, <2>3, <1>1 DEF PtrInv
  <2> QED
    BY <2>2, <2>4
<1> QED
  BY <1>2, <1>3, <1>4 DEF Main

\* Every step keeps the invariant.
LEMMA NextIndInv == IndInv /\ [Next]_vars => IndInv'
<1> SUFFICES ASSUME IndInv, [Next]_vars PROVE IndInv'
  OBVIOUS
<1>1. CASE \E a \in Asbr : Performance(a)
  BY <1>1, AddInv, CleanupInv, DeleteInv, PeriodInv DEF Performance
<1>2. CASE Main
  BY <1>2, MainInv
<1>3. CASE Stopped \/ UNCHANGED vars
  BY <1>3 DEF Stopped, vars, IndInv, TypeOK, PpmInv, GoneInv, HeapInv, PtrInv, Front,
               Before, Between, After, Two
<1> QED
  BY <1>1, <1>2, <1>3 DEF Next

\* The invariant holds in every reachable state.
LEMMA TelemetryInv == Spec => []IndInv
  BY InitIndInv, NextIndInv, PTL DEF Spec

\* The tperf_peer that pfr_calc_avg_rtt reads after get has released mtx_perf is
\* deleted only from the second later period on.
THEOREM StalePointerCorrect == Spec => []StalePointerNeedsTwoPeriods
<1>1. IndInv => StalePointerNeedsTwoPeriods
  <2> SUFFICES ASSUME IndInv, NEW p \in ptr, NEW a \in Asbr, p.peer \in PeersOf[a],
                      p.perf \notin heap[p.peer]
               PROVE  perf[a] >= p.perf + 2
    BY DEF StalePointerNeedsTwoPeriods
  <2>1. p.perf \in Nat /\ perf[a] \in Nat /\ p.perf <= perf[a]
    BY PeerFacts, TelemetryAssumption DEF IndInv, TypeOK, PtrInv
  <2>2. p.perf \notin ppm[p.peer]
    BY DEF IndInv, HeapInv
  <2>3. p.perf # perf[a]
    BY <2>2 DEF IndInv, PtrInv
  <2>4. ppm[p.peer] \in {Before(perf[a]), Between(perf[a]), After(perf[a])}
    BY DEF IndInv, PpmInv, TypeOK
  <2> QED
    BY <2>1, <2>2, <2>3, <2>4 DEF Before, Between, After
<1> QED
  BY <1>1, TelemetryInv, PTL

\* get(peer_id) never takes std::prev(end()) of the empty map of a peer that has been
\* added, and what it returns is at most one period old.
THEOREM KnownPeerCorrect == Spec => []KnownPeerHasRecentEntry
<1>1. IndInv => KnownPeerHasRecentEntry
  <2> SUFFICES ASSUME IndInv, NEW a \in Asbr, NEW n \in PeersOf[a],
                      perf[a] > 0 \/ n \notin todo[a]
               PROVE  \E q \in ppm[n] : q + 1 >= perf[a]
    BY DEF KnownPeerHasRecentEntry
  <2>1. perf[a] \in Nat
    BY TelemetryAssumption DEF IndInv, TypeOK
  <2>2. CASE ppm[n] \in {After(perf[a]), Between(perf[a])}
    <3>1. perf[a] \in ppm[n]
      BY <2>1, <2>2, PeriodFacts
    <3> QED
      BY <2>1, <3>1
  <2>3. CASE ppm[n] = Before(perf[a]) /\ perf[a] > 0
    <3>1. perf[a] - 1 \in ppm[n]
      BY <2>1, <2>3 DEF Before
    <3> QED
      BY <2>1, <3>1
  <2> QED
    BY <2>2, <2>3 DEF IndInv, PpmInv, TypeOK
<1> QED
  BY <1>1, TelemetryInv, PTL

\* No tperf_peer is lost: what performance_peers has allocated and not deleted is in
\* the container, or is what its last cleanup returned.
THEOREM LeakCorrect == Spec => []NothingLeaked
<1>1. IndInv => NothingLeaked
  <2> SUFFICES ASSUME IndInv, NEW a \in Asbr, NEW n \in PeersOf[a]
               PROVE  heap[n] \ ppm[n] \subseteq gone[a]
    BY DEF NothingLeaked
  <2> QED
    BY DEF IndInv, HeapInv
<1> QED
  BY <1>1, TelemetryInv, PTL
=============================================================================
