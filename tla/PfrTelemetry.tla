--------------------------- MODULE PfrTelemetry ----------------------------
(***************************************************************************)
(* The performance data of the peers (pfr_telemetry.cpp): one              *)
(* performance_peers thread per border router adds a new tperf_peer for    *)
(* each of its peers every period and deletes the one of two periods ago;  *)
(* the main thread takes the newest of a peer in pfr_calc_avg_rtt and      *)
(* reads it after pfr_perf_peers_cont::get has released mtx_perf.          *)
(*                                                                         *)
(* Every access to the container is inside mtx_perf, so a member function  *)
(* is one step.  The mutex is a member that no constructor initialises:    *)
(* its first content is whatever the allocation held, with which it works  *)
(* like a free mutex or like one that is held and never released.          *)
(***************************************************************************)
EXTENDS Naturals

CONSTANTS
    Asbr,      \* the border routers, one thread each
    PeersOf,   \* PeersOf[a]: the peers of router a
    MaxPerf    \* bound: the last period that is modelled

ASSUME TelemetryAssumption ==
    /\ PeersOf \in [Asbr -> SUBSET Nat]
    /\ \A a, b \in Asbr : a # b => PeersOf[a] \cap PeersOf[b] = {}
    /\ MaxPerf \in Nat

VARIABLES
    at,     \* at[a]: where the thread of router a is
    todo,   \* todo[a]: the peers that are left in this period
    perf,   \* perf[a]: perf_id of the thread
    gone,   \* gone[a]: what cleanup returned, to be deleted
    ppm,    \* ppm[n]: the periods stored for peer n
    heap,   \* heap[n]: the periods whose tperf_peer of n is allocated
    ptr,    \* the pointer the main thread holds: a set with at most one [peer, perf]
    mutex   \* mtx_perf: "works" or "held", the content it was allocated with

vars == <<at, todo, perf, gone, ppm, heap, ptr, mutex>>

Peer == UNION {PeersOf[a] : a \in Asbr}
Router(n) == CHOOSE a \in Asbr : n \in PeersOf[a]

Init ==
    /\ at = [a \in Asbr |-> "add"]
    /\ todo = PeersOf
    /\ perf = [a \in Asbr |-> 0]
    /\ gone = [a \in Asbr |-> {}]
    /\ ppm = [n \in Peer |-> {}]
    /\ heap = [n \in Peer |-> {}]
    /\ ptr = {}
    /\ mutex \in {"works", "held"}

----------------------------------------------------------------------------
\* performance_peers

\* new tperf_peer and pfr_perf_peers_cont::add for the next peer n.
Add(a, n) ==
    /\ at[a] = "add" /\ n \in todo[a] /\ \A k \in todo[a] : n <= k
    /\ mutex = "works"
    /\ ppm' = [ppm EXCEPT ![n] = @ \cup {perf[a]}]
    /\ heap' = [heap EXCEPT ![n] = @ \cup {perf[a]}]
    /\ at' = [at EXCEPT ![a] = "cleanup"]
    /\ UNCHANGED <<todo, perf, gone, ptr, mutex>>

\* Mutant: the newest entry goes with the old one.
CleanupNewest(a, n) ==
    /\ at[a] = "cleanup" /\ n \in todo[a] /\ \A k \in todo[a] : n <= k
    /\ gone' = [gone EXCEPT ![a] = {q \in ppm[n] : q + 2 = perf[a] \/ q = perf[a]}]
    /\ ppm' = [ppm EXCEPT ![n] = {q \in @ : q + 2 # perf[a] /\ q # perf[a]}]
    /\ at' = [at EXCEPT ![a] = "delete"]
    /\ UNCHANGED <<todo, perf, heap, ptr, mutex>>

\* Mutant: perf_deep 1 instead of 2.
CleanupDeepOne(a, n) ==
    /\ at[a] = "cleanup" /\ n \in todo[a] /\ \A k \in todo[a] : n <= k
    /\ gone' = [gone EXCEPT ![a] = {q \in ppm[n] : q + 1 = perf[a]}]
    /\ ppm' = [ppm EXCEPT ![n] = {q \in @ : q + 1 # perf[a]}]
    /\ at' = [at EXCEPT ![a] = "delete"]
    /\ UNCHANGED <<todo, perf, heap, ptr, mutex>>

\* pfr_perf_peers_cont::cleanup with perf_deep 2 takes the entry of period
\* perf_id - 2 out of the container; in the first two periods it returns NULL.
Cleanup(a, n) ==
    /\ at[a] = "cleanup" /\ n \in todo[a] /\ \A k \in todo[a] : n <= k
    /\ gone' = [gone EXCEPT ![a] = {q \in ppm[n] : q + 2 = perf[a]}]
    /\ ppm' = [ppm EXCEPT ![n] = {q \in @ : q + 2 # perf[a]}]
    /\ at' = [at EXCEPT ![a] = "delete"]
    /\ UNCHANGED <<todo, perf, heap, ptr, mutex>>

\* Mutant: what cleanup returned is not deleted.
DeleteForgotten(a, n) ==
    /\ at[a] = "delete" /\ n \in todo[a] /\ \A k \in todo[a] : n <= k
    /\ gone' = [gone EXCEPT ![a] = {}]
    /\ todo' = [todo EXCEPT ![a] = @ \ {n}]
    /\ at' = [at EXCEPT ![a] = "add"]
    /\ UNCHANGED <<perf, ppm, heap, ptr, mutex>>

\* delete of what cleanup returned (nothing for NULL), next peer.
Delete(a, n) ==
    /\ at[a] = "delete" /\ n \in todo[a] /\ \A k \in todo[a] : n <= k
    /\ heap' = [heap EXCEPT ![n] = @ \ gone[a]]
    /\ gone' = [gone EXCEPT ![a] = {}]
    /\ todo' = [todo EXCEPT ![a] = @ \ {n}]
    /\ at' = [at EXCEPT ![a] = "add"]
    /\ UNCHANGED <<perf, ppm, ptr, mutex>>

\* 64 seconds later the next period begins.
Period(a) ==
    /\ at[a] = "add" /\ todo[a] = {}
    /\ perf[a] < MaxPerf
    /\ perf' = [perf EXCEPT ![a] = @ + 1]
    /\ todo' = [todo EXCEPT ![a] = PeersOf[a]]
    /\ UNCHANGED <<at, gone, ppm, heap, ptr, mutex>>

----------------------------------------------------------------------------
\* The main thread

\* pfr_perf_peers_cont::get(peer_id): the last entry q of the peer n.  A peer
\* without a map gives NULL, which is not used; that the map of a known peer is
\* not empty is not tested.
Get(n, q) ==
    /\ ptr = {}
    /\ mutex = "works"
    /\ q \in ppm[n] /\ \A k \in ppm[n] : k <= q
    /\ ptr' = {[peer |-> n, perf |-> q]}
    /\ UNCHANGED <<at, todo, perf, gone, ppm, heap, mutex>>

\* pfr_calc_avg_rtt has read *tp, after the unlock.
Used ==
    /\ ptr # {}
    /\ ptr' = {}
    /\ UNCHANGED <<at, todo, perf, gone, ppm, heap, mutex>>

\* Everyone waits for mtx_perf, or the modelled periods are over.
Stopped ==
    /\ \/ mutex = "held"
       \/ \A a \in Asbr : perf[a] = MaxPerf
    /\ UNCHANGED vars

Performance(a) ==
    \/ \E n \in PeersOf[a] : Add(a, n) \/ Cleanup(a, n) \/ Delete(a, n)
    \/ Period(a)

Main == (\E n \in Peer : \E q \in ppm[n] : Get(n, q)) \/ Used

Next == (\E a \in Asbr : Performance(a)) \/ Main \/ Stopped

Spec == Init /\ [][Next]_vars

----------------------------------------------------------------------------
\* Properties

\* Every variable of the telemetry has a value of its type.
TypeOK ==
    /\ at \in [Asbr -> {"add", "cleanup", "delete"}]
    /\ todo \in [Asbr -> SUBSET Peer]
    /\ \A a \in Asbr : todo[a] \subseteq PeersOf[a]
    /\ perf \in [Asbr -> 0 .. MaxPerf]
    /\ gone \in [Asbr -> SUBSET (0 .. MaxPerf)]
    /\ ppm \in [Peer -> SUBSET (0 .. MaxPerf)]
    /\ heap \in [Peer -> SUBSET (0 .. MaxPerf)]
    /\ ptr \subseteq [peer : Peer, perf : 0 .. MaxPerf]
    /\ mutex \in {"works", "held"}

\* The tperf_peer that pfr_calc_avg_rtt reads after the unlock of get has been
\* deleted only if its performance_peers thread has come to the second period
\* after it: the main thread has two periods of 64 seconds for the read.
StalePointerNeedsTwoPeriods ==
    \A p \in ptr : \A a \in Asbr :
        p.peer \in PeersOf[a] /\ p.perf \notin heap[p.peer] => perf[a] >= p.perf + 2

\* A peer that has once been added keeps an entry, and one that is not older than
\* the previous period, whatever cleanup erases.  get relies on it: it takes
\* std::prev(end()) of the peer's map without a test.
KnownPeerHasRecentEntry ==
    \A a \in Asbr : \A n \in PeersOf[a] :
        perf[a] > 0 \/ n \notin todo[a] =>
            \E q \in ppm[n] : q + 1 >= perf[a]

\* What is allocated for a peer is in the container or about to be deleted by the
\* thread of its router: the daemon runs for months, a tperf_peer per period and
\* peer must not be lost.
NothingLeaked ==
    \A a \in Asbr : \A n \in PeersOf[a] :
        heap[n] \ ppm[n] \subseteq gone[a]
=============================================================================
