------------------------- MODULE PfrHandshakeProofs -------------------------
(***************************************************************************)
(* Proofs about PfrHandshake: its type invariant, the bound on replies     *)
(* stored during the work of a round, mutual exclusion on mtr, and that    *)
(* the handshake implements PfrGate.                                       *)
(***************************************************************************)
EXTENDS PfrHandshake, TLAPS

(***************************************************************************)
(* The inductive invariant.  The mutexes are held exactly where the code   *)
(* holds them, and a reply stored during the work leaves the receiver      *)
(* waiting for mt_req_send.                                                *)
(***************************************************************************)
MutexInv ==
    /\ main \in Work => mt_req_send = "main"
    /\ main \in MainPlaces \ (Work \cup {"exit"}) => mt_req_send = "free"
    /\ main = "freeing" => mtr = "main"
    /\ reader = "store" => mtr = "reader"

LateInv ==
    /\ late <= 1
    /\ main \in Work /\ late = 1 => reader = "ack"

FlagInv == send_stopped = 1 => req_stopped = 1

IndInv == TypeOK /\ MutexInv /\ LateInv /\ FlagInv

\* The initial state of the daemon satisfies the inductive invariant.
LEMMA InitInv == Init => IndInv
<1> SUFFICES ASSUME Init PROVE IndInv
  OBVIOUS
<1>1. sig_int \in BOOLEAN /\ sig_usr2 \in BOOLEAN
  BY Zenon DEF Init
<1>2. MutexInv
  BY DEF Init, MutexInv, Work
<1>3. LateInv /\ FlagInv
  BY DEF Init, LateInv, FlagInv
<1> QED
  BY <1>1, <1>2, <1>3 DEF Init, IndInv, TypeOK, MainPlaces, ReaderPlaces

\* Moving the main thread between two places that agree on holding mt_req_send,
\* and are not inside pfr_route_free, keeps the inductive invariant.
LEMMA GotoInv ==
  ASSUME NEW from, NEW to, IndInv, Goto(from, to),
         to \in MainPlaces,
         to # "exit" => (from \in Work <=> to \in Work),
         to # "freeing", from # "exit"
  PROVE  IndInv'
  BY DEF Goto, IndInv, TypeOK, MutexInv, LateInv, FlagInv, MainPlaces, Work, flags, signals

\* Every step of the main thread keeps the inductive invariant.
LEMMA MainInv == IndInv /\ Main => IndInv'
<1> SUFFICES ASSUME IndInv, Main PROVE IndInv'
  OBVIOUS
<1> USE DEF IndInv, TypeOK, MutexInv, LateInv, FlagInv, MainPlaces, ReaderPlaces, Work, flags, signals
<1>1. CASE SendProbes
  BY <1>1, GotoInv DEF SendProbes
<1>2. CASE RequestStop
  BY <1>2 DEF RequestStop
<1>3. CASE StartWork
  BY <1>3 DEF StartWork
<1>4. CASE RouteUpdate
  BY <1>4, GotoInv DEF RouteUpdate
<1>5. CASE CalcRtt
  BY <1>5, GotoInv DEF CalcRtt
<1>6. CASE RouteScan
  BY <1>6, GotoInv DEF RouteScan
<1>7. CASE SpawnSqlLog
  BY <1>7, GotoInv DEF SpawnSqlLog
<1>8. CASE LockRoutes
  BY <1>8 DEF LockRoutes
<1>9. CASE RouteFree
  BY <1>9 DEF RouteFree
<1>10. CASE RouteDelete
  BY <1>10, GotoInv DEF RouteDelete
<1>11. CASE Shutdown
  BY <1>11, GotoInv DEF Shutdown
<1>12. CASE CheckSignals
  BY <1>12, GotoInv DEF CheckSignals
<1>13. CASE Reread
  BY <1>13, GotoInv DEF Reread
<1>14. CASE ResetFlags
  BY <1>14 DEF ResetFlags
<1>15. CASE Advertise
  BY <1>15, GotoInv DEF Advertise
<1>16. CASE EndWork
  BY <1>16 DEF EndWork
<1>17. CASE NextRound
  BY <1>17, GotoInv DEF NextRound
<1> QED
  BY <1>1, <1>2, <1>3, <1>4, <1>5, <1>6, <1>7, <1>8, <1>9, <1>10, <1>11, <1>12,
     <1>13, <1>14, <1>15, <1>16, <1>17 DEF Main

\* Every step of the receiver thread keeps the inductive invariant.
LEMMA ReaderInv == IndInv /\ Reader => IndInv'
<1> SUFFICES ASSUME IndInv, Reader PROVE IndInv'
  OBVIOUS
<1> USE DEF IndInv, TypeOK, MutexInv, LateInv, FlagInv, MainPlaces, ReaderPlaces, Work, flags, signals, Running
<1>1. CASE Select
  BY <1>1 DEF Select
<1>2. CASE Recv
  BY <1>2 DEF Recv
<1>3. CASE RecvInterrupted
  BY <1>3 DEF RecvInterrupted
<1>4. CASE RecvError
  BY <1>4 DEF RecvError
<1>5. CASE LockReplies
  BY <1>5 DEF LockReplies
<1>6. CASE StoreReply
  BY <1>6 DEF StoreReply
<1>7. CASE Ack
  BY <1>7 DEF Ack
<1> QED
  BY <1>1, <1>2, <1>3, <1>4, <1>5, <1>6, <1>7 DEF Reader

\* The invariant is inductive for every step of the handshake.
LEMMA NextInv == IndInv /\ [Next]_vars => IndInv'
<1> SUFFICES ASSUME IndInv, [Next]_vars PROVE IndInv'
  OBVIOUS
<1>1. CASE Main
  BY <1>1, MainInv
<1>2. CASE Reader
  BY <1>2, ReaderInv
<1>3. CASE Signal
  BY <1>3 DEF Signal, IndInv, TypeOK, MutexInv, LateInv, FlagInv, flags
<1>4. CASE Crash
  BY <1>4 DEF Crash, Running, IndInv, TypeOK, MutexInv, LateInv, FlagInv, MainPlaces, Work,
     flags, signals
<1>5. CASE UNCHANGED vars
  BY <1>5 DEF vars, IndInv, TypeOK, MutexInv, LateInv, FlagInv
<1> QED
  BY <1>1, <1>2, <1>3, <1>4, <1>5 DEF Next, Stopped

\* The inductive invariant holds in every reachable state.
LEMMA HandshakeInv == Spec => []IndInv
  BY InitInv, NextInv, PTL DEF Spec

\* The variables of main() and readloop() keep their types.
THEOREM TypeCorrect == Spec => []TypeOK
<1>1. IndInv => TypeOK
  BY DEF IndInv
<1> QED
  BY <1>1, HandshakeInv, PTL

\* At most one reply is stored in r between lock and unlock of mt_req_send by
\* the main thread.
THEOREM LatePacketBound == Spec => []OneLatePacket
<1>1. IndInv => OneLatePacket
  BY DEF IndInv, LateInv, OneLatePacket
<1> QED
  BY <1>1, HandshakeInv, PTL

\* send_stopped is never left behind without its request.
THEOREM AckCorrect == Spec => []AckAnswersRequest
<1>1. IndInv => AckAnswersRequest
  BY DEF IndInv, FlagInv, AckAnswersRequest
<1> QED
  BY <1>1, HandshakeInv, PTL

\* pfr_route_free and proc_v4 exclude each other.
THEOREM FreeCorrect == Spec => []FreeExcludesStore
<1>1. IndInv => FreeExcludesStore
  BY DEF IndInv, MutexInv, FreeExcludesStore
<1> QED
  BY <1>1, HandshakeInv, PTL

----------------------------------------------------------------------------
\* A step of the main thread is a step of the gate.
LEMMA MainGate == IndInv /\ Main => [Gate!Next]_Gate!vars
<1> SUFFICES ASSUME IndInv, Main PROVE [Gate!Next]_Gate!vars
  OBVIOUS
<1> USE DEF Gate!Next, Gate!vars, Gate!Shut, Gate!LateReply, Gate!Open, Gate!Stop, Work
<1>1. CASE SendProbes \/ RouteUpdate \/ CalcRtt \/ RouteScan \/ SpawnSqlLog
  BY <1>1 DEF SendProbes, RouteUpdate, CalcRtt, RouteScan, SpawnSqlLog, Goto
<1>2. CASE RouteDelete \/ Shutdown \/ CheckSignals \/ Reread
  BY <1>2 DEF RouteDelete, Shutdown, CheckSignals, Reread, Goto
<1>3. CASE Advertise \/ NextRound
  BY <1>3 DEF Advertise, NextRound, Goto
<1>4. CASE RequestStop
  BY <1>4 DEF RequestStop
<1>5. CASE StartWork
  BY <1>5 DEF StartWork
<1>6. CASE LockRoutes \/ RouteFree \/ ResetFlags
  BY <1>6 DEF LockRoutes, RouteFree, ResetFlags
<1>7. CASE EndWork
  BY <1>7 DEF EndWork
<1> QED
  BY <1>1, <1>2, <1>3, <1>4, <1>5, <1>6, <1>7 DEF Main

\* A step of the receiver is a step of the gate: a reply stored during the work
\* is the first one, because the receiver is not yet waiting in Ack.
LEMMA ReaderGate == IndInv /\ Reader => [Gate!Next]_Gate!vars
<1> SUFFICES ASSUME IndInv, Reader PROVE [Gate!Next]_Gate!vars
  OBVIOUS
<1> USE DEF Gate!Next, Gate!vars, Gate!Shut, Gate!LateReply, Gate!Open, Gate!Stop, Work, Running
<1>1. CASE Select \/ Recv \/ RecvInterrupted \/ LockReplies \/ Ack
  BY <1>1 DEF Select, Recv, RecvInterrupted, LockReplies, Ack
<1>2. CASE RecvError
  BY <1>2 DEF RecvError
<1>3. CASE StoreReply
  <2>1. main \in Work => late = 0
    BY <1>3 DEF StoreReply, IndInv, LateInv, TypeOK
  <2> QED
    BY <1>3, <2>1 DEF StoreReply
<1> QED
  BY <1>1, <1>2, <1>3 DEF Reader

\* Every step of the handshake maps to a step of the gate or a stutter.
LEMMA StepGate == IndInv /\ [Next]_vars => [Gate!Next]_Gate!vars
<1> SUFFICES ASSUME IndInv, [Next]_vars PROVE [Gate!Next]_Gate!vars
  OBVIOUS
<1>1. CASE Main
  BY <1>1, MainGate
<1>2. CASE Reader
  BY <1>2, ReaderGate
<1>3. CASE Signal
  BY <1>3 DEF Signal, Gate!vars
<1>4. CASE Crash
  BY <1>4 DEF Crash, Running, Gate!Next, Gate!Stop, Gate!vars
<1>5. CASE UNCHANGED vars
  BY <1>5 DEF vars, Gate!vars
<1> QED
  BY <1>1, <1>2, <1>3, <1>4, <1>5 DEF Next, Stopped

\* The two threads implement the gate: outside the work of a round replies enter
\* freely, during it at most one does, after the exit none.
THEOREM HandshakeImplementsGate == Spec => ImplementsGate
<1>1. Init => Gate!Init
  BY DEF Init, Gate!Init, Work
<1> QED
  BY <1>1, StepGate, HandshakeInv, PTL DEF Spec, ImplementsGate, Gate!Spec
=============================================================================
