----------------------------- MODULE PfrDaemon -----------------------------
(***************************************************************************)
(* One process of pfrd: the rounds of PfrRounds driven by the two threads  *)
(* of PfrHandshake.  A step of the main thread that works on the maps is a *)
(* step of both; a reply is stored when, and only when, the receiver is    *)
(* inside proc_v4, with none of the restraint that PfrRounds puts on       *)
(* Reply.  That the composition is an implementation of PfrRounds is what  *)
(* justifies checking the rounds alone.                                    *)
(***************************************************************************)
EXTENDS PfrRounds

VARIABLES
    main, reader, mt_req_send, mtr, req_stopped, send_stopped, sig_int, sig_usr2,
    count      \* late of PfrHandshake: replies stored since the work began

H == INSTANCE PfrHandshake WITH late <- count

threads == <<main, reader, mt_req_send, mtr, req_stopped, send_stopped, sig_int, sig_usr2,
             count>>
daemonVars == <<vars, threads>>

DaemonInit == Init /\ H!Init

\* Steps of the two threads and of the environment that leave the maps alone.
ThreadStep ==
    /\ \/ H!RequestStop \/ H!SpawnSqlLog \/ H!LockRoutes
       \/ sig_usr2 /\ H!CheckSignals
       \/ H!ResetFlags \/ H!EndWork \/ H!NextRound
       \/ H!Select \/ H!Recv \/ H!RecvInterrupted \/ H!LockReplies \/ H!Ack
       \/ H!Signal
    /\ UNCHANGED vars

\* The functions that main calls, each at its place.
Call ==
    \/ H!SendProbes /\ Begin
    \/ H!StartWork /\ main' = "update" /\ StartWork
    \/ H!StartWork /\ main' = "next" /\ SkipRound
    \/ H!RouteUpdate /\ RouteUpdate
    \/ main = "calc" /\ CalcAvgRtt /\ UNCHANGED threads
    \/ H!CalcRtt /\ CalcStddevRtt
    \/ H!RouteScan /\ RouteScan
    \/ H!RouteFree /\ RouteFree
    \/ H!RouteDelete /\ RouteDelete
    \/ H!Shutdown /\ Shutdown
    \/ ~sig_usr2 /\ H!CheckSignals /\ NoShutdown /\ UNCHANGED settings
    \/ H!Reread /\ NoShutdown
    \/ H!Advertise /\ (RoutesMan \/ NoAdvertise)

\* A function that main calls returns, or exits as it should.
MainStep == Call /\ (pc' \in {"exit", "dead"} <=> main' = "exit")

\* A function that main calls dies inside.
MainDies ==
    /\ \/ RouteUpdate \/ CalcStddevRtt \/ RouteScan \/ RouteDelete
       \/ main = "advertise" /\ RoutesMan
    /\ pc' = "dead"
    /\ H!Crash

\* proc_v4 stores a reply.
StoreReply ==
    \E d \in Dst, q \in 0..probe_id, n \in Peer :
       /\ Store(d, q, n)
       /\ \/ /\ pc' # "dead"
             /\ H!StoreReply
             /\ main \in H!Work => count' # count
          \/ /\ pc' = "dead"
             /\ reader = "store"
             /\ H!Crash

\* A log thread creates an erased destination again.
LogStep == LogWalks /\ UNCHANGED threads

\* proc_v4 drops the packet.
DropPacket == count' = count /\ H!StoreReply /\ UNCHANGED vars

\* The process ends in the receiver or in a log thread.
OtherDies == ThreadExits /\ (H!RecvError \/ H!Crash)

DaemonFinished == Finished /\ UNCHANGED threads

DaemonNext ==
    \/ ThreadStep \/ MainStep \/ MainDies
    \/ StoreReply \/ LogStep \/ DropPacket \/ OtherDies \/ DaemonFinished

DaemonSpec == DaemonInit /\ [][DaemonNext]_daemonVars
----------------------------------------------------------------------------
\* Properties

\* The threads give the rounds what PfrRounds assumes of them: every step of the
\* process is a step of the rounds or leaves the maps alone.  In particular no
\* second reply is stored during the work of a round, although readloop takes
\* mtr and not mt_req_send around proc_v4.
ImplementsRounds == Spec

\* When main dereferences a NULL pointer, the reply that caused it was the last
\* one: the receiver stands before mt_req_send and waits for main.  Only a destination
\* that a log thread has created again can be the cause instead.
NullWhileReceiverWaits == crash = "null" => reader = "ack" \/ revived
=============================================================================
