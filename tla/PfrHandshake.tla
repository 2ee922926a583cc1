---------------------------- MODULE PfrHandshake ----------------------------
(***************************************************************************)
(* The handshake between the main thread of pfrd (pfrd.cpp, the for(;;) of *)
(* main) and the receiver thread (ping_readloop.cpp, readloop).            *)
(*                                                                         *)
(* Each round the main thread lets the senders probe, asks the receiver to *)
(* acknowledge (req_stopped = 1), sleeps, takes mt_req_send and, if the    *)
(* receiver has acknowledged (send_stopped = 1), works on the maps r,      *)
(* route and route_log1 while it HOLDS mt_req_send.  Only pfr_route_free   *)
(* takes the mutex of r, mtr; everything else relies on the receiver being *)
(* unable to go round its loop without mt_req_send.                        *)
(*                                                                         *)
(* A mutex section without inner shared steps is one action guarded by the *)
(* mutex being free; the two long ones (the work of a round, and the       *)
(* storing of a reply) are several actions.  What the work does to the     *)
(* maps is the subject of PfrRounds.                                       *)
(***************************************************************************)
EXTENDS Naturals

VARIABLES
    main,          \* where the main thread is
    reader,        \* where the receiver thread is
    mt_req_send,   \* who holds mt_req_send
    mtr,           \* who holds mtr
    req_stopped,   \* flag: the senders of this round are done
    send_stopped,  \* flag: the receiver has seen req_stopped
    sig_int,       \* sig_usr1_flag / sig_int_flag: shut down
    sig_usr2,      \* sig_usr2_flag: reread the configuration
    late           \* history: replies stored since the main thread began its work

vars == <<main, reader, mt_req_send, mtr, req_stopped, send_stopped,
          sig_int, sig_usr2, late>>

flags == <<req_stopped, send_stopped>>
signals == <<sig_int, sig_usr2>>

\* The main thread works on the maps in these places, mt_req_send held.
Work == {"update", "calc", "scan", "spawn", "free", "freeing", "delete",
         "signals", "reread", "reset", "advertise", "unlock"}

MainPlaces == {"send", "request", "sleep", "next", "exit"} \cup Work

ReaderPlaces == {"select", "recv", "lock", "store", "ack"}

Init ==
    /\ main = "send"
    /\ reader = "select"
    /\ mt_req_send = "free"
    /\ mtr = "free"
    /\ req_stopped = 0
    /\ send_stopped = 0
    /\ sig_int = FALSE
    /\ sig_usr2 = FALSE
    /\ late = 0

Running == main # "exit"

\* The main thread goes from one place to another and touches nothing else
\* of the handshake.
Goto(from, to) ==
    /\ main = from
    /\ main' = to
    /\ UNCHANGED <<reader, mt_req_send, mtr, flags, signals, late>>

----------------------------------------------------------------------------
\* The main thread

\* Refresh the lists, start and join the sender threads, log the telemetry.
SendProbes == Goto("send", "request")

RequestStop ==
    /\ main = "request"
    /\ mt_req_send = "free"
    /\ req_stopped' = 1
    /\ main' = "sleep"
    /\ UNCHANGED <<reader, mt_req_send, mtr, send_stopped, signals, late>>

\* Mutant: the mutex is given back before the work.
StartWorkUnlocked ==
    /\ main = "sleep"
    /\ mt_req_send = "free"
    /\ main' = IF send_stopped = 1 THEN "update" ELSE "next"
    /\ late' = IF send_stopped = 1 THEN 0 ELSE late
    /\ UNCHANGED <<reader, mt_req_send, mtr, flags, signals>>

\* After sleep(sleep_after_join): take the mutex; without the receiver's
\* acknowledgement the round's work is skipped and both flags stay as they are.
StartWork ==
    /\ main = "sleep"
    /\ mt_req_send = "free"
    /\ \/ /\ send_stopped = 1
          /\ main' = "update"
          /\ mt_req_send' = "main"
          /\ late' = 0
       \/ /\ send_stopped # 1
          /\ main' = "next"
          /\ UNCHANGED <<mt_req_send, late>>
    /\ UNCHANGED <<reader, mtr, flags, signals>>

RouteUpdate == Goto("update", "calc")
CalcRtt == Goto("calc", "scan")
RouteScan == Goto("scan", "spawn")

\* Start the SQL thread unless a shutdown is already asked for.
SpawnSqlLog == Goto("spawn", "free")

\* Mutant: the mutex is not taken.
LockRoutesForgotten == Goto("free", "freeing")

\* pfr_route_free is the one function that excludes the receiver by mtr.
LockRoutes ==
    /\ main = "free"
    /\ mtr = "free"
    /\ mtr' = "main"
    /\ main' = "freeing"
    /\ UNCHANGED <<reader, mt_req_send, flags, signals, late>>

RouteFree ==
    /\ main = "freeing"
    /\ mtr' = "free"
    /\ main' = "delete"
    /\ UNCHANGED <<reader, mt_req_send, flags, signals, late>>

RouteDelete == Goto("delete", "signals")

\* Graceful shutdown: withdraw everything, exit(1).
Shutdown == sig_int /\ Goto("signals", "exit")

CheckSignals ==
    /\ ~sig_int
    /\ Goto("signals", IF sig_usr2 THEN "reread" ELSE "reset")

\* The configuration file is read again; exit(1) when it cannot be opened.
\* sig_usr2_flag is not reset.
Reread == Goto("reread", "reset") \/ Goto("reread", "exit")

\* Mutants: send_stopped is forgotten; the flags of the signals are reset too.
ResetRequestOnly ==
    /\ main = "reset"
    /\ req_stopped' = 0
    /\ main' = "advertise"
    /\ UNCHANGED <<reader, mt_req_send, mtr, send_stopped, signals, late>>

ResetSignalsToo ==
    /\ main = "reset"
    /\ send_stopped' = 0 /\ req_stopped' = 0
    /\ sig_int' = FALSE /\ sig_usr2' = FALSE
    /\ main' = "advertise"
    /\ UNCHANGED <<reader, mt_req_send, mtr, late>>

ResetFlags ==
    /\ main = "reset"
    /\ send_stopped' = 0
    /\ req_stopped' = 0
    /\ main' = "advertise"
    /\ UNCHANGED <<reader, mt_req_send, mtr, signals, late>>

Advertise == Goto("advertise", "unlock")

\* Mutant: the mutex is not given back.
EndWorkLocked == Goto("unlock", "next")

EndWork ==
    /\ main = "unlock"
    /\ mt_req_send' = "free"
    /\ main' = "next"
    /\ UNCHANGED <<reader, mtr, flags, signals, late>>

\* Sleep until the next round is due; probe_id++.
NextRound == Goto("next", "send")

Main ==
    \/ SendProbes \/ RequestStop \/ StartWork
    \/ RouteUpdate \/ CalcRtt \/ RouteScan \/ SpawnSqlLog
    \/ LockRoutes \/ RouteFree \/ RouteDelete
    \/ Shutdown \/ CheckSignals \/ Reread
    \/ ResetFlags \/ Advertise \/ EndWork \/ NextRound

----------------------------------------------------------------------------
\* The receiver thread

\* select() returns: a packet is ready, or the second is over (or a signal
\* interrupted it) and the receiver goes straight to the acknowledgement.
Select ==
    /\ Running
    /\ reader = "select"
    /\ reader' \in {"recv", "ack"}
    /\ UNCHANGED <<main, mt_req_send, mtr, flags, signals, late>>

Recv ==
    /\ Running
    /\ reader = "recv"
    /\ reader' = "lock"
    /\ UNCHANGED <<main, mt_req_send, mtr, flags, signals, late>>

\* recvmsg() is interrupted: continue, without the acknowledgement.
RecvInterrupted ==
    /\ Running
    /\ reader = "recv"
    /\ reader' = "select"
    /\ UNCHANGED <<main, mt_req_send, mtr, flags, signals, late>>

\* Any other error of recvmsg() ends the whole process (err_sys).
RecvError ==
    /\ Running
    /\ reader = "recv"
    /\ main' = "exit"
    /\ UNCHANGED <<reader, mt_req_send, mtr, flags, signals, late>>

LockReplies ==
    /\ Running
    /\ reader = "lock"
    /\ mtr = "free"
    /\ mtr' = "reader"
    /\ reader' = "store"
    /\ UNCHANGED <<main, mt_req_send, flags, signals, late>>

\* proc_v4 stores the reply in r (or drops the packet), then mtr is released.
StoreReply ==
    /\ Running
    /\ reader = "store"
    /\ mtr' = "free"
    /\ reader' = "ack"
    /\ \/ late' = IF main \in Work THEN late + 1 ELSE late
       \/ UNCHANGED late
    /\ UNCHANGED <<main, mt_req_send, flags, signals>>

\* Mutants: the mutex is not taken; the acknowledgements are counted.
AckUnlocked ==
    /\ Running
    /\ reader = "ack"
    /\ send_stopped' = IF req_stopped = 1 THEN 1 ELSE send_stopped
    /\ reader' = "select"
    /\ UNCHANGED <<main, mt_req_send, mtr, req_stopped, signals, late>>

AckCounting ==
    /\ Running
    /\ reader = "ack"
    /\ mt_req_send = "free"
    /\ send_stopped' = send_stopped + req_stopped
    /\ reader' = "select"
    /\ UNCHANGED <<main, mt_req_send, mtr, req_stopped, signals, late>>

\* Lock mt_req_send, answer a pending request, unlock.
Ack ==
    /\ Running
    /\ reader = "ack"
    /\ mt_req_send = "free"
    /\ send_stopped' = IF req_stopped = 1 THEN 1 ELSE send_stopped
    /\ reader' = "select"
    /\ UNCHANGED <<main, mt_req_send, mtr, req_stopped, signals, late>>

Reader ==
    \/ Select \/ Recv \/ RecvInterrupted \/ RecvError
    \/ LockReplies \/ StoreReply \/ Ack

----------------------------------------------------------------------------
\* The process ends outside the handshake: a function of the work dies of what
\* PfrRounds describes, or a log thread has no connection to the database.
Crash ==
    /\ Running
    /\ main' = "exit"
    /\ UNCHANGED <<reader, mt_req_send, mtr, flags, signals, late>>

\* The environment: SIGUSR1 or SIGINT, and SIGUSR2.
Signal ==
    /\ Running
    /\ \/ sig_int' = TRUE /\ UNCHANGED sig_usr2
       \/ sig_usr2' = TRUE /\ UNCHANGED sig_int
    /\ UNCHANGED <<main, reader, mt_req_send, mtr, flags, late>>

\* The process is gone.
Stopped == ~Running /\ UNCHANGED vars

Next == Main \/ Reader \/ Crash \/ Signal \/ Stopped

Spec == Init /\ [][Next]_vars

(***************************************************************************)
(* Fairness.  Both threads run: a step that stays possible is taken (weak  *)
(* fairness).  Two steps need more.  Ack waits for mt_req_send, which the  *)
(* main thread takes and gives back every round and leaves free during its *)
(* sleeps of many seconds, so the attempt succeeds in some round; and not  *)
(* every recvmsg is interrupted by a signal.                               *)
(***************************************************************************)
Fairness ==
    /\ WF_vars(Main)
    /\ WF_vars(Select) /\ WF_vars(LockReplies) /\ WF_vars(StoreReply)
    /\ SF_vars(Recv) /\ SF_vars(Ack)

FairSpec == Spec /\ Fairness
----------------------------------------------------------------------------
\* Properties

\* Every variable of the handshake (pfrd.cpp, ping_readloop.cpp) has a value of
\* its type.
TypeOK ==
    /\ main \in MainPlaces
    /\ reader \in ReaderPlaces
    /\ mt_req_send \in {"free", "main"}
    /\ mtr \in {"free", "main", "reader"}
    /\ req_stopped \in {0, 1}
    /\ send_stopped \in {0, 1}
    /\ sig_int \in BOOLEAN
    /\ sig_usr2 \in BOOLEAN
    /\ late \in Nat

\* The functions that walk r without mtr (pfr_calc_avg_rtt, pfr_route_scan, ...)
\* meet at most one reply stored behind their back: after it, readloop waits
\* for mt_req_send until the round's work is over.
OneLatePacket == late <= 1

\* An acknowledgement always answers a request that is still standing: no
\* interleaving of readloop with the reset of the two flags leaves
\* send_stopped = 1 behind for a round that has not asked.
AckAnswersRequest == send_stopped = 1 => req_stopped = 1

\* While pfr_route_free deletes the old measurements, proc_v4 is not inside r.
FreeExcludesStore == ~(main = "freeing" /\ reader = "store")

\* The handshake implements the gate.
Gate == INSTANCE PfrGate WITH
    gate <- IF main = "exit" THEN "stopped"
            ELSE IF main \in Work THEN "shut" ELSE "open"

\* Every step of the threads is a step of the gate or leaves it alone: replies
\* enter freely between rounds, at most once during the work of a round, and
\* never after the exit.
ImplementsGate == Gate!Spec

\* Rounds are not skipped for ever: however the acknowledgement races with
\* sleep(sleep_after_join), some later round does its work, or the daemon ends.
RoundsContinue == []<>(main \in Work \cup {"exit"})

\* A shutdown signal is acted upon although the flags set by sig_usr are only
\* looked at inside the work of a round that was not skipped.
ShutdownHappens == sig_int ~> (main = "exit")
=============================================================================
