--------------------------- MODULE PfrLifecycle ----------------------------
(***************************************************************************)
(* The life of pfrd processes: start with configuration and pid file, the  *)
(* list of destinations read from shared memory every round under the      *)
(* named semaphore /key_sem0, rereads after SIGUSR2, exits.  Beside them   *)
(* the ipfix collector (external), which writes the shared memory under    *)
(* the same semaphore, and the operator, who edits the file and starts     *)
(* and signals processes.                                                  *)
(*                                                                         *)
(* What a round does to the routes is the subject of PfrRounds.  Whatever  *)
(* ends the daemon there is an exit between two reads here.                *)
(***************************************************************************)
EXTENDS PfrConfig, PfrDstList

CONSTANTS
    Proc,     \* process ids
    Lines,    \* Lines[k]: what the operator may write for key k
    StartFile,\* the file at the start
    Flows,    \* what the collector may publish
    MaxEdit   \* bound: edits of the file

ASSUME LifecycleAssumption ==
    /\ Proc \subseteq Nat \ {0} /\ IsFiniteSet(Proc)
    /\ DOMAIN Lines = Key
    /\ DOMAIN StartFile = Key /\ \A k \in Key : StartFile[k] \in Lines[k]
    /\ Flows \subseteq Seq(Flow)
    /\ MaxEdit \in Nat

VARIABLES
    file,       \* the lines of pfrd.conf
    edits,      \* edits so far
    pidfile,    \* pidfile[path]: the pid in the file, 0 for no file
    at,         \* at[p]: where process p is
    conf,       \* conf[p]: its settings
    cmap,       \* cmap[p]: its configuration_map
    usr2,       \* usr2[p]: sig_usr2_flag
    list,       \* list[p]: pfrList
    sem,        \* /key_sem0
    shm,        \* the shared memory
    collector,  \* where the collector is
    fresh,      \* history: published since the last read
    leaked,     \* history: a process exited while it held the semaphore
    wrote,      \* wrote[p], history: the pid file p has written, "" before
    raced,      \* history: two processes were between check and write of one pid file
    forgot      \* forgot[p], history: since its load the file has lost a key or had
                \* an unknown metric

proc == <<at, conf, cmap, usr2, list>>
shared == <<sem, shm, collector, fresh, leaked>>
vars == <<file, edits, pidfile, proc, shared, wrote, raced, forgot>>

Paths == Lines["pid_path"] \ {Absent}

\* The process exists, as kill(pid, 0) finds out.
Exists(p) == at[p] \notin {"off", "dead"}

\* Daemons that have written their pid.
Daemons == {p \in Proc : at[p] \in {"first", "read0", "wait", "read", "run"}}
Holding == {p \in Proc : at[p] \in {"read0", "read"}}

Move(p, place) == at' = [at EXCEPT ![p] = place]

Init ==
    /\ file = StartFile
    /\ edits = 0
    /\ pidfile = [path \in Paths |-> 0]
    /\ at = [p \in Proc |-> "off"]
    /\ conf = [p \in Proc |-> Default]
    /\ cmap = [p \in Proc |-> NoKeys]
    /\ usr2 = [p \in Proc |-> FALSE]
    /\ list = [p \in Proc |-> <<>>]
    /\ sem = 1 /\ shm = <<>> /\ collector = "idle" /\ fresh = FALSE /\ leaked = FALSE
    /\ wrote = [p \in Proc |-> ""] /\ raced = FALSE
    /\ forgot = [p \in Proc |-> FALSE]

----------------------------------------------------------------------------
\* The start of a process

Start(p) ==
    /\ at[p] = "off"
    /\ Move(p, "load")
    /\ UNCHANGED <<file, edits, pidfile, conf, cmap, usr2, list, shared, wrote, raced, forgot>>

\* load_configuration_file.  A file that cannot be opened ends the process.
Load(p) ==
    /\ cmap' = [cmap EXCEPT ![p] = Parsed(cmap[p], file)]
    /\ conf' = [conf EXCEPT ![p] = Settings(conf[p], Parsed(cmap[p], file))]

LoadFirst(p) ==
    /\ at[p] = "load"
    /\ \/ Load(p) /\ Move(p, "check")
       \/ Move(p, "dead") /\ UNCHANGED <<conf, cmap>>
    /\ UNCHANGED <<file, edits, pidfile, usr2, list, shared, wrote, raced, forgot>>

\* The pid file names a process that exists.
Occupied(path) ==
    /\ path \in Paths
    /\ pidfile[path] # 0
    /\ Exists(pidfile[path])

\* Another process has checked the same file and not written it yet.
CheckedToo(p) ==
    \E q \in Proc \ {p} : at[q] = "write" /\ conf[q]["pid_path"] = conf[p]["pid_path"]

\* Mutant: the process in the pid file is taken for a stale one.
CheckPidUnchecked(p) ==
    /\ at[p] = "check"
    /\ Move(p, "write")
    /\ raced' = (raced \/ CheckedToo(p))
    /\ UNCHANGED <<file, edits, pidfile, conf, cmap, usr2, list, shared, wrote, forgot>>

\* file_exists, read_pid_from_file, kill(pid, 0): exit(1) when pfrd already runs.
CheckPid(p) ==
    /\ at[p] = "check"
    /\ Move(p, IF Occupied(conf[p]["pid_path"]) THEN "dead" ELSE "write")
    /\ raced' = (raced \/ CheckedToo(p))
    /\ UNCHANGED <<file, edits, pidfile, conf, cmap, usr2, list, shared, wrote, forgot>>

\* print_pid_to_file, which truncates; it fails without a path.
WritePid(p) ==
    /\ at[p] = "write"
    /\ IF conf[p]["pid_path"] \in Paths
       THEN /\ pidfile' = [pidfile EXCEPT ![conf[p]["pid_path"]] = p]
            /\ wrote' = [wrote EXCEPT ![p] = conf[p]["pid_path"]]
            /\ Move(p, "first")
       ELSE Move(p, "dead") /\ UNCHANGED <<pidfile, wrote>>
    /\ UNCHANGED <<file, edits, conf, cmap, usr2, list, shared, raced, forgot>>

----------------------------------------------------------------------------
\* The list of destinations

\* Mutant: the result of the wait does not matter.
SemWaitIgnored(p) ==
    /\ at[p] \in {"first", "wait"}
    /\ sem' = IF sem > 0 THEN sem - 1 ELSE 0
    /\ Move(p, IF at[p] = "first" THEN "read0" ELSE "read")
    /\ UNCHANGED <<file, edits, pidfile, conf, cmap, usr2, list, shm, collector, fresh,
                   leaked, wrote, raced, forgot>>

\* sem_wait.  The handlers restart it after a signal.
SemWait(p) ==
    /\ at[p] \in {"first", "wait"}
    /\ sem > 0
    /\ sem' = sem - 1
    /\ Move(p, IF at[p] = "first" THEN "read0" ELSE "read")
    /\ UNCHANGED <<file, edits, pidfile, conf, cmap, usr2, list, shm, collector, fresh,
                   leaked, wrote, raced, forgot>>

\* Mutant: no post.
ReadListNoPost(p) ==
    /\ at[p] \in {"read0", "read"}
    /\ list' = [list EXCEPT ![p] = IF at[p] = "read0" THEN FirstList(shm) ELSE NextList(@, shm)]
    /\ shm' = AfterStrtok(shm)
    /\ fresh' = FALSE
    /\ Move(p, "run")
    /\ UNCHANGED <<sem, file, edits, pidfile, conf, cmap, usr2, collector, leaked, wrote, raced, forgot>>

\* The constructor reads the memory, which strtok destroys, and posts.
ReadList(p) ==
    /\ at[p] \in {"read0", "read"}
    /\ list' = [list EXCEPT ![p] = IF at[p] = "read0" THEN FirstList(shm) ELSE NextList(@, shm)]
    /\ shm' = AfterStrtok(shm)
    /\ fresh' = FALSE
    /\ sem' = sem + 1
    /\ Move(p, "run")
    /\ UNCHANGED <<file, edits, pidfile, conf, cmap, usr2, collector, leaked, wrote, raced, forgot>>

\* No shared memory, or no connection to the database: exit(1), the semaphore held.
ReadFails(p) ==
    /\ at[p] \in {"read0", "read"}
    /\ Move(p, "dead")
    /\ leaked' = TRUE
    /\ shm' \in {shm, AfterStrtok(shm)}
    /\ UNCHANGED <<file, edits, pidfile, conf, cmap, usr2, list, sem, collector,
                   fresh, wrote, raced, forgot>>

----------------------------------------------------------------------------
\* The rest of a round

\* sig_usr2_flag is never reset: after the first SIGUSR2 every round rereads the
\* file, and exits when that fails.
FinishRound(p) ==
    /\ at[p] = "run"
    /\ \/ ~usr2[p] /\ Move(p, "wait") /\ UNCHANGED <<conf, cmap>>
       \/ usr2[p] /\ Load(p) /\ Move(p, "wait")
       \/ usr2[p] /\ Move(p, "dead") /\ UNCHANGED <<conf, cmap>>
    /\ UNCHANGED <<file, edits, pidfile, usr2, list, shared, wrote, raced, forgot>>

\* A graceful shutdown, an exit(1) outside the memory (ftok, a failed start of the
\* log) or a crash.  The pid file stays.
Exit(p) ==
    /\ at[p] \in {"first", "wait", "run"}
    /\ Move(p, "dead")
    /\ UNCHANGED <<file, edits, pidfile, conf, cmap, usr2, list, shared, wrote, raced, forgot>>

Sigusr2(p) ==
    /\ p \in Daemons
    /\ ~usr2[p]
    /\ usr2' = [usr2 EXCEPT ![p] = TRUE]
    /\ UNCHANGED <<file, edits, pidfile, at, conf, cmap, list, shared, wrote, raced, forgot>>

----------------------------------------------------------------------------
\* The surroundings

Edit(k, line) ==
    /\ edits < MaxEdit
    /\ edits' = edits + 1
    /\ line # file[k]
    /\ file' = [file EXCEPT ![k] = line]
    /\ forgot' = [p \in Proc |-> \/ forgot[p]
                                 \/ /\ at[p] \notin {"off", "load"}
                                    /\ line = Absent \/ (k = "path_metric" /\ line \notin Metrics)]
    /\ UNCHANGED <<pidfile, proc, shared, wrote, raced>>

CollectorWants ==
    /\ collector = "idle"
    /\ collector' = "waiting"
    /\ UNCHANGED <<file, edits, pidfile, proc, sem, shm, fresh, leaked, wrote, raced, forgot>>

CollectorWait ==
    /\ collector = "waiting"
    /\ sem > 0
    /\ sem' = sem - 1
    /\ collector' = "writing"
    /\ UNCHANGED <<file, edits, pidfile, proc, shm, fresh, leaked, wrote, raced, forgot>>

Publish(flows) ==
    /\ collector = "writing"
    /\ shm' = flows
    /\ fresh' = TRUE
    /\ sem' = sem + 1
    /\ collector' = "idle"
    /\ UNCHANGED <<file, edits, pidfile, proc, leaked, wrote, raced, forgot>>

Process(p) ==
    \/ LoadFirst(p) \/ CheckPid(p) \/ WritePid(p)
    \/ SemWait(p) \/ ReadList(p) \/ ReadFails(p) \/ FinishRound(p)

Collector == CollectorWait \/ \E flows \in Flows : Publish(flows)

Next ==
    \/ \E p \in Proc : Start(p) \/ Process(p) \/ Exit(p) \/ Sigusr2(p)
    \/ \E k \in Key : \E line \in Lines[k] : Edit(k, line)
    \/ CollectorWants \/ Collector

Spec == Init /\ [][Next]_vars

\* Processes and collector go on; the sleeps of at least 20 seconds between two reads
\* of a daemon let the collector get the semaphore (strong fairness).
FairSpec ==
    /\ Spec
    /\ \A p \in Proc : WF_vars(Process(p))
    /\ SF_vars(CollectorWait)
    /\ WF_vars(\E flows \in Flows : Publish(flows))

----------------------------------------------------------------------------
\* Properties

\* Two daemons that use the same pid file run only if both had checked it before
\* either wrote it: the check with kill(pid, 0) holds through crashes, exits that leave
\* the file behind, and rereads.
TwoDaemonsNeedRace ==
    \A p, q \in Daemons : p # q /\ wrote[p] = wrote[q] => raced

\* At most one process or the collector is inside the shared memory, and the
\* semaphore is gone for good only if a process exited inside.
ShmExclusive ==
    sem + Cardinality(Holding) + (IF collector = "writing" THEN 1 ELSE 0)
        + (IF leaked THEN 1 ELSE 0) = 1

\* A daemon that reads the memory again although the collector has published nothing
\* keeps its list: the one flow that strtok leaves is below the minimum of three.
NoNewsKeepsList ==
    [][\A p \in Proc : at[p] = "read" /\ at'[p] = "run" /\ ~fresh => list'[p] = list[p]]_vars

\* A reread gives the settings that a start with the same file would give, unless the
\* file has lost a key since (configuration_map keeps it) or named an unknown metric.
RereadIsStart ==
    [][\A p \in Proc : at[p] = "run" /\ usr2[p] /\ at'[p] = "wait" /\ ~forgot[p] =>
         conf'[p] = Settings(Default, Parsed(NoKeys, file))]_vars

\* The collector gets its semaphore again unless a process exited inside.
CollectorServed == (collector = "waiting") ~> (collector = "writing" \/ leaked)
=============================================================================
