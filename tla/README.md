# A TLA+ verification project for pfrd

`pfrd` (performance routing daemon, `src/src/`) measures, in rounds, the round
trip time to a list of destinations through each of several upstream providers
("peers"), chooses a peer for every destination, and has gobgp advertise a /32
route with the peer's community for it. This directory holds TLA+ models of the
daemon, TLC configurations that check them on small instances, and TLAPS proofs
of the properties that the rest of the daemon rests on.

All paths below are relative to the repository; `pfrd.cpp` and the other files
named without a directory are in `src/src/`.

## 1. Inventory

### The parts, their state and their operations

| Part | Code | State | Operations |
|---|---|---|---|
| main loop | `pfrd.cpp` `main`, `for(;;)` | `probe_id`, `req_stopped`, `send_stopped`, signal flags, `mt_req_send` | one round: read the list, start and join the senders, ask the receiver to acknowledge, sleep, work on the maps, advertise, sleep |
| receiver | `ping_readloop.cpp`, `ping_proc_v4.cpp` | the ICMP socket, `r` under `mtr` | `select`/`recvmsg`, store a reply, acknowledge |
| measurements and decisions | `pfr_rdata.cpp` | `r[dst][probe][peer][seq]`, `route[dst][probe]`, `route_log1` | `pfr_route_update`, `pfr_calc_avg_rtt`, `pfr_calc_stddev_rtt`, `pfr_route_scan`, `pfr_route_free`, `pfr_delete`, `pfr_delete_all` |
| route injection | `pfr_rtr.cpp`, `grpc/pfr_gobgp_grpc.cpp` | the routing table of gobgp (outside) | `pfr_routes_man`, create and delete of a path |
| senders | `ping_send_v4.cpp` | one global `sendbuf`, one global `pr->sasend` | a thread per peer sends `pfr_ping_req` requests to every destination |
| telemetry | `pfr_telemetry.cpp` | `ppm[peer][perf_id]` under `mtx_perf` | a thread per border router adds and deletes entries, `get` for main |
| history | `pfr_route_scan_sql`, `pfr_sql_log.cpp` | rows of `pfr_log`, the global `min_rtt` | a detached thread per round walks `r` and inserts its rows |
| configuration | `load_configuration_file` | `configuration_map`, the global settings | load at start, load again after SIGUSR2 |
| destination list | `pfr_dst_list.cpp` | `pfrList`; semaphore and shared memory shared with the ipfix collector | first read, repeated read |
| life cycle | `pfrd.cpp` `main` before the loop | the pid file | start, check and write the pid file, exit |
| customer prefixes, local networks | `pfr_customer.cpp`, `pfr_localnets.cpp` | loaded once | is an address inside |
| peers, border routers | `pfr_peers.cpp`, `pfr_asbrs.h` | loaded once | look-ups |

The stand-alone pingers (`pinger.cpp`, `ping_m.cpp`, `loop.cpp`), the Stevens
wrappers, the generated gRPC code and `contrib/` are not part of the daemon's
logic.

### How they interact

* Main and the receiver share `r`. Only `pfr_route_free` excludes the receiver
  with `mtr`. All other functions rely on a handshake: main sets
  `req_stopped`, the receiver answers with `send_stopped` under `mt_req_send`,
  and main holds that mutex for the whole work of the round, so that the
  receiver stops at the end of its loop.
* The log thread of a round shares `r`, the global `min_rtt` and its argument
  with main and with the log threads of other rounds, without a mutex. Main
  assigns `min_rtt` when it loads the configuration, at start and at a reread;
  every walk, of main or of a log thread, searches in it and leaves 50000.
* The sender threads share a buffer and an address pointer.
* Main keeps a pointer into the telemetry container after `get` has released
  its mutex.
* The daemon, other daemons and the ipfix collector share a semaphore and a
  shared memory segment; two starts share the pid file.
* Every advertised route lives in gobgp; its only record in the daemon is
  `route[dst]`.

### What is hard

Replies that are stored while main walks the maps; rounds that are skipped
because the acknowledgement came late, and what their flags do to the next round;
maps whose operator `[]` creates what it looks up; destinations that disappear
from `r`, `route` and gobgp in three places of the code; accumulators that are
reset by hand; a decision that is not sent because it has not changed, after a
call to gobgp that failed; threads without a mutex; a global in which one thread
searches a minimum while another one does or the configuration is reread; a semaphore held across an
`exit(1)`; a process that dies in any of its threads and a successor that finds
its routes in gobgp; bounds of address ranges in signed integers. `PROJECT.json` lists these hazards with their lines and the
properties that cover them.

### What makes each part correct

* handshake: bounded intrusion into `r`, no acknowledgement without a request,
  no endless skipping, a shutdown signal is obeyed;
* decisions: no route is left in gobgp that the daemon has forgotten, the best
  peer is chosen unless a log thread disturbed the search, gobgp has what was decided, the memory of old rounds is
  given back, no null pointer in a round nobody disturbed, a restarted daemon
  takes over the routes of its predecessor where it has a peer;
* statistics: an aggregate describes its own path and no mixture;
* senders: a probe is lost only through another thread;
* telemetry: no dangling pointer for two periods, no leak, no empty map;
* history: rows agree with decisions, no round twice;
* life cycle: one daemon, one reader of the shared memory, a reread equals a
  start, the collector is served;
* prefixes: an address is the customer's, or local, exactly when it lies in one
  of the prefixes as written.

## 2. Modules

| Module | Models | State and actions |
|---|---|---|
| `PfrGate` | the abstract promise of the handshake | a gate that is open, shut or stopped, and the number of replies since it was shut |
| `PfrHandshake` | main loop and `readloop` | the places of both threads, both mutexes, both flags, the signals; one action per step between two accesses to shared state |
| `PfrRounds` | a round: list, replies, update, aggregation, scan, free, delete, signals, advertising; what the log threads do to it; a process that dies in another thread; a restart | the maps as partial functions, gobgp as `rib`, which outlives the process; one action per function, with the entries its `[]` creates |
| `PfrDaemon` | the two threads of `PfrHandshake` driving the functions of `PfrRounds` | joint steps of the two; a reply is stored exactly when the receiver is inside `proc_v4` |
| `PfrStats` | `pfr_calc_avg_rtt`, `pfr_calc_stddev_rtt` | reply by reply, with the accumulators as variables |
| `PfrSender` | `send_v4` | one thread per peer, steps between two accesses to the shared buffer or pointer |
| `PfrTelemetry` | `performance_peers`, `pfr_perf_peers_cont` | one thread per router, main's pointer, the heap |
| `PfrSqlLog` | `pfr_route_scan` and the reread beside `pfr_route_scan_sql` and `pfr_sql_log` | a walk per thread, peer by peer, with the shared `min_rtt` |
| `PfrConfig` | `load_configuration_file` | operators only |
| `PfrPrefix` | the ranges of `pfr_prefix4`, the masks of `pfr_localnets` | operators only |
| `PfrCustomer` | the loading of both, row by row, and the two look-ups | one action per loaded row |
| `PfrDstList` | the constructors of `pfr_dst_list`; uses `PfrPrefix` to choose flows | operators only |
| `PfrLifecycle` | processes, pid file, semaphore, shared memory, reread; composes `PfrConfig` and `PfrDstList` | one action per step of the start and of a round that touches shared state |
| `MCPfr*` | the instances for TLC, and the statements of comments and configuration that the code is compared with | |
| `Pfr*Proofs` | theorems: `PfrHandshakeProofs`, `PfrDaemonProofs` (null pointers, gobgp and memory, choice of the peer, refinement), `PfrStatsProofs`, `PfrCustomerProofs`, `PfrSenderProofs`, `PfrTelemetryProofs`, `PfrSqlLogProofs`, `PfrLifecycleProofs` | |

`PfrRounds` and `PfrStats` do not contain the two threads: they let at most one
reply in during the work of a round. That this is what the threads do is
`ImplementsGate` of `PfrHandshake` and, with the threads and the maps in one
model, `ImplementsRounds` of `PfrDaemon`. Both are checked and proved.

### Abstractions

* `PfrRounds`: the replies of a peer in a round are one fact (it answered); the
  metric is any member of `Metric`. A destination, a peer and a round are
  numbers because the code's maps are ordered. `route_log1` is reduced to the
  rounds whose entry has a peer, which is all that `pfr_delete` asks. Only
  replies to the present round and to the one before are modelled: a reply
  needs longer than two rounds otherwise. A dereferenced NULL, an exception
  nobody catches, and an undefined use of an iterator end the daemon
  (`pc = "dead"`, with the reason in `crash`); an undefined use may also be
  survived. Variables called history in the comments are not in the code; they
  record the events that properties name.
  `ThreadExits` stands for every `exit` and crash of another thread (an error
  of `recvmsg`, a log thread without database, the double `PQclear`). After
  `Restart` the maps are empty and `rib` is as it was; `inherited` is the set of
  destinations whose route this process has not touched yet.
* `PfrRounds`, the log threads: `PfrSqlLog` has them step by step, `PfrRounds` has
  what they can do to main. The variable `min_rtt` is what the next search of main
  starts with: the configured value after a load (`Configured`), 50000 (`MinRtt`)
  once any destination was walked. A log thread walks at any time, so that the first
  search may find 50000 too (`start` in `RouteScan`). A log thread that is inside a
  destination together with main changes what main reads and compares: from the
  first start of a log thread on, each search of a round either ends undisturbed or
  with any peer and with any values of `Noise` at the two places where main reads
  `min_rtt` afterwards (`Disturbed`, recorded in `mixed`). And a log thread that has
  copied the name of a destination creates it again after main has erased it
  (`Erase`, `Revive`, recorded in `revived`). No log thread is ever assumed to be
  over. What one does to `r` in the middle of a function of main is an undefined
  access and ends the process, which is among `ThreadExits`. What the log
  thread itself reads while main erases is left to `PfrSqlLog`. Its use of `route`
  (`pfr_rdata.cpp:538-541`) is in neither module: it looks up, without a lock, which
  case number its row gets. If main erases the destination between its `count` and its
  `[]`, the `[]` leaves an empty entry in `route`, or dereferences NULL.
  `RouteWithinR` and `NullNeedsLateReply` do not speak about such an entry.
* `PfrDaemon`: one process, no restart. A function that dies inside takes both
  threads with it (`MainDies`); `DropPacket` is a reply `proc_v4` does not want.
* `PfrPrefix`, `PfrCustomer`: an address is its four octets read as one number,
  the size of an octet is a parameter (8 in the code). Dotted text is its
  octets. An impossible prefix length leaves the upper bound uninitialised,
  which is any value. A shift by the full width gives 0 or the value unshifted.
* `PfrStats`: round trips are whole microseconds, doubles are exact integers
  with the rounding of the code (`ceil` to a hundredth of a millisecond); the
  median is kept doubled. `std::sort` is a choice of an arrangement in ascending
  order, the square root a choice of the least number whose square is not less.
* `PfrSender`: the checksum is the content it was computed over; freed memory
  may still hold the address or anything else.
* `PfrTelemetry`: an entry is its period; the mutex, which no constructor
  initialises, starts out free or held.
* `PfrSqlLog`: `path_metric` is `metric0`, also after a reread; the erasing of
  rounds and destinations by main is any erasing that keeps the round just
  measured. `Init` and `Reread` give `min_rtt` a configured value (`Configured`; or
  50000 at start, if the file does not name the key), `Leave` gives it the literal
  50000 (`MinRtt`). A log thread gives it the least round trip of its row just
  before it leaves the destination; the model has that value and the reset in one
  step, because another walk could see it only inside a destination at the same
  time, which `mixed` records.
* `PfrConfig`: one key for each way a value is converted.
* `PfrDstList`: a flow is a pair of addresses; customer and local networks are
  tested with the operators of `PfrPrefix`.
* `PfrLifecycle`: process ids are not reused; `fork` is part of `Start`.

## 3. Runs

Each run names its module, configuration and properties in `PROJECT.json`.
Deadlock is checked in all of them except `lifecycle`, where every process may
be gone and the collector be waiting for a semaphore nobody will post.

| Run | What it shows | Bounds and why they are enough |
|---|---|---|
| `handshake` | At most one reply is stored during the work of a round (`OneLatePacket`, `ImplementsGate`); flags of skipped rounds never open a round that has not asked (`AckAnswersRequest`); `pfr_route_free` excludes the receiver (`FreeExcludesStore`); rounds go on (`RoundsContinue`) and a shutdown signal is obeyed (`ShutdownHappens`). | None: the state is finite. |
| `rounds_removal` | Which events a forgotten route needs (`OrphanNeedsCause`), what a shutdown withdraws (`ShutdownWithdrawsAll`), what is kept in memory (`TwoRoundsKept`), and when null pointers are met (`NullNeedsLateReply`, `RouteWithinR`). | Two destinations, one peer, rounds 0 to 4, one skipped round, `deep_delete` = 1. A destination can be listed, advertised, fall silent for `deep_delete` + 1 rounds, be given up and come back; two destinations are what an overwritten parameter and a skipped iterator need. Failed calls, deaths in other threads, restarts and log threads (`Noise` = {}) are off here; the runs `rounds_paths` and `daemon` have them, with shorter histories and other properties, and the theorems `OrphanCorrect`, `ShutdownCorrect`, `KeptCorrect`, `RouteCorrect` and `NullCorrect` hold with all of them. |
| `rounds_paths` | The best peer is chosen when `path_metric` names one of the two metrics the scan reads (`BestPeerChosen`), the stored minimum never rises under `rtt_least_move` (`MinimumOnlyFalls`), gobgp ends a round with the decision of the round (`RibFollowsRoute`), and a route of an earlier process survives round 1 only where the new one has no peer (`RestartTakesOver`). | One destination, two peers, metrics 1 and 2, which differ by more than the threshold. `min_rtt` is 3 in the walks and 2 in the configuration, so that the metric 2 is below the one and not below the other; both starts of a search occur, because a log thread may have come first. `Noise` = {0}: a disturbed search takes any peer and leaves 0, the value of a silent destination. Rereads, death of any thread, one restart, rounds 0 to 2: round 2 is the first that suppresses an unchanged decision, and a restarted daemon passes through all three again. Failed calls are in the run `daemon`. |
| `daemon` | Every step of the composed threads and functions is a step of `PfrRounds` (`ImplementsRounds`); when main dies of a null pointer the receiver is waiting for `mt_req_send`, or a log thread has created an erased destination again (`NullWhileReceiverWaits`); what a decision for peer 0 needs (`PeerZeroNeedsStrayReply`). | One destination, one peer, rounds 0 to 2, one skipped round: the flags of a skipped round reach the next, and a reply can come at every place of the work. Failed calls, rereads, log threads and deaths of other threads are on, `deep_delete` = 0 and `enable_explicit_withdraw` = on. The metric 1 is below the `min_rtt` of the walks and of the configuration, which `PeerZeroNeedsStrayReply` asks for. Proved for all values. |
| `customer` | No foreign address is the customer's (`HitOnlyInside`); the only misses are prefixes of length 0 and those written with host bits (`MissNeedsCause`); the masks of local networks are exact from length 1 on (`LocalnetsExact`). | Octets of two bits, so addresses of eight: every prefix, every length, every address. The code treats octets alike, and the four octets, the split inside each and both signs occur. One row at a time: both look-ups are disjunctions over the rows. Proved for octets of any size and any rows. |
| `stats` | No aggregate mixes two paths or half a late reply (`AggregateIsSnapshot`), an additional reply never makes the metric worse (`MoreRepliesNeverHurt`), deviation and median stay in range (`DeviationWithinRange`), and the one way to a null pointer (`NullNeedsNewPath`). | Two paths, up to three replies each, three round trips, one of them above the cap of the search; all initial sets of replies, and a late reply anywhere. All four are proved for all values. |
| `sender` | A probe is lost only if another thread wrote to the buffer or the pointer in between (`LostNeedsOtherThread`); a thread's own address is never read after its `freeaddrinfo` (`OwnAddressAlive`). | Two threads, two destinations, two requests each: every pair of steps interleaves, and an address is freed while the other thread works on either destination. |
| `telemetry` | A pointer is stale only from the second later period on (`StalePointerNeedsTwoPeriods`), a known peer has a recent entry (`KnownPeerHasRecentEntry`), nothing is lost on the heap (`NothingLeaked`). | Two routers, three peers, five periods. The theorems hold for all values. |
| `sqllog` | Whenever no walk is inside a destination, `min_rtt` is 50000, or the value of the last load if no walk has finished a destination since (`MinRttRestored`); decisions and rows are right unless a walk inside a destination met another walk or a reread (`DecisionUndisturbed`, `LogAgreesWithDecision`); no round is logged twice unless a thread was overtaken (`RoundLoggedOnce`). | One destination, two peers, three rounds and thus three log threads. Walks overlap in one destination or not at all; the third round is the first that frees measurements. The configured `min_rtt` is 3 and the literal of the walks 9; the metrics 1, 2 and 3 lie below both, or only below the second. A reread can come after every round, with each log thread at any place. |
| `lifecycle` | Two daemons need a race between check and write (`TwoDaemonsNeedRace`); the shared memory has one user (`ShmExclusive`); a read without news keeps the list (`NoNewsKeepsList`); a reread equals a start unless a key was lost (`RereadIsStart`); the collector is served unless a process exited inside (`CollectorServed`). | Two processes, one edit of the file, two publications, among them one that is below the minimum of three. |
| `doc_removal` | Violated: the comment above `pfr_route_update` wants every removed destination withdrawn from the routers. The inner loop overwrites the parameter `probe_id`, so the second destination of a batch keeps its route. | Rounds 0 to 3. |
| `doc_sql_off` | Violated: with `enable_sql_log = off` rows are written, because a pointer is converted to `bool`. | Two rounds. |

Every property has a mutant: a definition of the model changed the way a bug in
the code would change it, under which TLC finds the property violated. The
mutants stand next to the definitions they replace.

### Fairness

* `PfrHandshake`: both threads run, so a step that stays possible is taken
  (weak fairness). `Ack` has strong fairness: it waits for `mt_req_send`,
  which main gives back in every round and leaves free during sleeps of many
  seconds, so that an attempt that recurs succeeds. `Recv` has strong fairness
  because not every `recvmsg` is interrupted by a signal. Without them a
  scheduler could let the receiver run only while main holds the mutex.
* `PfrLifecycle`: weak fairness of each process and of a publication that has
  begun. `CollectorWait` has strong fairness because a daemon sleeps at least
  20 seconds between two uses of the semaphore.

The other specifications state no fairness; their properties are about safety.

## 4. Proofs

All theorems hold for every value of the constants that satisfies the
assumptions named in the modules (`RoundsAssumption`, `StatsAssumption`,
`OctetAssumption`, `CustomerAssumption`, `SenderAssumption`,
`TelemetryAssumption`, `SqlLogAssumption`, `DstListAssumption`,
`LifecycleAssumption`); `PfrHandshake` has no constants. The bounds on rounds,
skipped rounds, restarts and edits are constants too, so each theorem holds for
any number of them.

* `PfrHandshakeProofs`. The inductive invariant `IndInv` adds to the types who
  holds which mutex in which place of the threads, that the acknowledgement
  follows a request, and that a receiver that has stored a reply during the
  work stands before the acknowledgement, which is where it waits for
  `mt_req_send`. The last part is why `OneLatePacket` is not inductive by
  itself: it needs the receiver's place. `HandshakeImplementsGate` follows:
  every step under `IndInv` is a step of the gate or a stutter.
* `PfrDaemonProofs`, about `PfrRounds` (theorems on `Spec`) and about the
  composition (theorems on `DaemonSpec`).
  * *Null pointers.* `RouteCorrect`: a destination with decisions has
    measurements. `NullCorrect`: a null dereference needs a reply that came
    during the unlocked work, or a destination created again by a log thread. Their common invariant `RInv` says that until the
    scan the aggregates cover what was stored, and that from the scan on every
    destination of `route` has a decision of this round, both unless a reply was
    late or a destination was created again, and that `route` is within `r`. Round 0, which stores no decision for a
    destination without answer, needs a part of its own (`FirstRoundInv`).
  * *gobgp and memory.* `OrphanCorrect`, `ShutdownCorrect`, `RibFollows` and
    `TakeOver` share the invariant `RibInv`. What is in gobgp is compared with
    the last decision, which is that of the previous round before
    `pfr_route_scan` and that of the present one after it: a route of this
    process has a last decision with a peer (`OwnedInv`); from round 2 on gobgp
    has the peer that the new decision calls `prev`, so that not sending an
    unchanged decision is right (`FollowInv`); decisions belong to rounds already
    begun (`BoundInv`). `Dst` must be finite, because `pfr_route_update` treats
    one removed destination differently from several. `KeptCorrect` has an
    invariant of its own (`KeptInv`): no decision or measurement is older than
    what the next `pfr_route_free` will take.
  * *The choice of the peer.* `BestCorrect`, `MinimumCorrect` and
    `PeerZeroCorrect` rest on what the loop over the peers computes.
    `ScanState` is its loop invariant, by induction over the peers, for any value
    the search starts `from`: after the peers up to `n` the loop holds the first peer
    with the least metric that was read, if that is below `from`, unless the first
    peer has no metric: that one takes the leftover 0 of `curr_rtt` and keeps the
    choice. `DataInv` gives it numbers to compare, `StartInv` says that `min_rtt` is
    50000 or a configured value when a search begins. `ScanFound` and `ScanDecides`
    tie what is stored to what the searches found. `BestCorrect` therefore speaks of
    metrics below both possible starts, and of rounds no log thread has disturbed
    (`mixed`). `PeerInv` says that, as long as nothing of what
    `PeerZeroNeedsStrayReply` excludes has happened (`Undisturbed`), a destination of
    `r` has answered in this round or has the decision of the round before, so that
    no decision is without a peer: an answer has a metric below every start, so the
    search finds one. Each exclusion is needed; without any one of `mixed` and
    `revived` TLC finds a decision for peer 0 in the run `daemon`.
    `Peer` must be finite, because the loop ends at the greatest one.
  * *Refinement.* `DaemonImplementsRounds`: the composition implements
    `PfrRounds`, with the identity as refinement mapping. The invariant `DInv`
    says that main holds `mt_req_send` during the whole work, that a receiver
    which has stored a late reply waits for it, and that a dead process stands
    still. It is what turns `Store` of the composition, which is unrestrained,
    into `Reply` of the rounds, which is not. `NullCause` combines it with
    `NullCorrect`, carried over by the refinement; that a destination was created
    again is never forgotten before a restart (`RevivedStays`), and there is none
    in the composition.
* `PfrStatsProofs`. `SInv`: the accumulators of the pass describe the replies of
  its path that have been visited, either as they were before the late reply or
  as they are with it (`AccumulatedInv`, with `Visited` for what count, sum,
  minimum and maximum are); what had answered before the passes has its
  aggregate once the first pass is past it (`CoveredInv`); the metric is a
  function of minimum and loss (`MetricInv`). The existential in
  `AccumulatedInv` is what a late reply in the middle of a pass needs: behind
  the reply visited last it belongs to the aggregate, before it it does not.
  `SnapshotCorrect`, `NullCorrect` and `MoreRepliesCorrect` follow.
  `DeviationCorrect` needs a second invariant over `SInv`, `DeviationInv`: in the
  second pass `smediana` lists each reply visited of the present path once,
  `dispersion` is at most their number times the square of the path's spread
  (`GatheredInv`), the accumulators are fresh when the pass begins (`FreshInv`),
  and what lies behind the pass already fits its replies (`FitsInv`). Three
  results on data carry it: every list of numbers can be sorted (`SortExists`, by
  induction on the length: the greatest goes to the end), so that the choice in
  `Sort` is one; at most half of the replies lie above the element the code takes
  for the median and half and one below (`MedianaIs`, by counting along the
  sorted list); and the distance of a reply to the rounded average is at most
  the spread (`TotalBounds`, `DeltaBound`), which bounds the sum of the squares
  and with it the root (`StddevIs`).
* `PfrCustomerProofs`. The state is small (`TableInv`: every range comes from its
  row); the work is arithmetic. `HighIs` shows that the upper bound built octet by
  octet is the last address of the prefix, `SignIs` that a prefix of length 1 or more lies on one
  side of the sign bit, which is why the signed comparison is right for it,
  `NetIs` that the mask cuts an address to its network. `HitCorrect`,
  `MissCorrect` and `LocalnetsCorrect` follow, for octets of any number of bits,
  the eight of the code among them.
* `PfrSenderProofs`. `SInv`: as long as no other thread has disturbed the present
  probe, the buffer holds what the thread has written so far (`BufferInv`), and
  a thread that finds its own address in `pr->sasend` finds the present one
  (`AddressInv`). `LostCorrect` and `AddressCorrect` follow.
* `PfrTelemetryProofs`. The invariant says exactly which periods are stored for
  a peer: before its turn the last two (`Before`), between `add` and `cleanup`
  three (`Between`), after it two (`After`); the heap is what is stored plus
  what `cleanup` has just returned; and main's pointer is not newer than its
  thread. From it follow `StalePointerCorrect`, `KnownPeerCorrect` and
  `LeakCorrect`, for any number of routers, peers and periods.
* `PfrSqlLogProofs`. `QInv`: threads are numbered by the rounds that started them,
  and unless one was overtaken only the latest has not read the shared argument
  (`ArgumentInv`), which gives `LoggedOnce`. `MinRttCorrect` is inductive with
  the places of the walks and `loaded`, which follows the writers of `min_rtt`:
  what a load gave until a walk leaves a destination, 50000 from then on. `HInv` is
  about the searches: as long as a walk inside a destination has met neither another
  walk nor a reread, a walk under way has the least metric, below the value it
  started from, of the peers it has passed (`ScanInv`, `LogInv`); a round whose scan
  is over and that still has measurements of a destination was decided by their
  least one below some member of `MinRtts` (`DecidedInv`); and only threads of such
  rounds write rows (`ProbeInv`). The two searches of one round may start from
  different values; `LeastAgrees` says what follows: both found the same peer, or
  one of them none, and then only because it started at or below the metric. A log
  thread may lag behind by rounds, but the measurements it reads are then unchanged
  or erased; erased before its walk comes to them, the row names no peer, erased
  under the walk, the process dies before the row is committed. `HistoryAgrees` and
  `DecisionCorrect` follow.
* `PfrLifecycleProofs`. `LInv`: the semaphore plus the processes inside it plus
  the leaked ones are one, counted with the cardinality of the set of holders
  (`ShmCorrect`); without a race whoever has found a pid file free shares it
  with nobody, and the file of a daemon holds its own pid (`PidInv`), from
  which `PidCorrect`. `ListInv`: without a new publication the memory holds at
  most the one flow `strtok` leaves, which is below the minimum of three
  (`ListCorrect`). `ConfInv`: unless a key was removed or an unknown metric
  named, settings differ from those of a start only in what the next load
  overwrites (`RereadCorrect`).

Recursive functions (`Scans`, `PartialTotal`, `pow2`) are defined by `CHOOSE`, so
that their equations have to be proved. The induction theorems of the library
take a predicate, which the provers cannot instantiate; the lemma `NatInd` states
induction for a set of numbers instead, from `WFMin` and
`NatLessThanWellFounded`, and `Recursion` derives from it that a function with
the equations exists. The modules that need them each have their copy.

Only model-checked: liveness (`RoundsContinue`, `ShutdownHappens`,
`CollectorServed`), because the prover handles neither fairness nor ENABLED. All
other properties of the passing runs are theorems.

## 5. Differences between code and comments that no run is about

* The median of an odd number of replies from three on is the element behind the
  middle one (`pfr_rdata.cpp`, `mediana`); `PfrStats` has the code's rank, and
  `DeviationWithinRange` says in which range the result stays.
* `pfrd.conf:52` says a new peer must be better "than the current path"; the code
  (`pfr_rdata.cpp:415-418`) compares with the metric stored when the path was chosen. `MinimumOnlyFalls`
  states what follows from it.
* The comment at `pfr_rtr.cpp:226` says of `pfr_get_jrouter_rt` that it gets the
  routes "from device to create route_out[][] structure if pfrd was
  reloaded/restarteed"; the function is empty and its call commented out.
  `RestartTakesOver` says what becomes of the old routes.
* A customer prefix of length 0 matches nothing, one written with host bits only
  the part from that address on, and one without a slash takes its first octet
  for its length (`pfr_customer.cpp:43-46`). IPv6 prefixes are parsed into
  nothing (line 97) and never loaded.
* `pfr_delete` gives a destination up after `deep_delete` + 1 silent rounds
  (`pfr_rdata.cpp:625`): four with the default of 3, where the comment at lines
  600-601 says "no response 3 times". The model has the code's bound.
* `pfr_route_free` frees only round `probe_id - 2` (line 168), the comment above
  it speaks of older rounds. Without skipped rounds it is the same
  (`TwoRoundsKept`).
* `min_rtt = 50000` of `pfrd.conf` reads like a limit of every search; the walks
  reset the global to the literal 50000 (`pfr_rdata.cpp:453`, `565`), so another
  configured value is in force only for the first destination that any walk
  finishes after a load (`pfrd.cpp:288-290`). `MinRttRestored` and
  `DecisionUndisturbed` state what follows.
* `metric2` to `metric5` are accepted by the configuration and never read by the
  scan (lines 343-349).
* The deviation is divided by the number of replies once more after the root
  (line 831).
* A destination that has never answered gets an entry in `route`
  (line 443); `PfrRounds` has it, and `PeerZeroNeedsStrayReply` says when the
  entry can become fatal.
* `sig_usr2_flag` is never reset: after the first SIGUSR2 every round rereads
  the file. `PfrLifecycle` and `PfrHandshake` have this.
* The peers are loaded and the log level is used before the configuration is
  read (`pfrd.cpp:493`, `588-595`), and customer 7 is written into the code
  (`722`) although `customer_id` exists (`672`).

## 6. Not modelled

* Peers and border routers: constant after the start; their netconf sessions are
  opened and not used.
* The other way to gobgp: the models assume `enable_gobgp_grpc`. The variant that
  runs the gobgp command (`goexec`) would not throw on the empty community of peer 0
  but run a command that is malformed.
* The building of protobuf messages, SQL text and command lines, socket options,
  the netconf rendering (an empty function): no state of the daemon.
* The stand-alone pingers, the vendored wrappers and the scripts in `contrib/`:
  not part of `pfrd`.
* The generated gobgp API (`grpc/*.pb.*`): serialisation code written by
  `protoc`. It makes up about 195 000 of the repository's 202 000 lines, so the
  share of the whole repository that the models cover is small however much of
  the daemon they contain; of the twelve hand-written files that carry its logic
  (3 700 lines) they cover more than half.
* `mtx_perf`, which is never initialised: `PfrTelemetry` starts with a mutex that
  works or one that is held, and in the second case nothing moves. The key 99
  of the aggregate among the replies: it collides only with `pfr_ping_req` above
  99, and the repository uses 5.
* An error of the database while the customer or the peers are loaded ends the
  process before it has done anything.

## 7. Order of the work

The handshake and its gate came first, because everything else relies on it;
then rounds, statistics, telemetry, senders, history and life cycle; then the
restart, the composition of threads and rounds, and the prefixes. The proofs
followed the same order.

What could follow:

1. Restarts across `PfrLifecycle` and `PfrRounds` in one model, with two daemons
   that write into one gobgp after the race on the pid file.
2. The remaining keys of the configuration, should one of them be converted in
   a way `PfrConfig` does not have yet.
