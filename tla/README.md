# BatteryOS in TLA+

TLA+ modules for the core of BatteryOS, TLC configurations that check them on
small instances, and proofs of the properties that hold for every instance.
Paths below are relative to the repository; `V3/` stands for `BatteryOS-V3/`,
`V2/` for `BatteryOS-V2/`, `V1/` for `BatteryOS-V1/`.

    tlc -config BatteryOwn.cfg MCBattery      one run (PROJECT.json lists them all)
    tlapm Battery_proofs.tla                  the proofs of one module (each *_proofs.tla)

## 1. The system

BatteryOS presents batteries to programs the way an operating system presents
devices. Physical batteries can be aggregated into bigger virtual ones and
partitioned into smaller ones, and the results aggregated and partitioned
again; a server gives access to all of them over FIFOs or TLS sockets. The
repository holds three versions: a Python prototype (V1), a first C++ version
(V2) and a rewrite (V3), which is the current one. This project models V3 first and
then what V2 does differently: its splitters and their policies, its aggregator,
its directory, and its servers over FIFOs and TCP.

| Part | State it keeps | Operations | Talks to |
|---|---|---|---|
| `Battery` (V3/src/BatteryInterface.cpp, include/event_t.hpp) | `eventSet` ordered by time and kind, `eventMap` of request pairs, `current_mA`, `status`, refresh mode and staleness, `quitThread` | `schedule_set_current`, `checkMergeAndInsertEvents`, `runEventThread`, `getStatus`, `setBatteryStatus`, `setRefreshMode`, `setMaxStaleness`, `quit` | its parents (forwarding `schedule_set_current`), its device |
| `PartitionBattery` charging thread (V3/src/PartitionBattery.cpp, PseudoBattery.cpp) | `status` current and capacity, `requested_current_mA`, `runningThread` | `set_current`, `runChargingThread`, destructor | the same battery's callers |
| `PartitionManager`, `AggregateBattery` | children or parents, proportions, limits | `refresh`, `set_current`, `schedule_set_current` | parents and children |
| `BatteryDirectory`, `BatteryDirectoryManager` | `batteryMap`, `childGraph`, `parentGraph`, pManager counter | create, remove, getBattery, destroy | the batteries' own pointers |
| `BOS`, `NetService`, acceptors, `BatteryConnection` | pollables, FIFO files, the admin connection, `quitPoll` | accept, read a command, handle it, answer, shut down | clients, directory, batteries |
| `Admin`, `ClientBattery` | an open connection | send a command, wait for its answer | the server |
| secure aggregation (V3) | shares of a round | set a schedule, aggregate | battery, aggregator, client |
| V2 battery and splitter (V2/BatteryInterface.*, BALSplitter.*) | a queue of absolute currents, children's plans, charges and limits | `schedule_set_current_of`, `background_func`, `refresh` under three policies | source, children |
| V2 aggregator (V2/AggregatorBattery.cpp) | a status, refreshed lazily by one thread per source | `refresh`, `schedule_set_current` with shares | sources |
| V2 directory and manager (V2/BOSDirectory.hpp, BOS.cpp, ProtobufMsg.cpp) | batteries by name, two maps of edges, loaded libraries | make each kind of battery, look up, forward, quit | every message of a client |
| V2 FIFO server (V2/BOS.cpp, example_client.cpp) | pairs of FIFOs, `battery_ifds`, `should_quit` | boot, poll, handle, answer, reopen, shut down | clients, file system |
| V2 TCP server and `RemoteBattery` (V2/BOS.cpp, Remote.hpp) | one connection at a time, cached statuses | accept, echo, handle, answer; a call per request | other servers |
| V1, transformer protection, drivers, scripts | | | see section 8 |

What is hard about it:

* A battery is shared by the server thread and its event thread. A call reads
  the clock and the status first and takes the lock afterwards, so both may be
  stale; the thread gives the lock up only in a wait, and a notification that
  comes at another moment is lost.
* Later requests of one name replace earlier ones. The merge rewrites the times
  and currents of events already queued, offsets new events by the ones they
  overlap, and cancels with a third kind of event; the thread then adds up
  differences, so that one event too many or too few is never corrected.
* The charging thread writes the fields that calls read and write, most of
  them without the lock.
* The topology is kept three times: in two graphs and in the batteries' own
  pointers (owning upwards, weak downwards). Removal is recursive and takes
  siblings along.
* The server is a single thread with blocking reads: a client's failure is the
  server's. Handlers of one poll round change what later handlers of the same
  round find.
* In version 2 a status is read on its way up, at another moment at every level,
  and a current divided by such statuses on its way down; remainders of integer
  divisions are handed out by loops that cannot end by themselves.
* The servers of version 2 reopen a FIFO after every answer, leave files behind
  when they die, and call each other while their own caller waits.

PROJECT.json lists every hazard with its line and the properties that would fail if
it came true. Where the code does succumb to one, no property can hold and say
so: the properties around it then have a condition that excludes it, the note of
the hazard names that condition, and section 6 says what the code does.

## 2. Modules

| Module | Models | Used by |
|---|---|---|
| `Events` | `event_t`, the order of `EventSet`, sums of currents | `Battery` |
| `Battery` | one battery's schedule, calls and event thread | `MCBattery`, `Battery_proofs` |
| `CurrentSchedule` | abstract: what a battery promises those who schedule currents | `Battery` (refinement) |
| `Battery_proofs`, `Charging_proofs`, `Server_proofs`, `Splitter_proofs`, `Registry_proofs`, `FifoService_proofs`, `TcpService_proofs` | theorems about the module of the name (section 4) | |
| `Sums` | sums over finite sets, and induction over numbers and finite sets: the lemmas several proofs share | `Battery_proofs`, `Splitter_proofs`, `Registry_proofs` |
| `Charging` | the charging thread of a partition against its callers | `MCCharging`, `Charging_proofs` |
| `Directory` | directory, manager and the batteries' pointers | `MCDirectory` |
| `Server` | server, poll loop, acceptors, connections and clients | `MCServer`, `Server_proofs` |
| `Splitter` | V2: a splitter, its children and its source, with their threads | `MCSplitter`, `Splitter_proofs` |
| `Policies` | V2: how a refresh hands a status out to children, as functions | `Tower` |
| `Tower` | V2: devices under an aggregator under a splitter: statuses up, currents down | `MCTower` |
| `Registry` | V2: directory and manager, message by message | `MCRegistry`, `Registry_proofs` |
| `FifoService` | V2: the FIFO server, its clients and the kernel between them | `MCFifo`, `FifoService_proofs` |
| `TcpService` | V2: TCP servers and remote batteries in a chain | `MCTcp`, `TcpService_proofs` |
| `Sharing` | V3: a current on its way from a partition to the parents of an aggregate | `MCSharing` |

An `MC` module defines the sets a `.cfg` cannot write down and nothing else. The
inductive invariant behind a theorem stands at the end of the component's module,
where TLC can check it too; what only a proof speaks of is in the proof module.

### Battery

State: the fields of class `Battery` under their own names; `pc` is where the
event thread is (`woken`, `scan`, `wait`, `timed`, `done`, `dead`, or `none` for
a battery without a thread), `device` what the last `set_current` was told,
`call` a request checked but not inserted yet. `applied` and `want` are history.

| Action | Code |
|---|---|
| `setSourceBattery`, `AggregateBattery` | the end of construction: the first refresh, inserted without lock or notification |
| `schedule_set_current` | the checks before the lock: clock, limits of the status, sequence number |
| `checkMergeAndInsertEvents` | the critical section: the merge with every request of the name, the insertion, `notify_one` |
| `SecondShare` | the same request arriving a second time at a common ancestor of two branches (same number, another share) |
| `getStatus`, `setBatteryStatus`, `setRefreshMode`, `setMaxStaleness`, `quit` | the functions of the name |
| `ThreadWaits`, `ThreadWakes`, `ThreadQuits` | `wait`, `wait_until`, and the exit of `runEventThread` |
| `RunsEvents`, `RunsCancel` | one pass of the loop over what is due, up to the first CANCEL |
| `DiesOfStaleCancel`, `DiesAtEnd` | `eventMap.at` throws in the thread, with nothing to catch it |
| `Tick` | the clock |

`set_current` and `refresh` of the subclasses are reduced to what the schedule
sees of them: an argument, and a status whose limits are any of `Limits`.
`Discipline` says what is assumed of callers: `ahead` (a request reaches the
lock before its start), `touching` (it overlaps or touches what its name has
scheduled), `settled` (no request of its name waits to be cancelled). Nothing
in the code enforces these; section 6 says what happens without them.

`wait_until` compares the clock with its deadline when it has the lock again, so a
thread that was notified in time but gets the lock late has timed out as well and
goes through the set, though the event it waited for may have been moved meanwhile:
a `woken` thread keeps its `deadline`.

Reading `iter->eventID` through `end()` is undefined. The model takes what
libstdc++ does: the number of nodes is read in place of the kind.

### Charging

`set_current`, `getStatus`, `setBatteryStatus`, the manager and the destructor
are split into single reads and writes of the fields shared with
`runChargingThread`, and so is the thread. A data race is thus an interleaving
(the fields are words: a torn read is not an outcome of the build). `sins`
remembers which kinds of racing access have happened, so that a property can
say what it depends on: `overlap` (a call that writes comes while the thread is in
the middle of a turn), `read` (a status read does), `change` (a current is set
on another with no zero between them), `touch` (`setBatteryStatus`). `turns` counts
the turns with current while `set_current(0)` waits, from the last change of the
limits on: limits that shrink in every turn would add turns without end.

### Directory

A battery is a record of its kind, an identity that distinguishes it from an
earlier battery of the same name, and its pointers. Creation, removal and
destruction are one action each, since only the server thread calls them;
`removeBattery` is the code's recursion, including the order in which it takes
edges away and its failure half-way. `Careful` names the assumptions:
`distinct parents`, `new names`, `no manager names`, `none after the end`.

### Server

`round` holds the positions in `pollables` of what poll found ready and has not been
handled yet, lowest first, so the effect of one handler on the next of the same
round is visible. FIFO mode and network mode are one module: in the first all
clients of a battery share a channel, in the second each has its own. `server`
becomes `stuck` when a read cannot end and `dead` when an exception or a null
pointer ends the process. `Discipline`: `stay` (no client leaves), `alone` (one
client per battery and one admin), `fresh` (no battery is created under a name that
is taken or that the server gives its managers), `last` (Shutdown is the last
command, with every other one answered). Messages are whole: `read_exact` and
`write_exact` are the loops that make them so. `createPartitionBattery` enters a
manager under the next of `ManagerNames` before it enters the partitions, and the
manager stays when a partition's name is taken; `createBatteryFifos` then runs for
the partitions only, so a manager is in the directory and has no FIFO. A client
connects over a FIFO (`ConnectFifo`) or over TLS (`ConnectNetwork`); `CallCreate` is
one of the calls of `Admin`. `Admin::createDynamicBattery` sends nothing, so the
server's `createDynamicBattery` is driven by a client of another make.

### Splitter

Version 2. `queue` and `sourceQueue` are the two event queues; the other
variables have the names of the fields they stand for. `wish`, `used`, `late`,
`refused` and `sins` are history.

| Action | Code |
|---|---|
| `schedule_set_current_of` | the child's call, the checks and the two new events, up to the call of the source |
| `Forward` | that call: the source reads the clock again and queues the total, or refuses it |
| `schedule_set_current` | a request made of the source by somebody else |
| `SplitterPass`, `SourcePass` | one turn of `background_func` of each battery |
| `quit`, `Tick` | shutdown, and the clock |

The server thread holds the splitter's lock during `Forward`, so a request in
between is no interleaving, and neither is the splitter's thread; the source's
thread and the clock are. `get_delay` is an operator parameter (zero in the
run, as for every battery but Sonnen and plug-ins). `LastCurrent` is what the code
finds when it walks the queue up to a moment: the current of the last event there.
Requests end no earlier than they start, which the code does not check. A refresh
leaves any of `Limits`.
`sins`: `moving` (another child's current changes within the window), `direct`
(somebody else uses the source), `tardy` (the start passes between the
splitter's check and the source's).

### Policies and Tower

`Policies` has no variables: `refresh_proportional`, `refresh_tranche` and
`refresh_reservation` take a source's status, the statuses the children were
first given, what they ask for and their estimated charge, and return the
children's statuses. The macro `DISTRIBUTE_MAX_STATUS` and the loops below it are
one fold (`Loop`) with a step of its own each; a loop that counts `size_t i` down
and never finds a child to absorb the remainder is reported as out of bounds.
Quantities are integers; doubles are exact fractions, truncated or rounded where
the code does so.

`Tower` puts them under way: `agg` is the aggregator's status, `age` how old it
is, `dev` the devices' statuses, `due` what their threads still have to set, `job`
where the server thread and the splitter's refresher are. `GetStatus`, `Read` and
`Refreshed` are the lazy refresh (one thread per source, so the statuses are read
at different moments), `ScheduleChild`, `CallAggregator`, `Refuse`, `Accept` and
`SendShare` a request on its way down; `SetDevice`, `ChangeDevice` and `Hour` are
the world. A request starts at once and stays; `Splitter` has the windows.

### Registry

One action per message. The two maps of edges have the names of the directory's
members; `add_edges` is the loop of `add_edge` calls at the end of `make_aggregator`
and `make_splitter`, each of which enters nothing when an end is unknown. `Closure`
is the set of batteries a call may come through, as the smallest set that is closed
under one call. `make_JBDBMS` always ends the server: the constructor writes to a
pointer it has moved from (V2/JBDBMS.cpp:23), or has met `ERROR()` before. `fate`
says how a message ended: `ERROR()` exits, a battery that is its own source locks a
mutex its thread holds, a call into a library that was closed is undefined. `sins`
remembers what messages have asked for that the manager does not check, so that
`MessagesSurvived` can say which of these it takes.

### FifoService

| Action | Code |
|---|---|
| `Start`, `StartFails` | `bootup_fifo` with the order in which the FIFOs of the program's batteries are made |
| `Watch`, `Poll` | the test of `should_quit`, and `poll` with the round it finds |
| `ReadAndHandle`, `OpenOutput`, `Answer`, `CloseInput`, `Reopen` | `handle_admin` and `handle_battery`, cut where the kernel may make the thread wait or the other end sees a difference |
| `ShutDown`, `Crash`, `Interrupt` | `shutdown_fifo`, a kill, and SIGINT before or within `poll` |
| `Call`, `OpenInput`, `GiveUp`, `Write`, `Close`, `OpenOutputNow`, `Read`, `Leave` | a client of example_client.cpp, which may be killed |

`Programs` are the sets of batteries a program may make before it boots the server:
which files a crash leaves and which ones the next start wants need not be the
same, so a start can succeed beside files that are left over. `Creations` are the
admin's messages. One makes a battery, or a splitter with its children;
`battery_post_creation` makes FIFOs for the battery or for the children, and the
splitter itself gets none (V2/ProtobufMsg.cpp:178). A name that is taken, or a
refusal of the manager (`Registry` has its reasons), makes nothing. `splitters`
remembers which names are such splitters.

Opening one end of a FIFO waits for the other, except where the code opens
without blocking; what nobody has open loses its contents; a write without a
reader is a SIGPIPE.

### TcpService

A node is a process that serves one connection at a time (`Accept`, `Deliver`,
`Handle...`, `Respond`, `Closed`) and, when the battery asked for is a remote one,
calls the next node (`Connect`, `SendMessage`, `ReadAnswer`, `CallFails`) while its
own caller waits. A status is its timestamp. Nodes are killed, told to quit and
started again; programs may hang in the middle of a call. Clocks of nodes are
one clock. `TcpAssumption` rules out cycles of links, which no code checks and in
which nodes wait for each other for ever.

### Sharing

`request`, `todo` and `asked` follow one command down; `Change`, `CheckAndRefresh`
and `RefreshManager` may come between any two of its steps. Fractions are exact.

## 3. Runs

| Run | Question | Result, size |
|---|---|---|
| `battery_own` | An owner keeps replacing its requests: is the schedule the last wish, and does every request end? | holds, 204 thousand states |
| `battery_any` | Any callers, two names, modes switched: do set and map stay in step, does the refresh chain survive? | holds, 1.7 million |
| `directory_tree` | Do the three copies of the topology agree through creation and removal? | holds, 64 thousand up to symmetry |
| `server_orderly` | Orderly clients: is everybody answered and does the server stop when told? | holds, 14 thousand |
| `server_any` | Any clients, any moment: while up, is the server consistent? | holds, 1.2 million |
| `charging_any` | Every interleaving with the charging thread: stop, bounds, account | holds, 551 thousand |
| `splitter_any` | Two children and a third party: plans, total, account, rest | holds, 790 thousand |
| `tower` | Three policies, statuses that age and change on the way: what do children get, and what do devices? | holds, 407 thousand |
| `registry` | Any five messages: what do the maps look like, and which message ends the server? | holds, 73 thousand up to symmetry |
| `fifo` | Clients and servers that die: whose answer comes back, what stays behind, when does a call return? | holds, 804 thousand |
| `tcp` | A chain of servers with a failure: how old is a status, is a result true, does a call return? | holds, 134 thousand |
| `sharing` | Does an aggregate's source operate on the sum of the commands? | violated |

What the properties say. Where a run has more questions of one kind than names,
a property is the conjunction of the parts given in brackets, each a definition
of its own.

* **Battery.** `PlanIsLastWish`: at every moment to come the events queued for a
  name add up to the current last asked for. `CountedOnce`: a request counts
  from its BEGIN to its END, once. `DeviceFollows` (`Ledger`, `DeviceWithinLimits`,
  `NeverDies`): the running sum is the sum of what is in force, the device is
  within its limits also between two events of one pass, and the thread lives.
  `KeepsPromise`: all of this together refines `CurrentSchedule`, where a
  battery may lag behind the clock but never goes back and never shows a
  current nobody wanted. `SetMatchesMap`: every request in force has its END
  queued, whatever callers do. `RefreshKeepsComing`: an ACTIVE battery has a
  refresh queued no further ahead than a staleness. `EveryRequestEnds`: what
  was queued runs, and `quit` stops the thread.
* **Directory.** `TopologyAgrees` (`TypeOK`, `GraphsMirror`, `PointersMatchGraph`,
  `NeverExits`): the three copies agree and `ERROR()` is not reached.
  `FamiliesWhole` (`ExclusiveSource`, `ChildrenAlive`, `SiblingsTogether`): nothing is
  a source twice, nobody points to a battery that is gone, the partitions of one
  source come and go together. `RemovesAllBelow`: a removal takes exactly what is
  built on the battery.
* **Server.** `StaysUp`; `Listening` (`OneReaderPerFifo`, `BatteriesReachable`): every
  battery that was asked for and is in the directory has one reader of its FIFO;
  the managers, which nobody asks for, have none. `AnswersOwed`: each
  command in the system is read once and answered once. `EveryCommandAnswered`,
  `ShutdownStops`: liveness.
* **Charging.** `ThreadHeld`: no `std::thread` is overwritten or destroyed while
  joinable. `StopsSoon`: after `set_current(0)` at most two turns still see a
  current; two is reached. `CapacityKept` (`CapacityInBounds`, `CapacityAccounted`,
  `CountsFromZero`): what holds of the capacity as long as the named races have
  not happened. `JoinsReturn`: `set_current(0)` and the destructor come back.
* **Splitter.** `PlanIsLastWish`: each child's queued events come to what it asked
  for last. `SourceServes` (`SourceCarriesChildren`, `DeviceNeverRefuses`): with no
  `sins` the source's queue comes to the sum over the children, and limits checked
  child by child bound the total when it is applied. `BooksInOrder`
  (`EstimateIsUse`): a splitter whose thread is never late counts exactly what the
  requests come to. `ComesToRest`: even after `sins`, in the end everything is at zero.
* **Tower.** `WithinBounds`: the backward loops end inside the vector as long as
  the children can take what the source has. `FairlyShared` (`Conserved`,
  `Seniority`): a refresh gives the children all of the source and nothing twice,
  and what is missing is missing at the junior end. `SharesFit`: a current accepted
  by statuses that have not changed since is one every device can carry, and
  rounding costs less than 1 mA per device. `RefusedForAReason`: what the splitter
  accepts the aggregator refuses only for one of three reasons.
* **Registry.** `MapsAgree`: the directory's maps speak of the same batteries and
  edges. `WellFounded` (`Acyclic`, `SplittersWhole`): calls through the topology
  end, for among any batteries there is one that has no parent among them.
  `LibraryKept`, `MessagesSurvived`: the server survives every message unless one
  of the unchecked requests came before it.
* **FifoService.** `AnswerIsOwn`: a client alone on its FIFO gets the answer to its
  own request. `EndsMeet` (`SomeoneListens`): the server waits for a reader only if
  one is on its way. `FilesInOrder` (`ShutdownCleans`, `Reachable`): between rounds
  every battery can be reached except the splitters that a message has made, none of
  which can, and except those whose files were left over by a server that died; a
  shutdown leaves no file of its own. `StartsAgain`: a
  start fails only after a server has died, and the second not for the same
  reason. `CallsReturn`: every client is idle again and
  again, under the conditions its definition lists, all of which are needed.
* **TcpService.** `FreshEnough`: what comes out of a chain is no older than the
  laziest node allows; ages do not add up, for the timestamp travels along.
  `AnswersTrue` (`Truthful`): a schedule call that returns 1 reached the device in
  time, and one that returns 0 did not unless a node failed on the way back.
  `CallsReturn`: unless somebody hangs, whatever fails.

### Bounds

* `battery_own`: all windows over five moments, each with a current of its own
  so that mistakes do not cancel, limits that refuse some, three calls, six
  ticks. Three requests are enough for cut, offset, swallowed and cancelled
  requests to meet pairwise with a third; four calls add states and no new case
  of the merge, which compares two requests at a time.
* `battery_any`: two names, windows that may lie in the past, three calls of any
  kind, both modes, two stalenesses, four ticks.
* `directory_tree`: four user names, two managers, two parents or parts, seven
  batteries made, so that names and identities are used again after removal.
* `server_*`: an admin and two batteries, or two admins and one client; four or
  eight commands. A round then holds several handlers that disturb each other.
  Managers have as many names as there can be partitionings.
* `charging_any`: a battery of five units with currents -3, -1, 0, 2, full or empty
  in two or three turns, four calls.
* `splitter_any`: two children, windows over five moments that nest, overlap, touch
  and are empty, a request above the limit, three calls, a refresh every second
  moment. Two requests are enough to disturb the total and a third to repair or
  repeat it.
* `tower`: two devices that each may change once, children with the scales of
  main.cpp (0.6 and 0.4, so that every division leaves a remainder), a target in
  each direction, two calls, an hour in which the aggregator's status goes stale.
  With one refresher and one caller every step of one falls between any two of
  the other.
* `registry`: five names alike, up to two sources, five messages: a device, two
  levels above it, a duplicate or a mistake, and the message that meets it.
* `fifo`: three clients, two of whom share a battery and one of whom may be
  killed, three calls, one crash; a program with one battery and a program with none,
  and messages that make a battery of their own and a splitter with that battery as
  its child. Three starts are what it takes for a battery without a descriptor: one
  server dies, one start refuses its admin FIFO and removes it, and the third goes
  up beside the files of the battery a message then makes.
* `tcp`: two nodes in a chain, a program at each, one of which may hang or name a
  battery that does not exist, stalenesses 1 and 2, three ticks, one failure.
* `sharing`: two devices, each a quarter or three quarters full, two children by halves.

The clock and the call counters are bounded (`MaxTime`, `MaxCalls`, `MaxSends`,
`MaxMade`, `MaxStarts`, `MaxMessages`, `MaxHours`, `MaxChanges`, `MaxClock`,
`MaxCrashes`, `MaxFaults`); runs in which behaviours end at a bound turn deadlock
checking off. `battery_own`, `tower` and `registry` check it.

### Fairness

* `Battery`: weak fairness of the clock, of the construction, of the insertion
  after a check (the server thread goes on) and of the event thread. The thread
  takes the lock when it is free and callers hold it for a bounded time, which
  is what a mutex and the kernel's scheduler give in practice. No fairness of
  `ThreadWakes`: a spurious wake-up is never relied on.
* `Server`: weak fairness of the server thread, and of a client that is waiting
  and has an answer. None of connecting, calling or leaving.
* `Charging`: weak fairness of the thread and of a call that has begun.
* `Splitter`: weak fairness of the clock, of a call that has begun and of the two
  threads when something is due, for the reasons given for `Battery`.
* `FifoService`: weak fairness of the server's thread and of a client in a call; the
  kernel runs both. None of calling, leaving, starting or dying.
* `TcpService`: weak fairness of the nodes and of programs not in `MayHang`. None
  of the clock, of failures or of restarts.

## 4. Proofs

Every theorem is for all values of its module's constants that satisfy the
module's assumption (types; requests that do not end before they start; links
without a cycle; finite sets where something is counted or listed), with the
bounds of the runs as arbitrary natural numbers. Further hypotheses are given.

| Theorem | States | Under |
|---|---|---|
| `Battery_proofs!TypeCorrect` | `TypeOK /\ Structure` | |
| `SetAndMapAgree` | `SetMatchesMap` | |
| `RefreshNeverStops` | `RefreshKeepsComing` | |
| `EachCountedOnce` | `CountedOnce` | callers `ahead` and `settled` |
| `ThreadSurvives` | `NeverDies`, a part of `DeviceFollows` | the same, and the mode stays ACTIVE |
| `PlanKeepsLastWish` | `PlanIsLastWish` | callers `ahead`, `touching` and `settled` |
| `PromiseKept` | `KeepsPromise`: `Battery` implements `CurrentSchedule` | the same |
| `DeviceStaysWithinLimits` | `DeviceFollows` | the same, one name, the mode stays ACTIVE, limits that do not change once known |
| `Charging_proofs!HandleKept` | `ThreadHeld` | |
| `StopsWithinTwoTurns` | `StopsSoon` | |
| `CapacityRight` | `CapacityKept` | |
| `Server_proofs!EveryBatteryHeard` | `Listening` | `fresh` |
| `EveryCallAnsweredOnce` | `AnswersOwed` | |
| `ServerStaysUp` | `StaysUp` | the four disciplines, no secure battery and none called `admin` |
| `Splitter_proofs!LastWishKept` | `PlanIsLastWish` | `Delays`: `get_delay` is not negative |
| `BooksBalance` | `BooksInOrder` | `Delays` |
| `SourceCarries` | `SourceServes` | `AtOnce`: `get_delay` is zero; `SharesFit`: the device takes every sum of what children may be granted |
| `Registry_proofs!LibraryStays` | `LibraryKept` | |
| `MapsStayAlike` | `MapsAgree` | |
| `TopologyWellFounded` | `WellFounded` | |
| `ServerSurvives` | `MessagesSurvived` (an action property) | |
| `FifoService_proofs!ReadersCome` | `EndsMeet` | |
| `AnswersAreOwn` | `AnswerIsOwn` | |
| `FilesAreKept` | `FilesInOrder`, for all programs and creations | |
| `StartsFailOnce` | `StartsAgain` (an action property) | |
| `TcpService_proofs!AnswersAreTrue` | `AnswersTrue` | |
| `ChainsStayFresh` | `FreshEnough` | |

The hypotheses are those without which the code misbehaves, as section 6 lists.
The runs `battery_own`, `server_orderly` and `splitter_any` are instances of them. Every
inductive invariant was checked by TLC on the runs of its module before it was proved.

### Battery

`SetMatchesMap` is not inductive. It speaks of the END events and the map, but
the merge also moves BEGINs and the thread erases whole pairs by number; one
needs to know which entry an event belongs to. `Structure` says so event by
event: an entry of the map under number k holds a BEGIN and an END of number k,
its END is queued, a queued BEGIN or END *is* the event of its entry, and
numbers in use are below `nextSeq`, so a new request never meets its own number.
The last part is what lets a second share of a request be told from a new one.

The argument, one lemma per action:

* calls that do not touch the schedule (`QuietStructure`, `IdleStep`,
  `SettingStep`, `RefreshModeStep`) and the checks before the lock
  (`ScheduleStep`, `ShareStep`) change counters and control only;
* the critical section (`InsertStep`) rests on `MergeOK`, which takes the four
  cases of the merge one by one (`MergeCases`): each rewrites one entry and its
  events together. `AddShareOK` is the case of a second share;
* a pass of the thread (`ApplyStep`, `EventsStep`, `CancelStep`) removes an END
  only with its entry (`ApplyOK`, `GoneOK`), and a BEGIN only before its END
  (`BatchEarlier`), because a request starts no later than it ends.

`ScheduleOK` is `Structure` as a predicate of a set and a map, so that the merge
and the pass can be composed from intermediate schedules that are no state.

`CountedOnce` needs to know more of time, which is `Counting`: a request that has
begun did so in the past, a CANCEL stands for one request that has not begun and
comes no later than its BEGIN, and the request being inserted is still ahead.
Without `ahead` the last part fails, without `settled` the one before.
`ThreadSurvives` joins `Counting` and `RefreshKeepsComing`: there is an entry for
every CANCEL, and with a refresh queued ahead the iterator never reaches `end()`.

`PlanIsLastWish` is not inductive either: when the thread is late, events that are due
still count for the moments between them, and the plan has to be known there too.
`OnSchedule` therefore says that the plan is the wish from `UpTo` on, the moment the
battery has got to, that what has begun did so by `UpTo`, and that `Ledger` holds;
it also ties the call under way to the requests it was found to touch, since the
merge relies on `touching` at a later moment, under the lock. The sums are handled by
number rather than by event: `PairSums` turns `SumCur` over the events of some requests
into `SumOver` of the map's currents over their numbers, where the laws of `Sums` apply.
The steps:

* a pass of the thread (`PassSchedule`) moves `UpTo` on. The requests that began or
  ended in the pass are those whose BEGIN or END lies between the old and the new
  `UpTo`, so the running sum is the plan at the new one;
* the merge (`MergeTimes`, `MergePlan`, `MergeSchedule`) cuts, offsets or cancels each
  request of the name. At a moment inside the new window the requests that stay and
  are in force come to the difference that was taken off the new one, so that the sum is the
  new current; outside it nothing changes. A second share (`AddShareSchedule`) adds
  to the one pair in its window.

`PromiseKept` is the refinement step by step: `DeviceInStep` groups `Ledger` by name
(`SumGroups`), which makes the device's current the sum over the names of what was
wanted at `UpTo`. An insertion is then a `Request` (`InsertRefines`), every other step an
`Advance`, for `NextSchedule` also says that `UpTo` never goes back. For
`DeviceStaysWithinLimits`, `Bounded` says that whatever is wanted passed the check
against the limits; with one name the device is at one of the currents wanted.

### Charging

`Shape` ties the caller's place to the fields. `StopsSoon` follows from `Stopping`:
after one turn the current has been cut to the limits, after two it is the request,
which is zero. `CapacityKept` is three invariants, each with the races it depends on
in its hypothesis: `Bounded` (between counting and testing the count is out of
bounds on one side at most), `Accounted` (where the charge is while the thread is in
its loop) and `Fresh`, all on top of `Apart`: whoever holds the lock during a turn
waits for the thread.

### Server

`Wired` (`Plain`, `Queued`, `Polled`, `Files`) describes the plumbing whatever clients
do: an acceptor and a connection are polled once each, every FIFO made is polled, and
what is under way on a channel is from clients of that channel that have been let in.
`Owed` is `AnswersOwed` without counting. `Free` adds that names asked for are free,
that names of managers still to come are too, and that what was asked for has its FIFO;
with `Wired` it gives `Listening`. For `StaysUp`, `Attended` (whoever has a command or
a connection is there), `StillReady` (what poll found ready is so when its turn comes,
though handlers of the same round ran in between), `ShutDownLast` and `Complete` (the
directory has every battery that can be asked for) are needed together: each rules
out one way to die that the others' steps could lead to.

### Splitter

`Books` has the two properties proved from it and three parts that make them inductive:
`Numbered` (events are numbered in the order they were queued, so that one of two
at the same moment is the last), `Counted`, and `LastOnes` (up to any moment there is
a last event, so that a preview means something). `SourceServes` needs `Carried`: once
the request under way has arrived, the source's queue comes to the sum over the
children at every moment to come. Its step is about sums: `Total` over the children
changes by the difference of one summand (`TotalIn` and the lemmas before it), with
the laws of `Sums`.

### Sums

`SumOver` is the fold of the community modules, defined by a recursion that takes
elements out in an order of CHOOSE's choosing. The library's induction theorems take an
operator, which the provers cannot instantiate; here the claim is a *set* instead:
`CountUp` (a set with 0 and with every successor has all numbers) and `SetInduction`
(the same for the subsets of a finite set), both from the least number at which a
claim fails (`Least`). From them follow that the recursion defines a function
(`FoldExists`, `FoldUnique`), that the order does not matter (`SumTakesOut`), and the
laws: one summand more, equal summands, disjoint union, zero, image, and grouping.

### Registry

`LibrariesHeld`: what a battery's library is and that it is among those loaded.

`RegistryInv` has the two properties proved from it together with `Filed` (the maps as
functions on the batteries there are, and `policy` of exactly the splitted ones) and
`SourcesSound` (nothing is computed from a splitter unless a message asked for it).

* The loop of `add_edge` calls is a recursive function of the edges entered so far.
  `LoopIs` and `LoopExists` show that it is what it is defined to be, and `LoopKeeps`,
  with `CountUp`, that what holds before it and is kept by one edge holds after it;
  the one edge is `EdgeEntered` and `EdgeMirrored`, where `Times` grows by one at the same
  pair in both maps.
* The topology grows at its end (`TopologyGrows`): what a message adds has parents among
  what was there, and gives parents to nothing that was. So a set of batteries that
  has no member whose parents are outside would already have had none. A splitter
  with its children, which are new in one message, is two such steps.
* `Closure` is the least closed set, so a call stays in any set that one call stays
  in. The batteries that are no splitters are such a set when `SourcesSound` holds
  (`CallsAvoidSplitters`), and a message about one of them cannot meet `ERROR()`.

### FifoService, TcpService

`Inv` of `FifoService` says where everything is: who has which end of a FIFO open
(`Ends`), that a round has each FIFO once and non-empty (`Rounds`), whose files
there are and that a splitter made by a message has none (`Files`), that a request
read has its client waiting (`Heard`), and, while nothing in `sins` has happened,
for each client the place its request or answer is in (`Placed`; `Waits` is the one
place where a client may be ahead of the server, at a FIFO that is being opened
again). `LastWord` is for the shutdown, whose answer is written while the server is
on its way out.

`Inv` of `TcpService` follows a schedule call through a chain of nodes: the two ends of
a connection agree how far they are (`Wired`), a number is in one place from which it
may still go on to the device at most (`Single`), a 1 on its way back is of a call that
was scheduled (`Backed`), and without failures an answer means that the call is in no
such place any more (`Faultless`).

`FreshEnough` speaks of a whole path, and its invariant has to say which nodes are
at work on one client's call at the moment. `Behind(c)` is that set: the node that
serves c, the node that serves that one, and so on; like `Path` it is the least
closed set, so that no induction along the chain is needed. `BehindOnPath`: it lies on the
path. `Fresher`: every answer held by a node behind c is fresh for c. A status taken from
the cache is fresh by that node's own staleness, which the path counts (`NotStaleFresh`);
one taken from the device is from after the call began (`NowFresh`); all others are passed
on. The steps that need care are those at which the set changes (`FreshAccept` and
`FreshClosed`): what joins or leaves is at the end of the chain, since a
node that serves nobody is asked by nobody behind c (`NextBehindServes`).

### Only model-checked

* Everything under fairness (`EveryRequestEnds`, `EveryCommandAnswered`,
  `ShutdownStops`, `JoinsReturn`, `ComesToRest`, the two `CallsReturn`): out of the
  prover's reach.
* `Directory` (`TopologyAgrees`, `FamiliesWhole`, `RemovesAllBelow`): removal is written as
  the code's recursion, a recursive operator with a fold over the children inside,
  with which the prover loses its arithmetic. What is proved of its counterpart
  in version 2 is the `Registry` part above, where nothing is removed.
* `Tower` and `Policies` (`WithinBounds`, `FairlyShared`, `SharesFit`, `RefusedForAReason`):
  folds over the sequence of children in which one step depends on the one before,
  with products and divisions of variables, which the arithmetic of the provers
  does not decide.
* `DeviceFollows` for a battery whose limits change: a request is checked
  against the limits of its time, so the property does not hold when they shrink.

## 5. Mutants

Every property of a passing run has a mutant in PROJECT.json: an operator that
changes a definition the way a slip in the code would (a notification
forgotten, the pair of a cancelled request left in the set, an edge entered in
one graph only, a response written twice) and makes the property fail.

## 6. Where the code and its documentation part

One run is expected to be violated; PROJECT.json quotes the documentation.

* `sharing` (V3/src/AggregateBattery.cpp:140): a charging command is negative and
  so is its c-rate, and the share of a parent negates the product: every parent
  of an aggregate is told to discharge, where V3/README.md:57 says that the source
  operates on the sum of the commands. In the trace two devices hold 1 of 4 each; a
  command of -1 becomes a c-rate of -1/2 and two shares of +3/2.

Others were met on the way. They are why the passing runs state assumptions or
conditions, and the model shows them when one is dropped:

| Without | What the code does |
|---|---|
| `touching` | the merge never asks whether two requests overlap: a later one moves the END of an earlier one out to its own start, so that the earlier current stays on through the gap (BatteryInterface.cpp:188) |
| `settled` | a request waiting to be cancelled takes part in the merge (BatteryInterface.cpp:172), and one covered twice is cancelled twice, where `eventMap.at` throws (127) |
| `ahead` | the start is compared with a clock read before the lock (40); a merge may re-insert a BEGIN that has run, and `current_mA` stays wrong |
| `Mode = "ACTIVE"` | with every event due, the loop reads through `end()` (126) |
| `Kind = "partition"` | a physical battery starts no event thread, so the events forwarded to it are queued for ever (BatteryInterface.cpp:58); an aggregate's first refresh may be inserted after its thread has gone to wait, with nobody to notify it (AggregateBattery.cpp:21) |
| | ACTIVE-LAZY-ACTIVE within a staleness leaves two refresh chains (286) |
| `distinct parents` | a parent listed twice makes removal fail half-way (BatteryDirectory.cpp:88) |
| `new names` | partitioning under a taken name leaves a manager with expired children (BatteryDirectoryManager.cpp:178) |
| `no manager names` | a battery called `pManager1` makes the next partitioning exit (171) |
| `stay` | a read of zero bytes is retried for ever, so that a client that closes its connection stops the only server thread (util.cpp:12) |
| `last` | a command read after Shutdown in the same round dereferences null (BOS.cpp:103) |
| `alone` | a second admin replaces the first, who waits for ever (BOS.cpp:43); two clients of one FIFO take each other's answers (Fifo.cpp:100) |
| asked for, in `Listening` | a manager is in the directory without a FIFO, so a command for it has nowhere to go (BOS.cpp:386) |
| `fresh` | a battery called `admin` collides with the admin's FIFO (Fifo.cpp:16) |
| `MaxStarts = 1` | the FIFOs are not deleted at shutdown, so the next start fails (BOS.cpp:578) |
| `sins` in `Charging` | a status read restores a current the thread has just cleared (BatteryInterface.cpp:35); a capacity set meanwhile is lost (PartitionBattery.cpp:61); a change of sign between counting and testing passes a bound (49); a current above the limit is cut and restored in turn (39); at a full or empty battery the thread ends but `runningThread` stays true, so a current set on another is reported and never counted (86) |
| `sins` in `Splitter` | the total is taken at the start of a window and the source forgets what it had queued within it, so that the current of a child whose window ends in between stays on at the source (V2/BALSplitter.hpp:352); V2/main.cpp:607-608 schedules just that |
| conditions of `WithinBounds` | a backward loop over `size_t` runs below the vector when no child can absorb the remainder (V2/BALSplitter.cpp:254, 322, 386) |
| conditions of `SharesFit` | shares are computed from statuses read after the check, so that a device may be asked for more than it can carry (V2/AggregatorBattery.cpp:160); the result is 1 all the same |
| `sins` in `Registry` | an aggregator on an unknown name, on itself or on a splitter is accepted, and a later message exits or locks the server (V2/BOS.cpp:177); a library is closed under its batteries (329) |
| conditions of `CallsReturn` in `FifoService` | a request written between the answer and the close of the FIFO is lost (V2/BOS.cpp:752); SIGINT between the test and `poll` waits for the next request (621); a killed client leaves the server in `open` (737) |
| conditions of `FilesInOrder` | a failed `mkfifo` for a battery created at run time is only logged (578): the battery is there and nobody can call it; a splitter made by a message gets no FIFOs at all (V2/ProtobufMsg.cpp:178) |

Met while reading, and not what a property is about:
`ClientBattery::schedule_set_current` returns true whatever the server answered
(ClientBattery.cpp:121); `Admin::createDynamicBattery` sends nothing
(Admin.cpp); an aggregate without charge drops charging commands. In V2 an
aggregator's first status is made up (BOS.cpp:152); `remove_battery` is not
implemented; the result of a plug-in's init function is leaked when the name is
taken; a `MsgTag` of 0 is an empty proto3 message and never arrives; the TCP server
closes its socket twice.

## 7. What is left

1. `Directory`: removal as the set of what is built on a battery, shown by TLC to be
   what the recursion does, and `GraphsMirror` and `PointersMatchGraph` proved for it.
2. `Conserved` and `Seniority` of `Tower`, with the loops of `Policies` as recursive
   functions and the lemmas about loops of `Registry_proofs`.
3. V3 secure aggregation, should its client come to speak TLS (section 8).

## 8. Not modelled

* Device drivers, serial lines, IEC 61850 and what plug-ins do: outside the program.
* Conversion between structures and protobuf messages: copies without state.
* OpenSSL, the kernel's FIFOs and sockets: modelled from how the code uses them.
* Voltage, which is only warned about; rounding of doubles.
* The race on the global `SEQUENCE_NUMBER` (BatteryInterface.cpp:3-6), which event
  threads draw from as well, for refreshes. In the model a battery's requests
  have numbers of their own; two equal ones are left out. The truncation of a
  request to whole mA when it becomes an event (58) is left out as well.
* V3 secure aggregation beyond the creation of a secure battery. Its client opens a
  plain socket to the port where the server starts a TLS handshake
  (SecureClientBattery.cpp:30, BOS.cpp:539); the handshake fails and ends the
  server, so that no `Set_Schedule` arrives. The arithmetic is in a library that is
  not in the repository as source. Past that point, the aggregator's handler takes
  the round message from the client's connection instead of the battery's
  (Aggregator.cpp:55: its parameter shadows the member).
* A second start of the V3 server in network mode: the kernel's port state decides it.
* V2: the switch between LAZY and ACTIVE, windows that end before they start,
  delays that differ between the two ends of a window, `NetworkBattery`.
* V3 `FifoBattery`, `PseudoBattery`, V1, transformer protection (numerical
  optimisation without protocol or shared state), the status script.
