# telemetryd: TLA+ models and proofs

telemetryd is a daemon that shows what the NVMe devices of a Linux host are
doing. It reads kernel structures through drgn, reads the log an eBPF collector
(`ebpf/nvme_perf.bt`) appends to, and serves both over gRPC to a web gateway, a
browser page and a command line. These modules model the daemon from the
probes to the HTTP status, check them with TLC on small
instances and prove the main invariants with TLAPS for all instances.

All paths below are relative to `src/telemetryd/` unless they start with
`ebpf/`, `tests/` or `docs/`.

## 1. Inventory

| component | state it keeps | operations | talks to |
|---|---|---|---|
| target registry (`backend/targets.py`) | rules, sessions, identity index, state file | `add_rule`, `remove_rule`, `clear_rules`, `refresh`, `_load`, `_save` | called by the profiler service from two threads |
| state file (`backend/targets.py`) | `<path>`, `<path>.tmp` | `_save` = compute, open, write, rename; `_load` | shared by daemon threads and CLI processes |
| adaptive TTL cache (`platform/cache.py`) | one entry per key: time, value, lifetime | `get_or_compute` | wraps slow kernel queries on the worker |
| profiler service (`services/profiler/service.py`, `backend/procinfo.py`) | registry created on first use | `get_profile`, `list_processes`, target calls | joins tick statistics, cached process list, registry |
| log cursor (`platform/ebpf/logfile.py`) | byte offset | `read_new_lines`, `read_all`, `read_tail` | the collector appends to the file it reads |
| event service (`services/events/`, `backend/ebpf_*_events.py`) | a cursor and a ring of events per reader | `get_events`, `poll` | log cursor |
| gRPC server (`grpcserver/server.py`) | executor with one worker, RPC coroutines | unary and streaming RPCs | backend, through the executor or directly |
| web gateway (`web/app.py`) | per WebSocket: handler, `next_task`, `disconnect_task` | REST routes, `_stream_ws` | browser, gRPC client |
| collector (`ebpf/nvme_perf.bt`) | in-flight maps keyed by tag, histograms, error counters | probes, `interval:s:1` | writes the log |
| performance service, process statistics (`backend/ebpf_perf.py`, `backend/proc_stats.py`) | none (last complete tick) | tick parsing, bucket merge, percentiles | log source |
| queue service (`services/queues/`) | none | listings, snapshot, PRP payload, device listing | drgn, on a running kernel |
| topology (`backend/topology.py`), tree walk (`treewalk.py`) | none | build the device tree, open a row of the pointer tree | drgn |
| workload adapters (`backend/adapters/`) | none | parse a command line, share out threads, compare with measurements | registry snapshot |
| drgn session (`platform/kernel/drgn_session.py`) | one `Program`, connected on first use | `program`, `cached` | every query of the kernel |
| models and conversion (`models.py`, `grpcserver/convert.py`) | none | message to protobuf, protobuf to JSON | server, gateway, command line |
| browser page (`web/static/index.html`) | open WebSockets, selected tab and device | tab and device changes | web gateway |
| command line, composition, mock backends, FFI | none | forwarding, formatting | all of the above |

What is hard in this code:

* **Two threads on one registry.** `AddTarget` and `RemoveTarget` run on the
  event loop, `refresh()` runs on the worker. There is no lock.
* **PID reuse.** Statistics carry only a pid; processes come and go between the
  tick, the walk and the join.
* **Restart and kill.** The daemon may be killed between any two steps of a save.
* **A slow query on one worker.** The process walk takes seconds; streams that
  are left behind must not queue work in front of everybody else.
* **Cancellation.** A browser leaves while `next_task` is inside the generator,
  while the RPC waits, or while its work item already runs.
* **A log that changes under the reader.** Half lines, truncation, removal,
  and a collector that dies in the middle of a line.
* **A kernel that changes under the reader.** drgn takes no lock: ring slots are
  overwritten and tags reused between any two field reads of one dump.
* **Probes on every CPU.** The interval handler prints and clears map after map
  while completions go on counting, and every `+=` of a probe is a read and a
  store that another CPU, or the clear, may come between.
* **One drgn session.** It is not safe for two threads and is connected lazily.
* **A daemon behind a gateway.** It may die or be restarted, and the connection
  may break, with requests at every stage.

`PROJECT.json` lists the hazards line by line with the property that covers
each one, or the reason why none does yet.

## 2. Modules

| module | models | proofs |
|---|---|---|
| `TargetRegistry`, `MCTargetRegistry` | rules and sessions | `TargetRegistryProofs` |
| `TargetStore`, `MCTargetStore` | `_save`/`_load` as file-system steps | `TargetStoreProofs` |
| `StateRegister` | abstract: what the state file promises | |
| `AdaptiveTtlCache` | `get_or_compute` for one key | `ProfilerServiceProofs` |
| `ProfilerService`, `MCProfilerService` | the join of three views of different age; extends the cache | `ProfilerServiceProofs` |
| `EventService` | two cursors, two rings, `get_events` | `EventServiceProofs` |
| `StreamServer`, `MCStreamServer` | WebSocket handler, RPC, executor | `StreamServerProofs` |
| `Requests` | every REST route and unary handler to the backend and back | `FrontEndProofs` |
| `Collector`, `MCCollector` | the probes and the interval handler, composed with | `CollectorProofs` |
| `TickReader` | the readers of ticks and error statistics | `CollectorProofs` |
| `QueueRing` | one queue of a running kernel and the reads of it | `QueueRingProofs` |
| `PrpDecode`, `TreeWalk`, `Topology`, `Workload`, `Convert` | the views computed from one look, as operators | `FrontEndProofs` |
| `Views`, `MCViews` | composes these five: one request per behaviour, a client that opens rows | `FrontEndProofs` |

Definitions marked "Mutant:" change the following definition the way a
plausible bug would. They are not part of the specifications; they show that
each property depends on the code it is about.

### TargetRegistry

| code | model |
|---|---|
| `self.rules` (unique by kind and value) | `rules`, a set |
| `self.sessions` (dict, insertion order) | `sessions`, a sequence |
| `self._by_identity` | `byIdentity` |
| the JSON file | `file` |
| `time.time_ns()` | `clock`, one tick per `refresh()`; `TicksPerSecond` of them share a second in a session id |
| locals of `refresh()` | `plist`, `todo`, `activeIds`, `pc` |
| the returned `ProfileSnapshot` | `snapshot` |

`refresh()` is `RefreshBegin` (take the time, resolve the rules), one
`RefreshNew` or `RefreshKnown` per matched process in pid order, one
`RefreshSweep` per vanished session, in the order of the dict and each visited
once (`swept`), and `RefreshReport`. Every save the loop
makes is inside the action of that iteration and may fail silently, as the code
swallows `OSError`. `add_rule`, `remove_rule` and `clear_rules` may fall between
any two of these steps, `Restart` anywhere. Regular expressions are relations
(`NameRegex`, `CmdlineRegex`), programs stand for comm, path and command line.
Here a save is one step; `TargetStore` justifies that for one saving thread.

### TargetStore and StateRegister

Threads of the daemon share a registry object that the first of them creates
(`Construct`, `Assign`: the test and the assignment are apart); a CLI process
has its own. A save is `ComputePayload`, `OpenTmp` (truncates the one temporary
file or creates it), `Write`, `Replace`. Inodes are explicit, so that two
threads may hold the same temporary file open while one of them renames it.
`Crash` kills a process between any two steps. `SaveFails` is an `OSError` at any
of them, a dump that has written a part of its text included: `_save` swallows it
and the operation is answered all the same. `acked` records what a user was
told, `unsaved` the rules of which that is not on disk because the save failed and
none has succeeded since. `SaveIsAtomic` is the refinement of `StateRegister` with the registry in
use as memory and the result of `Load` as disk.

### AdaptiveTtlCache

`entry` is the tuple of time, value and lifetime; `started`, `spent` and
`failed` account for the worker's time. A hit changes nothing. Factor and
lifetimes are naturals in clock units.

### ProfilerService

A process is its birth number, which stands for `start_boottime`; 0 is a start
time that could not be read. `tick` is the last complete tick of the collector.
A call reads the statistics (`Begin`), looks at the log again and at the cache
(`LookupHit`, `LookupMiss`), may walk the tasks one at a time (`ReadTask`) and
reports. `Readings` says what the walk may make of a process: nothing, when the
ids of its tasks cannot be read (`missed` records that it was met); an entry with
or without a start time; an entry that is bare, with neither cmdline nor exe,
which every kernel thread is (`KernelBirths`) and another process is when its
memory cannot be read. `Entries` gives the reason why a process cannot be selected:
it is gone, or it is bare and taken for a kernel thread. Processes start and exit between any two steps. The registry is
represented by the property `ObservationExactness` proves of it, with a rule
that matches every process. The cache is extended, not copied: `ServiceUsesCache`
proves that every behaviour of the service is a behaviour of the cache.

### EventService

A log line is a head and an end (with the newline); offsets count these units.
The log is appended to, cut to a rest or to nothing (`Trim`), removed and
recreated between `getsize`,
`open`+`read` and the merge. Parsing accepts exactly the lines that are there
from their first byte. An event gets the time at which it is parsed, any of
`Times`: the clock may stand still or be set back. Sorting is stated by its result:
`Ascending` and `ByTime` are the ascending listings of a finite set of positions and
of places in the rings, the latter stable as `list.sort` is; `AscendingOf` and
`ByTimeOf` prove that they exist. `trimmed` records that the log was cut to a rest:
the cursor reads such a rest again from its beginning and tells its events twice.

### StreamServer

Per stream: the browser's end (`ws`), the handler, its `next_task`, the
cancellation on its way to the server, the RPC coroutine and the items sent but
not read. The executor is a queue and the running work item; a cancelled RPC
withdraws a queued item but cannot stop a running one. `Direct` streams query on
the event loop (performance, events). `MaxInbox` is the flow-control window.

### Requests

`Handlers` says what each of the sixteen unary handlers needs of the backend:
the kernel, a device, a queue, a rule that can be parsed. A request is asked
(`Ask`, which also makes the gateway's channel), handled on the free event loop
(`Handle`), either queued for the worker or run on the loop, connects the drgn
session if nobody has (`Program`, `Connected`, `NotConnected`), is answered
(`Answer`, `Fault`) and translated to HTTP (`HttpStatus`, `Respond`).
`ThroughExecutor` lists the handlers that await `_run`. `Plug` lets
devices come and go at any time. `Crash` ends the daemon, and with it every request
it has, by a status code of gRPC's own; `Restart` starts it with a closed session
and an empty executor; `Disconnect` breaks the connection before the handler has
the request or after it has answered (what a cancellation does to a handler that
waits is in `StreamServer`). `ever`, `always` and `cutoff` are history: the devices
that were there at some time, or all the time, since the request was asked, and
whether the daemon or the connection failed since.

### Collector and TickReader

Maps hold the sets of commands they have counted instead of numbers, so that a
property can say which command is in which number; a printed number is the size
of a set. Maps that a probe updates together and in the same way are one: `sub` and
`op` are the `+=` counters of a submission and of a completion, `err` is
`@err_count`, `proc` and `hist` are what `count()` and `hist()` keep per CPU. A `+=` is
two steps: `Read` by `Setup`, `Complete` and `CountCompletion`, `Stored` by
`CountSetup`, `CountCompletion` and `CountError`; between the two another CPU may
count and the interval handler may clear. `Interval` carries out one print or clear
of `Script` at a time, probes run in between, and `Kill` may leave some keys of a
map printed and not the others. `Timeout` and
`PrintTimeout` read the submission cache in two steps, while `Delete` may empty
it. `TickReader` has no state: it is what `read_latest_performance`,
`read_process_stats` and `read_error_stats` compute from the log. `Rows` are what
`_SCALAR_RE` takes for queues, the pids of the `@proc_*` maps among them. A histogram
gives each sample its bucket; merging the histograms of several queues sets their
samples side by side (`Added`).

### QueueRing

A command is its number in submission order. A slot has a head (command id,
opcode, CDWs) and a dptr half, which the driver writes one after the other
(`StartCopy`, `EndCopy`); the device posts completions in any order (`Post`) and
the driver consumes them and frees the tags (`Consume`). These actions are the
environment. A listing reads the doorbell once (`BeginList`) and then half a
slot per step; a snapshot counts tag by tag and then reads the registers; a
payload scans from row 0, keeps a reference to the slot and reads pointers and
length later. `quiet` records whether anything moved since the read began. A command
id is the tag and, above it, how often the request was used, modulo `Gens`
(`CidOf`, the kernel's `nvme_cid`); the reader compares the id with `rq.tag`, as the
code does. A length is whose it is and whether it is an estimate: `(nlb + 1) * 512`
is right for blocks of 512 bytes only, and the model does not say how large it is. A
count of started requests may stop early at one that cannot be read (`CountTag`).

### The views

`Views` has one variable, the request being answered; its constants are the
inputs a view may meet (`MCViews` lists small ones). The five modules it extends
have no state.

`PrpDecode`: a transfer is offset, length, PRP1 and PRP2, with pages of
`PAGE_SIZE` bytes that may be unreadable; byte *b* of the buffer is shown as the
number *b*. `TreeWalk`: objects of a heap with kind, parts and readability, with
void, functions and incomplete structs behind pointers; the heap is that of one
moment. `Expand` follows a path of names from the root and ends in an answer, in an
answer that tells an error, or in the `TypeError` nobody catches; the rows are a set,
since a row is opened by its name. `Topology`: disks, the bus of each controller, the
bus above each bus, each controller's own list of namespaces; lookups that raise
(`lost`), buses that cannot be read on the way up (`blind`) and addresses that cannot
be read at all (`broken`, which end the call). The tree is the set of its edges, each with the controller in
whose turn it was appended, so a node that is appended for two controllers is
there twice; order among siblings is left out. The mock's tree is stated
separately and compared on inventories, the machines its table can describe.
`Workload`: a fio definition is a
sequence of option tokens, which `Parse` reads one at a time as the loop does;
`OptionsAreOwn` states by positions the rule that the parser's docstring gives (which
is not fio's for `--name=global` on a command line, see section 5). `SpecFromOpts`
reads `readwrite` where there is no `rw`. A process has threads, I/O per
thread, I/O in all, which is counted in another map and need not be the sum, and the
threads each job name fits. `Convert`: each message as a record of
the fields whose conversion can lose something and one of those copied as they
are; what addresses, counts, instants and texts there are is left to constants.
Protobuf has no None, JavaScript numbers beyond 2^53 are not exact (`EXACT` stands
for that limit), 64-bit integers arrive as strings and addresses in hexadecimal.
Of an expectation, a size or depth of 0 and none at all are one message: the two are
one value in what is compared (`OrZero`).

## 3. Runs

| run | asks | result |
|---|---|---|
| `registry` | rules, sessions, restarts, failing saves, reuse of pids | holds |
| `store` | one saving thread, errors and kills between any two steps | holds |
| `store_threads` | event loop and worker both save | rule can be lost |
| `profiler` | the join by pid, visibility, worker share | holds |
| `profiler_reuse` | is I/O never charged to another process? | it can be |
| `events` | ring contents, duplicates, recovery after rotation | holds |
| `streams` | stale work, safe closing, termination, service | holds |
| `requests` | one thread in the drgn session, true statuses, through deaths of the daemon | holds |
| `collector` | commands counted once by `count()` and `hist()`, sound reports, events of their own command | holds |
| `queues` | what a dump of a live ring may show | holds |
| `queue_prp` | are pointers and length of a payload those of one command? | not for the admin queue |
| `views` | the pure views against reference definitions | holds |

Beside these runs there is a configuration for each further statement of a comment,
docstring or document that the code does not keep. TLC ends each of them (`tlc -config
StoreCli.cfg MCTargetStore`) with a counterexample to the property it names; they are
kept to be run again when the code is changed.

| configuration | module | property | asks | result |
|---|---|---|---|---|
| `StoreCli.cfg` | `MCTargetStore` | `AckedSurvives` | daemon and a command of the CLI both save | rule can be lost |
| `ProfilerBare.cfg` | `MCProfilerService` | `KernelThreadsOnly` | are only kernel threads refused as such? | no |
| `CollectorTicks.cfg` | `MCCollector` | `OpsOfOneTick` | are `+=` counters of one tick only? | a clear can be undone |
| `CollectorRows.cfg` | `MCCollector` | `RowsAreQueues` | are the rows of the report queues? | pids are rows too |
| `CollectorErrors.cfg` | `MCCollector` | `ErrorsExact` | are error totals exact? | updates can be lost |
| `CollectorRestart.cfg` | `MCCollector` | `ErrorsOfThisRun` | do error totals begin at 0 after a restart? | not all |
| `QueueTag.cfg` | `QueueRing` | `PayloadOfCommand` | are pointers and length of a payload on an I/O queue those of one command? | not when a tag was used again |
| `QueueLength.cfg` | `QueueRing` | `InflightLength` | does a command in flight give its exact length? | only with genctr 0 |
| `TreeRows.cfg` | `MCViews` | `ExpandableRowsOpen` | can an expandable row be opened? | not all |
| `TopologyFault.cfg` | `MCViews` | `TopologySurvives` | is the tree shown when something cannot be read? | not always |
| `FioAlias.cfg` | `MCViews` | `JobDirection` | has a job the direction it states? | not as `readwrite` over a default `rw` |
| `FioShares.cfg` | `MCViews` | `SharesAddUp` | do the groups have at most the I/O of the process? | not always |
| `FioIdle.cfg` | `MCViews` | `IdleJobsUndecided` | is a job without I/O undecided? | not beside busy jobs |

### Properties of the passing runs

* `RegistryInv`: memory, index and file agree at every step (section 4).
* `OneSessionPerProcess`: a live process is not shown twice, also after reload.
* `ActiveIsObserved`: when the snapshot is built, active sessions are exactly
  those of the matched processes, start time included.
* `OneActivePerPid`, `NoIoHidden`: the I/O of a pid belongs to one session or is
  reported as unmonitored, and the two shares of a device add up.
* `SessionsPreserved`: no step overwrites or drops a recorded session.
* `AckedIsDurable`: what a user was told is what a daemon started now loads,
  except for an answer whose save failed and after which none succeeded.
* `SaveIsAtomic`: `_save` implements the register.
* `DutyCycle`: a walk begins only after the earlier ones were paid for with
  `Factor` times their length of idle time.
* `ServiceInv`, `OwnSession`, `StaysVisible`: a process that was there before
  the walk and still is, and whose ids could be read, has a session and is not
  called gone, and its I/O goes to its own session (or to the one with unknown
  start time).
* `RingIsTail`: while the log is only appended to, a ring holds exactly the most
  recent events before the offset.
* `ReportedOnce`: no event twice in a ring or an answer, unless the log was cut to
  a rest; events of one kind in the order they happened, in an answer unless the
  clock was set back between them.
* `CatchesUp`: a rotated log does not stop a reader for good.
* `NoStaleWork`: every work item belongs to an RPC that waits for it.
* `AcloseSafe`: the generator is never closed while `next_task` runs in it.
* `LeaversEnd`, `CallsServed`, `StreamsFlow`: handlers of departed browsers end,
  unary calls are answered, streams make progress.
* `KernelSerialised`: at most one thread is in the drgn session, it is the worker,
  and an open session is not connected again.
* `NotFoundIsTrue`: 404 only for what cannot be or was away at some moment since
  the request, 200 never for what was not there at any, 502 only where a query of the
  kernel, a rule, the daemon or the connection failed.
* `CountedOnce`: no two printed numbers of a `count()` or `hist()` map contain the
  same command, across ticks, kills and the half tick in front of a new run; no map
  shows a command that has not happened.
* `ReportSound`: a process has no more I/O than it submitted, a row and the device no
  more completions than there were (so a row that is a pid has none), each percentile
  is the least bound that covers its share.
* `EventDescribesOwn`: an event line shows its own command or blanks.
* `ListedIsRecent`: a row of a dump around the doorbell is never older than its
  position says, and is younger only by whole laps, in each of its halves; no
  readable row is missing and none is there twice.
* `QuietReadsExact`: a read during which nothing moved is exact, as far as it can be:
  a count may miss what could not be read, and a length is an estimate from the row
  or that of some request of the hardware queue.
* `PrpShowsPrefix`: the dump is the first `MAX_PAGE_DUMP` bytes of the buffer.
* `TreeRowsOpen`: opening a row leads to the object the row showed, or raises if it
  is one of the rows that are known to.
* `TopologySound`: in a tree that is returned, each listed controller once, below its
  own chain of buses, or in the errors; shared bridges once; the mock's tree the same
  on an inventory.
* `JobOptions`: a fio job has its own options over the defaults before it.
* `GroupsShare`: no thread in two groups, several groups with at most the I/O of the
  threads, one with that of the process, no verdict for a process without I/O.
* `FrontEndsAgree`: values that the command line shows differently stay different
  on the way through protobuf and JSON to the browser.

Where the type invariant of a model is implied by another property that is
checked (`ServiceInv`) or proved (`RequestTypes`), it is not repeated in the run.

### Bounds

* `registry`: two pids (the sorted loop, reuse, a second pid that must not be
  touched), start times 0 and one other (unreadable and readable, so one pid
  has two identities), three refreshes in one second (id collisions), two
  kept sessions (the cut happens), one restart. One name rule with one adapter (no
  decision depends on it)
  and one invalid kind; other kinds differ only in the relation they use.
* `store`: two rules, five operations and three starts: add, remove and
  overwrite by a shorter state, with an error or a kill before and after each.
* `profiler`: two pids (interchangeable, so symmetric) and two births, so that a pid
  is reused while the other
  is idle, one of them a kernel thread; three clock units with factor 2 let an entry
  expire and a second walk begin. `profiler_reuse` and `ProfilerBare.cfg` allow a
  third birth.
* `events`: three lines in rings of two (overflow), two faults (truncate and
  remove, or rotate and restart), a clock that shows 0 or 1 in any order, one device.
  Events of other devices are only filtered when the answer is built.
* `streams`: one stream through the executor, one beside it, one unary call;
  a connection may be opened again without limit, so stale work would pile up.
* `requests`: two clients, each with any of the sixteen handlers, one device that
  is plugged and unplugged and a daemon that dies and is restarted without limit. The
  proofs have no such bound.
* `collector`: two queues with one tag each, three commands (so a tag is reused),
  a tick and the first half of the next, or a killed one and a whole one. Timeouts,
  and a fourth command that fails, only while the log has at most one line (`Focus`,
  a constraint): events come from the cache, which the interval handler does not
  touch, so what they say does not depend on the log. The configurations
  for counterexamples have as few commands, ticks and kills as their question needs.
* `queues`: a ring of three slots, two tags, four commands, two values of the
  generation counter: the ring wraps, both tags are reused and ids come back; admin
  and I/O queue; one slot may be unreadable.
* `views`: pages of four bytes with transfers up to fourteen (one page, two pages,
  a list and a chained list), trees of depth three over a cyclic heap with a pointer
  of each kind, three buses
  in every arrangement (cycles and several roots too) with two controllers and, on
  three of the arrangements, lookups and reads that fail, fio
  definitions of up to five tokens with `rw` and `readwrite`, five measurements with
  less, as much and more I/O in all than in the threads, numbers on both sides of
  `EXACT`. The proofs have none of these bounds.

Deadlock checking is off only where a model stops at its bounds on operations
(`TargetStore`, `QueueRing`, `Collector`) or a behaviour is one request (`Views`).

### Fairness

* `events`: weak fairness of a poll that was begun and of beginning one, because
  `StreamEvents` polls for as long as a client watches. The collector owes nothing.
* `streams`: weak fairness of each handler, each RPC coroutine, the delivery of
  a disconnection or cancellation, and the worker: event loops run what is
  ready and a backend query ends. Browsers owe nothing.

## 4. Proofs

The theorems hold for all values of the constants that satisfy the named
assumptions of the modules, which say only of which kind a constant is:
`ConstantsAssumption` (pids and start times are naturals, positive moduli),
`CacheAssumption`, `ProfilerAssumption` (the cache can hold any list),
`EventAssumption` (a ring holds at least one event), `StreamAssumption` (streams
and calls are different things, an inbox has room), `CollectorAssumption`
(commands are numbered, there are finitely many and each has a queue),
`StoreAssumption` (the marks for nothing, empty and corrupt are no contents),
`QueueAssumption` (a ring of at least two slots, finitely many tags),
`DepthAssumption`, `StarAssumption` (no member is called `*`), `PrpAssumption` (pages have a size, and the list entries that
are looked up are enough for the bytes that are shown: 8 entries of 4096 bytes for
4096), `ConvertAssumption` (None, the empty text and the other values are different
things, numbers of 32 bits are exact in JavaScript) and `ViewsAssumption`: heaps are
what C allows (`HeapOK`: no two members of one name), definitions are made of the
options that are read, a process is measured in whole numbers and a machine has
finitely many buses, each with one above it (`IsMachine`).
`ConstantsAssumption` also says that the statistics of a tick are finitely many and
whole, `CollectorAssumption` that each command's latency has a bucket.
None bounds the number of pids, rules, clients, streams, commands, slots, buses,
threads, jobs or restarts.
Two theorems have a hypothesis of their own, because without it they are false:
`AnswersAreDurable` assumes `OneSaver`, `SaveRefinesRegister` assumes
`OneDaemonThread`; `store_threads` and `StoreCli.cfg` show what happens otherwise.

**Registry.** `OneSessionPerProcess` is not inductive: a restart replaces memory
by the file, so the file must satisfy it too; a lookup goes through the index,
so the index must be exact (`IndexMatches`); and what the sweep leaves active
depends on what the loop has visited (`VisitedActive`). `RegistryInv` is the
conjunction of these. `RegistryInvariance` proves it action by action (`RulesOK`,
`BeginOK`, `NewOK`, `KnownOK`, `SweepOK`, `ReportOK`, `RestartOK`, gathered by
`StepOK`) from lemmas about the helpers (`KeptOK`: a cut keeps distinctness,
`CandidateOK`: the chosen id is new, `PutOK`, `LoadedIndexOK`). From it follow
`TypeCorrectness`, `SessionUniqueness`, `ObservationExactness`,
`ActiveUniqueness` and the action property `SessionPreservation`.
`NothingHidden` (`NoIoHidden`) adds that a snapshot is that of the sessions as they are
until the next refresh touches them, and adds up: `IopsSplit`, that a sum over a
set is the sum over a part plus the sum over the rest, is proved from the definition
of the fold by a smallest counterexample, and applied to the processes of a device
that have a session and those that have none.

**Cache.** `DutyCycle` speaks only of moments at which a computation begins.
`CacheInv` carries it between them: idle time has paid for all computations up
to what the entry still has to live. `Distribute` and `Paid` isolate the
nonlinear arithmetic. Results: `CacheInvariance`, `CacheDutyCycle`.

**Service.** `ServiceInv` adds that the list being read is right about every
process that was there when the walk began, still is and could be read (births only grow, so
an exit can only make the claim vacuous), and that a cached list stays right
while it is fresh. `ServiceUsesCache` maps every step to a cache step or a
stutter. Results: `ServiceInvariance`, `ServiceDutyCycle`, `OwnSessionCharged`,
`OldProcessVisible`.

**Requests.** `KernelSerialised` speaks of threads in the session; that the
session is never shared needs to know whose each query is. `Owned` says it: the
worker runs one query, and a query of the kernel that has begun and not replied
is the worker's. `Witnessed` ties the history to the present: a device
that is there was there at some time, one that was always there is there.
`TrueAnswer` shows that an outcome is truthful when it is computed, `TruthLasts` that
later plugging and `TruthSurvives` that later failures cannot make it false, and
`FailureTold` that gRPC's own codes are true of every request they end. Results: `RequestTypes`,
`KernelIsSerialised`, `NotFoundTold`, for any set of clients and devices, which
need not be finite.

**Streams.** `AcloseSafe` is about the moment of closing. `Settled` carries it: a
handler that unwinds has no pending `next_task`, one that closes has none at all.
`NoStaleWork` looks at the executor only; which RPC an item belongs to is
decided when the RPC is cancelled, several steps before the executor sees it.
`WorkOwned` says for every RPC and every unary call that it waits exactly when it
has one item, queued or running, and that no item occurs twice in the queue.
Results: `StreamTypes`, `AcloseIsSafe`, `WorkIsNotStale`, for any set of streams
and calls.

**Collector.** Three arguments over the same types.
*Events.* A command occupies its tag while it is in flight or the
timeout handler holds it (`Holds`). `CacheIsOwn`: no two commands occupy one tag,
the cache under the tag is empty or that of the command that occupies it, and it
is empty while the collector is down. *Counting.* `CountedOnce` is about
printed lines. A command that a probe counts between the print and the clear of
its map is lost, never printed twice: `LinesDisjoint` says it of lines
and, by the position of the interval handler (`Unprinted`), of maps, since between a
print and its clear the map and the last line do have commands in common;
`CountedLate` says that nothing that has not happened is in any of them.
This holds of the maps of `count()` and `hist()` (`Kept`).
Of the `+=` maps it holds only that what they show has happened: a store can bring
back what was printed and cleared. *Reports.* `TickIsPiece`:
the last complete tick is a piece of the log between two printed marks, so what is
known of lines holds of it. `AddedCounts` counts the samples of merged histograms;
`PercentileCovers` proves that the bucket at which the loop stops is the least that
covers the share, and that it does stop. `ReportSound` puts them together for a
process, a row and a device. Results:
`EventsDescribeOwn`, `CommandsCountedOnce`, `ReportsAreSound`.

**State file.** `TypeOK` needs that the registry a thread works on has been
constructed (`OpTypes`, `InHand`). Durability needs to know where every inode is:
`FilesApart` says that the temporary file is never the inode the path names,
so truncating and writing it cannot damage what would be loaded; `InStep` ties
the answer last given, the memory, the payload being written and the file
together for each step of a save. `OneSaver` is one thread in all processes
together, `OneDaemonThread` that this thread is the daemon's. The refinement maps memory to the registry in
use and disk to what `_load` would read: `OpenTmp` and `Write` stutter, `Replace` is
the register's write, a kill its crash. Results: `StoreTypes` (any threads and
processes), `AnswersAreDurable`, `SaveRefinesRegister`.

**Events.** `RingIsTail` compares a ring with what one would parse from the whole
log before the offset. The step that matters is a poll: the log is read in pieces
that end behind a newline, and `ParsedJoin` proves that parsing two such pieces
one after the other gives what parsing them together gives (a line is parsed at
its end, and its beginning is in the same piece exactly if the cut is not in the
middle of it). `LastNTwice` adds that cutting the ring at every poll equals
cutting once. The induction also needs that offsets are behind a newline while
the log is whole (`AtNewline`), that a line's number, position and the line still
open agree (`LogOrder`), that what a ring holds lies before the offset and is
older than what follows it (`GoodRing`); the last holds only until a log is cut to a
rest, which is read again (`trimmed`; `WholeIsUncut`: a log that was never cut is not
trimmed). Two events may have one time. Sorting is stable, so events of one time keep
the order of the readers, and `ByTime` is the one sequence in that order: `CanOrder`
proves that it exists, `ByTimeOf` what it contains. `Inv` is the conjunction, with
`AnswerOnce` for the answer. Results: `EventTypes`,
`NoEventLost`, `EventsReportedOnce`, for rings and logs of any length and any
number of faults.

**Queues.** `ListedIsRecent` compares a row read at one moment with a doorbell read
at an earlier one. What connects them is `Latest`: each slot holds, in each half,
the last command written to it, and while a command is being copied its head is
there before its dptr. `OneLap` and `SameSlot` are the arithmetic modulo the
depth: two numbers of one slot differ by whole laps, so what a slot holds now is
what it held at the doorbell or whole laps younger, and that stays true when the
driver goes on (`GoodRow`, `GoodHalf`). Which row of the dump a slot is depends on
how many slots before it could be read: `CountOwed`, `CountGrows` and `RowIs` say
that the row appended next is the next one owed. `QuietReadsExact` says
nothing exact of the length of a payload: it is estimated from the row that was found,
or that of a started request of this hctx, and `TagsHold` (a busy tag belongs to the
last command that started with it) makes that request a command of this queue. For the
snapshot it needs that the tags counted and the tags left are all tags, each once
(`Snapshot`, `AllTags`), with fewer counted than started only where the count broke off
(`CountFailsOK`). `PostedOnce`, that no
command is completed twice, bounds what the completion queue holds. Results:
`QueueTypes`, `RowsAreRecent`, `QuietIsExact`.

**Views.** `AskedTyped` is the invariant: a request is one of those a view may
get. What remains is a fact about operators, for every input.

* *Recursion.* Paths, parsing, thread shares, bus chains and trees are recursive
  functions. `Recursion` proves that a function defined step by step up to *n*
  exists, without which nothing can be said of its CHOOSE; `Inductive` is induction
  up to *n*. Both take a set instead of a predicate and rest on `Least`.
* *Pointer tree.* `PathLeads`: a path leads to one object at most, and one more name
  leads on from it. `ChildFound` compares listing with lookup; `RowLeads` concludes.
* *PRP dump.* `PiecesShowPrefix`: pages whose data are consecutive pieces of the
  buffer show its beginning, in order. `FirstPageOnly`, `OnePageLeft`, `TwoPages` and
  `MorePagesThanTwo` find the pieces of each branch of the code; `Pages` and `PageOf`
  are the arithmetic of rounding up.
* *fio.* `ParsedTo` says what the parser has after each token in terms of positions:
  the jobs so far with the options fio's rule gives them up to here, the defaults,
  and whether a job is open. One lemma per kind of token keeps it
  (`ParsedName`, `ParsedGlobal`, `ParsedDefault`, `ParsedOwn`).
* *Groups.* `SumShared`: shares that are rounded down sum up to no more than the whole,
  if their numerators do; `SumSplit` gives that for disjoint sets of threads.
* *Conversion.* One lemma per message says that equal documents come from values
  that are shown alike (`QueuesApart` to `ProcessesApart`); `SameRows` lifts it to lists.
* *Topology.* `Climbed` says of a bus chain that no bus is met twice, so the loop
  cannot hang and a path has no node twice. `Grown` is the invariant of the
  loop over controllers: every edge has a source among the controllers done, each of them
  has all its nodes, and no two edges end in one bridge, host bridge or function.
  That a node has the same parent whoever appended it (`SameParent`) holds only on
  chains that reach a root bus. `MockSame` shows that the mock's turn appends the same
  edges, so one invariant serves both trees.

Results: `RowsLeadToTheirObjects`, `DumpIsPrefix`, `JobsHaveTheirOptions`,
`GroupsShareOutIo`, `FrontEndsTellTheSame`, `TopologyHasEachOnce`.

**What the prover can reach.** The library's induction theorems take a predicate as
parameter and cannot be instantiated. The least element of a set of naturals and a
minimal counterexample over the subsets of a finite set are available, though
(`Least`, `Smallest`, `CanList`): with them induction is possible wherever the
claim can be stated as membership in a set, and recursive functions and the sum
over a set (`MapThenSumSet`) can be unfolded. Sorted listings and last positions are
proved to exist the same way. `FoldLeft`, `SelectSeq` and RECURSIVE operators stay
opaque; the models use functions instead.

**Only model-checked.** The liveness properties (`CatchesUp`,
`LeaversEnd`, `CallsServed`, `StreamsFlow`), which need fairness and `ENABLED`. Every
invariant and action property of a passing run is proved.

## 5. Where code and documents disagree

Each of these is a run or a configuration that ends in a counterexample (section 3). The
comment of the property quotes the statement or its line; for the three runs
`PROJECT.json` does.

1. Rule changes bypass the executor that is said to serialise every backend
   call; with the shared temporary file and the lazily created registry an
   acknowledged rule can be lost (`store_threads`).
2. Daemon and CLI are said to share the rules through the file, but each writes the
   whole of it from what it has loaded, so the later drops the rules of the other
   (`StoreCli.cfg`).
3. Statistics are joined by pid with a list of another age, so after a reuse
   the I/O of one process reaches the session of another (`profiler_reuse`).
4. A process whose cmdline and exe cannot be read is called a kernel thread and
   cannot be selected (`ProfilerBare.cfg`).
5. A `+=` that reads before the clear and stores after it brings the last tick's
   number back, which the next tick shows again (`CollectorTicks.cfg`); two of them at
   once lose an error from a total that is said to be exact (`CollectorErrors.cfg`).
6. `_SCALAR_RE` takes the `@proc_*` maps for maps of queues, so the performance report
   has rows whose qid is a pid; their rates are 0 (`CollectorRows.cfg`).
7. The error totals of a collector that died stay in the statistics of its successor
   until it has met the same status (`CollectorRestart.cfg`).
8. The length of an admin command's payload is taken from any I/O request of the
   namespace's disk with the same tag, because no hardware queue is compared
   (`queue_prp`).
9. The command id is compared with a tag. It contains a generation counter, so a
   command in flight is missed unless that is 0 (`QueueLength.cfg`), and a row that kept
   such an id after its tag was used again is decoded with the length of the younger
   command (`QueueTag.cfg`).
10. A pointer to a function, to an incomplete struct or to a number is listed as
    expandable, but opening it, or the `*` below it, is a `TypeError` (`TreeRows.cfg`).
11. One address that cannot be read ends the whole topology (`TopologyFault.cfg`).
12. A default `rw` wins over the `readwrite` of a job (`FioAlias.cfg`).
13. The shares of a process's groups are ratios of two maps that are printed one after
    the other, and can sum to more than the whole (`FioShares.cfg`).
14. A job without I/O beside a busy one has the block size of the process and is told
    to match (`FioIdle.cfg`).

Further behaviours of the code that the models contain and no property excludes:

* `_load` marks a saved active session finished but sets no end time, and
  `refresh()` ends only active sessions, so it has none for good.
* `_save` keeps the last `max_finished` sessions whatever their status, so an
  active one can be missing after a restart.
* A save that fails is swallowed and the rule acknowledged; the next save of anything
  makes up for it, but removing a rule that is not there does not save.
* A query that raises is not cached, so the worker share holds only for queries
  that return.
* Events carry the time they were parsed; within one poll all timeouts come
  before all errors.
* A log truncated and regrown past the offset between two polls is not noticed; one
  cut to a rest is read again from its beginning, and its events are told twice.
* After the collector has died its last tick is reported as current.
* A timeout that races the completion is printed with zeros.
* `limit or 16` makes a limit of 0 mean 16 around the doorbell, where the help
  of the command line says it means the whole queue.
* A rule that cannot be parsed is `INVALID_ARGUMENT` and reaches the browser as 502.
* Every failure of the daemon or the connection is a 502, like a fault of the kernel.
* fio takes `--name=global` on a command line for defaults; the parser makes a job
  of it, and the jobs after it lose these options.
* A bus that cannot be read on the way up ends the chain: the bridges found so
  far hang directly under the system.
* A size or queue depth of 0 and none at all are the same message to the browser.
* The estimate of a payload's length takes blocks for 512 bytes.
* A subsystem shared by two controllers appears once under each.

## 6. Not modelled

* **Browser page.** JavaScript; what it does to the daemon is the environment of
  `StreamServer` (open and leave at any time).
* **Mock backend.** Generated data behind the same contract. It refuses an
  unknown device for performance, events and error statistics, where the real
  backend answers with nothing; only its topology is modelled.
* **Command line output, `doctor`, start-up, wiring, FFI and scripts.** Printing
  and process set-up. (`drgn_backend.py:215` calls a function that is not
  defined in that module; only `doctor` reaches it.)
* **Page tables and command lines of other processes** (`backend/procinfo.py`):
  raw memory reads; the models keep whether a start time is readable.
* **IOMMU branch and detail strings of the topology, sizes such as `4k`, the
  inferred role of a process, name tables**: formatting, no control.
* `invalidate`, `peek` and `ttl_of` of the cache have no caller.

## 7. Plan

1. The browser page's WebSocket generations, composed with `StreamServer`.
2. Two processes on one state file, with the daemon's registry as `TargetRegistry` has
   it instead of a set of rules.
3. Liveness proofs, once the prover handles `ENABLED`.
