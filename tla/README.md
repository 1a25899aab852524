# monoio and monet: a TLA+ verification project

The repository is a thread-per-core web stack: `crates/monoio`, an async runtime
on io_uring or epoll, `crates/monoio-compat`, adapters from its owned-buffer I/O
to poll-based traits, and `crates/monet`, an axum-like web framework that serves
connections on it. This directory models the parts of it in which the order of
steps matters, checks them with TLC on small instances, and proves theorems about
them with TLAPS. `PROJECT.json` lists components, runs, mutants, the map from
definitions to source lines, findings, hazards and theorems.

    cd tla
    tlc -workers 2 -config MCTask.cfg MCTask     # a run
    tlapm TaskProofs.tla                         # the proofs

## 1. Inventory

| Component | State | Operations | Interacts with | Hard behaviour | What makes it correct |
|---|---|---|---|---|---|
| Task cell (`task/`) | state word (lifecycle bits, flags, reference count), stage, join waker | spawn, run, wake, wake_by_ref, clone and drop of wakers, JoinHandle poll and drop, shutdown | run queue, foreign-waker channel, other threads | wakes and drops on other threads race with poll, completion and join | exact reference count, no lost wake, joiner woken, no race on plain memory |
| Parking (`driver/uring/mod.rs`, `driver/legacy/mod.rs`, wakers) | `awake` flag, channel, eventfd read, submission queue | park, park_timeout, submit, unpark, send_waker | runtime, other threads, kernel | a wake between the last look and the wait; a full submission queue | nothing that was signalled is slept through |
| io_uring operations (`driver/op.rs`, `uring/lifecycle.rs`) | slab of lifecycles, rings, buffers | submit, poll, drop, cancel, tick | futures, kernel | keys are reused, futures are dropped while the kernel works | completions and cancellations reach the operation they are for, buffers outlive it, no descriptor leaks |
| Readiness (`driver/legacy`, `scheduled_io.rs`) | readiness bits and wakers per descriptor | poll_op, dispatch, cancel_op, register | mio, futures | edge-triggered reports come once | no report is lost, a cancelled operation ends |
| Descriptors (`driver/shared_fd.rs`) | reference-counted Inner with a state | clone, drop, close, try_unwrap, conversion to poll mode | operations, kernel | a number is reused once it is closed | only one's own file is closed or used; none leaks |
| Timers (`time/driver`) | wheel of levels and slots, entries, Sleep | create, reset, poll, drop, process | park (for its timeout), tasks | cascading, extension without relocation, rounding | no timer early, none forgotten, park ends in time |
| Runtime (`runtime.rs`, `scheduler.rs`, `blocking.rs`) | run queue, SHOULD_POLL, contexts, blocking pool | block_on, spawn, spawn_blocking | all of the above | fairness among tasks, I/O, timers, foreign wakes; a kernel that is busy or fails | the thread sleeps on no work but what a busy kernel's tick woke, everyone is served |
| Router (`monet/src/routing`) | vector of endpoints, tree, two maps, fallback | route, merge, fallback, layer, route_layer, with_state, call | handlers, layers, serve | renumbering on merge; the order of layers, states and routes | a request reaches what was registered for it |
| serve, handlers, extractors (`monet`) | listener, one task per connection | accept loop, extraction in order, into_response | Router, Task | errors of accept, panics of one task that take down all | every connection is answered by the promised handler, after its extractors |
| Streams (`io/`, `net/*/stream.rs`, `buf/`, `monoio-compat`) | buffers, stored futures, positions of loops | connect, read, write, their `_all`, `_exact` and `_until` forms, flush, shutdown, copy, zero_copy, cancel | operations, kernel | short counts, interruption, cancellation and errors between any two steps; a connection made by the first write | bytes are conserved, the end comes last and comes |
| Combinators and leaf futures (`macros/`, `time/interval.rs`, `time/timeout.rs`, `utils/ctrlc.rs`) | masks of branches, deadlines, ACTIVE and WAKER | join!, try_join!, select!, Timeout, Interval, CtrlC | tasks, timers, a signal thread | events between the polls of two branches | right outcome, no lost wake, ticks on schedule |
| Slab and list (`utils/`) | pages and free lists; pointers | insert, get, remove, compaction; push, pop, remove, drain | UringOps, Wheel | reuse of keys and pages; removal in the middle of a list | a map, a sequence |
| File system (`fs/`) | none of its own | create_dir_all, open, read, write, rename, remove, metadata | kernel, other tasks and processes | the tree changes between two awaits; short and failing I/O | the tree is made, files hold what was promised |
| builder, thread identifiers, IOCP, examples | see PROJECT.json | | | | (not modelled) |

Calls and shared state: a future polls operations (`Op`), timers (`Sleep`) and
JoinHandles, and each of these keeps a waker. Drivers, the time driver and
completing tasks call the wakers. A waker called on its owner's thread pushes the
task on the run queue; on another thread it goes through a channel, and the owner
is unparked with an eventfd (uring) or a mio waker. `block_on` empties the run
queue, submits or parks, and the driver's completions start the next round.

## 2. Modules

| Module | Models | Composes |
|---|---|---|
| `Task` | one task cell, a step per atomic operation on its state word | |
| `TaskProofs` | theorems about `Task` | `Task` |
| `Park` | inner_park of both drivers and the unpark protocol | |
| `UringOps` | operations of the uring driver, their slots, rings, buffers, cancellation | |
| `TimerSpec` | abstract: a set of timers and rounds that fire what is due | |
| `Wheel` | timing wheel, entries, Sleep, process_at_time | refines `TimerSpec` |
| `Runtime` | block_on over run queue, main future, driver, timers, blocking pool | abstracts the five above |
| `SharedFd` | ownership of descriptors | |
| `LegacyIo` | readiness and operations of the epoll driver | `SharedFd` |
| `Router` | monet's router | |
| `Serve` | serve, handlers and extractors | `Router` |
| `Buffers` | IoBuf, IoBufMut, Slice, SliceMut, VecBuf as operators | |
| `Socket` | a connection, the operation in flight at each end, cancellation | |
| `Writer` | connect, write, write_all, BufWriter, StreamWrapper | `Socket`, `Buffers` |
| `Reader` | read, read_exact, readv, read_until, read_line, BufReader, PrefixedReadIo, StreamWrapper | `Socket`, `Buffers` |
| `Relay` | copy and zero_copy | `Socket`, `Buffers` |
| `Stream` | from one application to another | `Writer`, `Reader`, `Relay` |
| `Vectored` | write_vectored_all and read_vectored_exact over IoVecMeta | |
| `Leaf` | events, Sleep, Interval, CtrlC as futures that are polled | timers of `TimerSpec` |
| `Combine` | join!, try_join!, select!, Timeout | `Leaf` |
| `KeyMap` | abstract: a map that hands out fresh keys | |
| `Slab` | pages, free lists, compaction | refines `KeyMap` |
| `LinkedList` | the pointers of intrusive lists | |
| `Fs` | the calls of `fs/` over a tree that others change | |
| `UringOpsProofs`, `CombineProofs` | theorems about the module each is named after | `UringOps`; `Combine` |
| `WheelProofs` | theorems about the wheel and the intrusive lists its slots are | `Wheel`, `LinkedList` |
| `LegacyIoProofs` | theorems about the epoll driver, descriptors, and the slab it keeps them in | `LegacyIo`, `SharedFd`, `Slab` |
| `RuntimeProofs` | theorems about block_on, and about the streams its tasks serve | `Runtime`, `Stream` |
| `KernelProofs` | theorems about what waits for the kernel: parking and the file system | `Park`, `Fs` |
| `RouterProofs` | theorems about the router and about serving it | `Router`, `Serve` |
| `MC*` | instances for TLC; `MCLibrary` is `Slab`, `LinkedList` or `Fs` | |

### Task
State word fields are variables of their own (`life`, `notified`, `joinInterest`,
`joinWaker`, `refs`); `stage` and `trailer` are the plain memory next to it. The
owner's program counter `opc` runs through `Task::run`
(`TransitionToRunning`, poll, `TransitionToIdle` or `Complete`, `DropOutput` or
`WakeJoin`, `DropTask`); `rpc[r]` runs a foreign holder of a waker through clone,
`wake`, `wake_by_ref` and drop; `jpc` runs the JoinHandle through poll and drop.
Every atomic operation is one step. What only one thread owns is merged with the
neighbouring atomic step. `Shutdown` drops the runtime under all of them, and a
poll may panic (the code does not catch).

### Park
`pc` walks inner_park of the uring driver (drain, store `awake`, drain again,
flush for space, install the read of the eventfd, enter, sleep, set `awake`, tick)
or of the epoll driver, according to `legacy`, chosen in `Init`. Each sender
sends, loads `awake`, and signals. Submission may fail for good; with `BusySpec`
the kernel may also be busy for a while, which sends flush_space through `tick`.
Accesses are sequentially consistent: the channel's lock orders them.

### UringOps
An operation is started (`SubmitWithData`), polled by tasks, dropped, cancelled
through a `Canceller`, taken by the kernel in submission order, completed in any
order. The kernel knows it by its key only, so entries that name a key outlive its
slot. `Enter` is submit with its failure; `CompleteOp` is one completion of tick.

### TimerSpec, Wheel
`Wheel` keeps `elapsed`, the entries' `state` (true expiration), `cached` (the one
the wheel knows), the place each is linked at and the occupied bits. Levels and
slots are computed as `level_for` and `slot_for` compute them. Instants are finer
than ticks by `Res`, so rounding up deadlines and down the clock is visible. A
round of `process_at_time` is several steps. A timer keeps the waker of the first poll;
`pollers[t]` (history) are the tasks that have polled it since that waker was taken. `Pow` are the powers of the number of slots
(`slot_range`), a recursive function so that it can be reasoned about. `Implements` is
the refinement.

### Runtime
`pc` walks block_on, `queue` is the run queue, `round` its max_round. Tasks run,
yield, and wait for I/O, timers, blocking closures and each other. Wakes, unparks,
operations and timers are single steps here: the modules above say what they do.
The driver's trouble is part of it: `KernelBusy` takes submit, and flush_space on the
way to a wait, to "busy", where completions are ticked (`TickIo`) and unparks consumed
(`TickUnpark`) before the kernel is entered; `DriverFails` returns early from inner_park,
past its tick and the timers; `WakeUpEarly` is an interrupted wait. `missed` are the
tasks that a park, having decided to wait, wakes all the same, and then sleeps on
(`SleepsOn`).

### SharedFd, LegacyIo
`table` is the kernel's descriptor table, from which a closed number is given to
the next file; `st` is the state of an Inner; operations hold clones. `LegacyIo`
adds readiness bits, wakers and an edge-triggered poller, in which `edge` are the
reports to come and `avail` what a system call would find.

### Router
Routers are values and the calls are actions; a call that panics consumes its
router. Handlers that wait for a state and routes that have one are kept apart, as
in the code, with the layers around them. matchit is external: `Order` gives the
patterns that match a path, the best first (`Best`), `Clash` those it refuses to hold
together. `Processed` is the loop of merge over the routes of the other router, a
recursive function. `promised` records what the calls said, independently of the
numbers.

### Serve
A router that was built is served: `accept` clones it for a connection, `Requested`
chooses the endpoint with the router's own `Call`, `Extract` runs one extractor (each
is awaited, so other connections come in between), `Respond` is the return of the
function. `AcceptFails` (todo!()) and a Query that unwraps end the server with all
its connections. `BuildAndServe` interleaves this with the calls that build routers.

### Socket, Writer, Reader, Relay, Stream, Buffers
`wire` are the connections and `op` the operation in flight of each end, which the
kernel completes with a short count, EINTR, an error or ECANCELED. Bytes are numbered
in the order they are written, so that any loss, repetition or exchange is seen. `tx`,
`rx` and `hop` are the local variables of the three tasks, with the buffers of the
layers that `cfg` puts on the sockets; `pc` is where they await. Buffers keep memory
and initialised length apart, as `set_init` does. `drop` configurations drop a future
in flight. With `fast` (tcp_fast_open) connect may leave the connection "deferred": the
first bytes that the kernel takes begin it (`KernelSend`), and a shutdown before it is made
gives it up (`shutdown_stream`). `Vectored` has its own small socket, since the loop over IoVecMeta is not
reached through the other layers.

### Leaf, Combine
A poll of the task visits the branches one by one (`SkipBranch`, `BranchReady`,
`BranchPending`), and events, time and signals come between any two visits; the round
of the time driver (`Driver`) comes between polls only, as both run on one thread, and
only when the thread parks, so not while a branch keeps waking its own task: that is a
"spin", a value that leaves no waker and asks to be polled again. CtrlC::poll
is two steps (`CtrlCInactive`, `CtrlCPending`), as is the handler (`Signal`,
`SignalWakes`). The timers are those of `TimerSpec`, which `Wheel` implements. `last[c]`
is a history of the ticks of each Interval.

### Slab, KeyMap, LinkedList
`Slab` keeps the pages as the code does, entries that are vacant with their next,
the page to write to and the generation that triggers compaction. `LinkedList` keeps
prev, next, head, tail and the position of a DrainFilter, and a sequence per list as
history, to which `ListIsSequence` compares the pointers in both directions.

### Fs
`tree` and `data` are the kernel's; `st[t]` is the place of a task inside a call.
The kernel resolves the links of a path one after the other, a link naming an entry
itself (`Real`). `OpenAnswer` is what the options or openat say. `Within` keeps what is
made inside `Paths`, and `FreeInodes` bounds the files.
Every await is a step. `noise[t]` records what others have done since the call began
(entries added, removed, contents changed), so that the properties can say what a
call owes when it is left alone and what it owes when it is not.

## 3. Runs

Every property has a mutant, a plausible bug in a mapped definition, that breaks it
under the same configuration.

| Run | Instance | Shows |
|---|---|---|
| `task` | 2 foreign wakers, 2 join wakers, 2 in the channel, 1 local | `RefCountExact`, `NoLostWake`, `NoDataRace`, `NoPanicOnJoin`, `JoinerWoken`, `OutputNotFreedWithCell`, `WakeLeadsToPoll` |
| `park` | 2 senders, queue of 2, both drivers | `SleepsSafely` (types, no lost unpark, no sleep on a ready task), `AllReceived` |
| `park_busy` | the same, busy kernel | violated: `NoLostUnpark` |
| `uring_ops` | 2 operations (one returns a descriptor, one is a close), 2 keys, 2 tasks, queue of 2 | `InFlightSound` (completions and cancellations find their operation, buffers are pinned), `NoFdLeak`, `LastPollerWoken`, `SlotReclaimed` |
| `wheel` | 2 timers, 2 tasks that poll them, 2 levels of 2 slots, 2 instants a tick, 13 instants | `WheelConsistent`, `OnTime` (not early, park ends in time, a task that polls alone is woken), `Implements` |
| `runtime` | main task and another, both drivers, pool or none, busy and failing kernel | `NoSleepOnWork`, `QueuedRuns`, `BlockOnReturns`, `IoServed`, `ParkServes` |
| `fd` | 2 files, 2 numbers, 2 operations, 2 clones, both drivers | `DescriptorsOwned`, `NoLostReadiness`, `CancelEnds` |
| `router` | 2 routers, 5 calls, a plain path and two clashing patterns; a router of up to 2 calls served to 2 connections with 2 requests each | `NodeConsistent`, `Answered`, `ServedRight` |
| `stream` | 6 stacks of layers with 3 or 4 bytes, 4 with fast open and 2 bytes, socket and buffers of 2, 1 fault | `Conserved`, `EofIsFinal`, `ConnectHonest`, `AllDelivered` |
| `writev` | vectors of 2 and 1 bytes | violated: `WholeVector` |
| `futures` | 36 tasks of 2 or 3 branches, up to 6 instants, 2 signals, 4 turns of a loop | `OutcomeRight`, `NoLostWake`, `TicksOnSchedule`, `Completes` |
| `library` | pages of 1, 2 and 4 entries, 2 values; 2 lists, 4 nodes; 2 tasks over 7 paths, all 64 sets of open options, 1 fault | `FreeListSound`, `SlabIsMap`, `ListIsSequence`, `TreeMade`, `FilesRight` |

Why the bounds are enough. Task: three parties race on a cell (owner, JoinHandle,
wakers); a second foreign waker adds the race between two of them, and two join
wakers the replacement of one by another; the proofs remove the bounds anyway.
Park: two senders let one find `awake` set by the other's unpark, and a queue of
two is the smallest in which eventfd read and operations compete for room.
UringOps: two operations over two keys reuse a key while entries that name it are
queued. Wheel: two slots and two levels have cascading, a rotation of the top
level, and a timer that shares its slot; 13 instants are almost two rotations; two tasks
let a timer change hands with a waker left in it. Runtime: two tasks are enough for one
to be woken while the park that the other's absence allowed is under way.
SharedFd: two files and two numbers are enough for a number to change hands under
an operation. Router: five calls cover two routers with two routes each and their
merge, or a route, a layer and a state on either side of a merge; two connections
are enough for one to be disturbed by the other. Stream: with three bytes and buffers
of two, a write does not fit, is flushed and bypasses the buffer; every layer of
either side is in at least one stack, and a fault may hit any operation of it. Two bytes
let a stream with fast open write before, while and after its connection is made.
Combine: three branches have one before and one behind any that is ready; six
instants with a period of two let ticks be missed by more than a period. Slab: three
pages, of which two can be given back; compaction every second removal, and a
generation that wraps. List: four nodes have a first, a last, and neighbours of the
one that is removed. Fs: three names deep, two may be missing; links at every level.

Deadlock checking is off where the system may really stop: nothing is left to do
when every bound is used up and every task is done.

### Fairness
- `Task`: the owner runs what is queued, a thread inside a wake or a JoinHandle call
  finishes it. Strong fairness of `DrainWaker` (and of a send that the bound on the
  channel can disable): the channel is emptied at every park. On the uring driver
  this needs the run queue to empty; `Runtime` says so (`ParkServes`).
- `Park`: threads run on, the run queue empties (`RunTasks`), the kernel completes a
  read that is ready. A wait need not end without an event.
- `UringOps`: every park submits and ticks; the kernel finishes what it was told to
  cancel, and closes. It need not finish anything else.
- `Runtime`: the thread runs (`LoopStep`), so that a poll of a task returns, and the
  kernel is neither busy for ever nor fails every submission (strong fairness of `Enter`;
  `DriverFails` and `KernelBusy` may still happen again and again). Expired timers need the
  thread to park, which block_on does not guarantee: `ParkServes` assumes it.
- The other modules take for granted that a task on the run queue is polled. That is
  `QueuedRuns`, and so holds but for a task that a busy kernel's tick woke on the way to a
  sleep that never ends (section 4).
- `LegacyIo`: tasks that were woken poll, the driver polls the poller.
- `Stream`: a task whose operation is done is polled, the kernel moves bytes while
  both sides allow it and completes a connect, and the receiver keeps reading. The
  sender need not write or close.
- `Combine`: a task that was woken is polled to the end of its poll, and time passes (up
  to its bound). Nothing makes an event happen or a signal come, and nothing makes the
  driver turn: the first half of `Completes` is about branches that have their value, the
  second, about timers that will be due, has the premise that the thread parks again and
  again (`[]<>(served = now)`).

## 4. Findings

- `park_busy`: the foreign wakers are drained and need_wait is decided before
  flush_space, whose submit ticks when the kernel answers EAGAIN or EBUSY; that tick
  consumes the eventfd's completion, and the thread sleeps on a waker in the channel. The
  same tick may wake a task of the thread itself, which then waits in the run queue:
  `NoSleepOnWork` and `QueuedRuns` of `Runtime` except these tasks (`SleepsOn`), and no
  other.
- `writev`: `IoVecMeta::consume` shortens the first vector after a short writev but
  discards its advanced start, so write_vectored_all sends other bytes than it was
  given.

Known departures that the models contain or that were met while reading, without a
run of their own; the properties say what holds beside them:

- CtrlC: a signal between the two swaps of CtrlC::poll is not delivered until the
  next one (`utils/ctrlc.rs:36`). `NoLostWake` of `Combine` therefore asks of a CtrlC
  that its waker is in place for the next signal, and `Completes` leaves it out.
- tick can be entered again from inside tick (`driver/uring/mod.rs:419`): releasing an
  ignored operation may submit a Close while the kernel is busy. `UringOps` completes
  one entry per step and does not show it.
- A timer polled by two tasks wakes the first one (`time/driver/entry.rs:135`), although
  `time/interval.rs:404` promises the wake to the most recent caller; so does an Interval
  that is handed on after a tick that was Ready, whose poll left a waker too. The runs have
  two tasks, and `OnTime` promises the wake to a task that polls alone.
- Timers, foreign wakes and closures are served by park only, so a task that always
  yields starves them (`time/driver/mod.rs:318`); `ParkServes` and the second half of
  `Completes` assume parks. A Timeout over a value that wakes itself at every poll may never
  end.
- With tcp_fast_open a stream is handed out before its connection is made, as
  `net/tcp/stream.rs:60` says: a refusal then shows at a write, and a shutdown before the
  first write gives the connection up. `ConnectHonest` excepts it.
- close() that finds an operation in flight waits for a wake nobody sends
  (`driver/shared_fd.rs:488`), and a failing Close closes the same number twice (439;
  the exception in `DescriptorsOwned`).
- In poll mode, close() and try_unwrap leave the registration behind
  (`driver/shared_fd.rs:342`); a CANCELED bit may end another operation
  (`driver/legacy/mod.rs:289`); two operations of one direction share one waker
  (`driver/scheduled_io.rs:81`); an accepted or connected descriptor leaks when it
  cannot be registered (`net/tcp/listener.rs:120`, `net/tcp/stream.rs:135`).
- Dropping a runtime does not drop the tasks that are not queued (`scheduler.rs:34`),
  dropping the time driver notifies no Sleep (`time/driver/mod.rs:344`), dropping the
  uring driver frees buffers the kernel may still use (`driver/uring/mod.rs:588`), and
  the last waker of a task may drop its future on another thread
  (`task/harness.rs:269`).
- create_dir_all fails with AlreadyExists when another one makes the same directory
  on its way down (`fs/dir_builder/mod.rs:130`): `TreeMade` says it may fail only then.
- Without io_uring, a dropped file operation leaves a blocking thread with its buffer
  (`fs/mod.rs:121`).
- A failing accept and a malformed query take the whole server down
  (`serve.rs:35`, `extract/query.rs:21`).
- BufReader and BufWriter panic when they are used after a future of theirs was
  dropped in flight (`Stream` counts such a stream as lost); a flush that fails keeps
  the whole buffer and would send its first part again; a cancelled write_all does not
  say how much it wrote.
- read_f32_le and read_f64_le read big-endian, read_u128 gives a u16
  (`io/async_read_rent_ext.rs:167`, `60`).

## 5. Proofs

The theorems hold for every value of the constants that satisfies the named
assumptions, which TLC evaluates on every run. Each is `Spec => []P` (or the action
property, or the abstract specification) and follows from one inductive invariant per
modelled component; the invariant's parts are named, and the proof that a step keeps it has one lemma
or step per action. Every invariant was checked with TLC on the instance of its run
before it was proved.

| Module | Inductive invariant | Theorems |
|---|---|---|
| `TaskProofs` | `TaskInv` | `TypeCorrect`, `RefCounting`, `Runnable`, `NoWakeLost`, `RaceFree`, `JoinNeverPanics`, `JoinWoken`, `OutputStaysHome`, `CompletionIsFinal` |
| `KernelProofs` | `ParkInv`, `FsInv` | `ParkSleepsSafely`, `DirectoriesMade`, `FilesAsPromised` |
| `UringOpsProofs` | `UringInv` | `UringInFlightSound`, `UringNoFdLeak`, `UringLastPollerWoken` |
| `WheelProofs` | `WheelInv`, `ListInv` | `WheelIsConsistent`, `SleepsInTime`, `TimersOnTime`, `WheelImplements`, `ListsAreSequences` |
| `RuntimeProofs` | `RuntimeInv`, `StreamInv` | `RuntimeNoSleepOnWork`, `RuntimeTasksAccounted`, `StreamConnects`, `StreamConserves`, `StreamEndsLast` |
| `LegacyIoProofs` | `LegacyInv`, `SlabInv` | `LegacyDescriptorsOwned`, `LegacyNoLostReadiness`, `SlabFreeListsSound`, `SlabImplementsMap` |
| `RouterProofs` | `RouterInv`, `ServeInv` | `RouterConsistency`, `RouterAnswers`, `ServeAnswers`, `ServedRouters` |
| `CombineProofs` | `CombineInv` | `CombineOutcomeRight`, `CombineNoLostWake`, `IntervalTicksOnSchedule` |

### Task
From `TaskAssumption`: finitely many foreign wakers, bounds are naturals, NoWaker is no
waker. None of the properties is inductive alone. That a reference count is exact needs
to know which program counters hold a reference, and that a cell is not freed while a
counter is in the middle of an operation. That the joiner is woken needs the relation
between `JOIN_WAKER`, the trailer, and the places of owner and JoinHandle: the
waker is written only while the bit is clear and interest is set, so whoever
completes the task either sees the bit, and the waker is there, or clears the way
for the JoinHandle to see completion. That a wake is not lost needs the link
between `notified`, the run queue and the owner's place in run. Cardinalities of the
sets of foreign holders change by one per step, which `FiniteSetTheorems` supplies.

### Park
The submission queue has room for two entries at least (`ParkAssumption`). `SleepsSafely`
is about the wait alone; to reach it, the invariant says at every statement of inner_park
before it what the earlier statements have established: nothing is in the run queue
(`ReadyInv`), `awake` says that the thread has to be unparked (`AwakeInv`), a waker that
the second drain did not see is on its way to the eventfd or has been there
(`SignalInv`), and the read of the eventfd found room and is with the kernel (`ReadInv`).
The theorem is about `Spec`, a kernel that is never busy; the finding `park_busy` shows
that it is false of `BusySpec`.

### UringOps
There is a key and the queue holds an entry (`UringAssumption`). The kernel knows an
operation by its key and keys are reused, so the invariant says where a key is named:
a slot belongs to one operation and every operation in flight to its slot (`SlotInv`,
`FlightInv`), the data of what the kernel works on stay with the slot or the future
(`DataInv`), a queued cancellation was asked for and whoever was given its key since is
queued behind it (`QueueInv`), and a slot has the waker of the last poll (`WakerInv`). A
cancellation then hits its target or nothing, and never the next user of the key.

### Wheel
From `WheelAssumption`: two slots or more, one level or more, one instant or more a tick,
and Off and Pending are neither ticks nor places. Deadlines are less than one rotation of
the wheel ahead, as in `Deadlines`. `EntryInv` says that an entry is linked at the place
its `cached` expiration has for the *current* `elapsed` and that `cached` is not after the
true expiration, although `elapsed` has moved on since it was filed and the deadline may
have been extended. That a step of `elapsed` leaves the places of all other entries as
they are is arithmetic of digits to the base `Mult`: the highest digit in which `elapsed`
and `cached` differ gives the level, and `elapsed` only moves to the earliest slot in use,
cut off below its digit. `RoundInv` says that the wheel is never ahead of the clock and
that entries are pending inside of a round only; `SleepInv` relates entries to the
deadlines of their Sleeps. `TimersOnTime` holds for any number of tasks: the waker in a
timer is that of one that has polled it since the last one was taken, hence that of the
only one if there is but one; a second one's does not replace the first (section 4).
`WheelImplements` is the refinement of `TimerSpec`, in which
a pending entry is due at `elapsed`: cascading is a stutter or an `Advance`, a wake is a
`Fire`, and a round ends with nothing due.

### Runtime
The main task is a task and NoTask is none. `RunInv` ties the running task to block_on,
`QueueInv` says that the queue holds each runnable task once, `WaitInv` that a waiting
task is in exactly one place of those that will wake it, `MainInv` that the output of
the main task raises SHOULD_POLL or finds the dummy waker, and `ParkInv` what has been
looked at on the way to the wait: whatever is in the run queue once need_wait is decided
was woken by flush_space and is in `missed`. `TasksAccounted` states the consequence for all tasks.

### SharedFd and LegacyIo
Finitely many operations, a number at least, a clone at least, NoFile is no file.
`OwnerInv` relates the clones to the state of an Inner, `TableInv` the Inners to the
kernel's table (until a failing Close closes a number twice, as the code does),
`ModeInv` separates the drivers; `IoInv` says that what can be had is known to the
ScheduledIo or will be reported (`KnownInv`), that operations of one direction of a file
follow one another, as the model's tasks make them (`SingleInv`), and that an operation
told Pending has its waker in place while nothing is known to be ready (`ToldInv`). That a
count of one means no other owner is a lemma on cardinalities (`RefsFacts`).

### Combine and Leaf
From `LeafAssumption` (a period is not zero, as interval_at asserts) and
`ConfigAssumption`: a task has a branch at least and one CtrlC at most (CtrlC::new fails
the second time), and only select! has preconditions or is looped over. The number and
kinds of branches, deadlines, period, slack and bounds are arbitrary. `MaskInv` says that
a branch is disabled for its precondition or because it has yielded. `PollInv` is about a
poll under way: what was ready as it began stays ready until it is visited, and a branch
that was visited and is not disabled was not ready then, is waited for, and is heard.
With a lemma that N steps from any start visit every branch (`BranchFacts`), the end of
the poll gives `OutcomeRight` and `NoLostWake`. `TimerInv` and `TickInv` relate an armed
timer to its deadline and the deadline to the last tick; with Skip the next deadline is
a multiple of the period away, whatever the delay (`MultipleMod`, `NextTick`).

### LinkedList and Slab
Null is no node. `ListInv` says where every pointer of every list leads (`EndsRight`,
`LinksRight`), that a node has one place (`OnePlace`), that a free one is clean and that
a DrainFilter stands on a node of its list. `SlabInv` describes every page: its size is a
power of two times the first one's, the free list is finite, without repetition, and runs
through the vacant slots to the first one never used, and `used` counts the others.
`SlabImplementsMap` maps page and slot of a key to `KeyMap`: pages do not overlap, so an
insertion finds a fresh key and changes no other, and compaction is a stutter. The
assumption that the generation's modulus is a multiple of the interval is that of 2^32
and the code's interval. Powers of two and free lists are recursive functions; that they
are well defined is shown by first-order induction over a set of naturals.

### Router and Serve
From `RouterAssumption` (services are handlers, a path's patterns are ranked, the two
names for "no pattern" and "no handler" are none of either) and `ServeAssumption`.
`Answered` is not inductive: what merge does to a router depends on every route of both,
also on those no request can reach. `RouterInv` therefore says of a router *value* and its
promises, whether the value is still in use or not: the maps of number and path are
inverse to each other (the first half of `NodeConsistent`), the tree holds the promised
patterns and no other, every method router has in its slots what is promised of its path
(`MethodsRight`), and the fallback what is promised of AnyPath (`FallbackRight`). Layers
and states are maps over all of these at once; for merge, an induction over the loop
shows that after i routes the router is right with the promises of the first i paths of
the other one (`Processed`), and a panic leaves no router. `ServeInv` adds that a
connection has a clone of the served router, and while it is inside extractors, that
those passed and those left are together the handler's arguments. It holds of the value
that was served, whatever is built on meanwhile.

### Fs
From `FsAssumption`: paths are sequences of names closed under parents, the initial tree
has a directory above everything, every link names an entry, and calls are about paths. The
hard part is what a task still knows after others had their turn. `noise[t]` is the set
of kinds of changes since its call began: with no noise the tree and the files are as
they were, and without "cut" the tree has only grown (`Grows`). `Effect` states this for
what a step leaves to the others, and two lemmas (`OthersKeepDir`, `OthersKeepFile`) say
that what a task knew survives such a step. For create_dir_all that is: everything above
the place in the walk was missing when looked at, the ones already made are directories
unless something was cut, and an error has a reason; paths are resolved by induction over
their length, with links one level deep. For files it is: after i bytes of a call with
nobody else in between, the file holds the first i bytes written behind what was there,
or the buffer the first i bytes of the file, by position (`Written` and the kernel's
write are compared byte by byte).

### Stream
From `StreamAssumption` (the stacks that exist), `SocketAssumption`, `WriterAssumption`,
`ReaderAssumption` and `RelayAssumption`: capacities are not zero, a vectored buffer has a
vector. Stacks, sizes, the length of the stream and the number of faults are arbitrary.
`Conserved` speaks of everything between two applications, and is not inductive: that
the next step does not lose a byte depends on the places of three tasks in their loops.
`StreamInv` is

- `PeerRight`: how far the connection is when the connecting task is at each of its steps,
  and that one with fast open is unmade only as long as nothing was sent or shut down,
  which gives `StreamConnects`;
- `SenderState`, `ReaderState`, `HopRight`: for every `pc` of each task and every state of
  its operation, which of its buffers holds bytes, how `pos` and `read` relate to the
  operation's result, and that slices stay inside their memory, so that SliceMut::new
  never refuses one;
- `Joins`: the bytes are *runs*, consecutive numbers, and where one place ends the next
  begins. `RunsTo` says that what the receiver was given, then its buffers, then its
  operation are a run up to some e; `MidRuns` that the second wire, the relay's buffer
  and operation and the first wire are one from e to w; `RunsFrom` that the sender's
  operation and buffers are one from w to `given`. A step changes one or two of the three
  and has to move e or w by the number of bytes that it moved; `ReaderStep`, `SenderStep`
  and `HopTo` are these contracts, and the composition needs only them;
- `EndRight`: who has seen the end of a wire, and that a wire that is shut down and
  empty stays so. `StreamEndsLast` follows: once the receiver has read zero bytes no wire
  and no relay holds anything.

After a fatal error or a drop, bytes in the buffer of the task that had it are given up,
and what remains of `Conserved` is that the receiver has a prefix of the stream. The
proofs use no induction over the stream: `Before`, the sums of the vectors of a vectored
buffer, is a recursive function whose values are bounded by induction up to the number
of vectors.

### Only model-checked
- Liveness (`WakeLeadsToPoll`, `AllReceived`, `SlotReclaimed`, `QueuedRuns`,
  `BlockOnReturns`, `IoServed`, `ParkServes`, `CancelEnds`, `AllDelivered`, `Completes`):
  the prover does neither fairness nor ENABLED.
- The two violations of section 4, and the loops of `Vectored`, whose correctness the
  finding refutes.

Every safety invariant that a passing run checks is the consequence of a theorem.

## 6. Not modelled

- Windows (IOCP): not part of the Linux build.
- Construction of a runtime, CPU affinity, thread identifiers: configuration.
- UDP and its messages, addresses, socket options, fsync, permissions and times of
  files: each hands one call on to the kernel.
- `stream_poll.rs`, `tcp_unsafe.rs` and `poll-io`: the poll-based twins of what
  `Writer`, `Reader` and `LegacyIo` model.
- Fast open as macOS does it (`net/tcp/stream.rs:127`), and BlockingStrategy::Panic.
- Lines, Sink, Stream and raw buffers: conversions of the calls that are modelled.
- HTTP itself, which is hyper's, and matching of patterns, which is matchit's.
- Weak memory: accesses are sequentially consistent; the state word uses acquire and
  release or stronger and the wakers go through a locked channel.
- `FORCE_LEGACY` and failing registration.

## 7. Plan

Done: Task, Park, UringOps, Wheel, Runtime, SharedFd, LegacyIo, Router,
Serve, the stream modules, Leaf and Combine, Slab, LinkedList, Fs; the safety
invariants of all of these are proved.

Worth modelling after that: tick as a loop that can be entered again, the drop of a
driver, and the registry of unpark handles under threads that end. Worth proving: that
`LegacyIo` and `UringOps` implement the operations of `Socket`, which the stream
modules take as single steps, as do `Runtime`'s wakes and unparks those of `Task` and
`Park`.
