# A TLA+ verification of TNET_muBench and its DPU service mesh

TNET_muBench is a benchmark of microservices (muBench) whose service cells can talk to each
other over a simulated DPU: the workers of a node never open a connection, they put messages
into shared memory, and two daemons that play the DMA engine and the ARM cores of a DPU copy and
route them. This directory holds TLA+ models of that data path, of the registry by which its
processes find each other, of the original cells over HTTP and of the load generator, the TLC
configurations that check them and TLAPS proofs about them. All paths below are relative to the
repository; `common.py`, `host_lib.py`, `server.py`, `dpa_daemon.py` and `dpu_daemon.py` are
those of `ServiceCell/dpumesh/`, `CellController-mp.py` and `ExternalServiceExecutor.py` those
of `ServiceCell/`, `Runner.py` that of `Benchmarks/Runner/`.

## 1. The system

### 1.1 Components

| Component | State | Operations | Correct when |
|---|---|---|---|
| `FileLock` (common.py 157-177) | a file descriptor with an `flock` | `__enter__`, `__exit__` | at most one holder; a dead holder loses it |
| `DescriptorRing` (common.py 298-408) | in shared memory: head, tail, count, slots of 64 bytes | `put`, `get` under the lock | a linearizable bounded FIFO queue, also when processes die; every call returns |
| `BufferPool` (common.py 184-291) | in shared memory: a bitmap and slots of 1 MB; in each process: one mmap object with *one* position | `alloc`, `free` under the lock; `write`, `read` without | a slot has one user; what is read was written; no slot is lost |
| `ServicePools`, `DpuPools`, `WorkerSQs`, `DpuSQs`, `resolve_pool` (common.py 415-501, 654-685) | four pools per service, shared by its workers; the pools and the two rings of the DPU; two rings per worker | lookup by pool type and pod id | |
| `PodRegistry`, pod id counter (common.py 508-647, host_lib.py 45-67) | JSON files in `/dev/shm` | `register`, lookups, `clear`, `_alloc_pod_id` | no registration is lost; ids are unique; whoever is up is found; the DPA finds every worker |
| Host library (host_lib.py) | the resources of the worker | `submit_egress_request`, `write_ingress_response`, `init_worker` | all or nothing: a failed submission frees what it took |
| Worker, `DPUmeshServer` (server.py 642-939) | `active_contexts`, `egress_to_ingress`, `_pending_futures` | event loop: take a descriptor, run the application, execute actions, answer | every request is answered once; tables are emptied |
| Execution graph, `ExecutionContext` (server.py 142-522) | state of every node, current child of every `Order`, results | `start`, `on_egress_result`, `on_internal_result` | steps of an `Order` in order, `Pipe` waits for all, done exactly once |
| DPA daemon (dpa_daemon.py) | cached pod resources | boot; threads DPA-TX-Poll, DPA-RX-Poll, DPA-Pod-Scanner | moves messages, loses and duplicates none, frees what it copied |
| DPU sidecar daemon (dpu_daemon.py) | `_bridge_events`, `_bridge_responses`, round-robin indices | thread ARM-TX-Poll; one thread per TCP client | routes to the right worker; a client that was answered or timed out leaves nothing behind |
| Cell controller, executors (`CellController-mp_dpu.py`, `ExternalServiceExecutor_dpu.py`, `InternalServiceExecutor.py`) | the work model | build the execution graph of a request | groups in parallel, services of a group one after the other |
| The original cell over HTTP/gRPC (`CellController-mp.py`, `ExternalServiceExecutor.py`) | per request; a pool of threads per service | Flask and gRPC handlers, a thread per group | errors reach the client through every level; nothing is left running; the pools do not lock up |
| Runner (`Benchmarks/Runner`) | counters of processed, pending and failed requests, rows of results | scheduler and thread pool, rounds | what a round reports is about its requests; timing errors are real; the run ends |
| Generators, deployer, autopilot, add-ons, monitoring, examples | files | sequential scripts | |

### 1.2 How they interact

A message is a *header* (JSON: URL, request id, source and destination worker)
and a *body*, each in a slot of a pool, and a 64-byte *descriptor* that names the
slots and goes through four rings:

    worker --tx ring--> DPA-TX-Poll --sidecar tx ring--> ARM-TX-Poll
                                                        |        \--> client thread (TCP)
                                                        | sidecar rx ring <-- client thread
    worker <--rx ring-- DPA-RX-Poll <-------------------/

The worker allocates a header and a body slot in the TX pools of its service.
DPA-TX copies the header to the DPU and frees it; the body stays. ARM-TX reads
the header and chooses the destination: round robin over the workers of the
service a request names, the worker that asked for a response, or, when the
response names no worker, the TCP client. DPA-RX copies body and header to the RX
pools of the destination's service, frees the originals and puts a descriptor
into the worker's RX ring. The worker reads and frees both. A TCP client's
request enters at the sidecar RX ring with its header and body in one slot
("case 2").

Nothing acknowledges anything: whoever finds a pool or a ring full drops the
message, re-queues it, or (a worker that submits a request) dies.

Processes learn of each other from files. A worker takes a number from a counter
file, makes its rings under that number, and enters number and service into the
registry. The threads of the DPU daemon look a service or a worker up at every message, a
worker does so at every answer it gives to a worker (host_lib.py 238), and the DPA reads the
registry once a second. The DPA owns these files: when it boots it removes all of
them, also those that others have open.

In the original benchmark a cell is a web server. A request is answered by one
thread, which calls other cells and waits; the Runner sends requests from a pool
of threads, at the times of a workload file or as fast as it can.

### 1.3 What is hard

Processes and threads share memory without a common lock; descriptors own slots in pools of
other processes; every put and every alloc may fail half way; the bridge has a time-out; slots
that leak are missing for ever; workers start at any time and die with files half written; a
boot removes files under the feet of those that use them; a tree of calls holds threads of many
pools. The list with lines and the properties that cover each hazard is `hazards` in
`PROJECT.json`.

## 2. Modules

| Module | Models | Lines |
|---|---|---|
| `BoundedQueue` | what a descriptor ring promises: a FIFO queue; calls take effect atomically between call and return, and processes die | specification |
| `DescriptorRing` | `put()`/`get()` of one ring under the flock, one step per access of the memory | common.py 157-177, 298-380 |
| `DescriptorRingProofs` | proofs about it | |
| `BufferPool` | one pool: `alloc`, `write`, `read`, `free`, creation at process start, kills, mmap positions | common.py 184-278 |
| `BufferPoolProofs` | proofs about it | |
| `DataPath` | the whole node: workers, both DPA threads, router, bridge and its clients, all pools and rings | host_lib.py, dpa_daemon.py, dpu_daemon.py, half of server.py |
| `DataPathProofs`, `DataPathLossProofs` | proofs about it: invariants; what is lost and leaked | |
| `ExecutionContext` | the execution graph: builder, engine, and a meaning of graphs to check the engine against (operators, no state) | server.py 41-96, 135-552, ExternalServiceExecutor_dpu.py 64-92, CellController-mp_dpu.py 187-202 |
| `EventLoop` | the loop of a worker, with the contexts of its requests | server.py 642-907 |
| `EventLoopProofs` | proofs about the engine and about the loop on it | |
| `PodRegistry` | how the processes of a node find each other: counter, registry, start of workers, boot of the DPA, scanner and router | common.py 157-177, 508-638, 797-813, host_lib.py 45-88, dpa_daemon.py 54-116, dpu_daemon.py 44-53 |
| `PodRegistryProofs` | proofs about it | |
| `HttpCell` | the tree of calls a request makes through cells over HTTP and gRPC | CellController-mp.py 105-298, ExternalServiceExecutor.py 35-135 |
| `Runner` | the load generator, on top of `HttpCell` | Runner.py 20-331 |
| `HttpCellProofs`, `RunnerProofs` | proofs about the tree of calls, and about the Runner on it | |
| `MC_*` | instances for TLC | |

`EventLoop` EXTENDS `ExecutionContext` and `Runner` EXTENDS `HttpCell`, because they
run on it; `DescriptorRing` has `BoundedQueue` as an INSTANCE under a refinement mapping.
`DataPath` takes the rings and pools as atomic, which `DescriptorRing` and `BufferPool`
show, and the workers as registered, which is what `PodRegistry` is about.

### 2.1 DescriptorRing

`head`, `tail`, `count`, `slots` are the mapped file, `lock` the flock, `pc`, `arg`
and `seen` the locals of each process. `PutHeader`, `PutSlot` and `PutCommit` are
the three accesses of `put()` (358-360, 361-363, 364-365), `GetHeader`, `GetSlot`,
`GetCommit` those of `get()`. `Kill` ends a process at any step and, as the kernel
does, drops its lock; a killed process does not come back (one that restarts is a
new process). The header is written by one `mm.write` of 12 bytes, which is taken
to be one step. What a ring holds is abstracted to model values.
Left out: `ServicePools`-like creation of the file (rings are named by a pod id and
created by its only owner before anybody knows the id), and a FileLock that could
not be opened (see 6).

### 2.2 BufferPool

`bitmap` and `data` are the mapped file, `cursor` the position of each process's mmap object,
`lock` the flock, `pc`, `slot` and `datum` the locals of each thread. Every `seek` is a step and
every access is a step at wherever the position is by then: `Scanned`, `WriteByte` and
`Returned` say what an access at a wrong position reads or writes (the bitmap, the middle of a
slot). That makes the model say the truth about two threads of one process, who share the
position: `write()` and `read()` move it without the lock, also while another thread is between
`seek` and access of an `alloc()` or a `free()`, which have it. The bits of the pool suffer as
well as the contents. `flight` holds the descriptors on their way from a writer to a reader.
`Start` is `BufferPool(create=True)`, which zeroes the bitmap; the constant `LateStart` says
whether a process may start while slots are in use. `Kill` leaves the bitmap as it is: slots of
a dead process are lost, as in the code.

### 2.3 DataPath

A thread has a program counter, the descriptor it works on (`desc`) and the slots
it has copied to (`copy`). Every `alloc`, `free`, `put` and `get` is a step of its
own, so the steps of nine or more threads interleave everywhere the code allows it.
`put` and `get` are atomic because `DescriptorRing` shows that they are; `alloc` with
`write`, and `read` with `free`, because `BufferPool` does so for pools that a process uses
from one thread (and they work on a slot that nobody else uses: `Custody`).

Two pools of the DPU are used from several threads of a process, through one mmap object: the TX
header pool by both threads of the DPA, the RX body pool by all client threads of the DPU daemon
(dpu_daemon.py 301, 326, 328, 350). There `alloc()` may return a slot that is in use or mark
another, `free()` may clear another, and a copy may read or write another (runs `pool_threads`
and `pool_bits`, section 4.2). `Meet` says when two threads are at such lines at once, one of
them without the lock; they may or may not get in each other's way. `Collide` is that they do:
`collided` is TRUE from then on, nothing more happens, and no property of `DataPath` claims
anything of what the code does afterwards. All behaviours without a collision go on, also those
where the two threads are at such lines at the same time.

* Worker: `Submit`/`Respond`, `AllocHeader`, `AllocBody`, `PutTx`, `UndoHeader`,
  `UndoBody` are `submit_egress_request()` and `write_ingress_response()`, which
  take the same steps; `Failed` is where they differ: a failed submission raises
  out of the event loop and ends the process, a failed response is dropped.
  `TakeRx`, `ReadHeader`, `ReadBody` are the receiving side. The application is
  abstract: it submits its requests and answers those it has received (`owed`) in
  any order and at any time; module `EventLoop` has what it does.
* DPA-TX: `TxGet` to `TxUndo`. DPA-RX: `RxGet` to `RxUndoHeader`, cases 2 and 3.
* ARM: `ArmGet`, `Route`, `PutRx`, `CleanBody`/`CleanHeader`, `Bridge*`.
* A client: `ClientOpen` to `ClientTimeout`. The time-out may come at any moment
  of the wait; 30 s against no bound on the rest.

A message stands for its bytes: a pool slot holds the *message* whose header or
body it has, so reading a wrong slot would be seen. `EmptyBody` and `TooBig` name
the messages with a body of length 0 and of more than a slot. All pools have
`NumSlots` slots and all rings `MaxDescriptors` places, as in the code (64, 512).

Left out: a header larger than a slot; parse errors of a header or a body; the
branches for an unknown worker and for a pod without resources (all workers are
registered before the first message); workers that are killed from outside.

### 2.4 ExecutionContext and EventLoop

A graph is a function from paths to kinds of steps, which stand for the ids; so the
aliases (`_ec_alias_nodes`), which map the node id `root` to the id of a single step,
disappear. A context is a record with the fields of the class, and the methods are
operators on it. In the code they call each other, to the depth of the graph; here `calls` is
the stack of what has still to be called, and `Advanced` is the next call: a method pushes the
calls it makes (`Push`), in their order, and leaves the rest of the stack alone. So the engine
is a sequence of small steps that ends with an empty stack, and what the code does while it is
deep in a recursion is a state one can look at, also where a step ends while its siblings are
still being started (a `request_builder` that returns nothing or raises, an empty container).
The actions a method returns are gathered in `sends` and `runs`.

`LeafMeaning`, `ContainerMeaning`, `Reached`, `Meaning` and `Due` say what a graph means
without an engine: the state of a leaf follows from the results it was sent, that of a
container from its steps, and whether a node is reached from its parent and the steps before
it. A graph is a tree, so exactly one labelling of its nodes agrees with its own meaning
everywhere (proved, `OneMeaning`); `EngineAgrees` says that the engine's is that one. Data is
abstracted to outcomes: `ok`, `bad` (a bad status), `error`. `inputs`, URLs and bodies are left
out. `BuildGraph` is the builder with its `parallel()` blocks, `StartWorkerGraphs` the graphs
the cell controller registers for the groups of a work model, with `seq_len` and
`probabilities`.

`EventLoop` has a phase of the loop in `pc`: the descriptor (`HandleNewRequest`,
`HandleEgressResponse`, `PollEmpty`), the snapshot of the finished futures (`Collect`),
each of them (`HandleInternalResult`), each finished context (`FinalizeContext`). `rx` is
the RX ring; answers arrive in any order (`ArriveAnswer`) or never (`Lose`);
`turn` is the request whose engine is at work: `Advance` makes its calls one by one, and
`ExecuteActions` executes what it has asked for and lets the loop go on. The world outside waits
while an engine is at work: it sees and changes nothing that the engine reads, so any order of
their steps can be had with the engine's in a row.
`FunctionReturns` is a thread of the pool, which starts functions in the order of their
submission and `ThreadPoolSize` at a time. A submission may find the TX side full
(`TxMayFill`); it raises out of the loop and the process is gone (`Crash`). A response that
finds it full is dropped, whatever is raised (host_lib.py 219-279), and the loop goes on:
`Responses` has the reply `dropped` beside the right one. `heard` is a
history of the results that were handled. The application's own exceptions are a
status of 500 (`wsgi`), which the result of registered steps replaces.

Left out: descriptors with `valid` other than 1 and headers that do not parse, which no
writer of the repository makes; functions that never return.

### 2.5 PodRegistry

`counter` and `registry` are the two files, with the texts that a reader can tell apart:
absent, empty, a table, or two dumps one over the other (`Corrupt`). `open(..., 'w')`
truncates and the text is written at the close, so `ReadCounter` and `WriteCounter`,
`ReadRegistry` and `WriteRegistry`, `EnsureMake` and `EnsureDump` are two steps each, and
a process may be killed between them. What a process has open is an inode: 0 is the file
before the boot, 1 the one after it. A lock on inode 0 excludes nobody who locks inode 1,
and a text written to inode 0 is gone; `lock` and `out` say which one a process has.

`task` says which operation a process is in (`alloc`, `find`, `register` of a worker that
starts, `look` of one that looks up) and `at` where in it it is: at the test and the creation of
`_ensure_files()`, waiting for the lock, or between truncation and writing. `Boot` is the
removal of all files; `TruncateCounter` to `ClearRegistry` are the steps that follow it.
A worker that restarts is another process with the same name. `podFiles` are the rings by
their pod id, with their creator; `CreateResources` takes over rings that are there.
`ScanPods` is `get_all()` with the opening of the rings, which a polling thread keeps for
good. A read under the lock is one step; a read without it does not occur.

`Look` and `Looked` are a lookup: `get_workers_by_service()` for the router and for the thread
of a client (several at once: `Routers`), and `get_pod_id()` for the router (dpu_daemon.py 166)
and for a worker that answers a worker (host_lib.py 238). Each begins with the same unlocked
`_ensure_files()` as a registration, so each may create the registry, or empty the one another
has just made.

Three history variables say for whom the promises are made. `strays` are the workers that were
starting at the boot: they may write ids of the last life to files of this one, or do so without
a lock that excludes the others. `passing` are the processes that looked something up at or
during the boot and are still at it: between test and `open(..., 'w')` they may empty the new
registry. `safe` are the workers that started when the DPA was up and there were neither, less
those whose entry went with a process that was killed while it was writing the registry. The
promises for `safe` workers are kept whatever came before. The others get none, and need none to
be broken: a worker that registers while one single lookup from before the boot is under way may
lose its entry for good, since it registers once. That is the hazard at common.py 524; the run
`registry_restart` and section 4.2 show what it comes to.

Left out: two workers with one name at the same time; the branch for an entry that is a
number (no writer); a second boot in one behaviour (each behaviour starts with one, over
any files); a lock file that cannot be opened.

### 2.6 HttpCell and Runner

`call` holds the tree of calls. `Accept` is `start_worker()` up to the internal service,
which shares nothing with anybody, and draws what will be called (`Selections`: the sample
of `seq_len` and the optional services). `CallRest` and `CallGrpc` are the next call of a
group, `Return` its result, `Answer` the end of `wait(futures)` and the response. `Raise`
is the `except` of the handler. What a request carries (a behaviour id, a trace or nothing)
is a value that, with the service, decides the groups: `Groups`. A gRPC cell has a Flask
server with a thread per request next to it, and its gRPC handler always fails: line 236
says `app.logger.info.info(...)`, which raises. `Break` is the death of the process, or a
connection that cannot be made.

`Runner` has the main thread (`main`, `round`, `next`) and those of the pool (`queue`,
`job`). `Submit`, `CountPending` and `Check` are `job_assignment()`; `Get`, `Receive`,
`KeepRow` and `GetRaises` are `do_requests()`. A counter's increase is atomic, under its
lock; the reading at line 75 is not, and is a step. The greedy runner counts in the
threads and is not checked for lateness. The periodic runner takes the steps of the file
runner in one round, and has no branch of its own. Times are left out: an event may come
at any time after the one before.

## 3. Runs

| Run | Instance | Properties | Result |
|---|---|---|---|
| `ring` | 3 processes, 2 descriptors, 2 slots | `TypeOK` `HeaderInv` `ImplementsQueue` `CallsReturn` | hold |
| `pool` | 2 workers and the DPA, 2 slots, kills | `TypeOK` `Exclusive` `UsedSlotsAreMarked` `MessagesIntact` `MarkedSlotsAreUsed` | hold |
| `pool_threads` | the DPU header pool in the two threads of the DPA | `MessagesIntact` | violated |
| `pool_bits` | the same | `Exclusive` | violated |
| `pool_latestart` | a second worker starts late | `Exclusive` | violated |
| `path_rings` | 2 workers, 3 requests, 2 slots, rings of 1 | `TypeOK` `ClosedClientsForgotten` `LeaksOnlyWithLoss` `LossIsExcused` `AllSettled` | hold |
| `path_pools` | 3 workers, 4 requests, pools of 1, rings of 2 | `Custody` `AtMostOnce` `Addressed` `WorkersNeverLeak` `AllSettled` | hold |
| `path_empty` | a request without body | `ReleasesNotMissed` | violated |
| `loop` | 2 requests, one with a graph of any of 11 shapes; 2 functions at a time; 1 lost answer; submissions that raise; responses that are dropped | `TypeOK` `EngineAgrees` `OutstandingIsDue` `OutstandingOnce` `AnswerIsFinal` `FailureReported` `AllAnswered` | hold |
| `registry` | a worker, one that takes its place, one of another service that may start before the boot; that one and the router look up; files of the last life | `TypeOK` `IdsDiffer` `Findable` `OwnResources` `NoFalseRefusal` `Discovered` | hold |
| `registry_restart` | the same | `Assembled` | violated |
| `bench` | 4 services, one thread each, two groups that meet at one service; 2 rounds of 2 requests, 2 threads, both kinds of runner | `TypeOK` `FailuresReach` `NothingLeftBehind` `TimingErrorsJustified` `RoundReported` `RunEnds` | hold |

**Bounds.** A ring of two slots is full, is empty and wraps within three operations; three
processes give a holder, a waiter and a third that finds what a dead one left. A pool of two
slots has a first slot that is taken when the second is searched; three processes are two that
compete for a slot and one that reads. On the path the interesting thing is contention, and it
takes one slot or one place and two messages. `path_pools` (one slot) reaches every failed
`alloc()`, `path_rings` (one place) every failed `put()`; `path_pools` adds two workers of one
service (for round robin and misrouting), a service without workers, an empty and an oversized
body. Two clients meet in the DPU RX body pool, and the two threads of the DPA in the TX header
pool, so collisions are reached. Each request is issued once, which bounds the runs. What is
left of earlier requests is leaked slots, and they add up: with pools of one slot the first leak
uses a pool up, which is why `AllSettled` is checked there too; the round-robin index is kept
modulo the number of workers. The graphs of `loop` have every kind of step below every kind of
container, containers three deep, empty ones, two calls, two functions, and an order that fails
in the middle; the second request, whose graph is the usual one of a cell, is there for what
contexts share: the tables, the ring, the thread pool (three functions for two threads) and the
snapshot. Symmetry is used for safety only.

`registry`: what can go wrong takes two writers, or a writer and a reader, and one that was
there before the boot. The instance has a worker that starts at any time and may start before
the boot (`Early`), one that is killed anywhere (`Mortal`), and one that takes its place under
the same name. One random id is the worst case: every two random ids are the same. The registry
of the last life gives the id 1, which the first worker of this life gets again, to the name and
service of others. The proofs have no such bounds.

`bench`: two requests and a pool of two make the pending counter of a round reach the size
of the pool; two rounds show what a round leaves to the next. The services have one thread each,
the smallest pool, and the requests meet there. The graph has no cycle: in a cyclic graph the
pools can lock up, as they would in any such server; the generator makes trees, with databases
that several services may share below them (ServiceGraphGenerator.py 45-82), like s3 here.

**Deadlock** is not checked: every request is issued once and processes die, so the
models may stop; the loop stops only when its process has crashed. That they do not
stop early is said by `CallsReturn`, `AllAnswered`, `AllSettled`, `Discovered` and `RunEnds`.

**Fairness.** `DescriptorRing`: a process that runs takes its next step (weak fairness); the
flock is granted to a waiter some time (strong fairness of `Acquire`; Linux wakes the waiters of
a flock in order). `DataPath`: every thread is scheduled (weak fairness of its steps); the DPA
takes from the ring of a worker some time (strong fairness of `TxGet(w)`), because it polls the
known pods in turn; a client's thread runs, and its wait ends by an answer or by its time-out
(weak fairness of both together). Submitting a request is under no fairness: nobody has to ask.
Answering is: the application answers what it has received, if it has not died. `EventLoop`: the
loop runs (weak fairness; it never blocks but for the millisecond of `wait_interrupt()`),
functions return, and an answer that is not lost arrives. A lost answer is excused for its own
request only. `PodRegistry`: a worker that starts and the scanner run, and get a lock that
becomes free over and over (strong fairness: flock is FIFO). The boot of the DPA, starting a
worker, killing it and looking up are under no fairness; `Discovered` speaks of workers that
started when the DPA was up. `Runner`: the main thread, the pool and the cells run (weak
fairness of each); nothing has to break.

`AllSettled` says when a request does not hang: it is answered, or a message of it is lost, or
its client has gone. It excuses a request for which a worker of the service it names, or of the
one that asked, has died (the dead one's ring and slots are never emptied), and it excuses all
when the header slots of the DPU are used up for good (`Exhausted`): each is leaked
(dpa_daemon.py 286-293), or belongs to a descriptor that DPA-RX puts back for ever because a
dead worker has the body slots of its service. Other dead workers excuse nothing. It does not
say that a worker learns of a loss: it does not, and its context waits for ever (there is no
time-out for egress requests). `RunEnds` ends without results only if no request was ever
answered.

## 4. What the runs show

**4.1 What holds.** A ring is a linearizable queue. `put()` changes nothing that anybody looks
at before its last access, which is why a process killed in the middle leaves a good ring. Pools
give a slot to one user and never lose one but through a death, if each process uses its mmap
object from one thread and creators start before the pool is used. On the path, until two
threads collide in a pool (4.2), whatever is full: no descriptor names a slot that is free or
another's (`Custody`), no message is in two places or arrives twice, although descriptors are
re-queued (`AtMostOnce`), none gets to a wrong worker (`Addressed`), a message is lost only
where the ring or pool that its thread needs at that line is full, or for being too big, without
addressee or late (`LossIsExcused`), a slot is leaked only together with its own message, but
for the body slots of 4.2 (`LeaksOnlyWithLoss`), and workers do not leak even when they fail
(`WorkersNeverLeak`).

The engine follows the meaning of its graph for every order of results
(`EngineAgrees`); what is under way is what is due, once (`OutstandingIsDue`). So the
removal of stale entries (server.py 889-892) and the two early returns for an answer
without entry or context (784-791) are never needed: a context that is done has
nothing outstanding (`AnswerIsFinal`). A failure outside a pipe shows in the response
(`FailureReported`).

Once the DPA is up, and if no worker was starting and no lookup is left from before (2.5), workers
that start get different ids (`IdsDiffer`) and rings and pools of
their own, whatever the last life has left (`OwnResources`); no registration overwrites another
(`Findable`), whoever looks up sees everybody who is up (`NoFalseRefusal`), and every worker
comes up and is discovered, also when others die with a lock held or with a file half written
(`Discovered`). A worker killed while it allocates an id leaves an empty counter, and ids are
random from then on (host_lib.py 67); one killed while it registers takes the entries of all
others with it (common.py 542). The properties name both cases.

Over HTTP a failure at any depth reaches the client and nothing else does (`FailuresReach`), and
an answer leaves nothing running but below a process that has died (`NothingLeftBehind`). A round
of the Runner reports its own requests, each once (`RoundReported`). A timing error means what the
comment says unless a request has raised: `pending` is then too high for good
(`TimingErrorsJustified`; Runner.py 50 is skipped).

**4.2 What does not** (`findings` in `PROJECT.json`):

* *Two threads, one position* (`pool_threads`). DPA-TX writes into the DPU TX header
  pool and DPA-RX reads from it, through the same mmap object, and `read()`/`write()`
  hold no lock between `seek` and access (common.py 266-278): a copy has another message.
* *The same, seen in the bits* (`pool_bits`). `alloc()` and `free()` hold the lock, and use the
  same position: the seek of another thread's `read()` between their `seek` and their access
  (240-241, 244-245, 254-255) makes `alloc()` return a slot in use or mark another, and `free()`
  clear another. `UsedSlotsAreMarked` and `MarkedSlotsAreUsed` fail on that instance too. The
  client threads of the DPU daemon share the RX body pool in the same way. All of `DataPath`
  holds until then only.
* *A late worker zeroes the bitmap* (`pool_latestart`, common.py 227). The workers of
  a service share its pools, and each creates them.
* *A body of length 0* (`path_empty`). host_lib.py gives it a slot, and the DPA (line
  266) and the bridge (dpu_daemon.py 187) skip the `free()` with the copy. Calls without
  a trace have no body (ExternalServiceExecutor_dpu.py), so this is the usual case.
* *Restarting everything* (`registry_restart`). A worker registers once. If the DPA boots
  during or after that, the entry is gone, the worker runs, and nobody finds it; the procedure of
  README-API.md 661-665 restarts daemons and workers side by side.

Plain from the models, without a run of their own:

* The services of a group are called at the same time, where the docstrings of
  ExternalServiceExecutor_dpu.py (54-55) promise one after the other: `RegisterExternalCalls` makes
  one flat pipe.
* The result of the `put()` that re-queues a descriptor is ignored (dpa_daemon.py 157, 233,
  273): `TxRequeue` and `RxRequeue` lose the message, and all its slots, when the ring has
  filled up meanwhile.
* The comment at dpa_daemon.py 288 ("body를 다시 해제하고 re-enqueue") says that the message is put
  back; the code returns. The message is lost (`LossIsExcused`) and its DPU header slot leaks.
  When all of them have leaked, DPA-TX puts back whatever the workers send, for ever: nothing is
  lost, nobody has died, and every request hangs (`Exhausted`, reached in `path_pools`).
* A client that is refused at once (no worker, pool full, too large, ring full; dpu_daemon.py
  290-353) leaves its event in `_bridge_events` for ever; `ClosedClientsForgotten` excuses these,
  and says that no answer is ever kept for them.
* A response that finds the TX side full is dropped (host_lib.py 219-279) and its context is
  gone: nobody is told, and the caller waits for ever, or till its time-out (`dropped` in
  `EventLoop`).
* The response of a request is the result that was stored last, so a pipe of which one step has
  failed may be answered with 200. README-API.md 617 says the former.
* A gRPC call never succeeds (CellController-mp.py 236): `CallGrpc`.

## 5. Proofs

`DescriptorRingProofs`, for any set of processes and descriptors and any
`MaxDescriptors > 0`:

* `RingInvariant`: `Spec => []RingInv`. `HeaderInv` (tail = head + count modulo the size)
  is not inductive: a commit writes what was read three steps earlier. `RingInv` adds
  `LockInv` (exactly the holder is inside `put()` or `get()`) and `LocalInv` (what the
  holder has read is still the header). `RingType` and `RingHeader` follow.
* `RingRefinesQueue`: `Spec => Abstract!Spec`, with the queue's contents the `count`
  descriptors from `head` on. The commits are the queue's steps; the arithmetic of the
  wrap-around is in lemmas of their own.

`BufferPoolProofs`, under `SingleThreaded` (no two threads in one process) and
`LateStart = FALSE`, for any processes, threads, data and number of slots:

* `PoolInvariant`: `Spec => []PoolInv`. To the properties it adds `LockInv`; `CursorInv`
  (the position is where the thread has put it); `LocalInv`; `BitInv` (the slot found
  under the lock is free until it is marked); and `ContentInv` (a slot keeps its message
  along the way). `PoolExclusive`, `PoolUsedSlotsAreMarked`, `PoolMarkedSlotsAreUsed`,
  `PoolMessagesIntact` and `PoolType` follow.

The two assumptions are exactly what the code does not guarantee: without the first `CursorInv`
fails (runs `pool_threads` and `pool_bits`), without the second `UsedSlotsAreMarked` does (run
`pool_latestart`).

`PodRegistryProofs`, for any workers, names and services, any files of the last life, any who
start early or are killed:

* `RegistryInvariant`: `Spec => []RegInv`. `Findable` and `IdsDiffer` are far from inductive.
  `RegInv` adds `PhaseInv` (before the boot nobody is safe, and who is busy during it is a stray
  or passing), `LocalInv` and `EraInv` (who is busy after the boot and was not during it has the
  inodes of this life open and is at no line that creates the registry), `MutexInv` (one writer
  for each inode of a file), `NamesInv`, `CounterInv` (no number below the counter, or below the
  one being written, is given again) and `RegistryInv` (who rewrites the registry knows the
  entry of every safe worker that is up, and the file is empty meanwhile). The subtle part is
  those who are passing: no worker becomes safe before they are done, but one may be done only
  after the worker that is writing has started, and may have put the empty table in the file
  meanwhile.
* `RegistryType`, `RegistryIds` and `RegistryFindable` follow; `RegistryNoFalseRefusal` is an
  action property that follows from the invariant for the step at which somebody has his answer.
  They are about workers that start, and lookups that begin, after the boot, with the lookups of
  before over; for others they are false of the code (2.5).
* `RegistryResources`: `OwnInv` adds to `RegInv` what the files know. `NumberInv`: a number that a
  ring file, the registry or somebody who rewrites it mentions, or that a worker has drawn, is past
  (the counter will not give it again), and who has drawn one and has made no rings yet is the only
  one to know it. `RingsInv`: the boot leaves no rings, and none appear before it is over but those
  of its strays; nobody has the rings of a worker that has made none; the rings of a safe worker
  are its own, under its number only. So `PodResources()` finds neither files nor an entry of
  another under a number that was counted; random ones are excepted, as in `IdsDiffer`.

`DataPathProofs`, until two threads of a process collide in a pool (2.3), for any workers,
services, requests and clients, any pools and rings of at least one slot, any requests that fail
or do not fit, under `DataPathAssumption` and `DataPathNames` (threads, and whatever else has a
name, are different):

* `PathInvariant`: `Spec => [](~collided => PathInv)`. A behaviour stops at a collision, so each
  step that matters is a `Step` of one thread (`NextIsStep`), and `StepKeeps` is the induction.
  `Custody`, `Addressed` and `AtMostOnce` are not inductive, because they speak of owners and
  places and not of the line somebody is at. `PathInv` adds `ThreadInv` (which parts and copies
  the descriptor of a thread has at each line, and where its message should go) and `RingInv`
  (the same for a descriptor in each kind of ring); `HoldInv` (each slot that a thread or a
  descriptor has holds his message, and nobody else has it); `OnceInv` (a message is with one
  thread or in one descriptor, was sent and has not arrived); `OwedInv` and `ServeInv` (a worker
  owes answers only to requests that it has received, and no two workers owe the same). They
  need each other: the router reads the message off the slot, so addressing holds only if the
  slot still has that message; a slot is free when `alloc()` returns it only if what others have
  is marked; a response is new only if its request arrived once.
* The argument: an action of any thread has one of six shapes (`StartStep`, `KeepStep`,
  `FreeStep`, `AllocStep`, `PutStep`, `GetStep`: a message is taken up, or one slot is freed or
  written, or one descriptor is put or got, or neither). That a shape preserves `HoldInv` and
  `OnceInv` is shown once (`HoldAlloc`, `OncePut`, ...); of each action it remains to show which
  shape it has, and what its thread has at the next line.
* `PathType` (which holds after a collision too), `NoSlotTwice`, `RightWorker` and
  `OnePlaceOnly` follow. `NoAnswerKept` needs `RefusedInv` too: the request of a client that was
  refused at once is with no thread and in no ring, and stays so.

`DataPathLossProofs`, on top of `DataPathProofs`:

* `OnlyExcusedLoss`, `WorkersFree` and `LeaksWithLoss` are the three action properties. What is
  lost or leaked in a step is whatever was in one's hands before and is in nobody's after; with
  `PathInv` only the thread that makes the step can have let go of it. Each action keeps, frees
  or hands on each slot of its thread (`Tidy`, `Gets`), or it lets go of the message and its
  slots (`Drops`), and then there is an excuse (`Excused`). The excuse names the line of that
  thread and the one ring or pool it needs there (`NoRoom`); another that is full is none.
* `LeaksWithLoss` has no hypothesis on bodies: the slot that leaks holds the message that is lost
  in that step, or it is the body slot of a message of length 0 in the hands of a thread
  (`PassedOver`). That the second case occurs, with no loss, is run `path_empty`.

`HttpCellProofs` and `RunnerProofs`, for any services, groups, calls and failures, any pools, rounds
and requests:

* `RequestsAccounted`: `Spec => []RunnerInv`. The properties look at ends (an answer, a report), and
  say nothing of the middle. `TreeInv` says of every call what its thread, its open groups and the
  calls below it are, and that a failure below has been seen or will be; `Counts` ties `pending`,
  `processed` and the errors of a round to the requests in each place, `Somewhere` and `Apart`
  say that a request is in one place at a time, and `Known` what a reported result came from.
* The argument: a step of a cell changes the tree in one of a few shapes (`Changes` of one call,
  `Opens` of new ones); that each shape keeps `TreeInv` is shown once (`CellKeeps`,
  `CellGrows`), and the Runner relies only on that. `TypeCorrect`, `FailuresReachClient`,
  `NothingBehind`, `TimingErrors` and `RoundsReported` follow, the last for the step that ends a
  round.

`EventLoopProofs`, for any requests, any graphs of any width and depth, any number of threads,
submissions that raise, answers that are lost and responses that are dropped:

* The engine: `ContextInv` is an invariant of every context, kept by each single call. `Shape` and
  `MarksInv` say what the stack of calls can be: steps of pipes to execute, all of them pending and
  under running containers, and on top perhaps one step that has ended and whose parent is to be
  told. `ContainerAt` says where each order is and what each pipe waits for, with the calls on the
  stack in mind: a pipe that is running has a step that has not ended, or one that is about to be
  reported. `UpInv` says that all above a running node run, so a root that has ended leaves nothing
  running; `LeafInv` and `WaitingInv` tie a leaf to the results it was sent; `FailInv`, with
  `SpineInv`, says that after a failure no pipe is above nothing runs any more and the result that
  was stored last is bad, up to the response. With an empty stack `ContextInv` implies that every
  node is where `Meaning` puts it (`NodeMeans`) and that what is waited for is what is due
  (`DueOf`). Induction over the graph is not needed: each call disturbs a node, its parent and its
  steps.
* `LoopKeeps`: `Spec => []LoopInv`. `EnginesInv` has `ContextInv` for every context and nothing
  pending for those whose turn it is not; `LinksInv` says that the entries of
  `egress_to_ingress`, what is under way, in the ring or lost, and the futures of an active request
  are exactly what its context asks for, and that nothing is left of one that was answered.
* `LoopTypes`, `EngineIsFaithful`, `NothingForgotten`, `NothingTwice`, `AnswersAreFinal` and
  `FailuresReported` follow.
* `OneMeaning`: of the labellings of a graph, no more than one agrees with `Meaning` everywhere.
  Take two. At the first node where they differ, both or neither have reached it
  (`SameReached`), so both have, or it would be pending in both. A node they have both reached
  and where they differ is a container, and they differ at a step of it that both have reached
  (`StepDiffers`). So there is no deepest one, in a finite graph. "First" and "deepest"
  (`Earliest`, `Deepest`) are taken from the library's theorem that a well-founded relation has
  minimal elements, for inclusion of finite sets, as induction is not at hand. With
  `EngineIsFaithful`, `OrderDoesNotMatter` follows: the place of a request is a function of its
  graph and of the set of its results (`SameResultsSamePlace`, which no run checks).

Only model-checked: liveness (`CallsReturn`, `AllAnswered`, `AllSettled`, `Discovered`, `RunEnds`),
which is out of the prover's reach. Every invariant and every safety property of the passing runs
is proved. That a handler's calls end is an induction over the graph; TLC sees it in `AllAnswered`.

## 6. Not modelled, and why

* Generators, deployer, autopilot, add-ons, monitoring: sequential scripts that write
  files or call Kubernetes.
* `StepRegistry` and `requests.py`: not used in graph mode, or only raise.
* `InternalServiceExecutor.py`: burns CPU, memory and disk.
* `FileLock` whose file cannot be opened goes on without the lock (common.py 166): needs an
  error of the environment, after which every operation is unlocked.
* The DPU daemon that finds the DPU files of the last life before the DPA has removed them
  (dpu_daemon.py 84-93), and a DPA that boots while workers have messages under way: `DataPath`
  starts when all are up.
* Workers of one name at the same time; names end in the process id of a worker.
* Of the cells: the parsing of requests, metrics, headers, the choice of the internal service
  (CellController-mp.py 124-125 tests for the key `internal_services` and reads
  `internal_service`), the gRPC server, gunicorn's restarts.
* Of the Runner: times, latencies, the parameters and the function called after a workload.

## 7. Plan

In this order, the most important behaviour first:

1. *(done)* `BoundedQueue`, `DescriptorRing`, their refinement and its proof.
2. *(done)* `BufferPool` and its proof.
3. *(done)* `DataPath` and its proof.
4. *(done)* `ExecutionContext` with its reference meaning.
5. *(done)* `EventLoop`.
6. *(done)* `PodRegistry` and its proof.
7. *(done)* `HttpCell` and `Runner` and their proof.
8. *(done)* The engine call by call, and the proof of `EventLoop`.

## 8. How to run

    tlc -config DescriptorRing.cfg MC_DescriptorRing      # run ring
    tlc -config BufferPool.cfg MC_BufferPool              # run pool; _threads, _bits, _latestart
    tlc -config DataPath_rings.cfg MC_DataPath            # _pools, _empty
    tlc -config EventLoop.cfg MC_EventLoop                # run loop
    tlc -config PodRegistry.cfg MC_PodRegistry            # run registry; _restart
    tlc -config Runner.cfg MC_Runner                      # run bench
    tlapm DescriptorRingProofs.tla
    tlapm BufferPoolProofs.tla
    tlapm PodRegistryProofs.tla
    tlapm EventLoopProofs.tla
    tlapm DataPathProofs.tla
    tlapm DataPathLossProofs.tla
    tlapm HttpCellProofs.tla
    tlapm RunnerProofs.tla

Definitions marked `Mutant:` are slips that a programmer could make in the operation
below them; `mutants` in `PROJECT.json` names the property each one violates.
