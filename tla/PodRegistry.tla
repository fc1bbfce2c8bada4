---------------------------- MODULE PodRegistry ----------------------------
(***************************************************************************)
(* How the processes of a node find each other: workers draw a pod id from *)
(* a counter file and enter themselves into a registry file; the DPA       *)
(* daemon, when it boots, removes every file of the mesh and starts the    *)
(* two afresh.  Its scanner, the threads of the DPU daemon and the workers *)
(* that answer other workers look pods up in the registry.                 *)
(* The model begins when the DPA is down, over the files of its last life. *)
(*                                                                         *)
(* Who has opened a file that is then removed, a lock file above all, goes *)
(* on with an inode nobody else will open: inode 0 before the boot, 1      *)
(* after it.  open(..., 'w') truncates, and what was dumped is written     *)
(* when the file is closed, so the two are steps of their own.             *)
(***************************************************************************)
EXTENDS Integers, FiniteSets

CONSTANTS
    Workers,        \* worker processes; one that restarts is a new process
    Names, NameOf,  \* the name each registers under
    Services, ServiceOf,
    Routers,        \* the threads of the DPU daemon: its router, one per client
    Lookers,        \* who looks pods up: Routers, and workers that answer workers
    RandomIds,      \* what random.randint(1000, 9999) may return
    OldCounters, OldTables,     \* what the last life of the DPA may have left
    Early, Mortal,  \* who may start before the DPA is up, and who may be killed
    None

Processes == Workers \cup Routers
Entries == [pod_id : Nat, service : Services]
NoEntry == [pod_id |-> -1, service |-> None]
Tables == [Names -> Entries \cup {NoEntry}]
NoNames == [n \in Names |-> NoEntry]
Entry(i, s) == [pod_id |-> i, service |-> s]

\* A counter file that is not there, and one that is empty; a number else.
Absent == -2
Torn   == -1
Counters == {Absent, Torn} \cup Nat

\* A registry file; one that is not a table does not parse, and reads as NoNames.
File(state, table) == [state |-> state, table |-> table]
NoFile  == File("absent", NoNames)
Empty   == File("empty", NoNames)
Corrupt == File("corrupt", NoNames)
Table(t) == File("table", t)
Files == [state : {"absent", "empty", "corrupt", "table"}, table : Tables]
Readable(f) == f.state = "table" \/ f.table = NoNames

ASSUME PodRegistryAssumption ==
    /\ Routers \cap Workers = {} /\ Lookers \subseteq Workers \cup Routers
    /\ NameOf \in [Workers -> Names] /\ ServiceOf \in [Workers -> Services]
    /\ None \notin Workers /\ None \notin Services
    /\ RandomIds \subseteq 1000 .. 9999
    /\ OldCounters \subseteq Counters
    /\ Early \subseteq Workers /\ Mortal \subseteq Workers
    /\ \A f \in OldTables : f \in Files /\ Readable(f)

VARIABLES
    counter,    \* /dev/shm/dpumesh_pod_id_counter
    registry,   \* /dev/shm/dpumesh_pod_registry
    podFiles,   \* the rings of workers: <<pod id, the worker that created them>>
    task, at,   \* what a process does, and where in it it is
    lock, out,  \* the inodes of the lock file and of the file it has open
    pod_id, data,   \* what it has computed from what it has read
    pools, rings,   \* the service whose pools a worker uses, the rings it has
    dpa,        \* phase of the DPA
    cache,      \* _known_pods with their rings in _pod_cache
    safe, strays, passing   \* history: see below

files   == <<counter, registry, podFiles>>
worker  == <<pod_id, data, pools, rings>>
history == <<safe, strays, passing>>
vars == <<files, task, at, lock, out, worker, dpa, cache, history>>

IsUp(p) == task[p] \in {"up", "look"}
Running(w) == task[w] \notin {"off", "dead"}
Busy(p) == task[p] \notin {"off", "up", "dead"}
Booting == dpa \notin {"off", "up"}
Inode == IF dpa = "off" THEN 0 ELSE 1

(***************************************************************************)
(* strays are the workers that were starting while the DPA booted, for     *)
(* good, as they may have entered an id of the last life.  passing are     *)
(* those that were looking a pod up while the DPA booted, until they have  *)
(* their answer: one may still make a registry file, over the new one.     *)
(* safe are the workers that have started when the DPA was up and there    *)
(* was neither, and whose registration has not been lost with a process    *)
(* that was killed while it was writing the registry.                      *)
(***************************************************************************)

Init ==
    /\ counter \in OldCounters /\ registry \in OldTables /\ podFiles = {}
    /\ task = [p \in Processes |-> IF p \in Routers THEN "up" ELSE "off"]
    /\ at = [p \in Processes |-> "idle"]
    /\ lock = [p \in Processes |-> 0] /\ out = [p \in Processes |-> 0]
    /\ pod_id = [w \in Workers |-> 0] /\ data = [w \in Workers |-> NoNames]
    /\ pools = [w \in Workers |-> None] /\ rings = [w \in Workers |-> None]
    /\ dpa = "off" /\ cache = {}
    /\ safe = {} /\ strays = {} /\ passing = {}

(***************************************************************************)
(* The parts all operations share.                                         *)
(***************************************************************************)

GoTo(p, t, a) == task' = [task EXCEPT ![p] = t] /\ at' = [at EXCEPT ![p] = a]
Close(p) == lock' = [lock EXCEPT ![p] = 0] /\ out' = [out EXCEPT ![p] = 0]

\* FileLock.__enter__(): open() creates the file if need be, flock() may have to wait.
\* Nobody holds an flock on inode i of a lock file but to write the file it is for.
Open(p) == lock' = [lock EXCEPT ![p] = Inode]
Holds(q, t, i) == task[q] = t /\ at[q] = "write" /\ lock[q] = i

\* Mutant: the lock is taken whoever holds it.
LockedBusy(p, t) == task[p] = t /\ at[p] = "wait"
Locked(p, t) == task[p] = t /\ at[p] = "wait" /\ \A q \in Processes : ~Holds(q, t, lock[p])
RegistryLocked(i) == \E q \in Processes : Holds(q, "register", i)

\* The text of t, written from the start of a file that may have got another
\* text since it was truncated: the longer one's tail stays behind.  A file that
\* has been removed meanwhile takes the text with it.
Dumped(t) ==
    IF registry \in {NoFile, Empty, Table(NoNames)} THEN {Table(t)}
    ELSE IF t = NoNames THEN {Corrupt} ELSE {Table(t), Corrupt}
Dump(p, t) == IF out[p] = Inode THEN registry' \in Dumped(t) ELSE UNCHANGED registry

\* PodRegistry._ensure_files() tests without the lock.  If the file is there the lock
\* is opened next.
EnsureTest(p) ==
    /\ at[p] = "test"
    /\ \/ registry = NoFile /\ at' = [at EXCEPT ![p] = "make"] /\ UNCHANGED lock
       \/ registry # NoFile /\ at' = [at EXCEPT ![p] = "wait"] /\ Open(p)
    /\ UNCHANGED <<files, task, out, worker, dpa, cache, history>>

EnsureMake(p) ==
    /\ at[p] = "make"
    /\ at' = [at EXCEPT ![p] = "dump"]
    /\ registry' = Empty /\ out' = [out EXCEPT ![p] = Inode]
    /\ UNCHANGED <<counter, podFiles, task, lock, worker, dpa, cache, history>>

EnsureDump(p) ==
    /\ at[p] = "dump"
    /\ Dump(p, NoNames)
    /\ at' = [at EXCEPT ![p] = "wait"] /\ Open(p)
    /\ UNCHANGED <<counter, podFiles, task, out, worker, dpa, cache, history>>

Ensure(p) == EnsureTest(p) \/ EnsureMake(p) \/ EnsureDump(p)

(***************************************************************************)
(* A worker: init_worker().                                                *)
(***************************************************************************)

\* Two containers of one service on one node, whose processes have equal numbers,
\* have one name: they are left out.
Start(w) ==
    /\ task[w] = "off" /\ (w \in Early \/ dpa = "up")
    /\ \A v \in Workers : Running(v) => NameOf[v] # NameOf[w]
    /\ GoTo(w, "alloc", "wait") /\ Open(w)
    /\ strays' = IF Booting THEN strays \cup {w} ELSE strays
    /\ safe' = IF dpa = "up" /\ strays = {} /\ passing = {} THEN safe \cup {w} ELSE safe
    /\ UNCHANGED <<files, out, worker, dpa, cache, passing>>

\* _alloc_pod_id(): a counter that does not parse means a random id; else it is read,
\* truncated and, later, written.
RandomId(w) ==
    /\ Locked(w, "alloc") /\ counter = Torn
    /\ \E i \in RandomIds : pod_id' = [pod_id EXCEPT ![w] = i]
    /\ GoTo(w, "find", "test") /\ Close(w)
    /\ UNCHANGED <<files, data, pools, rings, dpa, cache, history>>

\* Mutant: a counter file that is missing is not told from one that is there.
ReadCounterMissing(w) ==
    /\ Locked(w, "alloc") /\ counter # Torn
    /\ pod_id' = [pod_id EXCEPT ![w] = counter + 1]
    /\ counter' = Torn /\ out' = [out EXCEPT ![w] = Inode]
    /\ GoTo(w, "alloc", "write")
    /\ UNCHANGED <<registry, podFiles, lock, data, pools, rings, dpa, cache, history>>

ReadCounter(w) ==
    /\ Locked(w, "alloc") /\ counter # Torn
    /\ pod_id' = [pod_id EXCEPT ![w] = (IF counter = Absent THEN 0 ELSE counter) + 1]
    /\ counter' = Torn /\ out' = [out EXCEPT ![w] = Inode]
    /\ GoTo(w, "alloc", "write")
    /\ UNCHANGED <<registry, podFiles, lock, data, pools, rings, dpa, cache, history>>

\* Mutant: what was read is written back.
WriteCounterOld(w) ==
    /\ task[w] = "alloc" /\ at[w] = "write"
    /\ counter' = IF out[w] = Inode THEN pod_id[w] - 1 ELSE counter
    /\ GoTo(w, "find", "test") /\ Close(w)
    /\ UNCHANGED <<registry, podFiles, worker, dpa, cache, history>>

WriteCounter(w) ==
    /\ task[w] = "alloc" /\ at[w] = "write"
    /\ counter' = IF out[w] = Inode THEN pod_id[w] ELSE counter
    /\ GoTo(w, "find", "test") /\ Close(w)
    /\ UNCHANGED <<registry, podFiles, worker, dpa, cache, history>>

\* PodResources(pod_id, create=True): the pools of the service the registry has for
\* the id, or of the worker's own; rings that exist already are taken over.
ServicesOf(i) == {registry.table[n].service : n \in {m \in Names : registry.table[m].pod_id = i}}
RingsOf(i)    == {v \in Workers : <<i, v>> \in podFiles}

CreateResources(w) ==
    /\ task[w] = "find" /\ at[w] = "wait" /\ ~RegistryLocked(lock[w])
    /\ \E s \in IF ServicesOf(pod_id[w]) = {} THEN {ServiceOf[w]} ELSE ServicesOf(pod_id[w]) :
            pools' = [pools EXCEPT ![w] = s]
    /\ \E v \in IF RingsOf(pod_id[w]) = {} THEN {w} ELSE RingsOf(pod_id[w]) :
            /\ rings' = [rings EXCEPT ![w] = v]
            /\ podFiles' = podFiles \cup {<<pod_id[w], v>>}
    /\ GoTo(w, "register", "test") /\ Close(w)
    /\ UNCHANGED <<counter, registry, pod_id, data, dpa, cache, history>>

\* PodRegistry.register(): a registry that does not parse counts as an empty one.
ReadRegistry(w) ==
    /\ Locked(w, "register")
    /\ data' = [data EXCEPT ![w] =
                    [registry.table EXCEPT ![NameOf[w]] = Entry(pod_id[w], ServiceOf[w])]]
    /\ registry' = Empty /\ out' = [out EXCEPT ![w] = Inode]
    /\ at' = [at EXCEPT ![w] = "write"]
    /\ UNCHANGED <<counter, podFiles, task, lock, pod_id, pools, rings, dpa, cache, history>>

WriteRegistry(w) ==
    /\ task[w] = "register" /\ at[w] = "write"
    /\ Dump(w, data[w])
    /\ data' = [data EXCEPT ![w] = NoNames]
    /\ GoTo(w, "up", "idle") /\ Close(w)
    /\ UNCHANGED <<counter, podFiles, pod_id, pools, rings, dpa, cache, history>>

\* A worker is killed: the kernel drops its lock, what it has truncated stays so, and
\* so do its rings and its entry.
Rewrites(w) == task[w] = "register" /\ at[w] = "write" /\ out[w] = Inode
Kill(w) ==
    /\ w \in Mortal /\ Running(w)
    /\ GoTo(w, "dead", "idle") /\ Close(w)
    /\ pod_id' = [pod_id EXCEPT ![w] = 0] /\ data' = [data EXCEPT ![w] = NoNames]
    /\ pools' = [pools EXCEPT ![w] = None] /\ rings' = [rings EXCEPT ![w] = None]
    /\ safe' = {v \in safe \ {w} : ~(Rewrites(w) /\ IsUp(v))}
    /\ passing' = passing \ {w}
    /\ UNCHANGED <<files, dpa, cache, strays>>

(***************************************************************************)
(* A lookup: WorkerSelector.select(), for the router or a client, and      *)
(* get_pod_id(), for the router and for a worker's answer to a worker.     *)
(***************************************************************************)

Look(p) ==
    /\ p \in Lookers /\ task[p] = "up"
    /\ GoTo(p, "look", "test")
    /\ passing' = IF Booting THEN passing \cup {p} ELSE passing
    /\ UNCHANGED <<files, lock, out, worker, dpa, cache, safe, strays>>

\* What get_workers_by_service() and get_pod_id() find in the file.
WorkersByService(s) ==
    {registry.table[n].pod_id : n \in {m \in Names : registry.table[m].service = s}}
PodIdOf(n) == registry.table[n].pod_id

\* Mutant: the registry is read without the lock.
LookedUnlocked(p) ==
    /\ task[p] = "look" /\ at[p] = "wait"
    /\ GoTo(p, "up", "idle") /\ Close(p)
    /\ passing' = passing \ {p}
    /\ UNCHANGED <<files, worker, dpa, cache, safe, strays>>

Looked(p) ==
    /\ task[p] = "look" /\ at[p] = "wait" /\ ~RegistryLocked(lock[p])
    /\ GoTo(p, "up", "idle") /\ Close(p)
    /\ passing' = passing \ {p}
    /\ UNCHANGED <<files, worker, dpa, cache, safe, strays>>

(***************************************************************************)
(* The DPA daemon.                                                         *)
(***************************************************************************)

\* Mutant: the rings of the last life are left where they are.
BootKeepsRings ==
    /\ dpa = "off" /\ dpa' = "count"
    /\ counter' = Absent /\ registry' = NoFile
    /\ passing' = {p \in Processes : task[p] = "look"}
    /\ strays' = {w \in Workers : Busy(w)} \ passing'
    /\ UNCHANGED <<podFiles, task, at, lock, out, worker, cache, safe>>

\* DMAManager.run(): what glob() finds is removed, files, lock files and rings, in one
\* step; only who is in the middle of an operation could tell.
Boot ==
    /\ dpa = "off" /\ dpa' = "count"
    /\ counter' = Absent /\ registry' = NoFile /\ podFiles' = {}
    /\ passing' = {p \in Processes : task[p] = "look"}
    /\ strays' = {w \in Workers : Busy(w)} \ passing'
    /\ UNCHANGED <<task, at, lock, out, worker, cache, safe>>

\* open(counter, 'w') and write("0"), then PodRegistry.clear(): without a lock.
DpaStep(from, to) ==
    /\ dpa = from /\ dpa' = to
    /\ UNCHANGED <<podFiles, task, at, lock, out, worker, cache, history>>

TruncateCounter  == DpaStep("count", "reset") /\ counter' = Torn /\ UNCHANGED registry
ResetCounter     == DpaStep("reset", "clear") /\ counter' = 0 /\ UNCHANGED registry
TruncateRegistry == DpaStep("clear", "dump") /\ registry' = Empty /\ UNCHANGED counter
ClearRegistry    == DpaStep("dump", "up") /\ registry' \in Dumped(NoNames) /\ UNCHANGED counter

\* Mutant: the scanner looks only until it has found a pod.
ScanPodsOnce ==
    /\ dpa = "up" /\ ~RegistryLocked(Inode) /\ cache = {}
    /\ cache' = {f \in podFiles : \E n \in Names : registry.table[n].pod_id = f[1]}
    /\ UNCHANGED <<files, task, at, lock, out, worker, dpa, history>>

\* _scan_pods(), once a second, under the lock; _get_pod_resources() of the polling
\* threads then opens the rings of the pods that are known and keeps them for good.
ScanPods ==
    /\ dpa = "up" /\ ~RegistryLocked(Inode)
    /\ cache' = cache \cup {f \in podFiles :
                    /\ \E n \in Names : registry.table[n].pod_id = f[1]
                    /\ \A c \in cache : c[1] # f[1]}
    /\ UNCHANGED <<files, task, at, lock, out, worker, dpa, history>>

Granted(w) == RandomId(w) \/ ReadCounter(w) \/ CreateResources(w) \/ ReadRegistry(w)
Written(w) == WriteCounter(w) \/ WriteRegistry(w)
DpaBoots == Boot \/ TruncateCounter \/ ResetCounter \/ TruncateRegistry \/ ClearRegistry

Next ==
    \/ \E p \in Processes : Ensure(p) \/ Look(p) \/ Looked(p)
    \/ \E w \in Workers : Start(w) \/ Granted(w) \/ Written(w) \/ Kill(w)
    \/ DpaBoots \/ ScanPods

Spec == Init /\ [][Next]_vars

\* A worker that starts runs, and gets a lock that becomes free over and over some
\* time; so does the scanner.
Starts(w) == Ensure(w) \/ Granted(w) \/ Written(w)
Fairness == (\A w \in Workers : SF_vars(Starts(w))) /\ SF_vars(ScanPods)
FairSpec == Spec /\ Fairness

(***************************************************************************)
(* Properties.                                                             *)
(***************************************************************************)

\* Every variable has its type.
TypeOK ==
    /\ counter \in Counters /\ registry \in Files /\ Readable(registry)
    /\ podFiles \subseteq Nat \X Workers
    /\ task \in [Processes -> {"off", "alloc", "find", "register", "look", "up", "dead"}]
    /\ at \in [Processes -> {"idle", "test", "make", "dump", "wait", "write"}]
    /\ lock \in [Processes -> {0, 1}] /\ out \in [Processes -> {0, 1}]
    /\ pod_id \in [Workers -> Nat] /\ data \in [Workers -> Tables]
    /\ pools \in [Workers -> Services \cup {None}] /\ rings \in [Workers -> Workers \cup {None}]
    /\ dpa \in {"off", "count", "reset", "clear", "dump", "up"}
    /\ cache \subseteq Nat \X Workers
    /\ safe \subseteq Workers /\ strays \subseteq Workers /\ passing \subseteq Processes

HasId(w) == task[w] \in {"find", "register"} \/ IsUp(w) \/ at[w] = "write"

\* Two workers never have one pod id, unless it is a random one, which they draw
\* after a worker was killed with the counter file truncated (_alloc_pod_id()).
IdsDiffer ==
    \A v, w \in safe : v # w /\ HasId(v) /\ HasId(w) /\ pod_id[v] = pod_id[w]
                            => pod_id[w] \in RandomIds

\* A worker that is up is in the registry, with its id and its service, whenever
\* nobody is rewriting the file: no register() overwrites what another has entered.
Findable ==
    \A w \in safe : IsUp(w) /\ ~RegistryLocked(1)
        => registry.state = "table" /\ registry.table[NameOf[w]] = Entry(pod_id[w], ServiceOf[w])

\* PodResources() gives a worker the pools of its own service and rings that it shares
\* with nobody that runs, also when others have died before it or run on from before
\* the boot; and the rings the DPA polls under its id are its rings.
OwnResources ==
    \A w \in safe : rings[w] # None /\ pod_id[w] \notin RandomIds =>
        /\ pools[w] = ServiceOf[w]
        /\ \A v \in Workers \ {w} : Running(v) => rings[v] # rings[w]
        /\ \A c \in cache : c[1] = pod_id[w] => c[2] = rings[w]

\* Nobody who looks up is told that a service has no worker, or not all, or that a
\* worker is unknown, because the registry is being rewritten: the DPU daemon would
\* answer 503, or drop an answer.
NoFalseRefusal ==
    [][\A p \in Lookers : task[p] = "look" /\ task'[p] = "up" /\ p \notin passing
        => \A w \in safe : IsUp(w) => /\ pod_id[w] \in WorkersByService(ServiceOf[w])
                                      /\ PodIdOf(NameOf[w]) = pod_id[w]]_vars

\* A worker that starts comes up, also when others were killed with a lock held, and
\* the DPA finds it and opens its rings (if it is not killed or lost before).
Discovered ==
    \A w \in Workers : w \in safe ~> w \notin safe \/ <<pod_id[w], rings[w]>> \in cache

\* README-API.md:661-665 restarts the daemons and the workers together: when all of
\* them are up, every worker is in the registry.
Assembled ==
    dpa = "up" /\ (\A p \in Processes : ~Busy(p)) =>
        \A w \in Workers : task[w] = "up" => registry.table[NameOf[w]].pod_id = pod_id[w]
=============================================================================
