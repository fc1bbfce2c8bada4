------------------------- MODULE PodRegistryProofs -------------------------
(***************************************************************************)
(* Proofs about PodRegistry, for any workers, names, services, random ids  *)
(* and leftovers.                                                          *)
(***************************************************************************)
EXTENDS PodRegistry, TLAPS

(***************************************************************************)
(* The inductive invariant.                                                *)
(***************************************************************************)

\* What the boot has done so far.
PhaseInv ==
    /\ dpa \in {"reset", "clear", "dump", "up"} => counter # Absent
    /\ dpa \in {"dump", "up"} => registry.state # "absent"
    /\ safe # {} => dpa = "up" /\ strays = {} /\ passing = {}
    /\ \A p \in passing : task[p] = "look"

\* Where a process is in its task.
LocalInv ==
    /\ \A p \in Routers : task[p] \in {"up", "look"}
    /\ \A p \in Processes :
        /\ task[p] \in {"off", "up", "dead"} => at[p] = "idle"
        /\ task[p] = "alloc" => at[p] \in {"wait", "write"}
        /\ task[p] \in {"find", "look"} => at[p] \in {"test", "make", "dump", "wait"}
        /\ task[p] = "register" => at[p] \in {"test", "make", "dump", "wait", "write"}

\* Whoever is busy after the boot, and was not during it, has the new inodes.
Starting(p) == task[p] \in {"alloc", "find", "register"}
Caught(p) == (Starting(p) /\ p \in strays) \/ (task[p] = "look" /\ p \in passing)
EraInv ==
    /\ Booting => \A p \in Processes : Busy(p) => Caught(p)
    /\ dpa = "up" => \A p \in Processes : Busy(p) /\ ~Caught(p) =>
            /\ at[p] \notin {"make", "dump"}
            /\ at[p] \in {"wait", "write"} => lock[p] = 1
            /\ at[p] = "write" => out[p] = 1

\* A file of an inode is written by one at a time.
MutexInv ==
    \A p, q \in Processes :
        at[p] = "write" /\ at[q] = "write" /\ task[p] = task[q] /\ lock[p] = lock[q] => p = q

NamesInv ==
    \A v, w \in Workers : v # w /\ Running(v) /\ Running(w) => NameOf[v] # NameOf[w]

Numbered(w) == (task[w] \in {"find", "register"} \/ IsUp(w)) /\ pod_id[w] \notin RandomIds
Numbering(q) == task[q] = "alloc" /\ at[q] = "write"

\* No number below the counter, or below the one that is being written, is given
\* again.  The counter is empty while a number is being written: also while somebody
\* is passing, who may be gone before the number is written.
CounterInv ==
    /\ dpa = "up" /\ strays = {} =>
        \A q \in Workers : Numbering(q) => counter = Torn
    /\ \A w \in safe : Numbered(w) =>
        /\ counter # Torn => pod_id[w] <= counter
        /\ \A q \in Workers : Numbering(q) => pod_id[w] < pod_id[q]

Registering(q) == task[q] = "register" /\ at[q] = "write"

\* Who rewrites the registry knows all entries, and its own; the file is empty
\* meanwhile, unless somebody who is passing puts the empty table in it.
RegistryInv ==
    \A q \in Workers : Registering(q) =>
        /\ data[q][NameOf[q]] = Entry(pod_id[q], ServiceOf[q])
        /\ \A w \in safe : IsUp(w) => data[q][NameOf[w]] = Entry(pod_id[w], ServiceOf[w])
        /\ dpa = "up" /\ strays = {} => registry \in {Empty, Table(NoNames)}

RegInv ==
    /\ TypeOK /\ PhaseInv /\ LocalInv /\ EraInv /\ MutexInv /\ NamesInv
    /\ CounterInv /\ IdsDiffer
    /\ RegistryInv /\ Findable

(***************************************************************************)
(* Lemmas.                                                                 *)
(***************************************************************************)

\* The files there can be.
LEMMA FileFacts ==
    /\ NoNames \in Tables
    /\ NoFile \in Files /\ Empty \in Files /\ Corrupt \in Files
    /\ Readable(NoFile) /\ Readable(Empty) /\ Readable(Corrupt)
    /\ NoFile.state = "absent" /\ Empty.state = "empty" /\ Corrupt.state = "corrupt"
    /\ \A t \in Tables : /\ Table(t) \in Files /\ Readable(Table(t))
                          /\ Table(t).state = "table" /\ Table(t).table = t
BY DEF NoNames, Tables, Entries, NoEntry, File, NoFile, Empty, Corrupt, Table, Files, Readable

\* What dump() leaves is a file, and one that is there.
LEMMA DumpedFacts ==
    ASSUME NEW t \in Tables, NEW f \in Dumped(t)
    PROVE  f \in Files /\ Readable(f) /\ f.state # "absent"
BY FileFacts DEF Dumped

\* A file without entries gets the table that is dumped into it.
LEMMA DumpedIntoEmpty ==
    ASSUME NEW t \in Tables, registry \in {Empty, Table(NoNames)}
    PROVE  Dumped(t) = {Table(t)}
BY DEF Dumped

\* The assumptions but for those on random ids and on what has been left behind.
LEMMA Constants ==
    /\ Routers \cap Workers = {} /\ Lookers \subseteq Workers \cup Routers
    /\ None \notin Workers /\ None \notin Services
    /\ NameOf \in [Workers -> Names] /\ ServiceOf \in [Workers -> Services]
BY PodRegistryAssumption

\* A random id is a pod id like others.
LEMMA RandomIdsAreIds == RandomIds \subseteq Nat
<1>1. RandomIds \subseteq 1000 .. 9999
  BY PodRegistryAssumption
<1>2. \A i \in 1000 .. 9999 : i \in Nat
  OBVIOUS
<1>3. QED
  BY <1>1, <1>2

\* A table with the entry of a worker.
LEMMA EntryInTable ==
    ASSUME NEW t \in Tables, NEW w \in Workers, NEW i \in Nat
    PROVE  /\ [t EXCEPT ![NameOf[w]] = Entry(i, ServiceOf[w])] \in Tables
           /\ [t EXCEPT ![NameOf[w]] = Entry(i, ServiceOf[w])][NameOf[w]] = Entry(i, ServiceOf[w])
           /\ \A v \in Workers : NameOf[v] # NameOf[w] =>
                [t EXCEPT ![NameOf[w]] = Entry(i, ServiceOf[w])][NameOf[v]] = t[NameOf[v]]
<1>1. NameOf[w] \in Names /\ Entry(i, ServiceOf[w]) \in Entries
  BY Constants DEF Entry, Entries
<1>2. QED
  BY <1>1, Constants DEF Tables
(***************************************************************************)
(* Types.                                                                  *)
(***************************************************************************)

LEMMA InitType == ASSUME Init PROVE TypeOK
BY PodRegistryAssumption, FileFacts
   DEF Init, TypeOK, Processes, Counters, Files, NoNames, Tables

\* What a worker leaves that is killed.
LEMMA KillFacts ==
    ASSUME NEW w \in Workers, Kill(w)
    PROVE  /\ task' = [task EXCEPT ![w] = "dead"] /\ at' = [at EXCEPT ![w] = "idle"]
           /\ lock' = [lock EXCEPT ![w] = 0] /\ out' = [out EXCEPT ![w] = 0]
           /\ pod_id' = [pod_id EXCEPT ![w] = 0] /\ data' = [data EXCEPT ![w] = NoNames]
           /\ pools' = [pools EXCEPT ![w] = None] /\ rings' = [rings EXCEPT ![w] = None]
           /\ UNCHANGED <<counter, registry, podFiles, dpa, cache, strays>>
           /\ safe' \subseteq safe \ {w} /\ passing' = passing \ {w}
<1>1. safe' \subseteq safe \ {w}
  BY DEF Kill
<1>2. QED
  BY <1>1 DEF Kill, GoTo, Close, files

LEMMA KillType == ASSUME TypeOK, NEW w \in Workers, Kill(w) PROVE TypeOK'
<1>1. /\ lock' \in [Processes -> {0, 1}] /\ out' \in [Processes -> {0, 1}]
      /\ pod_id' \in [Workers -> Nat]
  <2>1. /\ lock' = [lock EXCEPT ![w] = 0] /\ out' = [out EXCEPT ![w] = 0]
        /\ pod_id' = [pod_id EXCEPT ![w] = 0]
    BY KillFacts
  <2>2. QED
    BY <2>1 DEF TypeOK, Processes
<1>2. /\ data' \in [Workers -> Tables] /\ pools' \in [Workers -> Services \cup {None}]
      /\ rings' \in [Workers -> Workers \cup {None}]
  <2>1. /\ data' = [data EXCEPT ![w] = NoNames]
        /\ pools' = [pools EXCEPT ![w] = None] /\ rings' = [rings EXCEPT ![w] = None]
    BY KillFacts
  <2>2. QED
    BY <2>1, FileFacts DEF TypeOK
<1>3. /\ task' = [task EXCEPT ![w] = "dead"] /\ at' = [at EXCEPT ![w] = "idle"]
      /\ UNCHANGED <<counter, registry, podFiles, dpa, cache, strays>>
      /\ safe' \subseteq safe \ {w} /\ passing' = passing \ {w}
  BY KillFacts
<1>4. QED
  BY <1>1, <1>2, <1>3 DEF TypeOK, Processes

LEMMA StepType == ASSUME TypeOK, [Next]_vars PROVE TypeOK'
<1> USE Constants DEF TypeOK, GoTo, Close, Open, Processes, Inode
<1>1. ASSUME NEW p \in Processes, EnsureTest(p) PROVE TypeOK'
  <2>1. at' \in [Processes -> {"idle", "test", "make", "dump", "wait", "write"}]
        /\ lock' \in [Processes -> {0, 1}]
    BY <1>1 DEF EnsureTest
  <2>2. QED
    BY <1>1, <2>1 DEF EnsureTest, files, worker, history
<1>2. ASSUME NEW p \in Processes, EnsureMake(p) PROVE TypeOK'
  BY <1>2, FileFacts DEF EnsureMake, worker, history
<1>3. ASSUME NEW p \in Processes, EnsureDump(p) PROVE TypeOK'
  <2>1. registry' \in Files /\ Readable(registry')
    BY <1>3, FileFacts, DumpedFacts DEF EnsureDump, Dump
  <2>2. QED
    BY <1>3, <2>1 DEF EnsureDump, worker, history
<1>4. ASSUME NEW w \in Workers, Start(w) PROVE TypeOK'
  BY <1>4 DEF Start, files, worker, history
<1>5. ASSUME NEW w \in Workers, RandomId(w) PROVE TypeOK'
  BY <1>5, RandomIdsAreIds DEF RandomId, files, history
<1>6. ASSUME NEW w \in Workers, ReadCounter(w) PROVE TypeOK'
  <2>1. (IF counter = Absent THEN 0 ELSE counter) + 1 \in Nat
    BY <1>6 DEF ReadCounter, Counters, Absent, Torn
  <2>2. pod_id' \in [Workers -> Nat] /\ counter' \in Counters
    BY <1>6, <2>1 DEF ReadCounter, Counters
  <2>3. QED
    BY <1>6, <2>2 DEF ReadCounter, history
<1>7. ASSUME NEW w \in Workers, WriteCounter(w) PROVE TypeOK'
  <2>1. counter' \in Counters
    BY <1>7 DEF WriteCounter, Counters
  <2>2. QED
    BY <1>7, <2>1 DEF WriteCounter, worker, history
<1>8. ASSUME NEW w \in Workers, CreateResources(w) PROVE TypeOK'
  <2>1. \A n \in Names : registry.table[n] \in Entries \cup {NoEntry}
    BY DEF Files, Tables
  <2>2. \A n \in Names : registry.table[n].pod_id = pod_id[w] => registry.table[n].service \in Services
    BY <2>1 DEF Entries, NoEntry
  <2>3. ServicesOf(pod_id[w]) \subseteq Services
    BY <2>2 DEF ServicesOf
  <2>4. pools' \in [Workers -> Services \cup {None}]
    BY <1>8, <2>3 DEF CreateResources
  <2>5. RingsOf(pod_id[w]) \subseteq Workers
    BY DEF RingsOf
  <2>6. rings' \in [Workers -> Workers \cup {None}] /\ podFiles' \subseteq Nat \X Workers
    BY <1>8, <2>5 DEF CreateResources
  <2>7. QED
    BY <1>8, <2>4, <2>6 DEF CreateResources, history
<1>9. ASSUME NEW w \in Workers, ReadRegistry(w) PROVE TypeOK'
  <2>1. registry.table \in Tables
    BY DEF Files
  <2>2. data' \in [Workers -> Tables]
    BY <1>9, <2>1, EntryInTable DEF ReadRegistry
  <2>3. QED
    BY <1>9, <2>2, FileFacts DEF ReadRegistry, history
<1>10. ASSUME NEW w \in Workers, WriteRegistry(w) PROVE TypeOK'
  <2>1. registry' \in Files /\ Readable(registry')
    BY <1>10, DumpedFacts DEF WriteRegistry, Dump
  <2>2. QED
    BY <1>10, <2>1, FileFacts DEF WriteRegistry, history
<1>12. ASSUME NEW p \in Processes, Look(p) PROVE TypeOK'
  BY <1>12 DEF Look, files, worker
<1>13. ASSUME NEW p \in Processes, Looked(p) PROVE TypeOK'
  BY <1>13 DEF Looked, files, worker
<1>14. CASE DpaBoots
  <2>1. CASE Boot
    BY <2>1, FileFacts DEF Boot, worker, Counters
  <2>2. CASE TruncateCounter \/ ResetCounter
    BY <2>2 DEF TruncateCounter, ResetCounter, DpaStep, worker, history, Counters
  <2>3. CASE TruncateRegistry \/ ClearRegistry
    <3>1. registry' \in Files /\ Readable(registry')
      BY <2>3, FileFacts, DumpedFacts DEF TruncateRegistry, ClearRegistry
    <3>2. QED
      BY <2>3, <3>1 DEF TruncateRegistry, ClearRegistry, DpaStep, worker, history
  <2>4. QED
    BY <1>14, <2>1, <2>2, <2>3 DEF DpaBoots
<1>15. CASE ScanPods
  BY <1>15 DEF ScanPods, files, worker, history
<1>16. CASE UNCHANGED vars
  BY <1>16 DEF vars, files, worker, history
<1> HIDE DEF TypeOK, GoTo, Close, Open, Processes, Inode
<1>17. QED
  BY <1>1, <1>2, <1>3, <1>4, <1>5, <1>6, <1>7, <1>8, <1>9, KillType, <1>10, <1>12, <1>13,
     <1>14, <1>15, <1>16 DEF Next, Ensure, Granted, Written

\* Every variable of the registry's processes has its type.
THEOREM RegistryType == Spec => []TypeOK
<1>1. Init => TypeOK
  BY InitType
<1>2. TypeOK /\ [Next]_vars => TypeOK'
  BY StepType
<1>3. QED
  BY <1>1, <1>2, PTL DEF Spec
(***************************************************************************)
(* Control: where the processes and the boot are.                          *)
(***************************************************************************)

Control == TypeOK /\ PhaseInv /\ LocalInv /\ EraInv /\ MutexInv /\ NamesInv

LEMMA StepPhase == ASSUME Control, [Next]_vars PROVE PhaseInv'
<1> USE Constants DEF Control, PhaseInv
<1>1. ASSUME NEW p \in Processes, EnsureTest(p) \/ EnsureMake(p) PROVE PhaseInv'
  BY <1>1, FileFacts DEF EnsureTest, EnsureMake, files, worker, history
<1>2. ASSUME NEW p \in Processes, EnsureDump(p) PROVE PhaseInv'
  BY <1>2, DumpedFacts, FileFacts DEF EnsureDump, Dump, worker, history
<1>3. ASSUME NEW w \in Workers, Start(w) PROVE PhaseInv'
  <2>1. \A p \in passing : task[p] = "look" /\ p # w /\ task'[p] = task[p]
    BY <1>3 DEF Start, GoTo, TypeOK, Processes
  <2>2. QED
    BY <1>3, <2>1 DEF Start, files, worker, Booting
<1>4. ASSUME NEW w \in Workers, Granted(w) PROVE PhaseInv'
  <2>1. \A p \in passing : task[p] = "look" /\ p # w /\ task'[p] = task[p]
    BY <1>4 DEF Locked, Granted, RandomId, ReadCounter, CreateResources, ReadRegistry, GoTo, TypeOK, Processes
  <2>2. CASE ReadRegistry(w)
    BY <2>1, <2>2, FileFacts DEF ReadRegistry, history
  <2>3. CASE RandomId(w) \/ ReadCounter(w) \/ CreateResources(w)
    BY <2>1, <2>3 DEF RandomId, ReadCounter, CreateResources, files, history, Absent, Torn
  <2>4. QED
    BY <1>4, <2>2, <2>3 DEF Granted
<1>5. ASSUME NEW w \in Workers, WriteCounter(w) PROVE PhaseInv'
  BY <1>5 DEF WriteCounter, GoTo, worker, history, TypeOK, Processes, Absent
<1>6. ASSUME NEW w \in Workers, WriteRegistry(w) PROVE PhaseInv'
  <2>1. registry.state # "absent" => registry'.state # "absent"
    BY <1>6, DumpedFacts DEF WriteRegistry, Dump, TypeOK
  <2>2. QED
    BY <1>6, <2>1 DEF WriteRegistry, GoTo, history, TypeOK, Processes
<1>7. ASSUME NEW w \in Workers, Kill(w) PROVE PhaseInv'
  <2>1. /\ task' = [task EXCEPT ![w] = "dead"] /\ at' = [at EXCEPT ![w] = "idle"]
        /\ UNCHANGED <<counter, registry, dpa, strays>> /\ safe' \subseteq safe \ {w}
        /\ passing' = passing \ {w}
    BY <1>7, KillFacts
  <2>2. QED
    BY <2>1 DEF TypeOK, Processes
<1>8. ASSUME NEW p \in Processes, Look(p) \/ Looked(p) PROVE PhaseInv'
  BY <1>8 DEF Look, Looked, GoTo, files, worker, Booting, TypeOK, Processes
<1>9. CASE Boot
  BY <1>9 DEF Boot, LocalInv, Busy, worker
<1>10. CASE TruncateCounter \/ ResetCounter \/ TruncateRegistry
  BY <1>10, FileFacts DEF TruncateCounter, ResetCounter, TruncateRegistry, DpaStep, worker,
     history, Absent, Torn
<1>11. CASE ClearRegistry
  BY <1>11, FileFacts, DumpedFacts DEF ClearRegistry, DpaStep, worker, history
<1>12. CASE ScanPods \/ UNCHANGED vars
  BY <1>12 DEF ScanPods, vars, files, worker, history
<1>13. QED
  BY <1>1, <1>2, <1>3, <1>4, <1>5, <1>6, <1>7, <1>8, <1>9, <1>10, <1>11, <1>12
     DEF Next, Ensure, Written, DpaBoots

LEMMA StepLocal == ASSUME Control, [Next]_vars PROVE LocalInv'
<1> USE Constants DEF Control, LocalInv, TypeOK, Processes, GoTo
<1>1. ASSUME NEW p \in Processes, Ensure(p) PROVE LocalInv'
  <2>1. at[p] \in {"test", "make", "dump"}
    BY <1>1 DEF Ensure, EnsureTest, EnsureMake, EnsureDump
  <2>2. task' = task /\ \E a \in {"make", "dump", "wait"} : at' = [at EXCEPT ![p] = a]
    BY <1>1 DEF Ensure, EnsureTest, EnsureMake, EnsureDump
  <2>3. QED
    BY <2>1, <2>2
<1>3. ASSUME NEW w \in Workers, Start(w) \/ Written(w) PROVE LocalInv'
  <2>1. CASE Start(w)
    BY <2>1 DEF Start
  <2>2. CASE WriteCounter(w)
    BY <2>2 DEF WriteCounter
  <2>3. CASE WriteRegistry(w)
    BY <2>3 DEF WriteRegistry
  <2>4. QED
    BY <1>3, <2>1, <2>2, <2>3 DEF Written
<1>4. ASSUME NEW w \in Workers, RandomId(w) \/ ReadCounter(w) \/ CreateResources(w) PROVE LocalInv'
  <2>1. CASE RandomId(w)
    BY <2>1 DEF RandomId
  <2>2. CASE ReadCounter(w)
    BY <2>2 DEF ReadCounter
  <2>3. CASE CreateResources(w)
    BY <2>3 DEF CreateResources
  <2>4. QED
    BY <1>4, <2>1, <2>2, <2>3
<1>5. ASSUME NEW w \in Workers, ReadRegistry(w) PROVE LocalInv'
  <2>1. task[w] = "register" /\ task' = [task EXCEPT ![w] = "register"]
    BY <1>5 DEF ReadRegistry, Locked
  <2>2. QED
    BY <1>5, <2>1 DEF ReadRegistry
<1>6. ASSUME NEW w \in Workers, Kill(w) PROVE LocalInv'
  <2>1. /\ task' = [task EXCEPT ![w] = "dead"] /\ at' = [at EXCEPT ![w] = "idle"]
        /\ UNCHANGED <<counter, registry, dpa, strays>> /\ safe' \subseteq safe \ {w}
    BY <1>6, KillFacts
  <2>2. QED
    BY <2>1
<1>7. ASSUME NEW p \in Processes, Look(p) \/ Looked(p) PROVE LocalInv'
  BY <1>7 DEF Look, Looked
<1>8. CASE DpaBoots \/ ScanPods \/ UNCHANGED vars
  BY <1>8 DEF DpaBoots, Boot, TruncateCounter, ResetCounter, TruncateRegistry, ClearRegistry,
     DpaStep, ScanPods, vars
<1> HIDE DEF Control, LocalInv, TypeOK, Processes, GoTo
<1>9. QED
  BY <1>1, <1>3, <1>4, <1>5, <1>6, <1>7, <1>8 DEF Next, Granted

LEMMA StepEra == ASSUME Control, [Next]_vars PROVE EraInv'
<1> USE Constants DEF Control, EraInv, TypeOK, Processes, GoTo, Busy, Booting, Caught, Starting
<1>1. ASSUME NEW p \in Processes, EnsureTest(p) PROVE EraInv'
  <2>1. dpa = "up" => registry # NoFile
    BY FileFacts DEF PhaseInv
  <2>2. QED
    BY <1>1, <2>1 DEF EnsureTest, Open, Inode, history
<1>2. ASSUME NEW p \in Processes, EnsureMake(p) \/ EnsureDump(p) PROVE EraInv'
  BY <1>2 DEF EnsureMake, EnsureDump, Open, Inode, history, LocalInv
<1>3. ASSUME NEW w \in Workers, Start(w) PROVE EraInv'
  BY <1>3 DEF Start, Open, Inode
<1>4. ASSUME NEW w \in Workers, Granted(w) PROVE EraInv'
  <2>1. CASE RandomId(w)
    BY <2>1 DEF RandomId, Locked, Close, history
  <2>2. CASE ReadCounter(w)
    BY <2>2 DEF ReadCounter, Locked, Inode, history
  <2>3. CASE CreateResources(w)
    BY <2>3 DEF CreateResources, Close, history
  <2>4. CASE ReadRegistry(w)
    BY <2>4 DEF ReadRegistry, Locked, Inode, history
  <2>5. QED
    BY <1>4, <2>1, <2>2, <2>3, <2>4 DEF Granted
<1>5. ASSUME NEW w \in Workers, Written(w) PROVE EraInv'
  <2>1. \E s \in {"find", "up"} : task' = [task EXCEPT ![w] = s]
    BY <1>5 DEF Written, WriteCounter, WriteRegistry
  <2>2. at' = [at EXCEPT ![w] = IF task'[w] = "up" THEN "idle" ELSE "test"]
    BY <1>5 DEF Written, WriteCounter, WriteRegistry
  <2>3. QED
    BY <1>5, <2>1, <2>2 DEF Written, WriteCounter, WriteRegistry, Close, history
<1>6. ASSUME NEW w \in Workers, Kill(w) PROVE EraInv'
  <2>1. /\ task' = [task EXCEPT ![w] = "dead"] /\ at' = [at EXCEPT ![w] = "idle"]
        /\ lock' = [lock EXCEPT ![w] = 0] /\ out' = [out EXCEPT ![w] = 0]
        /\ UNCHANGED <<dpa, strays>> /\ passing' = passing \ {w}
    BY <1>6, KillFacts
  <2>2. QED
    BY <2>1
<1>7. ASSUME NEW p \in Processes, Look(p) \/ Looked(p) PROVE EraInv'
  <2>1. CASE Look(p)
    BY <2>1 DEF Look
  <2>2. CASE Looked(p)
    BY <2>2 DEF Looked, Close
  <2>3. QED
    BY <1>7, <2>1, <2>2
<1>8. CASE Boot
  <2>1. /\ dpa' = "count" /\ UNCHANGED <<task, at, lock, out>>
        /\ passing' = {p \in Processes : task[p] = "look"}
        /\ strays' = {w \in Workers : Busy(w)} \ passing'
    BY <1>8 DEF Boot
  <2>2. \A p \in Processes : Busy(p) => Caught(p)'
    BY <2>1 DEF LocalInv
  <2>3. QED
    BY <2>1, <2>2
<1>9. CASE TruncateCounter \/ ResetCounter \/ TruncateRegistry \/ ClearRegistry
  BY <1>9 DEF TruncateCounter, ResetCounter, TruncateRegistry, ClearRegistry, DpaStep, history
<1>10. CASE ScanPods \/ UNCHANGED vars
  BY <1>10 DEF ScanPods, vars, history
<1> HIDE DEF Control, EraInv, TypeOK, Processes, GoTo, Busy, Booting, Caught, Starting
<1>11. QED
  BY <1>1, <1>2, <1>3, <1>4, <1>5, <1>6, <1>7, <1>8, <1>9, <1>10 DEF Next, Ensure, DpaBoots
\* A step of a process leaves the others alone.
Step(p) ==
    \/ Ensure(p)
    \/ p \in Workers /\ (Start(p) \/ Granted(p) \/ Written(p) \/ Kill(p))
    \/ Look(p) \/ Looked(p)

OthersStay(p) ==
    /\ \A q \in Processes \ {p} :
        task'[q] = task[q] /\ at'[q] = at[q] /\ lock'[q] = lock[q] /\ out'[q] = out[q]
    /\ \A q \in Workers \ {p} : pod_id'[q] = pod_id[q] /\ data'[q] = data[q]

LEMMA StepOthers == ASSUME TypeOK, NEW p \in Processes, Step(p) PROVE OthersStay(p)
<1> USE Constants DEF TypeOK, Processes, GoTo, Close, Open, OthersStay
<1>1. CASE Ensure(p)
  BY <1>1 DEF Ensure, EnsureTest, EnsureMake, EnsureDump, worker
<1>2. CASE p \in Workers /\ Start(p)
  BY <1>2 DEF Start, worker
<1>3. CASE p \in Workers /\ RandomId(p)
  BY <1>3 DEF RandomId
<1>4. CASE p \in Workers /\ ReadCounter(p)
  BY <1>4 DEF ReadCounter
<1>5. CASE p \in Workers /\ CreateResources(p)
  BY <1>5 DEF CreateResources
<1>6. CASE p \in Workers /\ ReadRegistry(p)
  BY <1>6 DEF ReadRegistry
<1>7. CASE p \in Workers /\ WriteCounter(p)
  BY <1>7 DEF WriteCounter, worker
<1>8. CASE p \in Workers /\ WriteRegistry(p)
  BY <1>8 DEF WriteRegistry
<1>9. CASE p \in Workers /\ Kill(p)
  <2>1. /\ task' = [task EXCEPT ![p] = "dead"] /\ at' = [at EXCEPT ![p] = "idle"]
        /\ lock' = [lock EXCEPT ![p] = 0] /\ out' = [out EXCEPT ![p] = 0]
        /\ pod_id' = [pod_id EXCEPT ![p] = 0] /\ data' = [data EXCEPT ![p] = NoNames]
    BY <1>9, KillFacts
  <2>2. QED
    BY <2>1
<1>10. CASE Look(p) \/ Looked(p)
  BY <1>10 DEF Look, Looked, worker
<1> HIDE DEF TypeOK, Processes, GoTo, Close, Open, OthersStay
<1>11. QED
  BY <1>1, <1>2, <1>3, <1>4, <1>5, <1>6, <1>7, <1>8, <1>9, <1>10 DEF Step, Granted, Written

\* The steps of the DPA leave them all alone.
LEMMA DpaOthers ==
    ASSUME DpaBoots \/ ScanPods \/ UNCHANGED vars
    PROVE  UNCHANGED <<task, at, lock, out, pod_id, data, safe>>
BY DEF DpaBoots, Boot, TruncateCounter, ResetCounter, TruncateRegistry, ClearRegistry, DpaStep,
   ScanPods, vars, files, worker, history

LEMMA StepCases ==
    ASSUME [Next]_vars
    PROVE  (\E p \in Processes : Step(p)) \/ DpaBoots \/ ScanPods \/ UNCHANGED vars
BY DEF Next, Step, Processes

\* Who writes a file has had it before the step, with all it knows, or has just got
\* the lock.
LEMMA WriterStep ==
    ASSUME Control, [Next]_vars, NEW p \in Processes, at'[p] = "write"
    PROVE  /\ task'[p] = task[p] /\ lock'[p] = lock[p]
           /\ \/ at[p] = "write" /\ out'[p] = out[p]
                 /\ (p \in Workers => pod_id'[p] = pod_id[p] /\ data'[p] = data[p])
              \/ p \in Workers /\ ReadCounter(p)
              \/ p \in Workers /\ ReadRegistry(p)
<1>1. ASSUME NEW q \in Processes, Step(q), q # p
      PROVE  /\ task'[p] = task[p] /\ lock'[p] = lock[p] /\ at[p] = "write" /\ out'[p] = out[p]
             /\ (p \in Workers => pod_id'[p] = pod_id[p] /\ data'[p] = data[p])
  BY <1>1, StepOthers DEF Control, OthersStay
<1>2. ASSUME Step(p), ~(p \in Workers /\ (ReadCounter(p) \/ ReadRegistry(p)))
      PROVE  FALSE
  <2> USE Constants DEF Control, TypeOK, Processes, GoTo
  <2>1. CASE Ensure(p)
    BY <2>1 DEF Ensure, EnsureTest, EnsureMake, EnsureDump
  <2>2. CASE p \in Workers /\ (Start(p) \/ Written(p))
    BY <2>2 DEF Start, Written, WriteCounter, WriteRegistry
  <2>3. CASE p \in Workers /\ (RandomId(p) \/ CreateResources(p))
    BY <2>3 DEF RandomId, CreateResources
  <2>4. CASE p \in Workers /\ Kill(p)
    BY <2>4, KillFacts
  <2>5. CASE Look(p) \/ Looked(p)
    BY <2>5 DEF Look, Looked
  <2>6. QED
    BY <1>2, <2>1, <2>2, <2>3, <2>4, <2>5 DEF Step, Granted
<1>3. ASSUME p \in Workers, ReadCounter(p) \/ ReadRegistry(p)
      PROVE  task'[p] = task[p] /\ lock'[p] = lock[p]
  BY <1>3 DEF ReadCounter, ReadRegistry, Locked, GoTo, Control, TypeOK, Processes
<1>4. ASSUME DpaBoots \/ ScanPods \/ UNCHANGED vars
      PROVE  /\ task'[p] = task[p] /\ lock'[p] = lock[p] /\ at[p] = "write" /\ out'[p] = out[p]
             /\ (p \in Workers => pod_id'[p] = pod_id[p] /\ data'[p] = data[p])
  BY <1>4, DpaOthers
<1>5. QED
  BY <1>1, <1>2, <1>3, <1>4, StepCases

LEMMA StepMutex == ASSUME Control, [Next]_vars PROVE MutexInv'
<1> SUFFICES ASSUME NEW p \in Processes, NEW q \in Processes, at'[p] = "write", at'[q] = "write",
                    task'[p] = task'[q], lock'[p] = lock'[q], p # q
             PROVE  FALSE
  BY DEF MutexInv
<1>1. task[p] = task[q] /\ lock[p] = lock[q]
  BY WriterStep
<1>2. ASSUME NEW r \in {p, q}, NEW o \in {p, q}, r # o, r \in Workers, ReadCounter(r) \/ ReadRegistry(r)
      PROVE  FALSE
  <2>1. at[o] = "write"
    BY <1>2 DEF ReadCounter, ReadRegistry, GoTo, Control, TypeOK, Processes
  <2>2. QED
    BY <1>1, <1>2, <2>1 DEF ReadCounter, ReadRegistry, Locked, Holds
<1>3. at[p] = "write" /\ at[q] = "write"
  BY <1>2, WriterStep
<1>4. QED
  BY <1>1, <1>3 DEF Control, MutexInv

LEMMA StepNames == ASSUME Control, [Next]_vars PROVE NamesInv'
<1>1. ASSUME NEW v \in Workers, task'[v] \notin {"off", "dead"}
      PROVE  task[v] \notin {"off", "dead"} \/ Start(v)
  <2> USE Constants DEF Control, TypeOK, Processes, GoTo
  <2>1. ASSUME NEW q \in Processes, Step(q), q # v PROVE task'[v] = task[v]
    BY <2>1, StepOthers DEF OthersStay
  <2>2. CASE Ensure(v)
    BY <1>1, <2>2 DEF Ensure, EnsureTest, EnsureMake, EnsureDump
  <2>3. CASE Granted(v)
    BY <2>3 DEF Granted, RandomId, ReadCounter, CreateResources, ReadRegistry, Locked
  <2>4. CASE Written(v)
    BY <2>4 DEF Written, WriteCounter, WriteRegistry
  <2>5. CASE Kill(v)
    BY <1>1, <2>5, KillFacts
  <2>6. CASE DpaBoots \/ ScanPods \/ UNCHANGED vars
    BY <1>1, <2>6, DpaOthers
  <2> HIDE DEF Control, TypeOK, Processes, GoTo
  <2>7. CASE Look(v) \/ Looked(v)
    BY <2>7 DEF Look, Looked
  <2>8. QED
    BY <1>1, <2>1, <2>2, <2>3, <2>4, <2>5, <2>6, <2>7, StepCases DEF Step
<1>2. ASSUME NEW v \in Workers, NEW u \in Workers, Start(v), v # u, task'[u] \notin {"off", "dead"}
      PROVE  NameOf[u] # NameOf[v]
  <2>1. task[u] = task'[u]
    BY <1>2 DEF Start, GoTo, Control, TypeOK, Processes
  <2>2. QED
    BY <1>2, <2>1 DEF Start, Running
<1>3. QED
  BY <1>1, <1>2 DEF Control, NamesInv, Running

LEMMA StepControl == ASSUME Control, [Next]_vars PROVE Control'
BY StepType, StepPhase, StepLocal, StepEra, StepMutex, StepNames DEF Control
(***************************************************************************)
(* Pod ids.                                                                *)
(***************************************************************************)

Quiet == dpa = "up" /\ strays = {}

\* Once the boot is over, and no worker has started in it, those that start have the
\* new inodes.
LEMMA QuietWorkers ==
    ASSUME Control, Quiet, NEW w \in Workers, Starting(w)
    PROVE  /\ at[w] \notin {"make", "dump"}
           /\ at[w] \in {"wait", "write"} => lock[w] = 1
           /\ at[w] = "write" => out[w] = 1
BY Constants DEF Control, EraInv, Quiet, Processes, Starting, Caught, Busy

LEMMA SafeIsQuiet == ASSUME Control, safe # {} PROVE Quiet
BY DEF Control, PhaseInv, Quiet

\* If a worker is writing, this was so before the step.
LEMMA QuietStep ==
    ASSUME Control, [Next]_vars, Quiet', NEW w \in Workers, Starting(w)
    PROVE  Quiet
<1> USE DEF Control, Quiet
<1>1. ASSUME NEW p \in Processes, Step(p) PROVE dpa' = dpa /\ strays \subseteq strays'
  <2>1. CASE Ensure(p)
    BY <2>1 DEF Ensure, EnsureTest, EnsureMake, EnsureDump, history
  <2>2. CASE Start(p) \/ Look(p) \/ Looked(p)
    BY <2>2 DEF Start, Look, Looked
  <2>3. CASE Granted(p)
    BY <2>3 DEF Granted, RandomId, ReadCounter, CreateResources, ReadRegistry, history
  <2>4. CASE Written(p)
    BY <2>4 DEF Written, WriteCounter, WriteRegistry, history
  <2>5. CASE p \in Workers /\ Kill(p)
    BY <2>5, KillFacts
  <2>6. QED
    BY <1>1, <2>1, <2>2, <2>3, <2>4, <2>5 DEF Step
<1>2. CASE DpaBoots
  <2>1. ClearRegistry
    BY <1>2 DEF DpaBoots, Boot, TruncateCounter, ResetCounter, TruncateRegistry, DpaStep
  <2>2. Booting /\ strays' = strays
    BY <2>1 DEF ClearRegistry, DpaStep, Booting, history
  <2>3. QED
    BY <2>2, Constants DEF EraInv, Processes, Caught, Starting, Busy
<1>3. CASE ScanPods \/ UNCHANGED vars
  BY <1>3 DEF ScanPods, vars, history
<1>4. QED
  BY <1>1, <1>2, <1>3, StepCases

\* Two do not write one file.
LEMMA OneWriter ==
    ASSUME Control, Quiet, NEW p \in Workers, NEW q \in Workers,
           at[p] = "write", at[q] = "write", task[p] = task[q]
    PROVE  p = q
<1>1. Starting(p) /\ Starting(q)
  BY DEF Control, LocalInv, Starting, Processes, TypeOK
<1>2. QED
  BY <1>1, QuietWorkers DEF Control, MutexInv, Processes

\* When the DPA is up the counter changes in these two ways only.
LEMMA CounterSteps ==
    ASSUME Control, [Next]_vars, dpa = "up", counter' # counter
    PROVE  \E w \in Workers : \/ ReadCounter(w) /\ counter' = Torn
                              \/ WriteCounter(w) /\ counter' = pod_id[w]
<1>1. ASSUME NEW p \in Processes, Ensure(p) PROVE FALSE
  BY <1>1 DEF Ensure, EnsureTest, EnsureMake, EnsureDump, files
<1>2. ASSUME NEW w \in Workers, Start(w) \/ RandomId(w) \/ CreateResources(w) \/ ReadRegistry(w)
             \/ WriteRegistry(w)
      PROVE  FALSE
  BY <1>2 DEF Start, RandomId, CreateResources, ReadRegistry, WriteRegistry, files
<1>3. ASSUME NEW w \in Workers, Kill(w) PROVE FALSE
  BY <1>3, KillFacts
<1>4. ASSUME NEW p \in Processes, Look(p) \/ Looked(p) PROVE FALSE
  BY <1>4 DEF Look, Looked, files
<1>5. ~DpaBoots /\ ~ScanPods /\ ~UNCHANGED vars
  BY DEF DpaBoots, Boot, TruncateCounter, ResetCounter, TruncateRegistry, ClearRegistry, DpaStep,
     ScanPods, vars, files
<1>6. \E w \in Workers : ReadCounter(w) \/ WriteCounter(w)
  BY <1>1, <1>2, <1>3, <1>4, <1>5 DEF Next, Granted, Written
<1>7. QED
  BY <1>6 DEF ReadCounter, WriteCounter

\* Who has a number that is safe had it before the step, or has just written it.
LEMMA NumberedStep ==
    ASSUME Control, [Next]_vars, NEW w \in Workers, w \in safe', Numbered(w)'
    PROVE  /\ w \in safe /\ pod_id'[w] = pod_id[w]
           /\ Numbered(w) \/ (Numbering(w) /\ WriteCounter(w))
<1> USE Constants DEF Control, TypeOK, Processes, GoTo, Numbered, Numbering, IsUp
<1>1. ASSUME NEW v \in Workers, v # w, Start(v) \/ Kill(v) PROVE w \in safe
  BY <1>1, KillFacts DEF Start
<1>2. ASSUME NEW p \in Processes, Step(p), p # w PROVE w \in safe
  <2>1. CASE p \in Workers /\ (Start(p) \/ Kill(p))
    BY <1>1, <1>2, <2>1
  <2>2. CASE Ensure(p)
    BY <2>2 DEF Ensure, EnsureTest, EnsureMake, EnsureDump, history
  <2>3. CASE Granted(p)
    BY <2>3 DEF Granted, RandomId, ReadCounter, CreateResources, ReadRegistry, history
  <2>4. CASE Written(p)
    BY <2>4 DEF Written, WriteCounter, WriteRegistry, history
  <2>5. CASE Look(p) \/ Looked(p)
    BY <2>5 DEF Look, Looked
  <2>6. QED
    BY <1>2, <2>1, <2>2, <2>3, <2>4, <2>5 DEF Step
<1>3. ASSUME NEW p \in Processes, Step(p), p # w
      PROVE  task'[w] = task[w] /\ pod_id'[w] = pod_id[w]
  BY <1>3, StepOthers DEF OthersStay
<1>4. CASE Ensure(w)
  BY <1>4 DEF Ensure, EnsureTest, EnsureMake, EnsureDump, history, worker
<1>5. CASE Start(w) \/ RandomId(w) \/ ReadCounter(w)
  BY <1>5 DEF Start, RandomId, ReadCounter, Locked
<1>6. CASE CreateResources(w) \/ ReadRegistry(w) \/ WriteRegistry(w)
  BY <1>6 DEF CreateResources, ReadRegistry, WriteRegistry, Locked, history
<1>7. CASE WriteCounter(w)
  BY <1>7 DEF WriteCounter, history, worker
<1>8. CASE Kill(w)
  BY <1>8, KillFacts
<1>9. CASE DpaBoots \/ ScanPods \/ UNCHANGED vars
  BY <1>9, DpaOthers
<1>10. CASE Look(w) \/ Looked(w)
  BY <1>10 DEF Look, Looked, worker
<1> HIDE DEF Control, TypeOK, Processes, GoTo
<1>11. QED
  BY <1>2, <1>3, <1>4, <1>5, <1>6, <1>7, <1>8, <1>9, <1>10, StepCases,
     Constants DEF Step, Granted, Written
LEMMA StepCounter ==
    ASSUME Control, CounterInv, [Next]_vars
    PROVE  CounterInv'
<1>1. ASSUME Quiet', NEW q \in Workers, Numbering(q)'
      PROVE  counter' = Torn
  <2>1. CASE ReadCounter(q)
    BY <2>1 DEF ReadCounter
  <2>2. CASE ~ReadCounter(q)
    <3>1. Numbering(q)
      BY <1>1, <2>2, WriterStep DEF Numbering, Processes, ReadRegistry, Locked
    <3>2. Quiet
      BY <1>1, <3>1, QuietStep DEF Numbering, Starting
    <3>3. counter = Torn
      BY <3>1, <3>2 DEF CounterInv, Quiet
    <3>4. ASSUME NEW w \in Workers, WriteCounter(w) PROVE FALSE
      <4>1. w = q
        BY <3>1, <3>2, <3>4, OneWriter DEF WriteCounter, Numbering
      <4>2. QED
        BY <1>1, <3>4, <4>1 DEF WriteCounter, GoTo, Numbering, Control, TypeOK, Processes
    <3>5. QED
      BY <3>2, <3>3, <3>4, CounterSteps DEF Quiet
  <2>3. QED
    BY <2>1, <2>2
<1>2. ASSUME NEW w \in Workers, w \in safe', Numbered(w)'
      PROVE  /\ counter' # Torn => pod_id'[w] <= counter'
             /\ \A q \in Workers : Numbering(q)' => pod_id'[w] < pod_id'[q]
  <2>1. /\ w \in safe /\ pod_id'[w] = pod_id[w]
        /\ Numbered(w) \/ (Numbering(w) /\ WriteCounter(w))
    BY <1>2, NumberedStep
  <2>2. Quiet
    BY <2>1, SafeIsQuiet
  <2>3. counter \in Nat \cup {Torn} /\ pod_id \in [Workers -> Nat]
    BY <2>2 DEF Quiet, Control, PhaseInv, TypeOK, Counters
  <2>4. ASSUME NEW q \in Workers, Numbering(q)'
        PROVE  \/ Numbering(q) /\ pod_id'[q] = pod_id[q]
               \/ ReadCounter(q) /\ counter # Torn /\ pod_id'[q] = counter + 1
    <3>1. CASE ReadCounter(q)
      BY <2>2, <3>1 DEF ReadCounter, Control, TypeOK, PhaseInv, Quiet
    <3>2. CASE ~ReadCounter(q)
      BY <2>4, <3>2, WriterStep DEF Numbering, Processes, ReadRegistry, Locked
    <3>3. QED
      BY <3>1, <3>2
  <2>5. CASE Numbered(w)
    <3>1. /\ counter # Torn => pod_id[w] <= counter
          /\ \A q \in Workers : Numbering(q) => pod_id[w] < pod_id[q]
      BY <2>1, <2>5 DEF CounterInv
    <3>2. counter' # Torn => pod_id'[w] <= counter'
      <4>1. CASE counter' = counter
        BY <2>1, <3>1, <4>1
      <4>2. ASSUME NEW q \in Workers, WriteCounter(q), counter' = pod_id[q]
            PROVE  pod_id'[w] <= counter'
        BY <2>1, <2>3, <3>1, <4>2 DEF WriteCounter, Numbering
      <4>3. QED
        BY <2>2, <4>1, <4>2, CounterSteps DEF Quiet
    <3>3. QED
      BY <2>1, <2>3, <2>4, <3>1, <3>2
  <2>6. CASE Numbering(w) /\ WriteCounter(w)
    <3>1. counter' = pod_id[w]
      BY <2>2, <2>6, QuietWorkers DEF WriteCounter, Numbering, Starting, Inode, Quiet
    <3>2. \A q \in Workers : ~Numbering(q)'
      <4> SUFFICES ASSUME NEW q \in Workers, Numbering(q)' PROVE FALSE
        OBVIOUS
      <4>1. at'[w] = "test" /\ (q # w => at'[q] = at[q])
        BY <2>6 DEF WriteCounter, GoTo, Control, TypeOK, Processes
      <4>2. ~ReadCounter(q)
        BY <4>1, <2>6 DEF Numbering, ReadCounter, Locked
      <4>3. Numbering(q) /\ q # w
        BY <2>4, <4>1, <4>2 DEF Numbering
      <4>4. QED
        BY <2>2, <2>6, <4>3, OneWriter DEF Numbering
    <3>3. QED
      BY <2>1, <2>3, <3>1, <3>2
  <2>7. QED
    BY <2>1, <2>5, <2>6
<1>3. QED
  BY <1>1, <1>2, StepControl DEF CounterInv, Quiet, Control, TypeOK

LEMMA StepIds ==
    ASSUME Control, CounterInv, IdsDiffer, [Next]_vars
    PROVE  IdsDiffer'
<1> SUFFICES ASSUME NEW v \in Workers, NEW w \in Workers, v \in safe', w \in safe', v # w,
                    HasId(v)', HasId(w)', pod_id'[v] = pod_id'[w], pod_id'[w] \notin RandomIds
             PROVE  FALSE
  <2>1. safe' \subseteq Workers
    BY StepControl DEF Control, TypeOK
  <2>2. QED
    BY <2>1 DEF IdsDiffer
<1>1. Control' /\ CounterInv' /\ Quiet'
  BY StepControl, StepCounter, SafeIsQuiet DEF Control, PhaseInv, Quiet
<1>2. /\ Numbered(v)' \/ Numbering(v)'
      /\ Numbered(w)' \/ Numbering(w)'
  BY <1>1 DEF HasId, IsUp, Numbered, Numbering, Control, TypeOK, LocalInv, Processes
<1>3. pod_id' \in [Workers -> Nat]
  BY <1>1 DEF Control, TypeOK
<1>4. CASE Numbering(v)' /\ Numbering(w)'
  <2>1. /\ lock'[v] = 1 /\ lock'[w] = 1
    BY <1>1, <1>4 DEF Control, EraInv, PhaseInv, Numbering, Busy, Processes, Caught, Starting
  <2>2. QED
    BY <1>1, <1>4, <2>1 DEF Control, MutexInv, Numbering, Processes
<1>5. CASE Numbered(v)' /\ Numbering(w)'
  BY <1>1, <1>3, <1>5 DEF CounterInv
<1>6. CASE Numbering(v)' /\ Numbered(w)'
  BY <1>1, <1>3, <1>6 DEF CounterInv
<1>7. CASE Numbered(v)' /\ Numbered(w)'
  <2>1. /\ v \in safe /\ pod_id'[v] = pod_id[v]
        /\ Numbered(v) \/ (Numbering(v) /\ WriteCounter(v))
    BY <1>7, NumberedStep
  <2>2. /\ w \in safe /\ pod_id'[w] = pod_id[w]
        /\ Numbered(w) \/ (Numbering(w) /\ WriteCounter(w))
    BY <1>7, NumberedStep
  <2>3. Quiet /\ pod_id \in [Workers -> Nat]
    BY <2>1, SafeIsQuiet DEF Control, TypeOK
  <2>4. ~(Numbering(v) /\ Numbering(w))
    BY <2>3, OneWriter DEF Numbering
  <2>5. ~(Numbered(v) /\ Numbering(w)) /\ ~(Numbering(v) /\ Numbered(w))
    <3>1. pod_id[v] = pod_id[w] /\ pod_id[v] \in Nat
      BY <2>1, <2>2, <2>3
    <3>2. ~(pod_id[v] < pod_id[w]) /\ ~(pod_id[w] < pod_id[v])
      BY <3>1
    <3>3. QED
      BY <2>1, <2>2, <3>2 DEF CounterInv
  <2>6. ~(Numbered(v) /\ Numbered(w))
    BY <2>1, <2>2 DEF IdsDiffer, Numbered, HasId, IsUp
  <2>7. QED
    BY <2>1, <2>2, <2>4, <2>5, <2>6
<1>8. QED
  BY <1>2, <1>4, <1>5, <1>6, <1>7
(***************************************************************************)
(* The registry.                                                           *)
(***************************************************************************)

\* When the DPA is up, and no worker was caught starting in its boot, the registry
\* changes in these ways only.
LEMMA RegistrySteps ==
    ASSUME Control, [Next]_vars, Quiet, registry' # registry
    PROVE  \/ \E w \in Workers : ReadRegistry(w) /\ registry' = Empty
           \/ \E w \in Workers : WriteRegistry(w)
           \/ \E p \in passing : EnsureMake(p) /\ registry' = Empty
           \/ \E p \in passing : EnsureDump(p)
<1>1. ASSUME NEW p \in Processes, Ensure(p)
      PROVE  p \in passing /\ ((EnsureMake(p) /\ registry' = Empty) \/ EnsureDump(p))
  <2>1. EnsureMake(p) \/ EnsureDump(p)
    BY <1>1 DEF Ensure, EnsureTest, files
  <2>2. at[p] \in {"make", "dump"} /\ Busy(p)
    BY <2>1 DEF EnsureMake, EnsureDump, Control, LocalInv, Busy
  <2>3. p \in passing
    BY <2>2 DEF Control, EraInv, Quiet, Caught
  <2>4. QED
    BY <2>1, <2>3 DEF EnsureMake
<1>2. ASSUME NEW w \in Workers,
             Start(w) \/ RandomId(w) \/ ReadCounter(w) \/ CreateResources(w) \/ WriteCounter(w)
      PROVE  FALSE
  BY <1>2 DEF Start, RandomId, ReadCounter, CreateResources, WriteCounter, files
<1>3. ASSUME NEW w \in Workers, Kill(w) PROVE FALSE
  BY <1>3, KillFacts
<1>4. ASSUME NEW p \in Processes, Look(p) \/ Looked(p) PROVE FALSE
  BY <1>4 DEF Look, Looked, files
<1>5. ~DpaBoots /\ ~ScanPods /\ ~UNCHANGED vars
  BY DEF DpaBoots, Boot, TruncateCounter, ResetCounter, TruncateRegistry, ClearRegistry, DpaStep,
     ScanPods, vars, files, Quiet
<1>6. ASSUME NEW w \in Workers, ReadRegistry(w) PROVE registry' = Empty
  BY <1>6 DEF ReadRegistry
<1>7. QED
  BY <1>1, <1>2, <1>3, <1>4, <1>5, <1>6 DEF Next, Granted, Written

\* Who is up and safe was so before the step, or has just written its entry.
LEMMA UpStep ==
    ASSUME Control, [Next]_vars, NEW w \in Workers, w \in safe', IsUp(w)'
    PROVE  /\ w \in safe /\ pod_id'[w] = pod_id[w]
           /\ IsUp(w) \/ WriteRegistry(w)
<1> USE Constants DEF Control, TypeOK, Processes, GoTo, IsUp
<1>1. ASSUME NEW v \in Workers, Start(v) \/ Kill(v) PROVE w \in safe
  <2>1. CASE v # w
    BY <1>1, <2>1, KillFacts DEF Start
  <2>2. CASE v = w
    BY <1>1, <2>2, KillFacts DEF Start
  <2>3. QED
    BY <2>1, <2>2
<1>2. w \in safe
  <2>1. ASSUME NEW p \in Processes, Ensure(p) PROVE w \in safe
    BY <2>1 DEF Ensure, EnsureTest, EnsureMake, EnsureDump, history
  <2>2. ASSUME NEW v \in Workers, Granted(v) PROVE w \in safe
    BY <2>2 DEF Granted, RandomId, ReadCounter, CreateResources, ReadRegistry, history
  <2>3. ASSUME NEW v \in Workers, Written(v) PROVE w \in safe
    BY <2>3 DEF Written, WriteCounter, WriteRegistry, history
  <2>4. ASSUME NEW p \in Processes, Look(p) \/ Looked(p) PROVE w \in safe
    BY <2>4 DEF Look, Looked
  <2>5. CASE DpaBoots \/ ScanPods \/ UNCHANGED vars
    BY <2>5, DpaOthers
  <2>6. QED
    BY <1>1, <2>1, <2>2, <2>3, <2>4, <2>5 DEF Next
<1>3. ASSUME NEW p \in Processes, Step(p), p # w
      PROVE  IsUp(w) /\ pod_id'[w] = pod_id[w]
  BY <1>3, StepOthers DEF OthersStay
<1>4. CASE Ensure(w)
  <2>1. task' = task /\ pod_id' = pod_id
    BY <1>4 DEF Ensure, EnsureTest, EnsureMake, EnsureDump, worker
  <2>2. QED
    BY <1>2, <2>1
<1>5. CASE Start(w) \/ RandomId(w) \/ ReadCounter(w) \/ CreateResources(w) \/ WriteCounter(w)
  BY <1>5 DEF Start, RandomId, ReadCounter, CreateResources, WriteCounter
<1>6. CASE ReadRegistry(w)
  BY <1>6 DEF ReadRegistry, Locked
<1>7. CASE WriteRegistry(w)
  BY <1>2, <1>7 DEF WriteRegistry
<1>8. CASE Kill(w)
  BY <1>8, KillFacts
<1>9. CASE DpaBoots \/ ScanPods \/ UNCHANGED vars
  BY <1>9, DpaOthers
<1>10. CASE Look(w) \/ Looked(w)
  BY <1>2, <1>10 DEF Look, Looked, worker
<1> HIDE DEF Control, TypeOK, Processes, GoTo, IsUp
<1>11. QED
  BY <1>10, <1>2, <1>3, <1>4, <1>5, <1>6, <1>7, <1>8, <1>9, StepCases,
     Constants DEF Step, Granted, Written

\* Who begins to write the registry has read it when nobody was writing it.
LEMMA ReaderFinds ==
    ASSUME Control, Quiet, NEW q \in Workers, ReadRegistry(q)
    PROVE  ~RegistryLocked(1) /\ lock'[q] = 1 /\ task'[q] = "register" /\ at'[q] = "write"
<1>1. task[q] = "register" /\ at[q] = "wait" /\ \A p \in Processes : ~Holds(p, "register", lock[q])
  BY DEF ReadRegistry, Locked
<1>2. lock[q] = 1
  BY <1>1, QuietWorkers DEF Starting
<1>3. QED
  BY <1>1, <1>2 DEF ReadRegistry, RegistryLocked, Control, TypeOK, Processes

LEMMA StepRegistry ==
    ASSUME Control, RegistryInv, Findable, [Next]_vars
    PROVE  RegistryInv'
<1> SUFFICES ASSUME NEW q \in Workers, Registering(q)'
             PROVE  /\ data'[q][NameOf[q]] = Entry(pod_id'[q], ServiceOf[q])
                    /\ \A w \in safe' : IsUp(w)' =>
                            data'[q][NameOf[w]] = Entry(pod_id'[w], ServiceOf[w])
                    /\ Quiet' => registry' \in {Empty, Table(NoNames)}
  BY DEF RegistryInv, Quiet, Entry
<1>1. \/ Registering(q) /\ pod_id'[q] = pod_id[q] /\ data'[q] = data[q]
      \/ ReadRegistry(q)
  BY WriterStep DEF Registering, Processes, ReadCounter, Locked
<1>2. CASE ReadRegistry(q)
  <2>1. /\ data'[q] = [registry.table EXCEPT ![NameOf[q]] = Entry(pod_id[q], ServiceOf[q])]
        /\ registry' = Empty /\ pod_id' = pod_id /\ safe' = safe
        /\ \A w \in safe : IsUp(w)' => IsUp(w)
    BY <1>2 DEF ReadRegistry, Control, TypeOK, history, GoTo, IsUp, Processes, Locked
  <2>2. registry.table \in Tables /\ pod_id[q] \in Nat
    BY DEF Control, TypeOK, Files
  <2>3. data'[q][NameOf[q]] = Entry(pod_id'[q], ServiceOf[q])
    BY <2>1, <2>2, EntryInTable
  <2>4. ASSUME NEW w \in safe, IsUp(w)
        PROVE  data'[q][NameOf[w]] = Entry(pod_id[w], ServiceOf[w])
    <3>1. registry.table[NameOf[w]] = Entry(pod_id[w], ServiceOf[w])
      BY <1>2, <2>4, SafeIsQuiet, ReaderFinds DEF Findable
    <3>2. w \in Workers /\ NameOf[w] # NameOf[q]
      BY <1>2, <2>4 DEF ReadRegistry, Locked, Control, TypeOK, NamesInv, Running, IsUp
    <3>3. QED
      BY <2>1, <2>2, <3>1, <3>2, EntryInTable
  <2>5. QED
    BY <2>1, <2>3, <2>4
<1>3. CASE Registering(q) /\ ~ReadRegistry(q)
  <2>1. Registering(q) /\ pod_id'[q] = pod_id[q] /\ data'[q] = data[q]
    BY <1>1, <1>3
  <2>2. ASSUME NEW w \in Workers, WriteRegistry(w), Quiet PROVE FALSE
    <3>1. w = q
      BY <2>1, <2>2, OneWriter DEF Registering, WriteRegistry
    <3>2. QED
      BY <2>2, <3>1 DEF WriteRegistry, GoTo, Registering, Control, TypeOK, Processes
  <2>3. ASSUME NEW w \in safe', IsUp(w)'
        PROVE  data'[q][NameOf[w]] = Entry(pod_id'[w], ServiceOf[w])
    <3>1. w \in Workers
      BY StepControl DEF Control, TypeOK
    <3>2. w \in safe /\ pod_id'[w] = pod_id[w] /\ (IsUp(w) \/ WriteRegistry(w))
      BY <2>3, <3>1, UpStep
    <3>3. IsUp(w)
      BY <2>2, <3>1, <3>2, SafeIsQuiet
    <3>4. QED
      BY <2>1, <3>2, <3>3 DEF RegistryInv
  <2>4. ASSUME Quiet' PROVE registry' \in {Empty, Table(NoNames)}
    <3>1. Quiet
      BY <2>1, <2>4, QuietStep DEF Registering, Starting
    <3>2. registry \in {Empty, Table(NoNames)}
      BY <2>1, <3>1 DEF RegistryInv, Quiet
    <3>3. ASSUME NEW p \in passing, EnsureDump(p) PROVE registry' \in {Empty, Table(NoNames)}
      BY <3>2, <3>3, FileFacts, DumpedIntoEmpty DEF EnsureDump, Dump
    <3>4. QED
      BY <2>2, <3>1, <3>2, <3>3, RegistrySteps
  <2>5. <<data'[q][NameOf[q]], pod_id'[q]>> = <<data[q][NameOf[q]], pod_id[q]>>
    BY <2>1
  <2>6. data[q][NameOf[q]] = Entry(pod_id[q], ServiceOf[q])
    BY <2>1 DEF RegistryInv
  <2>7. QED
    BY <2>3, <2>4, <2>5, <2>6 DEF Entry
<1>4. QED
  BY <1>1, <1>2, <1>3
\* Who writes the registry and goes on writes it still.
LEMMA StillRegistering ==
    ASSUME Control, [Next]_vars, NEW q \in Workers, Registering(q), ~WriteRegistry(q), ~Kill(q)
    PROVE  Registering(q)' /\ lock'[q] = lock[q]
<1> USE DEF Registering
<1>1. ASSUME NEW p \in Processes, Step(p), p # q
      PROVE  task'[q] = task[q] /\ at'[q] = at[q] /\ lock'[q] = lock[q]
  BY <1>1, StepOthers DEF Control, OthersStay, Processes
<1>2. ~Step(q)
  BY Constants DEF Step, Ensure, EnsureTest, EnsureMake, EnsureDump, Start, Granted,
     RandomId, ReadCounter, CreateResources, ReadRegistry, Locked, Written, WriteCounter, Look, Looked
<1>3. QED
  BY <1>1, <1>2, StepCases, DpaOthers

LEMMA StepFindable ==
    ASSUME Control, RegistryInv, Findable, [Next]_vars
    PROVE  Findable'
<1> SUFFICES ASSUME NEW w \in Workers, w \in safe', IsUp(w)', ~RegistryLocked(1)'
             PROVE  /\ registry'.state = "table"
                    /\ registry'.table[NameOf[w]] = Entry(pod_id'[w], ServiceOf[w])
  <2>1. safe' \subseteq Workers
    BY StepControl DEF Control, TypeOK
  <2>2. QED
    BY <2>1 DEF Findable, Entry
<1>1. w \in safe /\ pod_id'[w] = pod_id[w] /\ (IsUp(w) \/ WriteRegistry(w))
  BY UpStep
<1>2. Quiet /\ passing = {}
  BY <1>1, SafeIsQuiet DEF Control, PhaseInv
<1>3. ASSUME NEW q \in Workers, WriteRegistry(q), IsUp(w) \/ w = q
      PROVE  /\ registry'.state = "table"
             /\ registry'.table[NameOf[w]] = Entry(pod_id[w], ServiceOf[w])
  <2>1. Registering(q) /\ out[q] = Inode
    BY <1>2, <1>3, QuietWorkers DEF WriteRegistry, Registering, Starting, Inode, Quiet
  <2>2. registry \in {Empty, Table(NoNames)} /\ data[q][NameOf[w]] = Entry(pod_id[w], ServiceOf[w])
    BY <1>1, <1>2, <1>3, <2>1 DEF RegistryInv, Quiet
  <2>3. data[q] \in Tables
    BY DEF Control, TypeOK
  <2>4. registry' = Table(data[q])
    BY <1>3, <2>1, <2>2, <2>3, DumpedIntoEmpty DEF WriteRegistry, Dump
  <2>5. QED
    BY <2>2, <2>3, <2>4, FileFacts
<1>4. CASE \E q \in Workers : WriteRegistry(q)
  <2>1. PICK q \in Workers : WriteRegistry(q)
    BY <1>4
  <2>2. IsUp(w) \/ w = q
    <3>1. ASSUME WriteRegistry(w), w # q PROVE FALSE
      <4>1. at'[w] = "idle" /\ at[q] = "write" /\ task[q] = "register"
        BY <2>1, <3>1 DEF WriteRegistry, GoTo, Control, TypeOK, Processes
      <4>2. QED
        BY <1>2, <2>1, <3>1, OneWriter DEF WriteRegistry
    <3>2. QED
      BY <1>1, <3>1
  <2>3. QED
    BY <1>1, <1>3, <2>1, <2>2
<1>5. CASE \A q \in Workers : ~WriteRegistry(q)
  <2>1. IsUp(w)
    BY <1>1, <1>5
  <2>2. ~RegistryLocked(1)
    <3> SUFFICES ASSUME NEW q \in Processes, Holds(q, "register", 1) PROVE FALSE
      BY DEF RegistryLocked
    <3>1. q \in Workers /\ Registering(q) /\ lock[q] = 1
      BY DEF Holds, Registering, Control, LocalInv, Processes
    <3>2. CASE Kill(q)
      <4>1. Rewrites(q)
        BY <1>2, <3>1, QuietWorkers DEF Rewrites, Registering, Starting, Inode, Quiet
      <4>2. QED
        BY <2>1, <3>2, <4>1 DEF Kill
    <3>3. CASE ~Kill(q)
      <4>1. Registering(q)' /\ lock'[q] = 1
        BY <1>5, <3>1, <3>3, StillRegistering
      <4>2. QED
        BY <3>1, <4>1 DEF RegistryLocked, Holds, Registering, Processes
    <3>4. QED
      BY <3>2, <3>3
  <2>3. registry.state = "table" /\ registry.table[NameOf[w]] = Entry(pod_id[w], ServiceOf[w])
    BY <1>1, <2>1, <2>2 DEF Findable
  <2>4. registry' = registry
    <3>1. ASSUME NEW q \in Workers, ReadRegistry(q) PROVE FALSE
      <4>1. lock'[q] = 1 /\ task'[q] = "register" /\ at'[q] = "write"
        BY <1>2, <3>1, ReaderFinds
      <4>2. QED
        BY <4>1 DEF RegistryLocked, Holds, Processes
    <3>2. QED
      BY <1>2, <1>5, <3>1, RegistrySteps
  <2>5. QED
    BY <1>1, <2>3, <2>4
<1>6. QED
  BY <1>4, <1>5

(***************************************************************************)
(* Theorems.                                                               *)
(***************************************************************************)

LEMMA InitReg == ASSUME Init PROVE RegInv
<1> USE Constants DEF Init, Processes
<1>1. TypeOK
  BY InitType
<1>2. PhaseInv /\ LocalInv /\ EraInv
  BY DEF PhaseInv, LocalInv, EraInv, Booting
<1>3. MutexInv /\ NamesInv
  BY DEF MutexInv, NamesInv, Running
<1>4. CounterInv /\ IdsDiffer /\ RegistryInv /\ Findable
  BY DEF CounterInv, IdsDiffer, RegistryInv, Registering, Findable
<1>5. QED
  BY <1>1, <1>2, <1>3, <1>4 DEF RegInv

LEMMA StepReg == ASSUME RegInv, [Next]_vars PROVE RegInv'
<1>1. Control
  BY DEF RegInv, Control
<1>2. QED
  BY <1>1, StepControl, StepCounter, StepIds, StepRegistry, StepFindable DEF RegInv, Control

LEMMA RegistryInvariant == Spec => []RegInv
BY InitReg, StepReg, PTL DEF Spec

\* Two workers never get one pod id, unless a worker was killed in the middle of
\* _alloc_pod_id() and the others draw random ones.
THEOREM RegistryIds == Spec => []IdsDiffer
BY RegistryInvariant, PTL DEF RegInv

\* The entry of a worker is never overwritten by another's register().
THEOREM RegistryFindable == Spec => []Findable
BY RegistryInvariant, PTL DEF RegInv

\* Nobody who looks up is told there is no such worker while the registry is being
\* rewritten.
THEOREM RegistryNoFalseRefusal == Spec => NoFalseRefusal
<1>1. ASSUME RegInv, [Next]_vars, NEW p \in Lookers, task[p] = "look", task'[p] = "up",
             p \notin passing, NEW w \in safe, IsUp(w)
      PROVE  pod_id[w] \in WorkersByService(ServiceOf[w]) /\ PodIdOf(NameOf[w]) = pod_id[w]
  <2>1. Control /\ p \in Processes
    BY <1>1, Constants DEF RegInv, Control, Processes
  <2>2. Looked(p)
    <3> USE Constants DEF Control, TypeOK, Processes, GoTo
    <3>1. ASSUME NEW q \in Processes, Step(q), q # p PROVE FALSE
      BY <1>1, <2>1, <3>1, StepOthers DEF OthersStay
    <3>2. ~Ensure(p) /\ ~Look(p)
      BY <1>1, <2>1 DEF Ensure, EnsureTest, EnsureMake, EnsureDump, Look
    <3>3. ASSUME p \in Workers, Start(p) \/ Granted(p) \/ Written(p) PROVE FALSE
      BY <1>1, <3>3 DEF Start, Granted, RandomId, ReadCounter, CreateResources, ReadRegistry,
         Locked, Written, WriteCounter, WriteRegistry
    <3>4. ASSUME p \in Workers, Kill(p) PROVE FALSE
      BY <1>1, <2>1, <3>4, KillFacts
    <3>5. ~(DpaBoots \/ ScanPods \/ UNCHANGED vars)
      BY <1>1, DpaOthers
    <3> HIDE DEF Control, TypeOK, Processes, GoTo
    <3>6. QED
      BY <1>1, <2>1, <3>1, <3>2, <3>3, <3>4, <3>5, StepCases DEF Step
  <2>3. lock[p] = 1
    BY <1>1, <2>1, <2>2 DEF Looked, Control, EraInv, PhaseInv, Busy, Caught, Starting
  <2>4. registry.table[NameOf[w]] = Entry(pod_id[w], ServiceOf[w])
    BY <1>1, <2>2, <2>3 DEF Looked, RegInv, Findable
  <2>5. NameOf[w] \in Names
    BY <1>1, <2>1, Constants DEF Control, TypeOK
  <2>6. QED
    BY <2>4, <2>5 DEF WorkersByService, PodIdOf, Entry
<1>2. RegInv /\ [Next]_vars =>
        [\A p \in Lookers : task[p] = "look" /\ task'[p] = "up" /\ p \notin passing
            => \A w \in safe : IsUp(w) => /\ pod_id[w] \in WorkersByService(ServiceOf[w])
                                          /\ PodIdOf(NameOf[w]) = pod_id[w]]_vars
  BY <1>1
<1>3. QED
  BY <1>2, RegistryInvariant, PTL DEF Spec, NoFalseRefusal

(***************************************************************************)
(* Rings, and the numbers that are taken.                                  *)
(***************************************************************************)

Drawn(w) == task[w] \in {"find", "register"}

\* The files, or somebody who is rewriting one, know number i.
Mentioned(i) ==
    \/ \E f \in podFiles : f[1] = i
    \/ \E n \in Names : registry.table[n].pod_id = i
    \/ \E q \in Workers : Registering(q) /\ \E n \in Names : data[q][n].pod_id = i

\* The counter will not give number i any more.
Past(i) == /\ counter # Torn => i <= counter
           /\ \A q \in Workers : Numbering(q) => i < pod_id[q]

\* A number that is in use is past; who has one and has made no rings yet is the only one
\* to know it.
NumberInv == Quiet =>
    /\ \A i \in Int : Mentioned(i) => i \in RandomIds \/ Past(i)
    /\ \A w \in Workers : Drawn(w) => pod_id[w] \in RandomIds \/ Past(pod_id[w])
    /\ \A w \in Workers : task[w] = "find" /\ pod_id[w] \notin RandomIds =>
            /\ ~Mentioned(pod_id[w])
            /\ \A v \in Workers \ {w} : Drawn(v) => pod_id[v] # pod_id[w]

\* Nobody has rings of a worker that has made none.
NoRings(w) == /\ rings[w] = None /\ \A v \in Workers : rings[v] # w
              /\ \A f \in podFiles : f[2] # w

\* The rings under the number of a worker are its own, and no others are.
OwnRings(w) ==
    /\ rings[w] = w /\ pools[w] = ServiceOf[w] /\ <<pod_id[w], w>> \in podFiles
    /\ \A f \in podFiles : f[1] = pod_id[w] <=> f[2] = w
    /\ \A v \in Workers \ {w} : rings[v] # w

RingsInv ==
    /\ cache \subseteq podFiles /\ (dpa # "up" => cache = {})
    /\ Booting /\ strays = {} => podFiles = {}
    /\ \A w \in Workers : task[w] \in {"off", "alloc", "find"} => NoRings(w)
    /\ \A w \in safe : rings[w] # None /\ pod_id[w] \notin RandomIds => OwnRings(w)

\* Everything before, and the rings.
OwnInv == RegInv /\ NumberInv /\ RingsInv

LEMMA OwnIs == ASSUME OwnInv PROVE OwnResources
<1> SUFFICES ASSUME NEW w \in safe, rings[w] # None, pod_id[w] \notin RandomIds
             PROVE  /\ pools[w] = ServiceOf[w]
                    /\ \A v \in Workers \ {w} : Running(v) => rings[v] # rings[w]
                    /\ \A c \in cache : c[1] = pod_id[w] => c[2] = rings[w]
  BY DEF OwnResources
<1>1. OwnRings(w) /\ cache \subseteq podFiles
  BY DEF OwnInv, RingsInv
<1> QED BY <1>1 DEF OwnRings

LEMMA InitOwn == ASSUME Init PROVE OwnInv
<1>1. RegInv
  BY InitReg
<1>2. NumberInv
  BY DEF Init, NumberInv, Quiet
<1>3. RingsInv
  <2>1. None \notin Workers
    BY Constants
  <2>2. /\ rings = [w \in Workers |-> None] /\ podFiles = {} /\ cache = {} /\ safe = {}
    BY DEF Init
  <2>3. \A w \in Workers : NoRings(w)
    BY <2>1, <2>2 DEF NoRings
  <2> QED BY <2>2, <2>3 DEF RingsInv
<1> QED BY <1>1, <1>2, <1>3 DEF OwnInv

\* In this life numbers and tables are what they seem.
LEMMA NumberFacts ==
    ASSUME Control, Quiet
    PROVE  /\ counter \in Nat \cup {Torn} /\ pod_id \in [Workers -> Nat]
           /\ \A n \in Names : registry.table[n].pod_id \in Int
           /\ \A q \in Workers, n \in Names : data[q][n].pod_id \in Int
           /\ \A f \in podFiles : f[1] \in Nat /\ f[2] \in Workers
           /\ \A n \in Names : NoNames[n].pod_id = -1
<1>1. counter \in Nat \cup {Torn} /\ pod_id \in [Workers -> Nat]
  BY DEF Control, TypeOK, PhaseInv, Quiet, Counters
<1>2. \A t \in Tables, n \in Names : t[n].pod_id \in Int
  BY DEF Tables, Entries, NoEntry
<1>3. registry.table \in Tables /\ \A q \in Workers : data[q] \in Tables
  BY DEF Control, TypeOK, Files
<1>4. \A f \in podFiles : f[1] \in Nat /\ f[2] \in Workers
  BY DEF Control, TypeOK
<1>5. \A n \in Names : NoNames[n].pod_id = -1
  BY DEF NoNames, NoEntry
<1> QED BY <1>1, <1>2, <1>3, <1>4, <1>5

\* What a step does to the rings.
LEMMA RingSteps ==
    ASSUME [Next]_vars
    PROVE  \/ \E w \in Workers : CreateResources(w)
           \/ \E w \in Workers : Kill(w) /\ podFiles' = podFiles /\ rings' = [rings EXCEPT ![w] = None]
                                         /\ pools' = [pools EXCEPT ![w] = None]
           \/ Boot
           \/ UNCHANGED <<podFiles, rings, pools>>
<1>1. CASE \E p \in Processes : Ensure(p)
  BY <1>1 DEF Ensure, EnsureTest, EnsureMake, EnsureDump, files, worker
<1>2. CASE \E w \in Workers : Start(w) \/ RandomId(w) \/ ReadCounter(w) \/ ReadRegistry(w) \/ Written(w)
  BY <1>2 DEF Start, RandomId, ReadCounter, ReadRegistry, Written, WriteCounter, WriteRegistry,
     files, worker
<1>3. CASE \E w \in Workers : Kill(w)
  BY <1>3, KillFacts
<1>4. CASE (\E p \in Processes : Look(p) \/ Looked(p)) \/ ScanPods \/ UNCHANGED vars
  BY <1>4 DEF Look, Looked, ScanPods, vars, files, worker
<1>5. CASE TruncateCounter \/ ResetCounter \/ TruncateRegistry \/ ClearRegistry
  BY <1>5 DEF TruncateCounter, ResetCounter, TruncateRegistry, ClearRegistry, DpaStep, worker
<1> QED BY <1>1, <1>2, <1>3, <1>4, <1>5 DEF Next, Granted, DpaBoots

\* A worker that makes its rings.
LEMMA CreateFacts ==
    ASSUME Control, NEW w \in Workers, CreateResources(w)
    PROVE  /\ task[w] = "find" /\ at[w] = "wait" /\ Starting(w) /\ ~RegistryLocked(lock[w])
           /\ task'[w] = "register"
           /\ UNCHANGED <<counter, registry, pod_id, data, dpa, cache, safe, strays>>
           /\ \E v \in Workers : /\ v = w \/ <<pod_id[w], v>> \in podFiles
                                 /\ rings' = [rings EXCEPT ![w] = v]
                                 /\ podFiles' = podFiles \cup {<<pod_id[w], v>>}
           /\ ServicesOf(pod_id[w]) = {} => pools' = [pools EXCEPT ![w] = ServiceOf[w]]
           /\ \A v \in Workers \ {w} : pools'[v] = pools[v]
<1>1. /\ task[w] = "find" /\ at[w] = "wait" /\ ~RegistryLocked(lock[w])
      /\ UNCHANGED <<counter, registry, pod_id, data, dpa, cache, safe, strays>>
  BY DEF CreateResources, history
<1>2. task'[w] = "register"
  BY DEF CreateResources, GoTo, Control, TypeOK, Processes
<1>3. PICK v \in (IF RingsOf(pod_id[w]) = {} THEN {w} ELSE RingsOf(pod_id[w])) :
            /\ rings' = [rings EXCEPT ![w] = v]
            /\ podFiles' = podFiles \cup {<<pod_id[w], v>>}
  BY DEF CreateResources
<1>4. v \in Workers /\ (v = w \/ <<pod_id[w], v>> \in podFiles)
  BY <1>3 DEF RingsOf
<1>5. PICK s : /\ s \in (IF ServicesOf(pod_id[w]) = {} THEN {ServiceOf[w]} ELSE ServicesOf(pod_id[w]))
               /\ pools' = [pools EXCEPT ![w] = s]
  BY DEF CreateResources
<1>6. Starting(w)
  BY <1>1 DEF Starting
<1>7. ServicesOf(pod_id[w]) = {} => pools' = [pools EXCEPT ![w] = ServiceOf[w]]
  BY <1>5
<1>8. \A u \in Workers \ {w} : pools'[u] = pools[u]
  BY <1>5 DEF Control, TypeOK
<1> QED BY <1>1, <1>2, <1>3, <1>4, <1>6, <1>7, <1>8

\* Who is before its rings after a step was so before.
LEMMA BeforeRings ==
    ASSUME Control, [Next]_vars, NEW w \in Workers, task'[w] \in {"off", "alloc", "find"}
    PROVE  task[w] \in {"off", "alloc", "find"}
<1> USE Constants DEF Control, TypeOK, Processes, GoTo
<1>1. ASSUME NEW p \in Processes, Step(p), p # w PROVE task'[w] = task[w]
  BY <1>1, StepOthers DEF OthersStay
<1>2. CASE Ensure(w)
  BY <1>2 DEF Ensure, EnsureTest, EnsureMake, EnsureDump
<1>3. CASE Start(w) \/ RandomId(w) \/ ReadCounter(w) \/ WriteCounter(w)
  BY <1>3 DEF Start, RandomId, ReadCounter, WriteCounter, Locked
<1>4. CASE CreateResources(w) \/ ReadRegistry(w) \/ WriteRegistry(w)
  BY <1>4 DEF CreateResources, ReadRegistry, WriteRegistry, Locked
<1>5. CASE Kill(w)
  BY <1>5, KillFacts
<1>6. CASE DpaBoots \/ ScanPods \/ UNCHANGED vars
  BY <1>6, DpaOthers
<1>7. CASE Look(w) \/ Looked(w)
  BY <1>7 DEF Look, Looked
<1> HIDE DEF Control, TypeOK, Processes, GoTo
<1> QED BY <1>1, <1>2, <1>3, <1>4, <1>5, <1>6, <1>7, StepCases,
     Constants DEF Step, Granted, Written

\* The DPA stays up, and nobody stops being a stray, except when it boots.
LEMMA PhaseStep ==
    ASSUME Control, [Next]_vars
    PROVE  /\ dpa = "up" => dpa' = "up"
           /\ Boot \/ strays \subseteq strays'
           /\ Boot \/ TruncateCounter \/ ResetCounter \/ TruncateRegistry \/ ClearRegistry \/ dpa' = dpa
<1>1. ASSUME NEW p \in Processes, Step(p) PROVE dpa' = dpa /\ strays \subseteq strays'
  <2>1. CASE Ensure(p)
    BY <2>1 DEF Ensure, EnsureTest, EnsureMake, EnsureDump, history
  <2>2. CASE Start(p) \/ Look(p) \/ Looked(p)
    BY <2>2 DEF Start, Look, Looked
  <2>3. CASE Granted(p)
    BY <2>3 DEF Granted, RandomId, ReadCounter, CreateResources, ReadRegistry, history
  <2>4. CASE Written(p)
    BY <2>4 DEF Written, WriteCounter, WriteRegistry, history
  <2>5. CASE p \in Workers /\ Kill(p)
    BY <2>5, KillFacts
  <2> QED BY <1>1, <2>1, <2>2, <2>3, <2>4, <2>5 DEF Step
<1>2. CASE DpaBoots
  BY <1>2 DEF DpaBoots, Boot, TruncateCounter, ResetCounter, TruncateRegistry, ClearRegistry,
     DpaStep, history
<1>3. CASE ScanPods \/ UNCHANGED vars
  BY <1>3 DEF ScanPods, vars, history
<1> QED BY <1>1, <1>2, <1>3, StepCases

\* The life of the DPA is quiet after a step that ends the boot, or if it was before.
LEMMA QuietBefore ==
    ASSUME Control, [Next]_vars, Quiet' PROVE Quiet \/ ClearRegistry
<1>1. CASE dpa = "up"
  BY <1>1, PhaseStep DEF Quiet, Boot
<1>2. CASE dpa # "up"
  <2>1. dpa' = "up"
    BY DEF Quiet
  <2> QED BY <1>2, <2>1, PhaseStep DEF Boot, TruncateCounter, ResetCounter, TruncateRegistry, DpaStep
<1> QED BY <1>1, <1>2


\* The DPA gets to know rings only when it scans.
LEMMA CacheStep == ASSUME [Next]_vars PROVE ScanPods \/ cache' = cache
<1>1. CASE \E p \in Processes : Ensure(p)
  BY <1>1 DEF Ensure, EnsureTest, EnsureMake, EnsureDump
<1>2. CASE \E w \in Workers : Start(w) \/ Granted(w) \/ Written(w)
  BY <1>2 DEF Start, Granted, RandomId, ReadCounter, CreateResources, ReadRegistry, Written,
     WriteCounter, WriteRegistry
<1>3. CASE \E w \in Workers : Kill(w)
  BY <1>3, KillFacts
<1>4. CASE (\E p \in Processes : Look(p) \/ Looked(p)) \/ UNCHANGED vars
  BY <1>4 DEF Look, Looked, vars
<1>5. CASE DpaBoots
  BY <1>5 DEF DpaBoots, Boot, TruncateCounter, ResetCounter, TruncateRegistry, ClearRegistry, DpaStep
<1> QED BY <1>1, <1>2, <1>3, <1>4, <1>5 DEF Next

\* The DPA polls rings that are there.
LEMMA StepCache ==
    ASSUME Control, RingsInv, [Next]_vars
    PROVE  cache' \subseteq podFiles' /\ (dpa' # "up" => cache' = {})
<1>1. cache \subseteq podFiles /\ (dpa # "up" => cache = {})
  BY DEF RingsInv
<1>2. CASE ScanPods
  <2>1. cache' \subseteq podFiles /\ podFiles' = podFiles /\ dpa' = "up"
    BY <1>1, <1>2 DEF ScanPods, files
  <2> QED BY <2>1
<1>3. CASE cache' = cache
  <2>1. dpa' # "up" => cache' = {}
    BY <1>1, <1>3, PhaseStep
  <2>2. CASE Boot
    BY <1>1, <1>3, <2>1, <2>2 DEF Boot
  <2>3. CASE ~Boot
    BY <1>1, <1>3, <2>1, <2>3, RingSteps, CreateFacts
  <2> QED BY <2>2, <2>3
<1> QED BY <1>2, <1>3, CacheStep

\* The boot leaves no rings, and only its strays can make some before it is over.
LEMMA StepNoFiles ==
    ASSUME Control, RingsInv, [Next]_vars, Booting', strays' = {}
    PROVE  podFiles' = {}
<1>1. CASE Boot
  BY <1>1 DEF Boot
<1>2. CASE ~Boot
  <2>1. Booting
    BY <1>2, PhaseStep DEF Booting, TruncateCounter, ResetCounter, TruncateRegistry,
       ClearRegistry, DpaStep
  <2>2. strays = {}
    BY <1>2, PhaseStep
  <2>3. podFiles = {}
    BY <2>1, <2>2 DEF RingsInv
  <2>4. ASSUME NEW w \in Workers, CreateResources(w) PROVE FALSE
    <3>1. w \in strays
      BY <2>1, <2>4, CreateFacts DEF Control, EraInv, Processes, Caught, Starting, Busy
    <3> QED BY <2>2, <3>1
  <2> QED BY <1>2, <2>3, <2>4, RingSteps
<1> QED BY <1>1, <1>2

\* Nobody gets rings of a worker that has made none.
LEMMA StepNoRings ==
    ASSUME Control, RingsInv, [Next]_vars, NEW w \in Workers, task'[w] \in {"off", "alloc", "find"}
    PROVE  NoRings(w)'
<1>1. NoRings(w)
  BY BeforeRings DEF RingsInv
<1>2. None \notin Workers /\ rings \in [Workers -> Workers \cup {None}]
  BY Constants DEF Control, TypeOK
<1>3. ASSUME NEW v \in Workers, CreateResources(v) PROVE NoRings(w)'
  <2>1. v # w
    BY <1>3, CreateFacts
  <2>2. PICK u \in Workers : /\ u = v \/ <<pod_id[v], u>> \in podFiles
                             /\ rings' = [rings EXCEPT ![v] = u]
                             /\ podFiles' = podFiles \cup {<<pod_id[v], u>>}
    BY <1>3, CreateFacts
  <2>3. u # w
    BY <1>1, <2>1, <2>2 DEF NoRings
  <2> QED BY <1>1, <1>2, <2>1, <2>2, <2>3 DEF NoRings
<1>4. ASSUME NEW v \in Workers, podFiles' = podFiles, rings' = [rings EXCEPT ![v] = None]
      PROVE  NoRings(w)'
  BY <1>1, <1>2, <1>4 DEF NoRings
<1>5. CASE Boot
  BY <1>1, <1>5 DEF NoRings, Boot, worker
<1>6. CASE UNCHANGED <<podFiles, rings, pools>>
  BY <1>1, <1>6 DEF NoRings
<1> QED BY <1>3, <1>4, <1>5, <1>6, RingSteps

\* Who has rings after a step had them, and its number, before, or makes them.
LEMMA AfterRings ==
    ASSUME Control, [Next]_vars, NEW w \in safe', w \in Workers,
           task'[w] \notin {"off", "alloc", "find"}, ~CreateResources(w)
    PROVE  w \in safe /\ task[w] \notin {"off", "alloc", "find"} /\ pod_id'[w] = pod_id[w]
<1> USE Constants DEF Control, TypeOK, Processes, GoTo
<1>1. ASSUME NEW p \in Processes, Step(p), p # w PROVE task'[w] = task[w] /\ pod_id'[w] = pod_id[w]
  BY <1>1, StepOthers DEF OthersStay
<1>2. ASSUME NEW p \in Processes, Step(p), p # w PROVE w \in safe
  <2>1. CASE p \in Workers /\ (Start(p) \/ Kill(p))
    BY <1>2, <2>1, KillFacts DEF Start
  <2>2. CASE Ensure(p)
    BY <2>2 DEF Ensure, EnsureTest, EnsureMake, EnsureDump, history
  <2>3. CASE Granted(p)
    BY <2>3 DEF Granted, RandomId, ReadCounter, CreateResources, ReadRegistry, history
  <2>4. CASE Written(p)
    BY <2>4 DEF Written, WriteCounter, WriteRegistry, history
  <2>5. CASE Look(p) \/ Looked(p)
    BY <2>5 DEF Look, Looked
  <2> QED BY <1>2, <2>1, <2>2, <2>3, <2>4, <2>5 DEF Step
<1>3. CASE Ensure(w)
  BY <1>3 DEF Ensure, EnsureTest, EnsureMake, EnsureDump, worker, history
<1>4. CASE Start(w) \/ RandomId(w) \/ ReadCounter(w) \/ WriteCounter(w)
  BY <1>4 DEF Start, RandomId, ReadCounter, WriteCounter, Locked
<1>5. CASE ReadRegistry(w) \/ WriteRegistry(w)
  BY <1>5 DEF ReadRegistry, WriteRegistry, Locked, history
<1>6. CASE Kill(w)
  BY <1>6, KillFacts
<1>7. CASE DpaBoots \/ ScanPods \/ UNCHANGED vars
  BY <1>7, DpaOthers
<1>8. CASE Look(w) \/ Looked(w)
  BY <1>8 DEF Look, Looked, worker
<1> HIDE DEF Control, TypeOK, Processes, GoTo
<1> QED BY <1>1, <1>2, <1>3, <1>4, <1>5, <1>6, <1>7, <1>8, StepCases,
     Constants DEF Step, Granted, Written

\* Others leave the rings of a worker alone.
LEMMA OthersKeepRings ==
    ASSUME Control, NumberInv, Quiet, NEW w \in Workers, OwnRings(w), pod_id[w] \notin RandomIds,
           NEW v \in Workers \ {w}, CreateResources(v)
    PROVE  OwnRings(w)'
<1>1. /\ rings[w] = w /\ pools[w] = ServiceOf[w] /\ <<pod_id[w], w>> \in podFiles
      /\ \A f \in podFiles : f[1] = pod_id[w] <=> f[2] = w
      /\ \A u \in Workers \ {w} : rings[u] # w
  BY DEF OwnRings
<1>2. PICK u \in Workers : /\ u = v \/ <<pod_id[v], u>> \in podFiles
                           /\ rings' = [rings EXCEPT ![v] = u]
                           /\ podFiles' = podFiles \cup {<<pod_id[v], u>>}
  BY CreateFacts
<1>3. pod_id' = pod_id /\ pools'[w] = pools[w] /\ task[v] = "find"
  BY CreateFacts
<1>4. pod_id[v] # pod_id[w]
  <2>1. Mentioned(pod_id[w])
    BY <1>1 DEF Mentioned
  <2> QED BY <1>3, <2>1 DEF NumberInv
<1>5. u # w
  BY <1>1, <1>2, <1>4
<1>6. rings'[w] = w /\ \A x \in Workers \ {w} : rings'[x] # w
  BY <1>1, <1>2, <1>5 DEF Control, TypeOK
<1>7. <<pod_id'[w], w>> \in podFiles' /\ \A f \in podFiles' : f[1] = pod_id'[w] <=> f[2] = w
  BY <1>1, <1>2, <1>3, <1>4, <1>5
<1> QED BY <1>1, <1>3, <1>6, <1>7 DEF OwnRings

\* A worker makes rings of its own, and takes the pools of its own service.
LEMMA CreatesOwn ==
    ASSUME Control, NumberInv, RingsInv, Quiet, NEW w \in Workers, pod_id[w] \notin RandomIds,
           CreateResources(w)
    PROVE  OwnRings(w)'
<1>1. task[w] = "find" /\ pod_id' = pod_id
  BY CreateFacts
<1>2. ~Mentioned(pod_id[w]) /\ NoRings(w)
  BY <1>1 DEF NumberInv, RingsInv
<1>3. ServicesOf(pod_id[w]) = {} /\ \A f \in podFiles : f[1] # pod_id[w]
  BY <1>2 DEF Mentioned, ServicesOf
<1>4. PICK v \in Workers : /\ v = w \/ <<pod_id[w], v>> \in podFiles
                           /\ rings' = [rings EXCEPT ![w] = v]
                           /\ podFiles' = podFiles \cup {<<pod_id[w], v>>}
  BY CreateFacts
<1>5. v = w
  BY <1>3, <1>4
<1>6. pools' = [pools EXCEPT ![w] = ServiceOf[w]]
  BY <1>3, CreateFacts
<1>7. pools'[w] = ServiceOf[w] /\ rings'[w] = w /\ \A x \in Workers \ {w} : rings'[x] # w
  BY <1>2, <1>4, <1>5, <1>6 DEF Control, TypeOK, NoRings
<1>8. <<pod_id'[w], w>> \in podFiles' /\ \A f \in podFiles' : f[1] = pod_id'[w] <=> f[2] = w
  BY <1>1, <1>2, <1>3, <1>4, <1>5 DEF NoRings
<1> QED BY <1>7, <1>8 DEF OwnRings

LEMMA StepOwnRings ==
    ASSUME Control, NumberInv, RingsInv, [Next]_vars, NEW w \in safe',
           rings'[w] # None, pod_id'[w] \notin RandomIds
    PROVE  OwnRings(w)'
<1>1. w \in Workers
  BY StepControl DEF Control, TypeOK
<1>2. task'[w] \notin {"off", "alloc", "find"}
  BY <1>1, StepNoRings DEF NoRings
<1>3. CASE CreateResources(w)
  BY <1>1, <1>3, CreateFacts, CreatesOwn, SafeIsQuiet
<1>4. CASE ~CreateResources(w)
  <2>1. w \in safe /\ pod_id'[w] = pod_id[w] /\ Quiet
    BY <1>1, <1>2, <1>4, AfterRings, SafeIsQuiet
  <2>2. ~Kill(w) /\ ~Boot
    BY <1>1, <2>1, KillFacts DEF Boot, Quiet
  <2>3. rings \in [Workers -> Workers \cup {None}] /\ pools \in [Workers -> Services \cup {None}]
    BY DEF Control, TypeOK
  <2>4. rings'[w] = rings[w]
    <3>1. ASSUME NEW v \in Workers, CreateResources(v) PROVE rings'[w] = rings[w]
      BY <1>1, <1>4, <2>3, <3>1, CreateFacts
    <3> QED BY <1>1, <2>2, <2>3, <3>1, RingSteps
  <2>5. OwnRings(w)
    BY <2>1, <2>4 DEF RingsInv
  <2>6. ASSUME NEW v \in Workers, CreateResources(v) PROVE OwnRings(w)'
    BY <1>1, <1>4, <2>1, <2>5, <2>6, OthersKeepRings
  <2>7. ASSUME NEW v \in Workers, v # w, podFiles' = podFiles, rings' = [rings EXCEPT ![v] = None],
               pools' = [pools EXCEPT ![v] = None]
        PROVE  OwnRings(w)'
    BY <1>1, <2>1, <2>3, <2>5, <2>7, Constants DEF OwnRings
  <2>8. CASE UNCHANGED <<podFiles, rings, pools>>
    BY <2>1, <2>5, <2>8 DEF OwnRings
  <2> QED BY <2>2, <2>6, <2>7, <2>8, RingSteps
<1> QED BY <1>3, <1>4

LEMMA StepRings == ASSUME Control, NumberInv, RingsInv, [Next]_vars PROVE RingsInv'
<1>1. (cache \subseteq podFiles /\ (dpa # "up" => cache = {}))'
  BY StepCache
<1>2. (Booting /\ strays = {} => podFiles = {})'
  BY StepNoFiles
<1>3. (\A w \in Workers : task[w] \in {"off", "alloc", "find"} => NoRings(w))'
  BY StepNoRings
<1>4. (\A w \in safe : rings[w] # None /\ pod_id[w] \notin RandomIds => OwnRings(w))'
  BY StepOwnRings
<1> QED BY <1>1, <1>2, <1>3, <1>4 DEF RingsInv

(***************************************************************************)
(* Numbers are not given twice.                                            *)
(***************************************************************************)

\* A number that gets known was known before, or is entered by who has drawn it.
LEMMA MentionedStep ==
    ASSUME Control, Quiet, [Next]_vars, NEW i \in Int, Mentioned(i)'
    PROVE  i = -1 \/ Mentioned(i) \/ \E v \in Workers : /\ Drawn(v) /\ pod_id[v] = i
                                                        /\ task'[v] = "register"
<1> DEFINE Entered == \E v \in Workers : Drawn(v) /\ pod_id[v] = i /\ task'[v] = "register"
<1>0. ~Boot
  BY DEF Quiet, Boot
<1>1. ASSUME NEW f \in podFiles', f[1] = i PROVE Mentioned(i) \/ Entered
  <2>1. CASE f \in podFiles
    BY <1>1, <2>1 DEF Mentioned
  <2>2. CASE f \notin podFiles
    <3>1. PICK v \in Workers : CreateResources(v)
      BY <1>0, <2>2, RingSteps
    <3>2. task[v] = "find" /\ task'[v] = "register"
      BY <3>1, CreateFacts
    <3>3. \E u \in Workers : podFiles' = podFiles \cup {<<pod_id[v], u>>}
      BY <3>1, CreateFacts
    <3>4. f[1] = pod_id[v]
      BY <2>2, <3>3
    <3> QED BY <1>1, <3>2, <3>4 DEF Drawn
  <2> QED BY <2>1, <2>2
<1>2. ASSUME NEW n \in Names, registry'.table[n].pod_id = i PROVE i = -1 \/ Mentioned(i)
  <2>1. NoNames[n].pod_id = -1
    BY NumberFacts
  <2>2. CASE registry' = registry
    BY <1>2, <2>2 DEF Mentioned
  <2>3. CASE registry' = Empty \/ registry'.table = NoNames
    BY <1>2, <2>1, <2>3 DEF Empty, File
  <2>4. ASSUME NEW w \in Workers, WriteRegistry(w), registry' # registry PROVE i = -1 \/ Mentioned(i)
    <3>1. Registering(w) /\ registry' \in Dumped(data[w]) /\ data[w] \in Tables
      BY <2>4 DEF WriteRegistry, Dump, Registering, Control, TypeOK
    <3>2. registry'.table = data[w] \/ registry'.table = NoNames
      BY <3>1, FileFacts DEF Dumped, Corrupt, File
    <3>3. CASE registry'.table = data[w]
      BY <1>2, <3>1, <3>3 DEF Mentioned
    <3> QED BY <2>3, <3>2, <3>3
  <2>5. ASSUME NEW p \in passing, EnsureDump(p), registry' # registry PROVE i = -1 \/ Mentioned(i)
    <3>1. registry' \in Dumped(NoNames)
      BY <2>5 DEF EnsureDump, Dump
    <3>2. registry'.table = NoNames
      BY <3>1, FileFacts DEF Dumped, Corrupt, File
    <3> QED BY <2>3, <3>2
  <2> QED BY <2>2, <2>3, <2>4, <2>5, RegistrySteps
<1>3. ASSUME NEW q \in Workers, Registering(q)', NEW n \in Names, data'[q][n].pod_id = i
      PROVE  Mentioned(i) \/ Entered
  <2>1. task'[q] = task[q] /\ (\/ at[q] = "write" /\ data'[q] = data[q]
                               \/ ReadCounter(q) \/ ReadRegistry(q))
    BY <1>3, WriterStep DEF Registering, Processes
  <2>2. ~ReadCounter(q)
    BY <1>3, <2>1 DEF Registering, ReadCounter, Locked
  <2>3. CASE at[q] = "write" /\ data'[q] = data[q]
    BY <1>3, <2>1, <2>3 DEF Registering, Mentioned
  <2>4. CASE ReadRegistry(q)
    <3>1. data'[q] = [registry.table EXCEPT ![NameOf[q]] = Entry(pod_id[q], ServiceOf[q])]
      BY <2>4 DEF ReadRegistry, Control, TypeOK
    <3>2. registry.table \in Tables
      BY DEF Control, TypeOK, Files
    <3>3. CASE n = NameOf[q]
      <4>1. pod_id[q] = i
        BY <1>3, <3>1, <3>2, <3>3 DEF Tables, Entry
      <4> QED BY <1>3, <2>1, <4>1 DEF Drawn, Registering
    <3>4. CASE n # NameOf[q]
      BY <1>3, <3>1, <3>2, <3>4 DEF Tables, Mentioned
    <3> QED BY <3>3, <3>4
  <2> QED BY <2>1, <2>2, <2>3, <2>4
<1> QED BY <1>1, <1>2, <1>3 DEF Mentioned

\* Who has drawn a number after a step had it before, or has just written it, or has
\* drawn a random one.
LEMMA DrawnStep ==
    ASSUME Control, [Next]_vars, NEW w \in Workers, Drawn(w)'
    PROVE  \/ Drawn(w) /\ pod_id'[w] = pod_id[w] /\ (task'[w] = "find" => task[w] = "find")
           \/ Numbering(w) /\ WriteCounter(w) /\ pod_id'[w] = pod_id[w]
           \/ pod_id'[w] \in RandomIds
<1> USE Constants DEF Control, TypeOK, Processes, GoTo, Drawn, Numbering
<1>1. ASSUME NEW p \in Processes, Step(p), p # w PROVE task'[w] = task[w] /\ pod_id'[w] = pod_id[w]
  BY <1>1, StepOthers DEF OthersStay
<1>2. CASE Ensure(w)
  BY <1>2 DEF Ensure, EnsureTest, EnsureMake, EnsureDump, worker
<1>3. CASE Start(w) \/ ReadCounter(w)
  BY <1>3 DEF Start, ReadCounter, Locked
<1>4. CASE RandomId(w)
  BY <1>4 DEF RandomId
<1>5. CASE CreateResources(w) \/ ReadRegistry(w) \/ WriteRegistry(w)
  BY <1>5 DEF CreateResources, ReadRegistry, WriteRegistry, Locked
<1>6. CASE WriteCounter(w)
  BY <1>6 DEF WriteCounter, worker
<1>7. CASE Kill(w)
  BY <1>7, KillFacts
<1>8. CASE DpaBoots \/ ScanPods \/ UNCHANGED vars
  BY <1>8, DpaOthers
<1>9. CASE Look(w) \/ Looked(w)
  BY <1>9 DEF Look, Looked, worker
<1> HIDE DEF Control, TypeOK, Processes, GoTo
<1> QED BY <1>1, <1>2, <1>3, <1>4, <1>5, <1>6, <1>7, <1>8, <1>9, StepCases,
     Constants DEF Step, Granted, Written

\* Who begins to write the counter writes one more than it has read.
LEMMA NumberingStep ==
    ASSUME Control, Quiet, [Next]_vars, NEW q \in Workers, Numbering(q)'
    PROVE  \/ Numbering(q) /\ pod_id'[q] = pod_id[q]
           \/ ReadCounter(q) /\ counter # Torn /\ pod_id'[q] = counter + 1
<1>1. CASE ReadCounter(q)
  BY <1>1 DEF ReadCounter, Control, TypeOK, PhaseInv, Quiet
<1>2. CASE ~ReadCounter(q)
  BY <1>2, WriterStep DEF Numbering, Processes, ReadRegistry, Locked
<1> QED BY <1>1, <1>2

\* What is past stays so.
LEMMA PastStep ==
    ASSUME Control, Quiet, [Next]_vars, NEW i \in Int, Past(i)
    PROVE  Past(i)'
<1>1. counter \in Nat \cup {Torn} /\ pod_id \in [Workers -> Nat]
  BY NumberFacts
<1>2. (counter # Torn => i <= counter) /\ \A q \in Workers : Numbering(q) => i < pod_id[q]
  BY DEF Past
<1>3. counter' # Torn => i <= counter'
  <2>1. ASSUME NEW q \in Workers, WriteCounter(q), counter' = pod_id[q] PROVE i <= counter'
    BY <1>1, <1>2, <2>1 DEF WriteCounter, Numbering
  <2> QED BY <1>2, <2>1, CounterSteps DEF Quiet
<1>4. ASSUME NEW q \in Workers, Numbering(q)' PROVE i < pod_id'[q]
  <2>1. CASE Numbering(q) /\ pod_id'[q] = pod_id[q]
    BY <1>2, <2>1
  <2>2. CASE counter # Torn /\ pod_id'[q] = counter + 1
    BY <1>1, <1>2, <2>2 DEF Torn
  <2> QED BY <1>4, <2>1, <2>2, NumberingStep
<1> QED BY <1>3, <1>4 DEF Past

\* A number that has just been written is past.
LEMMA WrittenIsPast ==
    ASSUME Control, Quiet, [Next]_vars, NEW w \in Workers, WriteCounter(w)
    PROVE  counter' = pod_id[w] /\ \A q \in Workers : ~Numbering(q)'
<1>1. Numbering(w) /\ out[w] = Inode
  BY QuietWorkers DEF WriteCounter, Numbering, Starting, Inode, Quiet
<1>2. counter' = pod_id[w]
  BY <1>1 DEF WriteCounter
<1>3. ASSUME NEW q \in Workers, Numbering(q)' PROVE FALSE
  <2>1. task'[w] = "find" /\ (q # w => at'[q] = at[q])
    BY DEF WriteCounter, GoTo, Control, TypeOK, Processes
  <2>2. Numbering(q) /\ q # w
    BY <1>3, <2>1, NumberingStep DEF Numbering, ReadCounter, WriteCounter, Locked
  <2> QED BY <1>1, <2>2, OneWriter DEF Numbering
<1> QED BY <1>2, <1>3

\* When the boot ends nobody has a number, and no number is known.
LEMMA ClearNumbers == ASSUME Control, RingsInv, Quiet', ClearRegistry PROVE NumberInv'
<1>1. /\ Booting /\ strays = {}
      /\ UNCHANGED <<counter, podFiles, task, at, pod_id, data>>
  BY DEF ClearRegistry, DpaStep, Quiet, Booting, history, worker
<1>2. \A w \in Workers : ~Starting(w)
  BY <1>1, Constants DEF Control, EraInv, Processes, Caught, Starting, Busy
<1>3. \A w \in Workers : task'[w] \in {"off", "up", "look", "dead"}
  BY <1>1, <1>2 DEF Starting, Control, TypeOK, Processes
<1>4. podFiles' = {}
  BY <1>1 DEF RingsInv
<1>5. registry'.table = NoNames
  BY FileFacts DEF ClearRegistry, Dumped, Corrupt, File
<1>6. \A n \in Names : NoNames[n].pod_id = -1
  BY DEF NoNames, NoEntry
<1>7. counter' \in Nat \cup {Torn}
  BY <1>1 DEF ClearRegistry, DpaStep, Control, TypeOK, PhaseInv, Counters
<1>8. ASSUME NEW i \in Int, Mentioned(i)' PROVE i = -1
  BY <1>3, <1>4, <1>5, <1>6, <1>8 DEF Mentioned, Registering
<1>9. Past(-1)'
  <2>1. counter' # Torn => -1 <= counter'
    BY <1>7
  <2> QED BY <1>3, <2>1 DEF Past, Numbering
<1> QED BY <1>3, <1>8, <1>9 DEF NumberInv, Drawn

\* A number that is in use is past also after the step.
LEMMA InUseStep ==
    ASSUME Control, NumberInv, Quiet, [Next]_vars, NEW i \in Int, i \notin RandomIds
    PROVE  /\ Mentioned(i)' => Past(i)'
           /\ \A w \in Workers : Drawn(w)' /\ pod_id'[w] = i => Past(i)'
<1>1. /\ \A j \in Int : Mentioned(j) => j \in RandomIds \/ Past(j)
      /\ \A w \in Workers : Drawn(w) => pod_id[w] \in RandomIds \/ Past(pod_id[w])
  BY DEF NumberInv
<1>2. ASSUME Mentioned(i)' PROVE Past(i)'
  <2>1. CASE i = -1
    <3>1. counter \in Nat \cup {Torn} /\ pod_id \in [Workers -> Nat]
      BY NumberFacts
    <3>2. Past(i)
      BY <2>1, <3>1 DEF Past
    <3> QED BY <3>2, PastStep
  <2>2. ASSUME NEW v \in Workers, Drawn(v), pod_id[v] = i PROVE Past(i)
    BY <1>1, <2>2 DEF Past
  <2> QED BY <1>1, <1>2, <2>1, <2>2, MentionedStep, PastStep
<1>3. ASSUME NEW w \in Workers, Drawn(w)', pod_id'[w] = i PROVE Past(i)'
  <2>1. CASE Drawn(w) /\ pod_id'[w] = pod_id[w]
    <3>1. Past(i)
      BY <1>1, <1>3, <2>1 DEF Past
    <3> QED BY <3>1, PastStep
  <2>2. CASE WriteCounter(w) /\ pod_id'[w] = pod_id[w]
    <3>1. counter' = i /\ \A q \in Workers : ~Numbering(q)'
      BY <1>3, <2>2, WrittenIsPast
    <3> QED BY <3>1 DEF Past
  <2> QED BY <1>3, <2>1, <2>2, DrawnStep
<1> QED BY <1>2, <1>3

\* Who has made no rings is the only one to know its number, after the step too.
LEMMA OnlyOneStep ==
    ASSUME Control, NumberInv, Quiet, [Next]_vars, NEW w \in Workers,
           task'[w] = "find", pod_id'[w] \notin RandomIds
    PROVE  /\ ~Mentioned(pod_id[w])' /\ pod_id'[w] = pod_id[w]
           /\ \A v \in Workers \ {w} : Drawn(v)' => pod_id'[v] # pod_id[w]
<1>0. counter \in Nat \cup {Torn} /\ pod_id \in [Workers -> Nat]
  BY NumberFacts
<1>1. PICK i \in Nat : i = pod_id[w]
  BY <1>0
<1>2. pod_id'[w] = i /\ i \notin RandomIds
      /\ (task[w] = "find" \/ (Numbering(w) /\ WriteCounter(w)))
  BY <1>1, DrawnStep DEF Drawn
<1>3. CASE task[w] = "find"
  <2>1. ~Mentioned(i) /\ \A v \in Workers \ {w} : Drawn(v) => pod_id[v] # i
    BY <1>1, <1>2, <1>3 DEF NumberInv
  <2>2. ~Mentioned(i)'
    BY <1>1, <2>1, MentionedStep
  <2>3. Past(i)
    BY <1>1, <1>2, <1>3 DEF NumberInv, Drawn, Past
  <2>4. ASSUME NEW v \in Workers \ {w}, Drawn(v)' PROVE pod_id'[v] # i
    <3>1. CASE Drawn(v) /\ pod_id'[v] = pod_id[v]
      BY <2>1, <3>1
    <3>2. CASE Numbering(v) /\ pod_id'[v] = pod_id[v]
      BY <1>0, <2>3, <3>2 DEF Past
    <3> QED BY <1>2, <2>4, <3>1, <3>2, DrawnStep
  <2> QED BY <1>1, <1>2, <2>2, <2>4
<1>4. CASE Numbering(w) /\ WriteCounter(w)
  <2>1. ~Past(i)
    BY <1>1, <1>4 DEF Past
  <2>2. \A v \in Workers : Drawn(v) => pod_id[v] # i
    BY <1>2, <2>1 DEF NumberInv, Past
  <2>3. ~Mentioned(i)
    BY <1>2, <2>1 DEF NumberInv
  <2>4. ~Mentioned(i)'
    BY <2>2, <2>3, MentionedStep
  <2>5. ASSUME NEW v \in Workers \ {w}, Drawn(v)' PROVE pod_id'[v] # i
    <3>1. CASE Drawn(v) /\ pod_id'[v] = pod_id[v]
      BY <2>2, <3>1
    <3>2. CASE Numbering(v)
      BY <1>4, <3>2, OneWriter DEF Numbering
    <3> QED BY <1>2, <2>5, <3>1, <3>2, DrawnStep
  <2> QED BY <1>1, <1>2, <2>4, <2>5
<1> QED BY <1>2, <1>3, <1>4

LEMMA StepNumber == ASSUME Control, NumberInv, RingsInv, [Next]_vars PROVE NumberInv'
<1>1. CASE Quiet
  <2>1. ASSUME NEW i \in Int, Mentioned(i)' PROVE i \in RandomIds \/ Past(i)'
    BY <1>1, <2>1, InUseStep
  <2>2. ASSUME NEW w \in Workers, Drawn(w)' PROVE (pod_id[w] \in RandomIds \/ Past(pod_id[w]))'
    <3>1. pod_id' \in [Workers -> Nat]
      BY StepControl DEF Control, TypeOK
    <3>2. PICK i \in Nat : i = pod_id'[w]
      BY <3>1
    <3>3. i \in RandomIds \/ Past(i)'
      BY <1>1, <2>2, <3>2, InUseStep
    <3> QED BY <3>2, <3>3 DEF Past
  <2>3. ASSUME NEW w \in Workers, task'[w] = "find", pod_id'[w] \notin RandomIds
        PROVE  /\ ~Mentioned(pod_id[w])'
               /\ \A v \in Workers \ {w} : Drawn(v)' => pod_id'[v] # pod_id'[w]
    BY <1>1, <2>3, OnlyOneStep
  <2> QED BY <2>1, <2>2, <2>3 DEF NumberInv
<1>2. CASE ~Quiet /\ Quiet'
  BY <1>2, QuietBefore, ClearNumbers
<1>3. CASE ~Quiet'
  BY <1>3 DEF NumberInv
<1> QED BY <1>1, <1>2, <1>3

LEMMA StepOwn == ASSUME OwnInv, [Next]_vars PROVE OwnInv'
<1>1. Control
  BY DEF OwnInv, RegInv, Control
<1>2. RegInv' /\ NumberInv' /\ RingsInv'
  BY <1>1, StepReg, StepNumber, StepRings DEF OwnInv
<1> QED BY <1>2 DEF OwnInv

\* A worker has rings that nobody that runs shares with it, the DPA polls those rings
\* under its id, and its pools are those of its service: PodResources() never opens what
\* another process has left under the same id.
THEOREM RegistryResources == Spec => []OwnResources
<1>1. Init => OwnInv
  BY InitOwn
<1>2. OwnInv /\ [Next]_vars => OwnInv'
  BY StepOwn
<1>3. OwnInv => OwnResources
  BY OwnIs
<1> QED BY <1>1, <1>2, <1>3, PTL DEF Spec
=============================================================================
