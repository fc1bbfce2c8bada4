----------------------------- MODULE BufferPool -----------------------------
(***************************************************************************)
(* BufferPool of dpumesh/common.py: a bitmap and as many fixed-size slots  *)
(* in one shared-memory file.  alloc() and free() change the bitmap under  *)
(* the flock of the pool, write() and read() touch a slot without it.      *)
(*                                                                         *)
(* Every access is mm.seek(pos) followed by mm.read or mm.write, and the   *)
(* position belongs to the mmap object, of which a process has one per     *)
(* pool, whatever the number of its threads that use the pool.  So `seek'  *)
(* and the access are two steps here, and `cursor' is per process.         *)
(*                                                                         *)
(* A thread that writes a slot hands it over in a descriptor (`flight');   *)
(* the thread that takes the descriptor reads the slot and frees it or     *)
(* passes the descriptor on.                                               *)
(***************************************************************************)
EXTENDS Integers, FiniteSets

CONSTANTS
    Procs,        \* processes that map the pool
    Threads,      \* their threads
    ProcOf,       \* the process of each thread
    Writers,      \* threads that allocate and fill slots
    Readers,      \* threads that read and free slots handed over to them
    Creators,     \* processes that open the pool with create=True
    LateStart,    \* may a creator start while slots are in use?
    NumSlots,
    Data,         \* what is written to a slot
    Blank, Garbled, NoThread, NoData

ASSUME PoolAssumption ==
    /\ NumSlots \in Nat \ {0}
    /\ ProcOf \in [Threads -> Procs]
    /\ Writers \subseteq Threads /\ Readers \subseteq Threads
    /\ Creators \subseteq Procs
    /\ LateStart \in BOOLEAN
    /\ NoThread \notin Threads
    /\ Blank \notin Data /\ Garbled \notin Data /\ NoData \notin Data

VARIABLES
    proc,       \* "new", "up" or "dead"
    bitmap,     \* 1: the slot is allocated
    data,       \* contents of the slots
    cursor,     \* position of the mmap object of each process
    lock,       \* holder of the flock, or NoThread
    pc, slot, datum,   \* of each thread: its line, its slot, what the slot is for
    flight      \* descriptors on their way: [slot, datum]

shm  == <<bitmap, data>>
vars == <<proc, bitmap, data, cursor, lock, pc, slot, datum, flight>>

Slots == 0 .. NumSlots - 1

\* Positions of the mapping that matter: a byte of the bitmap, the first byte
\* of a slot, and anywhere else in a slot.
DataPos(s) == NumSlots + s
MidPos(s)  == 2 * NumSlots + s
Positions  == 0 .. 3 * NumSlots - 1

\* Where a position is after a whole bitmap or a message was read or written.
Past(p) == IF p < NumSlots THEN MidPos(0)
           ELSE IF p < 2 * NumSlots THEN p + NumSlots ELSE p

InAlloc == {"allocSeek", "allocScan", "markSeek", "mark", "allocUnlock"}
InFree  == {"freeSeek", "freeMark", "freeUnlock"}
PCs == InAlloc \cup InFree \cup
       {"gone", "idle", "allocLock", "writeSeek", "write", "written",
        "readSeek", "read", "done", "freeLock"}

TypeOK == /\ proc \in [Procs -> {"new", "up", "dead"}]
          /\ bitmap \in [Slots -> {0, 1}]
          /\ data \in [Slots -> Data \cup {Blank, Garbled}]
          /\ cursor \in [Procs -> Positions]
          /\ lock \in Threads \cup {NoThread}
          /\ pc \in [Threads -> PCs]
          /\ slot \in [Threads -> Slots \cup {-1}]
          /\ datum \in [Threads -> Data \cup {NoData}]
          /\ flight \subseteq [slot : Slots, datum : Data]

Init == /\ proc = [p \in Procs |-> "new"]
        /\ bitmap = [s \in Slots |-> 0]
        /\ data = [s \in Slots |-> Blank]
        /\ cursor = [p \in Procs |-> 0]
        /\ lock = NoThread
        /\ pc = [t \in Threads |-> "gone"]
        /\ slot = [t \in Threads |-> -1]
        /\ datum = [t \in Threads |-> NoData]
        /\ flight = {}

Goto(t, l) == pc' = [pc EXCEPT ![t] = l]
Cursor(t)  == cursor[ProcOf[t]]
Seek(t, p) == cursor' = [cursor EXCEPT ![ProcOf[t]] = p]

\* The thread owns slot[t]: it has marked it, or taken its descriptor, and has
\* not cleared its bit again.
Owns(t) == /\ slot[t] # -1
           /\ pc[t] \in {"allocUnlock", "writeSeek", "write", "written", "readSeek",
                         "read", "done", "freeLock", "freeSeek", "freeMark"}
InUse == {slot[t] : t \in {u \in Threads : Owns(u)}} \cup {d.slot : d \in flight}
-----------------------------------------------------------------------------
(***************************************************************************)
(* Start and death of processes.                                           *)
(***************************************************************************)
\* BufferPool(create=True) zeroes the bitmap, without the flock and whoever
\* uses it; create=False needs a pool that exists.  A process that comes back
\* is another process of Procs.
Start(p) ==
    /\ proc[p] = "new"
    /\ IF p \in Creators
          THEN /\ LateStart \/ InUse = {}
               /\ bitmap' = [s \in Slots |-> 0]
          ELSE /\ \E c \in Creators : proc[c] # "new"
               /\ UNCHANGED bitmap
    /\ proc' = [proc EXCEPT ![p] = "up"]
    /\ cursor' = [cursor EXCEPT ![p] = 0]
    /\ pc' = [t \in Threads |-> IF ProcOf[t] = p THEN "idle" ELSE pc[t]]
    /\ UNCHANGED <<data, lock, slot, datum, flight>>

\* The kernel drops the flock; allocated slots stay allocated.
Kill(p) ==
    /\ proc[p] = "up"
    /\ proc' = [proc EXCEPT ![p] = "dead"]
    /\ lock' = IF lock # NoThread /\ ProcOf[lock] = p THEN NoThread ELSE lock
    /\ pc' = [t \in Threads |-> IF ProcOf[t] = p THEN "gone" ELSE pc[t]]
    /\ slot' = [t \in Threads |-> IF ProcOf[t] = p THEN -1 ELSE slot[t]]
    /\ datum' = [t \in Threads |-> IF ProcOf[t] = p THEN NoData ELSE datum[t]]
    /\ UNCHANGED <<bitmap, data, cursor, flight>>
-----------------------------------------------------------------------------
(***************************************************************************)
(* alloc(), write() and the hand-over.                                     *)
(***************************************************************************)
BeginAlloc(t) == /\ pc[t] = "idle" /\ t \in Writers
                 /\ \E d \in Data : datum' = [datum EXCEPT ![t] = d]
                 /\ Goto(t, "allocLock")
                 /\ UNCHANGED <<proc, shm, cursor, lock, slot, flight>>

\* Mutant: flock() does not wait.
AcquireBusy(t) == /\ \/ pc[t] = "allocLock" /\ Goto(t, "allocSeek")
                     \/ pc[t] = "freeLock"  /\ Goto(t, "freeSeek")
                  /\ lock' = t
                  /\ UNCHANGED <<proc, shm, cursor, slot, datum, flight>>

Acquire(t) == /\ lock = NoThread
              /\ \/ pc[t] = "allocLock" /\ Goto(t, "allocSeek")
                 \/ pc[t] = "freeLock"  /\ Goto(t, "freeSeek")
              /\ lock' = t
              /\ UNCHANGED <<proc, shm, cursor, slot, datum, flight>>

\* What mm.read(num_slots) returns at position p: the bitmap at 0, bytes of a
\* slot elsewhere (of a written one none is zero).
Scanned(p) == IF p = 0 THEN {bitmap}
              ELSE IF p \in {DataPos(s) : s \in Slots}
              THEN CASE data[p - NumSlots] = Blank -> {[s \in Slots |-> 0]}
                     [] data[p - NumSlots] \in Data -> {[s \in Slots |-> 1]}
                     [] OTHER -> [Slots -> {0, 1}]
              ELSE [Slots -> {0, 1}]

AllocSeek(t) == /\ pc[t] = "allocSeek"
                /\ Seek(t, 0)
                /\ Goto(t, "allocScan")
                /\ UNCHANGED <<proc, shm, lock, slot, datum, flight>>

\* Mutant: the loop that finds no free slot returns its index.
AllocScanPastEnd(t) ==
    /\ pc[t] = "allocScan"
    /\ \E bits \in Scanned(Cursor(t)) :
          \/ /\ \A s \in Slots : bits[s] = 1
             /\ slot' = [slot EXCEPT ![t] = NumSlots]
             /\ Goto(t, "allocUnlock")
          \/ \E s \in Slots : /\ bits[s] = 0 /\ \A r \in 0 .. s - 1 : bits[r] = 1
                              /\ slot' = [slot EXCEPT ![t] = s]
                              /\ Goto(t, "markSeek")
    /\ Seek(t, IF Cursor(t) = 0 THEN DataPos(0) ELSE Past(Cursor(t)))
    /\ UNCHANGED <<proc, shm, lock, datum, flight>>

AllocScan(t) ==
    /\ pc[t] = "allocScan"
    /\ \E bits \in Scanned(Cursor(t)) :
          \/ /\ \A s \in Slots : bits[s] = 1
             /\ Goto(t, "allocUnlock")
             /\ UNCHANGED slot
          \/ \E s \in Slots : /\ bits[s] = 0 /\ \A r \in 0 .. s - 1 : bits[r] = 1
                              /\ slot' = [slot EXCEPT ![t] = s]
                              /\ Goto(t, "markSeek")
    /\ Seek(t, IF Cursor(t) = 0 THEN DataPos(0) ELSE Past(Cursor(t)))
    /\ UNCHANGED <<proc, shm, lock, datum, flight>>

\* mm.write of one byte: the bitmap, or the first or another byte of a slot.
WriteByte(t, b) ==
    LET p == Cursor(t) IN
    /\ Seek(t, IF p < NumSlots THEN p + 1 ELSE Past(p))
    /\ IF p < NumSlots
          THEN bitmap' = [bitmap EXCEPT ![p] = b] /\ UNCHANGED data
          ELSE /\ UNCHANGED bitmap
               /\ IF p < 2 * NumSlots
                     THEN data' = [data EXCEPT ![p - NumSlots] = Garbled]
                     ELSE \E g \in {data[p - 2 * NumSlots], Garbled} :
                             data' = [data EXCEPT ![p - 2 * NumSlots] = g]

MarkSeek(t) == /\ pc[t] = "markSeek"
               /\ Seek(t, slot[t])
               /\ Goto(t, "mark")
               /\ UNCHANGED <<proc, shm, lock, slot, datum, flight>>

\* Mutant: the wrong byte.
MarkZero(t) == /\ pc[t] = "mark"
               /\ WriteByte(t, 0)
               /\ Goto(t, "allocUnlock")
               /\ UNCHANGED <<proc, lock, slot, datum, flight>>

Mark(t) == /\ pc[t] = "mark"
           /\ WriteByte(t, 1)
           /\ Goto(t, "allocUnlock")
           /\ UNCHANGED <<proc, lock, slot, datum, flight>>

\* -1 (pool full) is returned to the caller, which gives up.
AllocUnlock(t) ==
    /\ pc[t] = "allocUnlock"
    /\ lock' = NoThread
    /\ Goto(t, IF slot[t] = -1 THEN "idle" ELSE "writeSeek")
    /\ datum' = IF slot[t] = -1 THEN [datum EXCEPT ![t] = NoData] ELSE datum
    /\ UNCHANGED <<proc, shm, cursor, slot, flight>>

\* Mutant: no roll-back after the OverflowError.
WriteOverflowLeaks(t) == /\ pc[t] = "writeSeek"
                         /\ slot' = [slot EXCEPT ![t] = -1]
                         /\ datum' = [datum EXCEPT ![t] = NoData]
                         /\ Goto(t, "idle")
                         /\ UNCHANGED <<proc, shm, cursor, lock, flight>>

\* The data exceeds the slot size: OverflowError before anything is written.
WriteOverflow(t) == /\ pc[t] = "writeSeek"
                    /\ Goto(t, "freeLock")
                    /\ UNCHANGED <<proc, shm, cursor, lock, slot, datum, flight>>

\* Mutant: the offset of the first slot is forgotten.
WriteSeekBitmap(t) == /\ pc[t] = "writeSeek"
                      /\ Seek(t, slot[t])
                      /\ Goto(t, "write")
                      /\ UNCHANGED <<proc, shm, lock, slot, datum, flight>>

WriteSeek(t) == /\ pc[t] = "writeSeek"
                /\ Seek(t, DataPos(slot[t]))
                /\ Goto(t, "write")
                /\ UNCHANGED <<proc, shm, lock, slot, datum, flight>>

\* mm.write of a message, which is longer than the bitmap and has no zero byte.
Write(t) ==
    /\ pc[t] = "write"
    /\ LET p == Cursor(t) IN
       /\ Seek(t, Past(p))
       /\ IF p < NumSlots
             THEN /\ bitmap' = [s \in Slots |-> IF s >= p THEN 1 ELSE bitmap[s]]
                  /\ data' = [data EXCEPT ![0] = Garbled]
             ELSE /\ UNCHANGED bitmap
                  /\ IF p < 2 * NumSlots
                        THEN data' = [data EXCEPT ![p - NumSlots] = datum[t]]
                        ELSE \E g \in {data[p - 2 * NumSlots], Garbled} :
                                data' = [data EXCEPT ![p - 2 * NumSlots] = g]
    /\ Goto(t, "written")
    /\ UNCHANGED <<proc, lock, slot, datum, flight>>

Forget(t) == /\ slot' = [slot EXCEPT ![t] = -1]
             /\ datum' = [datum EXCEPT ![t] = NoData]

\* The descriptor is put on a ring: the slot is no longer this thread's.
HandOver(t) == /\ pc[t] \in {"written", "done"}
               /\ flight' = flight \cup {[slot |-> slot[t], datum |-> datum[t]]}
               /\ Forget(t)
               /\ Goto(t, "idle")
               /\ UNCHANGED <<proc, shm, cursor, lock>>

\* The next pool or the ring is full (a roll-back), or the message is consumed.
BeginFree(t) == /\ pc[t] \in {"written", "done"}
                /\ Goto(t, "freeLock")
                /\ UNCHANGED <<proc, shm, cursor, lock, slot, datum, flight>>
-----------------------------------------------------------------------------
(***************************************************************************)
(* read() and free().                                                      *)
(***************************************************************************)
Take(t) == /\ pc[t] = "idle" /\ t \in Readers
           /\ \E d \in flight :
                 /\ flight' = flight \ {d}
                 /\ slot' = [slot EXCEPT ![t] = d.slot]
                 /\ datum' = [datum EXCEPT ![t] = d.datum]
           /\ Goto(t, "readSeek")
           /\ UNCHANGED <<proc, shm, cursor, lock>>

ReadSeek(t) == /\ pc[t] = "readSeek"
               /\ Seek(t, DataPos(slot[t]))
               /\ Goto(t, "read")
               /\ UNCHANGED <<proc, shm, lock, slot, datum, flight>>

Read(t) == /\ pc[t] = "read"
           /\ Seek(t, Past(Cursor(t)))
           /\ Goto(t, "done")
           /\ UNCHANGED <<proc, shm, lock, slot, datum, flight>>

\* What the mm.read about to be made by t returns.
Returned(t) == IF Cursor(t) \in {DataPos(s) : s \in Slots}
                  THEN data[Cursor(t) - NumSlots] ELSE Garbled

FreeSeek(t) == /\ pc[t] = "freeSeek"
               /\ Seek(t, slot[t])
               /\ Goto(t, "freeMark")
               /\ UNCHANGED <<proc, shm, lock, slot, datum, flight>>

FreeMark(t) == /\ pc[t] = "freeMark"
               /\ WriteByte(t, 0)
               /\ Goto(t, "freeUnlock")
               /\ UNCHANGED <<proc, lock, slot, datum, flight>>

FreeUnlock(t) == /\ pc[t] = "freeUnlock"
                 /\ lock' = NoThread
                 /\ Forget(t)
                 /\ Goto(t, "idle")
                 /\ UNCHANGED <<proc, shm, cursor, flight>>

Step(t) == \/ BeginAlloc(t) \/ Acquire(t) \/ AllocSeek(t) \/ AllocScan(t)
           \/ MarkSeek(t) \/ Mark(t) \/ AllocUnlock(t)
           \/ WriteOverflow(t) \/ WriteSeek(t) \/ Write(t)
           \/ HandOver(t) \/ BeginFree(t)
           \/ Take(t) \/ ReadSeek(t) \/ Read(t)
           \/ FreeSeek(t) \/ FreeMark(t) \/ FreeUnlock(t)

Next == \/ \E t \in Threads : Step(t)
        \/ \E p \in Procs : Start(p) \/ Kill(p)

Spec == Init /\ [][Next]_vars
-----------------------------------------------------------------------------
(***************************************************************************)
(* Properties                                                              *)
(***************************************************************************)
\* A slot has one user: no two threads own it, no thread owns one that is in
\* flight, and no two descriptors in flight name the same one.
Exclusive ==
    /\ \A t, u \in Threads : Owns(t) /\ Owns(u) /\ slot[t] = slot[u] => t = u
    /\ \A t \in Threads, d \in flight : Owns(t) => slot[t] # d.slot
    /\ \A d, e \in flight : d.slot = e.slot => d = e

\* alloc() cannot give away a slot in use.
UsedSlotsAreMarked == /\ \A t \in Threads : Owns(t) => bitmap[slot[t]] = 1
                      /\ \A d \in flight : bitmap[d.slot] = 1

\* From the end of write() to the free() of its reader a slot holds what was
\* written, and read() returns just that.
MessagesIntact ==
    /\ \A d \in flight : data[d.slot] = d.datum
    /\ \A t \in Threads : pc[t] = "written" => data[slot[t]] = datum[t]
    /\ \A t \in Threads : pc[t] = "read" => Returned(t) = datum[t]

\* As long as no process has died no slot is lost: a set bit has a user.
MarkedSlotsAreUsed ==
    (\A p \in Procs : proc[p] # "dead") =>
        \A s \in Slots : bitmap[s] = 1 =>
            (\E t \in Threads : slot[t] = s) \/ (\E d \in flight : d.slot = s)
-----------------------------------------------------------------------------
(***************************************************************************)
(* The inductive invariant of a pool none of whose processes uses it from  *)
(* two threads, and whose creators start only while no slot is in use.     *)
(***************************************************************************)
SingleThreaded == \A t, u \in Threads : ProcOf[t] = ProcOf[u] => t = u

\* The flock is held exactly inside alloc() and free().
LockInv == \A t \in Threads : pc[t] \in InAlloc \cup InFree <=> lock = t

\* Nobody moved the cursor between a thread's seek and its access.
CursorInv ==
    \A t \in Threads :
        /\ pc[t] = "allocScan" => Cursor(t) = 0
        /\ pc[t] \in {"mark", "freeMark"} => Cursor(t) = slot[t]
        /\ pc[t] \in {"write", "read"} => Cursor(t) = DataPos(slot[t])

NoSlotYet == {"gone", "idle", "allocLock", "allocSeek", "allocScan"}

\* Which locals a thread has at which line.
LocalInv ==
    \A t \in Threads :
        /\ proc[ProcOf[t]] = "new" => pc[t] = "gone"
        /\ pc[t] \in NoSlotYet => slot[t] = -1
        /\ slot[t] = -1 => pc[t] \in NoSlotYet \cup {"allocUnlock"}
        /\ datum[t] \in Data <=> pc[t] \notin {"gone", "idle"}

\* The slot chosen under the flock is free until it is marked, the slot of a
\* finished free() is free.
BitInv == \A t \in Threads : pc[t] \in {"markSeek", "mark", "freeUnlock"} => bitmap[slot[t]] = 0

\* A slot keeps its message while its owner passes it around and while its
\* descriptor is in flight.
ContentInv ==
    /\ \A t \in Threads :
          pc[t] \in {"written", "readSeek", "read", "done"} => data[slot[t]] = datum[t]
    /\ \A d \in flight : data[d.slot] = d.datum

PoolInv == /\ TypeOK /\ Exclusive /\ UsedSlotsAreMarked /\ MarkedSlotsAreUsed
           /\ LockInv /\ CursorInv /\ LocalInv /\ BitInv /\ ContentInv
=============================================================================
