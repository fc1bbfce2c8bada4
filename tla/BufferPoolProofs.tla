-------------------------- MODULE BufferPoolProofs --------------------------
(***************************************************************************)
(* Theorems about BufferPool, for any number of processes and threads, any *)
(* number of slots and any data: what holds as long as no process uses the *)
(* pool from two threads and no creator starts while a slot is in use.     *)
(***************************************************************************)
EXTENDS BufferPool, TLAPS

\* Where the positions of the mapping are.
LEMMA PositionFacts ==
  /\ 0 \in Positions /\ DataPos(0) \in Positions
  /\ \A s \in Slots : /\ s \in Positions /\ DataPos(s) \in Positions
                      /\ s < NumSlots /\ s + 1 \in Positions
                      /\ ~(DataPos(s) < NumSlots) /\ DataPos(s) < 2 * NumSlots
                      /\ DataPos(s) - NumSlots = s
  /\ \A p \in Positions : Past(p) \in Positions
BY PoolAssumption DEF Slots, Positions, DataPos, MidPos, Past

\* A seek moves the cursor of the thread's process, which no other thread uses.
LEMMA SeekCursor ==
    ASSUME SingleThreaded, TypeOK, NEW t \in Threads, NEW p \in Positions, Seek(t, p)
    PROVE  /\ cursor' \in [Procs -> Positions]
           /\ Cursor(t)' = p
           /\ \A u \in Threads \ {t} : Cursor(u)' = Cursor(u)
BY PoolAssumption DEF SingleThreaded, TypeOK, Seek, Cursor

\* Past the allocation and before the end of free() a thread has a slot.
LEMMA HasSlot ==
    ASSUME TypeOK, LocalInv, NEW t \in Threads, pc[t] \notin NoSlotYet \cup {"allocUnlock"}
    PROVE  slot[t] \in Slots
BY DEF TypeOK, LocalInv

\* With the cursor on the thread's bit, mm.write sets that bit and nothing else.
LEMMA WriteOwnBit ==
    ASSUME SingleThreaded, TypeOK, NEW t \in Threads, NEW b \in {0, 1},
           slot[t] \in Slots, Cursor(t) = slot[t], WriteByte(t, b)
    PROVE  /\ bitmap' = [bitmap EXCEPT ![slot[t]] = b]
           /\ data' = data
           /\ cursor' \in [Procs -> Positions]
           /\ \A u \in Threads \ {t} : Cursor(u)' = Cursor(u)
<1>1. Cursor(t) < NumSlots /\ Cursor(t) + 1 \in Positions
  BY PositionFacts
<1>2. Seek(t, Cursor(t) + 1)
  BY <1>1 DEF WriteByte
<1>3. bitmap' = [bitmap EXCEPT ![Cursor(t)] = b] /\ data' = data
  BY <1>1 DEF WriteByte
<1>4. QED
  BY <1>1, <1>2, <1>3, SeekCursor

\* With the cursor on the thread's slot, mm.write fills that slot and nothing else.
LEMMA WriteOwnSlot ==
    ASSUME SingleThreaded, TypeOK, NEW t \in Threads,
           slot[t] \in Slots, Cursor(t) = DataPos(slot[t]), Write(t)
    PROVE  /\ bitmap' = bitmap
           /\ data' = [data EXCEPT ![slot[t]] = datum[t]]
           /\ cursor' \in [Procs -> Positions]
           /\ \A u \in Threads \ {t} : Cursor(u)' = Cursor(u)
<1>1. /\ ~(Cursor(t) < NumSlots) /\ Cursor(t) < 2 * NumSlots
      /\ Cursor(t) - NumSlots = slot[t] /\ Past(Cursor(t)) \in Positions
  BY PositionFacts
<1>2. Seek(t, Past(Cursor(t)))
  BY DEF Write
<1>3. bitmap' = bitmap /\ data' = [data EXCEPT ![Cursor(t) - NumSlots] = datum[t]]
  BY <1>1 DEF Write
<1>4. QED
  BY <1>1, <1>2, <1>3, SeekCursor

\* Every step of a thread preserves the invariant.
LEMMA StepPoolInv ==
    ASSUME SingleThreaded, LateStart = FALSE, PoolInv, \E t \in Threads : Step(t)
    PROVE  PoolInv'
<1> USE PoolAssumption DEF PoolInv
<1>2. ASSUME NEW t \in Threads, BeginAlloc(t) PROVE PoolInv'
  <2>2. TypeOK'
    BY <1>2 DEF BeginAlloc, Goto, shm, TypeOK, PCs, InAlloc, InFree, LocalInv
  <2>3. Exclusive'
    BY <1>2 DEF BeginAlloc, Goto, shm, TypeOK, Exclusive, Owns, UsedSlotsAreMarked, BitInv, LocalInv
  <2>4. UsedSlotsAreMarked'
    BY <1>2 DEF BeginAlloc, Goto, shm, TypeOK, UsedSlotsAreMarked, Owns, Exclusive, LocalInv
  <2>5. MarkedSlotsAreUsed'
    BY <1>2 DEF BeginAlloc, Goto, shm, TypeOK, MarkedSlotsAreUsed, BitInv, LocalInv, NoSlotYet
  <2>6. LockInv'
    BY <1>2 DEF BeginAlloc, Goto, shm, TypeOK, LockInv, InAlloc, InFree
  <2>7. CursorInv'
    BY <1>2 DEF BeginAlloc, Goto, shm, TypeOK, CursorInv, Cursor
  <2>8. LocalInv'
    BY <1>2 DEF BeginAlloc, Goto, shm, TypeOK, LocalInv, NoSlotYet
  <2>9. BitInv'
    BY <1>2 DEF BeginAlloc, Goto, shm, TypeOK, BitInv, LockInv, InAlloc, InFree, LocalInv, NoSlotYet
  <2>10. ContentInv'
    BY <1>2 DEF BeginAlloc, Goto, shm, TypeOK, ContentInv, Exclusive, Owns, LocalInv, NoSlotYet
  <2>11. QED
    BY <2>2, <2>3, <2>4, <2>5, <2>6, <2>7, <2>8, <2>9, <2>10
<1>3. ASSUME NEW t \in Threads, Acquire(t) PROVE PoolInv'
  <2>2. TypeOK'
    BY <1>3 DEF Acquire, Goto, shm, TypeOK, PCs, InAlloc, InFree, LocalInv
  <2>3. Exclusive'
    BY <1>3 DEF Acquire, Goto, shm, TypeOK, Exclusive, Owns, UsedSlotsAreMarked, BitInv, LocalInv
  <2>4. UsedSlotsAreMarked'
    BY <1>3 DEF Acquire, Goto, shm, TypeOK, UsedSlotsAreMarked, Owns, Exclusive, LocalInv
  <2>5. MarkedSlotsAreUsed'
    BY <1>3 DEF Acquire, Goto, shm, TypeOK, MarkedSlotsAreUsed, BitInv, LocalInv, NoSlotYet
  <2>6. LockInv'
    BY <1>3 DEF Acquire, Goto, shm, TypeOK, LockInv, InAlloc, InFree
  <2>7. CursorInv'
    BY <1>3 DEF Acquire, Goto, shm, TypeOK, CursorInv, Cursor
  <2>8. LocalInv'
    BY <1>3 DEF Acquire, Goto, shm, TypeOK, LocalInv, NoSlotYet
  <2>9. BitInv'
    BY <1>3 DEF Acquire, Goto, shm, TypeOK, BitInv, LockInv, InAlloc, InFree, LocalInv, NoSlotYet
  <2>10. ContentInv'
    BY <1>3 DEF Acquire, Goto, shm, TypeOK, ContentInv, Exclusive, Owns, LocalInv, NoSlotYet
  <2>11. QED
    BY <2>2, <2>3, <2>4, <2>5, <2>6, <2>7, <2>8, <2>9, <2>10
<1>4. ASSUME NEW t \in Threads, AllocSeek(t) PROVE PoolInv'
  <2>1. /\ Cursor(t)' = 0
      /\ cursor' \in [Procs -> Positions]
      /\ \A u \in Threads \ {t} : Cursor(u)' = Cursor(u)
    <3>1. pc[t] \in PCs BY DEF TypeOK
    <3> QED
      BY <1>4, SeekCursor, PositionFacts DEF AllocSeek, Goto, shm, Seek, Cursor, CursorInv, LocalInv, TypeOK, WriteByte, NoSlotYet
  <2>2. TypeOK'
    BY <1>4, <2>1 DEF AllocSeek, Goto, shm, TypeOK, PCs, InAlloc, InFree, LocalInv
  <2>3. Exclusive'
    BY <1>4, <2>1 DEF AllocSeek, Goto, shm, TypeOK, Exclusive, Owns, UsedSlotsAreMarked, BitInv, LocalInv
  <2>4. UsedSlotsAreMarked'
    BY <1>4, <2>1 DEF AllocSeek, Goto, shm, TypeOK, UsedSlotsAreMarked, Owns, Exclusive, LocalInv
  <2>5. MarkedSlotsAreUsed'
    BY <1>4, <2>1 DEF AllocSeek, Goto, shm, TypeOK, MarkedSlotsAreUsed, BitInv, LocalInv, NoSlotYet
  <2>6. LockInv'
    BY <1>4, <2>1 DEF AllocSeek, Goto, shm, TypeOK, LockInv, InAlloc, InFree
  <2>7. CursorInv'
    BY <1>4, <2>1 DEF AllocSeek, Goto, shm, TypeOK, CursorInv
  <2>8. LocalInv'
    BY <1>4, <2>1 DEF AllocSeek, Goto, shm, TypeOK, LocalInv, NoSlotYet
  <2>9. BitInv'
    BY <1>4, <2>1 DEF AllocSeek, Goto, shm, TypeOK, BitInv, LockInv, InAlloc, InFree, LocalInv, NoSlotYet
  <2>10. ContentInv'
    BY <1>4, <2>1 DEF AllocSeek, Goto, shm, TypeOK, ContentInv, Exclusive, Owns, LocalInv, NoSlotYet
  <2>11. QED
    BY <2>2, <2>3, <2>4, <2>5, <2>6, <2>7, <2>8, <2>9, <2>10
<1>5. ASSUME NEW t \in Threads, AllocScan(t) PROVE PoolInv'
  <2>1. /\ \/ /\ pc' = [pc EXCEPT ![t] = "allocUnlock"] /\ slot' = slot
              /\ \A s \in Slots : bitmap[s] = 1
           \/ \E s \in Slots : /\ bitmap[s] = 0
                               /\ slot' = [slot EXCEPT ![t] = s]
                               /\ pc' = [pc EXCEPT ![t] = "markSeek"]
      /\ cursor' \in [Procs -> Positions]
      /\ \A u \in Threads \ {t} : Cursor(u)' = Cursor(u)
    <3>1. pc[t] \in PCs BY DEF TypeOK
    <3> QED
      BY <1>5, SeekCursor, PositionFacts DEF AllocScan, Goto, shm, Seek, Cursor, CursorInv, LocalInv, TypeOK, WriteByte, NoSlotYet, Scanned
  <2>2. TypeOK'
    BY <1>5, <2>1 DEF AllocScan, Goto, shm, TypeOK, PCs, InAlloc, InFree, LocalInv
  <2>3. Exclusive'
    <3>1. ~Owns(t) /\ ~Owns(t)' /\ flight' = flight
      BY <1>5, <2>1 DEF AllocScan, TypeOK, LocalInv, NoSlotYet, Owns
    <3>2. \A u \in Threads \ {t} : slot'[u] = slot[u] /\ (Owns(u)' <=> Owns(u))
      BY <2>1 DEF TypeOK, Owns
    <3>3. QED
      BY <3>1, <3>2 DEF Exclusive
  <2>4. UsedSlotsAreMarked'
    BY <1>5, <2>1 DEF AllocScan, Goto, shm, TypeOK, UsedSlotsAreMarked, Owns, Exclusive, LocalInv
  <2>5. MarkedSlotsAreUsed'
    <3>1. /\ slot[t] = -1 /\ flight' = flight /\ bitmap' = bitmap /\ proc' = proc
          /\ \A u \in Threads \ {t} : slot'[u] = slot[u]
      BY <1>5, <2>1 DEF AllocScan, shm, TypeOK, LocalInv, NoSlotYet
    <3>2. ASSUME NEW s \in Slots, NEW u \in Threads, slot[u] = s
          PROVE  slot'[u] = s
      BY <3>1, <3>2 DEF Slots
    <3>3. QED
      BY <3>1, <3>2 DEF MarkedSlotsAreUsed
  <2>6. LockInv'
    BY <1>5, <2>1 DEF AllocScan, Goto, shm, TypeOK, LockInv, InAlloc, InFree
  <2>7. CursorInv'
    BY <1>5, <2>1 DEF AllocScan, Goto, shm, TypeOK, CursorInv
  <2>8. LocalInv'
    <3>1. proc' = proc /\ datum' = datum /\ pc[t] = "allocScan"
      BY <1>5 DEF AllocScan
    <3>2. CASE pc' = [pc EXCEPT ![t] = "allocUnlock"] /\ slot' = slot
      BY <3>1, <3>2 DEF LocalInv, NoSlotYet, TypeOK
    <3>3. CASE \E s \in Slots : /\ slot' = [slot EXCEPT ![t] = s]
                                /\ pc' = [pc EXCEPT ![t] = "markSeek"]
      BY <3>1, <3>3 DEF LocalInv, NoSlotYet, TypeOK, Slots
    <3>4. QED
      BY <2>1, <3>2, <3>3
  <2>9. BitInv'
    BY <1>5, <2>1 DEF AllocScan, Goto, shm, TypeOK, BitInv, LockInv, InAlloc, InFree, LocalInv, NoSlotYet
  <2>10. ContentInv'
    BY <1>5, <2>1 DEF AllocScan, Goto, shm, TypeOK, ContentInv, Exclusive, Owns, LocalInv, NoSlotYet
  <2>11. QED
    BY <2>2, <2>3, <2>4, <2>5, <2>6, <2>7, <2>8, <2>9, <2>10
<1>6. ASSUME NEW t \in Threads, MarkSeek(t) PROVE PoolInv'
  <2>1. /\ Cursor(t)' = slot[t]
      /\ cursor' \in [Procs -> Positions]
      /\ \A u \in Threads \ {t} : Cursor(u)' = Cursor(u)
    <3>1. slot[t] \in Slots
      BY <1>6, HasSlot DEF MarkSeek, NoSlotYet
    <3>2. slot[t] \in Positions /\ Seek(t, slot[t])
      BY <1>6, <3>1, PositionFacts DEF MarkSeek
    <3>3. QED
      BY <3>2, SeekCursor
  <2>2. TypeOK'
    BY <1>6, <2>1 DEF MarkSeek, Goto, shm, TypeOK, PCs, InAlloc, InFree, LocalInv
  <2>3. Exclusive'
    BY <1>6, <2>1 DEF MarkSeek, Goto, shm, TypeOK, Exclusive, Owns, UsedSlotsAreMarked, BitInv, LocalInv
  <2>4. UsedSlotsAreMarked'
    BY <1>6, <2>1 DEF MarkSeek, Goto, shm, TypeOK, UsedSlotsAreMarked, Owns, Exclusive, LocalInv
  <2>5. MarkedSlotsAreUsed'
    BY <1>6, <2>1 DEF MarkSeek, Goto, shm, TypeOK, MarkedSlotsAreUsed, BitInv, LocalInv, NoSlotYet
  <2>6. LockInv'
    BY <1>6, <2>1 DEF MarkSeek, Goto, shm, TypeOK, LockInv, InAlloc, InFree
  <2>7. CursorInv'
    BY <1>6, <2>1 DEF MarkSeek, Goto, shm, TypeOK, CursorInv
  <2>8. LocalInv'
    BY <1>6, <2>1 DEF MarkSeek, Goto, shm, TypeOK, LocalInv, NoSlotYet
  <2>9. BitInv'
    BY <1>6, <2>1 DEF MarkSeek, Goto, shm, TypeOK, BitInv, LockInv, InAlloc, InFree, LocalInv, NoSlotYet
  <2>10. ContentInv'
    BY <1>6, <2>1 DEF MarkSeek, Goto, shm, TypeOK, ContentInv, Exclusive, Owns, LocalInv, NoSlotYet
  <2>11. QED
    BY <2>2, <2>3, <2>4, <2>5, <2>6, <2>7, <2>8, <2>9, <2>10
<1>7. ASSUME NEW t \in Threads, Mark(t) PROVE PoolInv'
  <2>1. /\ bitmap' = [bitmap EXCEPT ![slot[t]] = 1] /\ data' = data
      /\ cursor' \in [Procs -> Positions]
      /\ \A u \in Threads \ {t} : Cursor(u)' = Cursor(u)
    <3>1. slot[t] \in Slots
      BY <1>7, HasSlot DEF Mark, NoSlotYet
    <3>2. Cursor(t) = slot[t] /\ WriteByte(t, 1)
      BY <1>7 DEF Mark, CursorInv
    <3>3. QED
      BY <3>1, <3>2, WriteOwnBit
  <2>2. TypeOK'
    BY <1>7, <2>1 DEF Mark, Goto, shm, TypeOK, PCs, InAlloc, InFree, LocalInv
  <2>3. Exclusive'
    BY <1>7, <2>1 DEF Mark, Goto, shm, TypeOK, Exclusive, Owns, UsedSlotsAreMarked, BitInv, LocalInv
  <2>4. UsedSlotsAreMarked'
    BY <1>7, <2>1 DEF Mark, Goto, shm, TypeOK, UsedSlotsAreMarked, Owns, Exclusive, LocalInv
  <2>5. MarkedSlotsAreUsed'
    BY <1>7, <2>1 DEF Mark, Goto, shm, TypeOK, MarkedSlotsAreUsed, BitInv, LocalInv, NoSlotYet
  <2>6. LockInv'
    BY <1>7, <2>1 DEF Mark, Goto, shm, TypeOK, LockInv, InAlloc, InFree
  <2>7. CursorInv'
    BY <1>7, <2>1 DEF Mark, Goto, shm, TypeOK, CursorInv
  <2>8. LocalInv'
    BY <1>7, <2>1 DEF Mark, Goto, shm, TypeOK, LocalInv, NoSlotYet
  <2>9. BitInv'
    BY <1>7, <2>1 DEF Mark, Goto, shm, TypeOK, BitInv, LockInv, InAlloc, InFree, LocalInv, NoSlotYet
  <2>10. ContentInv'
    BY <1>7, <2>1 DEF Mark, Goto, shm, TypeOK, ContentInv, Exclusive, Owns, LocalInv, NoSlotYet
  <2>11. QED
    BY <2>2, <2>3, <2>4, <2>5, <2>6, <2>7, <2>8, <2>9, <2>10
<1>8. ASSUME NEW t \in Threads, AllocUnlock(t) PROVE PoolInv'
  <2>2. TypeOK'
    BY <1>8 DEF AllocUnlock, Goto, shm, TypeOK, PCs, InAlloc, InFree, LocalInv
  <2>3. Exclusive'
    BY <1>8 DEF AllocUnlock, Goto, shm, TypeOK, Exclusive, Owns, UsedSlotsAreMarked, BitInv, LocalInv
  <2>4. UsedSlotsAreMarked'
    BY <1>8 DEF AllocUnlock, Goto, shm, TypeOK, UsedSlotsAreMarked, Owns, Exclusive, LocalInv
  <2>5. MarkedSlotsAreUsed'
    BY <1>8 DEF AllocUnlock, Goto, shm, TypeOK, MarkedSlotsAreUsed, BitInv, LocalInv, NoSlotYet
  <2>6. LockInv'
    BY <1>8 DEF AllocUnlock, Goto, shm, TypeOK, LockInv, InAlloc, InFree
  <2>7. CursorInv'
    BY <1>8 DEF AllocUnlock, Goto, shm, TypeOK, CursorInv, Cursor
  <2>8. LocalInv'
    BY <1>8 DEF AllocUnlock, Goto, shm, TypeOK, LocalInv, NoSlotYet
  <2>9. BitInv'
    BY <1>8 DEF AllocUnlock, Goto, shm, TypeOK, BitInv, LockInv, InAlloc, InFree, LocalInv, NoSlotYet
  <2>10. ContentInv'
    BY <1>8 DEF AllocUnlock, Goto, shm, TypeOK, ContentInv, Exclusive, Owns, LocalInv, NoSlotYet
  <2>11. QED
    BY <2>2, <2>3, <2>4, <2>5, <2>6, <2>7, <2>8, <2>9, <2>10
<1>9. ASSUME NEW t \in Threads, WriteOverflow(t) PROVE PoolInv'
  <2>2. TypeOK'
    BY <1>9 DEF WriteOverflow, Goto, shm, TypeOK, PCs, InAlloc, InFree, LocalInv
  <2>3. Exclusive'
    BY <1>9 DEF WriteOverflow, Goto, shm, TypeOK, Exclusive, Owns, UsedSlotsAreMarked, BitInv, LocalInv
  <2>4. UsedSlotsAreMarked'
    BY <1>9 DEF WriteOverflow, Goto, shm, TypeOK, UsedSlotsAreMarked, Owns, Exclusive, LocalInv
  <2>5. MarkedSlotsAreUsed'
    BY <1>9 DEF WriteOverflow, Goto, shm, TypeOK, MarkedSlotsAreUsed, BitInv, LocalInv, NoSlotYet
  <2>6. LockInv'
    BY <1>9 DEF WriteOverflow, Goto, shm, TypeOK, LockInv, InAlloc, InFree
  <2>7. CursorInv'
    BY <1>9 DEF WriteOverflow, Goto, shm, TypeOK, CursorInv, Cursor
  <2>8. LocalInv'
    BY <1>9 DEF WriteOverflow, Goto, shm, TypeOK, LocalInv, NoSlotYet
  <2>9. BitInv'
    BY <1>9 DEF WriteOverflow, Goto, shm, TypeOK, BitInv, LockInv, InAlloc, InFree, LocalInv, NoSlotYet
  <2>10. ContentInv'
    BY <1>9 DEF WriteOverflow, Goto, shm, TypeOK, ContentInv, Exclusive, Owns, LocalInv, NoSlotYet
  <2>11. QED
    BY <2>2, <2>3, <2>4, <2>5, <2>6, <2>7, <2>8, <2>9, <2>10
<1>10. ASSUME NEW t \in Threads, WriteSeek(t) PROVE PoolInv'
  <2>1. /\ Cursor(t)' = DataPos(slot[t])
      /\ cursor' \in [Procs -> Positions]
      /\ \A u \in Threads \ {t} : Cursor(u)' = Cursor(u)
    <3>1. slot[t] \in Slots
      BY <1>10, HasSlot DEF WriteSeek, NoSlotYet
    <3>2. DataPos(slot[t]) \in Positions /\ Seek(t, DataPos(slot[t]))
      BY <1>10, <3>1, PositionFacts DEF WriteSeek
    <3>3. QED
      BY <3>2, SeekCursor
  <2>2. TypeOK'
    BY <1>10, <2>1 DEF WriteSeek, Goto, shm, TypeOK, PCs, InAlloc, InFree, LocalInv
  <2>3. Exclusive'
    BY <1>10, <2>1 DEF WriteSeek, Goto, shm, TypeOK, Exclusive, Owns, UsedSlotsAreMarked, BitInv, LocalInv
  <2>4. UsedSlotsAreMarked'
    BY <1>10, <2>1 DEF WriteSeek, Goto, shm, TypeOK, UsedSlotsAreMarked, Owns, Exclusive, LocalInv
  <2>5. MarkedSlotsAreUsed'
    BY <1>10, <2>1 DEF WriteSeek, Goto, shm, TypeOK, MarkedSlotsAreUsed, BitInv, LocalInv, NoSlotYet
  <2>6. LockInv'
    BY <1>10, <2>1 DEF WriteSeek, Goto, shm, TypeOK, LockInv, InAlloc, InFree
  <2>7. CursorInv'
    BY <1>10, <2>1 DEF WriteSeek, Goto, shm, TypeOK, CursorInv
  <2>8. LocalInv'
    BY <1>10, <2>1 DEF WriteSeek, Goto, shm, TypeOK, LocalInv, NoSlotYet
  <2>9. BitInv'
    BY <1>10, <2>1 DEF WriteSeek, Goto, shm, TypeOK, BitInv, LockInv, InAlloc, InFree, LocalInv, NoSlotYet
  <2>10. ContentInv'
    BY <1>10, <2>1 DEF WriteSeek, Goto, shm, TypeOK, ContentInv, Exclusive, Owns, LocalInv, NoSlotYet
  <2>11. QED
    BY <2>2, <2>3, <2>4, <2>5, <2>6, <2>7, <2>8, <2>9, <2>10
<1>11. ASSUME NEW t \in Threads, Write(t) PROVE PoolInv'
  <2>1. /\ bitmap' = bitmap /\ data' = [data EXCEPT ![slot[t]] = datum[t]]
      /\ cursor' \in [Procs -> Positions]
      /\ \A u \in Threads \ {t} : Cursor(u)' = Cursor(u)
    <3>1. slot[t] \in Slots
      BY <1>11, HasSlot DEF Write, NoSlotYet
    <3>2. Cursor(t) = DataPos(slot[t])
      BY <1>11 DEF Write, CursorInv
    <3>3. QED
      BY <1>11, <3>1, <3>2, WriteOwnSlot
  <2>2. TypeOK'
    BY <1>11, <2>1 DEF Write, Goto, shm, TypeOK, PCs, InAlloc, InFree, LocalInv
  <2>3. Exclusive'
    BY <1>11, <2>1 DEF Write, Goto, shm, TypeOK, Exclusive, Owns, UsedSlotsAreMarked, BitInv, LocalInv
  <2>4. UsedSlotsAreMarked'
    BY <1>11, <2>1 DEF Write, Goto, shm, TypeOK, UsedSlotsAreMarked, Owns, Exclusive, LocalInv
  <2>5. MarkedSlotsAreUsed'
    BY <1>11, <2>1 DEF Write, Goto, shm, TypeOK, MarkedSlotsAreUsed, BitInv, LocalInv, NoSlotYet
  <2>6. LockInv'
    BY <1>11, <2>1 DEF Write, Goto, shm, TypeOK, LockInv, InAlloc, InFree
  <2>7. CursorInv'
    BY <1>11, <2>1 DEF Write, Goto, shm, TypeOK, CursorInv
  <2>8. LocalInv'
    BY <1>11, <2>1 DEF Write, Goto, shm, TypeOK, LocalInv, NoSlotYet
  <2>9. BitInv'
    BY <1>11, <2>1 DEF Write, Goto, shm, TypeOK, BitInv, LockInv, InAlloc, InFree, LocalInv, NoSlotYet
  <2>10. ContentInv'
    BY <1>11, <2>1 DEF Write, Goto, shm, TypeOK, ContentInv, Exclusive, Owns, LocalInv, NoSlotYet
  <2>11. QED
    BY <2>2, <2>3, <2>4, <2>5, <2>6, <2>7, <2>8, <2>9, <2>10
<1>12. ASSUME NEW t \in Threads, HandOver(t) PROVE PoolInv'
  <2> DEFINE h == [slot |-> slot[t], datum |-> datum[t]]
  <2>1. /\ slot[t] \in Slots /\ datum[t] \in Data /\ Owns(t)
        /\ h \in [slot : Slots, datum : Data] /\ h.slot = slot[t]
        /\ flight' = flight \cup {h} /\ slot'[t] = -1 /\ ~Owns(t)'
        /\ bitmap' = bitmap /\ proc' = proc
        /\ slot' = [slot EXCEPT ![t] = -1] /\ datum' = [datum EXCEPT ![t] = NoData]
    <3>1. slot[t] \in Slots
      BY <1>12, HasSlot DEF HandOver, NoSlotYet
    <3>2. datum[t] \in Data
      BY <1>12 DEF HandOver, LocalInv
    <3>3. QED
      BY <1>12, <3>1, <3>2 DEF HandOver, Forget, shm, Owns, TypeOK, Slots
  <2>0. ASSUME NEW u \in Threads \ {t} PROVE slot'[u] = slot[u] /\ (Owns(u)' <=> Owns(u))
    BY <1>12, <2>1 DEF HandOver, Goto, Owns, TypeOK
  <2> HIDE DEF h
  <2>2. TypeOK'
    BY <1>12, <2>1 DEF HandOver, Goto, shm, TypeOK, PCs
  <2>3. Exclusive'
    <3>1. \A u, v \in Threads : Owns(u)' /\ Owns(v)' /\ slot'[u] = slot'[v] => u = v
      BY <2>1, <2>0 DEF Exclusive
    <3>2. \A u \in Threads, d \in flight' : Owns(u)' => slot'[u] # d.slot
      BY <2>1, <2>0 DEF Exclusive
    <3>3. \A d, e \in flight' : d.slot = e.slot => d = e
      BY <2>1 DEF Exclusive
    <3>4. QED
      BY <3>1, <3>2, <3>3 DEF Exclusive
  <2>4. UsedSlotsAreMarked'
    BY <2>1, <2>0 DEF UsedSlotsAreMarked
  <2>5. MarkedSlotsAreUsed'
    <3>1. ASSUME NEW s \in Slots, NEW u \in Threads, slot[u] = s
          PROVE  (\E v \in Threads : slot'[v] = s) \/ (\E e \in flight' : e.slot = s)
      <4>1. CASE u = t
        BY <2>1, <3>1, <4>1
      <4>2. CASE u # t
        BY <2>0, <3>1, <4>2
      <4>3. QED
        BY <4>1, <4>2
    <3>2. QED
      BY <2>1, <3>1 DEF MarkedSlotsAreUsed
  <2>6. LockInv'
    BY <1>12 DEF HandOver, Goto, shm, Forget, TypeOK, LockInv, InAlloc, InFree
  <2>7. CursorInv'
    BY <1>12 DEF HandOver, Goto, shm, Forget, TypeOK, CursorInv, Cursor
  <2>8. LocalInv'
    BY <1>12 DEF HandOver, Goto, shm, Forget, TypeOK, LocalInv, NoSlotYet
  <2>9. BitInv'
    BY <1>12 DEF HandOver, Goto, shm, Forget, TypeOK, BitInv, LockInv, InAlloc, InFree, LocalInv, NoSlotYet
  <2>10. ContentInv'
    BY <1>12 DEF HandOver, Goto, shm, Forget, TypeOK, ContentInv, Exclusive, Owns, LocalInv, NoSlotYet
  <2>11. QED
    BY <2>2, <2>3, <2>4, <2>5, <2>6, <2>7, <2>8, <2>9, <2>10
<1>13. ASSUME NEW t \in Threads, BeginFree(t) PROVE PoolInv'
  <2>2. TypeOK'
    BY <1>13 DEF BeginFree, Goto, shm, TypeOK, PCs, InAlloc, InFree, LocalInv
  <2>3. Exclusive'
    BY <1>13 DEF BeginFree, Goto, shm, TypeOK, Exclusive, Owns, UsedSlotsAreMarked, BitInv, LocalInv
  <2>4. UsedSlotsAreMarked'
    BY <1>13 DEF BeginFree, Goto, shm, TypeOK, UsedSlotsAreMarked, Owns, Exclusive, LocalInv
  <2>5. MarkedSlotsAreUsed'
    BY <1>13 DEF BeginFree, Goto, shm, TypeOK, MarkedSlotsAreUsed, BitInv, LocalInv, NoSlotYet
  <2>6. LockInv'
    BY <1>13 DEF BeginFree, Goto, shm, TypeOK, LockInv, InAlloc, InFree
  <2>7. CursorInv'
    BY <1>13 DEF BeginFree, Goto, shm, TypeOK, CursorInv, Cursor
  <2>8. LocalInv'
    BY <1>13 DEF BeginFree, Goto, shm, TypeOK, LocalInv, NoSlotYet
  <2>9. BitInv'
    BY <1>13 DEF BeginFree, Goto, shm, TypeOK, BitInv, LockInv, InAlloc, InFree, LocalInv, NoSlotYet
  <2>10. ContentInv'
    BY <1>13 DEF BeginFree, Goto, shm, TypeOK, ContentInv, Exclusive, Owns, LocalInv, NoSlotYet
  <2>11. QED
    BY <2>2, <2>3, <2>4, <2>5, <2>6, <2>7, <2>8, <2>9, <2>10
<1>14. ASSUME NEW t \in Threads, Take(t) PROVE PoolInv'
  <2>1. PICK d \in flight : /\ flight' = flight \ {d}
                            /\ slot' = [slot EXCEPT ![t] = d.slot]
                            /\ datum' = [datum EXCEPT ![t] = d.datum]
    BY <1>14 DEF Take
  <2>2. TypeOK'
    BY <1>14 DEF Take, Goto, shm, TypeOK, PCs, InAlloc, InFree, LocalInv
  <2>3. Exclusive'
    BY <1>14 DEF Take, Goto, shm, TypeOK, Exclusive, Owns, UsedSlotsAreMarked, BitInv, LocalInv
  <2>4. UsedSlotsAreMarked'
    BY <1>14 DEF Take, Goto, shm, TypeOK, UsedSlotsAreMarked, Owns, Exclusive, LocalInv
  <2>5. MarkedSlotsAreUsed'
    <3>1. /\ slot[t] = -1 /\ slot'[t] = d.slot /\ bitmap' = bitmap /\ proc' = proc
          /\ \A u \in Threads \ {t} : slot'[u] = slot[u]
      BY <1>14, <2>1 DEF Take, shm, LocalInv, NoSlotYet, TypeOK
    <3>2. ASSUME NEW s \in Slots, \E u \in Threads : slot[u] = s
          PROVE  \E u \in Threads : slot'[u] = s
      <4>1. PICK u \in Threads : slot[u] = s
        BY <3>2
      <4>2. u # t
        BY <3>1, <4>1 DEF Slots
      <4>3. QED
        BY <3>1, <4>1, <4>2
    <3>3. ASSUME NEW s \in Slots, \E e \in flight : e.slot = s
          PROVE  (\E u \in Threads : slot'[u] = s) \/ (\E e \in flight' : e.slot = s)
      BY <2>1, <3>1, <3>3
    <3>4. QED
      BY <3>1, <3>2, <3>3 DEF MarkedSlotsAreUsed
  <2>6. LockInv'
    BY <1>14 DEF Take, Goto, shm, TypeOK, LockInv, InAlloc, InFree
  <2>7. CursorInv'
    BY <1>14 DEF Take, Goto, shm, TypeOK, CursorInv, Cursor
  <2>8. LocalInv'
    <3>1. d.slot # -1 /\ d.datum \in Data
      BY DEF TypeOK, Slots
    <3>2. QED
      BY <1>14, <2>1, <3>1 DEF Take, Goto, TypeOK, LocalInv, NoSlotYet
  <2>9. BitInv'
    BY <1>14 DEF Take, Goto, shm, TypeOK, BitInv, LockInv, InAlloc, InFree, LocalInv, NoSlotYet
  <2>10. ContentInv'
    BY <1>14 DEF Take, Goto, shm, TypeOK, ContentInv, Exclusive, Owns, LocalInv, NoSlotYet
  <2>11. QED
    BY <2>2, <2>3, <2>4, <2>5, <2>6, <2>7, <2>8, <2>9, <2>10
<1>15. ASSUME NEW t \in Threads, ReadSeek(t) PROVE PoolInv'
  <2>1. /\ Cursor(t)' = DataPos(slot[t])
      /\ cursor' \in [Procs -> Positions]
      /\ \A u \in Threads \ {t} : Cursor(u)' = Cursor(u)
    <3>1. slot[t] \in Slots
      BY <1>15, HasSlot DEF ReadSeek, NoSlotYet
    <3>2. DataPos(slot[t]) \in Positions /\ Seek(t, DataPos(slot[t]))
      BY <1>15, <3>1, PositionFacts DEF ReadSeek
    <3>3. QED
      BY <3>2, SeekCursor
  <2>2. TypeOK'
    BY <1>15, <2>1 DEF ReadSeek, Goto, shm, TypeOK, PCs, InAlloc, InFree, LocalInv
  <2>3. Exclusive'
    BY <1>15, <2>1 DEF ReadSeek, Goto, shm, TypeOK, Exclusive, Owns, UsedSlotsAreMarked, BitInv, LocalInv
  <2>4. UsedSlotsAreMarked'
    BY <1>15, <2>1 DEF ReadSeek, Goto, shm, TypeOK, UsedSlotsAreMarked, Owns, Exclusive, LocalInv
  <2>5. MarkedSlotsAreUsed'
    BY <1>15, <2>1 DEF ReadSeek, Goto, shm, TypeOK, MarkedSlotsAreUsed, BitInv, LocalInv, NoSlotYet
  <2>6. LockInv'
    BY <1>15, <2>1 DEF ReadSeek, Goto, shm, TypeOK, LockInv, InAlloc, InFree
  <2>7. CursorInv'
    BY <1>15, <2>1 DEF ReadSeek, Goto, shm, TypeOK, CursorInv
  <2>8. LocalInv'
    BY <1>15, <2>1 DEF ReadSeek, Goto, shm, TypeOK, LocalInv, NoSlotYet
  <2>9. BitInv'
    BY <1>15, <2>1 DEF ReadSeek, Goto, shm, TypeOK, BitInv, LockInv, InAlloc, InFree, LocalInv, NoSlotYet
  <2>10. ContentInv'
    BY <1>15, <2>1 DEF ReadSeek, Goto, shm, TypeOK, ContentInv, Exclusive, Owns, LocalInv, NoSlotYet
  <2>11. QED
    BY <2>2, <2>3, <2>4, <2>5, <2>6, <2>7, <2>8, <2>9, <2>10
<1>16. ASSUME NEW t \in Threads, Read(t) PROVE PoolInv'
  <2>1. /\ cursor' \in [Procs -> Positions]
      /\ \A u \in Threads \ {t} : Cursor(u)' = Cursor(u)
    <3>1. Cursor(t) \in Positions
      BY DEF TypeOK, Cursor
    <3>2. Past(Cursor(t)) \in Positions /\ Seek(t, Past(Cursor(t)))
      BY <1>16, <3>1, PositionFacts DEF Read
    <3>3. QED
      BY <3>2, SeekCursor
  <2>2. TypeOK'
    BY <1>16, <2>1 DEF Read, Goto, shm, TypeOK, PCs, InAlloc, InFree, LocalInv
  <2>3. Exclusive'
    BY <1>16, <2>1 DEF Read, Goto, shm, TypeOK, Exclusive, Owns, UsedSlotsAreMarked, BitInv, LocalInv
  <2>4. UsedSlotsAreMarked'
    BY <1>16, <2>1 DEF Read, Goto, shm, TypeOK, UsedSlotsAreMarked, Owns, Exclusive, LocalInv
  <2>5. MarkedSlotsAreUsed'
    BY <1>16, <2>1 DEF Read, Goto, shm, TypeOK, MarkedSlotsAreUsed, BitInv, LocalInv, NoSlotYet
  <2>6. LockInv'
    BY <1>16, <2>1 DEF Read, Goto, shm, TypeOK, LockInv, InAlloc, InFree
  <2>7. CursorInv'
    BY <1>16, <2>1 DEF Read, Goto, shm, TypeOK, CursorInv
  <2>8. LocalInv'
    BY <1>16, <2>1 DEF Read, Goto, shm, TypeOK, LocalInv, NoSlotYet
  <2>9. BitInv'
    BY <1>16, <2>1 DEF Read, Goto, shm, TypeOK, BitInv, LockInv, InAlloc, InFree, LocalInv, NoSlotYet
  <2>10. ContentInv'
    BY <1>16, <2>1 DEF Read, Goto, shm, TypeOK, ContentInv, Exclusive, Owns, LocalInv, NoSlotYet
  <2>11. QED
    BY <2>2, <2>3, <2>4, <2>5, <2>6, <2>7, <2>8, <2>9, <2>10
<1>17. ASSUME NEW t \in Threads, FreeSeek(t) PROVE PoolInv'
  <2>1. /\ Cursor(t)' = slot[t]
      /\ cursor' \in [Procs -> Positions]
      /\ \A u \in Threads \ {t} : Cursor(u)' = Cursor(u)
    <3>1. slot[t] \in Slots
      BY <1>17, HasSlot DEF FreeSeek, NoSlotYet
    <3>2. slot[t] \in Positions /\ Seek(t, slot[t])
      BY <1>17, <3>1, PositionFacts DEF FreeSeek
    <3>3. QED
      BY <3>2, SeekCursor
  <2>2. TypeOK'
    BY <1>17, <2>1 DEF FreeSeek, Goto, shm, TypeOK, PCs, InAlloc, InFree, LocalInv
  <2>3. Exclusive'
    BY <1>17, <2>1 DEF FreeSeek, Goto, shm, TypeOK, Exclusive, Owns, UsedSlotsAreMarked, BitInv, LocalInv
  <2>4. UsedSlotsAreMarked'
    BY <1>17, <2>1 DEF FreeSeek, Goto, shm, TypeOK, UsedSlotsAreMarked, Owns, Exclusive, LocalInv
  <2>5. MarkedSlotsAreUsed'
    BY <1>17, <2>1 DEF FreeSeek, Goto, shm, TypeOK, MarkedSlotsAreUsed, BitInv, LocalInv, NoSlotYet
  <2>6. LockInv'
    BY <1>17, <2>1 DEF FreeSeek, Goto, shm, TypeOK, LockInv, InAlloc, InFree
  <2>7. CursorInv'
    BY <1>17, <2>1 DEF FreeSeek, Goto, shm, TypeOK, CursorInv
  <2>8. LocalInv'
    BY <1>17, <2>1 DEF FreeSeek, Goto, shm, TypeOK, LocalInv, NoSlotYet
  <2>9. BitInv'
    BY <1>17, <2>1 DEF FreeSeek, Goto, shm, TypeOK, BitInv, LockInv, InAlloc, InFree, LocalInv, NoSlotYet
  <2>10. ContentInv'
    BY <1>17, <2>1 DEF FreeSeek, Goto, shm, TypeOK, ContentInv, Exclusive, Owns, LocalInv, NoSlotYet
  <2>11. QED
    BY <2>2, <2>3, <2>4, <2>5, <2>6, <2>7, <2>8, <2>9, <2>10
<1>18. ASSUME NEW t \in Threads, FreeMark(t) PROVE PoolInv'
  <2>1. /\ bitmap' = [bitmap EXCEPT ![slot[t]] = 0] /\ data' = data
      /\ cursor' \in [Procs -> Positions]
      /\ \A u \in Threads \ {t} : Cursor(u)' = Cursor(u)
    <3>1. slot[t] \in Slots
      BY <1>18, HasSlot DEF FreeMark, NoSlotYet
    <3>2. Cursor(t) = slot[t] /\ WriteByte(t, 0)
      BY <1>18 DEF FreeMark, CursorInv
    <3>3. QED
      BY <3>1, <3>2, WriteOwnBit
  <2>2. TypeOK'
    BY <1>18, <2>1 DEF FreeMark, Goto, shm, TypeOK, PCs, InAlloc, InFree, LocalInv
  <2>3. Exclusive'
    BY <1>18, <2>1 DEF FreeMark, Goto, shm, TypeOK, Exclusive, Owns, UsedSlotsAreMarked, BitInv, LocalInv
  <2>4. UsedSlotsAreMarked'
    <3>1. Owns(t)
      BY <1>18, HasSlot DEF FreeMark, NoSlotYet, Owns, Slots
    <3>2. ASSUME NEW u \in Threads, Owns(u)' PROVE bitmap'[slot'[u]] = 1
      <4>1. u # t /\ Owns(u) /\ slot'[u] = slot[u]
        BY <1>18, <3>2 DEF FreeMark, Goto, Owns, TypeOK
      <4>2. slot[u] # slot[t] /\ slot[u] \in Slots
        BY <3>1, <4>1 DEF Exclusive, Owns, TypeOK
      <4>3. QED
        BY <2>1, <4>1, <4>2 DEF UsedSlotsAreMarked, TypeOK
    <3>3. ASSUME NEW d \in flight PROVE bitmap'[d.slot] = 1
      <4>1. d.slot # slot[t]
        BY <3>1 DEF Exclusive
      <4>2. QED
        BY <2>1, <4>1 DEF UsedSlotsAreMarked, TypeOK
    <3>4. QED
      BY <1>18, <3>2, <3>3 DEF FreeMark, UsedSlotsAreMarked
  <2>5. MarkedSlotsAreUsed'
    BY <1>18, <2>1 DEF FreeMark, Goto, shm, TypeOK, MarkedSlotsAreUsed, BitInv, LocalInv, NoSlotYet
  <2>6. LockInv'
    BY <1>18, <2>1 DEF FreeMark, Goto, shm, TypeOK, LockInv, InAlloc, InFree
  <2>7. CursorInv'
    BY <1>18, <2>1 DEF FreeMark, Goto, shm, TypeOK, CursorInv
  <2>8. LocalInv'
    BY <1>18, <2>1 DEF FreeMark, Goto, shm, TypeOK, LocalInv, NoSlotYet
  <2>9. BitInv'
    BY <1>18, <2>1 DEF FreeMark, Goto, shm, TypeOK, BitInv, LockInv, InAlloc, InFree, LocalInv, NoSlotYet
  <2>10. ContentInv'
    BY <1>18, <2>1 DEF FreeMark, Goto, shm, TypeOK, ContentInv, Exclusive, Owns, LocalInv, NoSlotYet
  <2>11. QED
    BY <2>2, <2>3, <2>4, <2>5, <2>6, <2>7, <2>8, <2>9, <2>10
<1>19. ASSUME NEW t \in Threads, FreeUnlock(t) PROVE PoolInv'
  <2>2. TypeOK'
    BY <1>19 DEF FreeUnlock, Goto, shm, Forget, TypeOK, PCs, InAlloc, InFree, LocalInv
  <2>3. Exclusive'
    BY <1>19 DEF FreeUnlock, Goto, shm, Forget, TypeOK, Exclusive, Owns, UsedSlotsAreMarked, BitInv, LocalInv
  <2>4. UsedSlotsAreMarked'
    BY <1>19 DEF FreeUnlock, Goto, shm, Forget, TypeOK, UsedSlotsAreMarked, Owns, Exclusive, LocalInv
  <2>5. MarkedSlotsAreUsed'
    BY <1>19 DEF FreeUnlock, Goto, shm, Forget, TypeOK, MarkedSlotsAreUsed, BitInv, LocalInv, NoSlotYet
  <2>6. LockInv'
    BY <1>19 DEF FreeUnlock, Goto, shm, Forget, TypeOK, LockInv, InAlloc, InFree
  <2>7. CursorInv'
    BY <1>19 DEF FreeUnlock, Goto, shm, Forget, TypeOK, CursorInv, Cursor
  <2>8. LocalInv'
    BY <1>19 DEF FreeUnlock, Goto, shm, Forget, TypeOK, LocalInv, NoSlotYet
  <2>9. BitInv'
    BY <1>19 DEF FreeUnlock, Goto, shm, Forget, TypeOK, BitInv, LockInv, InAlloc, InFree, LocalInv, NoSlotYet
  <2>10. ContentInv'
    BY <1>19 DEF FreeUnlock, Goto, shm, Forget, TypeOK, ContentInv, Exclusive, Owns, LocalInv, NoSlotYet
  <2>11. QED
    BY <2>2, <2>3, <2>4, <2>5, <2>6, <2>7, <2>8, <2>9, <2>10
<1>20. QED
  BY <1>2, <1>3, <1>4, <1>5, <1>6, <1>7, <1>8, <1>9, <1>10, <1>11, <1>12, <1>13, <1>14, <1>15, <1>16, <1>17, <1>18, <1>19 DEF Step

\* So does the start of a process, a creator finding no slot in use.
LEMMA StartPoolInv ==
    ASSUME LateStart = FALSE, PoolInv, NEW p \in Procs, Start(p)
    PROVE  PoolInv'
<1> USE PoolAssumption DEF PoolInv
<1>1. /\ \A t \in Threads : ProcOf[t] = p => pc[t] = "gone" /\ pc'[t] = "idle"
      /\ \A t \in Threads : ProcOf[t] # p => pc'[t] = pc[t] /\ Cursor(t)' = Cursor(t)
      /\ \A t \in Threads : slot'[t] = slot[t] /\ datum'[t] = datum[t]
      /\ \A t \in Threads : Owns(t)' => Owns(t)
      /\ data' = data /\ flight' = flight /\ lock' = lock
      /\ proc[p] = "new" /\ proc' = [proc EXCEPT ![p] = "up"]
  BY DEF Start, LocalInv, TypeOK, Owns, Cursor
<1>2. \/ bitmap' = bitmap
      \/ /\ bitmap' = [s \in Slots |-> 0] /\ flight = {} /\ \A t \in Threads : ~Owns(t)
  <2>1. bitmap' = bitmap \/ (bitmap' = [s \in Slots |-> 0] /\ InUse = {})
    BY DEF Start
  <2>2. ASSUME NEW t \in Threads, Owns(t) PROVE slot[t] \in InUse
    BY <2>2 DEF InUse
  <2>3. ASSUME NEW d \in flight PROVE d.slot \in InUse
    BY <2>3 DEF InUse
  <2>4. QED
    BY <2>1, <2>2, <2>3
<1>3. TypeOK'
  BY PositionFacts DEF Start, TypeOK, PCs
<1>4. Exclusive'
  BY <1>1 DEF Exclusive
<1>5. UsedSlotsAreMarked'
  BY <1>1, <1>2 DEF UsedSlotsAreMarked
<1>6. MarkedSlotsAreUsed'
  <2>1. (\A q \in Procs : proc'[q] # "dead") => (\A q \in Procs : proc[q] # "dead")
    BY <1>1 DEF TypeOK
  <2>2. \A s \in Slots : bitmap'[s] = 1 => bitmap[s] = 1
    BY <1>2
  <2>3. QED
    BY <1>1, <2>1, <2>2 DEF MarkedSlotsAreUsed
<1>7. LockInv'
  BY <1>1 DEF LockInv, InAlloc, InFree
<1>8. CursorInv'
  BY <1>1 DEF CursorInv
<1>9. LocalInv'
  BY <1>1 DEF LocalInv, NoSlotYet, TypeOK
<1>10. BitInv'
  <2>1. ASSUME NEW t \in Threads, pc'[t] \in {"markSeek", "mark", "freeUnlock"}
        PROVE  bitmap'[slot[t]] = 0
    <3>1. pc[t] = pc'[t] /\ slot[t] \in Slots
      BY <1>1, <2>1, HasSlot DEF NoSlotYet
    <3>2. QED
      BY <1>2, <2>1, <3>1 DEF BitInv
  <2>2. QED
    BY <1>1, <2>1 DEF BitInv
<1>11. ContentInv'
  BY <1>1 DEF ContentInv
<1>12. QED
  BY <1>3, <1>4, <1>5, <1>6, <1>7, <1>8, <1>9, <1>10, <1>11

\* And the death of a process, at whatever line its threads are.
LEMMA KillPoolInv ==
    ASSUME PoolInv, NEW p \in Procs, Kill(p)
    PROVE  PoolInv'
<1> USE PoolAssumption DEF PoolInv
<1>1. /\ \A t \in Threads : ProcOf[t] = p => pc'[t] = "gone" /\ slot'[t] = -1 /\ datum'[t] = NoData
      /\ \A t \in Threads : ProcOf[t] # p =>
            pc'[t] = pc[t] /\ slot'[t] = slot[t] /\ datum'[t] = datum[t]
      /\ \A t \in Threads : Owns(t)' => Owns(t) /\ slot'[t] = slot[t]
      /\ bitmap' = bitmap /\ data' = data /\ flight' = flight /\ cursor' = cursor
      /\ proc[p] = "up" /\ proc' = [proc EXCEPT ![p] = "dead"]
  BY DEF Kill, Owns
<1>2. TypeOK'
  BY DEF Kill, TypeOK, PCs
<1>3. Exclusive'
  BY <1>1 DEF Exclusive
<1>4. UsedSlotsAreMarked'
  BY <1>1 DEF UsedSlotsAreMarked
<1>5. MarkedSlotsAreUsed'
  BY <1>1 DEF MarkedSlotsAreUsed, TypeOK
<1>6. LockInv'
  BY <1>1 DEF Kill, LockInv, InAlloc, InFree, TypeOK
<1>7. CursorInv'
  BY <1>1 DEF CursorInv, Cursor
<1>8. LocalInv'
  BY <1>1 DEF LocalInv, NoSlotYet, TypeOK
<1>9. BitInv'
  BY <1>1 DEF BitInv
<1>10. ContentInv'
  BY <1>1 DEF ContentInv
<1>11. QED
  BY <1>2, <1>3, <1>4, <1>5, <1>6, <1>7, <1>8, <1>9, <1>10

LEMMA InitPoolInv == Init => PoolInv
<1> SUFFICES ASSUME Init PROVE PoolInv
  OBVIOUS
<1>1. TypeOK
  BY PoolAssumption, PositionFacts DEF Init, TypeOK, PCs
<1>2. Exclusive /\ UsedSlotsAreMarked /\ MarkedSlotsAreUsed
  BY DEF Init, Exclusive, UsedSlotsAreMarked, MarkedSlotsAreUsed, Owns
<1>3. LockInv /\ CursorInv /\ BitInv /\ ContentInv
  BY PoolAssumption DEF Init, LockInv, InAlloc, InFree, CursorInv, BitInv, ContentInv
<1>4. LocalInv
  BY PoolAssumption DEF Init, LocalInv, NoSlotYet
<1>5. QED
  BY <1>1, <1>2, <1>3, <1>4 DEF PoolInv

\* The invariant holds of every single-threaded pool without late starts.
THEOREM PoolInvariant ==
    ASSUME SingleThreaded, LateStart = FALSE
    PROVE  Spec => []PoolInv
<1>1. PoolInv /\ [Next]_vars => PoolInv'
  <2> SUFFICES ASSUME PoolInv, [Next]_vars PROVE PoolInv'
    OBVIOUS
  <2>1. CASE \E t \in Threads : Step(t)
    BY <2>1, StepPoolInv
  <2>2. CASE \E p \in Procs : Start(p) \/ Kill(p)
    BY <2>2, StartPoolInv, KillPoolInv
  <2>3. CASE UNCHANGED vars
    BY <2>3 DEF vars, shm, PoolInv, TypeOK, Exclusive, UsedSlotsAreMarked, MarkedSlotsAreUsed,
                LockInv, CursorInv, LocalInv, BitInv, ContentInv, Owns, Cursor
  <2>4. QED
    BY <2>1, <2>2, <2>3 DEF Next
<1>2. QED
  BY <1>1, InitPoolInv, PTL DEF Spec

\* No slot has two users.
THEOREM PoolExclusive ==
    ASSUME SingleThreaded, LateStart = FALSE
    PROVE  Spec => []Exclusive
<1>1. PoolInv => Exclusive
  BY DEF PoolInv
<1>2. QED
  BY <1>1, PoolInvariant, PTL

\* A message arrives as it was written.
THEOREM PoolMessagesIntact ==
    ASSUME SingleThreaded, LateStart = FALSE
    PROVE  Spec => []MessagesIntact
<1>1. PoolInv => MessagesIntact
  <2> SUFFICES ASSUME PoolInv PROVE MessagesIntact
    OBVIOUS
  <2>1. ASSUME NEW t \in Threads, pc[t] = "read" PROVE Returned(t) = datum[t]
    <3>1. slot[t] \in Slots /\ Cursor(t) = DataPos(slot[t]) /\ data[slot[t]] = datum[t]
      BY <2>1, HasSlot DEF PoolInv, NoSlotYet, CursorInv, ContentInv
    <3>2. Cursor(t) - NumSlots = slot[t]
      BY <3>1, PositionFacts
    <3>3. QED
      BY <3>1, <3>2 DEF Returned
  <2>2. QED
    BY <2>1 DEF PoolInv, ContentInv, MessagesIntact
<1>2. QED
  BY <1>1, PoolInvariant, PTL

\* As long as nobody died, no slot is lost.
THEOREM PoolMarkedSlotsAreUsed ==
    ASSUME SingleThreaded, LateStart = FALSE
    PROVE  Spec => []MarkedSlotsAreUsed
<1>1. PoolInv => MarkedSlotsAreUsed
  BY DEF PoolInv
<1>2. QED
  BY <1>1, PoolInvariant, PTL

\* alloc() never finds a free bit for a slot in use.
THEOREM PoolUsedSlotsAreMarked ==
    ASSUME SingleThreaded, LateStart = FALSE
    PROVE  Spec => []UsedSlotsAreMarked
<1>1. PoolInv => UsedSlotsAreMarked
  BY DEF PoolInv
<1>2. QED
  BY <1>1, PoolInvariant, PTL

\* The shared memory, the cursors and the locals keep their types.
THEOREM PoolType ==
    ASSUME SingleThreaded, LateStart = FALSE
    PROVE  Spec => []TypeOK
<1>1. PoolInv => TypeOK
  BY DEF PoolInv
<1>2. QED
  BY <1>1, PoolInvariant, PTL
=============================================================================
