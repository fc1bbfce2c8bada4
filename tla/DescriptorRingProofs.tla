------------------------ MODULE DescriptorRingProofs ------------------------
(***************************************************************************)
(* Theorems about DescriptorRing, for any number of processes, any set of  *)
(* descriptors and any capacity.                                           *)
(***************************************************************************)
EXTENDS DescriptorRing, SequenceTheorems, TLAPS

\* Indices wrap around once: the remainder of a number below twice the capacity.
Wrap(a) == IF a < MaxDescriptors THEN a ELSE a - MaxDescriptors

LEMMA Remainder == \A a \in 0 .. 2 * MaxDescriptors - 1 : a % MaxDescriptors = Wrap(a)
<1> SUFFICES ASSUME NEW a \in 0 .. 2 * MaxDescriptors - 1
             PROVE  a % MaxDescriptors = Wrap(a)
  OBVIOUS
<1> DEFINE N == MaxDescriptors
           q == a \div N
<1>1. /\ N \in Nat \ {0} /\ a \in Nat /\ a < 2 * N
      /\ q \in Int /\ a % N \in 0 .. N - 1 /\ a = N * q + (a % N)
  BY RingAssumption
<1>2. q < 2
  <2>1. SUFFICES ASSUME q >= 2 PROVE FALSE
    BY <1>1
  <2>2. N * q >= N * 2
    BY <2>1, <1>1
  <2>3. QED
    BY <2>2, <1>1
<1>3. q >= 0
  <2>1. SUFFICES ASSUME q <= -1 PROVE FALSE
    BY <1>1
  <2>2. N * q <= N * (-1)
    BY <2>1, <1>1
  <2>3. QED
    BY <2>2, <1>1
<1>4. q = 0 \/ q = 1
  BY <1>1, <1>2, <1>3
<1>5. QED
  BY <1>1, <1>4 DEF Wrap

\* A position of the ring, head + i, as a slot index.
LEMMA Position ==
    ASSUME NEW h \in Index, NEW i \in 0 .. MaxDescriptors
    PROVE  /\ (h + i) % MaxDescriptors = Wrap(h + i)
           /\ (h + i) % MaxDescriptors \in Index
<1>1. h + i \in 0 .. 2 * MaxDescriptors - 1
  BY RingAssumption DEF Index
<1>2. (h + i) % MaxDescriptors = Wrap(h + i)
  BY <1>1, Remainder
<1>3. Wrap(h + i) \in Index
  BY RingAssumption DEF Wrap, Index
<1>4. QED
  BY <1>2, <1>3

\* Advancing an index by one and then by i is advancing it by i + 1.
LEMMA Advance ==
    ASSUME NEW h \in Index, NEW i \in 0 .. MaxDescriptors - 1
    PROVE  (((h + 1) % MaxDescriptors) + i) % MaxDescriptors
               = (h + (i + 1)) % MaxDescriptors
<1> DEFINE s == (h + 1) % MaxDescriptors
<1>1. s = Wrap(h + 1) /\ s \in Index
  BY Position, RingAssumption
<1>2. (s + i) % MaxDescriptors = Wrap(s + i)
  <2> HIDE DEF s
  <2> QED BY <1>1, Position, RingAssumption
<1>3. i + 1 \in 0 .. MaxDescriptors
  BY RingAssumption
<1>4. (h + (i + 1)) % MaxDescriptors = Wrap(h + (i + 1))
  BY <1>3, Position
<1>5. Wrap(Wrap(h + 1) + i) = Wrap(h + (i + 1))
  BY RingAssumption DEF Wrap, Index
<1>6. QED
  BY <1>1, <1>2, <1>4, <1>5

\* Advancing by i and then by one is advancing by i + 1.
LEMMA Extend ==
    ASSUME NEW h \in Index, NEW i \in 0 .. MaxDescriptors - 1
    PROVE  (((h + i) % MaxDescriptors) + 1) % MaxDescriptors
               = (h + (i + 1)) % MaxDescriptors
<1> DEFINE s == (h + i) % MaxDescriptors
<1>1. s = Wrap(h + i) /\ s \in Index
  BY Position, RingAssumption
<1>2. (s + 1) % MaxDescriptors = Wrap(s + 1)
  <2> HIDE DEF s
  <2> QED BY <1>1, Position, RingAssumption
<1>3. i + 1 \in 0 .. MaxDescriptors
  BY RingAssumption
<1>4. (h + (i + 1)) % MaxDescriptors = Wrap(h + (i + 1))
  BY <1>3, Position
<1>5. Wrap(Wrap(h + i) + 1) = Wrap(h + (i + 1))
  BY RingAssumption DEF Wrap, Index
<1>6. QED
  BY <1>1, <1>2, <1>4, <1>5

\* Different positions of an arc shorter than the ring are different slots.
LEMMA PositionsDiffer ==
    ASSUME NEW h \in Index, NEW c \in 0 .. MaxDescriptors - 1, NEW i \in 0 .. c - 1
    PROVE  (h + i) % MaxDescriptors # (h + c) % MaxDescriptors
<1>1. c \in 0 .. MaxDescriptors /\ i \in 0 .. MaxDescriptors
  BY RingAssumption
<1>2. /\ (h + i) % MaxDescriptors = Wrap(h + i)
      /\ (h + c) % MaxDescriptors = Wrap(h + c)
  BY <1>1, Position
<1>3. Wrap(h + i) # Wrap(h + c)
  BY RingAssumption DEF Wrap, Index
<1>4. QED
  BY <1>2, <1>3

\* The head is its own position.
LEMMA FirstPosition == ASSUME NEW h \in Index PROVE (h + 0) % MaxDescriptors = h
<1>1. (h + 0) % MaxDescriptors = Wrap(h + 0)
  BY Position, RingAssumption
<1>2. QED
  BY <1>1, RingAssumption DEF Wrap, Index

-----------------------------------------------------------------------------
LEMMA InitRingInv == Init => RingInv
<1> SUFFICES ASSUME Init PROVE RingInv
  OBVIOUS
<1>1. TypeOK
  BY RingAssumption DEF Init, TypeOK, Index, PCs
<1>2. HeaderInv
  <2>1. (0 + 0) % MaxDescriptors = 0
    BY RingAssumption, FirstPosition DEF Index
  <2>2. QED
    BY <2>1 DEF Init, HeaderInv
<1>3. LockInv
  BY RingAssumption DEF Init, LockInv, Holding, InPut, InGet
<1>4. LocalInv
  BY DEF Init, LocalInv, InPut
<1>5. QED
  BY <1>1, <1>2, <1>3, <1>4 DEF RingInv

LEMMA StepRingInv == RingInv /\ [Next]_vars => RingInv'
<1> SUFFICES ASSUME RingInv, [Next]_vars PROVE RingInv'
  OBVIOUS
<1> USE RingAssumption DEF RingInv
<1>1. CASE UNCHANGED vars
  BY <1>1 DEF vars, mem, TypeOK, HeaderInv, LockInv, LocalInv
<1>2. ASSUME NEW p \in Procs, NEW d \in Descs, CallPut(p, d) PROVE RingInv'
  <2>1. TypeOK'
    BY <1>2 DEF CallPut, Goto, mem, TypeOK, PCs
  <2>2. HeaderInv'
    BY <1>2 DEF CallPut, mem, HeaderInv
  <2>3. LockInv' /\ LocalInv'
    BY <1>2 DEF CallPut, Goto, mem, TypeOK, LockInv, LocalInv, Holding, InPut, InGet
  <2>4. QED
    BY <2>1, <2>2, <2>3
<1>3. ASSUME NEW p \in Procs, CallGet(p) PROVE RingInv'
  <2>1. TypeOK'
    BY <1>3 DEF CallGet, Goto, mem, TypeOK, PCs
  <2>2. HeaderInv'
    BY <1>3 DEF CallGet, mem, HeaderInv
  <2>3. LockInv' /\ LocalInv'
    BY <1>3 DEF CallGet, Goto, mem, TypeOK, LockInv, LocalInv, Holding, InPut, InGet
  <2>4. QED
    BY <2>1, <2>2, <2>3
<1>4. ASSUME NEW p \in Procs, Acquire(p) PROVE RingInv'
  <2>1. TypeOK'
    BY <1>4 DEF Acquire, Goto, mem, TypeOK, PCs, Holding, InPut, InGet
  <2>2. HeaderInv'
    BY <1>4 DEF Acquire, mem, HeaderInv
  <2>3. LockInv' /\ LocalInv'
    BY <1>4 DEF Acquire, Goto, mem, TypeOK, LockInv, LocalInv, Holding, InPut, InGet
  <2>4. QED
    BY <2>1, <2>2, <2>3
<1>5. ASSUME NEW p \in Procs, PutHeader(p) PROVE RingInv'
  <2>1. TypeOK'
    BY <1>5 DEF PutHeader, ReadHeader, Goto, mem, TypeOK, PCs, Holding, InPut, InGet
  <2>2. HeaderInv'
    BY <1>5 DEF PutHeader, mem, HeaderInv
  <2>3. LockInv' /\ LocalInv'
    BY <1>5 DEF PutHeader, ReadHeader, Goto, mem, TypeOK, LockInv, LocalInv, Holding, InPut, InGet
  <2>4. QED
    BY <2>1, <2>2, <2>3
<1>6. ASSUME NEW p \in Procs, PutSlot(p) PROVE RingInv'
  <2>1. TypeOK'
    BY <1>6 DEF PutSlot, Goto, mem, TypeOK, PCs, Holding, InPut, InGet
  <2>2. arg[p] \in Descs /\ slots' = [slots EXCEPT ![tail] = arg[p]]
    <3>1. arg[p] \in Descs /\ seen[p] = <<head, tail, count>>
      BY <1>6 DEF PutSlot, LocalInv, InPut
    <3>2. seen[p][2] = tail
      BY <3>1
    <3>3. QED
      BY <1>6, <3>1, <3>2 DEF PutSlot
  <2>3. HeaderInv'
    <3>1. tail' = (head' + count') % MaxDescriptors
      BY <1>6 DEF PutSlot, HeaderInv
    <3>2. ASSUME NEW i \in 0 .. count - 1
          PROVE  slots'[(head + i) % MaxDescriptors] \in Descs
      <4>1. (head + i) % MaxDescriptors \in Index
        BY Position DEF TypeOK
      <4>2. slots[(head + i) % MaxDescriptors] \in Descs
        BY DEF HeaderInv
      <4>3. QED
        BY <2>2, <4>1, <4>2 DEF TypeOK
    <3>3. QED
      BY <1>6, <3>1, <3>2 DEF PutSlot, HeaderInv
  <2>4. LockInv'
    BY <1>6 DEF PutSlot, Goto, mem, TypeOK, LockInv, Holding, InPut, InGet
  <2>5. LocalInv'
    BY <1>6, <2>2 DEF PutSlot, Goto, mem, TypeOK, LockInv, LocalInv, Holding, InPut, InGet
  <2>6. QED
    BY <2>1, <2>3, <2>4, <2>5
<1>7. ASSUME NEW p \in Procs, PutCommit(p) PROVE RingInv'
  <2>1. /\ head' = head /\ tail' = (tail + 1) % MaxDescriptors /\ count' = count + 1
        /\ slots' = slots /\ slots[tail] \in Descs /\ count < MaxDescriptors
    BY <1>7 DEF PutCommit, SetHeader, LocalInv, InPut
  <2>2. TypeOK'
    <3>1. tail' \in Index /\ count' \in 0 .. MaxDescriptors
      BY <2>1, Position DEF TypeOK
    <3>2. QED
      BY <1>7, <2>1, <3>1 DEF PutCommit, Goto, TypeOK, PCs, Holding, InPut, InGet
  <2>3. HeaderInv'
    <3>1. tail' = (head' + count') % MaxDescriptors
      <4>1. count \in 0 .. MaxDescriptors - 1
        BY <2>1 DEF TypeOK
      <4>2. tail' = (head + (count + 1)) % MaxDescriptors
        BY <2>1, <4>1, Extend DEF TypeOK, HeaderInv
      <4>3. QED
        BY <2>1, <4>2
    <3>2. ASSUME NEW i \in 0 .. count
          PROVE  slots[(head + i) % MaxDescriptors] \in Descs
      <4>1. CASE i = count
        BY <2>1, <4>1 DEF HeaderInv
      <4>2. CASE i # count
        <5>1. i \in 0 .. count - 1
          BY <4>2 DEF TypeOK
        <5>2. QED
          BY <5>1 DEF HeaderInv
      <4>3. QED
        BY <4>1, <4>2
    <3>3. count' - 1 = count
      BY <2>1 DEF TypeOK
    <3>4. QED
      BY <2>1, <3>1, <3>2, <3>3 DEF HeaderInv
  <2>4. LockInv'
    BY <1>7 DEF PutCommit, Goto, TypeOK, LockInv, Holding, InPut, InGet
  <2>5. LocalInv'
    BY <1>7, <2>1 DEF PutCommit, Goto, TypeOK, LockInv, LocalInv, Holding, InPut, InGet
  <2>6. QED
    BY <2>2, <2>3, <2>4, <2>5
<1>8. ASSUME NEW p \in Procs, GetHeader(p) PROVE RingInv'
  <2>1. TypeOK'
    BY <1>8 DEF GetHeader, ReadHeader, Goto, mem, TypeOK, PCs, Holding, InPut, InGet
  <2>2. HeaderInv'
    BY <1>8 DEF GetHeader, mem, HeaderInv
  <2>3. LockInv' /\ LocalInv'
    BY <1>8 DEF GetHeader, ReadHeader, Goto, mem, TypeOK, LockInv, LocalInv, Holding, InPut, InGet
  <2>4. QED
    BY <2>1, <2>2, <2>3
<1>9. ASSUME NEW p \in Procs, GetSlot(p) PROVE RingInv'
  <2>1. TypeOK'
    BY <1>9 DEF GetSlot, Goto, mem, TypeOK, PCs, Holding, InPut, InGet
  <2>2. HeaderInv'
    BY <1>9 DEF GetSlot, mem, HeaderInv
  <2>3. LockInv' /\ LocalInv'
    BY <1>9 DEF GetSlot, Goto, mem, TypeOK, LockInv, LocalInv, Holding, InPut, InGet
  <2>4. QED
    BY <2>1, <2>2, <2>3
<1>10. ASSUME NEW p \in Procs, GetCommit(p) PROVE RingInv'
  <2>1. /\ head' = (head + 1) % MaxDescriptors /\ tail' = tail /\ count' = count - 1
        /\ slots' = slots /\ slots[head] = arg[p] /\ count > 0
    BY <1>10 DEF GetCommit, SetHeader, LocalInv
  <2>2. TypeOK'
    <3>1. head' \in Index /\ count' \in 0 .. MaxDescriptors
      BY <2>1, Position DEF TypeOK
    <3>2. QED
      BY <1>10, <2>1, <3>1 DEF GetCommit, Goto, TypeOK, PCs, Holding, InPut, InGet
  <2>3. ASSUME NEW i \in 0 .. count - 1
        PROVE  (head' + i) % MaxDescriptors = (head + (i + 1)) % MaxDescriptors
    BY <2>1, Advance DEF TypeOK
  <2>4. HeaderInv'
    <3>1. tail' = (head' + count') % MaxDescriptors
      <4>1. (head' + (count - 1)) % MaxDescriptors = (head + ((count - 1) + 1)) % MaxDescriptors
        BY <2>1, <2>3 DEF TypeOK
      <4>2. (count - 1) + 1 = count
        BY DEF TypeOK
      <4>3. QED
        BY <2>1, <4>1, <4>2 DEF HeaderInv
    <3>2. ASSUME NEW i \in 0 .. count - 2
          PROVE  slots[(head' + i) % MaxDescriptors] \in Descs
      <4>1. (head' + i) % MaxDescriptors = (head + (i + 1)) % MaxDescriptors
        BY <2>3 DEF TypeOK
      <4>2. i + 1 \in 0 .. count - 1
        BY DEF TypeOK
      <4>3. QED
        BY <4>1, <4>2 DEF HeaderInv
    <3>3. count' - 1 = count - 2
      BY <2>1 DEF TypeOK
    <3>4. QED
      BY <2>1, <3>1, <3>2, <3>3 DEF HeaderInv
  <2>5. arg[p] \in Descs
    <3>1. (head + 0) % MaxDescriptors = head
      BY FirstPosition DEF TypeOK
    <3>2. slots[(head + 0) % MaxDescriptors] \in Descs
      <4>1. 0 \in 0 .. count - 1
        BY <2>1 DEF TypeOK
      <4>2. QED
        BY <4>1 DEF HeaderInv
    <3>3. QED
      BY <2>1, <3>1, <3>2
  <2>6. LockInv'
    BY <1>10 DEF GetCommit, Goto, TypeOK, LockInv, Holding, InPut, InGet
  <2>7. LocalInv'
    BY <1>10, <2>1, <2>5 DEF GetCommit, Goto, TypeOK, LockInv, LocalInv, Holding, InPut, InGet
  <2>8. QED
    BY <2>2, <2>4, <2>6, <2>7
<1>11. ASSUME NEW p \in Procs, Release(p) PROVE RingInv'
  <2>1. TypeOK'
    BY <1>11 DEF Release, Leave, Goto, mem, TypeOK, PCs, Index
  <2>2. HeaderInv'
    BY <1>11 DEF Release, mem, HeaderInv
  <2>3. LockInv' /\ LocalInv'
    BY <1>11 DEF Release, Leave, Goto, mem, TypeOK, LockInv, LocalInv, Holding, InPut, InGet
  <2>4. QED
    BY <2>1, <2>2, <2>3
<1>12. ASSUME NEW p \in Procs, Kill(p) PROVE RingInv'
  <2>1. TypeOK'
    BY <1>12 DEF Kill, Leave, Goto, mem, TypeOK, PCs, Index
  <2>2. HeaderInv'
    BY <1>12 DEF Kill, mem, HeaderInv
  <2>3. LockInv' /\ LocalInv'
    BY <1>12 DEF Kill, Leave, Goto, mem, TypeOK, LockInv, LocalInv, Holding, InPut, InGet
  <2>4. QED
    BY <2>1, <2>2, <2>3
<1>13. QED
  BY <1>1, <1>2, <1>3, <1>4, <1>5, <1>6, <1>7, <1>8, <1>9, <1>10, <1>11, <1>12
     DEF Next, Step

\* Whatever process is killed between whatever two memory accesses, the flock
\* serialises the others and the header describes an arc of written slots.
THEOREM RingInvariant == Spec => []RingInv
<1>1. QED
  BY InitRingInv, StepRingInv, PTL DEF Spec

\* The shared memory and the locals keep their types.
THEOREM RingType == Spec => []TypeOK
<1>1. RingInv => TypeOK
  BY DEF RingInv
<1>2. QED
  BY <1>1, RingInvariant, PTL

\* The header is consistent at every moment.
THEOREM RingHeader == Spec => []HeaderInv
<1>1. RingInv => HeaderInv
  BY DEF RingInv
<1>2. QED
  BY <1>1, RingInvariant, PTL

-----------------------------------------------------------------------------
(***************************************************************************)
(* Refinement: the ring implements a bounded FIFO queue.                   *)
(***************************************************************************)
\* The abstract queue is a sequence of count descriptors.
LEMMA ContentsIsSeq ==
    ASSUME RingInv
    PROVE  /\ Contents \in Seq(Descs)
           /\ Len(Contents) = count
           /\ \A i \in 1 .. count : Contents[i] = slots[(head + (i - 1)) % MaxDescriptors]
<1>1. count \in Nat /\ head \in Int
  BY RingAssumption DEF RingInv, TypeOK, Index
<1>2. ASSUME NEW i \in 1 .. count
      PROVE  slots[(head + i - 1) % MaxDescriptors] \in Descs
  <2>1. i - 1 \in 0 .. count - 1 /\ head + i - 1 = head + (i - 1)
    BY <1>1
  <2>2. QED
    BY <2>1 DEF RingInv, HeaderInv
<1>3. ASSUME NEW i \in 1 .. count
      PROVE  Contents[i] = slots[(head + (i - 1)) % MaxDescriptors]
  <2>1. head + i - 1 = head + (i - 1)
    BY <1>1
  <2>2. QED
    BY <2>1 DEF Contents
<1>4. Contents \in Seq(Descs) /\ Len(Contents) = count
  BY <1>1, <1>2 DEF Contents
<1>5. QED
  BY <1>3, <1>4

\* Writing the slot at the tail is invisible.
LEMMA PutSlotContents ==
    ASSUME RingInv, NEW p \in Procs, PutSlot(p)
    PROVE  Contents' = Contents
<1> USE RingAssumption DEF RingInv
<1>1. /\ seen[p] = <<head, tail, count>> /\ count < MaxDescriptors
      /\ head' = head /\ count' = count
  BY DEF PutSlot, LocalInv
<1>2. seen[p][2] = tail
  BY <1>1
<1>3. slots' = [slots EXCEPT ![tail] = arg[p]]
  BY <1>2 DEF PutSlot
<1>4. ASSUME NEW i \in 1 .. count
      PROVE  slots'[(head + i - 1) % MaxDescriptors] = slots[(head + i - 1) % MaxDescriptors]
  <2>1. /\ i - 1 \in 0 .. count - 1 /\ head + i - 1 = head + (i - 1)
        /\ i - 1 \in 0 .. MaxDescriptors /\ count \in 0 .. MaxDescriptors - 1
    BY <1>1 DEF TypeOK, Index
  <2>2. (head + (i - 1)) % MaxDescriptors \in Index
    BY <2>1, Position DEF TypeOK
  <2>3. (head + (i - 1)) % MaxDescriptors # tail
    BY <2>1, PositionsDiffer DEF TypeOK, HeaderInv
  <2>4. QED
    BY <1>3, <2>1, <2>2, <2>3 DEF TypeOK
<1>5. QED
  BY <1>1, <1>4 DEF Contents

\* Committing a put appends the descriptor.
LEMMA PutCommitContents ==
    ASSUME RingInv, NEW p \in Procs, PutCommit(p)
    PROVE  /\ Len(Contents) < MaxDescriptors
           /\ arg[p] \in Descs
           /\ Contents' = Append(Contents, arg[p])
<1> USE RingAssumption DEF RingInv
<1>1. /\ seen[p] = <<head, tail, count>> /\ count < MaxDescriptors
      /\ slots[tail] = arg[p] /\ arg[p] \in Descs
  BY DEF PutCommit, LocalInv, InPut
<1>2. head' = head /\ count' = count + 1 /\ slots' = slots
  BY <1>1 DEF PutCommit, SetHeader
<1>3. count \in Nat /\ head \in Int
  BY DEF TypeOK, Index
<1>4. /\ Contents \in Seq(Descs) /\ Len(Contents) = count
  BY ContentsIsSeq
<1>5. Contents' = [i \in 1 .. count + 1 |-> slots[(head + i - 1) % MaxDescriptors]]
  BY <1>2 DEF Contents
<1>6. slots[(head + (count + 1) - 1) % MaxDescriptors] = arg[p]
  <2>1. head + (count + 1) - 1 = head + count
    BY <1>3
  <2>2. QED
    BY <1>1, <2>1 DEF HeaderInv
<1>7. Append(Contents, arg[p])
          = [i \in 1 .. count + 1 |-> IF i = count + 1 THEN arg[p] ELSE Contents[i]]
  BY <1>3, <1>4
<1>8. ASSUME NEW i \in 1 .. count + 1
      PROVE  slots[(head + i - 1) % MaxDescriptors]
                 = IF i = count + 1 THEN arg[p] ELSE Contents[i]
  <2>1. CASE i = count + 1
    BY <2>1, <1>6
  <2>2. CASE i # count + 1
    <3>1. i \in 1 .. count
      BY <2>2, <1>3
    <3>2. QED
      BY <2>2, <3>1 DEF Contents
  <2>3. QED
    BY <2>1, <2>2
<1>9. QED
  BY <1>1, <1>4, <1>5, <1>7, <1>8

\* Committing a get takes the oldest descriptor, the one that was read.
LEMMA GetCommitContents ==
    ASSUME RingInv, NEW p \in Procs, GetCommit(p)
    PROVE  /\ Contents # <<>>
           /\ Head(Contents) = arg[p]
           /\ Contents' = Tail(Contents)
<1> USE RingAssumption DEF RingInv
<1>1. /\ seen[p] = <<head, tail, count>> /\ count > 0 /\ slots[head] = arg[p]
  BY DEF GetCommit, LocalInv
<1>2. head' = (head + 1) % MaxDescriptors /\ count' = count - 1 /\ slots' = slots
  BY <1>1 DEF GetCommit, SetHeader
<1>3. count \in Nat /\ head \in Int /\ count <= MaxDescriptors
  BY DEF TypeOK, Index
<1>4. /\ Contents \in Seq(Descs) /\ Len(Contents) = count
      /\ \A i \in 1 .. count : Contents[i] = slots[(head + (i - 1)) % MaxDescriptors]
  BY ContentsIsSeq
<1>5. Contents # <<>> /\ Head(Contents) = Contents[1]
  BY <1>1, <1>3, <1>4
<1>6. Contents[1] = arg[p]
  <2>1. 1 \in 1 .. count /\ 1 - 1 = 0
    BY <1>1, <1>3
  <2>2. Contents[1] = slots[(head + 0) % MaxDescriptors]
    BY <1>4, <2>1
  <2>3. QED
    BY <1>1, <2>2, FirstPosition DEF TypeOK
<1>7. Contents' = [i \in 1 .. count - 1 |-> slots[(head' + i - 1) % MaxDescriptors]]
  BY <1>2 DEF Contents
<1>8. Tail(Contents) = [i \in 1 .. count - 1 |-> Contents[i + 1]]
  <2> DEFINE T == Tail(Contents)
  <2>1. T \in Seq(Descs) /\ Len(T) = count - 1
    BY <1>1, <1>3, <1>4, <1>5
  <2>2. \A i \in 1 .. count - 1 : T[i] = Contents[i + 1]
    BY <1>1, <1>3, <1>4, <1>5
  <2> HIDE DEF T
  <2>3. T = [i \in 1 .. Len(T) |-> T[i]]
    BY <2>1, LenProperties
  <2>4. T = [i \in 1 .. count - 1 |-> Contents[i + 1]]
    BY <2>1, <2>2, <2>3
  <2>5. QED
    BY <2>4 DEF T
<1>9. ASSUME NEW i \in 1 .. count - 1
      PROVE  slots[(head' + i - 1) % MaxDescriptors] = Contents[i + 1]
  <2>1. /\ i - 1 \in 0 .. MaxDescriptors - 1 /\ i + 1 \in 1 .. count
        /\ (i - 1) + 1 = i /\ (i + 1) - 1 = i
    BY <1>3
  <2>2. head' \in Index
    BY <1>2, Position DEF TypeOK
  <2>3. head' + i - 1 = head' + (i - 1)
    BY <2>2 DEF Index
  <2>4. (head' + (i - 1)) % MaxDescriptors = (head + ((i - 1) + 1)) % MaxDescriptors
    BY <1>2, <2>1, Advance DEF TypeOK
  <2>5. Contents[i + 1] = slots[(head + ((i + 1) - 1)) % MaxDescriptors]
    BY <1>4, <2>1
  <2>6. QED
    BY <2>1, <2>3, <2>4, <2>5
<1>10. QED
  BY <1>5, <1>6, <1>7, <1>8, <1>9

CallMap == [q \in Procs |-> CallOf(q)]

\* A step of one process changes only its own call.
LEMMA OneCallChanges ==
    ASSUME NEW p \in Procs,
           \A q \in Procs \ {p} : pc'[q] = pc[q] /\ arg'[q] = arg[q]
    PROVE  CallMap' = [CallMap EXCEPT ![p] = CallOf(p)']
<1>1. \A q \in Procs \ {p} : CallOf(q)' = CallOf(q)
  BY DEF CallOf
<1>2. QED
  BY <1>1 DEF CallMap

LEMMA InitRefines == Init => Abstract!Init
<1> SUFFICES ASSUME Init PROVE Abstract!Init
  OBVIOUS
<1>1. Contents = <<>>
  <2>1. RingInv
    BY InitRingInv
  <2>2. Contents \in Seq(Descs) /\ Len(Contents) = 0
    BY <2>1, ContentsIsSeq DEF Init
  <2>3. QED
    BY <2>2
<1>2. \A q \in Procs : CallOf(q) = [op |-> "none"]
  BY DEF Init, CallOf
<1>3. QED
  BY <1>1, <1>2 DEF Abstract!Init, Abstract!NotCalling

LEMMA StepRefines ==
    ASSUME RingInv, [Next]_vars
    PROVE  [Abstract!Next]_(Abstract!vars)
<1> USE RingAssumption
<1> USE DEF RingInv
<1> DEFINE Moves(p) == \/ Abstract!Invoke(p) \/ Abstract!Put(p) \/ Abstract!Get(p)
                       \/ Abstract!Return(p) \/ Abstract!Die(p)
           Same == Contents' = Contents /\ CallMap' = CallMap
<1>1. SUFFICES (\E p \in Procs : Moves(p)) \/ Same
  BY DEF Abstract!Next, Abstract!vars, CallMap
<1>2. CASE UNCHANGED vars
  BY <1>2 DEF vars, mem, Contents, CallMap, CallOf
<1>3. ASSUME NEW p \in Procs, NEW d \in Descs, CallPut(p, d) PROVE Moves(p)
  <2>1. CallMap' = [CallMap EXCEPT ![p] = CallOf(p)']
    BY <1>3, OneCallChanges DEF CallPut, Goto, TypeOK
  <2>2. CallOf(p) = [op |-> "none"] /\ CallOf(p)' = [op |-> "put", desc |-> d]
    BY <1>3 DEF CallPut, Goto, TypeOK, CallOf
  <2>3. Contents' = Contents
    BY <1>3 DEF CallPut, mem, Contents
  <2>4. Abstract!Invoke(p)
    BY <2>1, <2>2, <2>3 DEF Abstract!Invoke, Abstract!NotCalling, Abstract!PutCall, CallMap
  <2>5. QED
    BY <2>4
<1>4. ASSUME NEW p \in Procs, CallGet(p) PROVE Moves(p)
  <2>1. CallMap' = [CallMap EXCEPT ![p] = CallOf(p)']
    BY <1>4, OneCallChanges DEF CallGet, Goto, TypeOK
  <2>2. CallOf(p) = [op |-> "none"] /\ CallOf(p)' = [op |-> "get"]
    BY <1>4 DEF CallGet, Goto, TypeOK, CallOf
  <2>3. Contents' = Contents
    BY <1>4 DEF CallGet, mem, Contents
  <2>4. Abstract!Invoke(p)
    BY <2>1, <2>2, <2>3 DEF Abstract!Invoke, Abstract!NotCalling, Abstract!GetCall, CallMap
  <2>5. QED
    BY <2>4
<1>5. ASSUME NEW p \in Procs, Acquire(p) PROVE Same
  <2>1. CallMap' = [CallMap EXCEPT ![p] = CallOf(p)']
    BY <1>5, OneCallChanges DEF Acquire, Goto, TypeOK
  <2>2. CallOf(p)' = CallOf(p)
    BY <1>5 DEF Acquire, Goto, TypeOK, CallOf
  <2>3. QED
    BY <1>5, <2>1, <2>2 DEF Acquire, mem, Contents, CallMap
<1>6. ASSUME NEW p \in Procs, PutHeader(p) PROVE Moves(p) \/ Same
  <2>1. CallMap' = [CallMap EXCEPT ![p] = CallOf(p)']
    BY <1>6, OneCallChanges DEF PutHeader, Goto, TypeOK
  <2>2. /\ CallOf(p) = [op |-> "put", desc |-> arg[p]]
        /\ arg[p] \in Descs
        /\ Contents' = Contents
    BY <1>6 DEF PutHeader, mem, Contents, CallOf, LocalInv, InPut
  <2>3. CASE count >= MaxDescriptors
    <3>1. CallOf(p)' = [op |-> "putDone", ok |-> FALSE]
      BY <1>6, <2>3 DEF PutHeader, Goto, TypeOK, CallOf
    <3>2. Len(Contents) = MaxDescriptors
      BY <2>3, ContentsIsSeq DEF TypeOK
    <3>3. Abstract!Put(p)
      BY <2>1, <2>2, <3>1, <3>2 DEF Abstract!Put, Abstract!PutCall, Abstract!PutAnswer, CallMap
    <3>4. QED
      BY <3>3
  <2>4. CASE ~(count >= MaxDescriptors)
    <3>1. CallOf(p)' = CallOf(p)
      BY <1>6, <2>4 DEF PutHeader, Goto, TypeOK, CallOf
    <3>2. QED
      BY <2>1, <2>2, <3>1 DEF CallMap
  <2>5. QED
    BY <2>3, <2>4
<1>7. ASSUME NEW p \in Procs, PutSlot(p) PROVE Same
  <2>1. CallMap' = [CallMap EXCEPT ![p] = CallOf(p)']
    BY <1>7, OneCallChanges DEF PutSlot, Goto, TypeOK
  <2>2. CallOf(p)' = CallOf(p)
    BY <1>7 DEF PutSlot, Goto, TypeOK, CallOf
  <2>3. QED
    BY <1>7, <2>1, <2>2, PutSlotContents DEF CallMap
<1>8. ASSUME NEW p \in Procs, PutCommit(p) PROVE Moves(p)
  <2>1. CallMap' = [CallMap EXCEPT ![p] = CallOf(p)']
    BY <1>8, OneCallChanges DEF PutCommit, Goto, TypeOK
  <2>2. /\ CallOf(p) = [op |-> "put", desc |-> arg[p]]
        /\ CallOf(p)' = [op |-> "putDone", ok |-> TRUE]
    BY <1>8 DEF PutCommit, Goto, TypeOK, CallOf
  <2>3. /\ Len(Contents) < MaxDescriptors /\ arg[p] \in Descs
        /\ Contents' = Append(Contents, arg[p])
    BY <1>8, PutCommitContents
  <2>4. Abstract!Put(p)
    BY <2>1, <2>2, <2>3 DEF Abstract!Put, Abstract!PutCall, Abstract!PutAnswer, CallMap
  <2>5. QED
    BY <2>4
<1>9. ASSUME NEW p \in Procs, GetHeader(p) PROVE Moves(p) \/ Same
  <2>1. CallMap' = [CallMap EXCEPT ![p] = CallOf(p)']
    BY <1>9, OneCallChanges DEF GetHeader, Goto, TypeOK
  <2>2. CallOf(p) = [op |-> "get"] /\ Contents' = Contents
    BY <1>9 DEF GetHeader, mem, Contents, CallOf
  <2>3. CASE count = 0
    <3>1. CallOf(p)' = [op |-> "getDone", got |-> <<>>]
      BY <1>9, <2>3 DEF GetHeader, Goto, TypeOK, CallOf
    <3>2. Contents = <<>>
      <4>1. Contents \in Seq(Descs) /\ Len(Contents) = 0
        BY <2>3, ContentsIsSeq
      <4>2. QED
        BY <4>1
    <3>3. Abstract!Get(p)
      BY <2>1, <2>2, <3>1, <3>2 DEF Abstract!Get, Abstract!GetCall, Abstract!GetAnswer, CallMap
    <3>4. QED
      BY <3>3
  <2>4. CASE count # 0
    <3>1. CallOf(p)' = CallOf(p)
      BY <1>9, <2>4 DEF GetHeader, Goto, TypeOK, CallOf
    <3>2. QED
      BY <2>1, <2>2, <3>1 DEF CallMap
  <2>5. QED
    BY <2>3, <2>4
<1>10. ASSUME NEW p \in Procs, GetSlot(p) PROVE Same
  <2>1. CallMap' = [CallMap EXCEPT ![p] = CallOf(p)']
    BY <1>10, OneCallChanges DEF GetSlot, Goto, TypeOK
  <2>2. CallOf(p)' = CallOf(p)
    BY <1>10 DEF GetSlot, Goto, TypeOK, CallOf
  <2>3. QED
    BY <1>10, <2>1, <2>2 DEF GetSlot, mem, Contents, CallMap
<1>11. ASSUME NEW p \in Procs, GetCommit(p) PROVE Moves(p)
  <2>1. CallMap' = [CallMap EXCEPT ![p] = CallOf(p)']
    BY <1>11, OneCallChanges DEF GetCommit, Goto, TypeOK
  <2>2. /\ CallOf(p) = [op |-> "get"]
        /\ CallOf(p)' = [op |-> "getDone", got |-> <<arg[p]>>]
    BY <1>11 DEF GetCommit, Goto, TypeOK, CallOf
  <2>3. Contents # <<>> /\ Head(Contents) = arg[p] /\ Contents' = Tail(Contents)
    BY <1>11, GetCommitContents
  <2>4. Abstract!Get(p)
    BY <2>1, <2>2, <2>3 DEF Abstract!Get, Abstract!GetCall, Abstract!GetAnswer, CallMap
  <2>5. QED
    BY <2>4
<1>12. ASSUME NEW p \in Procs, Release(p) PROVE Moves(p)
  <2>1. CallMap' = [CallMap EXCEPT ![p] = CallOf(p)']
    BY <1>12, OneCallChanges DEF Release, Leave, Goto, TypeOK
  <2>2. CallOf(p).op \in {"putDone", "getDone"} /\ CallOf(p)' = [op |-> "none"]
    BY <1>12 DEF Release, Leave, Goto, TypeOK, CallOf
  <2>3. Contents' = Contents
    BY <1>12 DEF Release, mem, Contents
  <2>4. Abstract!Return(p)
    BY <2>1, <2>2, <2>3 DEF Abstract!Return, Abstract!NotCalling, CallMap
  <2>5. QED
    BY <2>4
<1>13. ASSUME NEW p \in Procs, Kill(p) PROVE Moves(p)
  <2>1. CallMap' = [CallMap EXCEPT ![p] = CallOf(p)']
    BY <1>13, OneCallChanges DEF Kill, Leave, Goto, TypeOK
  <2>2. CallOf(p)' = [op |-> "dead"]
    BY <1>13 DEF Kill, Leave, Goto, TypeOK, CallOf
  <2>3. CallOf(p) # [op |-> "dead"]
    BY <1>13 DEF Kill, TypeOK, PCs, Holding, InPut, InGet, CallOf
  <2>4. Contents' = Contents
    BY <1>13 DEF Kill, mem, Contents
  <2>5. Abstract!Die(p)
    BY <2>1, <2>2, <2>3, <2>4 DEF Abstract!Die, Abstract!Dead, CallMap
  <2>6. QED
    BY <2>5
<1>14. QED
  <2> HIDE DEF Moves, Same
  <2> QED
    BY <1>2, <1>3, <1>4, <1>5, <1>6, <1>7, <1>8, <1>9, <1>10, <1>11, <1>12, <1>13
       DEF Next, Step

\* put() and get() of any number of processes, with deaths anywhere, behave as
\* the atomic operations of a FIFO queue bounded by max_descriptors.
THEOREM RingRefinesQueue == Spec => ImplementsQueue
<1>1. RingInv /\ [Next]_vars => [Abstract!Next]_(Abstract!vars)
  BY StepRefines
<1>2. Spec => Abstract!Spec
  BY <1>1, InitRefines, RingInvariant, PTL DEF Spec, Abstract!Spec
<1>3. QED
  BY <1>2 DEF ImplementsQueue
=============================================================================
