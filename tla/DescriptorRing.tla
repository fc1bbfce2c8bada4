--------------------------- MODULE DescriptorRing ---------------------------
(***************************************************************************)
(* DescriptorRing of dpumesh/common.py: the submission queue that workers, *)
(* the DPA daemon and the ARM daemon share in /dev/shm.  The header (head, *)
(* tail, count) and the slots are the shared memory, `lock' is the flock   *)
(* of the file next to it.  Each access to the memory is a step of its own *)
(* and a process may be killed between any two of them, which releases its *)
(* flock and nothing else.                                                 *)
(***************************************************************************)
EXTENDS Integers, Sequences

CONSTANTS
    Procs,            \* processes (and threads) that use the ring
    Descs,            \* descriptors, opaque here
    MaxDescriptors,   \* capacity of the ring
    NoProc, NoDesc    \* the flock is free; a slot never written

ASSUME RingAssumption == /\ MaxDescriptors \in Nat \ {0}
                         /\ NoProc \notin Procs
                         /\ NoDesc \notin Descs

VARIABLES
    head, tail, count, slots,   \* the shared memory
    lock,                       \* holder of the flock, or NoProc
    pc,                         \* where each process is in put() or get()
    arg,                        \* local: the descriptor it puts, or has read
    seen                        \* local: the header it read

mem  == <<head, tail, count, slots>>
vars == <<mem, lock, pc, arg, seen>>

Index == 0 .. MaxDescriptors - 1

\* The lines of put() and of get() at which a process holds the flock.
InPut == {"putHeader", "putSlot", "putCommit", "putTrue", "putFalse"}
InGet == {"getHeader", "getSlot", "getCommit", "getSome", "getNone"}
Holding == InPut \cup InGet
PCs == {"idle", "dead", "putLock", "getLock"} \cup Holding

TypeOK == /\ head \in Index /\ tail \in Index /\ count \in 0 .. MaxDescriptors
          /\ slots \in [Index -> Descs \cup {NoDesc}]
          /\ lock \in Procs \cup {NoProc}
          /\ pc \in [Procs -> PCs]
          /\ arg \in [Procs -> Descs \cup {NoDesc}]
          /\ seen \in [Procs -> Index \X Index \X (0 .. MaxDescriptors)]

Init == /\ head = 0 /\ tail = 0 /\ count = 0
        /\ slots = [i \in Index |-> NoDesc]
        /\ lock = NoProc
        /\ pc = [p \in Procs |-> "idle"]
        /\ arg = [p \in Procs |-> NoDesc]
        /\ seen = [p \in Procs |-> <<0, 0, 0>>]

Goto(p, l) == pc' = [pc EXCEPT ![p] = l]

\* put() or get() is left: its locals are gone.
Leave(p, l) == /\ Goto(p, l)
               /\ arg'  = [arg EXCEPT ![p] = NoDesc]
               /\ seen' = [seen EXCEPT ![p] = <<0, 0, 0>>]

CallPut(p, d) == /\ pc[p] = "idle"
                 /\ Goto(p, "putLock")
                 /\ arg' = [arg EXCEPT ![p] = d]
                 /\ UNCHANGED <<mem, lock, seen>>

CallGet(p) == /\ pc[p] = "idle"
              /\ Goto(p, "getLock")
              /\ UNCHANGED <<mem, lock, arg, seen>>

\* Mutant: flock() does not wait.
AcquireBusy(p) == /\ \/ pc[p] = "putLock" /\ Goto(p, "putHeader")
                     \/ pc[p] = "getLock" /\ Goto(p, "getHeader")
                  /\ lock' = p
                  /\ UNCHANGED <<mem, arg, seen>>

Acquire(p) == /\ lock = NoProc
              /\ \/ pc[p] = "putLock" /\ Goto(p, "putHeader")
                 \/ pc[p] = "getLock" /\ Goto(p, "getHeader")
              /\ lock' = p
              /\ UNCHANGED <<mem, arg, seen>>

ReadHeader(p) == seen' = [seen EXCEPT ![p] = <<head, tail, count>>]

PutHeader(p) == /\ pc[p] = "putHeader"
                /\ ReadHeader(p)
                /\ Goto(p, IF count >= MaxDescriptors THEN "putFalse" ELSE "putSlot")
                /\ UNCHANGED <<mem, lock, arg>>

\* Mutant: the header is committed with the slot still to be written.
PutSlotLate(p) == /\ pc[p] = "putSlot"
                  /\ tail' = (tail + 1) % MaxDescriptors /\ count' = count + 1
                  /\ Goto(p, "putCommit")
                  /\ UNCHANGED <<head, slots, lock, arg, seen>>

PutSlot(p) == /\ pc[p] = "putSlot"
              /\ slots' = [slots EXCEPT ![seen[p][2]] = arg[p]]
              /\ Goto(p, "putCommit")
              /\ UNCHANGED <<head, tail, count, lock, arg, seen>>

\* _set_header: one 12-byte copy into the mapping.
SetHeader(h, t, c) == head' = h /\ tail' = t /\ count' = c

\* Mutant: the tail does not wrap around.
PutCommitStraight(p) == /\ pc[p] = "putCommit"
                        /\ SetHeader(seen[p][1], seen[p][2] + 1, seen[p][3] + 1)
                        /\ Goto(p, "putTrue")
                        /\ UNCHANGED <<slots, lock, arg, seen>>

PutCommit(p) == /\ pc[p] = "putCommit"
                /\ SetHeader(seen[p][1], (seen[p][2] + 1) % MaxDescriptors, seen[p][3] + 1)
                /\ Goto(p, "putTrue")
                /\ UNCHANGED <<slots, lock, arg, seen>>

GetHeader(p) == /\ pc[p] = "getHeader"
                /\ ReadHeader(p)
                /\ Goto(p, IF count = 0 THEN "getNone" ELSE "getSlot")
                /\ UNCHANGED <<mem, lock, arg>>

GetSlot(p) == /\ pc[p] = "getSlot"
              /\ arg' = [arg EXCEPT ![p] = slots[seen[p][1]]]
              /\ Goto(p, "getCommit")
              /\ UNCHANGED <<mem, lock, seen>>

GetCommit(p) == /\ pc[p] = "getCommit"
                /\ SetHeader((seen[p][1] + 1) % MaxDescriptors, seen[p][2], seen[p][3] - 1)
                /\ Goto(p, "getSome")
                /\ UNCHANGED <<slots, lock, arg, seen>>

\* FileLock.__exit__, and the return to the caller with the answer.
Release(p) == /\ pc[p] \in {"putTrue", "putFalse", "getSome", "getNone"}
              /\ lock' = NoProc
              /\ Leave(p, "idle")
              /\ UNCHANGED mem

\* Mutant: a lock that survives its holder.
KillHoldingLock(p) == /\ pc[p] # "dead"
                      /\ Leave(p, "dead")
                      /\ UNCHANGED <<mem, lock>>

\* The process is killed; the kernel drops the flock with its file descriptor.
Kill(p) == /\ pc[p] # "dead"
           /\ Leave(p, "dead")
           /\ lock' = IF lock = p THEN NoProc ELSE lock
           /\ UNCHANGED mem

Step(p) == \/ PutHeader(p) \/ PutSlot(p) \/ PutCommit(p)
           \/ GetHeader(p) \/ GetSlot(p) \/ GetCommit(p)
           \/ Release(p)

Next == \E p \in Procs : \/ \E d \in Descs : CallPut(p, d)
                         \/ CallGet(p)
                         \/ Acquire(p)
                         \/ Step(p)
                         \/ Kill(p)

\* A running process makes its next step; the kernel's wait queue of a flock
\* does not pass a waiter over for ever.
Fairness == \A p \in Procs : WF_vars(Step(p)) /\ SF_vars(Acquire(p))

Spec     == Init /\ [][Next]_vars
FairSpec == Spec /\ Fairness
-----------------------------------------------------------------------------
(***************************************************************************)
(* Properties                                                              *)
(***************************************************************************)
\* At every moment, also between a killed writer and the next caller, the
\* header describes one arc of written slots: put() and get() leave nothing
\* for a successor to repair.
HeaderInv == /\ tail = (head + count) % MaxDescriptors
             /\ \A i \in 0 .. count - 1 : slots[(head + i) % MaxDescriptors] \in Descs

\* The descriptors in the ring, oldest first.
Contents == [i \in 1 .. count |-> slots[(head + i - 1) % MaxDescriptors]]

\* The call a process is in, as its caller sees it.  put() takes effect when it
\* has answered TRUE or FALSE to itself, get() likewise.
CallOf(p) ==
    CASE pc[p] = "idle" -> [op |-> "none"]
      [] pc[p] = "dead" -> [op |-> "dead"]
      [] pc[p] \in {"putLock", "putHeader", "putSlot", "putCommit"} ->
             [op |-> "put", desc |-> arg[p]]
      [] pc[p] = "putTrue"  -> [op |-> "putDone", ok |-> TRUE]
      [] pc[p] = "putFalse" -> [op |-> "putDone", ok |-> FALSE]
      [] pc[p] \in {"getLock", "getHeader", "getSlot", "getCommit"} -> [op |-> "get"]
      [] pc[p] = "getSome"  -> [op |-> "getDone", got |-> <<arg[p]>>]
      [] pc[p] = "getNone"  -> [op |-> "getDone", got |-> <<>>]

Abstract == INSTANCE BoundedQueue WITH Capacity <- MaxDescriptors,
                                       queue    <- Contents,
                                       call     <- [p \in Procs |-> CallOf(p)]

\* put() and get() are linearizable on a FIFO queue of MaxDescriptors entries,
\* whoever is killed where.
ImplementsQueue == Abstract!Spec

\* A process that called put() or get() gets an answer unless it is killed:
\* a process that dies inside the critical section never blocks the others.
CallsReturn == \A p \in Procs :
    (pc[p] \notin {"idle", "dead"}) ~> (pc[p] \in {"idle", "dead"})
-----------------------------------------------------------------------------
(***************************************************************************)
(* The inductive invariant.                                                *)
(***************************************************************************)
\* Exactly the holder of the flock is past the acquisition.
LockInv == \A p \in Procs : pc[p] \in Holding <=> lock = p

\* What a process knows while it holds the flock: the header it read is still
\* the header, there is room (or something to take), and the slot it wrote or
\* read holds its descriptor.
LocalInv ==
    \A p \in Procs :
        /\ pc[p] \in {"putSlot", "putCommit", "getSlot", "getCommit"}
               => seen[p] = <<head, tail, count>>
        /\ pc[p] \in {"putLock", "getSome"} \cup InPut => arg[p] \in Descs
        /\ pc[p] \in {"putSlot", "putCommit"} => count < MaxDescriptors
        /\ pc[p] = "putCommit" => slots[tail] = arg[p]
        /\ pc[p] \in {"getSlot", "getCommit"} => count > 0
        /\ pc[p] = "getCommit" => slots[head] = arg[p]

RingInv == TypeOK /\ HeaderInv /\ LockInv /\ LocalInv
=============================================================================
