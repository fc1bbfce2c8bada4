---------------------------- MODULE BoundedQueue ----------------------------
(***************************************************************************)
(* What a submission queue (SQ) promises to the processes that share it:   *)
(* a first-in first-out queue of at most Capacity descriptors.  A call     *)
(* takes effect in one step between its invocation and its return, `put'   *)
(* answers whether there was room and `get' answers a descriptor or        *)
(* nothing, and a caller that dies leaves the queue as it was before or    *)
(* after its call, never in between.                                       *)
(***************************************************************************)
EXTENDS Naturals, Sequences

CONSTANTS
    Procs,     \* processes that call the queue
    Descs,     \* the descriptors that may be queued
    Capacity   \* how many descriptors fit

VARIABLES
    queue,     \* the descriptors put and not yet got, oldest first
    call       \* the call each process is in, and its answer once it has one

vars == <<queue, call>>

NotCalling   == [op |-> "none"]
Dead         == [op |-> "dead"]
PutCall(d)   == [op |-> "put", desc |-> d]
GetCall      == [op |-> "get"]
PutAnswer(b) == [op |-> "putDone", ok |-> b]
GetAnswer(s) == [op |-> "getDone", got |-> s]   \* <<>> or <<desc>>

Calls == {NotCalling, Dead, GetCall} \cup {PutCall(d) : d \in Descs}
            \cup {PutAnswer(b) : b \in BOOLEAN}
            \cup {GetAnswer(s) : s \in {<<>>} \cup {<<d>> : d \in Descs}}

Init == /\ queue = <<>>
        /\ call = [p \in Procs |-> NotCalling]

Invoke(p) == /\ call[p] = NotCalling
             /\ \E c \in {GetCall} \cup {PutCall(d) : d \in Descs} :
                    call' = [call EXCEPT ![p] = c]
             /\ UNCHANGED queue

Put(p) ==
    \E d \in Descs :
        /\ call[p] = PutCall(d)
        /\ \/ /\ Len(queue) < Capacity
              /\ queue' = Append(queue, d)
              /\ call' = [call EXCEPT ![p] = PutAnswer(TRUE)]
           \/ /\ Len(queue) = Capacity
              /\ call' = [call EXCEPT ![p] = PutAnswer(FALSE)]
              /\ UNCHANGED queue

Get(p) ==
    /\ call[p] = GetCall
    /\ \/ /\ queue # <<>>
          /\ queue' = Tail(queue)
          /\ call' = [call EXCEPT ![p] = GetAnswer(<<Head(queue)>>)]
       \/ /\ queue = <<>>
          /\ call' = [call EXCEPT ![p] = GetAnswer(<<>>)]
          /\ UNCHANGED queue

Return(p) == /\ call[p].op \in {"putDone", "getDone"}
             /\ call' = [call EXCEPT ![p] = NotCalling]
             /\ UNCHANGED queue

Die(p) == /\ call[p] # Dead
          /\ call' = [call EXCEPT ![p] = Dead]
          /\ UNCHANGED queue

Next == \E p \in Procs : Invoke(p) \/ Put(p) \/ Get(p) \/ Return(p) \/ Die(p)

Spec == Init /\ [][Next]_vars
=============================================================================
