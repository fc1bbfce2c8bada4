------------------------------ MODULE DataPath ------------------------------
(***************************************************************************)
(* The way of a message through the node: host_lib.py and the receiving    *)
(* half of server.py in the workers, dpa_daemon.py (two polling threads),  *)
(* dpu_daemon.py (the router thread and a thread per TCP client).          *)
(*                                                                         *)
(* A message is a header and a body, each in a slot of a buffer pool, and  *)
(* a descriptor that names the slots and travels through the rings.  Every *)
(* put() and get() is a step of its own and atomic, which DescriptorRing   *)
(* justifies, and so is every alloc() and free(), with the write() after   *)
(* or the read() before it.                                                *)
(*                                                                         *)
(* BufferPool justifies the latter for a pool that a process uses from one *)
(* thread.  Two pools are used from several, through one mmap object with  *)
(* one position, which write() and read() move without the lock: the DPU   *)
(* TX header pool in the DPA, and the DPU RX body pool in the threads of   *)
(* the TCP clients.  When two such threads overlap, alloc() may return a   *)
(* slot in use or mark another, and free() may clear another: `collided'   *)
(* is TRUE from then on, the behaviour stops there, and nothing is claimed *)
(* of what the code does next.                                             *)
(***************************************************************************)
EXTENDS Integers, Sequences, FiniteSets

CONSTANTS
    Workers, Services, ServiceOf,   \* worker processes and their services
    WorkersOf,      \* the workers registered for a service, by pod id
    Requests,       \* requests: those of workers and those of TCP clients
    Bridge,         \* the origin of the latter
    Origin,         \* the worker that issues a request, or Bridge
    Target,         \* the service its URL names
    EmptyBody,      \* messages whose body has length 0
    TooBig,         \* messages whose body exceeds a slot
    NumSlots,       \* slots per pool
    MaxDescriptors, \* descriptors per ring
    DpaTx, DpaRx, Arm,              \* the polling threads
    Dpu, None, Free

Messages == Requests \X {"request", "response"}
Clients  == {r \in Requests : Origin[r] = Bridge}
Threads  == Workers \cup Clients \cup {DpaTx, DpaRx, Arm}

ASSUME DataPathAssumption ==
    /\ ServiceOf \in [Workers -> Services]
    /\ Origin \in [Requests -> Workers \cup {Bridge}] /\ Bridge \notin Workers
    /\ Target \in [Requests -> Services]
    /\ EmptyBody \subseteq Messages /\ TooBig \subseteq Messages
    \* The slot of a client's request also holds the header: it is never empty.
    /\ \A r \in Clients : <<r, "request">> \notin EmptyBody
    /\ NumSlots \in Nat \ {0} /\ MaxDescriptors \in Nat \ {0}
    /\ WorkersOf \in [Services -> Seq(Workers)]
    /\ \A s \in Services : \A i \in 1 .. Len(WorkersOf[s]) : ServiceOf[WorkersOf[s][i]] = s

\* The pools a service's workers share, and those of the DPU.
Pools == ({"txHeader", "txBody", "rxHeader", "rxBody"} \X Services)
            \cup ({"txHeader", "rxBody"} \X {Dpu})
Slots == 0 .. NumSlots - 1
Locs  == Pools \X Slots

\* The two rings of a worker and the two sidecar rings.
Rings == {"tx", "rx"} \X (Workers \cup {Dpu})

\* Threads, and whatever else has a name, are different.
ASSUME DataPathNames ==
    /\ Workers \cap Clients = {} /\ {DpaTx, DpaRx, Arm} \cap (Workers \cup Clients) = {}
    /\ DpaTx # DpaRx /\ DpaTx # Arm /\ DpaRx # Arm
    /\ \A t \in Threads : t \notin Rings \X (1 .. MaxDescriptors)
    /\ Dpu \notin Workers /\ None \notin Locs /\ {None, Free} \cap Messages = {}

VARIABLES
    buf,      \* the message in each slot, or Free: the slot is not allocated
    ring,     \* the descriptors in each ring, oldest first
    pc,       \* where each thread is
    desc,     \* the descriptor it works on
    copy,     \* the slots it has copied the header and the body to
    owed,     \* requests a worker is serving
    rr,       \* round-robin index per service
    events,   \* _bridge_events: clients that wait for an answer
    answers,  \* those whose event is set
    sent, received,  \* messages that set out, and those that arrived
    collided  \* two threads have been in a pool at once, through one mmap object

path == <<buf, ring, pc, desc, copy, owed, rr, events, answers, sent, received>>
vars == <<path, collided>>
app  == <<owed, sent, received>>
arm  == <<rr, events, answers>>

NoLoc  == None
NoDesc == [msg |-> None, header |-> NoLoc, body |-> NoLoc, src |-> None, dst |-> None]
NoCopy == [header |-> NoLoc, body |-> NoLoc]
Descs  == [msg : Messages, header : Locs \cup {NoLoc}, body : Locs \cup {NoLoc},
           src : Workers \cup {None}, dst : Workers \cup {None}]

PCs == {"idle", "dead", "allocHeader", "allocBody", "putTx", "undoHeader", "undoBody",
        "readHeader", "readBody",
        "txCopy", "txRequeue", "txFree", "txPut", "txUndo",
        "route", "putRx", "cleanBody", "cleanHeader",
        "bridgeBody", "bridgeHeader", "bridgeNotify",
        "rxCopyBody", "rxRequeue", "rxFreeBody", "rxCopyHeader", "rxFreeHeader",
        "rxPut", "rxUndoBody", "rxUndoHeader",
        "clientAlloc", "clientPut", "clientUndo", "wait", "closed"}

PathOK == /\ buf \in [Locs -> Messages \cup {Free}]
          /\ ring \in [Rings -> Seq(Descs)]
          /\ \A q \in Rings : Len(ring[q]) <= MaxDescriptors
          /\ pc \in [Threads -> PCs]
          /\ desc \in [Threads -> Descs \cup {NoDesc}]
          /\ copy \in [Threads -> [header : Locs \cup {NoLoc}, body : Locs \cup {NoLoc}]]
          /\ owed \in [Workers -> SUBSET Requests]
          /\ \A s \in Services : rr[s] \in 0 .. Len(WorkersOf[s])
          /\ events \subseteq Clients /\ answers \subseteq events
          /\ received \subseteq sent /\ sent \subseteq Messages

TypeOK == PathOK /\ collided \in BOOLEAN

Init == /\ buf = [l \in Locs |-> Free]
        /\ ring = [q \in Rings |-> <<>>]
        /\ pc = [t \in Threads |-> "idle"]
        /\ desc = [t \in Threads |-> NoDesc]
        /\ copy = [t \in Threads |-> NoCopy]
        /\ owed = [w \in Workers |-> {}]
        /\ rr = [s \in Services |-> 0]
        /\ events = {} /\ answers = {}
        /\ sent = {} /\ received = {}
        /\ collided = FALSE
-----------------------------------------------------------------------------
(***************************************************************************)
(* Pools and rings.                                                        *)
(***************************************************************************)
FreeSlots(p) == {s \in Slots : buf[<<p, s>>] = Free}
PoolFull(p)  == FreeSlots(p) = {}

\* alloc() returns the first free slot of a pool that has one; write() fills it.
\* One step, unless another thread of the process is in the pool: see Collide.
FirstFree(p) == <<p, CHOOSE s \in FreeSlots(p) : \A u \in FreeSlots(p) : s <= u>>
AllocWrite(p, m) == buf' = [buf EXCEPT ![FirstFree(p)] = m]

\* free(), with the same reservation; of slot -1 it is a no-op.
FreeSlot(l) == buf' = IF l = NoLoc THEN buf ELSE [buf EXCEPT ![l] = Free]

\* Mutant: an off-by-one of the test for a full ring.
RingFullOffByOne(q) == Len(ring[q]) > MaxDescriptors
RingFull(q) == Len(ring[q]) >= MaxDescriptors
Put(q, d)   == ring' = [ring EXCEPT ![q] = Append(@, d)]
Get(t, q)   == /\ pc[t] = "idle" /\ ring[q] # <<>>
               /\ desc' = [desc EXCEPT ![t] = Head(ring[q])]
               /\ ring' = [ring EXCEPT ![q] = Tail(@)]

Goto(t, l) == pc' = [pc EXCEPT ![t] = l]
Done(t, l) == /\ Goto(t, l)
              /\ desc' = [desc EXCEPT ![t] = NoDesc]
              /\ copy' = [copy EXCEPT ![t] = NoCopy]

NoBody(d) == d.msg \in EmptyBody
Case2(d)  == d.header = NoLoc
-----------------------------------------------------------------------------
(***************************************************************************)
(* Worker: submit_egress_request(), write_ingress_response().              *)
(***************************************************************************)
Begin(w, m) == /\ pc[w] = "idle"
               /\ sent' = sent \cup {m}
               /\ desc' = [desc EXCEPT ![w] = [NoDesc EXCEPT !.msg = m, !.src = w]]
               /\ Goto(w, "allocHeader")
               /\ UNCHANGED <<buf, ring, copy, arm, received>>

Submit(w, r) == /\ Origin[r] = w /\ <<r, "request">> \notin sent
                /\ Begin(w, <<r, "request">>)
                /\ UNCHANGED owed

Respond(w, r) == /\ r \in owed[w]
                 /\ owed' = [owed EXCEPT ![w] = @ \ {r}]
                 /\ Begin(w, <<r, "response">>)

\* A request that cannot be submitted raises out of the event loop, and the
\* worker process ends; a response is dropped.
Failed(w) == Done(w, IF desc[w].msg[2] = "request" THEN "dead" ELSE "idle")

AllocHeader(w) ==
    /\ pc[w] = "allocHeader"
    /\ LET p == <<"txHeader", ServiceOf[w]>> IN
       IF PoolFull(p)
          THEN Failed(w) /\ UNCHANGED buf
          ELSE /\ AllocWrite(p, desc[w].msg)
               /\ desc' = [desc EXCEPT ![w].header = FirstFree(p)]
               /\ Goto(w, "allocBody")
               /\ UNCHANGED copy
    /\ UNCHANGED <<ring, app, arm>>

\* The body gets a slot also when it is empty.
AllocBody(w) ==
    /\ pc[w] = "allocBody"
    /\ LET p == <<"txBody", ServiceOf[w]>> IN
       IF PoolFull(p)
          THEN Goto(w, "undoHeader") /\ UNCHANGED <<buf, desc>>
          ELSE /\ AllocWrite(p, desc[w].msg)
               /\ desc' = [desc EXCEPT ![w].body = FirstFree(p)]
               /\ Goto(w, IF desc[w].msg \in TooBig THEN "undoHeader" ELSE "putTx")
    /\ UNCHANGED <<ring, copy, app, arm>>

PutTx(w) ==
    /\ pc[w] = "putTx"
    /\ IF RingFull(<<"tx", w>>)
          THEN Goto(w, "undoHeader") /\ UNCHANGED <<ring, desc, copy>>
          ELSE Put(<<"tx", w>>, desc[w]) /\ Done(w, "idle")
    /\ UNCHANGED <<buf, app, arm>>

\* Mutant: the roll-back forgets the body.
UndoHeaderOnly(w) == /\ pc[w] = "undoHeader"
                     /\ FreeSlot(desc[w].header)
                     /\ Failed(w)
                     /\ UNCHANGED <<ring, app, arm>>

UndoHeader(w) ==
    /\ pc[w] = "undoHeader"
    /\ FreeSlot(desc[w].header)
    /\ IF desc[w].body = NoLoc THEN Failed(w)
                               ELSE Goto(w, "undoBody") /\ UNCHANGED <<desc, copy>>
    /\ UNCHANGED <<ring, app, arm>>

UndoBody(w) == /\ pc[w] = "undoBody"
               /\ FreeSlot(desc[w].body)
               /\ Failed(w)
               /\ UNCHANGED <<ring, app, arm>>
-----------------------------------------------------------------------------
(***************************************************************************)
(* Worker: the event loop takes a descriptor off its RX ring.              *)
(***************************************************************************)
TakeRx(w) == /\ Get(w, <<"rx", w>>)
             /\ Goto(w, IF Case2(Head(ring[<<"rx", w>>])) THEN "readBody" ELSE "readHeader")
             /\ UNCHANGED <<buf, copy, app, arm>>

ReadHeader(w) == /\ pc[w] = "readHeader"
                 /\ FreeSlot(desc[w].header)
                 /\ Goto(w, "readBody")
                 /\ UNCHANGED <<ring, desc, copy, app, arm>>

\* Mutant: the request is read and forgotten.
ReadBodyForgets(w) == /\ pc[w] = "readBody"
                      /\ FreeSlot(desc[w].body)
                      /\ received' = received \cup {desc[w].msg}
                      /\ Done(w, "idle")
                      /\ UNCHANGED <<ring, owed, sent, arm>>

\* The message has arrived: a request will be answered some time.
ReadBody(w) ==
    /\ pc[w] = "readBody"
    /\ FreeSlot(desc[w].body)
    /\ received' = received \cup {desc[w].msg}
    /\ owed' = IF desc[w].msg[2] = "request"
                  THEN [owed EXCEPT ![w] = @ \cup {desc[w].msg[1]}] ELSE owed
    /\ Done(w, "idle")
    /\ UNCHANGED <<ring, sent, arm>>
-----------------------------------------------------------------------------
(***************************************************************************)
(* DPA, thread DPA-TX-Poll: host TX rings -> sidecar TX ring.              *)
(***************************************************************************)
TxGet(w) == /\ Get(DpaTx, <<"tx", w>>)
            /\ Goto(DpaTx, "txCopy")
            /\ UNCHANGED <<buf, copy, app, arm>>

TxCopy ==
    /\ pc[DpaTx] = "txCopy"
    /\ LET p == <<"txHeader", Dpu>> IN
       IF PoolFull(p)
          THEN Goto(DpaTx, "txRequeue") /\ UNCHANGED <<buf, copy>>
          ELSE /\ AllocWrite(p, buf[desc[DpaTx].header])
               /\ copy' = [copy EXCEPT ![DpaTx].header = FirstFree(p)]
               /\ Goto(DpaTx, "txFree")
    /\ UNCHANGED <<ring, desc, app, arm>>

TxRequeue == /\ pc[DpaTx] = "txRequeue"
             /\ LET q == <<"tx", desc[DpaTx].src>> IN
                IF RingFull(q) THEN UNCHANGED ring ELSE Put(q, desc[DpaTx])
             /\ Done(DpaTx, "idle")
             /\ UNCHANGED <<buf, app, arm>>

\* Mutant: the thread returns before the put.
TxFreeReturns == /\ pc[DpaTx] = "txFree"
                 /\ FreeSlot(desc[DpaTx].header)
                 /\ Done(DpaTx, "idle")
                 /\ UNCHANGED <<ring, app, arm>>

TxFree == /\ pc[DpaTx] = "txFree"
          /\ FreeSlot(desc[DpaTx].header)
          /\ Goto(DpaTx, "txPut")
          /\ UNCHANGED <<ring, desc, copy, app, arm>>

\* The body stays where it is.
TxPut ==
    /\ pc[DpaTx] = "txPut"
    /\ IF RingFull(<<"tx", Dpu>>)
          THEN Goto(DpaTx, "txUndo") /\ UNCHANGED <<ring, desc, copy>>
          ELSE /\ Put(<<"tx", Dpu>>, [desc[DpaTx] EXCEPT !.header = copy[DpaTx].header])
               /\ Done(DpaTx, "idle")
    /\ UNCHANGED <<buf, app, arm>>

TxUndo == /\ pc[DpaTx] = "txUndo"
          /\ FreeSlot(copy[DpaTx].header)
          /\ Done(DpaTx, "idle")
          /\ UNCHANGED <<ring, app, arm>>
-----------------------------------------------------------------------------
(***************************************************************************)
(* ARM, thread ARM-TX-Poll: sidecar TX ring -> sidecar RX ring, or the     *)
(* client's thread.                                                        *)
(***************************************************************************)
ArmGet == /\ Get(Arm, <<"tx", Dpu>>)
          /\ Goto(Arm, "route")
          /\ UNCHANGED <<buf, copy, app, arm>>

\* WorkerSelector.select(): round robin over the workers of the service.
Selected(s) == WorkersOf[s][(rr[s] % Len(WorkersOf[s])) + 1]
Advance(s)  == rr' = [rr EXCEPT ![s] = (@ % Len(WorkersOf[s])) + 1]

\* Mutant: a response is sent to any worker of the service that was called.
RouteByService ==
    /\ pc[Arm] = "route"
    /\ LET s == Target[buf[desc[Arm].header][1]] IN
       IF WorkersOf[s] = <<>>
          THEN Goto(Arm, "cleanBody") /\ UNCHANGED <<desc, rr>>
          ELSE /\ desc' = [desc EXCEPT ![Arm].dst = Selected(s)]
               /\ Advance(s)
               /\ Goto(Arm, "putRx")
    /\ UNCHANGED <<buf, ring, copy, app, events, answers>>

\* The route is read off the header in its slot.
Route ==
    /\ pc[Arm] = "route"
    /\ LET m == buf[desc[Arm].header]
           r == m[1]
       IN  IF m[2] = "request"
              THEN IF WorkersOf[Target[r]] = <<>>
                      THEN Goto(Arm, "cleanBody") /\ UNCHANGED <<desc, rr>>
                      ELSE /\ desc' = [desc EXCEPT ![Arm].dst = Selected(Target[r])]
                           /\ Advance(Target[r])
                           /\ Goto(Arm, "putRx")
              ELSE IF Origin[r] = Bridge
                      THEN Goto(Arm, "bridgeBody") /\ UNCHANGED <<desc, rr>>
                      ELSE /\ desc' = [desc EXCEPT ![Arm].dst = Origin[r]]
                           /\ Goto(Arm, "putRx")
                           /\ UNCHANGED rr
    /\ UNCHANGED <<buf, ring, copy, app, events, answers>>

PutRx ==
    /\ pc[Arm] = "putRx"
    /\ IF RingFull(<<"rx", Dpu>>)
          THEN Goto(Arm, "cleanBody") /\ UNCHANGED <<ring, desc, copy>>
          ELSE Put(<<"rx", Dpu>>, desc[Arm]) /\ Done(Arm, "idle")
    /\ UNCHANGED <<buf, app, arm>>

CleanBody == /\ pc[Arm] = "cleanBody"
             /\ FreeSlot(desc[Arm].body)
             /\ Goto(Arm, "cleanHeader")
             /\ UNCHANGED <<ring, desc, copy, app, arm>>

CleanHeader == /\ pc[Arm] = "cleanHeader"
               /\ FreeSlot(desc[Arm].header)
               /\ Done(Arm, "idle")
               /\ UNCHANGED <<ring, app, arm>>

\* _deliver_bridge_response(): an empty body is neither read nor freed.
BridgeBody == /\ pc[Arm] = "bridgeBody"
              /\ IF NoBody(desc[Arm]) THEN UNCHANGED buf ELSE FreeSlot(desc[Arm].body)
              /\ Goto(Arm, "bridgeHeader")
              /\ UNCHANGED <<ring, desc, copy, app, arm>>

BridgeHeader == /\ pc[Arm] = "bridgeHeader"
                /\ FreeSlot(desc[Arm].header)
                /\ Goto(Arm, "bridgeNotify")
                /\ UNCHANGED <<ring, desc, copy, app, arm>>

BridgeNotify == /\ pc[Arm] = "bridgeNotify"
                /\ answers' = answers \cup ({desc[Arm].msg[1]} \cap events)
                /\ Done(Arm, "idle")
                /\ UNCHANGED <<buf, ring, app, rr, events>>
-----------------------------------------------------------------------------
(***************************************************************************)
(* ARM, one thread per TCP client.  Its request goes to the sidecar RX     *)
(* ring at once, header and body in one slot.                              *)
(***************************************************************************)
ClientOpen(r) ==
    /\ pc[r] = "idle"
    /\ sent' = sent \cup {<<r, "request">>}
    /\ events' = events \cup {r}
    /\ IF WorkersOf[Target[r]] = <<>>
          THEN Goto(r, "closed") /\ UNCHANGED <<desc, rr>>
          ELSE /\ desc' = [desc EXCEPT ![r] = [NoDesc EXCEPT !.msg = <<r, "request">>,
                                                            !.dst = Selected(Target[r])]]
               /\ Advance(Target[r])
               /\ Goto(r, "clientAlloc")
    /\ UNCHANGED <<buf, ring, copy, owed, answers, received>>

ClientAlloc(r) ==
    /\ pc[r] = "clientAlloc"
    /\ LET p == <<"rxBody", Dpu>> IN
       IF PoolFull(p)
          THEN Done(r, "closed") /\ UNCHANGED buf
          ELSE /\ AllocWrite(p, desc[r].msg)
               /\ desc' = [desc EXCEPT ![r].body = FirstFree(p)]
               /\ Goto(r, IF desc[r].msg \in TooBig THEN "clientUndo" ELSE "clientPut")
               /\ UNCHANGED copy
    /\ UNCHANGED <<ring, app, arm>>

ClientPut(r) ==
    /\ pc[r] = "clientPut"
    /\ IF RingFull(<<"rx", Dpu>>)
          THEN Goto(r, "clientUndo") /\ UNCHANGED <<ring, desc, copy>>
          ELSE Put(<<"rx", Dpu>>, desc[r]) /\ Done(r, "wait")
    /\ UNCHANGED <<buf, app, arm>>

ClientUndo(r) == /\ pc[r] = "clientUndo"
                 /\ FreeSlot(desc[r].body)
                 /\ Done(r, "closed")
                 /\ UNCHANGED <<ring, app, arm>>

\* Mutant: only the response is popped.
ForgetAnswer(r) == events' = events /\ answers' = answers \ {r}

Forget(r) == events' = events \ {r} /\ answers' = answers \ {r}

ClientAnswered(r) == /\ pc[r] = "wait" /\ r \in answers
                     /\ received' = received \cup {<<r, "response">>}
                     /\ Forget(r)
                     /\ Goto(r, "closed")
                     /\ UNCHANGED <<buf, ring, desc, copy, owed, rr, sent>>

\* 504: the wait has timed out.  An answer that came between the time-out and
\* the lock of the tables is thrown away with the entry.
ClientTimeout(r) == /\ pc[r] = "wait"
                    /\ Forget(r)
                    /\ Goto(r, "closed")
                    /\ UNCHANGED <<buf, ring, desc, copy, app, rr>>
-----------------------------------------------------------------------------
(***************************************************************************)
(* DPA, thread DPA-RX-Poll: sidecar RX ring -> host RX rings.              *)
(***************************************************************************)
HostPool(kind) == <<kind, ServiceOf[desc[DpaRx].dst]>>

RxGet == /\ Get(DpaRx, <<"rx", Dpu>>)
         /\ Goto(DpaRx, "rxCopyBody")
         /\ UNCHANGED <<buf, copy, app, arm>>

AfterBody == IF Case2(desc[DpaRx]) THEN "rxPut" ELSE "rxCopyHeader"

RxCopyBody ==
    /\ pc[DpaRx] = "rxCopyBody"
    /\ LET p == HostPool("rxBody") IN
       \/ /\ NoBody(desc[DpaRx])
          /\ Goto(DpaRx, AfterBody) /\ UNCHANGED <<buf, copy>>
       \/ /\ ~NoBody(desc[DpaRx]) /\ PoolFull(p)
          /\ Goto(DpaRx, "rxRequeue") /\ UNCHANGED <<buf, copy>>
       \/ /\ ~NoBody(desc[DpaRx]) /\ ~PoolFull(p)
          /\ AllocWrite(p, buf[desc[DpaRx].body])
          /\ copy' = [copy EXCEPT ![DpaRx].body = FirstFree(p)]
          /\ Goto(DpaRx, "rxFreeBody")
    /\ UNCHANGED <<ring, desc, app, arm>>

\* Mutant: the descriptor is put back and the copy goes on without the body.
RxRequeueGoesOn == /\ pc[DpaRx] = "rxRequeue"
                   /\ IF RingFull(<<"rx", Dpu>>) THEN UNCHANGED ring
                                                 ELSE Put(<<"rx", Dpu>>, desc[DpaRx])
                   /\ Goto(DpaRx, AfterBody)
                   /\ UNCHANGED <<buf, desc, copy, app, arm>>

RxRequeue == /\ pc[DpaRx] = "rxRequeue"
             /\ IF RingFull(<<"rx", Dpu>>) THEN UNCHANGED ring
                                           ELSE Put(<<"rx", Dpu>>, desc[DpaRx])
             /\ Done(DpaRx, "idle")
             /\ UNCHANGED <<buf, app, arm>>

\* Mutant: the copied body is not freed.
RxKeepBody == /\ pc[DpaRx] = "rxFreeBody"
              /\ Goto(DpaRx, AfterBody)
              /\ UNCHANGED <<buf, ring, desc, copy, app, arm>>

RxFreeBody == /\ pc[DpaRx] = "rxFreeBody"
              /\ FreeSlot(desc[DpaRx].body)
              /\ Goto(DpaRx, AfterBody)
              /\ UNCHANGED <<ring, desc, copy, app, arm>>

\* No slot for the header: the copied body is freed, the header stays allocated.
RxCopyHeader ==
    /\ pc[DpaRx] = "rxCopyHeader"
    /\ LET p == HostPool("rxHeader") IN
       IF PoolFull(p)
          THEN Goto(DpaRx, "rxUndoBody") /\ UNCHANGED <<buf, copy>>
          ELSE /\ AllocWrite(p, buf[desc[DpaRx].header])
               /\ copy' = [copy EXCEPT ![DpaRx].header = FirstFree(p)]
               /\ Goto(DpaRx, "rxFreeHeader")
    /\ UNCHANGED <<ring, desc, app, arm>>

RxFreeHeader == /\ pc[DpaRx] = "rxFreeHeader"
                /\ FreeSlot(desc[DpaRx].header)
                /\ Goto(DpaRx, "rxPut")
                /\ UNCHANGED <<ring, desc, copy, app, arm>>

\* Mutant: the descriptor of the host ring names the body at its source.
RxPutSource ==
    /\ pc[DpaRx] = "rxPut"
    /\ LET q == <<"rx", desc[DpaRx].dst>> IN
       IF RingFull(q)
          THEN Goto(DpaRx, "rxUndoBody") /\ UNCHANGED <<ring, desc, copy>>
          ELSE /\ Put(q, [desc[DpaRx] EXCEPT !.header = copy[DpaRx].header])
               /\ Done(DpaRx, "idle")
    /\ UNCHANGED <<buf, app, arm>>

RxPut ==
    /\ pc[DpaRx] = "rxPut"
    /\ LET q == <<"rx", desc[DpaRx].dst>> IN
       IF RingFull(q)
          THEN Goto(DpaRx, "rxUndoBody") /\ UNCHANGED <<ring, desc, copy>>
          ELSE /\ Put(q, [desc[DpaRx] EXCEPT !.header = copy[DpaRx].header,
                                             !.body = copy[DpaRx].body])
               /\ Done(DpaRx, "idle")
    /\ UNCHANGED <<buf, app, arm>>

RxUndoBody == /\ pc[DpaRx] = "rxUndoBody"
              /\ FreeSlot(copy[DpaRx].body)
              /\ Goto(DpaRx, "rxUndoHeader")
              /\ UNCHANGED <<ring, desc, copy, app, arm>>

RxUndoHeader == /\ pc[DpaRx] = "rxUndoHeader"
                /\ FreeSlot(copy[DpaRx].header)
                /\ Done(DpaRx, "idle")
                /\ UNCHANGED <<ring, app, arm>>
-----------------------------------------------------------------------------
WorkerStep(w) == \/ \E r \in Requests : Respond(w, r)
                 \/ AllocHeader(w) \/ AllocBody(w) \/ PutTx(w) \/ UndoHeader(w) \/ UndoBody(w)
                 \/ TakeRx(w) \/ ReadHeader(w) \/ ReadBody(w)
DpaTxStep == \/ \E w \in Workers : TxGet(w)
             \/ TxCopy \/ TxRequeue \/ TxFree \/ TxPut \/ TxUndo
ArmStep == \/ ArmGet \/ Route \/ PutRx \/ CleanBody \/ CleanHeader
           \/ BridgeBody \/ BridgeHeader \/ BridgeNotify
ClientStep(r) == ClientAlloc(r) \/ ClientPut(r) \/ ClientUndo(r) \/ ClientAnswered(r)
DpaRxStep == \/ RxGet \/ RxCopyBody \/ RxRequeue \/ RxFreeBody
             \/ RxCopyHeader \/ RxFreeHeader \/ RxPut \/ RxUndoBody \/ RxUndoHeader

Step == \/ \E w \in Workers : WorkerStep(w) \/ \E r \in Requests : Submit(w, r)
        \/ DpaTxStep \/ ArmStep \/ DpaRxStep
        \/ \E r \in Clients : ClientOpen(r) \/ ClientStep(r) \/ ClientTimeout(r)

\* Two threads of a process at lines where they use one mmap object, one of them
\* without the lock: in copy_buffer() to or from the DPU TX header pool against
\* the other thread's copy_buffer() or free(), and in the alloc() and write() of
\* a client's request against another client's, or its free().
Meet == \/ pc[DpaTx] = "txCopy" /\ pc[DpaRx] \in {"rxCopyHeader", "rxFreeHeader"}
        \/ pc[DpaTx] = "txUndo" /\ pc[DpaRx] = "rxCopyHeader"
        \/ \E r, c \in Clients : /\ r # c /\ pc[r] = "clientAlloc"
                                 /\ pc[c] \in {"clientAlloc", "clientUndo"}

Collide == Meet /\ collided' = TRUE /\ UNCHANGED path

Alone(A) == ~collided /\ A /\ UNCHANGED collided
Next == Alone(Step) \/ (~collided /\ Collide)

\* Every thread runs, and the DPA polls the workers in turn.  Requests need not
\* be issued, a served request is answered some time.
Fairness ==
    /\ \A w \in Workers : WF_vars(Alone(WorkerStep(w))) /\ SF_vars(Alone(TxGet(w)))
    /\ WF_vars(Alone(DpaTxStep)) /\ WF_vars(Alone(ArmStep)) /\ WF_vars(Alone(DpaRxStep))
    /\ \A r \in Clients : WF_vars(Alone(ClientStep(r) \/ ClientTimeout(r)))

Spec     == Init /\ [][Next]_vars
FairSpec == Spec /\ Fairness
-----------------------------------------------------------------------------
(***************************************************************************)
(* Who is responsible for a slot, and where a message is.                  *)
(***************************************************************************)
\* The lines at which a thread no longer has the slot its descriptor names: it
\* has freed it, handed it over in a descriptor, or given up on it.
HeaderGone == {"readBody", "undoBody", "txPut", "txUndo", "bridgeNotify",
               "rxPut", "rxUndoBody", "rxUndoHeader"}
BodyGone   == {"txUndo", "cleanHeader", "bridgeHeader", "bridgeNotify", "rxCopyHeader",
               "rxFreeHeader", "rxPut", "rxUndoBody", "rxUndoHeader"}

HeldBy(t) == ({desc[t].header : l \in {pc[t]} \ HeaderGone}
              \cup {desc[t].body : l \in {pc[t]} \ BodyGone}
              \cup {copy[t].header}
              \cup {copy[t].body : l \in {pc[t]} \ {"rxUndoHeader"}}) \ {NoLoc}

InRings == {x \in Rings \X (1 .. MaxDescriptors) : x[2] <= Len(ring[x[1]])}

\* Threads and places of rings, with the message and the slots each has.
Owners == {[at |-> t, msg |-> desc[t].msg, locs |-> HeldBy(t)] : t \in Threads}
          \cup {[at |-> x, msg |-> ring[x[1]][x[2]].msg,
                 locs |-> {ring[x[1]][x[2]].header, ring[x[1]][x[2]].body} \ {NoLoc}]
                : x \in InRings}

Leaked == {l \in Locs : buf[l] # Free} \ UNION {o.locs : o \in Owners}

\* A thread at one of these lines is giving the message up.
Dropping == {"undoHeader", "undoBody", "txUndo", "cleanBody", "cleanHeader",
             "clientUndo", "rxUndoBody", "rxUndoHeader"}
Carriers == {o \in Owners : o.msg # None /\ ~(o.at \in Threads /\ pc[o.at] \in Dropping)}

Arrived == received \cup {<<r, "response">> : r \in answers}
Carried == {desc[t].msg : t \in {u \in Threads : pc[u] \notin Dropping}}
              \cup {ring[x[1]][x[2]].msg : x \in InRings}
Lost    == sent \ (Arrived \cup Carried)
-----------------------------------------------------------------------------
(***************************************************************************)
(* Properties, of all that happens before a collision.                     *)
(***************************************************************************)
\* Two descriptors never name the same slot, and the slots that a descriptor
\* names, in a ring or in the hands of a thread, are allocated and hold the
\* header and the body of its message: nothing is freed twice or too early.
Custody == ~collided =>
              /\ \A o \in Owners : \A l \in o.locs : buf[l] = o.msg
              /\ \A o, p \in Owners : o.at # p.at => o.locs \cap p.locs = {}

\* A message is in one place, and nowhere once it has arrived, however often
\* its descriptor was put back into a ring.
AtMostOnce == ~collided =>
                 /\ \A o, p \in Carriers : o.msg = p.msg => o.at = p.at
                 /\ \A o \in Carriers : o.msg \notin Arrived

\* A request gets to a worker of the service it names, a response to the worker
\* that issued the request.
ForWorker(m, w) == IF m[2] = "request" THEN ServiceOf[w] = Target[m[1]] ELSE Origin[m[1]] = w
Addressed ==
    ~collided => \A w \in Workers :
        /\ \A i \in 1 .. Len(ring[<<"rx", w>>]) : ForWorker(ring[<<"rx", w>>][i].msg, w)
        /\ pc[w] \in {"readHeader", "readBody"} => ForWorker(desc[w].msg, w)
        /\ \A r \in owed[w] : Target[r] = ServiceOf[w]

\* The pool or the ring that a thread needs at its line has no room.
NoRoom(t) ==
    \/ pc[t] = "allocHeader"  /\ PoolFull(<<"txHeader", ServiceOf[t]>>)
    \/ pc[t] = "allocBody"    /\ PoolFull(<<"txBody", ServiceOf[t]>>)
    \/ pc[t] = "putTx"        /\ RingFull(<<"tx", t>>)
    \/ pc[t] = "txRequeue"    /\ RingFull(<<"tx", desc[t].src>>)
    \/ pc[t] = "txPut"        /\ RingFull(<<"tx", Dpu>>)
    \/ pc[t] = "clientAlloc"  /\ PoolFull(<<"rxBody", Dpu>>)
    \/ pc[t] \in {"putRx", "clientPut", "rxRequeue"} /\ RingFull(<<"rx", Dpu>>)
    \/ pc[t] = "rxCopyHeader" /\ PoolFull(<<"rxHeader", ServiceOf[desc[t].dst]>>)
    \/ pc[t] = "rxPut"        /\ RingFull(<<"rx", desc[t].dst>>)

\* It is about to write a body that does not fit.
TooLong(t) == pc[t] \in {"allocBody", "clientAlloc"} /\ desc[t].msg \in TooBig

\* A message is lost only in the hands of a thread that finds the pool or the ring
\* full it needs for it, or finds it too big, or because it names a service without
\* workers, or answers a client that has gone.
LossIsExcused ==
    [][~collided' => \A m \in Lost' \ Lost :
          \/ \E t \in Threads : desc[t].msg = m /\ (NoRoom(t) \/ TooLong(t))
          \/ m[2] = "request" /\ WorkersOf[Target[m[1]]] = <<>>
          \/ m[2] = "response" /\ m[1] \in Clients \ events']_vars

\* The body slot of a message of length 0 in the hands of a thread: the DPA and the
\* bridge pass over it (dpa_daemon.py:265, dpu_daemon.py:187).
PassedOver(l) == \E t \in Threads : desc[t].body = l /\ NoBody(desc[t])

\* A slot is leaked only in the step in which its message is lost, but for those that
\* are passed over.
LeaksOnlyWithLoss ==
    [][~collided' =>
          \A l \in Leaked' \ Leaked : buf[l] \in Lost' \ Lost \/ PassedOver(l)]_vars

\* No release is missed but of a message that is lost (dpa_daemon.py:7).
ReleasesNotMissed ==
    [][~collided' => \A l \in Leaked' \ Leaked : buf[l] \in Lost' \ Lost]_vars

\* Workers free what they have allocated or received, also when they crash on a
\* full pool or ring (host_lib.py: "rollback").
WorkersNeverLeak ==
    [][~collided' /\ (\E w \in Workers : WorkerStep(w)) => Leaked' \subseteq Leaked]_vars

\* The tables of the bridge hold no entry of a client that has left, however its wait
\* ended, unless it was refused at once (dpu_daemon.py:290-353 forgets nothing): then
\* no message of its ever went on its way, and no answer is kept for it.
ClosedClientsForgotten ==
    ~collided => \A r \in Clients : pc[r] = "closed" /\ r \in events
        => <<r, "request">> \in Lost /\ <<r, "response">> \notin sent /\ r \notin answers

\* A worker of a service that the request needs has crashed.
NeedsTheDead(r) ==
    \E w \in Workers : /\ pc[w] = "dead"
                       /\ \/ ServiceOf[w] = Target[r]
                          \/ Origin[r] \in Workers /\ ServiceOf[w] = ServiceOf[Origin[r]]

\* The DPU has no header slot to give: each is leaked, or that of a message that goes
\* round and round because the workers of its service share their pools with a dead one.
Circling == {ring[<<"rx", Dpu>>][i] : i \in 1 .. Len(ring[<<"rx", Dpu>>])}
               \cup {desc[t] : t \in {u \in {DpaRx} : pc[u] # "idle"}}
Exhausted ==
    PoolFull(<<"txHeader", Dpu>>) /\ \A s \in Slots : LET l == <<<<"txHeader", Dpu>>, s>> IN
        \/ l \in Leaked
        \/ \E d \in Circling, w \in Workers :
              d.header = l /\ pc[w] = "dead" /\ ServiceOf[w] = ServiceOf[d.dst]

\* Nothing hangs: a request is answered, or a message of it is lost, or its client
\* has given up, unless a worker of a service it needs has crashed, or the header
\* slots of the DPU are used up for good.
Settled(r) == \/ collided
              \/ <<r, "response">> \in received
              \/ r \in Clients /\ pc[r] = "closed"
              \/ NeedsTheDead(r)
              \/ {<<r, "request">>, <<r, "response">>} \cap Lost # {}
AllSettled == \A r \in Requests : (<<r, "request">> \in sent ~> Settled(r)) \/ <>[]Exhausted
=============================================================================
