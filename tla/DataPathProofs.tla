--------------------------- MODULE DataPathProofs ---------------------------
(***************************************************************************)
(* Proofs about DataPath, for any workers, services, requests, pools and   *)
(* rings.                                                                  *)
(***************************************************************************)
EXTENDS DataPath, WellFoundedInduction, TLAPS

(***************************************************************************)
(* The inductive invariant.                                                *)
(***************************************************************************)

Copies  == [header : Locs \cup {NoLoc}, body : Locs \cup {NoLoc}]
Resting == {"idle", "dead", "wait", "closed"}

\* What is known of a thread that is at l, with descriptor d and copied slots c: which
\* parts of them there are, and that the message is on its way to where it should go.
WorkerAt(w, l, d, c) ==
    /\ c = NoCopy
    /\ \/ l \in {"idle", "dead"} /\ d = NoDesc
       \/ /\ l \in {"allocHeader", "allocBody", "putTx", "undoHeader", "undoBody"}
          /\ d \in Descs /\ d.src = w
          /\ l = "allocHeader" => d.header = NoLoc
          /\ l \in {"allocHeader", "allocBody"} => d.body = NoLoc
          /\ l \in {"allocBody", "putTx"} => d.header # NoLoc
          /\ l = "putTx" => d.body # NoLoc
       \/ l \in {"readHeader", "readBody"} /\ d \in Descs /\ ForWorker(d.msg, w)

TxAt(l, d, c) ==
    \/ l = "idle" /\ d = NoDesc /\ c = NoCopy
    \/ /\ l \in {"txCopy", "txRequeue", "txFree", "txPut", "txUndo"}
       /\ d \in Descs /\ d.header # NoLoc /\ d.body # NoLoc /\ d.src \in Workers
       /\ c.body = NoLoc
       /\ l \in {"txCopy", "txRequeue"} => c = NoCopy
       /\ l \in {"txFree", "txPut"} => c.header # NoLoc

ArmAt(l, d, c) ==
    /\ c = NoCopy
    /\ \/ l = "idle" /\ d = NoDesc
       \/ /\ l \in {"route", "putRx", "cleanBody", "cleanHeader",
                    "bridgeBody", "bridgeHeader", "bridgeNotify"}
          /\ d \in Descs /\ d.header # NoLoc /\ d.body # NoLoc
          /\ l = "putRx" => d.dst \in Workers /\ ForWorker(d.msg, d.dst)
          /\ l \in {"bridgeBody", "bridgeHeader", "bridgeNotify"} =>
                d.msg[2] = "response" /\ d.msg[1] \in Clients

RxAt(l, d, c) ==
    \/ l = "idle" /\ d = NoDesc /\ c = NoCopy
    \/ /\ l \in {"rxCopyBody", "rxRequeue", "rxFreeBody", "rxCopyHeader", "rxFreeHeader",
                 "rxPut", "rxUndoBody", "rxUndoHeader"}
       /\ d \in Descs /\ d.body # NoLoc /\ d.dst \in Workers /\ ForWorker(d.msg, d.dst)
       /\ l \in {"rxCopyBody", "rxRequeue"} => c = NoCopy
       /\ l \in {"rxFreeBody", "rxCopyHeader"} => c.header = NoLoc
       /\ l \in {"rxCopyHeader", "rxFreeHeader"} => d.header # NoLoc

ClientAt(r, l, d, c) ==
    /\ c = NoCopy
    /\ \/ l \in {"idle", "wait", "closed"} /\ d = NoDesc
       \/ /\ l \in {"clientAlloc", "clientPut", "clientUndo"}
          /\ d \in Descs /\ d.header = NoLoc
          /\ d.msg = <<r, "request">> /\ d.dst \in Workers /\ ForWorker(d.msg, d.dst)
          /\ l = "clientAlloc" => d.body = NoLoc
          /\ l = "clientPut" => d.body # NoLoc

At(t, l, d, c) ==
    \/ t \in Workers /\ WorkerAt(t, l, d, c)
    \/ t = DpaTx /\ TxAt(l, d, c)
    \/ t = Arm /\ ArmAt(l, d, c)
    \/ t = DpaRx /\ RxAt(l, d, c)
    \/ t \in Clients /\ ClientAt(t, l, d, c)
ThreadInv == \A t \in Threads : At(t, pc[t], desc[t], copy[t])

\* What is known of a descriptor in a ring.
InRing(q, d) ==
    /\ q[1] = "tx" => d.header # NoLoc /\ d.body # NoLoc
    /\ q[1] = "tx" /\ q[2] \in Workers => d.src \in Workers
    /\ q = <<"rx", Dpu>> => d.body # NoLoc /\ d.dst \in Workers /\ ForWorker(d.msg, d.dst)
    /\ q[1] = "rx" /\ q[2] \in Workers => ForWorker(d.msg, q[2])
RingInv == \A q \in Rings : \A i \in 1 .. Len(ring[q]) : InRing(q, ring[q][i])

OwedInv == \A w \in Workers : \A r \in owed[w] : Target[r] = ServiceOf[w]

\* The slots a thread has, and those a place of a ring has, by what they are for.
Kinds == {"header", "body", "newHeader", "newBody"}
Has(k, l, d, c) ==
    CASE k = "header"    -> IF l \in HeaderGone THEN NoLoc ELSE d.header
      [] k = "body"      -> IF l \in BodyGone THEN NoLoc ELSE d.body
      [] k = "newHeader" -> c.header
      [] k = "newBody"   -> IF l = "rxUndoHeader" THEN NoLoc ELSE c.body
Held(t, k) == Has(k, pc[t], desc[t], copy[t])
Parts == {"header", "body"}
Part(k, d) == IF k = "header" THEN d.header ELSE d.body
Named(q, i, k) == Part(k, ring[q][i])

\* Each slot that somebody has holds his message, and nobody else has it.
HeldHolds == \A t \in Threads : \A k \in Kinds : Held(t, k) # NoLoc => buf[Held(t, k)] = desc[t].msg
NamedHolds ==
    \A q \in Rings : \A i \in 1 .. Len(ring[q]) : \A k \in Parts :
        Named(q, i, k) # NoLoc => buf[Named(q, i, k)] = ring[q][i].msg
HeldOnce ==
    \A t, u \in Threads : \A j, k \in Kinds :
        Held(t, j) # NoLoc /\ Held(t, j) = Held(u, k) => t = u /\ j = k
HeldNotNamed ==
    \A t \in Threads : \A q \in Rings : \A i \in 1 .. Len(ring[q]) : \A j \in Kinds, k \in Parts :
        Held(t, j) # NoLoc => Held(t, j) # Named(q, i, k)
NamedOnce ==
    \A q, r \in Rings : \A i \in 1 .. Len(ring[q]), h \in 1 .. Len(ring[r]) : \A j, k \in Parts :
        Named(q, i, j) # NoLoc /\ Named(q, i, j) = Named(r, h, k) => q = r /\ i = h /\ j = k
HoldInv == HeldHolds /\ NamedHolds /\ HeldOnce /\ HeldNotNamed /\ NamedOnce

\* Who still carries a message.
Carries(t) == pc[t] \notin Resting \cup Dropping

CarriedOnce ==
    \A t, u \in Threads : Carries(t) /\ Carries(u) /\ desc[t].msg = desc[u].msg => t = u
CarriedNotNamed ==
    \A t \in Threads : \A q \in Rings : \A i \in 1 .. Len(ring[q]) :
        Carries(t) => desc[t].msg # ring[q][i].msg
OneDescriptor ==
    \A q, r \in Rings : \A i \in 1 .. Len(ring[q]), h \in 1 .. Len(ring[r]) :
        ring[q][i].msg = ring[r][h].msg => q = r /\ i = h
CarriedSent == \A t \in Threads : Carries(t) => desc[t].msg \in sent \ Arrived
NamedSent == \A q \in Rings : \A i \in 1 .. Len(ring[q]) : ring[q][i].msg \in sent \ Arrived
OnceInv == CarriedOnce /\ CarriedNotNamed /\ OneDescriptor /\ CarriedSent /\ NamedSent

\* A request is served by one worker, once, after it has arrived.
ServeInv ==
    /\ Arrived \subseteq sent
    /\ \A v, w \in Workers : owed[v] \cap owed[w] # {} => v = w
    /\ \A w \in Workers : \A r \in owed[w] :
        <<r, "request">> \in received /\ <<r, "response">> \notin sent
    /\ \A r \in Requests : <<r, "response">> \in sent => <<r, "request">> \in received
    /\ \A r \in Clients : pc[r] = "idle" => <<r, "request">> \notin sent

PathInv == PathOK /\ ThreadInv /\ RingInv /\ HoldInv /\ OwedInv /\ OnceInv /\ ServeInv

(***************************************************************************)
(* Lemmas: names, pools and rings.                                         *)
(***************************************************************************)

\* Threads, rings and pools that the code names.
LEMMA Names ==
    /\ \A w \in Workers : /\ w \in Threads /\ <<"tx", w>> \in Rings /\ <<"rx", w>> \in Rings
                          /\ w \notin Clients /\ w # DpaTx /\ w # DpaRx /\ w # Arm
    /\ \A r \in Clients : /\ r \in Threads /\ r \notin Workers /\ r \in Requests
                          /\ r # DpaTx /\ r # DpaRx /\ r # Arm
    /\ DpaTx \in Threads /\ DpaRx \in Threads /\ Arm \in Threads
    /\ DpaTx \notin Workers \cup Clients /\ DpaRx \notin Workers \cup Clients
    /\ Arm \notin Workers \cup Clients
    /\ <<"tx", Dpu>> \in Rings /\ <<"rx", Dpu>> \in Rings
    /\ \A t \in Threads : t \in Workers \/ t \in Clients \/ t \in {DpaTx, DpaRx, Arm}
  BY DataPathNames DEF Threads, Clients, Rings

LEMMA PoolNames ==
    /\ \A w \in Workers : /\ ServiceOf[w] \in Services
                          /\ <<"txHeader", ServiceOf[w]>> \in Pools
                          /\ <<"txBody", ServiceOf[w]>> \in Pools
                          /\ <<"rxHeader", ServiceOf[w]>> \in Pools
                          /\ <<"rxBody", ServiceOf[w]>> \in Pools
    /\ <<"txHeader", Dpu>> \in Pools /\ <<"rxBody", Dpu>> \in Pools
  BY DataPathAssumption DEF Pools

LEMMA SmallestNumber ==
    ASSUME NEW S \in SUBSET Nat, S # {} PROVE \E s \in S : \A u \in S : s <= u
<1>1. PICK s \in S : \A u \in S : ~ (<<u, s>> \in OpToRel(<, Nat))
  BY WFMin, NatLessThanWellFounded, Zenon
<1>2. \A u \in S : ~(u < s)
  BY <1>1 DEF OpToRel
<1> QED BY <1>2

\* alloc() returns a free slot of the pool.
LEMMA FirstFreeIsFree ==
    ASSUME NEW p \in Pools, ~PoolFull(p)
    PROVE  FirstFree(p) \in Locs /\ buf[FirstFree(p)] = Free
<1> DEFINE best == CHOOSE s \in FreeSlots(p) : \A u \in FreeSlots(p) : s <= u
<1>1. FreeSlots(p) # {} /\ FreeSlots(p) \in SUBSET Nat
  <2>1. Slots \subseteq Nat
    BY DataPathAssumption DEF Slots
  <2> QED BY <2>1 DEF PoolFull, FreeSlots
<1>2. \E s \in FreeSlots(p) : \A u \in FreeSlots(p) : s <= u
  BY <1>1, SmallestNumber
<1>3. best \in FreeSlots(p)
  BY <1>2
<1>4. best \in Slots /\ buf[<<p, best>>] = Free
  BY <1>3 DEF FreeSlots
<1>5. FirstFree(p) = <<p, best>>
  BY DEF FirstFree
<1> HIDE DEF best
<1>6. <<p, best>> \in Locs
  BY <1>4 DEF Locs
<1> QED BY <1>4, <1>5, <1>6

\* select() returns a worker of the service.
LEMMA SelectedFacts ==
    ASSUME PathOK, NEW s \in Services, WorkersOf[s] # <<>>
    PROVE  /\ Selected(s) \in Workers /\ ServiceOf[Selected(s)] = s
           /\ (rr[s] % Len(WorkersOf[s])) + 1 \in 0 .. Len(WorkersOf[s])
<1>1. WorkersOf[s] \in Seq(Workers) /\ Len(WorkersOf[s]) \in Nat \ {0}
  BY DataPathAssumption
<1>2. rr[s] \in Nat
  BY <1>1 DEF PathOK
<1>3. rr[s] % Len(WorkersOf[s]) \in 0 .. Len(WorkersOf[s]) - 1
  BY <1>1, <1>2
<1>4. (rr[s] % Len(WorkersOf[s])) + 1 \in 1 .. Len(WorkersOf[s])
  BY <1>1, <1>3
<1>5. Selected(s) \in Workers
  BY <1>1, <1>4 DEF Selected
<1>6. ServiceOf[Selected(s)] = s
  BY <1>4, DataPathAssumption DEF Selected
<1> QED BY <1>1, <1>4, <1>5, <1>6

LEMMA PutFacts ==
    ASSUME PathOK, NEW q \in Rings, NEW d \in Descs, Put(q, d)
    PROVE  /\ ring' \in [Rings -> Seq(Descs)]
           /\ Len(ring'[q]) = Len(ring[q]) + 1 /\ Len(ring[q]) \in Nat
           /\ \A i \in 1 .. Len(ring[q]) : ring'[q][i] = ring[q][i]
           /\ ring'[q][Len(ring[q]) + 1] = d
           /\ \A r \in Rings \ {q} : ring'[r] = ring[r]
  BY DEF PathOK, Put

LEMMA GetFacts ==
    ASSUME PathOK, NEW t \in Threads, NEW q \in Rings, Get(t, q)
    PROVE  /\ ring' \in [Rings -> Seq(Descs)]
           /\ Len(ring[q]) \in Nat /\ Len(ring'[q]) = Len(ring[q]) - 1
           /\ 1 \in 1 .. Len(ring[q])
           /\ \A i \in 1 .. Len(ring'[q]) : i + 1 \in 1 .. Len(ring[q]) /\ ring'[q][i] = ring[q][i + 1]
           /\ \A r \in Rings \ {q} : ring'[r] = ring[r]
           /\ desc' = [desc EXCEPT ![t] = ring[q][1]] /\ desc'[t] = ring[q][1]
           /\ ring[q][1] \in Descs /\ Head(ring[q]) = ring[q][1]
           /\ pc[t] = "idle"
<1>1. ring[q] \in Seq(Descs) /\ ring[q] # <<>>
  BY DEF PathOK, Get
<1>2. ring' = [ring EXCEPT ![q] = Tail(ring[q])] /\ desc' = [desc EXCEPT ![t] = Head(ring[q])]
  BY DEF Get
<1>3. Head(ring[q]) = ring[q][1] /\ Head(ring[q]) \in Descs /\ Len(ring[q]) \in Nat \ {0}
  BY <1>1
<1>4. /\ Tail(ring[q]) \in Seq(Descs) /\ Len(Tail(ring[q])) = Len(ring[q]) - 1
      /\ \A i \in 1 .. Len(Tail(ring[q])) :
            i + 1 \in 1 .. Len(ring[q]) /\ Tail(ring[q])[i] = ring[q][i + 1]
  BY <1>1, <1>3
<1>5. ring'[q] = Tail(ring[q]) /\ \A r \in Rings \ {q} : ring'[r] = ring[r]
  BY <1>2 DEF PathOK
<1>6. ring' \in [Rings -> Seq(Descs)]
  BY <1>2, <1>4 DEF PathOK
<1>7. desc'[t] = ring[q][1]
  BY <1>2, <1>3 DEF PathOK
<1> QED BY <1>1, <1>2, <1>3, <1>4, <1>5, <1>6, <1>7 DEF Get

\* A ring that is not full takes one descriptor more, and one less is never too many.
LEMMA PutFits ==
    ASSUME PathOK, NEW q \in Rings, NEW d \in Descs, Put(q, d), ~RingFull(q)
    PROVE  \A r \in Rings : Len(ring'[r]) <= MaxDescriptors
<1> SUFFICES ASSUME NEW r \in Rings PROVE Len(ring'[r]) <= MaxDescriptors
  OBVIOUS
<1>1. Len(ring[q]) < MaxDescriptors /\ Len(ring[q]) \in Nat
  BY DataPathAssumption DEF PathOK, RingFull
<1>2. CASE r = q
  BY <1>1, <1>2, PutFacts, DataPathAssumption
<1>3. CASE r # q
  <2>1. ring'[r] = ring[r]
    BY <1>3, PutFacts, Zenon
  <2> QED BY <2>1 DEF PathOK
<1> QED BY <1>2, <1>3

LEMMA GetFits ==
    ASSUME PathOK, NEW t \in Threads, NEW q \in Rings, Get(t, q)
    PROVE  \A r \in Rings : Len(ring'[r]) <= MaxDescriptors
<1> SUFFICES ASSUME NEW r \in Rings PROVE Len(ring'[r]) <= MaxDescriptors
  OBVIOUS
<1>1. Len(ring[q]) <= MaxDescriptors
  BY DEF PathOK
<1>2. CASE r = q
  BY <1>1, <1>2, GetFacts, DataPathAssumption
<1>3. CASE r # q
  <2>1. ring'[r] = ring[r]
    BY <1>3, GetFacts, Zenon
  <2> QED BY <2>1 DEF PathOK
<1> QED BY <1>2, <1>3

\* The fields of descriptors.
LEMMA DescFacts ==
    /\ NoDesc.msg = None /\ NoDesc.header = NoLoc /\ NoDesc.body = NoLoc
    /\ NoCopy.header = NoLoc /\ NoCopy.body = NoLoc
    /\ NoCopy \in [header : Locs \cup {NoLoc}, body : Locs \cup {NoLoc}]
    /\ \A d \in Descs : /\ d.msg \in Messages /\ d.msg # None
                        /\ d.header \in Locs \cup {NoLoc} /\ d.body \in Locs \cup {NoLoc}
                        /\ d.src \in Workers \cup {None} /\ d.dst \in Workers \cup {None}
  BY DataPathNames DEF NoDesc, NoCopy, Descs, NoLoc

LEMMA DescUpdates ==
    ASSUME NEW d \in Descs, NEW l \in Locs \cup {NoLoc}
    PROVE  /\ [d EXCEPT !.header = l] \in Descs /\ [d EXCEPT !.body = l] \in Descs
           /\ \A w \in Workers : [d EXCEPT !.dst = w] \in Descs
  BY DEF Descs

(***************************************************************************)
(* The steps, by what they do with slots and descriptors.                  *)
(***************************************************************************)

\* A step of t: the other threads stay where they are.
Moved(t) ==
    /\ pc' \in [Threads -> PCs]
    /\ desc' \in [Threads -> Descs \cup {NoDesc}]
    /\ copy' \in [Threads -> Copies]
    /\ \A u \in Threads \ {t} : pc'[u] = pc[u] /\ desc'[u] = desc[u] /\ copy'[u] = copy[u]
    /\ At(t, pc'[t], desc'[t], copy'[t])

\* What t has afterwards it has had before, and a message it carries it was carrying.
Keeps(t, kinds) ==
    /\ \A k \in kinds : Held(t, k)' # NoLoc =>
          Held(t, k)' = Held(t, k) /\ desc'[t].msg = desc[t].msg
    /\ Carries(t)' => Carries(t) /\ desc'[t].msg = desc[t].msg

KeepStep(t) == Moved(t) /\ Keeps(t, Kinds) /\ buf' = buf /\ ring' = ring
FreeStep(t) ==
    /\ Moved(t) /\ Keeps(t, Kinds) /\ ring' = ring
    /\ \E k \in Kinds : Held(t, k)' = NoLoc /\ FreeSlot(Held(t, k))
AllocStep(t) ==
    /\ Moved(t) /\ ring' = ring /\ desc[t].msg \in Messages /\ desc'[t].msg = desc[t].msg
    /\ \E k \in Kinds, s \in Locs :
          /\ Keeps(t, Kinds \ {k}) /\ Held(t, k)' = s
          /\ buf[s] = Free /\ buf' = [buf EXCEPT ![s] = desc[t].msg]
PutStep(t) ==
    /\ Moved(t) /\ (\A k \in Kinds : Held(t, k)' = NoLoc)
    /\ Carries(t) /\ ~Carries(t)' /\ buf' = buf
    /\ \E q \in Rings, d \in Descs :
          /\ Put(q, d) /\ ~RingFull(q) /\ InRing(q, d) /\ d.msg = desc[t].msg
          /\ d.header \in {NoLoc, Held(t, "header"), Held(t, "newHeader")}
          /\ d.body \in {NoLoc, Held(t, "body"), Held(t, "newBody")}
GetStep(t) ==
    Moved(t) /\ buf' = buf /\ copy'[t] = NoCopy /\ \E q \in Rings : Get(t, q)

StepOf(t) == KeepStep(t) \/ FreeStep(t) \/ AllocStep(t) \/ PutStep(t) \/ GetStep(t)

\* The four ways in which a step changes the state of its thread.
LEMMA GotoMoves ==
    ASSUME PathOK, NEW t \in Threads, NEW l \in PCs, Goto(t, l), UNCHANGED <<desc, copy>>,
           At(t, l, desc[t], copy[t])
    PROVE  Moved(t) /\ pc'[t] = l /\ desc'[t] = desc[t] /\ copy'[t] = copy[t]
<1>1. pc'[t] = l /\ desc'[t] = desc[t] /\ copy'[t] = copy[t]
  BY DEF Goto, PathOK
<1>2. pc' \in [Threads -> PCs] /\ \A u \in Threads \ {t} : pc'[u] = pc[u]
  BY DEF Goto, PathOK
<1> QED BY <1>1, <1>2 DEF Moved, PathOK, Copies

LEMMA DoneMoves ==
    ASSUME PathOK, NEW t \in Threads, NEW l \in PCs, Done(t, l), At(t, l, NoDesc, NoCopy)
    PROVE  Moved(t) /\ pc'[t] = l /\ desc'[t] = NoDesc /\ copy'[t] = NoCopy
<1>1. pc'[t] = l /\ desc'[t] = NoDesc /\ copy'[t] = NoCopy
  BY DEF Goto, Done, PathOK
<1>2. pc' \in [Threads -> PCs] /\ \A u \in Threads \ {t} : pc'[u] = pc[u]
  BY DEF Done, Goto, PathOK
<1>3. /\ desc' \in [Threads -> Descs \cup {NoDesc}]
      /\ \A u \in Threads \ {t} : desc'[u] = desc[u]
  BY DEF Done, PathOK
<1>4. copy' \in [Threads -> Copies] /\ \A u \in Threads \ {t} : copy'[u] = copy[u]
  BY DescFacts DEF Done, PathOK, Copies
<1> QED BY <1>1, <1>2, <1>3, <1>4 DEF Moved

LEMMA DescMoves ==
    ASSUME PathOK, NEW t \in Threads, NEW l \in PCs, NEW d \in Descs, Goto(t, l),
           desc' = [desc EXCEPT ![t] = d], copy' = copy, At(t, l, d, copy[t])
    PROVE  Moved(t) /\ pc'[t] = l /\ desc'[t] = d /\ copy'[t] = copy[t]
<1>1. pc'[t] = l /\ desc'[t] = d /\ copy'[t] = copy[t]
  BY DEF Goto, PathOK
<1>2. pc' \in [Threads -> PCs] /\ \A u \in Threads \ {t} : pc'[u] = pc[u]
  BY DEF Goto, PathOK
<1>3. /\ desc' \in [Threads -> Descs \cup {NoDesc}]
      /\ \A u \in Threads \ {t} : desc'[u] = desc[u]
  BY DEF PathOK
<1> QED BY <1>1, <1>2, <1>3 DEF Moved, PathOK, Copies

LEMMA CopyMoves ==
    ASSUME PathOK, NEW t \in Threads, NEW l \in PCs, NEW c \in Copies, Goto(t, l),
           desc' = desc, copy' = [copy EXCEPT ![t] = c], At(t, l, desc[t], c)
    PROVE  Moved(t) /\ pc'[t] = l /\ desc'[t] = desc[t] /\ copy'[t] = c
<1>1. pc'[t] = l /\ desc'[t] = desc[t] /\ copy'[t] = c
  BY DEF Goto, PathOK, Copies
<1>2. pc' \in [Threads -> PCs] /\ \A u \in Threads \ {t} : pc'[u] = pc[u]
  BY DEF Goto, PathOK
<1>3. copy' \in [Threads -> Copies] /\ \A u \in Threads \ {t} : copy'[u] = copy[u]
  BY DEF PathOK, Copies
<1> QED BY <1>1, <1>2, <1>3 DEF Moved, PathOK

\* A thread that is done has nothing left.
LEMMA DoneHasNothing ==
    ASSUME NEW t \in Threads, NEW l \in Resting, pc'[t] = l, desc'[t] = NoDesc, copy'[t] = NoCopy
    PROVE  (\A k \in Kinds : Held(t, k)' = NoLoc) /\ ~Carries(t)' /\ Keeps(t, Kinds)
<1>1. \A k \in Kinds : Held(t, k)' = NoLoc
  BY DescFacts DEF Held, Has, Kinds
<1>2. ~Carries(t)'
  BY DEF Carries
<1> QED BY <1>1, <1>2 DEF Keeps

\* A thread that goes on with its descriptor keeps no slot that it had left behind.
LEMMA GotoKeeps ==
    ASSUME NEW t \in Threads, NEW l, pc'[t] = l, desc'[t] = desc[t], copy'[t] = copy[t],
           pc[t] \in HeaderGone => l \in HeaderGone,
           pc[t] \in BodyGone => l \in BodyGone,
           pc[t] = "rxUndoHeader" => l = "rxUndoHeader",
           l \notin Resting \cup Dropping => Carries(t)
    PROVE  Keeps(t, Kinds)
<1>1. \A k \in Kinds : Held(t, k)' # NoLoc => Held(t, k)' = Held(t, k)
  BY DEF Held, Has, Kinds
<1>2. Carries(t)' => Carries(t)
  BY DEF Carries
<1> QED BY <1>1, <1>2 DEF Keeps

(***************************************************************************)
(* Each action is such a step: the workers.                                *)
(***************************************************************************)

LEMMA WorkerFacts ==
    ASSUME ThreadInv, NEW w \in Workers
    PROVE  w \in Threads /\ WorkerAt(w, pc[w], desc[w], copy[w])
  BY Names DEF ThreadInv, At

LEMMA WorkerMoves ==
    ASSUME NEW w \in Workers, NEW l, NEW d, NEW c PROVE At(w, l, d, c) <=> WorkerAt(w, l, d, c)
  BY Names DEF At

\* A worker that fails is idle or dead.
LEMMA WorkerFails ==
    ASSUME PathOK, ThreadInv, NEW w \in Workers, Failed(w)
    PROVE  Moved(w) /\ Keeps(w, Kinds) /\ \A k \in Kinds : Held(w, k)' = NoLoc
<1>1. PICK l \in {"idle", "dead"} : Done(w, l)
  BY DEF Failed
<1>2. At(w, l, NoDesc, NoCopy) /\ l \in PCs /\ l \in Resting
  BY <1>1, WorkerMoves DEF WorkerAt, PCs, Resting
<1>3. w \in Threads
  BY WorkerFacts
<1>4. Moved(w) /\ pc'[w] = l /\ desc'[w] = NoDesc /\ copy'[w] = NoCopy
  BY <1>1, <1>2, <1>3, DoneMoves
<1> QED BY <1>2, <1>3, <1>4, DoneHasNothing

LEMMA StepAllocHeader ==
    ASSUME PathOK, ThreadInv, NEW w \in Workers, AllocHeader(w) PROVE StepOf(w)
<1> DEFINE p == <<"txHeader", ServiceOf[w]>>
           s == FirstFree(p)
           d == [desc[w] EXCEPT !.header = s]
<1>0. /\ w \in Threads /\ p \in Pools /\ pc[w] = "allocHeader" /\ desc[w] \in Descs
      /\ desc[w].body = NoLoc /\ desc[w].src = w /\ copy[w] = NoCopy /\ ring' = ring
  BY WorkerFacts, PoolNames DEF AllocHeader, WorkerAt
<1>1. CASE PoolFull(p)
  <2>1. Failed(w) /\ buf' = buf
    BY <1>1 DEF AllocHeader
  <2> QED BY <1>0, <2>1, WorkerFails DEF StepOf, KeepStep
<1>2. CASE ~PoolFull(p)
  <2>1. s \in Locs /\ buf[s] = Free /\ s # NoLoc
    BY <1>0, <1>2, FirstFreeIsFree, DataPathNames DEF NoLoc
  <2>2. AllocWrite(p, desc[w].msg) /\ desc' = [desc EXCEPT ![w] = d]
        /\ Goto(w, "allocBody") /\ copy' = copy
    BY <1>2 DEF AllocHeader
  <2> HIDE DEF p, s
  <2>3. /\ d \in Descs /\ d.header = s /\ d.body = NoLoc /\ d.src = w
        /\ d.msg = desc[w].msg /\ d.msg \in Messages
    BY <1>0, <2>1 DEF Descs
  <2> HIDE DEF d
  <2>4. At(w, "allocBody", d, copy[w]) /\ "allocBody" \in PCs
    BY <1>0, <2>1, <2>3, WorkerMoves DEF WorkerAt, PCs
  <2>5. Moved(w) /\ pc'[w] = "allocBody" /\ desc'[w] = d /\ copy'[w] = NoCopy
    <3>1. w \in Threads /\ d \in Descs /\ copy[w] = NoCopy
      BY <1>0, <2>3
    <3> QED BY <2>2, <2>4, <3>1, DescMoves
  <2>6. Held(w, "header")' = s /\ Keeps(w, Kinds \ {"header"})
    BY <1>0, <2>3, <2>5, DescFacts
       DEF Keeps, Kinds, Has, Held, HeaderGone, BodyGone, Carries, Resting, Dropping
  <2>7. buf' = [buf EXCEPT ![s] = desc[w].msg]
    BY <2>2 DEF AllocWrite, s
  <2> QED BY <1>0, <2>1, <2>3, <2>5, <2>6, <2>7 DEF StepOf, AllocStep, Kinds
<1> QED BY <1>1, <1>2

LEMMA StepAllocBody ==
    ASSUME PathOK, ThreadInv, NEW w \in Workers, AllocBody(w) PROVE StepOf(w)
<1> DEFINE p == <<"txBody", ServiceOf[w]>>
           s == FirstFree(p)
           d == [desc[w] EXCEPT !.body = s]
           l == IF desc[w].msg \in TooBig THEN "undoHeader" ELSE "putTx"
<1>0. /\ w \in Threads /\ p \in Pools /\ pc[w] = "allocBody" /\ desc[w] \in Descs
      /\ desc[w].body = NoLoc /\ desc[w].header # NoLoc /\ desc[w].src = w /\ copy[w] = NoCopy
      /\ ring' = ring
  BY WorkerFacts, PoolNames DEF AllocBody, WorkerAt
<1>1. CASE PoolFull(p)
  <2>1. Goto(w, "undoHeader") /\ UNCHANGED <<desc, copy>> /\ buf' = buf
    BY <1>1 DEF AllocBody
  <2>2. At(w, "undoHeader", desc[w], copy[w]) /\ "undoHeader" \in PCs
    BY <1>0, WorkerMoves DEF WorkerAt, PCs
  <2>3. Moved(w) /\ pc'[w] = "undoHeader" /\ desc'[w] = desc[w] /\ copy'[w] = copy[w]
    BY <1>0, <2>1, <2>2, GotoMoves
  <2>4. Keeps(w, Kinds)
    BY <1>0, <2>3, GotoKeeps DEF HeaderGone, BodyGone, Dropping
  <2> QED BY <1>0, <2>1, <2>3, <2>4 DEF StepOf, KeepStep
<1>2. CASE ~PoolFull(p)
  <2>1. s \in Locs /\ buf[s] = Free /\ s # NoLoc
    BY <1>0, <1>2, FirstFreeIsFree, DataPathNames DEF NoLoc
  <2>2. AllocWrite(p, desc[w].msg) /\ desc' = [desc EXCEPT ![w] = d] /\ Goto(w, l) /\ copy' = copy
    BY <1>2 DEF AllocBody
  <2> HIDE DEF p, s
  <2>3. /\ d \in Descs /\ d.header = desc[w].header /\ d.body = s /\ d.src = w
        /\ d.msg = desc[w].msg /\ d.msg \in Messages
    BY <1>0, <2>1 DEF Descs
  <2> HIDE DEF d
  <2>4. At(w, l, d, copy[w]) /\ l \in {"undoHeader", "putTx"} /\ l \in PCs
    BY <1>0, <2>1, <2>3, WorkerMoves DEF WorkerAt, PCs
  <2> HIDE DEF l
  <2>5. Moved(w) /\ pc'[w] = l /\ desc'[w] = d /\ copy'[w] = NoCopy
    BY <1>0, <2>2, <2>3, <2>4, DescMoves
  <2>6. Held(w, "body")' = s /\ Keeps(w, Kinds \ {"body"})
    BY <1>0, <2>3, <2>4, <2>5, DescFacts
       DEF Keeps, Kinds, Has, Held, HeaderGone, BodyGone, Carries, Resting, Dropping
  <2>7. buf' = [buf EXCEPT ![s] = desc[w].msg]
    BY <2>2 DEF AllocWrite, s
  <2> QED BY <1>0, <2>1, <2>3, <2>5, <2>6, <2>7 DEF StepOf, AllocStep, Kinds
<1> QED BY <1>1, <1>2

LEMMA StepPutTx ==
    ASSUME PathOK, ThreadInv, NEW w \in Workers, PutTx(w) PROVE StepOf(w)
<1> DEFINE q == <<"tx", w>>
<1>0. /\ w \in Threads /\ q \in Rings /\ pc[w] = "putTx" /\ desc[w] \in Descs
      /\ desc[w].body # NoLoc /\ desc[w].header # NoLoc /\ desc[w].src = w /\ copy[w] = NoCopy
      /\ buf' = buf
  BY WorkerFacts, Names DEF PutTx, WorkerAt
<1>1. CASE RingFull(q)
  <2>1. Goto(w, "undoHeader") /\ UNCHANGED <<desc, copy>> /\ ring' = ring
    BY <1>1 DEF PutTx
  <2>2. At(w, "undoHeader", desc[w], copy[w]) /\ "undoHeader" \in PCs
    BY <1>0, WorkerMoves DEF WorkerAt, PCs
  <2>3. Moved(w) /\ pc'[w] = "undoHeader" /\ desc'[w] = desc[w] /\ copy'[w] = copy[w]
    BY <1>0, <2>1, <2>2, GotoMoves
  <2>4. Keeps(w, Kinds)
    BY <1>0, <2>3, GotoKeeps DEF HeaderGone, BodyGone, Dropping
  <2> QED BY <1>0, <2>1, <2>3, <2>4 DEF StepOf, KeepStep
<1>2. CASE ~RingFull(q)
  <2>1. Put(q, desc[w]) /\ Done(w, "idle")
    BY <1>2 DEF PutTx
  <2>2. At(w, "idle", NoDesc, NoCopy) /\ "idle" \in PCs /\ "idle" \in Resting
    BY WorkerMoves DEF WorkerAt, PCs, Resting
  <2>3. Moved(w) /\ (\A k \in Kinds : Held(w, k)' = NoLoc) /\ ~Carries(w)'
    BY <1>0, <2>1, <2>2, DoneMoves, DoneHasNothing
  <2>4. InRing(q, desc[w]) /\ Carries(w)
    BY <1>0 DEF InRing, Carries, Resting, Dropping
  <2>5. Held(w, "header") = desc[w].header /\ Held(w, "body") = desc[w].body
    BY <1>0 DEF Held, Has, HeaderGone, BodyGone
  <2> QED BY <1>0, <1>2, <2>1, <2>3, <2>4, <2>5 DEF StepOf, PutStep
<1> QED BY <1>1, <1>2

LEMMA StepUndoHeader ==
    ASSUME PathOK, ThreadInv, NEW w \in Workers, UndoHeader(w) PROVE StepOf(w)
<1>0. /\ w \in Threads /\ pc[w] = "undoHeader" /\ desc[w] \in Descs /\ desc[w].src = w
      /\ copy[w] = NoCopy /\ FreeSlot(desc[w].header) /\ ring' = ring
      /\ Held(w, "header") = desc[w].header
  BY WorkerFacts DEF UndoHeader, WorkerAt, Held, Has, HeaderGone
<1>1. CASE desc[w].body = NoLoc
  <2>1. Failed(w)
    BY <1>1 DEF UndoHeader
  <2> QED BY <1>0, <2>1, WorkerFails DEF StepOf, FreeStep, Kinds
<1>2. CASE desc[w].body # NoLoc
  <2>1. Goto(w, "undoBody") /\ UNCHANGED <<desc, copy>>
    BY <1>2 DEF UndoHeader
  <2>2. At(w, "undoBody", desc[w], copy[w]) /\ "undoBody" \in PCs
    BY <1>0, WorkerMoves DEF WorkerAt, PCs
  <2>3. Moved(w) /\ pc'[w] = "undoBody" /\ desc'[w] = desc[w] /\ copy'[w] = copy[w]
    BY <1>0, <2>1, <2>2, GotoMoves
  <2>4. Keeps(w, Kinds) /\ Held(w, "header")' = NoLoc
    BY <1>0, <2>3, GotoKeeps DEF HeaderGone, BodyGone, Dropping, Held, Has
  <2> QED BY <1>0, <2>3, <2>4 DEF StepOf, FreeStep, Kinds
<1> QED BY <1>1, <1>2

LEMMA StepUndoBody ==
    ASSUME PathOK, ThreadInv, NEW w \in Workers, UndoBody(w) PROVE StepOf(w)
<1>1. /\ pc[w] = "undoBody" /\ FreeSlot(desc[w].body) /\ Failed(w) /\ ring' = ring
      /\ Held(w, "body") = desc[w].body
  BY DEF UndoBody, Held, Has, BodyGone
<1> QED BY <1>1, WorkerFails DEF StepOf, FreeStep, Kinds

\* A thread that takes a descriptor off a ring.
LEMMA GetMoves ==
    ASSUME PathOK, ThreadInv, NEW t \in Threads, NEW q \in Rings, NEW l \in PCs, Get(t, q), Goto(t, l),
           copy' = copy, buf' = buf, copy[t] = NoCopy, At(t, l, ring[q][1], NoCopy)
    PROVE  StepOf(t)
<1>1. desc' = [desc EXCEPT ![t] = ring[q][1]] /\ ring[q][1] \in Descs
  BY GetFacts
<1>2. Moved(t) /\ copy'[t] = NoCopy
  BY <1>1, DescMoves
<1> QED BY <1>2 DEF StepOf, GetStep

LEMMA FirstInRing ==
    ASSUME PathOK, RingInv, NEW q \in Rings, ring[q] # <<>>
    PROVE  InRing(q, ring[q][1]) /\ ring[q][1] \in Descs /\ Head(ring[q]) = ring[q][1]
<1>1. 1 \in 1 .. Len(ring[q]) /\ Head(ring[q]) = ring[q][1] /\ ring[q][1] \in Descs
  <2>1. ring[q] \in Seq(Descs)
    BY DEF PathOK
  <2> QED BY <2>1
<1> QED BY <1>1 DEF RingInv

LEMMA StepTakeRx ==
    ASSUME PathOK, ThreadInv, RingInv, NEW w \in Workers, TakeRx(w) PROVE StepOf(w)
<1> DEFINE q == <<"rx", w>>
           l == IF Case2(Head(ring[q])) THEN "readBody" ELSE "readHeader"
<1>1. /\ w \in Threads /\ q \in Rings /\ Get(w, q) /\ Goto(w, l) /\ copy' = copy /\ buf' = buf
      /\ pc[w] = "idle" /\ ring[q] # <<>>
  BY Names DEF TakeRx, Get
<1>2. copy[w] = NoCopy
  BY WorkerFacts DEF WorkerAt
<1>3. ForWorker(ring[q][1].msg, w) /\ ring[q][1] \in Descs
  BY <1>1, FirstInRing DEF InRing
<1>4. l \in {"readBody", "readHeader"}
  OBVIOUS
<1> HIDE DEF l
<1>5. At(w, l, ring[q][1], NoCopy) /\ l \in PCs
  BY <1>3, <1>4, WorkerMoves DEF WorkerAt, PCs
<1> QED BY <1>1, <1>2, <1>5, GetMoves

LEMMA StepReadHeader ==
    ASSUME PathOK, ThreadInv, NEW w \in Workers, ReadHeader(w) PROVE StepOf(w)
<1>0. /\ w \in Threads /\ pc[w] = "readHeader" /\ desc[w] \in Descs /\ ForWorker(desc[w].msg, w)
      /\ copy[w] = NoCopy /\ FreeSlot(desc[w].header) /\ ring' = ring
      /\ Held(w, "header") = desc[w].header
  BY WorkerFacts DEF ReadHeader, WorkerAt, Held, Has, HeaderGone
<1>1. Goto(w, "readBody") /\ UNCHANGED <<desc, copy>>
  BY DEF ReadHeader
<1>2. At(w, "readBody", desc[w], copy[w]) /\ "readBody" \in PCs
  BY <1>0, WorkerMoves DEF WorkerAt, PCs
<1>3. Moved(w) /\ pc'[w] = "readBody" /\ desc'[w] = desc[w] /\ copy'[w] = copy[w]
  BY <1>0, <1>1, <1>2, GotoMoves
<1>4. Keeps(w, Kinds) /\ Held(w, "header")' = NoLoc
  BY <1>0, <1>3, GotoKeeps DEF HeaderGone, BodyGone, Dropping, Resting, Carries, Held, Has
<1> QED BY <1>0, <1>3, <1>4 DEF StepOf, FreeStep, Kinds

LEMMA StepReadBody ==
    ASSUME PathOK, ThreadInv, NEW w \in Workers, ReadBody(w) PROVE StepOf(w)
<1>1. /\ w \in Threads /\ pc[w] = "readBody" /\ FreeSlot(desc[w].body) /\ Done(w, "idle")
      /\ ring' = ring /\ Held(w, "body") = desc[w].body
  BY Names DEF ReadBody, Held, Has, BodyGone
<1>2. At(w, "idle", NoDesc, NoCopy) /\ "idle" \in PCs /\ "idle" \in Resting
  BY WorkerMoves DEF WorkerAt, PCs, Resting
<1>3. Moved(w) /\ (\A k \in Kinds : Held(w, k)' = NoLoc) /\ Keeps(w, Kinds)
  BY <1>1, <1>2, DoneMoves, DoneHasNothing
<1> QED BY <1>1, <1>3 DEF StepOf, FreeStep, Kinds

(***************************************************************************)
(* Each action is such a step: DPA-TX-Poll.                                *)
(***************************************************************************)

LEMMA TxFacts ==
    ASSUME ThreadInv
    PROVE  DpaTx \in Threads /\ TxAt(pc[DpaTx], desc[DpaTx], copy[DpaTx])
  BY Names, DataPathNames DEF ThreadInv, At

LEMMA TxMoves ==
    ASSUME NEW l, NEW d, NEW c PROVE At(DpaTx, l, d, c) <=> TxAt(l, d, c)
  BY Names, DataPathNames DEF At

\* A thread that is done and idle: At(...) says nothing else of it.
LEMMA TxDone ==
    ASSUME PathOK, Done(DpaTx, "idle")
    PROVE  /\ Moved(DpaTx) /\ (\A k \in Kinds : Held(DpaTx, k)' = NoLoc)
           /\ ~Carries(DpaTx)' /\ Keeps(DpaTx, Kinds)
<1>1. DpaTx \in Threads /\ At(DpaTx, "idle", NoDesc, NoCopy) /\ "idle" \in PCs /\ "idle" \in Resting
  BY TxMoves, Names DEF TxAt, PCs, Resting
<1> QED BY <1>1, DoneMoves, DoneHasNothing

LEMMA StepTxGet ==
    ASSUME PathOK, ThreadInv, RingInv, NEW w \in Workers, TxGet(w) PROVE StepOf(DpaTx)
<1> DEFINE q == <<"tx", w>>
<1>1. /\ q \in Rings /\ Get(DpaTx, q) /\ Goto(DpaTx, "txCopy") /\ copy' = copy /\ buf' = buf
      /\ pc[DpaTx] = "idle" /\ ring[q] # <<>>
  BY Names DEF TxGet, Get
<1>2. DpaTx \in Threads /\ copy[DpaTx] = NoCopy
  BY <1>1, TxFacts DEF TxAt
<1>3. InRing(q, ring[q][1]) /\ ring[q][1] \in Descs
  BY <1>1, FirstInRing
<1>4. At(DpaTx, "txCopy", ring[q][1], NoCopy) /\ "txCopy" \in PCs
  BY <1>3, TxMoves, DescFacts DEF TxAt, PCs, InRing
<1> QED BY <1>1, <1>2, <1>4, GetMoves

LEMMA StepTxCopy ==
    ASSUME PathOK, ThreadInv, HoldInv, TxCopy PROVE StepOf(DpaTx)
<1> DEFINE t == DpaTx
           p == <<"txHeader", Dpu>>
           s == FirstFree(p)
           c == [copy[t] EXCEPT !.header = s]
<1>0. /\ t \in Threads /\ p \in Pools /\ pc[t] = "txCopy" /\ desc[t] \in Descs
      /\ desc[t].header # NoLoc /\ desc[t].body # NoLoc /\ desc[t].src \in Workers
      /\ copy[t] = NoCopy /\ ring' = ring
  BY TxFacts, PoolNames DEF TxCopy, TxAt
<1>1. CASE PoolFull(p)
  <2>1. Goto(t, "txRequeue") /\ UNCHANGED <<desc, copy>> /\ buf' = buf
    BY <1>1 DEF TxCopy
  <2>2. At(t, "txRequeue", desc[t], copy[t]) /\ "txRequeue" \in PCs
    BY <1>0, TxMoves, DescFacts DEF TxAt, PCs
  <2>3. Moved(t) /\ pc'[t] = "txRequeue" /\ desc'[t] = desc[t] /\ copy'[t] = copy[t]
    BY <1>0, <2>1, <2>2, GotoMoves
  <2>4. Keeps(t, Kinds)
    BY <1>0, <2>3, GotoKeeps DEF HeaderGone, BodyGone, Dropping, Resting, Carries
  <2> QED BY <1>0, <2>1, <2>3, <2>4 DEF StepOf, KeepStep
<1>2. CASE ~PoolFull(p)
  <2>1. s \in Locs /\ buf[s] = Free /\ s # NoLoc
    BY <1>0, <1>2, FirstFreeIsFree, DataPathNames DEF NoLoc
  <2>2. AllocWrite(p, buf[desc[t].header]) /\ copy' = [copy EXCEPT ![t] = c]
        /\ Goto(t, "txFree") /\ desc' = desc
    BY <1>2 DEF TxCopy
  <2>3. buf[desc[t].header] = desc[t].msg
    <3>1. Held(t, "header") = desc[t].header /\ "header" \in Kinds
      BY <1>0 DEF Held, Has, HeaderGone, Kinds
    <3> QED BY <1>0, <3>1 DEF HoldInv, HeldHolds
  <2> HIDE DEF p, s
  <2>4. c \in Copies /\ c.header = s /\ c.body = NoLoc
    BY <1>0, <2>1 DEF Copies, NoCopy
  <2> HIDE DEF c
  <2>5. At(t, "txFree", desc[t], c) /\ "txFree" \in PCs
    BY <1>0, <2>1, <2>4, TxMoves DEF TxAt, PCs
  <2>6. Moved(t) /\ pc'[t] = "txFree" /\ desc'[t] = desc[t] /\ copy'[t] = c
    BY <1>0, <2>2, <2>4, <2>5, CopyMoves
  <2>7. Held(t, "newHeader")' = s /\ Keeps(t, Kinds \ {"newHeader"})
    BY <1>0, <2>4, <2>6, DescFacts
       DEF Keeps, Kinds, Has, Held, HeaderGone, BodyGone, Carries, Resting, Dropping
  <2>8. buf' = [buf EXCEPT ![s] = desc[t].msg] /\ desc[t].msg \in Messages
    BY <1>0, <2>2, <2>3, DescFacts DEF AllocWrite, s
  <2> QED BY <1>0, <2>1, <2>6, <2>7, <2>8 DEF StepOf, AllocStep, Kinds
<1> QED BY <1>1, <1>2

LEMMA StepTxRequeue ==
    ASSUME PathOK, ThreadInv, TxRequeue PROVE StepOf(DpaTx)
<1> DEFINE t == DpaTx
           q == <<"tx", desc[t].src>>
<1>0. /\ t \in Threads /\ q \in Rings /\ pc[t] = "txRequeue" /\ desc[t] \in Descs
      /\ desc[t].header # NoLoc /\ desc[t].body # NoLoc /\ desc[t].src \in Workers
      /\ buf' = buf /\ Done(t, "idle")
  BY TxFacts, Names DEF TxRequeue, TxAt
<1>1. /\ Moved(t) /\ (\A k \in Kinds : Held(t, k)' = NoLoc) /\ ~Carries(t)' /\ Keeps(t, Kinds)
  BY <1>0, TxDone
<1>2. CASE RingFull(q)
  BY <1>0, <1>1, <1>2 DEF TxRequeue, StepOf, KeepStep
<1>3. CASE ~RingFull(q)
  <2>1. Put(q, desc[t])
    BY <1>3 DEF TxRequeue
  <2>2. InRing(q, desc[t]) /\ Carries(t)
    BY <1>0 DEF InRing, Carries, Resting, Dropping
  <2>3. Held(t, "header") = desc[t].header /\ Held(t, "body") = desc[t].body
    BY <1>0 DEF Held, Has, HeaderGone, BodyGone
  <2> QED BY <1>0, <1>1, <1>3, <2>1, <2>2, <2>3 DEF StepOf, PutStep
<1> QED BY <1>2, <1>3

LEMMA StepTxFree ==
    ASSUME PathOK, ThreadInv, TxFree PROVE StepOf(DpaTx)
<1> DEFINE t == DpaTx
<1>0. /\ t \in Threads /\ pc[t] = "txFree" /\ TxAt("txFree", desc[t], copy[t])
      /\ FreeSlot(desc[t].header) /\ ring' = ring /\ Held(t, "header") = desc[t].header
  BY TxFacts DEF TxFree, Held, Has, HeaderGone
<1>1. Goto(t, "txPut") /\ UNCHANGED <<desc, copy>>
  BY DEF TxFree
<1>2. At(t, "txPut", desc[t], copy[t]) /\ "txPut" \in PCs
  BY <1>0, TxMoves DEF TxAt, PCs
<1>3. Moved(t) /\ pc'[t] = "txPut" /\ desc'[t] = desc[t] /\ copy'[t] = copy[t]
  BY <1>0, <1>1, <1>2, GotoMoves
<1>4. Keeps(t, Kinds) /\ Held(t, "header")' = NoLoc
  BY <1>0, <1>3, GotoKeeps DEF HeaderGone, BodyGone, Dropping, Resting, Carries, Held, Has
<1> QED BY <1>0, <1>3, <1>4 DEF StepOf, FreeStep, Kinds

LEMMA StepTxPut ==
    ASSUME PathOK, ThreadInv, TxPut PROVE StepOf(DpaTx)
<1> DEFINE t == DpaTx
           q == <<"tx", Dpu>>
           d == [desc[t] EXCEPT !.header = copy[t].header]
<1>0. /\ t \in Threads /\ q \in Rings /\ pc[t] = "txPut" /\ desc[t] \in Descs
      /\ desc[t].header # NoLoc /\ desc[t].body # NoLoc /\ desc[t].src \in Workers
      /\ copy[t].header # NoLoc /\ copy[t].body = NoLoc /\ copy[t] \in Copies
      /\ buf' = buf
  BY TxFacts, Names DEF TxPut, TxAt, PathOK, Copies
<1>1. CASE RingFull(q)
  <2>1. Goto(t, "txUndo") /\ UNCHANGED <<desc, copy>> /\ ring' = ring
    BY <1>1 DEF TxPut
  <2>2. At(t, "txUndo", desc[t], copy[t]) /\ "txUndo" \in PCs
    BY <1>0, TxMoves DEF TxAt, PCs
  <2>3. Moved(t) /\ pc'[t] = "txUndo" /\ desc'[t] = desc[t] /\ copy'[t] = copy[t]
    BY <1>0, <2>1, <2>2, GotoMoves
  <2>4. Keeps(t, Kinds)
    BY <1>0, <2>3, GotoKeeps DEF HeaderGone, BodyGone, Dropping, Resting, Carries
  <2> QED BY <1>0, <2>1, <2>3, <2>4 DEF StepOf, KeepStep
<1>2. CASE ~RingFull(q)
  <2>1. Put(q, d) /\ Done(t, "idle")
    BY <1>2 DEF TxPut
  <2>2. /\ d \in Descs /\ d.header = copy[t].header /\ d.body = desc[t].body /\ d.src = desc[t].src
        /\ d.msg = desc[t].msg
    BY <1>0 DEF Descs, Copies
  <2> HIDE DEF d
  <2>3. Moved(t) /\ (\A k \in Kinds : Held(t, k)' = NoLoc) /\ ~Carries(t)'
    BY <2>1, TxDone
  <2>4. InRing(q, d) /\ Carries(t)
    BY <1>0, <2>2, DataPathNames DEF InRing, Carries, Resting, Dropping
  <2>5. Held(t, "newHeader") = d.header /\ Held(t, "body") = d.body
    BY <1>0, <2>2 DEF Held, Has, HeaderGone, BodyGone
  <2> QED BY <1>0, <1>2, <2>1, <2>2, <2>3, <2>4, <2>5 DEF StepOf, PutStep
<1> QED BY <1>1, <1>2

LEMMA StepTxUndo ==
    ASSUME PathOK, ThreadInv, TxUndo PROVE StepOf(DpaTx)
<1>1. /\ FreeSlot(copy[DpaTx].header) /\ Done(DpaTx, "idle") /\ ring' = ring
      /\ Held(DpaTx, "newHeader") = copy[DpaTx].header
  BY DEF TxUndo, Held, Has
<1>2. Moved(DpaTx) /\ (\A k \in Kinds : Held(DpaTx, k)' = NoLoc) /\ Keeps(DpaTx, Kinds)
  BY <1>1, TxDone
<1> QED BY <1>1, <1>2 DEF StepOf, FreeStep, Kinds

(***************************************************************************)
(* Each action is such a step: ARM-TX-Poll.                                *)
(***************************************************************************)

LEMMA ArmFacts ==
    ASSUME ThreadInv
    PROVE  Arm \in Threads /\ ArmAt(pc[Arm], desc[Arm], copy[Arm])
  BY Names, DataPathNames DEF ThreadInv, At

LEMMA ArmMoves ==
    ASSUME NEW l, NEW d, NEW c PROVE At(Arm, l, d, c) <=> ArmAt(l, d, c)
  BY Names, DataPathNames DEF At

LEMMA ArmDone ==
    ASSUME PathOK, Done(Arm, "idle")
    PROVE  /\ Moved(Arm) /\ (\A k \in Kinds : Held(Arm, k)' = NoLoc)
           /\ ~Carries(Arm)' /\ Keeps(Arm, Kinds)
<1>1. Arm \in Threads /\ At(Arm, "idle", NoDesc, NoCopy) /\ "idle" \in PCs /\ "idle" \in Resting
  BY ArmMoves, Names DEF ArmAt, PCs, Resting
<1> QED BY <1>1, DoneMoves, DoneHasNothing

\* The ARM goes on with its descriptor.
LEMMA ArmGoes ==
    ASSUME PathOK, ThreadInv,
           NEW l \in {"cleanBody", "cleanHeader", "bridgeBody", "bridgeHeader", "bridgeNotify"},
           Goto(Arm, l), UNCHANGED <<desc, copy>>, pc[Arm] # "idle",
           l \in {"bridgeBody", "bridgeHeader", "bridgeNotify"} =>
                desc[Arm].msg[2] = "response" /\ desc[Arm].msg[1] \in Clients
    PROVE  Moved(Arm) /\ pc'[Arm] = l /\ desc'[Arm] = desc[Arm] /\ copy'[Arm] = copy[Arm]
<1>1. Arm \in Threads /\ ArmAt(pc[Arm], desc[Arm], copy[Arm])
  BY ArmFacts
<1>2. At(Arm, l, desc[Arm], copy[Arm]) /\ l \in PCs
  BY <1>1, ArmMoves DEF ArmAt, PCs
<1> QED BY <1>1, <1>2, GotoMoves

LEMMA StepArmGet ==
    ASSUME PathOK, ThreadInv, RingInv, ArmGet PROVE StepOf(Arm)
<1> DEFINE q == <<"tx", Dpu>>
<1>1. /\ q \in Rings /\ Get(Arm, q) /\ Goto(Arm, "route") /\ copy' = copy /\ buf' = buf
      /\ pc[Arm] = "idle" /\ ring[q] # <<>>
  BY Names DEF ArmGet, Get
<1>2. Arm \in Threads /\ copy[Arm] = NoCopy
  BY <1>1, ArmFacts DEF ArmAt
<1>3. InRing(q, ring[q][1]) /\ ring[q][1] \in Descs
  BY <1>1, FirstInRing
<1>4. At(Arm, "route", ring[q][1], NoCopy) /\ "route" \in PCs
  BY <1>3, ArmMoves DEF ArmAt, PCs, InRing
<1> QED BY <1>1, <1>2, <1>4, GetMoves

\* The message that the ARM reads off the header is that of its descriptor.
LEMMA RouteReads ==
    ASSUME PathOK, ThreadInv, HoldInv, pc[Arm] = "route"
    PROVE  /\ Arm \in Threads /\ desc[Arm] \in Descs /\ desc[Arm].header # NoLoc
           /\ desc[Arm].body # NoLoc /\ copy[Arm] = NoCopy
           /\ buf[desc[Arm].header] = desc[Arm].msg
<1>1. /\ Arm \in Threads /\ desc[Arm] \in Descs /\ desc[Arm].header # NoLoc
      /\ desc[Arm].body # NoLoc /\ copy[Arm] = NoCopy
  BY ArmFacts DEF ArmAt
<1>2. Held(Arm, "header") = desc[Arm].header /\ "header" \in Kinds
  BY DEF Held, Has, HeaderGone, Kinds
<1> QED BY <1>1, <1>2 DEF HoldInv, HeldHolds

LEMMA StepRoute ==
    ASSUME PathOK, ThreadInv, HoldInv, Route PROVE StepOf(Arm)
<1> DEFINE m == desc[Arm].msg
<1>0. /\ Arm \in Threads /\ desc[Arm] \in Descs /\ desc[Arm].header # NoLoc
      /\ desc[Arm].body # NoLoc /\ copy[Arm] = NoCopy /\ buf[desc[Arm].header] = m
      /\ pc[Arm] = "route"
  BY RouteReads DEF Route
<1>1. m \in Messages /\ m[1] \in Requests /\ m[2] \in {"request", "response"}
  BY <1>0 DEF Descs, Messages
<1>2. /\ buf' = buf /\ ring' = ring /\ copy' = copy
  BY DEF Route
<1>3. ASSUME NEW l \in {"cleanBody", "bridgeBody"}, Goto(Arm, l), desc' = desc,
             l = "bridgeBody" => m[2] = "response" /\ m[1] \in Clients
      PROVE  StepOf(Arm)
  <2>1. Moved(Arm) /\ pc'[Arm] = l /\ desc'[Arm] = desc[Arm] /\ copy'[Arm] = copy[Arm]
    BY <1>0, <1>2, <1>3, ArmGoes
  <2>2. Keeps(Arm, Kinds)
    BY <1>0, <2>1, GotoKeeps DEF HeaderGone, BodyGone, Dropping, Resting, Carries
  <2> QED BY <1>2, <2>1, <2>2 DEF StepOf, KeepStep
<1>4. ASSUME NEW w \in Workers, Goto(Arm, "putRx"), desc' = [desc EXCEPT ![Arm].dst = w],
             ForWorker(m, w)
      PROVE  StepOf(Arm)
  <2> DEFINE d == [desc[Arm] EXCEPT !.dst = w]
  <2>1. desc' = [desc EXCEPT ![Arm] = d]
    BY <1>4
  <2>2. /\ d \in Descs /\ d.header = desc[Arm].header /\ d.body = desc[Arm].body /\ d.dst = w
        /\ d.msg = m
    BY <1>0 DEF Descs
  <2> HIDE DEF d
  <2>3. At(Arm, "putRx", d, copy[Arm]) /\ "putRx" \in PCs
    BY <1>0, <1>4, <2>2, ArmMoves DEF ArmAt, PCs
  <2>4. Moved(Arm) /\ pc'[Arm] = "putRx" /\ desc'[Arm] = d /\ copy'[Arm] = copy[Arm]
    BY <1>0, <1>2, <1>4, <2>1, <2>2, <2>3, DescMoves
  <2>5. Keeps(Arm, Kinds)
    BY <1>0, <2>2, <2>4, DescFacts
       DEF Keeps, Kinds, Has, Held, HeaderGone, BodyGone, Carries, Resting, Dropping
  <2> QED BY <1>2, <2>4, <2>5 DEF StepOf, KeepStep
<1>5. CASE m[2] = "request" /\ WorkersOf[Target[m[1]]] = <<>>
  <2>1. Goto(Arm, "cleanBody") /\ desc' = desc
    BY <1>0, <1>5, Zenon DEF Route
  <2> QED BY <2>1, <1>3
<1>6. CASE m[2] = "request" /\ WorkersOf[Target[m[1]]] # <<>>
  <2> DEFINE s == Target[m[1]]
  <2>1. Goto(Arm, "putRx") /\ desc' = [desc EXCEPT ![Arm].dst = Selected(s)]
    BY <1>0, <1>6, Zenon DEF Route
  <2>2. s \in Services
    BY <1>1, DataPathAssumption
  <2>3. Selected(s) \in Workers /\ ServiceOf[Selected(s)] = s
    BY <1>6, <2>2, SelectedFacts
  <2>4. ForWorker(m, Selected(s))
    BY <1>6, <2>3 DEF ForWorker
  <2> QED BY <2>1, <2>3, <2>4, <1>4
<1>7. CASE m[2] # "request" /\ Origin[m[1]] = Bridge
  <2>1. Goto(Arm, "bridgeBody") /\ desc' = desc
    BY <1>0, <1>7, Zenon DEF Route
  <2>2. m[2] = "response" /\ m[1] \in Clients
    BY <1>1, <1>7 DEF Clients
  <2> QED BY <2>1, <2>2, <1>3
<1>8. CASE m[2] # "request" /\ Origin[m[1]] # Bridge
  <2>1. Goto(Arm, "putRx") /\ desc' = [desc EXCEPT ![Arm].dst = Origin[m[1]]]
    BY <1>0, <1>8, Zenon DEF Route
  <2>2. Origin[m[1]] \in Workers
    BY <1>1, <1>8, DataPathAssumption
  <2>3. ForWorker(m, Origin[m[1]])
    BY <1>8 DEF ForWorker
  <2> QED BY <2>1, <2>2, <2>3, <1>4
<1> QED BY <1>5, <1>6, <1>7, <1>8

LEMMA StepPutRx ==
    ASSUME PathOK, ThreadInv, PutRx PROVE StepOf(Arm)
<1> DEFINE q == <<"rx", Dpu>>
<1>0. /\ Arm \in Threads /\ q \in Rings /\ pc[Arm] = "putRx" /\ desc[Arm] \in Descs
      /\ desc[Arm].header # NoLoc /\ desc[Arm].body # NoLoc /\ desc[Arm].dst \in Workers
      /\ ForWorker(desc[Arm].msg, desc[Arm].dst) /\ buf' = buf
  BY ArmFacts, Names DEF PutRx, ArmAt
<1>1. CASE RingFull(q)
  <2>1. Goto(Arm, "cleanBody") /\ UNCHANGED <<desc, copy>> /\ ring' = ring
    BY <1>1 DEF PutRx
  <2>2. Moved(Arm) /\ pc'[Arm] = "cleanBody" /\ desc'[Arm] = desc[Arm] /\ copy'[Arm] = copy[Arm]
    BY <1>0, <2>1, ArmGoes
  <2>3. Keeps(Arm, Kinds)
    BY <1>0, <2>2, GotoKeeps DEF HeaderGone, BodyGone, Dropping, Resting, Carries
  <2> QED BY <1>0, <2>1, <2>2, <2>3 DEF StepOf, KeepStep
<1>2. CASE ~RingFull(q)
  <2>1. Put(q, desc[Arm]) /\ Done(Arm, "idle")
    BY <1>2 DEF PutRx
  <2>2. Moved(Arm) /\ (\A k \in Kinds : Held(Arm, k)' = NoLoc) /\ ~Carries(Arm)'
    BY <2>1, ArmDone
  <2>3. InRing(q, desc[Arm]) /\ Carries(Arm)
    BY <1>0, DataPathNames DEF InRing, Carries, Resting, Dropping
  <2>4. Held(Arm, "header") = desc[Arm].header /\ Held(Arm, "body") = desc[Arm].body
    BY <1>0 DEF Held, Has, HeaderGone, BodyGone
  <2> QED BY <1>0, <1>2, <2>1, <2>2, <2>3, <2>4 DEF StepOf, PutStep
<1> QED BY <1>1, <1>2

LEMMA StepCleanBody ==
    ASSUME PathOK, ThreadInv, CleanBody PROVE StepOf(Arm)
<1>0. /\ Arm \in Threads /\ pc[Arm] = "cleanBody" /\ Goto(Arm, "cleanHeader") /\ UNCHANGED <<desc, copy>>
      /\ FreeSlot(desc[Arm].body) /\ ring' = ring /\ Held(Arm, "body") = desc[Arm].body
  BY Names DEF CleanBody, Held, Has, BodyGone
<1>1. Moved(Arm) /\ pc'[Arm] = "cleanHeader" /\ desc'[Arm] = desc[Arm] /\ copy'[Arm] = copy[Arm]
  BY <1>0, ArmGoes
<1>2. Keeps(Arm, Kinds) /\ Held(Arm, "body")' = NoLoc
  BY <1>0, <1>1, GotoKeeps DEF HeaderGone, BodyGone, Dropping, Held, Has
<1> QED BY <1>0, <1>1, <1>2 DEF StepOf, FreeStep, Kinds

LEMMA StepCleanHeader ==
    ASSUME PathOK, ThreadInv, CleanHeader PROVE StepOf(Arm)
<1>1. /\ FreeSlot(desc[Arm].header) /\ Done(Arm, "idle") /\ ring' = ring
      /\ Held(Arm, "header") = desc[Arm].header
  BY DEF CleanHeader, Held, Has, HeaderGone
<1>2. Moved(Arm) /\ (\A k \in Kinds : Held(Arm, k)' = NoLoc) /\ Keeps(Arm, Kinds)
  BY <1>1, ArmDone
<1> QED BY <1>1, <1>2 DEF StepOf, FreeStep, Kinds

LEMMA StepBridgeBody ==
    ASSUME PathOK, ThreadInv, BridgeBody PROVE StepOf(Arm)
<1>0. /\ Arm \in Threads /\ pc[Arm] = "bridgeBody" /\ Goto(Arm, "bridgeHeader") /\ UNCHANGED <<desc, copy>>
      /\ ring' = ring /\ Held(Arm, "body") = desc[Arm].body
      /\ desc[Arm].msg[2] = "response" /\ desc[Arm].msg[1] \in Clients
  BY ArmFacts DEF BridgeBody, Held, Has, BodyGone, ArmAt
<1>1. Moved(Arm) /\ pc'[Arm] = "bridgeHeader" /\ desc'[Arm] = desc[Arm] /\ copy'[Arm] = copy[Arm]
  BY <1>0, ArmGoes
<1>2. Keeps(Arm, Kinds) /\ Held(Arm, "body")' = NoLoc
  BY <1>0, <1>1, GotoKeeps DEF HeaderGone, BodyGone, Dropping, Resting, Carries, Held, Has
<1>3. CASE NoBody(desc[Arm])
  BY <1>0, <1>1, <1>2, <1>3 DEF BridgeBody, StepOf, KeepStep
<1>4. CASE ~NoBody(desc[Arm])
  <2>1. FreeSlot(desc[Arm].body)
    BY <1>4 DEF BridgeBody
  <2> QED BY <1>0, <1>1, <1>2, <2>1 DEF StepOf, FreeStep, Kinds
<1> QED BY <1>3, <1>4

LEMMA StepBridgeHeader ==
    ASSUME PathOK, ThreadInv, BridgeHeader PROVE StepOf(Arm)
<1>0. /\ Arm \in Threads /\ pc[Arm] = "bridgeHeader" /\ Goto(Arm, "bridgeNotify") /\ UNCHANGED <<desc, copy>>
      /\ ring' = ring /\ FreeSlot(desc[Arm].header) /\ Held(Arm, "header") = desc[Arm].header
      /\ desc[Arm].msg[2] = "response" /\ desc[Arm].msg[1] \in Clients
  BY ArmFacts DEF BridgeHeader, Held, Has, HeaderGone, ArmAt
<1>1. Moved(Arm) /\ pc'[Arm] = "bridgeNotify" /\ desc'[Arm] = desc[Arm] /\ copy'[Arm] = copy[Arm]
  BY <1>0, ArmGoes
<1>2. Keeps(Arm, Kinds) /\ Held(Arm, "header")' = NoLoc
  BY <1>0, <1>1, GotoKeeps DEF HeaderGone, BodyGone, Dropping, Resting, Carries, Held, Has
<1> QED BY <1>0, <1>1, <1>2 DEF StepOf, FreeStep, Kinds

LEMMA StepBridgeNotify ==
    ASSUME PathOK, ThreadInv, BridgeNotify PROVE StepOf(Arm)
<1>1. Done(Arm, "idle") /\ ring' = ring /\ buf' = buf
  BY DEF BridgeNotify
<1>2. Moved(Arm) /\ Keeps(Arm, Kinds)
  BY <1>1, ArmDone
<1> QED BY <1>1, <1>2 DEF StepOf, KeepStep

(***************************************************************************)
(* Each action is such a step: the clients' threads.                       *)
(***************************************************************************)

LEMMA ClientFacts ==
    ASSUME ThreadInv, NEW r \in Clients
    PROVE  r \in Threads /\ ClientAt(r, pc[r], desc[r], copy[r])
  BY Names DEF ThreadInv, At

LEMMA ClientMoves ==
    ASSUME NEW r \in Clients, NEW l, NEW d, NEW c PROVE At(r, l, d, c) <=> ClientAt(r, l, d, c)
  BY Names DEF At

LEMMA ClientDone ==
    ASSUME PathOK, NEW r \in Clients, NEW l \in {"wait", "closed"}, Done(r, l)
    PROVE  /\ Moved(r) /\ (\A k \in Kinds : Held(r, k)' = NoLoc)
           /\ ~Carries(r)' /\ Keeps(r, Kinds)
<1>1. r \in Threads /\ At(r, l, NoDesc, NoCopy) /\ l \in PCs /\ l \in Resting
  BY ClientMoves, Names DEF ClientAt, PCs, Resting
<1> QED BY <1>1, DoneMoves, DoneHasNothing

LEMMA StepClientAlloc ==
    ASSUME PathOK, ThreadInv, NEW r \in Clients, ClientAlloc(r) PROVE StepOf(r)
<1> DEFINE p == <<"rxBody", Dpu>>
           s == FirstFree(p)
           d == [desc[r] EXCEPT !.body = s]
           l == IF desc[r].msg \in TooBig THEN "clientUndo" ELSE "clientPut"
<1>0. /\ r \in Threads /\ p \in Pools /\ pc[r] = "clientAlloc" /\ desc[r] \in Descs
      /\ ClientAt(r, "clientAlloc", desc[r], copy[r]) /\ ring' = ring
  BY ClientFacts, PoolNames DEF ClientAlloc, ClientAt
<1>1. CASE PoolFull(p)
  <2>1. Done(r, "closed") /\ buf' = buf
    BY <1>1 DEF ClientAlloc
  <2> QED BY <1>0, <2>1, ClientDone DEF StepOf, KeepStep
<1>2. CASE ~PoolFull(p)
  <2>1. s \in Locs /\ buf[s] = Free /\ s # NoLoc
    BY <1>0, <1>2, FirstFreeIsFree, DataPathNames DEF NoLoc
  <2>2. AllocWrite(p, desc[r].msg) /\ desc' = [desc EXCEPT ![r] = d] /\ Goto(r, l) /\ copy' = copy
    BY <1>2 DEF ClientAlloc
  <2> HIDE DEF p, s
  <2>3. /\ d \in Descs /\ d.header = desc[r].header /\ d.body = s /\ d.dst = desc[r].dst
        /\ d.msg = desc[r].msg /\ d.msg \in Messages
    BY <1>0, <2>1 DEF Descs
  <2> HIDE DEF d
  <2>4. At(r, l, d, copy[r]) /\ l \in {"clientUndo", "clientPut"} /\ l \in PCs
    BY <1>0, <2>1, <2>3, ClientMoves DEF ClientAt, PCs
  <2> HIDE DEF l
  <2>5. Moved(r) /\ pc'[r] = l /\ desc'[r] = d /\ copy'[r] = copy[r]
    BY <1>0, <2>2, <2>3, <2>4, DescMoves
  <2>6. Held(r, "body")' = s /\ Keeps(r, Kinds \ {"body"})
    BY <1>0, <2>3, <2>4, <2>5, DescFacts
       DEF Keeps, Kinds, Has, Held, HeaderGone, BodyGone, Carries, Resting, Dropping
  <2>7. buf' = [buf EXCEPT ![s] = desc[r].msg]
    BY <2>2 DEF AllocWrite, s
  <2> QED BY <1>0, <2>1, <2>3, <2>5, <2>6, <2>7 DEF StepOf, AllocStep, Kinds
<1> QED BY <1>1, <1>2

LEMMA StepClientPut ==
    ASSUME PathOK, ThreadInv, NEW r \in Clients, ClientPut(r) PROVE StepOf(r)
<1> DEFINE q == <<"rx", Dpu>>
<1>0. /\ r \in Threads /\ q \in Rings /\ pc[r] = "clientPut" /\ desc[r] \in Descs
      /\ ClientAt(r, "clientPut", desc[r], copy[r]) /\ buf' = buf
  BY ClientFacts, Names DEF ClientPut, ClientAt
<1>1. CASE RingFull(q)
  <2>1. Goto(r, "clientUndo") /\ UNCHANGED <<desc, copy>> /\ ring' = ring
    BY <1>1 DEF ClientPut
  <2>2. At(r, "clientUndo", desc[r], copy[r]) /\ "clientUndo" \in PCs
    BY <1>0, ClientMoves DEF ClientAt, PCs
  <2>3. Moved(r) /\ pc'[r] = "clientUndo" /\ desc'[r] = desc[r] /\ copy'[r] = copy[r]
    BY <1>0, <2>1, <2>2, GotoMoves
  <2>4. Keeps(r, Kinds)
    BY <1>0, <2>3, GotoKeeps DEF HeaderGone, BodyGone, Dropping
  <2> QED BY <1>0, <2>1, <2>3, <2>4 DEF StepOf, KeepStep
<1>2. CASE ~RingFull(q)
  <2>1. Put(q, desc[r]) /\ Done(r, "wait")
    BY <1>2 DEF ClientPut
  <2>2. Moved(r) /\ (\A k \in Kinds : Held(r, k)' = NoLoc) /\ ~Carries(r)'
    BY <2>1, ClientDone
  <2>3. InRing(q, desc[r]) /\ Carries(r)
    BY <1>0, DataPathNames DEF ClientAt, InRing, Carries, Resting, Dropping
  <2>4. Held(r, "header") = desc[r].header /\ Held(r, "body") = desc[r].body
    BY <1>0 DEF Held, Has, HeaderGone, BodyGone
  <2> QED BY <1>0, <1>2, <2>1, <2>2, <2>3, <2>4 DEF StepOf, PutStep
<1> QED BY <1>1, <1>2

LEMMA StepClientUndo ==
    ASSUME PathOK, ThreadInv, NEW r \in Clients, ClientUndo(r) PROVE StepOf(r)
<1>1. /\ FreeSlot(desc[r].body) /\ Done(r, "closed") /\ ring' = ring
      /\ Held(r, "body") = desc[r].body
  BY DEF ClientUndo, Held, Has, BodyGone
<1>2. Moved(r) /\ (\A k \in Kinds : Held(r, k)' = NoLoc) /\ Keeps(r, Kinds)
  BY <1>1, ClientDone
<1> QED BY <1>1, <1>2 DEF StepOf, FreeStep, Kinds

\* A client that stops waiting has no descriptor.
LEMMA StepClientLeaves ==
    ASSUME PathOK, ThreadInv, NEW r \in Clients, ClientAnswered(r) \/ ClientTimeout(r) PROVE StepOf(r)
<1>1. /\ r \in Threads /\ pc[r] = "wait" /\ desc[r] = NoDesc /\ copy[r] = NoCopy
  BY ClientFacts DEF ClientAnswered, ClientTimeout, ClientAt
<1>2. Goto(r, "closed") /\ UNCHANGED <<desc, copy, buf, ring>>
  BY DEF ClientAnswered, ClientTimeout
<1>3. At(r, "closed", desc[r], copy[r]) /\ "closed" \in PCs /\ "closed" \in Resting
  BY <1>1, ClientMoves DEF ClientAt, PCs, Resting
<1>4. Moved(r) /\ pc'[r] = "closed" /\ desc'[r] = NoDesc /\ copy'[r] = NoCopy
  BY <1>1, <1>2, <1>3, GotoMoves
<1>5. Keeps(r, Kinds)
  BY <1>1, <1>3, <1>4, DoneHasNothing
<1> QED BY <1>2, <1>4, <1>5 DEF StepOf, KeepStep

(***************************************************************************)
(* Each action is such a step: DPA-RX-Poll.                                *)
(***************************************************************************)

LEMMA RxFacts ==
    ASSUME ThreadInv
    PROVE  DpaRx \in Threads /\ RxAt(pc[DpaRx], desc[DpaRx], copy[DpaRx])
  BY Names, DataPathNames DEF ThreadInv, At

LEMMA RxMoves ==
    ASSUME NEW l, NEW d, NEW c PROVE At(DpaRx, l, d, c) <=> RxAt(l, d, c)
  BY Names, DataPathNames DEF At

LEMMA RxDone ==
    ASSUME PathOK, Done(DpaRx, "idle")
    PROVE  /\ Moved(DpaRx) /\ (\A k \in Kinds : Held(DpaRx, k)' = NoLoc)
           /\ ~Carries(DpaRx)' /\ Keeps(DpaRx, Kinds)
<1>1. DpaRx \in Threads /\ At(DpaRx, "idle", NoDesc, NoCopy) /\ "idle" \in PCs /\ "idle" \in Resting
  BY RxMoves, Names DEF RxAt, PCs, Resting
<1> QED BY <1>1, DoneMoves, DoneHasNothing

\* The thread goes on with its descriptor and what it has copied.
LEMMA RxGoes ==
    ASSUME PathOK, ThreadInv,
           NEW l \in {"rxRequeue", "rxCopyHeader", "rxPut", "rxUndoBody", "rxUndoHeader"},
           Goto(DpaRx, l), UNCHANGED <<desc, copy>>, pc[DpaRx] # "idle",
           l = "rxRequeue" => copy[DpaRx] = NoCopy,
           l = "rxCopyHeader" => copy[DpaRx].header = NoLoc /\ desc[DpaRx].header # NoLoc
    PROVE  /\ Moved(DpaRx) /\ pc'[DpaRx] = l /\ desc'[DpaRx] = desc[DpaRx]
           /\ copy'[DpaRx] = copy[DpaRx]
<1>1. DpaRx \in Threads /\ RxAt(pc[DpaRx], desc[DpaRx], copy[DpaRx])
  BY RxFacts
<1>2. At(DpaRx, l, desc[DpaRx], copy[DpaRx]) /\ l \in PCs
  BY <1>1, RxMoves DEF RxAt, PCs
<1> QED BY <1>1, <1>2, GotoMoves

LEMMA StepRxGet ==
    ASSUME PathOK, ThreadInv, RingInv, RxGet PROVE StepOf(DpaRx)
<1> DEFINE q == <<"rx", Dpu>>
<1>1. /\ q \in Rings /\ Get(DpaRx, q) /\ Goto(DpaRx, "rxCopyBody") /\ copy' = copy /\ buf' = buf
      /\ pc[DpaRx] = "idle" /\ ring[q] # <<>>
  BY Names DEF RxGet, Get
<1>2. DpaRx \in Threads /\ copy[DpaRx] = NoCopy
  BY <1>1, RxFacts DEF RxAt
<1>3. InRing(q, ring[q][1]) /\ ring[q][1] \in Descs
  BY <1>1, FirstInRing
<1>4. At(DpaRx, "rxCopyBody", ring[q][1], NoCopy) /\ "rxCopyBody" \in PCs
  BY <1>3, RxMoves DEF RxAt, PCs, InRing
<1> QED BY <1>1, <1>2, <1>4, GetMoves

LEMMA StepRxCopyBody ==
    ASSUME PathOK, ThreadInv, HoldInv, RxCopyBody PROVE StepOf(DpaRx)
<1> DEFINE t == DpaRx
           p == HostPool("rxBody")
           s == FirstFree(p)
           c == [copy[t] EXCEPT !.body = s]
<1>0. /\ t \in Threads /\ pc[t] = "rxCopyBody" /\ desc[t] \in Descs
      /\ desc[t].body # NoLoc /\ desc[t].dst \in Workers /\ ForWorker(desc[t].msg, desc[t].dst)
      /\ copy[t] = NoCopy /\ ring' = ring /\ desc' = desc
  BY RxFacts DEF RxCopyBody, RxAt
<1>1. p \in Pools
  BY <1>0, PoolNames DEF HostPool
<1>2. CASE NoBody(desc[t]) /\ Goto(t, AfterBody) /\ UNCHANGED <<buf, copy>>
  <2>1. AfterBody \in {"rxPut", "rxCopyHeader"} /\ (AfterBody = "rxCopyHeader" => desc[t].header # NoLoc)
    BY DEF AfterBody, Case2
  <2>2. Moved(t) /\ pc'[t] = AfterBody /\ desc'[t] = desc[t] /\ copy'[t] = copy[t]
    BY <1>0, <1>2, <2>1, RxGoes, DescFacts
  <2>3. Keeps(t, Kinds)
    BY <1>0, <2>1, <2>2, GotoKeeps DEF HeaderGone, BodyGone, Dropping, Resting, Carries
  <2> QED BY <1>0, <1>2, <2>2, <2>3 DEF StepOf, KeepStep
<1>3. CASE Goto(t, "rxRequeue") /\ UNCHANGED <<buf, copy>>
  <2>1. Moved(t) /\ pc'[t] = "rxRequeue" /\ desc'[t] = desc[t] /\ copy'[t] = copy[t]
    BY <1>0, <1>3, RxGoes
  <2>2. Keeps(t, Kinds)
    BY <1>0, <2>1, GotoKeeps DEF HeaderGone, BodyGone, Dropping, Resting, Carries
  <2> QED BY <1>0, <1>3, <2>1, <2>2 DEF StepOf, KeepStep
<1>4. CASE /\ ~PoolFull(p) /\ AllocWrite(p, buf[desc[t].body])
           /\ copy' = [copy EXCEPT ![t] = c] /\ Goto(t, "rxFreeBody")
  <2>1. s \in Locs /\ buf[s] = Free /\ s # NoLoc
    BY <1>1, <1>4, FirstFreeIsFree, DataPathNames DEF NoLoc
  <2>2. AllocWrite(p, buf[desc[t].body]) /\ copy' = [copy EXCEPT ![t] = c] /\ Goto(t, "rxFreeBody")
    BY <1>4
  <2>3. buf[desc[t].body] = desc[t].msg
    <3>1. Held(t, "body") = desc[t].body /\ "body" \in Kinds
      BY <1>0 DEF Held, Has, BodyGone, Kinds
    <3> QED BY <1>0, <3>1 DEF HoldInv, HeldHolds
  <2> HIDE DEF p, s
  <2>4. c \in Copies /\ c.header = NoLoc /\ c.body = s
    BY <1>0, <2>1 DEF Copies, NoCopy
  <2> HIDE DEF c
  <2>5. At(t, "rxFreeBody", desc[t], c) /\ "rxFreeBody" \in PCs
    BY <1>0, <2>1, <2>4, RxMoves DEF RxAt, PCs
  <2>6. Moved(t) /\ pc'[t] = "rxFreeBody" /\ desc'[t] = desc[t] /\ copy'[t] = c
    BY <1>0, <2>2, <2>4, <2>5, CopyMoves
  <2>7. Held(t, "newBody")' = s /\ Keeps(t, Kinds \ {"newBody"})
    BY <1>0, <2>4, <2>6, DescFacts
       DEF Keeps, Kinds, Has, Held, HeaderGone, BodyGone, Carries, Resting, Dropping
  <2>8. buf' = [buf EXCEPT ![s] = desc[t].msg] /\ desc[t].msg \in Messages
    BY <1>0, <2>2, <2>3, DescFacts DEF AllocWrite, s
  <2> QED BY <1>0, <2>1, <2>6, <2>7, <2>8 DEF StepOf, AllocStep, Kinds
<1> QED BY <1>2, <1>3, <1>4 DEF RxCopyBody

LEMMA StepRxRequeue ==
    ASSUME PathOK, ThreadInv, RxRequeue PROVE StepOf(DpaRx)
<1> DEFINE t == DpaRx
           q == <<"rx", Dpu>>
<1>0. /\ t \in Threads /\ q \in Rings /\ pc[t] = "rxRequeue" /\ desc[t] \in Descs
      /\ desc[t].body # NoLoc /\ desc[t].dst \in Workers /\ ForWorker(desc[t].msg, desc[t].dst)
      /\ buf' = buf /\ Done(t, "idle")
  BY RxFacts, Names DEF RxRequeue, RxAt
<1>1. /\ Moved(t) /\ (\A k \in Kinds : Held(t, k)' = NoLoc) /\ ~Carries(t)' /\ Keeps(t, Kinds)
  BY <1>0, RxDone
<1>2. CASE RingFull(q)
  BY <1>0, <1>1, <1>2 DEF RxRequeue, StepOf, KeepStep
<1>3. CASE ~RingFull(q)
  <2>1. Put(q, desc[t])
    BY <1>3 DEF RxRequeue
  <2>2. InRing(q, desc[t]) /\ Carries(t)
    BY <1>0, DataPathNames DEF InRing, Carries, Resting, Dropping
  <2>3. Held(t, "header") = desc[t].header /\ Held(t, "body") = desc[t].body
    BY <1>0 DEF Held, Has, HeaderGone, BodyGone
  <2> QED BY <1>0, <1>1, <1>3, <2>1, <2>2, <2>3 DEF StepOf, PutStep
<1> QED BY <1>2, <1>3

LEMMA StepRxFreeBody ==
    ASSUME PathOK, ThreadInv, RxFreeBody PROVE StepOf(DpaRx)
<1> DEFINE t == DpaRx
<1>0. /\ t \in Threads /\ pc[t] = "rxFreeBody" /\ copy[t].header = NoLoc /\ Goto(t, AfterBody)
      /\ UNCHANGED <<desc, copy>> /\ FreeSlot(desc[t].body) /\ ring' = ring
      /\ Held(t, "body") = desc[t].body
  BY RxFacts DEF RxFreeBody, RxAt, Held, Has, BodyGone
<1>1. AfterBody \in {"rxPut", "rxCopyHeader"} /\ (AfterBody = "rxCopyHeader" => desc[t].header # NoLoc)
  BY DEF AfterBody, Case2
<1>2. Moved(t) /\ pc'[t] = AfterBody /\ desc'[t] = desc[t] /\ copy'[t] = copy[t]
  BY <1>0, <1>1, RxGoes
<1>3. Keeps(t, Kinds) /\ Held(t, "body")' = NoLoc
  BY <1>0, <1>1, <1>2, GotoKeeps DEF HeaderGone, BodyGone, Dropping, Resting, Carries, Held, Has
<1> QED BY <1>0, <1>2, <1>3 DEF StepOf, FreeStep, Kinds

LEMMA StepRxCopyHeader ==
    ASSUME PathOK, ThreadInv, HoldInv, RxCopyHeader PROVE StepOf(DpaRx)
<1> DEFINE t == DpaRx
           p == HostPool("rxHeader")
           s == FirstFree(p)
           c == [copy[t] EXCEPT !.header = s]
<1>0. /\ t \in Threads /\ pc[t] = "rxCopyHeader" /\ desc[t] \in Descs
      /\ RxAt("rxCopyHeader", desc[t], copy[t]) /\ copy[t] \in Copies
      /\ ring' = ring /\ desc' = desc
  BY RxFacts DEF RxCopyHeader, RxAt, PathOK, Copies
<1>1. desc[t].header # NoLoc /\ copy[t].header = NoLoc /\ p \in Pools
  BY <1>0, PoolNames DEF HostPool, RxAt
<1>2. CASE PoolFull(p)
  <2>1. Goto(t, "rxUndoBody") /\ UNCHANGED <<buf, copy>>
    BY <1>2 DEF RxCopyHeader
  <2>2. Moved(t) /\ pc'[t] = "rxUndoBody" /\ desc'[t] = desc[t] /\ copy'[t] = copy[t]
    BY <1>0, <2>1, RxGoes
  <2>3. Keeps(t, Kinds)
    BY <1>0, <2>2, GotoKeeps DEF HeaderGone, BodyGone, Dropping, Resting, Carries
  <2> QED BY <1>0, <2>1, <2>2, <2>3 DEF StepOf, KeepStep
<1>3. CASE ~PoolFull(p)
  <2>1. s \in Locs /\ buf[s] = Free /\ s # NoLoc
    BY <1>1, <1>3, FirstFreeIsFree, DataPathNames DEF NoLoc
  <2>2. AllocWrite(p, buf[desc[t].header]) /\ copy' = [copy EXCEPT ![t] = c] /\ Goto(t, "rxFreeHeader")
    BY <1>3 DEF RxCopyHeader
  <2>3. buf[desc[t].header] = desc[t].msg
    <3>1. Held(t, "header") = desc[t].header /\ "header" \in Kinds
      BY <1>0 DEF Held, Has, HeaderGone, Kinds
    <3> QED BY <1>0, <1>1, <3>1 DEF HoldInv, HeldHolds
  <2> HIDE DEF p, s
  <2>4. c \in Copies /\ c.header = s /\ c.body = copy[t].body
    BY <1>0, <2>1 DEF Copies
  <2> HIDE DEF c
  <2>5. At(t, "rxFreeHeader", desc[t], c) /\ "rxFreeHeader" \in PCs
    BY <1>0, <1>1, <2>1, <2>4, RxMoves DEF RxAt, PCs
  <2>6. Moved(t) /\ pc'[t] = "rxFreeHeader" /\ desc'[t] = desc[t] /\ copy'[t] = c
    BY <1>0, <2>2, <2>4, <2>5, CopyMoves
  <2>7. Held(t, "newHeader")' = s /\ Keeps(t, Kinds \ {"newHeader"})
    BY <1>0, <2>4, <2>6, DescFacts
       DEF Keeps, Kinds, Has, Held, HeaderGone, BodyGone, Carries, Resting, Dropping
  <2>8. buf' = [buf EXCEPT ![s] = desc[t].msg] /\ desc[t].msg \in Messages
    BY <1>0, <2>2, <2>3, DescFacts DEF AllocWrite, s
  <2> QED BY <1>0, <2>1, <2>6, <2>7, <2>8 DEF StepOf, AllocStep, Kinds
<1> QED BY <1>2, <1>3

LEMMA StepRxFreeHeader ==
    ASSUME PathOK, ThreadInv, RxFreeHeader PROVE StepOf(DpaRx)
<1> DEFINE t == DpaRx
<1>0. /\ t \in Threads /\ pc[t] = "rxFreeHeader" /\ Goto(t, "rxPut")
      /\ UNCHANGED <<desc, copy>> /\ FreeSlot(desc[t].header) /\ ring' = ring
      /\ Held(t, "header") = desc[t].header
  BY RxFacts DEF RxFreeHeader, Held, Has, HeaderGone
<1>1. Moved(t) /\ pc'[t] = "rxPut" /\ desc'[t] = desc[t] /\ copy'[t] = copy[t]
  BY <1>0, RxGoes
<1>2. Keeps(t, Kinds) /\ Held(t, "header")' = NoLoc
  BY <1>0, <1>1, GotoKeeps DEF HeaderGone, BodyGone, Dropping, Resting, Carries, Held, Has
<1> QED BY <1>0, <1>1, <1>2 DEF StepOf, FreeStep, Kinds

LEMMA StepRxPut ==
    ASSUME PathOK, ThreadInv, RxPut PROVE StepOf(DpaRx)
<1> DEFINE t == DpaRx
           q == <<"rx", desc[t].dst>>
           d == [desc[t] EXCEPT !.header = copy[t].header, !.body = copy[t].body]
<1>0. /\ t \in Threads /\ q \in Rings /\ pc[t] = "rxPut" /\ desc[t] \in Descs
      /\ desc[t].dst \in Workers /\ ForWorker(desc[t].msg, desc[t].dst)
      /\ copy[t] \in Copies /\ buf' = buf
  BY RxFacts, Names DEF RxPut, RxAt, PathOK, Copies
<1>1. CASE RingFull(q)
  <2>1. Goto(t, "rxUndoBody") /\ UNCHANGED <<desc, copy>> /\ ring' = ring
    BY <1>1 DEF RxPut
  <2>2. Moved(t) /\ pc'[t] = "rxUndoBody" /\ desc'[t] = desc[t] /\ copy'[t] = copy[t]
    BY <1>0, <2>1, RxGoes
  <2>3. Keeps(t, Kinds)
    BY <1>0, <2>2, GotoKeeps DEF HeaderGone, BodyGone, Dropping, Resting, Carries
  <2> QED BY <1>0, <2>1, <2>2, <2>3 DEF StepOf, KeepStep
<1>2. CASE ~RingFull(q)
  <2>1. Put(q, d) /\ Done(t, "idle")
    BY <1>2 DEF RxPut
  <2>2. /\ d \in Descs /\ d.header = copy[t].header /\ d.body = copy[t].body
        /\ d.msg = desc[t].msg
    BY <1>0 DEF Descs, Copies
  <2> HIDE DEF d
  <2>3. Moved(t) /\ (\A k \in Kinds : Held(t, k)' = NoLoc) /\ ~Carries(t)'
    BY <2>1, RxDone
  <2>4. InRing(q, d) /\ Carries(t)
    BY <1>0, <2>2, DataPathNames DEF InRing, Carries, Resting, Dropping
  <2>5. Held(t, "newHeader") = d.header /\ Held(t, "newBody") = d.body
    BY <1>0, <2>2 DEF Held, Has
  <2> QED BY <1>0, <1>2, <2>1, <2>2, <2>3, <2>4, <2>5 DEF StepOf, PutStep
<1> QED BY <1>1, <1>2

LEMMA StepRxUndoBody ==
    ASSUME PathOK, ThreadInv, RxUndoBody PROVE StepOf(DpaRx)
<1> DEFINE t == DpaRx
<1>0. /\ t \in Threads /\ pc[t] = "rxUndoBody" /\ Goto(t, "rxUndoHeader")
      /\ UNCHANGED <<desc, copy>> /\ FreeSlot(copy[t].body) /\ ring' = ring
      /\ Held(t, "newBody") = copy[t].body
  BY RxFacts DEF RxUndoBody, Held, Has
<1>1. Moved(t) /\ pc'[t] = "rxUndoHeader" /\ desc'[t] = desc[t] /\ copy'[t] = copy[t]
  BY <1>0, RxGoes
<1>2. Keeps(t, Kinds) /\ Held(t, "newBody")' = NoLoc
  BY <1>0, <1>1, GotoKeeps DEF HeaderGone, BodyGone, Dropping, Resting, Carries, Held, Has
<1> QED BY <1>0, <1>1, <1>2 DEF StepOf, FreeStep, Kinds

LEMMA StepRxUndoHeader ==
    ASSUME PathOK, ThreadInv, RxUndoHeader PROVE StepOf(DpaRx)
<1>1. /\ FreeSlot(copy[DpaRx].header) /\ Done(DpaRx, "idle") /\ ring' = ring
      /\ Held(DpaRx, "newHeader") = copy[DpaRx].header
  BY DEF RxUndoHeader, Held, Has
<1>2. Moved(DpaRx) /\ (\A k \in Kinds : Held(DpaRx, k)' = NoLoc) /\ Keeps(DpaRx, Kinds)
  BY <1>1, RxDone
<1> QED BY <1>1, <1>2 DEF StepOf, FreeStep, Kinds

(***************************************************************************)
(* A message sets out.                                                     *)
(***************************************************************************)

StartStep(t) ==
    /\ Moved(t) /\ (\A k \in Kinds : Held(t, k)' = NoLoc) /\ buf' = buf /\ ring' = ring
    /\ \E m \in Messages : /\ m \notin sent /\ sent' = sent \cup {m}
                           /\ Carries(t)' => desc'[t].msg = m

LEMMA NewDescriptor ==
    ASSUME NEW m \in Messages, NEW w \in Workers
    PROVE  LET d == [NoDesc EXCEPT !.msg = m, !.src = w]
               e == [NoDesc EXCEPT !.msg = m, !.dst = w]
           IN  /\ d \in Descs /\ d.msg = m /\ d.src = w /\ d.header = NoLoc /\ d.body = NoLoc
               /\ e \in Descs /\ e.msg = m /\ e.dst = w /\ e.header = NoLoc /\ e.body = NoLoc
  BY DEF NoDesc, Descs, NoLoc

LEMMA BeginStarts ==
    ASSUME PathOK, ThreadInv, NEW w \in Workers, NEW m \in Messages, m \notin sent, Begin(w, m)
    PROVE  StartStep(w)
<1> DEFINE d == [NoDesc EXCEPT !.msg = m, !.src = w]
<1>0. w \in Threads /\ copy[w] = NoCopy /\ buf' = buf /\ ring' = ring /\ sent' = sent \cup {m}
  BY WorkerFacts DEF Begin, WorkerAt
<1>1. Goto(w, "allocHeader") /\ copy' = copy /\ desc' = [desc EXCEPT ![w] = d]
  BY DEF Begin
<1>2. d \in Descs /\ d.msg = m /\ d.src = w /\ d.header = NoLoc /\ d.body = NoLoc
  BY NewDescriptor
<1> HIDE DEF d
<1>3. At(w, "allocHeader", d, copy[w]) /\ "allocHeader" \in PCs
  BY <1>0, <1>2, WorkerMoves DEF WorkerAt, PCs
<1>4. Moved(w) /\ pc'[w] = "allocHeader" /\ desc'[w] = d /\ copy'[w] = copy[w]
  <2>1. w \in Threads /\ d \in Descs
    BY <1>0, <1>2
  <2> QED BY <1>1, <1>3, <2>1, DescMoves
<1>5. \A k \in Kinds : Held(w, k)' = NoLoc
  BY <1>0, <1>2, <1>4, DescFacts DEF Held, Has, Kinds
<1> QED BY <1>0, <1>2, <1>4, <1>5 DEF StartStep

LEMMA StartClientOpen ==
    ASSUME PathOK, ThreadInv, ServeInv, NEW r \in Clients, ClientOpen(r)
    PROVE  StartStep(r)
<1> DEFINE m == <<r, "request">>
           w == Selected(Target[r])
           d == [NoDesc EXCEPT !.msg = m, !.dst = w]
<1>1. /\ r \in Threads /\ desc[r] = NoDesc /\ copy[r] = NoCopy /\ copy' = copy
      /\ buf' = buf /\ ring' = ring /\ sent' = sent \cup {m} /\ m \notin sent
  BY ClientFacts DEF ClientOpen, ClientAt, ServeInv
<1>2. m \in Messages /\ Target[r] \in Services /\ r \in Requests
  BY DataPathAssumption DEF Clients, Messages
<1>3. CASE WorkersOf[Target[r]] = <<>>
  <2>1. Goto(r, "closed") /\ desc' = desc
    BY <1>3, Zenon DEF ClientOpen
  <2>2. At(r, "closed", desc[r], copy[r]) /\ "closed" \in PCs /\ "closed" \in Resting
    BY <1>1, ClientMoves DEF ClientAt, PCs, Resting
  <2>3. Moved(r) /\ pc'[r] = "closed" /\ desc'[r] = NoDesc /\ copy'[r] = NoCopy
    BY <1>1, <2>1, <2>2, GotoMoves
  <2>4. (\A k \in Kinds : Held(r, k)' = NoLoc) /\ ~Carries(r)'
    BY <1>1, <2>2, <2>3, DoneHasNothing
  <2> QED BY <1>1, <1>2, <2>3, <2>4 DEF StartStep
<1>4. CASE WorkersOf[Target[r]] # <<>>
  <2>1. Goto(r, "clientAlloc") /\ desc' = [desc EXCEPT ![r] = d]
    BY <1>4, Zenon DEF ClientOpen
  <2>2. w \in Workers /\ ServiceOf[w] = Target[r]
    BY <1>2, <1>4, SelectedFacts
  <2>3. d \in Descs /\ d.msg = m /\ d.dst = w /\ d.header = NoLoc /\ d.body = NoLoc
    BY <1>2, <2>2, NewDescriptor
  <2> HIDE DEF d, w
  <2>4. At(r, "clientAlloc", d, copy[r]) /\ "clientAlloc" \in PCs
    BY <1>1, <2>2, <2>3, ClientMoves DEF ClientAt, PCs, ForWorker
  <2>5. Moved(r) /\ pc'[r] = "clientAlloc" /\ desc'[r] = d /\ copy'[r] = copy[r]
    BY <1>1, <2>1, <2>3, <2>4, DescMoves
  <2>6. \A k \in Kinds : Held(r, k)' = NoLoc
    BY <1>1, <2>3, <2>5, DescFacts DEF Held, Has, Kinds
  <2> QED BY <1>1, <1>2, <2>3, <2>5, <2>6 DEF StartStep
<1> QED BY <1>3, <1>4

(***************************************************************************)
(* What the steps preserve: slots.                                         *)
(***************************************************************************)

LEMMA HeldFacts ==
    ASSUME PathOK, ThreadInv, NEW t \in Threads, NEW k \in Kinds
    PROVE  /\ Held(t, k) \in Locs \cup {NoLoc}
           /\ Held(t, k) # NoLoc => desc[t] \in Descs /\ desc[t].msg \in Messages
<1>1. desc[t] \in Descs \cup {NoDesc} /\ copy[t] \in Copies /\ At(t, pc[t], desc[t], copy[t])
  BY DEF PathOK, ThreadInv, Copies
<1>2. Held(t, k) \in Locs \cup {NoLoc}
  BY <1>1, DescFacts DEF Held, Has, Kinds, Copies
<1>3. desc[t] \notin Descs => copy[t] = NoCopy
  BY <1>1 DEF At, WorkerAt, TxAt, ArmAt, RxAt, ClientAt
<1>4. desc[t] \notin Descs => Held(t, k) = NoLoc
  BY <1>1, <1>3, DescFacts DEF Held, Has, Kinds
<1> QED BY <1>2, <1>4, DescFacts

LEMMA NamedFacts ==
    ASSUME PathOK, NEW q \in Rings, NEW i \in 1 .. Len(ring[q]), NEW k \in Parts
    PROVE  Named(q, i, k) \in Locs \cup {NoLoc} /\ ring[q][i] \in Descs /\ ring[q][i].msg \in Messages
<1>1. ring[q] \in Seq(Descs)
  BY DEF PathOK
<1>2. ring[q][i] \in Descs
  BY <1>1
<1> QED BY <1>2, DescFacts DEF Named, Part, Parts

LEMMA OthersStay ==
    ASSUME NEW t \in Threads, Moved(t), NEW u \in Threads \ {t}
    PROVE  /\ desc'[u] = desc[u] /\ (Carries(u)' <=> Carries(u))
           /\ \A k \in Kinds : Held(u, k)' = Held(u, k)
  BY DEF Moved, Held, Carries

\* Giving slots up, with or without freeing one.
LEMMA HoldKept ==
    ASSUME PathOK, ThreadInv, HoldInv, NEW t \in Threads, KeepStep(t) \/ FreeStep(t)
    PROVE  HoldInv'
<1>1. Moved(t) /\ Keeps(t, Kinds) /\ ring' = ring
  BY DEF KeepStep, FreeStep
<1>2. ASSUME NEW u \in Threads, NEW k \in Kinds, Held(u, k)' # NoLoc
      PROVE  Held(u, k)' = Held(u, k) /\ desc'[u].msg = desc[u].msg
  BY <1>1, <1>2, OthersStay DEF Keeps
<1>3. \A q \in Rings : \A i \in 1 .. Len(ring[q]) : \A k \in Parts : Named(q, i, k)' = Named(q, i, k)
  BY <1>1 DEF Named
<1>4. PICK s \in Locs \cup {NoLoc} :
         /\ \A l \in Locs \ {s} : buf'[l] = buf[l]
         /\ \A u \in Threads : \A k \in Kinds : Held(u, k)' # NoLoc => Held(u, k)' # s
         /\ \A q \in Rings : \A i \in 1 .. Len(ring[q]) : \A k \in Parts :
               Named(q, i, k) # NoLoc => Named(q, i, k) # s
  <2>1. CASE KeepStep(t)
    BY <2>1 DEF KeepStep
  <2>2. CASE FreeStep(t)
    <3>1. PICK k \in Kinds : Held(t, k)' = NoLoc /\ FreeSlot(Held(t, k))
      BY <2>2 DEF FreeStep
    <3>2. Held(t, k) \in Locs \cup {NoLoc}
      BY HeldFacts
    <3>3. \A l \in Locs \ {Held(t, k)} : buf'[l] = buf[l]
      BY <3>1, <3>2 DEF FreeSlot, PathOK
    <3>4. \A u \in Threads : \A j \in Kinds : Held(u, j)' # NoLoc => Held(u, j)' # Held(t, k)
      BY <1>2, <3>1 DEF HoldInv, HeldOnce
    <3>5. \A q \in Rings : \A i \in 1 .. Len(ring[q]) : \A j \in Parts :
             Named(q, i, j) # NoLoc => Named(q, i, j) # Held(t, k)
      BY DEF HoldInv, HeldNotNamed
    <3> QED BY <3>2, <3>3, <3>4, <3>5
  <2> QED BY <2>1, <2>2
<1>5. HeldHolds'
  <2> SUFFICES ASSUME NEW u \in Threads, NEW k \in Kinds, Held(u, k)' # NoLoc
               PROVE  buf'[Held(u, k)'] = desc'[u].msg
    BY DEF HeldHolds
  <2>1. Held(u, k)' = Held(u, k) /\ desc'[u].msg = desc[u].msg /\ Held(u, k) # s
    BY <1>2, <1>4
  <2>2. Held(u, k) \in Locs /\ Held(u, k) # NoLoc
    BY <2>1, HeldFacts
  <2>3. buf[Held(u, k)] = desc[u].msg
    BY <2>2 DEF HoldInv, HeldHolds
  <2> QED BY <1>4, <2>1, <2>2, <2>3
<1>6. NamedHolds'
  <2> SUFFICES ASSUME NEW q \in Rings,
                      NEW i \in 1 .. Len(ring[q]), NEW k \in Parts, Named(q, i, k) # NoLoc
               PROVE  buf'[Named(q, i, k)] = ring[q][i].msg
    BY <1>1, <1>3 DEF NamedHolds
  <2>1. Named(q, i, k) \in Locs /\ Named(q, i, k) # s
    BY <1>4, NamedFacts
  <2> QED BY <1>4, <2>1 DEF HoldInv, NamedHolds
<1>7. HeldOnce'
  BY <1>2 DEF HoldInv, HeldOnce
<1>8. HeldNotNamed'
  BY <1>1, <1>2, <1>3 DEF HoldInv, HeldNotNamed
<1>9. NamedOnce'
  BY <1>1, <1>3 DEF HoldInv, NamedOnce
<1> QED BY <1>5, <1>6, <1>7, <1>8, <1>9 DEF HoldInv

LEMMA HoldStart ==
    ASSUME PathOK, ThreadInv, HoldInv, NEW t \in Threads, StartStep(t) PROVE HoldInv'
<1>1. /\ Moved(t) /\ (\A k \in Kinds : Held(t, k)' = NoLoc) /\ buf' = buf /\ ring' = ring
  BY DEF StartStep
<1>2. ASSUME NEW u \in Threads, NEW k \in Kinds, Held(u, k)' # NoLoc
      PROVE  u # t /\ Held(u, k)' = Held(u, k) /\ desc'[u] = desc[u]
  BY <1>1, <1>2, OthersStay
<1>3. \A q \in Rings : \A i \in 1 .. Len(ring[q]) : \A k \in Parts : Named(q, i, k)' = Named(q, i, k)
  BY <1>1 DEF Named
<1>4. HeldHolds'
  BY <1>1, <1>2 DEF HoldInv, HeldHolds
<1>5. NamedHolds'
  BY <1>1, <1>3 DEF HoldInv, NamedHolds
<1>6. HeldOnce'
  BY <1>2 DEF HoldInv, HeldOnce
<1>7. HeldNotNamed'
  BY <1>1, <1>2, <1>3 DEF HoldInv, HeldNotNamed
<1>8. NamedOnce'
  BY <1>1, <1>3 DEF HoldInv, NamedOnce
<1> QED BY <1>4, <1>5, <1>6, <1>7, <1>8 DEF HoldInv

\* A slot that is free is nobody's.
LEMMA FreeIsNobodys ==
    ASSUME PathOK, ThreadInv, HoldInv, NEW s \in Locs, buf[s] = Free
    PROVE  /\ \A u \in Threads : \A k \in Kinds : Held(u, k) # s
           /\ \A q \in Rings : \A i \in 1 .. Len(ring[q]) : \A k \in Parts : Named(q, i, k) # s
<1>1. s # NoLoc /\ Free \notin Messages
  BY DataPathNames DEF NoLoc
<1>2. ASSUME NEW u \in Threads, NEW k \in Kinds, Held(u, k) = s PROVE FALSE
  <2>1. desc[u].msg \in Messages
    BY <1>1, <1>2, HeldFacts
  <2> QED BY <1>1, <1>2, <2>1 DEF HoldInv, HeldHolds
<1>3. ASSUME NEW q \in Rings, NEW i \in 1 .. Len(ring[q]), NEW k \in Parts, Named(q, i, k) = s
      PROVE  FALSE
  <2>1. ring[q][i].msg \in Messages
    BY NamedFacts
  <2> QED BY <1>1, <1>3, <2>1 DEF HoldInv, NamedHolds
<1> QED BY <1>2, <1>3

LEMMA HoldAlloc ==
    ASSUME PathOK, ThreadInv, HoldInv, NEW t \in Threads, AllocStep(t) PROVE HoldInv'
<1>1. Moved(t) /\ ring' = ring /\ desc'[t].msg = desc[t].msg
  BY DEF AllocStep
<1>2. PICK a \in Kinds, s \in Locs :
         /\ Keeps(t, Kinds \ {a}) /\ Held(t, a)' = s
         /\ buf[s] = Free /\ buf' = [buf EXCEPT ![s] = desc[t].msg]
  BY DEF AllocStep
<1>3. buf'[s] = desc[t].msg /\ \A l \in Locs \ {s} : buf'[l] = buf[l]
  BY <1>2 DEF PathOK
<1>4. ASSUME NEW u \in Threads, NEW k \in Kinds, Held(u, k)' # NoLoc, ~(u = t /\ k = a)
      PROVE  /\ Held(u, k)' = Held(u, k) /\ desc'[u].msg = desc[u].msg
             /\ Held(u, k) \in Locs \ {s}
  <2>1. Held(u, k)' = Held(u, k) /\ desc'[u].msg = desc[u].msg
    BY <1>1, <1>2, <1>4, OthersStay DEF Keeps
  <2> QED BY <1>2, <1>4, <2>1, HeldFacts, FreeIsNobodys
<1>5. ASSUME NEW q \in Rings, NEW i \in 1 .. Len(ring[q]), NEW k \in Parts
      PROVE  Named(q, i, k)' = Named(q, i, k) /\ Named(q, i, k) \in (Locs \cup {NoLoc}) \ {s}
  BY <1>1, <1>2, NamedFacts, FreeIsNobodys DEF Named
<1>6. HeldHolds'
  <2> SUFFICES ASSUME NEW u \in Threads, NEW k \in Kinds, Held(u, k)' # NoLoc
               PROVE  buf'[Held(u, k)'] = desc'[u].msg
    BY DEF HeldHolds
  <2>1. CASE u = t /\ k = a
    BY <1>1, <1>2, <1>3, <2>1
  <2>2. CASE ~(u = t /\ k = a)
    <3>1. Held(u, k)' = Held(u, k) /\ desc'[u].msg = desc[u].msg /\ Held(u, k) \in Locs \ {s}
      BY <1>4, <2>2
    <3> QED BY <1>3, <3>1 DEF HoldInv, HeldHolds
  <2> QED BY <2>1, <2>2
<1>7. NamedHolds'
  <2> SUFFICES ASSUME NEW q \in Rings,
                      NEW i \in 1 .. Len(ring[q]), NEW k \in Parts, Named(q, i, k) # NoLoc
               PROVE  buf'[Named(q, i, k)] = ring[q][i].msg
    BY <1>1, <1>5 DEF NamedHolds
  <2>1. Named(q, i, k) \in Locs \ {s}
    BY <1>5
  <2> QED BY <1>3, <2>1 DEF HoldInv, NamedHolds
<1>8. HeldOnce'
  <2> SUFFICES ASSUME NEW u \in Threads, NEW v \in Threads, NEW j \in Kinds, NEW k \in Kinds,
                      Held(u, j)' # NoLoc, Held(u, j)' = Held(v, k)'
               PROVE  u = v /\ j = k
    BY DEF HeldOnce
  <2>1. CASE u = t /\ j = a
    BY <1>2, <1>4, <2>1
  <2>2. CASE ~(u = t /\ j = a)
    <3>1. Held(u, j)' = Held(u, j) /\ Held(u, j) # s
      BY <1>4, <2>2
    <3>2. Held(v, k)' = Held(v, k)
      BY <1>2, <1>4, <3>1
    <3>3. Held(u, j) # NoLoc /\ Held(u, j) = Held(v, k)
      BY <3>1, <3>2
    <3> QED BY <3>3 DEF HoldInv, HeldOnce
  <2> QED BY <2>1, <2>2
<1>9. HeldNotNamed'
  <2> SUFFICES ASSUME NEW u \in Threads, NEW q \in Rings, NEW i \in 1 .. Len(ring[q]),
                      NEW j \in Kinds, NEW k \in Parts, Held(u, j)' # NoLoc
               PROVE  Held(u, j)' # Named(q, i, k)
    BY <1>1, <1>5 DEF HeldNotNamed
  <2>1. CASE u = t /\ j = a
    BY <1>2, <1>5, <2>1
  <2>2. CASE ~(u = t /\ j = a)
    BY <1>4, <2>2 DEF HoldInv, HeldNotNamed
  <2> QED BY <2>1, <2>2
<1>10. NamedOnce'
  BY <1>1, <1>5 DEF HoldInv, NamedOnce
<1> QED BY <1>6, <1>7, <1>8, <1>9, <1>10 DEF HoldInv

\* A descriptor goes into a ring: the slots it names are no longer the thread's.
LEMMA HoldPut ==
    ASSUME PathOK, ThreadInv, HoldInv, NEW t \in Threads, PutStep(t) PROVE HoldInv'
<1>1. Moved(t) /\ (\A k \in Kinds : Held(t, k)' = NoLoc) /\ buf' = buf
  BY DEF PutStep
<1>2. PICK p \in Rings, d \in Descs :
         /\ Put(p, d) /\ d.msg = desc[t].msg
         /\ d.header \in {NoLoc, Held(t, "header"), Held(t, "newHeader")}
         /\ d.body \in {NoLoc, Held(t, "body"), Held(t, "newBody")}
  BY DEF PutStep
<1>3. ASSUME NEW u \in Threads, NEW k \in Kinds, Held(u, k)' # NoLoc
      PROVE  u # t /\ Held(u, k)' = Held(u, k) /\ desc'[u] = desc[u]
  BY <1>1, <1>3, OthersStay
<1>4. PICK n \in Nat :
         /\ ring'[p][n] = d
         /\ \A q \in Rings : \A i \in 1 .. Len(ring'[q]) :
               (q = p /\ i = n) \/ (i \in 1 .. Len(ring[q]) /\ ring'[q][i] = ring[q][i])
  <2>1. Len(ring[p]) + 1 \in Nat
    BY <1>2, PutFacts
  <2> QED BY <1>2, <2>1, PutFacts
<1> DEFINE new(q, i) == q = p /\ i = n
<1>5. ASSUME NEW q \in Rings, NEW i \in 1 .. Len(ring'[q]), ~new(q, i)
      PROVE  /\ i \in 1 .. Len(ring[q]) /\ ring'[q][i] = ring[q][i]
             /\ \A k \in Parts : Named(q, i, k)' = Named(q, i, k)
  BY <1>4, <1>5 DEF Named
<1>6. PICK a \in {"header", "newHeader"} : d.header \in {NoLoc, Held(t, a)}
  BY <1>2
<1>7. PICK b \in {"body", "newBody"} : d.body \in {NoLoc, Held(t, b)}
  BY <1>2
<1> DEFINE was(k) == IF k = "header" THEN a ELSE b
<1>8. ASSUME NEW k \in Parts
      PROVE  was(k) \in Kinds /\ Named(p, n, k)' \in {NoLoc, Held(t, was(k))}
  <2>1. Named(p, n, k)' = Part(k, d)
    <3>1. ring'[p][n] = d
      BY <1>4
    <3> QED BY <3>1 DEF Named
  <2>2. CASE k = "header"
    BY <1>6, <2>1, <2>2 DEF Part, Kinds
  <2>3. CASE k = "body"
    BY <1>7, <2>1, <2>3 DEF Part, Kinds
  <2> QED BY <2>2, <2>3 DEF Parts
<1>9. \A j, k \in Parts : was(j) = was(k) => j = k
  BY DEF Parts
<1> HIDE DEF was
<1>10. ASSUME NEW q \in Rings, NEW i \in 1 .. Len(ring'[q]), new(q, i), NEW k \in Parts
      PROVE  was(k) \in Kinds /\ Named(q, i, k)' \in {NoLoc, Held(t, was(k))}
  <2>1. Named(q, i, k)' = Named(p, n, k)'
    BY <1>10 DEF Named
  <2> QED BY <1>8, <2>1
<1>11. HeldHolds'
  BY <1>1, <1>3 DEF HoldInv, HeldHolds
<1>12. NamedHolds'
  <2> SUFFICES ASSUME NEW q \in Rings,
                      NEW i \in 1 .. Len(ring'[q]), NEW k \in Parts, Named(q, i, k)' # NoLoc
               PROVE  buf[Named(q, i, k)'] = ring'[q][i].msg
    BY <1>1 DEF NamedHolds
  <2>1. CASE new(q, i)
    <3>1. was(k) \in Kinds /\ Named(q, i, k)' = Held(t, was(k)) /\ Held(t, was(k)) # NoLoc
      BY <1>10, <2>1
    <3>2. ring'[q][i].msg = desc[t].msg
      BY <1>2, <1>4, <2>1
    <3> QED BY <3>1, <3>2 DEF HoldInv, HeldHolds
  <2>2. CASE ~new(q, i)
    BY <1>5, <2>2 DEF HoldInv, NamedHolds
  <2> QED BY <2>1, <2>2
<1>13. HeldOnce'
  BY <1>3 DEF HoldInv, HeldOnce
<1>14. HeldNotNamed'
  <2> SUFFICES ASSUME NEW u \in Threads, NEW q \in Rings, NEW i \in 1 .. Len(ring'[q]),
                      NEW j \in Kinds, NEW k \in Parts, Held(u, j)' # NoLoc
               PROVE  Held(u, j)' # Named(q, i, k)'
    BY DEF HeldNotNamed
  <2>1. u # t /\ Held(u, j)' = Held(u, j)
    BY <1>3
  <2>2. CASE new(q, i)
    <3>1. was(k) \in Kinds /\ Named(q, i, k)' \in {NoLoc, Held(t, was(k))}
      BY <1>10, <2>2
    <3>2. Held(u, j) # NoLoc /\ Held(u, j) # Held(t, was(k))
      BY <2>1, <3>1 DEF HoldInv, HeldOnce
    <3> QED BY <2>1, <3>1, <3>2
  <2>3. CASE ~new(q, i)
    BY <1>5, <2>1, <2>3 DEF HoldInv, HeldNotNamed
  <2> QED BY <2>2, <2>3
<1>15. NamedOnce'
  <2> SUFFICES ASSUME NEW q \in Rings, NEW r \in Rings,
                      NEW i \in 1 .. Len(ring'[q]), NEW h \in 1 .. Len(ring'[r]),
                      NEW j \in Parts, NEW k \in Parts,
                      Named(q, i, j)' # NoLoc, Named(q, i, j)' = Named(r, h, k)'
               PROVE  q = r /\ i = h /\ j = k
    BY DEF NamedOnce
  <2>1. CASE new(q, i) /\ new(r, h)
    <3>1. was(j) \in Kinds /\ Named(q, i, j)' = Held(t, was(j)) /\ Held(t, was(j)) # NoLoc
      BY <1>10, <2>1
    <3>2. was(k) \in Kinds /\ Named(r, h, k)' = Held(t, was(k))
      BY <1>10, <2>1, <3>1
    <3>3. Held(t, was(j)) = Held(t, was(k))
      BY <3>1, <3>2
    <3>4. was(j) = was(k)
      BY <3>1, <3>2, <3>3 DEF HoldInv, HeldOnce
    <3> QED BY <1>9, <2>1, <3>4
  <2>2. CASE new(q, i) /\ ~new(r, h)
    <3>1. h \in 1 .. Len(ring[r]) /\ Named(r, h, k)' = Named(r, h, k)
      BY <1>5, <2>2
    <3>2. was(j) \in Kinds /\ Named(q, i, j)' = Held(t, was(j)) /\ Held(t, was(j)) # NoLoc
      BY <1>10, <2>2
    <3>3. Held(t, was(j)) # Named(r, h, k)
      BY <3>1, <3>2 DEF HoldInv, HeldNotNamed
    <3> QED BY <3>1, <3>2, <3>3
  <2>3. CASE ~new(q, i) /\ new(r, h)
    <3>1. i \in 1 .. Len(ring[q]) /\ Named(q, i, j)' = Named(q, i, j)
      BY <1>5, <2>3
    <3>2. was(k) \in Kinds /\ Named(r, h, k)' = Held(t, was(k)) /\ Held(t, was(k)) # NoLoc
      BY <1>10, <2>3
    <3>3. Held(t, was(k)) # Named(q, i, j)
      BY <3>1, <3>2 DEF HoldInv, HeldNotNamed
    <3> QED BY <3>1, <3>2, <3>3
  <2>4. CASE ~new(q, i) /\ ~new(r, h)
    <3>1. i \in 1 .. Len(ring[q]) /\ Named(q, i, j)' = Named(q, i, j)
      BY <1>5, <2>4
    <3>2. h \in 1 .. Len(ring[r]) /\ Named(r, h, k)' = Named(r, h, k)
      BY <1>5, <2>4
    <3>3. Named(q, i, j) # NoLoc /\ Named(q, i, j) = Named(r, h, k)
      BY <3>1, <3>2
    <3> QED BY <3>1, <3>2, <3>3 DEF HoldInv, NamedOnce
  <2> QED BY <2>1, <2>2, <2>3, <2>4
<1> QED BY <1>11, <1>12, <1>13, <1>14, <1>15 DEF HoldInv

\* A descriptor is taken off a ring: its slots are now the thread's.
LEMMA HoldGet ==
    ASSUME PathOK, ThreadInv, HoldInv, NEW t \in Threads, GetStep(t) PROVE HoldInv'
<1>1. Moved(t) /\ copy'[t] = NoCopy /\ buf' = buf
  BY DEF GetStep
<1>2. PICK p \in Rings : Get(t, p)
  BY DEF GetStep
<1> DEFINE old(q, i) == IF q = p THEN i + 1 ELSE i
<1>3. /\ 1 \in 1 .. Len(ring[p]) /\ desc'[t] = ring[p][1]
      /\ \A q \in Rings : \A i \in 1 .. Len(ring'[q]) :
            /\ old(q, i) \in 1 .. Len(ring[q]) /\ ring'[q][i] = ring[q][old(q, i)]
            /\ ~(q = p /\ old(q, i) = 1)
  BY <1>2, GetFacts
<1>4. \A q \in Rings : \A i \in 1 .. Len(ring'[q]), h \in 1 .. Len(ring'[q]) : old(q, i) = old(q, h) => i = h
  OBVIOUS
<1> HIDE DEF old
<1>5. ASSUME NEW q \in Rings, NEW i \in 1 .. Len(ring'[q])
      PROVE  /\ old(q, i) \in 1 .. Len(ring[q]) /\ ring'[q][i].msg = ring[q][old(q, i)].msg
             /\ \A k \in Parts : Named(q, i, k)' = Named(q, old(q, i), k)
             /\ ~(q = p /\ old(q, i) = 1)
  BY <1>3 DEF Named
<1>6. ASSUME NEW k \in Kinds, Held(t, k)' # NoLoc
      PROVE  k \in Parts /\ Held(t, k)' = Named(p, 1, k)
  BY <1>1, <1>3, <1>6, DescFacts DEF Held, Has, Kinds, Parts, Part, Named
<1>7. ASSUME NEW u \in Threads \ {t}, NEW k \in Kinds
      PROVE  Held(u, k)' = Held(u, k) /\ desc'[u] = desc[u]
  BY <1>1, OthersStay
<1>8. HeldHolds'
  <2> SUFFICES ASSUME NEW u \in Threads, NEW k \in Kinds, Held(u, k)' # NoLoc
               PROVE  buf[Held(u, k)'] = desc'[u].msg
    BY <1>1 DEF HeldHolds
  <2>1. CASE u = t
    BY <1>3, <1>6, <2>1 DEF HoldInv, NamedHolds
  <2>2. CASE u # t
    BY <1>7, <2>2 DEF HoldInv, HeldHolds
  <2> QED BY <2>1, <2>2
<1>9. NamedHolds'
  BY <1>1, <1>5 DEF HoldInv, NamedHolds
<1>10. HeldOnce'
  <2> SUFFICES ASSUME NEW u \in Threads, NEW v \in Threads, NEW j \in Kinds, NEW k \in Kinds,
                      Held(u, j)' # NoLoc, Held(u, j)' = Held(v, k)'
               PROVE  u = v /\ j = k
    BY DEF HeldOnce
  <2>1. CASE u = t /\ v = t
    <3>1. j \in Parts /\ k \in Parts /\ Named(p, 1, j) = Named(p, 1, k) /\ Named(p, 1, j) # NoLoc
      BY <1>6, <2>1
    <3>2. j = k
      BY <1>3, <3>1 DEF HoldInv, NamedOnce
    <3> QED BY <2>1, <3>2
  <2>2. CASE u = t /\ v # t
    <3>1. j \in Parts /\ Held(t, j)' = Named(p, 1, j) /\ Held(v, k)' = Held(v, k)
      BY <1>6, <1>7, <2>2
    <3>2. Held(v, k) # NoLoc => Held(v, k) # Named(p, 1, j)
      BY <1>3, <3>1 DEF HoldInv, HeldNotNamed
    <3> QED BY <2>2, <3>1, <3>2
  <2>3. CASE u # t /\ v = t
    <3>1. k \in Parts /\ Held(t, k)' = Named(p, 1, k) /\ Held(u, j)' = Held(u, j)
      BY <1>6, <1>7, <2>3
    <3> QED BY <1>3, <2>3, <3>1 DEF HoldInv, HeldNotNamed
  <2>4. CASE u # t /\ v # t
    BY <1>7, <2>4 DEF HoldInv, HeldOnce
  <2> QED BY <2>1, <2>2, <2>3, <2>4
<1>11. HeldNotNamed'
  <2> SUFFICES ASSUME NEW u \in Threads, NEW q \in Rings, NEW i \in 1 .. Len(ring'[q]),
                      NEW j \in Kinds, NEW k \in Parts, Held(u, j)' # NoLoc
               PROVE  Held(u, j)' # Named(q, i, k)'
    BY DEF HeldNotNamed
  <2>1. /\ old(q, i) \in 1 .. Len(ring[q]) /\ Named(q, i, k)' = Named(q, old(q, i), k)
        /\ ~(q = p /\ old(q, i) = 1)
    BY <1>5
  <2>2. CASE u = t
    <3>1. j \in Parts /\ Held(t, j)' = Named(p, 1, j) /\ Named(p, 1, j) # NoLoc
      BY <1>6, <2>2
    <3> QED BY <1>3, <2>1, <2>2, <3>1 DEF HoldInv, NamedOnce
  <2>3. CASE u # t
    BY <1>7, <2>1, <2>3 DEF HoldInv, HeldNotNamed
  <2> QED BY <2>2, <2>3
<1>12. NamedOnce'
  <2> SUFFICES ASSUME NEW q \in Rings, NEW r \in Rings,
                      NEW i \in 1 .. Len(ring'[q]), NEW h \in 1 .. Len(ring'[r]),
                      NEW j \in Parts, NEW k \in Parts,
                      Named(q, i, j)' # NoLoc, Named(q, i, j)' = Named(r, h, k)'
               PROVE  q = r /\ i = h /\ j = k
    BY DEF NamedOnce
  <2>1. /\ old(q, i) \in 1 .. Len(ring[q]) /\ Named(q, i, j)' = Named(q, old(q, i), j)
        /\ old(r, h) \in 1 .. Len(ring[r]) /\ Named(r, h, k)' = Named(r, old(r, h), k)
    BY <1>5
  <2>2. q = r /\ old(q, i) = old(r, h) /\ j = k
    <3>1. Named(q, old(q, i), j) # NoLoc /\ Named(q, old(q, i), j) = Named(r, old(r, h), k)
      BY <2>1
    <3> QED BY <2>1, <3>1 DEF HoldInv, NamedOnce
  <2> QED BY <1>4, <2>2
<1> QED BY <1>8, <1>9, <1>10, <1>11, <1>12 DEF HoldInv

(***************************************************************************)
(* What the steps preserve: where a message is.                            *)
(***************************************************************************)

\* A message may arrive when the thread that carries it lets it go.
Arrives(t) == Arrived' \subseteq Arrived \cup {desc[t].msg} /\ Carries(t) /\ ~Carries(t)'

LEMMA OnceKept ==
    ASSUME OnceInv, NEW t \in Threads, KeepStep(t) \/ FreeStep(t) \/ AllocStep(t),
           sent' = sent, Arrived' \subseteq Arrived \/ Arrives(t)
    PROVE  OnceInv'
<1>1. Moved(t) /\ ring' = ring /\ (Carries(t)' => Carries(t) /\ desc'[t].msg = desc[t].msg)
  BY DEF KeepStep, FreeStep, AllocStep, Keeps
<1>2. ASSUME NEW u \in Threads, Carries(u)'
      PROVE  Carries(u) /\ desc'[u].msg = desc[u].msg
  BY <1>1, <1>2, OthersStay
<1>3. CarriedOnce'
  BY <1>2 DEF OnceInv, CarriedOnce
<1>4. CarriedNotNamed'
  BY <1>1, <1>2 DEF OnceInv, CarriedNotNamed
<1>5. OneDescriptor'
  BY <1>1 DEF OnceInv, OneDescriptor
<1>6. CarriedSent'
  <2> SUFFICES ASSUME NEW u \in Threads, Carries(u)' PROVE desc'[u].msg \in sent \ Arrived'
    BY DEF CarriedSent
  <2>1. Carries(u) /\ desc'[u].msg = desc[u].msg /\ desc[u].msg \in sent \ Arrived
    BY <1>2 DEF OnceInv, CarriedSent
  <2>2. CASE Arrived' \subseteq Arrived
    BY <2>1, <2>2
  <2>3. CASE Arrives(t)
    <3>1. u # t /\ Carries(t)
      BY <2>3 DEF Arrives
    <3>2. desc[u].msg # desc[t].msg
      BY <2>1, <3>1 DEF OnceInv, CarriedOnce
    <3> QED BY <2>1, <2>3, <3>2 DEF Arrives
  <2> QED BY <2>2, <2>3
<1>7. NamedSent'
  <2> SUFFICES ASSUME NEW q \in Rings, NEW i \in 1 .. Len(ring[q])
               PROVE  ring[q][i].msg \in sent \ Arrived'
    BY <1>1 DEF NamedSent
  <2>1. ring[q][i].msg \in sent \ Arrived
    BY DEF OnceInv, NamedSent
  <2>2. Arrives(t) => ring[q][i].msg # desc[t].msg
    BY DEF Arrives, OnceInv, CarriedNotNamed
  <2> QED BY <2>1, <2>2 DEF Arrives
<1> QED BY <1>3, <1>4, <1>5, <1>6, <1>7 DEF OnceInv

LEMMA OnceStart ==
    ASSUME OnceInv, Arrived \subseteq sent, NEW t \in Threads, StartStep(t), Arrived' \subseteq Arrived
    PROVE  OnceInv'
<1>1. PICK m \in Messages : m \notin sent /\ sent' = sent \cup {m} /\ (Carries(t)' => desc'[t].msg = m)
  BY DEF StartStep
<1>2. Moved(t) /\ ring' = ring
  BY DEF StartStep
<1>3. ASSUME NEW u \in Threads, Carries(u)'
      PROVE  \/ u = t /\ desc'[u].msg = m
             \/ u # t /\ Carries(u) /\ desc'[u].msg = desc[u].msg /\ desc[u].msg # m
  BY <1>1, <1>2, <1>3, OthersStay DEF OnceInv, CarriedSent
<1>4. \A q \in Rings : \A i \in 1 .. Len(ring[q]) : ring[q][i].msg # m
  BY <1>1 DEF OnceInv, NamedSent
<1>5. CarriedOnce'
  BY <1>3 DEF OnceInv, CarriedOnce
<1>6. CarriedNotNamed'
  BY <1>2, <1>3, <1>4 DEF OnceInv, CarriedNotNamed
<1>7. OneDescriptor'
  BY <1>2 DEF OnceInv, OneDescriptor
<1>8. CarriedSent'
  BY <1>1, <1>3 DEF OnceInv, CarriedSent
<1>9. NamedSent'
  BY <1>1, <1>2 DEF OnceInv, NamedSent
<1> QED BY <1>5, <1>6, <1>7, <1>8, <1>9 DEF OnceInv

LEMMA OncePut ==
    ASSUME PathOK, OnceInv, NEW t \in Threads, PutStep(t), sent' = sent, Arrived' \subseteq Arrived
    PROVE  OnceInv'
<1>1. PICK p \in Rings, d \in Descs : Put(p, d) /\ d.msg = desc[t].msg
  BY DEF PutStep
<1>2. Moved(t) /\ Carries(t) /\ ~Carries(t)'
  BY DEF PutStep
<1>3. PICK n \in Nat :
         /\ ring'[p][n] = d
         /\ \A q \in Rings : \A i \in 1 .. Len(ring'[q]) :
               (q = p /\ i = n) \/ (i \in 1 .. Len(ring[q]) /\ ring'[q][i] = ring[q][i])
  <2>1. Len(ring[p]) + 1 \in Nat
    BY <1>1, PutFacts
  <2> QED BY <1>1, <2>1, PutFacts
<1> DEFINE new(q, i) == q = p /\ i = n
<1>4. ASSUME NEW q \in Rings, NEW i \in 1 .. Len(ring'[q]), ~new(q, i)
      PROVE  i \in 1 .. Len(ring[q]) /\ ring'[q][i].msg = ring[q][i].msg
  BY <1>3, <1>4
<1>5. ASSUME NEW q \in Rings, NEW i \in 1 .. Len(ring'[q]), new(q, i)
      PROVE  ring'[q][i].msg = desc[t].msg
  BY <1>1, <1>3, <1>5
<1>6. ASSUME NEW u \in Threads, Carries(u)'
      PROVE  Carries(u) /\ desc'[u].msg = desc[u].msg /\ u # t /\ desc[u].msg # desc[t].msg
  BY <1>2, <1>6, OthersStay DEF OnceInv, CarriedOnce
<1>7. CarriedOnce'
  BY <1>6 DEF OnceInv, CarriedOnce
<1>8. CarriedNotNamed'
  BY <1>4, <1>5, <1>6 DEF OnceInv, CarriedNotNamed
<1>9. OneDescriptor'
  <2> SUFFICES ASSUME NEW q \in Rings, NEW r \in Rings,
                      NEW i \in 1 .. Len(ring'[q]), NEW h \in 1 .. Len(ring'[r]),
                      ring'[q][i].msg = ring'[r][h].msg
               PROVE  q = r /\ i = h
    BY DEF OneDescriptor
  <2>1. \A s \in Rings : \A g \in 1 .. Len(ring[s]) : ring[s][g].msg # desc[t].msg
    BY <1>2 DEF OnceInv, CarriedNotNamed
  <2>2. CASE new(q, i) /\ new(r, h)
    BY <2>2
  <2>3. CASE new(q, i) /\ ~new(r, h)
    BY <1>4, <1>5, <2>1, <2>3
  <2>4. CASE ~new(q, i) /\ new(r, h)
    BY <1>4, <1>5, <2>1, <2>4
  <2>5. CASE ~new(q, i) /\ ~new(r, h)
    <3>1. i \in 1 .. Len(ring[q]) /\ h \in 1 .. Len(ring[r]) /\ ring[q][i].msg = ring[r][h].msg
      BY <1>4, <2>5
    <3> QED BY <3>1 DEF OnceInv, OneDescriptor
  <2> QED BY <2>2, <2>3, <2>4, <2>5
<1>10. CarriedSent'
  BY <1>6 DEF OnceInv, CarriedSent
<1>11. NamedSent'
  <2> SUFFICES ASSUME NEW q \in Rings, NEW i \in 1 .. Len(ring'[q])
               PROVE  ring'[q][i].msg \in sent \ Arrived
    BY DEF NamedSent
  <2>1. CASE new(q, i)
    BY <1>2, <1>5, <2>1 DEF OnceInv, CarriedSent
  <2>2. CASE ~new(q, i)
    BY <1>4, <2>2 DEF OnceInv, NamedSent
  <2> QED BY <2>1, <2>2
<1> QED BY <1>7, <1>8, <1>9, <1>10, <1>11 DEF OnceInv

LEMMA OnceGet ==
    ASSUME PathOK, OnceInv, NEW t \in Threads, GetStep(t), sent' = sent, Arrived' \subseteq Arrived
    PROVE  OnceInv'
<1>1. Moved(t)
  BY DEF GetStep
<1>2. PICK p \in Rings : Get(t, p)
  BY DEF GetStep
<1> DEFINE old(q, i) == IF q = p THEN i + 1 ELSE i
<1>3. /\ 1 \in 1 .. Len(ring[p]) /\ desc'[t] = ring[p][1]
      /\ \A q \in Rings : \A i \in 1 .. Len(ring'[q]) :
            /\ old(q, i) \in 1 .. Len(ring[q]) /\ ring'[q][i] = ring[q][old(q, i)]
            /\ ~(q = p /\ old(q, i) = 1)
  BY <1>2, GetFacts
<1>4. \A q \in Rings : \A i \in 1 .. Len(ring'[q]), h \in 1 .. Len(ring'[q]) : old(q, i) = old(q, h) => i = h
  OBVIOUS
<1> HIDE DEF old
<1>5. ASSUME NEW u \in Threads, Carries(u)'
      PROVE  \/ u = t /\ desc'[u].msg = ring[p][1].msg
             \/ u # t /\ Carries(u) /\ desc'[u].msg = desc[u].msg /\ desc[u].msg # ring[p][1].msg
  BY <1>1, <1>3, <1>5, OthersStay DEF OnceInv, CarriedNotNamed
<1>6. ASSUME NEW q \in Rings, NEW i \in 1 .. Len(ring'[q])
      PROVE  /\ old(q, i) \in 1 .. Len(ring[q]) /\ ring'[q][i].msg = ring[q][old(q, i)].msg
             /\ ring[q][old(q, i)].msg # ring[p][1].msg
  BY <1>3 DEF OnceInv, OneDescriptor
<1>7. CarriedOnce'
  BY <1>5 DEF OnceInv, CarriedOnce
<1>8. CarriedNotNamed'
  BY <1>5, <1>6 DEF OnceInv, CarriedNotNamed
<1>9. OneDescriptor'
  <2> SUFFICES ASSUME NEW q \in Rings, NEW r \in Rings,
                      NEW i \in 1 .. Len(ring'[q]), NEW h \in 1 .. Len(ring'[r]),
                      ring'[q][i].msg = ring'[r][h].msg
               PROVE  q = r /\ i = h
    BY DEF OneDescriptor
  <2>1. /\ old(q, i) \in 1 .. Len(ring[q]) /\ old(r, h) \in 1 .. Len(ring[r])
        /\ ring[q][old(q, i)].msg = ring[r][old(r, h)].msg
    BY <1>6
  <2>2. q = r /\ old(q, i) = old(r, h)
    BY <2>1 DEF OnceInv, OneDescriptor
  <2> QED BY <1>4, <2>2
<1>10. CarriedSent'
  BY <1>3, <1>5 DEF OnceInv, CarriedSent, NamedSent
<1>11. NamedSent'
  BY <1>6 DEF OnceInv, NamedSent
<1> QED BY <1>7, <1>8, <1>9, <1>10, <1>11 DEF OnceInv

(***************************************************************************)
(* What the steps preserve: the threads and the rings.                     *)
(***************************************************************************)

LEMMA ThreadsKept == ASSUME ThreadInv, NEW t \in Threads, Moved(t) PROVE ThreadInv'
  BY DEF ThreadInv, Moved

LEMMA RingsKept ==
    ASSUME PathOK, RingInv, NEW t \in Threads, StepOf(t) \/ StartStep(t) PROVE RingInv'
<1>1. CASE ring' = ring
  BY <1>1 DEF RingInv
<1>2. CASE PutStep(t)
  <2>1. PICK p \in Rings, d \in Descs : Put(p, d) /\ InRing(p, d)
    BY <1>2 DEF PutStep
  <2> SUFFICES ASSUME NEW q \in Rings, NEW i \in 1 .. Len(ring'[q]) PROVE InRing(q, ring'[q][i])
    BY DEF RingInv
  <2>2. (q = p /\ ring'[q][i] = d) \/ (i \in 1 .. Len(ring[q]) /\ ring'[q][i] = ring[q][i])
    BY <2>1, PutFacts
  <2> QED BY <2>1, <2>2 DEF RingInv
<1>3. CASE GetStep(t)
  <2>1. PICK p \in Rings : Get(t, p)
    BY <1>3 DEF GetStep
  <2> SUFFICES ASSUME NEW q \in Rings, NEW i \in 1 .. Len(ring'[q]) PROVE InRing(q, ring'[q][i])
    BY DEF RingInv
  <2>2. \E h \in 1 .. Len(ring[q]) : ring'[q][i] = ring[q][h]
    <3>1. CASE q = p
      <4>1. i + 1 \in 1 .. Len(ring[p]) /\ ring'[p][i] = ring[p][i + 1]
        BY <2>1, <3>1, GetFacts
      <4> QED BY <3>1, <4>1
    <3>2. CASE q # p
      <4>1. ring'[q] = ring[q]
        BY <2>1, <3>2, GetFacts, Zenon
      <4> QED BY <4>1
    <3> QED BY <3>1, <3>2
  <2> QED BY <2>2 DEF RingInv
<1> QED BY <1>1, <1>2, <1>3 DEF StepOf, KeepStep, FreeStep, AllocStep, StartStep

\* The types of what the steps work on.
StoreType == /\ buf \in [Locs -> Messages \cup {Free}]
             /\ ring \in [Rings -> Seq(Descs)]
             /\ \A q \in Rings : Len(ring[q]) <= MaxDescriptors
             /\ pc \in [Threads -> PCs]
             /\ desc \in [Threads -> Descs \cup {NoDesc}]
             /\ copy \in [Threads -> Copies]

LEMMA StoreKept ==
    ASSUME PathOK, ThreadInv, NEW t \in Threads, StepOf(t) \/ StartStep(t) PROVE StoreType'
<1>1. Moved(t)
  BY DEF StepOf, KeepStep, FreeStep, AllocStep, PutStep, GetStep, StartStep
<1>2. buf' \in [Locs -> Messages \cup {Free}]
  <2>1. CASE buf' = buf
    BY <2>1 DEF PathOK
  <2>2. CASE FreeStep(t)
    BY <2>2 DEF FreeStep, FreeSlot, PathOK
  <2>3. CASE AllocStep(t)
    BY <2>3 DEF AllocStep, PathOK
  <2> QED BY <2>1, <2>2, <2>3 DEF StepOf, KeepStep, PutStep, GetStep, StartStep
<1>3. ring' \in [Rings -> Seq(Descs)] /\ \A q \in Rings : Len(ring'[q]) <= MaxDescriptors
  <2>1. CASE ring' = ring
    BY <2>1 DEF PathOK
  <2>2. CASE PutStep(t)
    <3>1. PICK p \in Rings, d \in Descs : Put(p, d) /\ ~RingFull(p)
      BY <2>2 DEF PutStep
    <3> QED BY <3>1, PutFacts, PutFits
  <2>3. CASE GetStep(t)
    <3>1. PICK p \in Rings : Get(t, p)
      BY <2>3 DEF GetStep
    <3> QED BY <3>1, GetFacts, GetFits
  <2> QED BY <2>1, <2>2, <2>3 DEF StepOf, KeepStep, FreeStep, AllocStep, StartStep
<1> QED BY <1>1, <1>2, <1>3 DEF StoreType, Moved

(***************************************************************************)
(* What the steps preserve: what has been sent, received and answered.     *)
(***************************************************************************)

\* The types of the rest.
AppType == /\ owed \in [Workers -> SUBSET Requests]
           /\ \A s \in Services : rr[s] \in 0 .. Len(WorkersOf[s])
           /\ events \subseteq Clients /\ answers \subseteq events
           /\ sent \subseteq Messages

LEMMA TypesTogether == StoreType /\ AppType /\ ServeInv <=> PathOK /\ ServeInv
  BY DEF StoreType, AppType, ServeInv, PathOK, Copies, Arrived

\* Steps of a thread that is no client, or that does not go back to the beginning.
ClientsOut == \A r \in Clients : pc'[r] = "idle" => pc[r] = "idle"

LEMMA NoClientMoves ==
    ASSUME NEW t \in Threads, t \notin Clients, Moved(t) PROVE ClientsOut
  BY Names DEF Moved, ClientsOut

LEMMA ClientGoes ==
    ASSUME PathOK, NEW r \in Clients, NEW l \in PCs \ {"idle"}, Goto(r, l) PROVE ClientsOut
  BY Names DEF Goto, PathOK, ClientsOut

LEMMA ServeKept ==
    ASSUME OwedInv, ServeInv, ClientsOut, UNCHANGED <<owed, sent>>,
           received \subseteq received', Arrived' \subseteq sent
    PROVE  OwedInv' /\ ServeInv'
<1>1. OwedInv'
  BY DEF OwedInv
<1>2. (Arrived \subseteq sent)'
  OBVIOUS
<1>3. (\A v, w \in Workers : owed[v] \cap owed[w] # {} => v = w)'
  BY DEF ServeInv
<1>4. (\A w \in Workers : \A r \in owed[w] :
          <<r, "request">> \in received /\ <<r, "response">> \notin sent)'
  BY DEF ServeInv
<1>5. (\A r \in Requests : <<r, "response">> \in sent => <<r, "request">> \in received)'
  BY DEF ServeInv
<1>6. (\A r \in Clients : pc[r] = "idle" => <<r, "request">> \notin sent)'
  BY DEF ServeInv, ClientsOut
<1> QED BY <1>1, <1>2, <1>3, <1>4, <1>5, <1>6 DEF ServeInv

\* The step of a thread, and what becomes of the messages.
Goes(t) ==
    /\ StepOf(t) \/ StartStep(t)
    /\ Arrived' \subseteq Arrived \/ Arrives(t)
    /\ sent \subseteq sent'

\* Most actions only move descriptors: of the rest they change nothing.
LEMMA QuietKept ==
    ASSUME PathInv, NEW t \in Threads, StepOf(t), ClientsOut,
           UNCHANGED <<owed, sent, received, events, answers>>,
           rr' = rr \/ \A s \in Services : rr'[s] \in 0 .. Len(WorkersOf[s])
    PROVE  PathInv' /\ Goes(t)
<1>1. PathOK /\ ThreadInv /\ RingInv /\ HoldInv /\ OwedInv /\ OnceInv /\ ServeInv
  BY DEF PathInv
<1>2. Moved(t)
  BY DEF StepOf, KeepStep, FreeStep, AllocStep, PutStep, GetStep
<1>3. Arrived' = Arrived
  BY DEF Arrived
<1>4. ThreadInv' /\ RingInv' /\ StoreType'
  BY <1>1, <1>2, ThreadsKept, RingsKept, StoreKept
<1>5. HoldInv'
  BY <1>1, HoldKept, HoldAlloc, HoldPut, HoldGet DEF StepOf
<1>6. OnceInv'
  BY <1>1, <1>3, OnceKept, OncePut, OnceGet DEF StepOf
<1>7. OwedInv' /\ ServeInv'
  BY <1>1, <1>3, ServeKept DEF ServeInv
<1>8. AppType'
  BY <1>1 DEF PathOK, AppType
<1>9. PathInv'
  BY <1>4, <1>5, <1>6, <1>7, <1>8, TypesTogether, PTL DEF PathInv
<1> QED BY <1>3, <1>9 DEF Goes

\* A message arrives, or a client leaves: nothing is put into a ring or taken off one.
LEMMA ArrivalKept ==
    ASSUME PathInv, NEW t \in Threads, KeepStep(t) \/ FreeStep(t), ClientsOut,
           sent' = sent, Arrived' \subseteq Arrived \/ Arrives(t),
           AppType', OwedInv', ServeInv'
    PROVE  PathInv' /\ Goes(t)
<1>1. PathOK /\ ThreadInv /\ RingInv /\ HoldInv /\ OwedInv /\ OnceInv /\ ServeInv
  BY DEF PathInv
<1>2. Moved(t) /\ StepOf(t)
  BY DEF StepOf, KeepStep, FreeStep
<1>3. ThreadInv' /\ RingInv' /\ StoreType'
  BY <1>1, <1>2, ThreadsKept, RingsKept, StoreKept
<1>4. HoldInv' /\ OnceInv'
  BY <1>1, HoldKept, OnceKept
<1>5. PathInv'
  BY <1>3, <1>4, TypesTogether, PTL DEF PathInv
<1> QED BY <1>2, <1>5 DEF Goes

LEMMA KeepsReadBody ==
    ASSUME PathInv, NEW w \in Workers, ReadBody(w) PROVE PathInv' /\ Goes(w)
<1> DEFINE m == desc[w].msg
<1>0. PathOK /\ ThreadInv /\ OwedInv /\ OnceInv /\ ServeInv
  BY DEF PathInv
<1>1. /\ w \in Threads /\ pc[w] = "readBody" /\ desc[w] \in Descs /\ ForWorker(m, w)
      /\ FreeSlot(desc[w].body) /\ Done(w, "idle") /\ ring' = ring
  BY <1>0, WorkerFacts DEF WorkerAt, ReadBody
<1>2. /\ sent' = sent /\ received' = received \cup {m} /\ answers' = answers /\ events' = events /\ rr' = rr
      /\ owed' = IF m[2] = "request" THEN [owed EXCEPT ![w] = @ \cup {m[1]}] ELSE owed
  BY DEF ReadBody, arm
<1>3. /\ m \in Messages /\ m[1] \in Requests /\ m[2] \in {"request", "response"} /\ m = <<m[1], m[2]>>
  BY <1>1 DEF Descs, Messages
<1> HIDE DEF m
<1>4. At(w, "idle", NoDesc, NoCopy) /\ "idle" \in PCs /\ "idle" \in Resting
  BY WorkerMoves DEF WorkerAt, PCs, Resting
<1>5. /\ Moved(w) /\ (\A k \in Kinds : Held(w, k)' = NoLoc) /\ Keeps(w, Kinds) /\ ~Carries(w)'
  BY <1>0, <1>1, <1>4, DoneMoves, DoneHasNothing
<1>6. FreeStep(w)
  <2>1. Held(w, "body") = desc[w].body
    BY <1>1 DEF Held, Has, BodyGone
  <2> QED BY <1>1, <1>5, <2>1 DEF FreeStep, Kinds
<1>7. ClientsOut
  BY <1>1, <1>5, NoClientMoves, Names
<1>8. Carries(w) /\ m \in sent \ Arrived
  BY <1>0, <1>1 DEF Carries, Resting, Dropping, OnceInv, CarriedSent, m
<1>9. Arrived' = Arrived \cup {m} /\ Arrives(w)
  BY <1>2, <1>5, <1>8 DEF Arrived, Arrives, m
<1>10. \A v \in Workers \ {w} : owed'[v] = owed[v]
  BY <1>0, <1>2 DEF PathOK
<1>11. \/ owed'[w] = owed[w] /\ owed' = owed
       \/ m[2] = "request" /\ owed'[w] = owed[w] \cup {m[1]}
  BY <1>0, <1>2 DEF PathOK
<1>12. m[2] = "request" =>
          /\ \A v \in Workers : m[1] \notin owed[v]
          /\ <<m[1], "request">> \in received' /\ <<m[1], "response">> \notin sent
  BY <1>0, <1>2, <1>3, <1>8 DEF ServeInv, Arrived
<1>13. OwedInv'
  BY <1>0, <1>1, <1>10, <1>11 DEF OwedInv, ForWorker, m
<1>14. ServeInv'
  <2>1. (Arrived \subseteq sent)'
    BY <1>0, <1>2, <1>8, <1>9 DEF ServeInv
  <2>2. (\A u, v \in Workers : owed[u] \cap owed[v] # {} => u = v)'
    BY <1>0, <1>10, <1>11, <1>12 DEF ServeInv
  <2>3. (\A v \in Workers : \A r \in owed[v] :
            <<r, "request">> \in received /\ <<r, "response">> \notin sent)'
    BY <1>0, <1>2, <1>10, <1>11, <1>12 DEF ServeInv
  <2>4. (\A r \in Requests : <<r, "response">> \in sent => <<r, "request">> \in received)'
    BY <1>0, <1>2 DEF ServeInv
  <2>5. (\A r \in Clients : pc[r] = "idle" => <<r, "request">> \notin sent)'
    BY <1>0, <1>2, <1>7 DEF ServeInv, ClientsOut
  <2> QED BY <2>1, <2>2, <2>3, <2>4, <2>5 DEF ServeInv
<1>15. AppType'
  <2>1. owed' \in [Workers -> SUBSET Requests]
    BY <1>0, <1>2, <1>3 DEF PathOK
  <2> QED BY <1>0, <1>2, <2>1 DEF PathOK, AppType
<1> QED BY <1>1, <1>2, <1>6, <1>7, <1>9, <1>13, <1>14, <1>15, ArrivalKept

LEMMA KeepsBridgeNotify ==
    ASSUME PathInv, BridgeNotify PROVE PathInv' /\ Goes(Arm)
<1> DEFINE m == desc[Arm].msg
<1>0. PathOK /\ ThreadInv /\ OwedInv /\ OnceInv /\ ServeInv
  BY DEF PathInv
<1>1. /\ Arm \in Threads /\ pc[Arm] = "bridgeNotify" /\ desc[Arm] \in Descs
      /\ m[2] = "response" /\ m[1] \in Clients
      /\ Done(Arm, "idle") /\ ring' = ring /\ buf' = buf
  BY <1>0, ArmFacts DEF ArmAt, BridgeNotify
<1>2. /\ UNCHANGED <<owed, sent, received, rr, events>>
      /\ answers' = answers \cup ({m[1]} \cap events)
  BY DEF BridgeNotify, app
<1>3. m = <<m[1], "response">>
  BY <1>1 DEF Descs, Messages
<1> HIDE DEF m
<1>4. Moved(Arm) /\ Keeps(Arm, Kinds) /\ ~Carries(Arm)'
  BY <1>0, <1>1, ArmDone
<1>5. KeepStep(Arm)
  BY <1>1, <1>4 DEF KeepStep
<1>6. ClientsOut
  BY <1>1, <1>4, NoClientMoves, Names
<1>7. Carries(Arm) /\ m \in sent \ Arrived
  BY <1>0, <1>1 DEF Carries, Resting, Dropping, OnceInv, CarriedSent, m
<1>8. Arrived' \subseteq Arrived \cup {m}
  BY <1>2, <1>3 DEF Arrived
<1>9. Arrives(Arm)
  BY <1>4, <1>7, <1>8 DEF Arrives, m
<1>10. OwedInv' /\ ServeInv'
  BY <1>0, <1>2, <1>6, <1>7, <1>8, ServeKept DEF ServeInv
<1>11. AppType'
  BY <1>0, <1>2 DEF PathOK, AppType
<1> QED BY <1>1, <1>2, <1>5, <1>6, <1>9, <1>10, <1>11, ArrivalKept

LEMMA KeepsClientLeaves ==
    ASSUME PathInv, NEW r \in Clients, ClientAnswered(r) \/ ClientTimeout(r) PROVE PathInv' /\ Goes(r)
<1>0. PathOK /\ ThreadInv /\ OwedInv /\ ServeInv /\ r \in Threads
  BY Names DEF PathInv
<1>1. /\ UNCHANGED <<owed, sent, rr, ring, buf>> /\ Forget(r) /\ Goto(r, "closed")
      /\ received' = received \/ (r \in answers /\ received' = received \cup {<<r, "response">>})
  BY DEF ClientAnswered, ClientTimeout, app
<1>2. KeepStep(r)
  <2>1. /\ pc[r] = "wait" /\ desc[r] = NoDesc /\ copy[r] = NoCopy /\ UNCHANGED <<desc, copy>>
    BY <1>0, ClientFacts DEF ClientAnswered, ClientTimeout, ClientAt
  <2>2. At(r, "closed", desc[r], copy[r]) /\ "closed" \in PCs /\ "closed" \in Resting
    BY <2>1, ClientMoves DEF ClientAt, PCs, Resting
  <2>3. Moved(r) /\ pc'[r] = "closed" /\ desc'[r] = NoDesc /\ copy'[r] = NoCopy
    BY <1>0, <1>1, <2>1, <2>2, GotoMoves
  <2>4. Keeps(r, Kinds)
    BY <1>0, <2>2, <2>3, DoneHasNothing
  <2> QED BY <1>1, <2>3, <2>4 DEF KeepStep
<1>3. ClientsOut
  BY <1>0, <1>1, ClientGoes DEF PCs
<1>4. Arrived' \subseteq Arrived
  BY <1>1 DEF Arrived, Forget
<1>5. OwedInv' /\ ServeInv'
  BY <1>0, <1>1, <1>3, <1>4, ServeKept DEF ServeInv
<1>6. AppType'
  BY <1>0, <1>1 DEF PathOK, AppType, Forget
<1> QED BY <1>0, <1>1, <1>2, <1>3, <1>4, <1>5, <1>6, ArrivalKept

\* A message sets out.
LEMMA StartKept ==
    ASSUME PathInv, NEW t \in Threads, StartStep(t), Arrived' = Arrived,
           AppType', OwedInv', ServeInv'
    PROVE  PathInv' /\ Goes(t)
<1>1. PathOK /\ ThreadInv /\ RingInv /\ HoldInv /\ OnceInv /\ Arrived \subseteq sent
  BY DEF PathInv, ServeInv
<1>2. Moved(t)
  BY DEF StartStep
<1>3. ThreadInv' /\ RingInv' /\ StoreType'
  BY <1>1, <1>2, ThreadsKept, RingsKept, StoreKept
<1>4. HoldInv' /\ OnceInv'
  BY <1>1, HoldStart, OnceStart
<1>5. PathInv'
  BY <1>3, <1>4, TypesTogether, PTL DEF PathInv
<1>6. sent \subseteq sent'
  BY DEF StartStep
<1> QED BY <1>5, <1>6 DEF Goes

LEMMA KeepsSubmit ==
    ASSUME PathInv, NEW w \in Workers, NEW r \in Requests, Submit(w, r) PROVE PathInv' /\ Goes(w)
<1> DEFINE m == <<r, "request">>
<1>0. PathOK /\ ThreadInv /\ OwedInv /\ ServeInv /\ w \in Threads /\ w \notin Clients
  BY Names DEF PathInv
<1>1. /\ Origin[r] = w /\ m \notin sent /\ sent' = sent \cup {m} /\ Begin(w, m)
      /\ UNCHANGED <<owed, received, rr, events, answers>>
  BY DEF Submit, Begin, arm
<1>2. m \in Messages /\ \A q : m # <<q, "response">>
  BY DEF Messages
<1>3. StartStep(w)
  BY <1>0, <1>1, <1>2, BeginStarts
<1>4. ClientsOut
  BY <1>0, <1>3, NoClientMoves DEF StartStep
<1>5. Arrived' = Arrived
  BY <1>1 DEF Arrived
<1>6. OwedInv'
  BY <1>0, <1>1 DEF OwedInv
<1>7. ServeInv'
  <2>1. (Arrived \subseteq sent)'
    BY <1>0, <1>1, <1>5 DEF ServeInv
  <2>2. (\A u, v \in Workers : owed[u] \cap owed[v] # {} => u = v)'
    BY <1>0, <1>1 DEF ServeInv
  <2>3. (\A v \in Workers : \A q \in owed[v] :
            <<q, "request">> \in received /\ <<q, "response">> \notin sent)'
    BY <1>0, <1>1, <1>2 DEF ServeInv
  <2>4. (\A q \in Requests : <<q, "response">> \in sent => <<q, "request">> \in received)'
    BY <1>0, <1>1 DEF ServeInv
  <2>5. (\A q \in Clients : pc[q] = "idle" => <<q, "request">> \notin sent)'
    <3>1. r \notin Clients
      BY <1>1, DataPathAssumption DEF Clients
    <3> QED BY <1>0, <1>1, <1>4, <3>1 DEF ServeInv, ClientsOut
  <2> QED BY <2>1, <2>2, <2>3, <2>4, <2>5 DEF ServeInv
<1>8. AppType'
  BY <1>0, <1>1, <1>2 DEF PathOK, AppType
<1> QED BY <1>0, <1>3, <1>5, <1>6, <1>7, <1>8, StartKept

LEMMA KeepsRespond ==
    ASSUME PathInv, NEW w \in Workers, NEW r \in Requests, Respond(w, r) PROVE PathInv' /\ Goes(w)
<1> DEFINE m == <<r, "response">>
<1>0. PathOK /\ ThreadInv /\ OwedInv /\ ServeInv /\ w \in Threads /\ w \notin Clients
  BY Names DEF PathInv
<1>1. /\ r \in owed[w] /\ owed' = [owed EXCEPT ![w] = owed[w] \ {r}]
      /\ sent' = sent \cup {m} /\ Begin(w, m)
      /\ UNCHANGED <<received, rr, events, answers>>
  BY DEF Respond, Begin, arm
<1>2. m \in Messages /\ m \notin sent
  BY <1>0, <1>1 DEF Messages, ServeInv
<1>3. StartStep(w)
  BY <1>0, <1>1, <1>2, BeginStarts
<1>4. ClientsOut
  BY <1>0, <1>3, NoClientMoves DEF StartStep
<1>5. Arrived' = Arrived
  BY <1>1 DEF Arrived
<1>6. \A v \in Workers : owed'[v] \subseteq owed[v] /\ r \notin owed'[v] /\ owed'[v] \subseteq Requests
  BY <1>0, <1>1 DEF PathOK, ServeInv
<1>7. OwedInv'
  BY <1>0, <1>6 DEF OwedInv
<1>8. ServeInv'
  <2>1. (Arrived \subseteq sent)'
    BY <1>0, <1>1, <1>5 DEF ServeInv
  <2>2. (\A u, v \in Workers : owed[u] \cap owed[v] # {} => u = v)'
    BY <1>0, <1>6 DEF ServeInv
  <2>3. (\A v \in Workers : \A q \in owed[v] :
            <<q, "request">> \in received /\ <<q, "response">> \notin sent)'
    <3> SUFFICES ASSUME NEW v \in Workers, NEW q \in owed'[v]
                 PROVE  <<q, "request">> \in received' /\ <<q, "response">> \notin sent'
      OBVIOUS
    <3>1. q \in owed[v] /\ q # r
      BY <1>6
    <3>2. <<q, "request">> \in received /\ <<q, "response">> \notin sent
      BY <1>0, <3>1 DEF ServeInv
    <3> QED BY <1>1, <3>1, <3>2
  <2>4. (\A q \in Requests : <<q, "response">> \in sent => <<q, "request">> \in received)'
    BY <1>0, <1>1 DEF ServeInv
  <2>5. (\A q \in Clients : pc[q] = "idle" => <<q, "request">> \notin sent)'
    BY <1>0, <1>1, <1>4 DEF ServeInv, ClientsOut
  <2> QED BY <2>1, <2>2, <2>3, <2>4, <2>5 DEF ServeInv
<1>9. AppType'
  <2>1. owed' \in [Workers -> SUBSET Requests]
    BY <1>0, <1>1 DEF PathOK
  <2> QED BY <1>0, <1>1, <1>2, <2>1 DEF PathOK, AppType
<1> QED BY <1>0, <1>3, <1>5, <1>7, <1>8, <1>9, StartKept

LEMMA KeepsClientOpen ==
    ASSUME PathInv, NEW r \in Clients, ClientOpen(r) PROVE PathInv' /\ Goes(r)
<1> DEFINE m == <<r, "request">>
           s == Target[r]
<1>0. PathOK /\ ThreadInv /\ OwedInv /\ ServeInv /\ r \in Threads /\ r \in Requests
  BY Names DEF PathInv
<1>1. /\ sent' = sent \cup {m} /\ events' = events \cup {r}
      /\ UNCHANGED <<owed, answers, received>>
  BY DEF ClientOpen
<1>2. m \in Messages /\ s \in Services
  BY <1>0, DataPathAssumption DEF Messages
<1>3. StartStep(r)
  BY <1>0, StartClientOpen
<1>4. ClientsOut /\ pc'[r] # "idle"
  <2>1. PICK l \in PCs \ {"idle"} : Goto(r, l)
    BY Zenon DEF ClientOpen, PCs
  <2> QED BY <1>0, <2>1, ClientGoes DEF Goto, PathOK
<1>5. Arrived' = Arrived
  BY <1>1 DEF Arrived
<1>6. OwedInv'
  BY <1>0, <1>1 DEF OwedInv
<1>7. ServeInv'
  <2>1. (Arrived \subseteq sent)'
    BY <1>0, <1>1, <1>5 DEF ServeInv
  <2>2. (\A u, v \in Workers : owed[u] \cap owed[v] # {} => u = v)'
    BY <1>0, <1>1 DEF ServeInv
  <2>3. (\A v \in Workers : \A q \in owed[v] :
            <<q, "request">> \in received /\ <<q, "response">> \notin sent)'
    BY <1>0, <1>1 DEF ServeInv
  <2>4. (\A q \in Requests : <<q, "response">> \in sent => <<q, "request">> \in received)'
    BY <1>0, <1>1 DEF ServeInv
  <2>5. (\A q \in Clients : pc[q] = "idle" => <<q, "request">> \notin sent)'
    BY <1>0, <1>1, <1>4 DEF ServeInv, ClientsOut
  <2> QED BY <2>1, <2>2, <2>3, <2>4, <2>5 DEF ServeInv
<1>8. AppType'
  <2>1. \A q \in Services : rr'[q] \in 0 .. Len(WorkersOf[q])
    <3>1. CASE WorkersOf[s] = <<>>
      <4>1. rr' = rr
        BY <3>1, Zenon DEF ClientOpen
      <4> QED BY <1>0, <4>1 DEF PathOK
    <3>2. CASE WorkersOf[s] # <<>>
      <4>1. rr' = [rr EXCEPT ![s] = (rr[s] % Len(WorkersOf[s])) + 1]
        BY <3>2, Zenon DEF ClientOpen, Advance
      <4> QED BY <1>0, <1>2, <3>2, <4>1, SelectedFacts DEF PathOK
    <3> QED BY <3>1, <3>2
  <2> QED BY <1>0, <1>1, <1>2, <2>1 DEF PathOK, AppType
<1> QED BY <1>0, <1>3, <1>5, <1>6, <1>7, <1>8, StartKept

(***************************************************************************)
(* The invariant is inductive.                                             *)
(***************************************************************************)

\* A step of a thread that is no client, and that changes nothing but its descriptor.
LEMMA KeepsQuiet ==
    ASSUME PathInv, NEW t \in Threads, t \notin Clients, StepOf(t), UNCHANGED <<app, arm>>
    PROVE PathInv' /\ Goes(t)
<1>1. ClientsOut
  BY NoClientMoves DEF StepOf, KeepStep, FreeStep, AllocStep, PutStep, GetStep
<1>2. UNCHANGED <<owed, sent, received, events, answers, rr>>
  BY DEF app, arm
<1> QED BY <1>1, <1>2, QuietKept

LEMMA KeepsWorker ==
    ASSUME PathInv, NEW w \in Workers, WorkerStep(w) PROVE PathInv' /\ Goes(w)
<1>0. PathOK /\ ThreadInv /\ RingInv /\ w \in Threads /\ w \notin Clients
  BY Names DEF PathInv
<1>1. CASE \E r \in Requests : Respond(w, r)
  BY <1>1, KeepsRespond
<1>2. CASE AllocHeader(w)
  <2>1. UNCHANGED <<app, arm>>
    BY <1>2 DEF AllocHeader
  <2> QED BY <1>0, <1>2, <2>1, StepAllocHeader, KeepsQuiet
<1>3. CASE AllocBody(w)
  <2>1. UNCHANGED <<app, arm>>
    BY <1>3 DEF AllocBody
  <2> QED BY <1>0, <1>3, <2>1, StepAllocBody, KeepsQuiet
<1>4. CASE PutTx(w)
  <2>1. UNCHANGED <<app, arm>>
    BY <1>4 DEF PutTx
  <2> QED BY <1>0, <1>4, <2>1, StepPutTx, KeepsQuiet
<1>5. CASE UndoHeader(w)
  <2>1. UNCHANGED <<app, arm>>
    BY <1>5 DEF UndoHeader
  <2> QED BY <1>0, <1>5, <2>1, StepUndoHeader, KeepsQuiet
<1>6. CASE UndoBody(w)
  <2>1. UNCHANGED <<app, arm>>
    BY <1>6 DEF UndoBody
  <2> QED BY <1>0, <1>6, <2>1, StepUndoBody, KeepsQuiet
<1>7. CASE TakeRx(w)
  <2>1. UNCHANGED <<app, arm>>
    BY <1>7 DEF TakeRx
  <2> QED BY <1>0, <1>7, <2>1, StepTakeRx, KeepsQuiet
<1>8. CASE ReadHeader(w)
  <2>1. UNCHANGED <<app, arm>>
    BY <1>8 DEF ReadHeader
  <2> QED BY <1>0, <1>8, <2>1, StepReadHeader, KeepsQuiet
<1>9. CASE ReadBody(w)
  BY <1>9, KeepsReadBody
<1> QED BY <1>1, <1>2, <1>3, <1>4, <1>5, <1>6, <1>7, <1>8, <1>9 DEF WorkerStep

LEMMA KeepsDpaTx ==
    ASSUME PathInv, DpaTxStep PROVE PathInv' /\ Goes(DpaTx)
<1>0. /\ PathOK /\ ThreadInv /\ RingInv /\ HoldInv
      /\ DpaTx \in Threads /\ DpaTx \notin Clients
  BY Names DEF PathInv
<1>1. UNCHANGED <<app, arm>>
  BY DEF DpaTxStep, TxGet, TxCopy, TxRequeue, TxFree, TxPut, TxUndo
<1>2. StepOf(DpaTx)
  BY <1>0, StepTxGet, StepTxCopy, StepTxRequeue, StepTxFree, StepTxPut, StepTxUndo DEF DpaTxStep
<1> QED BY <1>0, <1>1, <1>2, KeepsQuiet

LEMMA KeepsRoute ==
    ASSUME PathInv, Route PROVE PathInv' /\ Goes(Arm)
<1> DEFINE m == desc[Arm].msg
           s == Target[m[1]]
<1>0. /\ PathOK /\ ThreadInv /\ HoldInv /\ Arm \in Threads /\ Arm \notin Clients
  BY Names DEF PathInv
<1>1. desc[Arm] \in Descs /\ buf[desc[Arm].header] = m
  BY <1>0, RouteReads DEF Route
<1>2. m[1] \in Requests /\ s \in Services
  BY <1>1, DataPathAssumption DEF Descs, Messages
<1>3. UNCHANGED <<owed, sent, received, events, answers>>
  BY DEF Route, app
<1>4. StepOf(Arm)
  BY <1>0, StepRoute
<1>5. ClientsOut
  BY <1>0, <1>4, NoClientMoves DEF StepOf, KeepStep, FreeStep, AllocStep, PutStep, GetStep
<1>6. rr' = rr \/ (WorkersOf[s] # <<>> /\ rr' = [rr EXCEPT ![s] = (rr[s] % Len(WorkersOf[s])) + 1])
  BY <1>1, Zenon DEF Route, Advance
<1> HIDE DEF m, s
<1>7. rr' = rr \/ \A q \in Services : rr'[q] \in 0 .. Len(WorkersOf[q])
  <2>1. CASE rr' = rr
    BY <2>1
  <2>2. CASE WorkersOf[s] # <<>> /\ rr' = [rr EXCEPT ![s] = (rr[s] % Len(WorkersOf[s])) + 1]
    <3>1. (rr[s] % Len(WorkersOf[s])) + 1 \in 0 .. Len(WorkersOf[s])
      BY <1>0, <1>2, <2>2, SelectedFacts
    <3> QED BY <1>0, <2>2, <3>1 DEF PathOK
  <2> QED BY <1>6, <2>1, <2>2
<1> QED BY <1>0, <1>3, <1>4, <1>5, <1>7, QuietKept

LEMMA KeepsArm ==
    ASSUME PathInv, ArmStep PROVE PathInv' /\ Goes(Arm)
<1>0. PathOK /\ ThreadInv /\ RingInv /\ Arm \in Threads /\ Arm \notin Clients
  BY Names DEF PathInv
<1>1. CASE Route
  BY <1>1, KeepsRoute
<1>2. CASE BridgeNotify
  BY <1>2, KeepsBridgeNotify
<1>3. CASE ArmGet \/ PutRx \/ CleanBody \/ CleanHeader \/ BridgeBody \/ BridgeHeader
  <2>1. UNCHANGED <<app, arm>>
    BY <1>3 DEF ArmGet, PutRx, CleanBody, CleanHeader, BridgeBody, BridgeHeader
  <2>2. StepOf(Arm)
    BY <1>0, <1>3, StepArmGet, StepPutRx, StepCleanBody, StepCleanHeader, StepBridgeBody, StepBridgeHeader
  <2> QED BY <1>0, <2>1, <2>2, KeepsQuiet
<1> QED BY <1>1, <1>2, <1>3 DEF ArmStep

LEMMA KeepsClient ==
    ASSUME PathInv, NEW r \in Clients, ClientStep(r) \/ ClientTimeout(r) PROVE PathInv' /\ Goes(r)
<1>0. PathOK /\ ThreadInv /\ r \in Threads
  BY Names DEF PathInv
<1>1. CASE ClientAnswered(r) \/ ClientTimeout(r)
  BY <1>1, KeepsClientLeaves
<1>2. CASE ClientAlloc(r) \/ ClientPut(r) \/ ClientUndo(r)
  <2>1. UNCHANGED <<owed, sent, received, events, answers, rr>>
    BY <1>2 DEF ClientAlloc, ClientPut, ClientUndo, app, arm
  <2>2. StepOf(r)
    BY <1>0, <1>2, StepClientAlloc, StepClientPut, StepClientUndo
  <2>3. \E l \in PCs \ {"idle"} : Goto(r, l)
    <3>1. Goto(r, "closed") \/ Goto(r, "clientUndo") \/ Goto(r, "clientPut") \/ Goto(r, "wait")
      BY <1>2, Zenon DEF ClientAlloc, ClientPut, ClientUndo, Done
    <3> QED BY <3>1 DEF PCs
  <2>4. ClientsOut
    BY <1>0, <2>3, ClientGoes
  <2> QED BY <1>0, <2>1, <2>2, <2>4, QuietKept
<1> QED BY <1>1, <1>2 DEF ClientStep

LEMMA KeepsDpaRx ==
    ASSUME PathInv, DpaRxStep PROVE PathInv' /\ Goes(DpaRx)
<1>0. /\ PathOK /\ ThreadInv /\ RingInv /\ HoldInv
      /\ DpaRx \in Threads /\ DpaRx \notin Clients
  BY Names DEF PathInv
<1>1. UNCHANGED <<app, arm>>
  BY DEF DpaRxStep, RxGet, RxCopyBody, RxRequeue, RxFreeBody, RxCopyHeader, RxFreeHeader, RxPut,
         RxUndoBody, RxUndoHeader
<1>2. StepOf(DpaRx)
  BY <1>0, StepRxGet, StepRxCopyBody, StepRxRequeue, StepRxFreeBody, StepRxCopyHeader,
     StepRxFreeHeader, StepRxPut, StepRxUndoBody, StepRxUndoHeader DEF DpaRxStep
<1> QED BY <1>0, <1>1, <1>2, KeepsQuiet

LEMMA NothingMoves == ASSUME PathInv, UNCHANGED path PROVE PathInv'
<1>1. PathOK' /\ ThreadInv' /\ RingInv' /\ OwedInv'
  BY DEF PathInv, path, PathOK, ThreadInv, RingInv, OwedInv
<1>2. HoldInv'
  BY DEF PathInv, path, HoldInv, HeldHolds, NamedHolds, HeldOnce, HeldNotNamed, NamedOnce, Held, Named
<1>3. OnceInv'
  BY DEF PathInv, path, OnceInv, CarriedOnce, CarriedNotNamed, OneDescriptor, CarriedSent, NamedSent,
         Carries, Arrived
<1>4. ServeInv'
  BY DEF PathInv, path, ServeInv, Arrived
<1> QED BY <1>1, <1>2, <1>3, <1>4 DEF PathInv

LEMMA Starts == Init => PathInv
<1> SUFFICES ASSUME Init PROVE PathInv
  OBVIOUS
<1>1. /\ \A l \in Locs : buf[l] = Free
      /\ \A q \in Rings : ring[q] = <<>> /\ Len(ring[q]) = 0
      /\ \A t \in Threads : pc[t] = "idle" /\ desc[t] = NoDesc /\ copy[t] = NoCopy
      /\ \A w \in Workers : owed[w] = {}
      /\ events = {} /\ answers = {} /\ sent = {} /\ received = {}
  BY DEF Init
<1>2. PathOK
  <2>1. \A s \in Services : Len(WorkersOf[s]) \in Nat
    BY DataPathAssumption
  <2>2. AppType
    BY <2>1 DEF Init, AppType
  <2>3. StoreType
    <3>1. buf \in [Locs -> Messages \cup {Free}] /\ ring \in [Rings -> Seq(Descs)]
      BY DEF Init
    <3>2. pc \in [Threads -> PCs] /\ desc \in [Threads -> Descs \cup {NoDesc}]
      BY DEF Init, PCs
    <3>3. copy \in [Threads -> Copies]
      BY DescFacts DEF Init, Copies
    <3> QED BY <1>1, <3>1, <3>2, <3>3, DataPathAssumption DEF StoreType
  <2> QED BY <1>1, <2>2, <2>3 DEF PathOK, StoreType, AppType, Copies
<1>3. ThreadInv
  BY <1>1, Names DEF ThreadInv, At, WorkerAt, TxAt, ArmAt, RxAt, ClientAt
<1>4. RingInv
  BY <1>1 DEF RingInv
<1>5. HoldInv
  <2>1. \A t \in Threads : \A k \in Kinds : Held(t, k) = NoLoc
    BY <1>1, DescFacts DEF Held, Has, Kinds
  <2> QED BY <1>1, <2>1 DEF HoldInv, HeldHolds, NamedHolds, HeldOnce, HeldNotNamed, NamedOnce
<1>6. OnceInv
  <2>1. \A t \in Threads : ~Carries(t)
    BY <1>1 DEF Carries, Resting
  <2> QED BY <1>1, <2>1 DEF OnceInv, CarriedOnce, CarriedNotNamed, OneDescriptor, CarriedSent, NamedSent
<1>7. OwedInv
  BY <1>1 DEF OwedInv
<1>8. ServeInv
  BY <1>1 DEF ServeInv, Arrived
<1> QED BY <1>2, <1>3, <1>4, <1>5, <1>6, <1>7, <1>8 DEF PathInv

LEMMA StepKeeps == ASSUME PathInv, Step PROVE PathInv' /\ \E t \in Threads : Goes(t)
<1>1. CASE \E w \in Workers : WorkerStep(w) \/ \E r \in Requests : Submit(w, r)
  BY <1>1, KeepsWorker, KeepsSubmit, Names
<1>2. CASE DpaTxStep \/ ArmStep \/ DpaRxStep
  BY <1>2, KeepsDpaTx, KeepsArm, KeepsDpaRx, Names
<1>3. CASE \E r \in Clients : ClientOpen(r) \/ ClientStep(r) \/ ClientTimeout(r)
  BY <1>3, KeepsClientOpen, KeepsClient, Names
<1> QED BY <1>1, <1>2, <1>3 DEF Step

\* A collision changes nothing but `collided'.
LEMMA NextIsStep == ASSUME [Next]_vars PROVE [Step]_path
  BY DEF vars, Next, Alone, Collide

LEMMA InvariantKept == Spec => []PathInv
<1>1. Init => PathInv
  BY Starts
<1>2. PathInv /\ [Next]_vars => PathInv'
  BY StepKeeps, NothingMoves, NextIsStep
<1> QED BY <1>1, <1>2, PTL DEF Spec

\* As long as no two threads have been in one pool through one mmap object, each thread has
\* what the line it is at says, each descriptor what its ring says, and each slot that
\* somebody has the message of the one who has it.
THEOREM PathInvariant == Spec => [](~collided => PathInv)
  BY InvariantKept, PTL

(***************************************************************************)
(* Theorems.                                                               *)
(***************************************************************************)

\* Every variable has the values that the code gives it.
THEOREM PathType == Spec => []TypeOK
<1>1. Init => collided \in BOOLEAN
  BY DEF Init
<1>2. collided \in BOOLEAN /\ [Next]_vars => (collided \in BOOLEAN)'
  BY DEF Next, Alone, Collide, vars
<1>3. PathInv /\ collided \in BOOLEAN => TypeOK
  BY DEF PathInv, TypeOK
<1> QED BY <1>1, <1>2, <1>3, InvariantKept, PTL DEF Spec

\* A thread's slots, and those of a place in a ring, one by one.
LEMMA HeldByThread ==
    ASSUME NEW t \in Threads, NEW l \in HeldBy(t)
    PROVE  l # NoLoc /\ \E k \in Kinds : Held(t, k) = l
  BY DEF HeldBy, Held, Has, Kinds

LEMMA OwnerParts ==
    ASSUME NEW o \in Owners
    PROVE  \/ /\ o.at \in Threads /\ o.msg = desc[o.at].msg
              /\ \A l \in o.locs : l # NoLoc /\ \E k \in Kinds : Held(o.at, k) = l
           \/ \E q \in Rings : \E i \in 1 .. Len(ring[q]) :
                 /\ o.at = <<q, i>> /\ i \in 1 .. MaxDescriptors /\ o.msg = ring[q][i].msg
                 /\ \A l \in o.locs : l # NoLoc /\ \E k \in Parts : Named(q, i, k) = l
<1>1. CASE o \in {[at |-> t, msg |-> desc[t].msg, locs |-> HeldBy(t)] : t \in Threads}
  <2>1. PICK t \in Threads : o = [at |-> t, msg |-> desc[t].msg, locs |-> HeldBy(t)]
    BY <1>1
  <2>2. o.at = t /\ o.msg = desc[t].msg /\ o.locs = HeldBy(t)
    BY <2>1
  <2> QED BY <2>2, HeldByThread
<1>2. CASE o \in {[at |-> x, msg |-> ring[x[1]][x[2]].msg,
                   locs |-> {ring[x[1]][x[2]].header, ring[x[1]][x[2]].body} \ {NoLoc}] : x \in InRings}
  <2>1. PICK x \in InRings :
           o = [at |-> x, msg |-> ring[x[1]][x[2]].msg,
                locs |-> {ring[x[1]][x[2]].header, ring[x[1]][x[2]].body} \ {NoLoc}]
    BY <1>2
  <2>2. PICK q \in Rings, i \in 1 .. MaxDescriptors : x = <<q, i>> /\ i <= Len(ring[q])
    BY <2>1 DEF InRings
  <2>3. /\ o.at = <<q, i>> /\ o.msg = ring[q][i].msg
        /\ o.locs = {ring[q][i].header, ring[q][i].body} \ {NoLoc}
    BY <2>1, <2>2
  <2>4. \A l \in o.locs : l # NoLoc /\ \E k \in Parts : Named(q, i, k) = l
    BY <2>3 DEF Named, Part, Parts
  <2>5. i \in 1 .. Len(ring[q])
    BY <2>2
  <2> QED BY <2>2, <2>3, <2>4, <2>5
<1> QED BY <1>1, <1>2 DEF Owners

\* Threads and places of rings are told apart by their names.
LEMMA OwnerIsThread ==
    ASSUME NEW o \in Owners, o.at \in Threads
    PROVE  /\ o.msg = desc[o.at].msg
           /\ \A l \in o.locs : l # NoLoc /\ \E k \in Kinds : Held(o.at, k) = l
<1>1. ASSUME NEW q \in Rings, NEW i \in 1 .. MaxDescriptors, o.at = <<q, i>> PROVE FALSE
  <2>1. o.at \in Rings \X (1 .. MaxDescriptors)
    BY <1>1
  <2> QED BY <2>1, DataPathNames
<1> QED BY <1>1, OwnerParts

\* Before a collision, a slot that a descriptor or a thread names holds its message and
\* nobody else names it.
THEOREM NoSlotTwice == Spec => []Custody
<1>1. ASSUME HoldInv PROVE Custody
  <2>1. ASSUME NEW o \in Owners, NEW l \in o.locs PROVE buf[l] = o.msg
    BY <1>1, <2>1, OwnerParts DEF HoldInv, HeldHolds, NamedHolds
  <2>2. ASSUME NEW o \in Owners, NEW p \in Owners, o.at # p.at, NEW l \in o.locs, l \in p.locs PROVE FALSE
    <3>1. CASE o.at \in Threads /\ p.at \in Threads
      <4>1. PICK j \in Kinds : Held(o.at, j) = l /\ l # NoLoc
        BY <2>2, <3>1, OwnerIsThread
      <4>2. PICK k \in Kinds : Held(p.at, k) = l
        BY <2>2, <3>1, OwnerIsThread
      <4> QED BY <1>1, <2>2, <3>1, <4>1, <4>2 DEF HoldInv, HeldOnce
    <3>2. CASE o.at \in Threads /\ p.at \notin Threads
      <4>1. PICK j \in Kinds : Held(o.at, j) = l /\ l # NoLoc
        BY <2>2, <3>2, OwnerIsThread
      <4>2. PICK q \in Rings : \E i \in 1 .. Len(ring[q]) : \E k \in Parts : Named(q, i, k) = l
        BY <2>2, <3>2, OwnerParts
      <4> QED BY <1>1, <3>2, <4>1, <4>2 DEF HoldInv, HeldNotNamed
    <3>3. CASE o.at \notin Threads /\ p.at \in Threads
      <4>1. PICK j \in Kinds : Held(p.at, j) = l /\ l # NoLoc
        BY <2>2, <3>3, OwnerIsThread
      <4>2. PICK q \in Rings : \E i \in 1 .. Len(ring[q]) : \E k \in Parts : Named(q, i, k) = l
        BY <2>2, <3>3, OwnerParts
      <4> QED BY <1>1, <3>3, <4>1, <4>2 DEF HoldInv, HeldNotNamed
    <3>4. CASE o.at \notin Threads /\ p.at \notin Threads
      <4>1. PICK q \in Rings : \E i \in 1 .. Len(ring[q]) :
               o.at = <<q, i>> /\ \E k \in Parts : Named(q, i, k) = l /\ l # NoLoc
        BY <2>2, <3>4, OwnerParts
      <4>2. PICK i \in 1 .. Len(ring[q]) : o.at = <<q, i>> /\ \E k \in Parts : Named(q, i, k) = l /\ l # NoLoc
        BY <4>1
      <4>3. PICK r \in Rings : \E h \in 1 .. Len(ring[r]) :
               p.at = <<r, h>> /\ \E k \in Parts : Named(r, h, k) = l
        BY <2>2, <3>4, OwnerParts
      <4>4. PICK h \in 1 .. Len(ring[r]) : p.at = <<r, h>> /\ \E k \in Parts : Named(r, h, k) = l
        BY <4>3
      <4>5. q = r /\ i = h
        BY <1>1, <4>2, <4>4 DEF HoldInv, NamedOnce
      <4> QED BY <2>2, <4>2, <4>4, <4>5
    <3> QED BY <3>1, <3>2, <3>3, <3>4
  <2> QED BY <2>1, <2>2 DEF Custody
<1>2. PathInv => Custody
  BY <1>1 DEF PathInv
<1> QED BY <1>2, InvariantKept, PTL

\* Before a collision, a request reaches a worker of the service it names, a response the
\* worker that asked.
THEOREM RightWorker == Spec => []Addressed
<1>1. PathInv => Addressed
  <2> SUFFICES ASSUME PathInv, NEW w \in Workers
               PROVE  /\ \A i \in 1 .. Len(ring[<<"rx", w>>]) : ForWorker(ring[<<"rx", w>>][i].msg, w)
                      /\ pc[w] \in {"readHeader", "readBody"} => ForWorker(desc[w].msg, w)
                      /\ \A r \in owed[w] : Target[r] = ServiceOf[w]
    BY DEF Addressed
  <2>1. \A i \in 1 .. Len(ring[<<"rx", w>>]) : ForWorker(ring[<<"rx", w>>][i].msg, w)
    BY Names DEF PathInv, RingInv, InRing
  <2>2. pc[w] \in {"readHeader", "readBody"} => ForWorker(desc[w].msg, w)
    BY WorkerFacts DEF PathInv, WorkerAt
  <2>3. \A r \in owed[w] : Target[r] = ServiceOf[w]
    BY DEF PathInv, OwedInv
  <2> QED BY <2>1, <2>2, <2>3
<1> QED BY <1>1, InvariantKept, PTL

\* A message is in one place at most, and nowhere once it has arrived.
LEMMA CarrierPlaces ==
    ASSUME PathOK, ThreadInv, NEW o \in Carriers
    PROVE  \/ o.at \in Threads /\ Carries(o.at) /\ o.msg = desc[o.at].msg
           \/ o.at \notin Threads /\ \E q \in Rings : \E i \in 1 .. Len(ring[q]) :
                 o.at = <<q, i>> /\ o.msg = ring[q][i].msg
<1>1. o \in Owners /\ o.msg # None /\ ~(o.at \in Threads /\ pc[o.at] \in Dropping)
  BY DEF Carriers
<1>2. CASE o.at \in Threads /\ o.msg = desc[o.at].msg
  <2>1. desc[o.at] # NoDesc
    BY <1>1, <1>2, DescFacts
  <2>2. pc[o.at] \notin Resting
    BY <1>2, <2>1 DEF ThreadInv, At, WorkerAt, TxAt, ArmAt, RxAt, ClientAt, Resting
  <2> QED BY <1>1, <1>2, <2>2 DEF Carries
<1>3. CASE o.at \in Threads
  BY <1>1, <1>2, <1>3, OwnerIsThread
<1>4. CASE o.at \notin Threads
  BY <1>1, <1>4, OwnerParts
<1> QED BY <1>3, <1>4

\* Before a collision, a message is under way in one place at most, and nowhere once it has
\* arrived.
THEOREM OnePlaceOnly == Spec => []AtMostOnce
<1>1. ASSUME PathOK, ThreadInv, OnceInv PROVE AtMostOnce
  <2>1. ASSUME NEW o \in Carriers PROVE o.msg \notin Arrived
    BY <1>1, CarrierPlaces DEF OnceInv, CarriedSent, NamedSent
  <2>2. ASSUME NEW o \in Carriers, NEW p \in Carriers, o.msg = p.msg PROVE o.at = p.at
    <3>1. CASE o.at \in Threads /\ p.at \in Threads
      <4>1. Carries(o.at) /\ o.msg = desc[o.at].msg /\ Carries(p.at) /\ p.msg = desc[p.at].msg
        BY <1>1, <3>1, CarrierPlaces
      <4> QED BY <1>1, <2>2, <3>1, <4>1 DEF OnceInv, CarriedOnce
    <3>2. CASE o.at \in Threads /\ p.at \notin Threads
      <4>1. Carries(o.at) /\ o.msg = desc[o.at].msg
        BY <1>1, <3>2, CarrierPlaces
      <4>2. \E q \in Rings : \E i \in 1 .. Len(ring[q]) : p.msg = ring[q][i].msg
        BY <1>1, <3>2, CarrierPlaces
      <4> QED BY <1>1, <2>2, <3>2, <4>1, <4>2 DEF OnceInv, CarriedNotNamed
    <3>3. CASE o.at \notin Threads /\ p.at \in Threads
      <4>1. Carries(p.at) /\ p.msg = desc[p.at].msg
        BY <1>1, <3>3, CarrierPlaces
      <4>2. \E q \in Rings : \E i \in 1 .. Len(ring[q]) : o.msg = ring[q][i].msg
        BY <1>1, <3>3, CarrierPlaces
      <4> QED BY <1>1, <2>2, <3>3, <4>1, <4>2 DEF OnceInv, CarriedNotNamed
    <3>4. CASE o.at \notin Threads /\ p.at \notin Threads
      <4>1. PICK q \in Rings : \E i \in 1 .. Len(ring[q]) : o.at = <<q, i>> /\ o.msg = ring[q][i].msg
        BY <1>1, <3>4, CarrierPlaces
      <4>2. PICK i \in 1 .. Len(ring[q]) : o.at = <<q, i>> /\ o.msg = ring[q][i].msg
        BY <4>1
      <4>3. PICK r \in Rings : \E h \in 1 .. Len(ring[r]) : p.at = <<r, h>> /\ p.msg = ring[r][h].msg
        BY <1>1, <3>4, CarrierPlaces
      <4>4. PICK h \in 1 .. Len(ring[r]) : p.at = <<r, h>> /\ p.msg = ring[r][h].msg
        BY <4>3
      <4>5. ring[q][i].msg = ring[r][h].msg
        BY <2>2, <4>2, <4>4
      <4>6. q = r /\ i = h
        BY <1>1, <4>5 DEF OnceInv, OneDescriptor
      <4> QED BY <4>2, <4>4, <4>6
    <3> QED BY <3>1, <3>2, <3>3, <3>4
  <2> QED BY <2>1, <2>2 DEF AtMostOnce
<1>2. PathInv => AtMostOnce
  BY <1>1 DEF PathInv
<1> QED BY <1>2, InvariantKept, PTL

(***************************************************************************)
(* Clients that are refused, and the tables of the bridge.                 *)
(***************************************************************************)

\* A message that nobody carries any more and that has not arrived.
Gone(m) ==
    /\ m \in sent \ Arrived
    /\ \A t \in Threads : Carries(t) => desc[t].msg # m
    /\ \A q \in Rings : \A i \in 1 .. Len(ring[q]) : ring[q][i].msg # m

\* Lost is what nobody carries any more and has not arrived.
LEMMA LostAreGone == PathInv => \A m : m \in Lost <=> Gone(m)
<1> SUFFICES ASSUME PathInv, NEW m PROVE m \in Lost <=> Gone(m)
  OBVIOUS
<1>0. PathOK /\ ThreadInv
  BY DEF PathInv
<1>1. ASSUME NEW t \in Threads, m \in sent
      PROVE  (pc[t] \notin Dropping /\ desc[t].msg = m) <=> (Carries(t) /\ desc[t].msg = m)
  <2>1. m # None
    BY <1>0, <1>1, DataPathNames DEF PathOK
  <2>2. NoDesc.msg = None
    BY DEF NoDesc
  <2>3. pc[t] \in Resting => desc[t] = NoDesc
    BY <1>0 DEF Resting, ThreadInv, At, WorkerAt, TxAt, ArmAt, RxAt, ClientAt
  <2> QED BY <2>1, <2>2, <2>3 DEF Carries
<1>2. m \in {ring[x[1]][x[2]].msg : x \in InRings}
         <=> \E q \in Rings : \E i \in 1 .. Len(ring[q]) : ring[q][i].msg = m
  <2>1. ASSUME NEW q \in Rings, NEW i \in 1 .. Len(ring[q])
        PROVE  <<q, i>> \in InRings
    <3>1. Len(ring[q]) \in Nat /\ MaxDescriptors \in Nat /\ Len(ring[q]) <= MaxDescriptors
      BY <1>0, DataPathAssumption DEF PathOK
    <3> QED BY <3>1 DEF InRings
  <2>2. ASSUME NEW x \in InRings
        PROVE  \E q \in Rings : \E i \in 1 .. Len(ring[q]) : x = <<q, i>>
    BY DEF InRings
  <2>3. ASSUME NEW x \in InRings, ring[x[1]][x[2]].msg = m
        PROVE  \E q \in Rings : \E i \in 1 .. Len(ring[q]) : ring[q][i].msg = m
    BY <2>2, <2>3
  <2>4. ASSUME NEW q \in Rings, NEW i \in 1 .. Len(ring[q]), ring[q][i].msg = m
        PROVE  \E x \in InRings : ring[x[1]][x[2]].msg = m
    <3> DEFINE x == <<q, i>>
    <3>1. x \in InRings /\ x[1] = q /\ x[2] = i
      BY <2>1
    <3> HIDE DEF x
    <3> QED BY <2>4, <3>1
  <2> QED BY <2>3, <2>4
<1> QED BY <1>1, <1>2 DEF Lost, Carried, Gone

\* A client that is refused, from the time its request is dropped.
Refused(r) == pc[r] = "clientUndo" \/ (pc[r] = "closed" /\ r \in events)
RefusedInv == \A r \in Clients : Refused(r) => Gone(<<r, "request">>)

LEMMA GoneStays ==
    ASSUME PathInv, NEW t \in Threads, Goes(t), NEW m, Gone(m) PROVE Gone(m)'
<1>0. PathOK
  BY DEF PathInv
<1>1. Moved(t)
  BY DEF Goes, StepOf, KeepStep, FreeStep, AllocStep, PutStep, GetStep, StartStep
<1>2. (m \in sent \ Arrived)'
  BY DEF Goes, Arrives, Gone
<1>3. Carries(t)' => desc'[t].msg # m
  <2>1. CASE KeepStep(t) \/ FreeStep(t) \/ AllocStep(t)
    BY <2>1 DEF KeepStep, FreeStep, AllocStep, Keeps, Gone
  <2>2. CASE PutStep(t)
    BY <2>2 DEF PutStep
  <2>3. CASE GetStep(t)
    <3>1. PICK p \in Rings : Get(t, p)
      BY <2>3 DEF GetStep
    <3>2. desc'[t] = ring[p][1] /\ 1 \in 1 .. Len(ring[p])
      BY <1>0, <3>1, GetFacts
    <3> QED BY <3>2 DEF Gone
  <2>4. CASE StartStep(t)
    BY <2>4 DEF StartStep, Gone
  <2> QED BY <2>1, <2>2, <2>3, <2>4 DEF Goes, StepOf
<1>4. (\A u \in Threads : Carries(u) => desc[u].msg # m)'
  BY <1>1, <1>3, OthersStay DEF Gone
<1>5. (\A q \in Rings : \A i \in 1 .. Len(ring[q]) : ring[q][i].msg # m)'
  <2> SUFFICES ASSUME NEW q \in Rings, NEW i \in 1 .. Len(ring'[q]) PROVE ring'[q][i].msg # m
    OBVIOUS
  <2>1. CASE ring' = ring
    BY <2>1 DEF Gone
  <2>2. CASE PutStep(t)
    <3>1. PICK p \in Rings, d \in Descs : Put(p, d) /\ d.msg = desc[t].msg
      BY <2>2 DEF PutStep
    <3>2. (q = p /\ ring'[q][i] = d) \/ (i \in 1 .. Len(ring[q]) /\ ring'[q][i] = ring[q][i])
      BY <1>0, <3>1, PutFacts
    <3>3. d.msg # m
      BY <2>2, <3>1 DEF PutStep, Gone
    <3> QED BY <3>2, <3>3 DEF Gone
  <2>3. CASE GetStep(t)
    <3>1. PICK p \in Rings : Get(t, p)
      BY <2>3 DEF GetStep
    <3>2. CASE q = p
      <4>1. i + 1 \in 1 .. Len(ring[p]) /\ ring'[p][i] = ring[p][i + 1]
        BY <1>0, <3>1, <3>2, GetFacts
      <4> QED BY <3>2, <4>1 DEF Gone
    <3>3. CASE q # p
      <4>1. ring'[q] = ring[q]
        BY <1>0, <3>1, <3>3, GetFacts, Zenon
      <4> QED BY <4>1 DEF Gone
    <3> QED BY <3>2, <3>3
  <2> QED BY <2>1, <2>2, <2>3 DEF Goes, StepOf, KeepStep, FreeStep, AllocStep, StartStep
<1> QED BY <1>2, <1>4, <1>5 DEF Gone

\* Only a client's own thread refuses it.
LEMMA WhoRefuses ==
    ASSUME PathInv, Step, NEW r \in Clients, Refused(r)', ~Refused(r)
    PROVE  ClientOpen(r) \/ ClientAlloc(r) \/ ClientPut(r)
<1>0. PathOK /\ r \in Threads /\ r \notin Workers \cup {DpaTx, DpaRx, Arm}
  BY Names DEF PathInv
<1>1. ASSUME NEW t \in Threads \ {r}, Goes(t), r \in events' => r \in events PROVE FALSE
  <2>1. pc'[r] = pc[r]
    BY <1>0, <1>1 DEF Goes, StepOf, KeepStep, FreeStep, AllocStep, PutStep, GetStep, StartStep, Moved
  <2> QED BY <1>1, <2>1 DEF Refused
<1>2. CASE \E w \in Workers : WorkerStep(w) \/ \E q \in Requests : Submit(w, q)
  <2>1. PICK w \in Workers : WorkerStep(w) \/ \E q \in Requests : Submit(w, q)
    BY <1>2
  <2>2. Goes(w) /\ w \in Threads \ {r}
    BY <1>0, <2>1, KeepsWorker, KeepsSubmit, Names
  <2>3. events' = events
    BY <2>1 DEF WorkerStep, Submit, Respond, Begin, AllocHeader, AllocBody, PutTx, UndoHeader, UndoBody,
                TakeRx, ReadHeader, ReadBody, arm
  <2> QED BY <1>1, <2>2, <2>3
<1>3. CASE DpaTxStep
  <2>1. events' = events
    BY <1>3 DEF DpaTxStep, TxGet, TxCopy, TxRequeue, TxFree, TxPut, TxUndo, arm
  <2> QED BY <1>0, <1>1, <1>3, <2>1, KeepsDpaTx, Names
<1>4. CASE ArmStep
  <2>1. events' = events
    BY <1>4 DEF ArmStep, ArmGet, Route, PutRx, CleanBody, CleanHeader, BridgeBody, BridgeHeader,
                BridgeNotify, arm
  <2> QED BY <1>0, <1>1, <1>4, <2>1, KeepsArm, Names
<1>5. CASE DpaRxStep
  <2>1. events' = events
    BY <1>5 DEF DpaRxStep, RxGet, RxCopyBody, RxRequeue, RxFreeBody, RxCopyHeader, RxFreeHeader, RxPut,
                RxUndoBody, RxUndoHeader, arm
  <2> QED BY <1>0, <1>1, <1>5, <2>1, KeepsDpaRx, Names
<1>6. ASSUME NEW q \in Clients \ {r}, ClientOpen(q) \/ ClientStep(q) \/ ClientTimeout(q) PROVE FALSE
  <2>1. r \in events' => r \in events
    BY <1>6
       DEF ClientOpen, ClientStep, ClientAlloc, ClientPut, ClientUndo, ClientAnswered, ClientTimeout,
                Forget, arm
  <2>2. Goes(q) /\ q \in Threads \ {r}
    BY <1>6, KeepsClientOpen, KeepsClient, Names
  <2> QED BY <1>1, <2>1, <2>2
<1>7. ~ClientUndo(r)
  BY DEF ClientUndo, Refused
<1>8. ~ClientAnswered(r) /\ ~ClientTimeout(r)
  BY <1>0 DEF ClientAnswered, ClientTimeout, Forget, Goto, PathOK, Refused
<1> QED BY <1>2, <1>3, <1>4, <1>5, <1>6, <1>7, <1>8 DEF Step, ClientStep

LEMMA RefusedKept ==
    ASSUME PathInv, RefusedInv, Step PROVE RefusedInv'
<1>0. /\ PathOK /\ ThreadInv /\ OnceInv /\ ServeInv
  BY DEF PathInv
<1> SUFFICES ASSUME NEW r \in Clients, Refused(r)' PROVE Gone(<<r, "request">>)'
  BY DEF RefusedInv
<1> DEFINE m == <<r, "request">>
<1>1. r \in Threads /\ ClientAt(r, pc[r], desc[r], copy[r])
  BY <1>0, ClientFacts
<1>2. CASE Refused(r)
  <2>1. Gone(m)
    BY <1>2 DEF RefusedInv
  <2> QED BY <2>1, StepKeeps, GoneStays
<1>3. CASE ~Refused(r) /\ ClientOpen(r)
  <2>1. /\ StartStep(r) /\ sent' = sent \cup {m} /\ m \notin sent
    BY <1>0, <1>3, StartClientOpen DEF ClientOpen, ServeInv
  <2>2. Arrived' = Arrived
    BY <1>3 DEF ClientOpen, Arrived
  <2>3. ~Carries(r)'
    BY <1>3 DEF Refused, Carries, Resting, Dropping
  <2>4. Moved(r) /\ ring' = ring
    BY <2>1 DEF StartStep
  <2>5. (m \in sent \ Arrived)'
    BY <1>0, <2>1, <2>2 DEF ServeInv
  <2>6. (\A t \in Threads : Carries(t) => desc[t].msg # m)'
    BY <1>0, <1>1, <2>1, <2>3, <2>4, OthersStay DEF OnceInv, CarriedSent
  <2>7. (\A q \in Rings : \A i \in 1 .. Len(ring[q]) : ring[q][i].msg # m)'
    BY <1>0, <2>1, <2>4 DEF OnceInv, NamedSent
  <2> QED BY <2>5, <2>6, <2>7 DEF Gone
<1>4. CASE ~Refused(r) /\ (ClientAlloc(r) \/ ClientPut(r))
  <2>1. Carries(r) /\ desc[r].msg = m
    BY <1>1, <1>4 DEF ClientAlloc, ClientPut, ClientAt, Carries, Resting, Dropping
  <2>2. ~Carries(r)' /\ pc'[r] # "wait"
    BY DEF Refused, Carries, Resting, Dropping
  <2>3. ring' = ring
    BY <1>0, <1>1, <1>4, <2>2 DEF ClientAlloc, ClientPut, Done, Goto, PathOK
  <2>4. Goes(r) /\ Arrived' = Arrived /\ sent' = sent
    BY <1>4, KeepsClient DEF ClientStep, ClientAlloc, ClientPut, Arrived, app, arm
  <2>5. Moved(r)
    BY <2>4 DEF Goes, StepOf, KeepStep, FreeStep, AllocStep, PutStep, GetStep, StartStep
  <2>6. (m \in sent \ Arrived)'
    BY <1>0, <1>1, <2>1, <2>4 DEF OnceInv, CarriedSent
  <2>7. (\A t \in Threads : Carries(t) => desc[t].msg # m)'
    BY <1>0, <1>1, <2>1, <2>2, <2>5, OthersStay DEF OnceInv, CarriedOnce
  <2>8. (\A q \in Rings : \A i \in 1 .. Len(ring[q]) : ring[q][i].msg # m)'
    BY <1>0, <1>1, <2>1, <2>3 DEF OnceInv, CarriedNotNamed
  <2> QED BY <2>6, <2>7, <2>8 DEF Gone
<1> QED BY <1>2, <1>3, <1>4, WhoRefuses

\* Before a collision, a client that has left has no entry in the tables, unless it was
\* refused at once, which leaves one for ever: then its request is nowhere, and no answer to
\* it will ever be kept.
THEOREM NoAnswerKept == Spec => []ClosedClientsForgotten
<1>1. Init => RefusedInv
  BY Names DEF Init, RefusedInv, Refused
<1>2. PathInv /\ RefusedInv /\ [Next]_vars => RefusedInv'
  <2>1. ASSUME RefusedInv, UNCHANGED path PROVE RefusedInv'
    BY <2>1 DEF path, RefusedInv, Refused, Gone, Arrived, Carries
  <2> QED BY <2>1, RefusedKept, NextIsStep
<1>3. PathInv /\ RefusedInv => ClosedClientsForgotten
  <2> SUFFICES ASSUME PathInv, RefusedInv, NEW r \in Clients, pc[r] = "closed", r \in events
               PROVE  <<r, "request">> \in Lost /\ <<r, "response">> \notin sent /\ r \notin answers
    BY DEF ClosedClientsForgotten
  <2>1. Gone(<<r, "request">>)
    BY DEF RefusedInv, Refused
  <2>2. PathOK /\ ThreadInv /\ ServeInv
    BY DEF PathInv
  <2>4. <<r, "request">> \in Lost
    BY <2>1, LostAreGone
  <2>5. <<r, "response">> \notin sent
    BY <2>1, <2>2, Names DEF Gone, ServeInv, Arrived
  <2>6. r \notin answers
    BY <2>2, <2>5 DEF ServeInv, Arrived
  <2> QED BY <2>4, <2>5, <2>6
<1> QED BY <1>1, <1>2, <1>3, InvariantKept, PTL DEF Spec
=============================================================================
