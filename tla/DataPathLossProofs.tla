-------------------------- MODULE DataPathLossProofs --------------------------
(***************************************************************************)
(* Proofs about what DataPath may lose: messages, and slots with them.     *)
(***************************************************************************)
EXTENDS DataPathProofs

\* A slot that somebody has.
Owned(l) == \/ \E t \in Threads : \E k \in Kinds : Held(t, k) = l
            \/ \E q \in Rings : \E i \in 1 .. Len(ring[q]) : \E k \in Parts : Named(q, i, k) = l
Astray(l) == l \in Locs /\ buf[l] # Free /\ ~Owned(l)

\* What t has it keeps, frees or puts into a ring; or it is the slot of an empty body.
Kept(t, l) ==
    \/ \E j \in Kinds : Held(t, j)' = l
    \/ buf'[l] = Free
    \/ \E q \in Rings : \E i \in 1 .. Len(ring'[q]) : \E j \in Parts : Named(q, i, j)' = l
Tidy(t) == \A k \in Kinds : Held(t, k) # NoLoc => Kept(t, Held(t, k))
TidyButBody(t) ==
    \A k \in Kinds : Held(t, k) # NoLoc =>
        Kept(t, Held(t, k)) \/ (Held(t, k) = desc[t].body /\ NoBody(desc[t]))

\* It takes the first descriptor of a ring and all of its slots.
Gets(t) ==
    /\ Carries(t)'
    /\ \E q \in Rings : /\ Get(t, q)
                        /\ Held(t, "header")' = ring[q][1].header
                        /\ Held(t, "body")' = ring[q][1].body

\* It gives its message up, and why it may.
Drops(t)  == Carries(t) /\ ~Carries(t)' /\ ring' = ring
NoWorker(m) == m[2] = "request" /\ WorkersOf[Target[m[1]]] = <<>>
Excused(t)  == NoRoom(t) \/ TooLong(t) \/ NoWorker(desc[t].msg)

\* What an action of t does with its message and its slots.
Fate(t) == /\ pc[t] # "idle"
           /\ TidyButBody(t) \/ Drops(t)
           /\ Drops(t) => Excused(t)

(***************************************************************************)
(* Lost messages and leaked slots, by who has them.                        *)
(***************************************************************************)

LEMMA ThreadOwns ==
    ASSUME NEW t \in Threads
    PROVE  \E o \in Owners : o.at = t /\ o.msg = desc[t].msg /\ o.locs = HeldBy(t)
<1> DEFINE o == [at |-> t, msg |-> desc[t].msg, locs |-> HeldBy(t)]
<1>1. o \in Owners
  BY DEF Owners
<1>2. o.at = t /\ o.msg = desc[t].msg /\ o.locs = HeldBy(t)
  OBVIOUS
<1> QED BY <1>1, <1>2

LEMMA PlaceOwns ==
    ASSUME PathOK, NEW q \in Rings, NEW i \in 1 .. Len(ring[q])
    PROVE  \E o \in Owners : /\ o.at = <<q, i>> /\ o.at \notin Threads /\ o.msg = ring[q][i].msg
                             /\ o.locs = {ring[q][i].header, ring[q][i].body} \ {NoLoc}
<1> DEFINE x == <<q, i>>
           o == [at |-> x, msg |-> ring[x[1]][x[2]].msg,
                 locs |-> {ring[x[1]][x[2]].header, ring[x[1]][x[2]].body} \ {NoLoc}]
<1>1. Len(ring[q]) <= MaxDescriptors /\ Len(ring[q]) \in Nat /\ MaxDescriptors \in Nat
  BY DataPathAssumption DEF PathOK
<1>2. i \in 1 .. MaxDescriptors /\ i <= Len(ring[q])
  BY <1>1
<1>3. x \in Rings \X (1 .. MaxDescriptors) /\ x[1] = q /\ x[2] = i
  BY <1>2
<1>4. x \in InRings
  BY <1>2, <1>3 DEF InRings
<1>5. o \in Owners
  BY <1>4 DEF Owners
<1>6. x \notin Threads
  BY <1>3, DataPathNames
<1>7. /\ o.at = <<q, i>> /\ o.msg = ring[q][i].msg
      /\ o.locs = {ring[q][i].header, ring[q][i].body} \ {NoLoc}
  BY <1>3
<1> QED BY <1>5, <1>6, <1>7

LEMMA LeakedAreAstray == PathInv => \A l : l \in Leaked <=> Astray(l)
<1> SUFFICES ASSUME PathInv, NEW l PROVE l \in Leaked <=> Astray(l)
  OBVIOUS
<1>0. PathOK
  BY DEF PathInv
<1>1. ASSUME NEW o \in Owners, l \in o.locs PROVE Owned(l)
  BY <1>1, OwnerParts DEF Owned
<1>2. ASSUME l \in Locs, Owned(l) PROVE \E o \in Owners : l \in o.locs
  <2>0. l # NoLoc
    BY <1>2, DataPathNames DEF NoLoc
  <2>1. CASE \E t \in Threads : \E k \in Kinds : Held(t, k) = l
    <3>1. PICK t \in Threads : \E k \in Kinds : Held(t, k) = l
      BY <2>1
    <3>2. l \in HeldBy(t)
      BY <2>0, <3>1 DEF HeldBy, Held, Has, Kinds
    <3> QED BY <3>2, ThreadOwns
  <2>2. CASE \E q \in Rings : \E i \in 1 .. Len(ring[q]) : \E k \in Parts : Named(q, i, k) = l
    <3>1. PICK q \in Rings : \E i \in 1 .. Len(ring[q]) : \E k \in Parts : Named(q, i, k) = l
      BY <2>2
    <3>2. PICK i \in 1 .. Len(ring[q]) : \E k \in Parts : Named(q, i, k) = l
      BY <3>1
    <3>3. l \in {ring[q][i].header, ring[q][i].body} \ {NoLoc}
      BY <2>0, <3>2 DEF Named, Part, Parts
    <3> QED BY <1>0, <3>3, PlaceOwns
  <2> QED BY <1>2, <2>1, <2>2 DEF Owned
<1> QED BY <1>1, <1>2 DEF Leaked, Astray

(***************************************************************************)
(* What a step loses.                                                      *)
(***************************************************************************)

\* A message that gets lost, and had not arrived, is the one the thread drops.
LEMMA OnlyDropped ==
    ASSUME PathInv, NEW t \in Threads, StepOf(t), pc[t] = "idle" => Gets(t),
           NEW m \in sent \ Arrived, Gone(m)', ~Gone(m)
    PROVE  Drops(t) /\ desc[t].msg = m
<1>0. PathOK /\ Moved(t)
  BY DEF PathInv, StepOf, KeepStep, FreeStep, AllocStep, PutStep, GetStep
<1>1. ASSUME NEW u \in Threads \ {t}, Carries(u), desc[u].msg = m PROVE FALSE
  BY <1>0, <1>1, OthersStay DEF Gone
<1>2. ASSUME NEW q \in Rings, NEW i \in 1 .. Len(ring[q]), ring[q][i].msg = m PROVE FALSE
  <2>1. CASE ring' = ring
    BY <1>2, <2>1 DEF Gone
  <2>2. CASE PutStep(t)
    <3>1. PICK p \in Rings, d \in Descs : Put(p, d)
      BY <2>2 DEF PutStep
    <3>2. i \in 1 .. Len(ring'[q]) /\ ring'[q][i] = ring[q][i]
      BY <1>0, <3>1, PutFacts
    <3> QED BY <1>2, <3>2 DEF Gone
  <2>3. CASE GetStep(t)
    <3>1. PICK p \in Rings : Get(t, p)
      BY <2>3 DEF GetStep
    <3>2. Carries(t)' /\ desc'[t] = ring[p][1]
      BY <1>0, <3>1, GetFacts DEF Gets
    <3>3. CASE q = p /\ i = 1
      BY <1>2, <3>2, <3>3 DEF Gone
    <3>4. CASE q = p /\ i # 1
      <4>1. i - 1 \in 1 .. Len(ring'[p]) /\ ring'[p][i - 1] = ring[p][i]
        BY <1>0, <3>1, <3>4, GetFacts
      <4> QED BY <1>2, <3>4, <4>1 DEF Gone
    <3>5. CASE q # p
      <4>1. ring'[q] = ring[q]
        BY <1>0, <3>1, <3>5, GetFacts, Zenon
      <4> QED BY <1>2, <4>1 DEF Gone
    <3> QED BY <3>3, <3>4, <3>5
  <2> QED BY <2>1, <2>2, <2>3 DEF StepOf, KeepStep, FreeStep, AllocStep
<1>3. Carries(t) /\ desc[t].msg = m
  BY <1>1, <1>2 DEF Gone
<1>4. pc[t] # "idle"
  BY <1>3 DEF Carries, Resting
<1>5. CASE KeepStep(t) \/ FreeStep(t) \/ AllocStep(t)
  BY <1>3, <1>5 DEF KeepStep, FreeStep, AllocStep, Keeps, Gone, Drops
<1>6. CASE PutStep(t)
  <2>1. PICK p \in Rings, d \in Descs : Put(p, d) /\ d.msg = desc[t].msg
    BY <1>6 DEF PutStep
  <2>2. Len(ring[p]) + 1 \in 1 .. Len(ring'[p]) /\ ring'[p][Len(ring[p]) + 1] = d
    BY <1>0, <2>1, PutFacts
  <2> QED BY <1>3, <2>1, <2>2 DEF Gone
<1>7. ~GetStep(t)
  BY <1>4 DEF GetStep, Get
<1> QED BY <1>3, <1>5, <1>6, <1>7 DEF StepOf

\* What a thread drops is lost, unless it has arrived.
LEMMA DroppedIsLost ==
    ASSUME PathInv, NEW t \in Threads, Moved(t), Drops(t), NEW m, desc[t].msg = m,
           sent' = sent, Arrived' = Arrived
    PROVE  Gone(m)' /\ ~Gone(m)
<1>0. OnceInv
  BY DEF PathInv
<1>1. m \in sent \ Arrived /\ ~Gone(m)
  BY <1>0 DEF OnceInv, CarriedSent, Drops, Gone
<1>2. \A u \in Threads : Carries(u)' => desc'[u].msg # m
  BY <1>0, OthersStay DEF Drops, OnceInv, CarriedOnce
<1>3. \A q \in Rings : \A i \in 1 .. Len(ring[q]) : ring[q][i].msg # m
  BY <1>0 DEF Drops, OnceInv, CarriedNotNamed
<1> QED BY <1>1, <1>2, <1>3 DEF Gone, Drops

\* A slot that gets astray was the thread's, who has not kept it.
LEMMA WhoLeaks ==
    ASSUME PathInv, NEW t \in Threads, StepOf(t), pc[t] = "idle" => Gets(t),
           NEW l, Astray(l)', ~Astray(l)
    PROVE  pc[t] # "idle" /\ l # NoLoc /\ \E k \in Kinds : Held(t, k) = l /\ ~Kept(t, l)
<1>0. PathOK /\ ThreadInv /\ Moved(t) /\ l \in Locs /\ buf'[l] # Free /\ ~Owned(l)' /\ l # NoLoc
  BY DataPathNames DEF PathInv, StepOf, KeepStep, FreeStep, AllocStep, PutStep, GetStep, Astray, NoLoc
<1>1. ASSUME NEW u \in Threads \ {t}, NEW k \in Kinds, Held(u, k) = l PROVE FALSE
  BY <1>0, <1>1, OthersStay DEF Owned
<1>2. ASSUME NEW k \in Kinds, Held(t, k) = l PROVE pc[t] # "idle"
  <2> SUFFICES ASSUME pc[t] = "idle" PROVE FALSE
    OBVIOUS
  <2>1. desc[t] = NoDesc /\ copy[t] = NoCopy
    BY DEF PathInv, ThreadInv, At, WorkerAt, TxAt, ArmAt, RxAt, ClientAt
  <2> QED BY <1>0, <1>2, <2>1, DescFacts DEF Held, Has, Kinds
<1>3. ASSUME NEW q \in Rings, NEW i \in 1 .. Len(ring[q]), NEW k \in Parts, Named(q, i, k) = l
      PROVE  FALSE
  <2>1. CASE ring' = ring
    BY <1>0, <1>3, <2>1 DEF Owned, Named
  <2>2. CASE PutStep(t)
    <3>1. PICK p \in Rings, d \in Descs : Put(p, d)
      BY <2>2 DEF PutStep
    <3>2. i \in 1 .. Len(ring'[q]) /\ ring'[q][i] = ring[q][i]
      BY <1>0, <3>1, PutFacts
    <3> QED BY <1>0, <1>3, <3>2 DEF Owned, Named
  <2>3. CASE GetStep(t)
    <3>1. PICK p \in Rings : /\ Get(t, p)
                             /\ Held(t, "header")' = ring[p][1].header
                             /\ Held(t, "body")' = ring[p][1].body
      BY <2>3 DEF GetStep, Get, Gets
    <3>2. CASE q = p /\ i = 1
      BY <1>0, <1>3, <3>1, <3>2 DEF Owned, Named, Part, Parts, Kinds
    <3>3. CASE q = p /\ i # 1
      <4>1. i - 1 \in 1 .. Len(ring'[p]) /\ ring'[p][i - 1] = ring[p][i]
        BY <1>0, <3>1, <3>3, GetFacts
      <4> QED BY <1>0, <1>3, <3>3, <4>1 DEF Owned, Named
    <3>4. CASE q # p
      <4>1. ring'[q] = ring[q]
        BY <1>0, <3>1, <3>4, GetFacts, Zenon
      <4> QED BY <1>0, <1>3, <4>1 DEF Owned, Named
    <3> QED BY <3>2, <3>3, <3>4
  <2> QED BY <2>1, <2>2, <2>3 DEF StepOf, KeepStep, FreeStep, AllocStep
<1>4. buf[l] # Free
  <2>1. CASE KeepStep(t) \/ PutStep(t) \/ GetStep(t)
    BY <1>0, <2>1 DEF KeepStep, PutStep, GetStep
  <2>2. CASE FreeStep(t)
    BY <1>0, <2>2 DEF FreeStep, FreeSlot, PathOK
  <2>3. CASE AllocStep(t)
    BY <1>0, <2>3 DEF AllocStep, PathOK, Owned
  <2> QED BY <2>1, <2>2, <2>3 DEF StepOf
<1>5. PICK k \in Kinds : Held(t, k) = l
  BY <1>0, <1>1, <1>3, <1>4 DEF Astray, Owned
<1>6. ~Kept(t, l)
  BY <1>0 DEF Kept, Owned
<1> QED BY <1>0, <1>2, <1>5, <1>6

\* No slot gets astray in a tidy step.
LEMMA TidyLeaksNothing ==
    ASSUME PathInv, NEW t \in Threads, StepOf(t), Gets(t) \/ (pc[t] # "idle" /\ Tidy(t)),
           NEW l, Astray(l)'
    PROVE  Astray(l)
<1> SUFFICES ASSUME ~Astray(l) PROVE FALSE
  OBVIOUS
<1>1. pc[t] # "idle" /\ l # NoLoc /\ \E k \in Kinds : Held(t, k) = l /\ ~Kept(t, l)
  BY WhoLeaks
<1> QED BY <1>1 DEF Tidy, Gets, Get

(***************************************************************************)
(* What each action does with its message and its slots.                   *)
(***************************************************************************)

Freed(l) == l = NoLoc \/ buf'[l] = Free

LEMMA FreeSlotFrees ==
    ASSUME PathOK, NEW l \in Locs \cup {NoLoc}, FreeSlot(l) PROVE Freed(l)
  BY DEF PathOK, FreeSlot, Freed

\* A thread has what it had, but for what it has freed.
LEMMA StaysTidy ==
    ASSUME NEW t \in Threads,
           \/ pc[t] \in HeaderGone \/ Freed(desc[t].header)
           \/ pc'[t] \notin HeaderGone /\ desc'[t].header = desc[t].header,
           \/ pc[t] \in BodyGone \/ Freed(desc[t].body)
           \/ pc'[t] \notin BodyGone /\ desc'[t].body = desc[t].body,
           Freed(copy[t].header) \/ copy'[t].header = copy[t].header,
           \/ pc[t] = "rxUndoHeader" \/ Freed(copy[t].body)
           \/ pc'[t] # "rxUndoHeader" /\ copy'[t].body = copy[t].body
    PROVE  Tidy(t)
<1> SUFFICES ASSUME NEW k \in Kinds, Held(t, k) # NoLoc, buf'[Held(t, k)] # Free
             PROVE  Held(t, k)' = Held(t, k)
  BY DEF Tidy, Kept
<1>1. CASE k = "header"
  BY <1>1 DEF Held, Has, Freed
<1>2. CASE k = "body"
  BY <1>2 DEF Held, Has, Freed
<1>3. CASE k = "newHeader"
  BY <1>3 DEF Held, Has, Freed
<1>4. CASE k = "newBody"
  BY <1>4 DEF Held, Has, Freed
<1> QED BY <1>1, <1>2, <1>3, <1>4 DEF Kinds

\* The same, but for an empty body.
LEMMA StaysButBody ==
    ASSUME NEW t \in Threads, NoBody(desc[t]),
           \/ pc[t] \in HeaderGone \/ Freed(desc[t].header)
           \/ pc'[t] \notin HeaderGone /\ desc'[t].header = desc[t].header,
           Freed(copy[t].header) \/ copy'[t].header = copy[t].header,
           \/ pc[t] = "rxUndoHeader" \/ Freed(copy[t].body)
           \/ pc'[t] # "rxUndoHeader" /\ copy'[t].body = copy[t].body
    PROVE  TidyButBody(t)
<1> SUFFICES ASSUME NEW k \in Kinds, Held(t, k) # NoLoc, buf'[Held(t, k)] # Free,
                    Held(t, k) # desc[t].body
             PROVE  Held(t, k)' = Held(t, k)
  BY DEF TidyButBody, Kept
<1>1. CASE k = "header"
  BY <1>1 DEF Held, Has, Freed
<1>2. CASE k = "body"
  BY <1>2 DEF Held, Has
<1>3. CASE k = "newHeader"
  BY <1>3 DEF Held, Has, Freed
<1>4. CASE k = "newBody"
  BY <1>4 DEF Held, Has, Freed
<1> QED BY <1>1, <1>2, <1>3, <1>4 DEF Kinds

\* What it puts into a ring is in the ring.
LEMMA TidyIsEnough == ASSUME NEW t, Tidy(t) PROVE TidyButBody(t)
  BY DEF Tidy, TidyButBody

LEMMA PutIsTidy ==
    ASSUME PathOK, NEW t \in Threads, NEW q \in Rings, NEW d \in Descs, Put(q, d),
           \A k \in Kinds : Held(t, k) \in {NoLoc, d.header, d.body}
    PROVE  Tidy(t) /\ ~Drops(t)
<1>1. PICK i \in 1 .. Len(ring'[q]) : ring'[q][i] = d
  <2>1. Len(ring[q]) + 1 \in 1 .. Len(ring'[q]) /\ ring'[q][Len(ring[q]) + 1] = d
    BY PutFacts
  <2> QED BY <2>1
<1>2. ring' # ring
  BY PutFacts DEF PathOK
<1>3. Named(q, i, "header")' = d.header /\ Named(q, i, "body")' = d.body
  BY <1>1 DEF Named, Part
<1>4. Tidy(t)
  BY <1>3 DEF Tidy, Kept, Parts
<1> QED BY <1>2, <1>4 DEF Drops

\* Where a thread is after its step.
LEMMA AfterGoto ==
    ASSUME PathOK, NEW t \in Threads, NEW l, Goto(t, l) PROVE pc'[t] = l
  BY DEF PathOK, Goto

LEMMA AfterDone ==
    ASSUME PathOK, NEW t \in Threads, NEW l, Done(t, l)
    PROVE  pc'[t] = l /\ desc'[t] = NoDesc /\ copy'[t] = NoCopy
  BY DEF PathOK, Goto, Done

\* The worker.
LEMMA FateAllocHeader ==
    ASSUME PathInv, NEW w \in Workers, AllocHeader(w) PROVE Fate(w) /\ Tidy(w)
<1> DEFINE p == <<"txHeader", ServiceOf[w]>>
<1>0. /\ PathOK /\ w \in Threads /\ pc[w] = "allocHeader" /\ p \in Pools
      /\ desc[w].header = NoLoc /\ desc[w].body = NoLoc /\ copy[w] = NoCopy
  BY WorkerFacts, PoolNames DEF PathInv, WorkerAt, AllocHeader
<1>1. Tidy(w)
  BY <1>0, StaysTidy, DescFacts DEF Freed
<1>2. Drops(w) => PoolFull(p)
  <2> SUFFICES ASSUME ~PoolFull(p) PROVE Carries(w)'
    BY DEF Drops
  <2>1. Goto(w, "allocBody")
    BY DEF AllocHeader
  <2> QED BY <1>0, <2>1, AfterGoto DEF Carries, Resting, Dropping
<1> QED BY <1>0, <1>1, <1>2, TidyIsEnough DEF Fate, Excused, NoRoom, TooLong

LEMMA FateAllocBody ==
    ASSUME PathInv, NEW w \in Workers, AllocBody(w) PROVE Fate(w) /\ Tidy(w)
<1> DEFINE p == <<"txBody", ServiceOf[w]>>
<1>0. /\ PathOK /\ w \in Threads /\ pc[w] = "allocBody" /\ p \in Pools /\ desc[w] \in Descs
      /\ desc[w].body = NoLoc /\ copy[w] = NoCopy /\ copy' = copy
  BY WorkerFacts, PoolNames DEF PathInv, WorkerAt, AllocBody
<1>1. PICK l \in {"undoHeader", "putTx"} :
         /\ Goto(w, l) /\ (l = "undoHeader" => PoolFull(p) \/ desc[w].msg \in TooBig)
         /\ desc' = desc \/ desc' = [desc EXCEPT ![w].body = FirstFree(p)]
  BY Zenon DEF AllocBody
<1>2. pc'[w] = l
  BY <1>0, <1>1, AfterGoto
<1>3. desc'[w].header = desc[w].header
  BY <1>0, <1>1 DEF PathOK, Descs
<1>4. Tidy(w)
  BY <1>0, <1>2, <1>3, StaysTidy, DescFacts DEF Freed, HeaderGone
<1>5. Drops(w) => Excused(w)
  BY <1>0, <1>1, <1>2 DEF Drops, Carries, Resting, Dropping, Excused, NoRoom, TooLong
<1> QED BY <1>0, <1>4, <1>5, TidyIsEnough DEF Fate

LEMMA FatePutTx ==
    ASSUME PathInv, NEW w \in Workers, PutTx(w) PROVE Fate(w) /\ Tidy(w)
<1> DEFINE q == <<"tx", w>>
<1>0. /\ PathOK /\ w \in Threads /\ pc[w] = "putTx" /\ q \in Rings /\ desc[w] \in Descs
      /\ copy[w] = NoCopy
  BY WorkerFacts, Names DEF PathInv, WorkerAt, PutTx
<1>1. CASE RingFull(q)
  <2>1. Goto(w, "undoHeader") /\ UNCHANGED <<desc, copy>>
    BY <1>1 DEF PutTx
  <2>2. Tidy(w)
    BY <1>0, <2>1, AfterGoto, StaysTidy DEF HeaderGone, BodyGone
  <2> QED BY <1>0, <1>1, <2>2, TidyIsEnough DEF Fate, Excused, NoRoom, TooLong
<1>2. CASE ~RingFull(q)
  <2>1. Put(q, desc[w])
    BY <1>2 DEF PutTx
  <2>2. \A k \in Kinds : Held(w, k) \in {NoLoc, desc[w].header, desc[w].body}
    BY <1>0, DescFacts DEF Held, Has, Kinds
  <2>3. Tidy(w) /\ ~Drops(w)
    BY <1>0, <2>1, <2>2, PutIsTidy
  <2> QED BY <1>0, <2>3, TidyIsEnough DEF Fate
<1> QED BY <1>1, <1>2

LEMMA FateUndo ==
    ASSUME PathInv, NEW w \in Workers, UndoHeader(w) \/ UndoBody(w) PROVE Fate(w) /\ Tidy(w)
<1>0. /\ PathOK /\ w \in Threads /\ pc[w] \in {"undoHeader", "undoBody"} /\ desc[w] \in Descs
      /\ copy[w] = NoCopy
  BY WorkerFacts DEF PathInv, WorkerAt, UndoHeader, UndoBody
<1>1. desc[w].header \in Locs \cup {NoLoc} /\ desc[w].body \in Locs \cup {NoLoc}
  BY <1>0, DescFacts
<1>2. CASE UndoHeader(w)
  <2>1. Freed(desc[w].header)
    BY <1>0, <1>1, <1>2, FreeSlotFrees DEF UndoHeader
  <2>2. desc[w].body # NoLoc => pc'[w] = "undoBody" /\ desc'[w] = desc[w]
    BY <1>0, <1>2, AfterGoto DEF UndoHeader
  <2> QED BY <1>0, <2>1, <2>2, StaysTidy, DescFacts, TidyIsEnough DEF Fate, Drops, Carries, Dropping, BodyGone, Freed
<1>3. CASE UndoBody(w)
  <2>1. Freed(desc[w].body) /\ pc[w] = "undoBody"
    BY <1>0, <1>1, <1>3, FreeSlotFrees DEF UndoBody
  <2> QED BY <1>0, <2>1, StaysTidy, DescFacts, TidyIsEnough DEF Fate, Drops, Carries, Dropping, HeaderGone, Freed
<1> QED BY <1>2, <1>3

LEMMA FateRead ==
    ASSUME PathInv, NEW w \in Workers, ReadHeader(w) \/ ReadBody(w)
    PROVE  pc[w] # "idle" /\ Tidy(w) /\ (ReadHeader(w) => Carries(w)')
<1>0. /\ PathOK /\ w \in Threads /\ pc[w] \in {"readHeader", "readBody"} /\ desc[w] \in Descs
      /\ copy[w] = NoCopy
  BY WorkerFacts DEF PathInv, WorkerAt, ReadHeader, ReadBody
<1>1. desc[w].header \in Locs \cup {NoLoc} /\ desc[w].body \in Locs \cup {NoLoc}
  BY <1>0, DescFacts
<1>2. CASE ReadHeader(w)
  <2>1. Freed(desc[w].header) /\ pc'[w] = "readBody" /\ desc'[w] = desc[w]
    BY <1>0, <1>1, <1>2, FreeSlotFrees, AfterGoto DEF ReadHeader
  <2>2. Carries(w)'
    BY <2>1 DEF Carries, Resting, Dropping
  <2> QED BY <1>0, <2>1, <2>2, StaysTidy, DescFacts DEF BodyGone, Freed
<1>3. CASE ReadBody(w)
  <2>1. Freed(desc[w].body) /\ pc[w] = "readBody"
    BY <1>0, <1>1, <1>3, FreeSlotFrees DEF ReadBody
  <2> QED BY <1>0, <2>1, StaysTidy, DescFacts DEF HeaderGone, Freed, ReadHeader
<1> QED BY <1>2, <1>3

\* A thread that takes a descriptor off a ring has all of its slots.
LEMMA GetGets ==
    ASSUME PathOK, NEW t \in Threads, NEW q \in Rings, NEW l, Get(t, q), Goto(t, l),
           l \notin Resting \cup Dropping \cup BodyGone,
           l \in HeaderGone => ring[q][1].header = NoLoc
    PROVE  Gets(t)
<1>1. pc'[t] = l /\ desc'[t] = ring[q][1]
  BY AfterGoto, GetFacts
<1>2. Held(t, "header")' = ring[q][1].header /\ Held(t, "body")' = ring[q][1].body
  BY <1>1 DEF Held, Has
<1> QED BY <1>1, <1>2 DEF Gets, Carries

LEMMA FateTakeRx == ASSUME PathInv, NEW w \in Workers, TakeRx(w) PROVE Gets(w)
<1> DEFINE q == <<"rx", w>>
           l == IF Case2(Head(ring[q])) THEN "readBody" ELSE "readHeader"
<1>1. PathOK /\ w \in Threads /\ q \in Rings /\ Get(w, q) /\ Goto(w, l)
  BY Names DEF PathInv, TakeRx
<1>2. Head(ring[q]) = ring[q][1]
  BY <1>1, GetFacts
<1>3. l \notin Resting \cup Dropping \cup BodyGone
  BY DEF Resting, Dropping, BodyGone
<1>4. l \in HeaderGone => ring[q][1].header = NoLoc
  BY <1>2 DEF HeaderGone, Case2
<1> QED BY <1>1, <1>3, <1>4, GetGets

\* The DPA, thread DPA-TX-Poll.
LEMMA FateTxGet == ASSUME PathInv, NEW w \in Workers, TxGet(w) PROVE Gets(DpaTx)
<1>1. /\ PathOK /\ DpaTx \in Threads /\ <<"tx", w>> \in Rings /\ Get(DpaTx, <<"tx", w>>)
      /\ Goto(DpaTx, "txCopy")
  BY Names DEF PathInv, TxGet
<1> QED BY <1>1, GetGets DEF Resting, Dropping, HeaderGone, BodyGone

LEMMA FateTxCopy == ASSUME PathInv, TxCopy PROVE Fate(DpaTx)
<1> DEFINE t == DpaTx
<1>0. /\ PathOK /\ t \in Threads /\ pc[t] = "txCopy" /\ copy[t] = NoCopy /\ desc' = desc
  BY TxFacts DEF PathInv, TxAt, TxCopy
<1>1. Goto(t, "txRequeue") \/ Goto(t, "txFree")
  BY Zenon DEF TxCopy
<1>2. pc'[t] \in {"txRequeue", "txFree"}
  BY <1>0, <1>1, AfterGoto
<1>3. Tidy(t) /\ Carries(t)'
  BY <1>0, <1>2, StaysTidy, DescFacts DEF Freed, HeaderGone, BodyGone, Carries, Resting, Dropping
<1> QED BY <1>0, <1>3, TidyIsEnough DEF Fate, Drops

LEMMA FateTxRequeue == ASSUME PathInv, TxRequeue PROVE Fate(DpaTx)
<1> DEFINE t == DpaTx
           q == <<"tx", desc[t].src>>
<1>0. /\ PathOK /\ t \in Threads /\ pc[t] = "txRequeue" /\ copy[t] = NoCopy /\ desc[t] \in Descs
      /\ q \in Rings /\ Done(t, "idle")
  BY TxFacts, Names DEF PathInv, TxAt, TxRequeue
<1>1. CASE RingFull(q)
  <2>1. ring' = ring /\ pc'[t] = "idle"
    BY <1>0, <1>1, AfterDone DEF TxRequeue
  <2>2. Drops(t)
    BY <1>0, <2>1 DEF Drops, Carries, Resting, Dropping
  <2> QED BY <1>0, <1>1, <2>2, TidyIsEnough DEF Fate, Excused, NoRoom, TooLong
<1>2. CASE ~RingFull(q)
  <2>1. Put(q, desc[t])
    BY <1>2 DEF TxRequeue
  <2>2. \A k \in Kinds : Held(t, k) \in {NoLoc, desc[t].header, desc[t].body}
    BY <1>0, DescFacts DEF Held, Has, Kinds
  <2>3. Tidy(t) /\ ~Drops(t)
    BY <1>0, <2>1, <2>2, PutIsTidy
  <2> QED BY <1>0, <2>3, TidyIsEnough DEF Fate
<1> QED BY <1>1, <1>2

LEMMA FateTxFree == ASSUME PathInv, TxFree PROVE Fate(DpaTx)
<1> DEFINE t == DpaTx
<1>0. /\ PathOK /\ t \in Threads /\ pc[t] = "txFree" /\ desc[t] \in Descs
      /\ FreeSlot(desc[t].header) /\ Goto(t, "txPut") /\ UNCHANGED <<desc, copy>>
  BY TxFacts DEF PathInv, TxAt, TxFree
<1>1. Freed(desc[t].header) /\ pc'[t] = "txPut"
  BY <1>0, FreeSlotFrees, DescFacts, AfterGoto
<1>2. Tidy(t) /\ Carries(t)'
  BY <1>0, <1>1, StaysTidy DEF BodyGone, Carries, Resting, Dropping
<1> QED BY <1>0, <1>2, TidyIsEnough DEF Fate, Drops

LEMMA FateTxPut == ASSUME PathInv, TxPut PROVE Fate(DpaTx)
<1> DEFINE t == DpaTx
           q == <<"tx", Dpu>>
           d == [desc[t] EXCEPT !.header = copy[t].header]
<1>0. /\ PathOK /\ t \in Threads /\ pc[t] = "txPut" /\ desc[t] \in Descs /\ q \in Rings
      /\ copy[t].body = NoLoc /\ copy[t].header \in Locs \cup {NoLoc}
  BY TxFacts, Names DEF PathInv, TxAt, TxPut, PathOK
<1>1. CASE RingFull(q)
  <2>1. Goto(t, "txUndo") /\ ring' = ring
    BY <1>1 DEF TxPut
  <2>2. Drops(t)
    BY <1>0, <2>1, AfterGoto DEF Drops, Carries, Resting, Dropping
  <2> QED BY <1>0, <1>1, <2>2, TidyIsEnough DEF Fate, Excused, NoRoom, TooLong
<1>2. CASE ~RingFull(q)
  <2>1. Put(q, d)
    BY <1>2 DEF TxPut
  <2>2. d \in Descs /\ d.header = copy[t].header /\ d.body = desc[t].body
    BY <1>0 DEF Descs
  <2> HIDE DEF d
  <2>3. \A k \in Kinds : Held(t, k) \in {NoLoc, d.header, d.body}
    BY <1>0, <2>2 DEF Held, Has, Kinds, HeaderGone
  <2>4. Tidy(t) /\ ~Drops(t)
    BY <1>0, <2>1, <2>2, <2>3, PutIsTidy
  <2> QED BY <1>0, <2>4, TidyIsEnough DEF Fate
<1> QED BY <1>1, <1>2

LEMMA FateTxUndo == ASSUME PathInv, TxUndo PROVE Fate(DpaTx)
<1> DEFINE t == DpaTx
<1>0. /\ PathOK /\ t \in Threads /\ pc[t] = "txUndo" /\ copy[t].body = NoLoc
      /\ copy[t].header \in Locs \cup {NoLoc} /\ FreeSlot(copy[t].header)
  BY TxFacts DEF PathInv, TxAt, TxUndo, PathOK
<1>1. Freed(copy[t].header)
  BY <1>0, FreeSlotFrees
<1>2. Tidy(t) /\ ~Drops(t)
  BY <1>0, <1>1, StaysTidy DEF HeaderGone, BodyGone, Freed, Drops, Carries, Dropping
<1> QED BY <1>0, <1>2, TidyIsEnough DEF Fate

\* The router.
LEMMA FateArmGet == ASSUME PathInv, ArmGet PROVE Gets(Arm)
<1>1. /\ PathOK /\ Arm \in Threads /\ <<"tx", Dpu>> \in Rings /\ Get(Arm, <<"tx", Dpu>>)
      /\ Goto(Arm, "route")
  BY Names DEF PathInv, ArmGet
<1> QED BY <1>1, GetGets DEF Resting, Dropping, HeaderGone, BodyGone

LEMMA FateRoute == ASSUME PathInv, Route PROVE Fate(Arm)
<1> DEFINE m == desc[Arm].msg
<1>0. /\ PathOK /\ Arm \in Threads /\ pc[Arm] = "route" /\ desc[Arm] \in Descs /\ copy' = copy
      /\ buf[desc[Arm].header] = m
  BY RouteReads DEF PathInv, Route
<1>1. PICK l \in {"cleanBody", "putRx", "bridgeBody"} :
         /\ Goto(Arm, l)
         /\ l = "cleanBody" => m[2] = "request" /\ WorkersOf[Target[m[1]]] = <<>>
         /\ desc' = desc \/ \E w : desc' = [desc EXCEPT ![Arm].dst = w]
  BY <1>0, Zenon DEF Route
<1>2. pc'[Arm] = l /\ desc'[Arm].header = desc[Arm].header /\ desc'[Arm].body = desc[Arm].body
  BY <1>0, <1>1, AfterGoto DEF PathOK, Descs
<1>3. Tidy(Arm)
  BY <1>0, <1>2, StaysTidy DEF HeaderGone, BodyGone
<1>4. Drops(Arm) => Excused(Arm)
  BY <1>1, <1>2 DEF Drops, Carries, Resting, Dropping, Excused, NoWorker
<1> QED BY <1>0, <1>3, <1>4, TidyIsEnough DEF Fate

LEMMA FatePutRx == ASSUME PathInv, PutRx PROVE Fate(Arm)
<1> DEFINE q == <<"rx", Dpu>>
<1>0. /\ PathOK /\ Arm \in Threads /\ pc[Arm] = "putRx" /\ desc[Arm] \in Descs /\ q \in Rings
      /\ copy[Arm] = NoCopy
  BY ArmFacts, Names DEF PathInv, ArmAt, PutRx
<1>1. CASE RingFull(q)
  <2>1. Goto(Arm, "cleanBody") /\ UNCHANGED <<desc, copy>>
    BY <1>1 DEF PutRx
  <2>2. Tidy(Arm)
    BY <1>0, <2>1, AfterGoto, StaysTidy DEF HeaderGone, BodyGone
  <2> QED BY <1>0, <1>1, <2>2, TidyIsEnough DEF Fate, Excused, NoRoom, TooLong
<1>2. CASE ~RingFull(q)
  <2>1. Put(q, desc[Arm])
    BY <1>2 DEF PutRx
  <2>2. \A k \in Kinds : Held(Arm, k) \in {NoLoc, desc[Arm].header, desc[Arm].body}
    BY <1>0, DescFacts DEF Held, Has, Kinds
  <2>3. Tidy(Arm) /\ ~Drops(Arm)
    BY <1>0, <2>1, <2>2, PutIsTidy
  <2> QED BY <1>0, <2>3, TidyIsEnough DEF Fate
<1> QED BY <1>1, <1>2

LEMMA FateClean == ASSUME PathInv, CleanBody \/ CleanHeader PROVE Fate(Arm)
<1>0. /\ PathOK /\ Arm \in Threads /\ pc[Arm] \in {"cleanBody", "cleanHeader"} /\ desc[Arm] \in Descs
      /\ copy[Arm] = NoCopy
  BY ArmFacts DEF PathInv, ArmAt, CleanBody, CleanHeader
<1>1. desc[Arm].header \in Locs \cup {NoLoc} /\ desc[Arm].body \in Locs \cup {NoLoc}
  BY <1>0, DescFacts
<1>2. CASE CleanBody
  <2>1. Freed(desc[Arm].body) /\ pc'[Arm] = "cleanHeader" /\ desc'[Arm] = desc[Arm]
    BY <1>0, <1>1, <1>2, FreeSlotFrees, AfterGoto DEF CleanBody
  <2>2. Tidy(Arm)
    BY <1>0, <2>1, StaysTidy, DescFacts DEF HeaderGone, Freed
  <2> QED BY <1>0, <2>2, TidyIsEnough DEF Fate, Drops, Carries, Dropping
<1>3. CASE CleanHeader
  <2>1. Freed(desc[Arm].header) /\ pc[Arm] = "cleanHeader"
    BY <1>0, <1>1, <1>3, FreeSlotFrees DEF CleanHeader
  <2>2. Tidy(Arm)
    BY <1>0, <2>1, StaysTidy, DescFacts DEF BodyGone, Freed
  <2> QED BY <1>0, <2>2, TidyIsEnough DEF Fate, Drops, Carries, Dropping
<1> QED BY <1>2, <1>3

LEMMA FateBridge == ASSUME PathInv, BridgeBody \/ BridgeHeader PROVE Fate(Arm)
<1>0. /\ PathOK /\ Arm \in Threads /\ pc[Arm] \in {"bridgeBody", "bridgeHeader"} /\ desc[Arm] \in Descs
      /\ copy[Arm] = NoCopy
  BY ArmFacts DEF PathInv, ArmAt, BridgeBody, BridgeHeader
<1>1. desc[Arm].header \in Locs \cup {NoLoc} /\ desc[Arm].body \in Locs \cup {NoLoc}
  BY <1>0, DescFacts
<1>2. CASE BridgeBody
  <2>1. pc'[Arm] = "bridgeHeader" /\ desc'[Arm] = desc[Arm]
    BY <1>0, <1>2, AfterGoto DEF BridgeBody
  <2>2. TidyButBody(Arm)
    <3>1. CASE NoBody(desc[Arm])
      BY <1>0, <2>1, <3>1, StaysButBody, DescFacts DEF HeaderGone, Freed
    <3>2. CASE ~NoBody(desc[Arm])
      <4>1. Freed(desc[Arm].body)
        BY <1>0, <1>1, <1>2, <3>2, FreeSlotFrees DEF BridgeBody
      <4> QED BY <1>0, <2>1, <4>1, StaysTidy, TidyIsEnough, DescFacts DEF HeaderGone, Freed
    <3> QED BY <3>1, <3>2
  <2> QED BY <1>0, <2>1, <2>2, TidyIsEnough DEF Fate, Drops, Carries, Resting, Dropping
<1>3. CASE BridgeHeader
  <2>1. Freed(desc[Arm].header) /\ pc'[Arm] = "bridgeNotify" /\ pc[Arm] = "bridgeHeader"
    BY <1>0, <1>1, <1>3, FreeSlotFrees, AfterGoto DEF BridgeHeader
  <2>2. Tidy(Arm)
    BY <1>0, <2>1, StaysTidy, DescFacts DEF BodyGone, Freed
  <2> QED BY <1>0, <2>1, <2>2, TidyIsEnough DEF Fate, Drops, Carries, Resting, Dropping
<1> QED BY <1>2, <1>3

LEMMA FateBridgeNotify == ASSUME PathInv, BridgeNotify PROVE pc[Arm] # "idle" /\ Tidy(Arm)
<1>0. Arm \in Threads /\ pc[Arm] = "bridgeNotify" /\ copy[Arm] = NoCopy
  BY ArmFacts DEF PathInv, ArmAt, BridgeNotify
<1> QED BY <1>0, StaysTidy, DescFacts DEF HeaderGone, BodyGone, Freed

\* The DPA, thread DPA-RX-Poll.
LEMMA FateRxGet == ASSUME PathInv, RxGet PROVE Gets(DpaRx)
<1>1. /\ PathOK /\ DpaRx \in Threads /\ <<"rx", Dpu>> \in Rings /\ Get(DpaRx, <<"rx", Dpu>>)
      /\ Goto(DpaRx, "rxCopyBody")
  BY Names DEF PathInv, RxGet
<1> QED BY <1>1, GetGets DEF Resting, Dropping, HeaderGone, BodyGone

LEMMA FateRxCopyBody == ASSUME PathInv, RxCopyBody PROVE Fate(DpaRx)
<1> DEFINE t == DpaRx
<1>0. /\ PathOK /\ t \in Threads /\ pc[t] = "rxCopyBody" /\ copy[t] = NoCopy /\ desc' = desc
  BY RxFacts DEF PathInv, RxAt, RxCopyBody
<1>1. PICK l \in {"rxPut", "rxCopyHeader", "rxRequeue", "rxFreeBody"} :
         /\ Goto(t, l)
         /\ l \notin {"rxRequeue", "rxFreeBody"} => NoBody(desc[t]) /\ l = AfterBody
  BY Zenon DEF RxCopyBody, AfterBody
<1>2. pc'[t] = l
  BY <1>0, <1>1, AfterGoto
<1>3. Carries(t)'
  BY <1>2 DEF Carries, Resting, Dropping
<1>4. TidyButBody(t)
  <2>1. CASE l \in {"rxRequeue", "rxFreeBody"}
    BY <1>0, <1>2, <2>1, StaysTidy, TidyIsEnough, DescFacts DEF Freed, HeaderGone, BodyGone
  <2>2. CASE l \in {"rxPut", "rxCopyHeader"}
    <3>1. l = "rxPut" => desc[t].header = NoLoc
      BY <1>1, <2>2 DEF AfterBody, Case2
    <3> QED BY <1>0, <1>1, <1>2, <2>2, <3>1, StaysButBody, DescFacts DEF Freed, HeaderGone
  <2> QED BY <2>1, <2>2
<1> QED BY <1>0, <1>3, <1>4, TidyIsEnough DEF Fate, Drops

LEMMA FateRxRequeue == ASSUME PathInv, RxRequeue PROVE Fate(DpaRx)
<1> DEFINE t == DpaRx
           q == <<"rx", Dpu>>
<1>0. /\ PathOK /\ t \in Threads /\ pc[t] = "rxRequeue" /\ copy[t] = NoCopy /\ desc[t] \in Descs
      /\ q \in Rings /\ Done(t, "idle")
  BY RxFacts, Names DEF PathInv, RxAt, RxRequeue
<1>1. CASE RingFull(q)
  <2>1. ring' = ring /\ pc'[t] = "idle"
    BY <1>0, <1>1, AfterDone DEF RxRequeue
  <2>2. Drops(t)
    BY <1>0, <2>1 DEF Drops, Carries, Resting, Dropping
  <2> QED BY <1>0, <1>1, <2>2, TidyIsEnough DEF Fate, Excused, NoRoom, TooLong
<1>2. CASE ~RingFull(q)
  <2>1. Put(q, desc[t])
    BY <1>2 DEF RxRequeue
  <2>2. \A k \in Kinds : Held(t, k) \in {NoLoc, desc[t].header, desc[t].body}
    BY <1>0, DescFacts DEF Held, Has, Kinds
  <2>3. Tidy(t) /\ ~Drops(t)
    BY <1>0, <2>1, <2>2, PutIsTidy
  <2> QED BY <1>0, <2>3, TidyIsEnough DEF Fate
<1> QED BY <1>1, <1>2

LEMMA FateRxFreeBody == ASSUME PathInv, RxFreeBody PROVE Fate(DpaRx)
<1> DEFINE t == DpaRx
<1>0. /\ PathOK /\ t \in Threads /\ pc[t] = "rxFreeBody" /\ desc[t] \in Descs
      /\ FreeSlot(desc[t].body) /\ Goto(t, AfterBody) /\ UNCHANGED <<desc, copy>>
  BY RxFacts DEF PathInv, RxAt, RxFreeBody
<1>1. Freed(desc[t].body) /\ pc'[t] = AfterBody
  BY <1>0, FreeSlotFrees, DescFacts, AfterGoto
<1>2. AfterBody \in {"rxPut", "rxCopyHeader"} /\ (AfterBody = "rxPut" => desc[t].header = NoLoc)
  BY DEF AfterBody, Case2
<1>3. Tidy(t) /\ Carries(t)'
  BY <1>0, <1>1, <1>2, StaysTidy DEF HeaderGone, Carries, Resting, Dropping, Freed
<1> QED BY <1>0, <1>3, TidyIsEnough DEF Fate, Drops

LEMMA FateRxCopyHeader == ASSUME PathInv, RxCopyHeader PROVE Fate(DpaRx)
<1> DEFINE t == DpaRx
           p == HostPool("rxHeader")
           s == FirstFree(p)
<1>0. /\ PathOK /\ t \in Threads /\ pc[t] = "rxCopyHeader" /\ desc' = desc /\ ring' = ring
      /\ copy[t].header = NoLoc /\ p \in Pools
  BY RxFacts, PoolNames DEF PathInv, RxAt, RxCopyHeader, HostPool
<1>1. CASE PoolFull(p)
  <2>1. Goto(t, "rxUndoBody")
    BY <1>1 DEF RxCopyHeader
  <2>2. Drops(t)
    BY <1>0, <2>1, AfterGoto DEF Drops, Carries, Resting, Dropping
  <2> QED BY <1>0, <1>1, <2>2, TidyIsEnough DEF Fate, Excused, NoRoom, TooLong, HostPool
<1>2. CASE ~PoolFull(p)
  <2> HIDE DEF p, s
  <2>1. Goto(t, "rxFreeHeader") /\ copy' = [copy EXCEPT ![t].header = s]
    BY <1>2 DEF RxCopyHeader, p, s
  <2>2. pc'[t] = "rxFreeHeader"
    BY <1>0, <2>1, AfterGoto
  <2>3. copy'[t].body = copy[t].body
    BY <1>0, <2>1 DEF PathOK
  <2>4. Tidy(t) /\ Carries(t)'
    BY <1>0, <2>2, <2>3, StaysTidy DEF Freed, HeaderGone, BodyGone, Carries, Resting, Dropping
  <2> QED BY <1>0, <2>4, TidyIsEnough DEF Fate, Drops
<1> QED BY <1>1, <1>2

LEMMA FateRxFreeHeader == ASSUME PathInv, RxFreeHeader PROVE Fate(DpaRx)
<1> DEFINE t == DpaRx
<1>0. /\ PathOK /\ t \in Threads /\ pc[t] = "rxFreeHeader" /\ desc[t] \in Descs
      /\ FreeSlot(desc[t].header) /\ Goto(t, "rxPut") /\ UNCHANGED <<desc, copy>>
  BY RxFacts DEF PathInv, RxAt, RxFreeHeader
<1>1. Freed(desc[t].header) /\ pc'[t] = "rxPut"
  BY <1>0, FreeSlotFrees, DescFacts, AfterGoto
<1>2. Tidy(t) /\ Carries(t)'
  BY <1>0, <1>1, StaysTidy DEF BodyGone, Carries, Resting, Dropping
<1> QED BY <1>0, <1>2, TidyIsEnough DEF Fate, Drops

LEMMA FateRxPut == ASSUME PathInv, RxPut PROVE Fate(DpaRx)
<1> DEFINE t == DpaRx
           q == <<"rx", desc[t].dst>>
           d == [desc[t] EXCEPT !.header = copy[t].header, !.body = copy[t].body]
<1>0. /\ PathOK /\ t \in Threads /\ pc[t] = "rxPut" /\ desc[t] \in Descs /\ q \in Rings
      /\ copy[t].body \in Locs \cup {NoLoc} /\ copy[t].header \in Locs \cup {NoLoc}
  BY RxFacts, Names DEF PathInv, RxAt, RxPut, PathOK
<1>1. CASE RingFull(q)
  <2>1. Goto(t, "rxUndoBody") /\ ring' = ring
    BY <1>1 DEF RxPut
  <2>2. Drops(t)
    BY <1>0, <2>1, AfterGoto DEF Drops, Carries, Resting, Dropping
  <2> QED BY <1>0, <1>1, <2>2, TidyIsEnough DEF Fate, Excused, NoRoom, TooLong
<1>2. CASE ~RingFull(q)
  <2>1. Put(q, d)
    BY <1>2 DEF RxPut
  <2>2. d \in Descs /\ d.header = copy[t].header /\ d.body = copy[t].body
    BY <1>0 DEF Descs
  <2> HIDE DEF d
  <2>3. \A k \in Kinds : Held(t, k) \in {NoLoc, d.header, d.body}
    BY <1>0, <2>2 DEF Held, Has, Kinds, HeaderGone, BodyGone
  <2>4. Tidy(t) /\ ~Drops(t)
    BY <1>0, <2>1, <2>2, <2>3, PutIsTidy
  <2> QED BY <1>0, <2>4, TidyIsEnough DEF Fate
<1> QED BY <1>1, <1>2

LEMMA FateRxUndo == ASSUME PathInv, RxUndoBody \/ RxUndoHeader PROVE Fate(DpaRx)
<1> DEFINE t == DpaRx
<1>0. /\ PathOK /\ t \in Threads /\ pc[t] \in {"rxUndoBody", "rxUndoHeader"}
      /\ copy[t].body \in Locs \cup {NoLoc} /\ copy[t].header \in Locs \cup {NoLoc}
  BY RxFacts DEF PathInv, PathOK, RxUndoBody, RxUndoHeader
<1>1. ~Drops(t)
  BY <1>0 DEF Drops, Carries, Dropping
<1>2. CASE RxUndoBody
  <2>1. Freed(copy[t].body) /\ copy'[t] = copy[t]
    BY <1>0, <1>2, FreeSlotFrees DEF RxUndoBody
  <2>2. Tidy(t)
    BY <1>0, <2>1, StaysTidy DEF HeaderGone, BodyGone, Freed
  <2> QED BY <1>0, <1>1, <2>2, TidyIsEnough DEF Fate
<1>3. CASE RxUndoHeader
  <2>1. Freed(copy[t].header) /\ pc[t] = "rxUndoHeader"
    BY <1>0, <1>3, FreeSlotFrees DEF RxUndoHeader
  <2>2. Tidy(t)
    BY <1>0, <2>1, StaysTidy DEF HeaderGone, BodyGone
  <2> QED BY <1>0, <1>1, <2>2, TidyIsEnough DEF Fate
<1> QED BY <1>2, <1>3

\* A client's thread.
LEMMA FateClientAlloc == ASSUME PathInv, NEW r \in Clients, ClientAlloc(r) PROVE Fate(r)
<1> DEFINE p == <<"rxBody", Dpu>>
<1>0. /\ PathOK /\ r \in Threads /\ pc[r] = "clientAlloc" /\ p \in Pools /\ desc[r] \in Descs
      /\ desc[r].header = NoLoc /\ desc[r].body = NoLoc /\ copy[r] = NoCopy
  BY ClientFacts, PoolNames DEF PathInv, ClientAt, ClientAlloc
<1>1. Tidy(r)
  BY <1>0, StaysTidy, DescFacts DEF Freed
<1>2. Drops(r) => PoolFull(p) \/ desc[r].msg \in TooBig
  <2> SUFFICES ASSUME ~PoolFull(p), desc[r].msg \notin TooBig PROVE Carries(r)'
    BY DEF Drops
  <2>1. Goto(r, "clientPut")
    BY DEF ClientAlloc
  <2> QED BY <1>0, <2>1, AfterGoto DEF Carries, Resting, Dropping
<1> QED BY <1>0, <1>1, <1>2, TidyIsEnough DEF Fate, Excused, NoRoom, TooLong

LEMMA FateClientPut == ASSUME PathInv, NEW r \in Clients, ClientPut(r) PROVE Fate(r)
<1> DEFINE q == <<"rx", Dpu>>
<1>0. /\ PathOK /\ r \in Threads /\ pc[r] = "clientPut" /\ q \in Rings /\ desc[r] \in Descs
      /\ copy[r] = NoCopy
  BY ClientFacts, Names DEF PathInv, ClientAt, ClientPut
<1>1. CASE RingFull(q)
  <2>1. Goto(r, "clientUndo") /\ UNCHANGED <<desc, copy>>
    BY <1>1 DEF ClientPut
  <2>2. Tidy(r)
    BY <1>0, <2>1, AfterGoto, StaysTidy DEF HeaderGone, BodyGone
  <2> QED BY <1>0, <1>1, <2>2, TidyIsEnough DEF Fate, Excused, NoRoom, TooLong
<1>2. CASE ~RingFull(q)
  <2>1. Put(q, desc[r])
    BY <1>2 DEF ClientPut
  <2>2. \A k \in Kinds : Held(r, k) \in {NoLoc, desc[r].header, desc[r].body}
    BY <1>0, DescFacts DEF Held, Has, Kinds
  <2>3. Tidy(r) /\ ~Drops(r)
    BY <1>0, <2>1, <2>2, PutIsTidy
  <2> QED BY <1>0, <2>3, TidyIsEnough DEF Fate
<1> QED BY <1>1, <1>2

LEMMA FateClientUndo == ASSUME PathInv, NEW r \in Clients, ClientUndo(r) PROVE Fate(r)
<1>0. /\ PathOK /\ r \in Threads /\ pc[r] = "clientUndo" /\ desc[r] \in Descs
      /\ desc[r].header = NoLoc /\ copy[r] = NoCopy /\ FreeSlot(desc[r].body)
  BY ClientFacts DEF PathInv, ClientAt, ClientUndo
<1>1. Freed(desc[r].body)
  BY <1>0, FreeSlotFrees, DescFacts
<1>2. Tidy(r) /\ ~Drops(r)
  BY <1>0, <1>1, StaysTidy, DescFacts DEF Freed, Drops, Carries, Dropping
<1> QED BY <1>0, <1>2, TidyIsEnough DEF Fate

LEMMA FateClientLeaves ==
    ASSUME PathInv, NEW r \in Clients, ClientAnswered(r) \/ ClientTimeout(r)
    PROVE  pc[r] # "idle" /\ Tidy(r) /\ ~Drops(r)
<1>0. r \in Threads /\ pc[r] = "wait" /\ desc[r] = NoDesc /\ copy[r] = NoCopy
  BY ClientFacts DEF PathInv, ClientAt, ClientAnswered, ClientTimeout
<1> QED BY <1>0, StaysTidy, DescFacts DEF Freed, Drops, Carries, Resting

(***************************************************************************)
(* All steps, by what they may lose.                                       *)
(***************************************************************************)

\* A step that neither sends a message nor hands one over.
Quiet(t) == StepOf(t) /\ sent' = sent /\ Arrived' = Arrived /\ (Gets(t) \/ Fate(t))

LEMMA QuietStep ==
    ASSUME PathInv, NEW t \in Threads, Goes(t), UNCHANGED <<sent, received, answers>>,
           Gets(t) \/ Fate(t)
    PROVE  Quiet(t)
<1>1. ~StartStep(t)
  BY DEF StartStep
<1> QED BY <1>1 DEF Goes, Quiet, Arrived

LEMMA QuietWorker ==
    ASSUME PathInv, NEW w \in Workers, WorkerStep(w)
    PROVE  Quiet(w) \/ ReadBody(w) \/ \E r \in Requests : Respond(w, r)
<1>0. w \in Threads /\ Goes(w)
  BY KeepsWorker, Names
<1>1. CASE AllocHeader(w)
  <2>1. UNCHANGED <<sent, received, answers>>
    BY <1>1 DEF AllocHeader, app, arm
  <2> QED BY <1>0, <1>1, <2>1, FateAllocHeader, QuietStep
<1>2. CASE AllocBody(w)
  <2>1. UNCHANGED <<sent, received, answers>>
    BY <1>2 DEF AllocBody, app, arm
  <2> QED BY <1>0, <1>2, <2>1, FateAllocBody, QuietStep
<1>3. CASE PutTx(w)
  <2>1. UNCHANGED <<sent, received, answers>>
    BY <1>3 DEF PutTx, app, arm
  <2> QED BY <1>0, <1>3, <2>1, FatePutTx, QuietStep
<1>4. CASE UndoHeader(w) \/ UndoBody(w)
  <2>1. UNCHANGED <<sent, received, answers>>
    BY <1>4 DEF UndoHeader, UndoBody, app, arm
  <2> QED BY <1>0, <1>4, <2>1, FateUndo, QuietStep
<1>5. CASE TakeRx(w)
  <2>1. UNCHANGED <<sent, received, answers>>
    BY <1>5 DEF TakeRx, app, arm
  <2> QED BY <1>0, <1>5, <2>1, FateTakeRx, QuietStep
<1>6. CASE ReadHeader(w)
  <2>1. UNCHANGED <<sent, received, answers>>
    BY <1>6 DEF ReadHeader, app, arm
  <2>2. Fate(w)
    BY <1>6, FateRead, TidyIsEnough DEF Fate, Drops
  <2> QED BY <1>0, <2>1, <2>2, QuietStep
<1> QED BY <1>1, <1>2, <1>3, <1>4, <1>5, <1>6 DEF WorkerStep

LEMMA QuietDpaTx == ASSUME PathInv, DpaTxStep PROVE Quiet(DpaTx)
<1>1. DpaTx \in Threads /\ Goes(DpaTx)
  BY KeepsDpaTx, Names
<1>2. UNCHANGED <<sent, received, answers>>
  BY DEF DpaTxStep, TxGet, TxCopy, TxRequeue, TxFree, TxPut, TxUndo, app, arm
<1>3. Gets(DpaTx) \/ Fate(DpaTx)
  BY FateTxGet, FateTxCopy, FateTxRequeue, FateTxFree, FateTxPut, FateTxUndo DEF DpaTxStep
<1> QED BY <1>1, <1>2, <1>3, QuietStep

LEMMA QuietDpaRx == ASSUME PathInv, DpaRxStep PROVE Quiet(DpaRx)
<1>1. DpaRx \in Threads /\ Goes(DpaRx)
  BY KeepsDpaRx, Names
<1>2. UNCHANGED <<sent, received, answers>>
  BY DEF DpaRxStep, RxGet, RxCopyBody, RxRequeue, RxFreeBody, RxCopyHeader, RxFreeHeader, RxPut,
         RxUndoBody, RxUndoHeader, app, arm
<1>3. Gets(DpaRx) \/ Fate(DpaRx)
  BY FateRxGet, FateRxCopyBody, FateRxRequeue, FateRxFreeBody, FateRxCopyHeader, FateRxFreeHeader,
     FateRxPut, FateRxUndo
     DEF DpaRxStep
<1> QED BY <1>1, <1>2, <1>3, QuietStep

LEMMA QuietArm == ASSUME PathInv, ArmStep PROVE Quiet(Arm) \/ BridgeNotify
<1> SUFFICES ASSUME ~BridgeNotify PROVE Quiet(Arm)
  OBVIOUS
<1>1. Arm \in Threads /\ Goes(Arm)
  BY KeepsArm, Names
<1>2. UNCHANGED <<sent, received, answers>>
  BY DEF ArmStep, ArmGet, Route, PutRx, CleanBody, CleanHeader, BridgeBody, BridgeHeader, app, arm
<1>3. Gets(Arm) \/ Fate(Arm)
  BY FateArmGet, FateRoute, FatePutRx, FateClean, FateBridge DEF ArmStep
<1> QED BY <1>1, <1>2, <1>3, QuietStep

LEMMA QuietClient ==
    ASSUME PathInv, NEW r \in Clients, ClientStep(r) \/ ClientTimeout(r)
    PROVE  Quiet(r) \/ ClientAnswered(r) \/ ClientTimeout(r)
<1> SUFFICES ASSUME ClientAlloc(r) \/ ClientPut(r) \/ ClientUndo(r) PROVE Quiet(r)
  BY DEF ClientStep
<1>1. r \in Threads /\ Goes(r)
  BY KeepsClient, Names DEF ClientStep
<1>2. UNCHANGED <<sent, received, answers>>
  BY DEF ClientAlloc, ClientPut, ClientUndo, app, arm
<1>3. Fate(r)
  BY FateClientAlloc, FateClientPut, FateClientUndo
<1> QED BY <1>1, <1>2, <1>3, QuietStep

\* A message sets out: m is new, and is carried unless it is refused.
Sets(t, m) ==
    /\ StartStep(t) /\ pc[t] = "idle" /\ Arrived' = Arrived
    /\ m \notin sent /\ sent' = sent \cup {m}
    /\ ~Carries(t)' => NoWorker(m)
    /\ Carries(t)' => desc'[t].msg = m

LEMMA BeginSets ==
    ASSUME PathInv, NEW w \in Workers, NEW r \in Requests, Submit(w, r) \/ Respond(w, r)
    PROVE  \E m \in Messages : Sets(w, m)
<1>0. PathOK /\ ThreadInv /\ ServeInv /\ w \in Threads
  BY Names DEF PathInv
<1>1. PICK m \in Messages : Begin(w, m) /\ m \notin sent /\ UNCHANGED arm
  BY <1>0 DEF Submit, Respond, Begin, Messages, ServeInv
<1>2. StartStep(w)
  BY <1>0, <1>1, BeginStarts
<1>3. pc'[w] = "allocHeader" /\ pc[w] = "idle" /\ sent' = sent \cup {m}
  BY <1>0, <1>1, AfterGoto DEF Begin
<1>4. Carries(w)'
  BY <1>3 DEF Carries, Resting, Dropping
<1>5. Carries(w)' => desc'[w].msg = m
  BY <1>1, <1>2, <1>3 DEF StartStep
<1>6. Arrived' = Arrived
  BY <1>1 DEF Begin, Arrived, arm
<1> QED BY <1>1, <1>2, <1>3, <1>4, <1>5, <1>6 DEF Sets

LEMMA OpenSets ==
    ASSUME PathInv, NEW r \in Clients, ClientOpen(r) PROVE \E m \in Messages : Sets(r, m)
<1> DEFINE m == <<r, "request">>
<1>0. PathOK /\ ThreadInv /\ ServeInv /\ r \in Threads /\ r \in Requests
  BY Names DEF PathInv
<1>1. StartStep(r) /\ m \in Messages /\ m \notin sent /\ sent' = sent \cup {m} /\ pc[r] = "idle"
  BY <1>0, StartClientOpen DEF ClientOpen, ServeInv, Messages
<1>2. Arrived' = Arrived
  BY DEF ClientOpen, Arrived
<1>3. ASSUME WorkersOf[Target[r]] # <<>> PROVE Carries(r)'
  <2>1. Goto(r, "clientAlloc")
    BY <1>3 DEF ClientOpen
  <2> QED BY <1>0, <2>1, AfterGoto DEF Carries, Resting, Dropping
<1>4. ~Carries(r)' => NoWorker(m)
  BY <1>3 DEF NoWorker
<1>5. Carries(r)' => desc'[r].msg = m
  BY <1>1 DEF StartStep
<1> QED BY <1>1, <1>2, <1>4, <1>5 DEF Sets

LEMMA EachStep ==
    ASSUME PathInv, Step
    PROVE  \/ \E t \in Threads : Quiet(t)
           \/ \E w \in Workers : ReadBody(w)
           \/ BridgeNotify
           \/ \E r \in Clients : ClientAnswered(r) \/ ClientTimeout(r)
           \/ \E t \in Threads, m \in Messages : Sets(t, m)
<1>1. CASE \E w \in Workers : WorkerStep(w) \/ \E r \in Requests : Submit(w, r)
  BY <1>1, QuietWorker, BeginSets, Names
<1>2. CASE DpaTxStep \/ ArmStep \/ DpaRxStep
  BY <1>2, QuietDpaTx, QuietArm, QuietDpaRx, Names
<1>3. CASE \E r \in Clients : ClientOpen(r) \/ ClientStep(r) \/ ClientTimeout(r)
  BY <1>3, OpenSets, QuietClient, Names
<1> QED BY <1>1, <1>2, <1>3 DEF Step

\* Why a message is lost, but for an answer to a client that has gone.
Reason(m) == (\E t \in Threads : desc[t].msg = m /\ (NoRoom(t) \/ TooLong(t))) \/ NoWorker(m)

\* Where no message is handed over, only the one that is dropped gets lost.
LEMMA QuietLoss ==
    ASSUME PathInv, NEW t \in Threads, Quiet(t), NEW m, Gone(m)', ~Gone(m) PROVE Reason(m)
<1>1. m \in sent \ Arrived
  BY DEF Quiet, Gone
<1>2. pc[t] = "idle" => Gets(t)
  BY DEF Quiet, Fate
<1>3. Drops(t) /\ desc[t].msg = m
  BY <1>1, <1>2, OnlyDropped DEF Quiet
<1>4. pc[t] # "idle"
  BY <1>3 DEF Drops, Carries, Resting
<1>5. ~Gets(t)
  BY <1>4 DEF Gets, Get
<1> QED BY <1>3, <1>5 DEF Quiet, Fate, Excused, Reason

LEMMA StartLoss ==
    ASSUME PathInv, NEW t \in Threads, NEW n, Sets(t, n), NEW m, Gone(m)', ~Gone(m) PROVE Reason(m)
<1>1. ~Carries(t) /\ Moved(t) /\ ring' = ring
  BY DEF Sets, StartStep, Carries, Resting
<1>2. m \notin sent
  <2> SUFFICES ASSUME m \in sent PROVE FALSE
    OBVIOUS
  <2>1. m \in sent \ Arrived
    BY DEF Sets, Gone
  <2>2. \A u \in Threads : Carries(u) => desc[u].msg # m
    BY <1>1, OthersStay DEF Gone
  <2>3. \A q \in Rings : \A i \in 1 .. Len(ring[q]) : ring[q][i].msg # m
    BY <1>1 DEF Gone
  <2> QED BY <2>1, <2>2, <2>3 DEF Gone
<1>3. m = n
  BY <1>2 DEF Sets, Gone
<1>4. ~Carries(t)'
  BY <1>3 DEF Sets, Gone
<1> QED BY <1>3, <1>4 DEF Sets, Reason

\* An answer to a client that has gone.
Late(m) == m[2] = "response" /\ m[1] \in Clients \ events'

LEMMA ReadLoss ==
    ASSUME PathInv, NEW w \in Workers, ReadBody(w), NEW m, Gone(m)', ~Gone(m) PROVE FALSE
<1>0. w \in Threads /\ PathOK /\ ThreadInv
  BY Names DEF PathInv
<1>1. sent' = sent /\ Arrived' = Arrived \cup {desc[w].msg}
  BY DEF ReadBody, arm, Arrived
<1>2. StepOf(w) /\ pc[w] # "idle"
  BY <1>0, StepReadBody, FateRead
<1>3. m \in sent \ Arrived
  BY <1>1 DEF Gone
<1>4. desc[w].msg = m
  BY <1>0, <1>2, <1>3, OnlyDropped
<1> QED BY <1>1, <1>4 DEF Gone

LEMMA NotifyLoss ==
    ASSUME PathInv, BridgeNotify, NEW m, Gone(m)', ~Gone(m) PROVE Late(m)
<1>0. PathOK /\ ThreadInv /\ Arm \in Threads /\ desc[Arm] \in Descs /\ pc[Arm] = "bridgeNotify"
      /\ desc[Arm].msg[2] = "response" /\ desc[Arm].msg[1] \in Clients
  BY ArmFacts DEF PathInv, BridgeNotify, ArmAt
<1>1. /\ sent' = sent /\ received' = received /\ events' = events
      /\ answers' = answers \cup ({desc[Arm].msg[1]} \cap events)
  BY DEF BridgeNotify, app
<1>2. StepOf(Arm)
  BY <1>0, StepBridgeNotify
<1>3. m \in sent \ Arrived
  BY <1>1 DEF Gone, Arrived
<1>4. desc[Arm].msg = m
  BY <1>0, <1>2, <1>3, OnlyDropped
<1>5. m = <<m[1], "response">>
  BY <1>0, <1>4, DescFacts DEF Messages
<1>6. m[1] \notin events
  BY <1>1, <1>4, <1>5 DEF Gone, Arrived
<1> QED BY <1>0, <1>1, <1>4, <1>6 DEF Late

LEMMA LeaveLoss ==
    ASSUME PathInv, NEW r \in Clients, ClientAnswered(r) \/ ClientTimeout(r), NEW m, Gone(m)', ~Gone(m)
    PROVE  Late(m)
<1>0. PathOK /\ ThreadInv /\ r \in Threads
  BY Names DEF PathInv
<1>1. /\ sent' = sent /\ Forget(r)
      /\ received' = received \/ received' = received \cup {<<r, "response">>}
  BY DEF ClientAnswered, ClientTimeout, app
<1>2. StepOf(r) /\ pc[r] # "idle" /\ ~Drops(r)
  BY <1>0, StepClientLeaves, FateClientLeaves
<1>3. m \notin sent \ Arrived
  BY <1>0, <1>2, OnlyDropped
<1>4. m \in Arrived /\ m \notin Arrived'
  BY <1>1, <1>3 DEF Gone
<1>5. m = <<r, "response">>
  BY <1>1, <1>4 DEF Arrived, Forget
<1>6. r \notin events'
  BY <1>1 DEF Forget
<1> QED BY <1>5, <1>6 DEF Late

\* A message is lost for a reason.
LEMMA StepLoses ==
    ASSUME PathInv, Step, NEW m, Gone(m)', ~Gone(m) PROVE Reason(m) \/ Late(m)
<1>1. CASE \E t \in Threads : Quiet(t)
  BY <1>1, QuietLoss
<1>2. CASE \E w \in Workers : ReadBody(w)
  BY <1>2, ReadLoss
<1>3. CASE BridgeNotify
  BY <1>3, NotifyLoss
<1>4. CASE \E r \in Clients : ClientAnswered(r) \/ ClientTimeout(r)
  BY <1>4, LeaveLoss
<1>5. CASE \E t \in Threads, n \in Messages : Sets(t, n)
  BY <1>5, StartLoss
<1> QED BY <1>1, <1>2, <1>3, <1>4, <1>5, EachStep

\* Before a collision, a message is lost only in the hands of a thread that meets the very
\* pool or ring it needs full, or finds the message too big, or because it names a service
\* without workers, or answers a client that has gone.
THEOREM OnlyExcusedLoss == Spec => LossIsExcused
<1>0. (PathInv => \A m : m \in Lost <=> Gone(m))'
  BY LostAreGone, PTL
<1>1. ASSUME PathInv, PathInv', [Next]_vars, NEW m \in Lost' \ Lost PROVE Reason(m) \/ Late(m)
  <2>1. ~Gone(m)
    BY <1>1, LostAreGone
  <2>2. Gone(m)'
    BY <1>0, <1>1
  <2>3. ~UNCHANGED path
    BY <2>1, <2>2 DEF path, Gone, Arrived, Carries
  <2> QED BY <1>1, <2>1, <2>2, <2>3, NextIsStep, StepLoses
<1>2. PathInv /\ PathInv' /\ [Next]_vars =>
        [~collided' => \A m \in Lost' \ Lost :
            \/ \E t \in Threads : desc[t].msg = m /\ (NoRoom(t) \/ TooLong(t))
            \/ m[2] = "request" /\ WorkersOf[Target[m[1]]] = <<>>
            \/ m[2] = "response" /\ m[1] \in Clients \ events']_vars
  BY <1>1 DEF Reason, NoWorker, Late
<1> QED BY <1>2, InvariantKept, PTL DEF Spec, LossIsExcused

(***************************************************************************)
(* Leaked slots.                                                           *)
(***************************************************************************)

\* A step that leaks nothing: it takes descriptors with all they name, or keeps its own.
LEMMA StartLeaksNothing ==
    ASSUME PathInv, NEW t \in Threads, NEW m, Sets(t, m), NEW l, Astray(l)' PROVE Astray(l)
<1>0. PathOK /\ ThreadInv /\ Moved(t) /\ buf' = buf /\ ring' = ring /\ l # NoLoc
  BY DataPathNames DEF PathInv, Sets, StartStep, Astray, NoLoc
<1>1. ASSUME NEW u \in Threads \ {t}, NEW k \in Kinds, Held(u, k) = l PROVE FALSE
  BY <1>0, <1>1, OthersStay DEF Owned, Astray
<1>2. ASSUME NEW k \in Kinds, Held(t, k) = l PROVE FALSE
  <2>1. desc[t] = NoDesc /\ copy[t] = NoCopy
    BY <1>0 DEF Sets, ThreadInv, At, WorkerAt, TxAt, ArmAt, RxAt, ClientAt
  <2> QED BY <1>0, <1>2, <2>1, DescFacts DEF Held, Has, Kinds
<1>3. ASSUME NEW q \in Rings, NEW i \in 1 .. Len(ring[q]), NEW k \in Parts, Named(q, i, k) = l
      PROVE  FALSE
  BY <1>0, <1>3 DEF Owned, Named, Astray
<1> QED BY <1>0, <1>1, <1>2, <1>3 DEF Astray, Owned

LEMMA WorkerLeaksNothing ==
    ASSUME PathInv, NEW w \in Workers, WorkerStep(w), NEW l, Astray(l)' PROVE Astray(l)
<1>0. PathOK /\ ThreadInv /\ w \in Threads
  BY Names DEF PathInv
<1>1. CASE \E r \in Requests : Respond(w, r)
  BY <1>0, <1>1, BeginSets, StartLeaksNothing
<1>2. CASE ReadBody(w)
  BY <1>0, <1>2, StepReadBody, FateRead, TidyLeaksNothing
<1>3. CASE Quiet(w) /\ ~ReadBody(w) /\ ~\E r \in Requests : Respond(w, r)
  <2>1. StepOf(w)
    BY <1>3 DEF Quiet
  <2>2. Gets(w) \/ (pc[w] # "idle" /\ Tidy(w))
    BY <1>3, FateAllocHeader, FateAllocBody, FatePutTx, FateUndo, FateTakeRx, FateRead
       DEF WorkerStep, Fate
  <2> QED BY <1>0, <2>1, <2>2, TidyLeaksNothing
<1> QED BY <1>1, <1>2, <1>3, QuietWorker

\* Before a collision, workers free what they have allocated or received, also when they
\* crash on a full pool or ring.
THEOREM WorkersFree == Spec => WorkersNeverLeak
<1>1. ASSUME PathInv, PathInv', NEW w \in Workers, WorkerStep(w) PROVE Leaked' \subseteq Leaked
  <2>1. (PathInv => \A l : l \in Leaked <=> Astray(l))'
    BY LeakedAreAstray, PTL
  <2> QED BY <1>1, <2>1, LeakedAreAstray, WorkerLeaksNothing
<1>2. PathInv /\ PathInv' /\ [Next]_vars =>
        [~collided' /\ (\E w \in Workers : WorkerStep(w)) => Leaked' \subseteq Leaked]_vars
  BY <1>1
<1> QED BY <1>2, InvariantKept, PTL DEF Spec, WorkersNeverLeak

\* A slot gets astray as its message is dropped, or is that of an empty body.
LEMMA LeakerDrops ==
    ASSUME PathInv, Step, NEW l, Astray(l)', ~Astray(l), NEW m, m = buf[l]
    PROVE  (Gone(m)' /\ ~Gone(m)) \/ PassedOver(l)
<1>0. PathOK /\ ThreadInv /\ HoldInv
  BY DEF PathInv
<1>1. ASSUME NEW t \in Threads, Quiet(t)
      PROVE  (Gone(m)' /\ ~Gone(m)) \/ PassedOver(l)
  <2>1. PICK k \in Kinds : pc[t] # "idle" /\ l # NoLoc /\ Held(t, k) = l /\ ~Kept(t, l)
    BY <1>1, WhoLeaks DEF Quiet, Fate
  <2>2. desc[t].msg = m
    BY <1>0, <2>1 DEF HoldInv, HeldHolds
  <2>3. Fate(t)
    BY <1>1, <2>1 DEF Quiet, Gets, Get
  <2>4. CASE TidyButBody(t)
    BY <2>1, <2>4 DEF TidyButBody, PassedOver
  <2>5. CASE Drops(t)
    <3>1. Moved(t)
      BY <1>1 DEF Quiet, StepOf, KeepStep, FreeStep, AllocStep, PutStep, GetStep
    <3> QED BY <1>1, <2>2, <2>5, <3>1, DroppedIsLost DEF Quiet
  <2> QED BY <2>3, <2>4, <2>5 DEF Fate
<1>2. ASSUME NEW w \in Workers, ReadBody(w) PROVE FALSE
  BY <1>2, WorkerLeaksNothing DEF WorkerStep
<1>3. ~BridgeNotify
  BY <1>0, Names, StepBridgeNotify, FateBridgeNotify, TidyLeaksNothing
<1>4. ASSUME NEW r \in Clients, ClientAnswered(r) \/ ClientTimeout(r) PROVE FALSE
  BY <1>0, <1>4, Names, StepClientLeaves, FateClientLeaves, TidyLeaksNothing
<1> QED BY <1>1, <1>2, <1>3, <1>4, EachStep, StartLeaksNothing

\* Before a collision, no slot is leaked while its message lives, but for the slot of an empty
\* body, which the code that copies or delivers the message does not free.
THEOREM LeaksWithLoss == Spec => LeaksOnlyWithLoss
<1>0. /\ (PathInv => \A l : l \in Leaked <=> Astray(l))'
      /\ (PathInv => \A m : m \in Lost <=> Gone(m))'
  BY LeakedAreAstray, LostAreGone, PTL
<1>1. ASSUME PathInv, PathInv', [Next]_vars, NEW l \in Leaked' \ Leaked
      PROVE  buf[l] \in Lost' \ Lost \/ PassedOver(l)
  <2> SUFFICES ASSUME NEW m, m = buf[l] PROVE m \in Lost' \ Lost \/ PassedOver(l)
    OBVIOUS
  <2>2. Astray(l)' /\ ~Astray(l)
    BY <1>0, <1>1, LeakedAreAstray
  <2>3. ~UNCHANGED path
    BY <2>2 DEF path, Astray, Owned, Held, Named
  <2>4. (Gone(m)' /\ ~Gone(m)) \/ PassedOver(l)
    BY <1>1, <2>2, <2>3, NextIsStep, LeakerDrops
  <2> QED BY <1>0, <1>1, <2>4, LostAreGone
<1>2. PathInv /\ PathInv' /\ [Next]_vars =>
        [~collided' =>
            \A l \in Leaked' \ Leaked : buf[l] \in Lost' \ Lost \/ PassedOver(l)]_vars
  BY <1>1
<1> QED BY <1>2, InvariantKept, PTL DEF Spec, LeaksOnlyWithLoss
=============================================================================
