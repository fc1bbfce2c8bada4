---------------------------- MODULE RunnerProofs ----------------------------
(***************************************************************************)
(* Proofs about Runner, for any services, workload, rounds, threads and    *)
(* failures: where the requests are, what the counters count, and what is  *)
(* reported of a round.                                                    *)
(***************************************************************************)
EXTENDS Runner, HttpCellProofs

(***************************************************************************)
(* The inductive invariant.                                                *)
(***************************************************************************)

L == Len(Workload)
Submitted == IF main \in {"count", "check"} THEN next ELSE next - 1

\* Where the requests of a round are.
InQueue   == ToSet(queue)
Reported  == {row[1] : row \in stats}
RaisedNow == {e \in raised : e[1] = round}

Waiting == {e \in DOMAIN job : job[e] = None}
Failed  == {row \in stats : row[2] # "200"}

Types ==
    /\ greedy \in BOOLEAN /\ main \in {"submit", "count", "check", "done", "crashed"}
    /\ round \in 1 .. Rounds /\ next \in 1 .. L + 1
    /\ queue \in Seq(Events) /\ DOMAIN job \subseteq Events
    /\ job = [e \in DOMAIN job |-> job[e]]
    /\ \A e \in DOMAIN job : job[e] \in Answered \cup {None}
    /\ processed \in Nat /\ pending \in Int /\ errors \in Nat /\ timing \in Nat
    /\ latencies \in Nat
    /\ stats \subseteq Events \X Answered /\ (file = None \/ file \subseteq Events \X Answered)
    /\ raised \subseteq Events

Control ==
    /\ main \in {"count", "check"} => ~greedy /\ next <= L
    /\ main \in {"done", "crashed"} => next = L + 1 /\ queue = <<>> /\ job = <<>>

Counts ==
    /\ processed + Len(queue) = Submitted
    /\ latencies + Cardinality(raised) + InPool + Len(queue) = (round - 1) * L + Submitted
    /\ pending = Cardinality(raised) + Cardinality(Waiting)
                    + (IF greedy THEN 0 ELSE Len(queue)) - (IF main = "count" THEN 1 ELSE 0)
    /\ errors = Cardinality(Failed) /\ errors + InPool <= processed
    /\ timing <= next - 1

\* A request that has been submitted is in one place.
Somewhere == InQueue \cup DOMAIN job \cup Reported \cup RaisedNow = {round} \X (1 .. Submitted)
Apart ==
    /\ IsInjective(queue)
    /\ InQueue \cap (DOMAIN job \cup Reported \cup raised) = {}
    /\ DOMAIN job \cap (Reported \cup raised) = {}
    /\ Reported \cap raised = {}
    /\ \A r, s \in stats : r[1] = s[1] => r = s
    /\ \A e \in raised : e[1] <= round

\* The calls are those of requests that threads have taken; what these have got, or
\* reported, is what the call has ended with.
Known ==
    /\ \A p \in DOMAIN call : /\ p[1] \in Events /\ p[1] \notin InQueue /\ p[1][1] <= round
                              /\ p[1][1] = round => p[1][2] <= Submitted
    /\ \A e \in DOMAIN job : /\ Root(e) \in DOMAIN call
                             /\ job[e] # None => job[e] = call[Root(e)].state
    /\ \A row \in stats : Root(row[1]) \in DOMAIN call /\ call[Root(row[1])].state = row[2]

RunnerInv == TreeInv /\ Types /\ Control /\ Counts /\ Somewhere /\ Apart /\ Known

(***************************************************************************)
(* Lemmas: queues and finite sets.                                         *)
(***************************************************************************)

LEMMA Sizes ==
    /\ L \in Nat /\ DOMAIN Workload = 1 .. L /\ Rounds \in Nat \ {0} /\ PoolSize \in Nat \ {0}
    /\ IsFiniteSet(Events) /\ Cardinality(Events) = Rounds * L
    /\ IsFiniteSet(Events \X Answered)
    /\ \A n \in 1 .. Rounds : (n - 1) * L \in Nat /\ (n - 1) * L + L <= Rounds * L
<1>1. L \in Nat /\ DOMAIN Workload = 1 .. L /\ Rounds \in Nat \ {0} /\ PoolSize \in Nat \ {0}
  BY RunnerAssumption, LenProperties DEF L
<1>2. /\ IsFiniteSet(1 .. Rounds) /\ Cardinality(1 .. Rounds) = Rounds
      /\ IsFiniteSet(1 .. L) /\ Cardinality(1 .. L) = L
  BY <1>1, FS_Interval
<1>3. IsFiniteSet(Events) /\ Cardinality(Events) = Rounds * L
  <2>1. Events = (1 .. Rounds) \X (1 .. L)
    BY <1>1 DEF Events
  <2>2. /\ IsFiniteSet((1 .. Rounds) \X (1 .. L))
        /\ Cardinality((1 .. Rounds) \X (1 .. L)) = Cardinality(1 .. Rounds) * Cardinality(1 .. L)
    BY <1>2, FS_Product
  <2> QED BY <1>2, <2>1, <2>2
<1>4. IsFiniteSet(Answered)
  <2>1. IsFiniteSet({} \cup {"200"})
    BY FS_EmptySet, FS_AddElement
  <2>2. IsFiniteSet(({} \cup {"200"}) \cup {"500"})
    BY <2>1, FS_AddElement
  <2>3. ({} \cup {"200"}) \cup {"500"} = Answered
    BY DEF Answered
  <2> QED BY <2>2, <2>3
<1>5. IsFiniteSet(Events \X Answered)
  BY <1>3, <1>4, FS_Product
<1>6. ASSUME NEW n \in 1 .. Rounds PROVE (n - 1) * L \in Nat /\ (n - 1) * L + L <= Rounds * L
  <2>1. n \in Nat /\ n >= 1 /\ n <= Rounds /\ Rounds \in Nat
    BY <1>1
  <2>2. PICK k \in Nat : Rounds = n + k
    <3>1. Rounds - n \in Nat /\ Rounds = n + (Rounds - n)
      BY <2>1
    <3> QED BY <3>1
  <2>3. (n - 1) * L \in Nat /\ k * L \in Nat
    BY <1>1, <2>1
  <2>4. (n + k) * L = (n - 1) * L + L + k * L
    BY <1>1, <2>1, <2>2
  <2> QED BY <1>1, <2>2, <2>3, <2>4
<1> QED BY <1>1, <1>3, <1>5, <1>6

LEMMA QueueAppend ==
    ASSUME NEW S, NEW q \in Seq(S), NEW e \in S
    PROVE  LET r == Append(q, e)
           IN  /\ r \in Seq(S) /\ Len(r) = Len(q) + 1 /\ ToSet(r) = ToSet(q) \cup {e}
               /\ IsInjective(q) /\ e \notin ToSet(q) => IsInjective(r)
<1> DEFINE r == Append(q, e)
<1>1. /\ r \in Seq(S) /\ Len(r) = Len(q) + 1 /\ Len(q) \in Nat
      /\ DOMAIN q = 1 .. Len(q) /\ DOMAIN r = 1 .. Len(r)
      /\ r[Len(q) + 1] = e /\ \A i \in 1 .. Len(q) : r[i] = q[i]
  BY AppendProperties, LenProperties
<1> HIDE DEF r
<1>2. DOMAIN r = DOMAIN q \cup {Len(q) + 1}
  BY <1>1
<1>3. ToSet(r) = ToSet(q) \cup {e}
  BY <1>1, <1>2 DEF ToSet
<1>4. ASSUME IsInjective(q), e \notin ToSet(q), NEW i \in DOMAIN r, NEW j \in DOMAIN r, r[i] = r[j]
      PROVE  i = j
  BY <1>1, <1>2, <1>4 DEF ToSet, IsInjective
<1>5. IsInjective(q) /\ e \notin ToSet(q) => IsInjective(r)
  BY <1>4 DEF IsInjective
<1> QED BY <1>1, <1>3, <1>5 DEF r

LEMMA QueueTail ==
    ASSUME NEW S, NEW q \in Seq(S), q # <<>>, IsInjective(q)
    PROVE  /\ Tail(q) \in Seq(S) /\ Len(Tail(q)) = Len(q) - 1 /\ Len(q) \in Nat \ {0}
           /\ Head(q) \in ToSet(q) /\ ToSet(Tail(q)) = ToSet(q) \ {Head(q)}
           /\ IsInjective(Tail(q))
<1> DEFINE r == Tail(q)
           e == Head(q)
<1>1. /\ r \in Seq(S) /\ Len(r) = Len(q) - 1 /\ Len(q) \in Nat \ {0} /\ e = q[1]
      /\ DOMAIN q = 1 .. Len(q) /\ DOMAIN r = 1 .. Len(r)
      /\ \A i \in 1 .. Len(r) : r[i] = q[i + 1]
  BY EmptySeq, HeadTailProperties, LenProperties
<1> HIDE DEF r, e
<1>2. 1 \in DOMAIN q /\ \A i \in DOMAIN r : i + 1 \in DOMAIN q /\ i + 1 # 1 /\ r[i] = q[i + 1]
  BY <1>1
<1>3. \A i \in DOMAIN q \ {1} : i - 1 \in DOMAIN r /\ r[i - 1] = q[i]
  BY <1>1
<1>4. ToSet(r) = ToSet(q) \ {e}
  <2>1. ASSUME NEW i \in DOMAIN r PROVE r[i] \in ToSet(q) \ {e}
    BY <1>1, <1>2 DEF ToSet, IsInjective
  <2>2. ASSUME NEW i \in DOMAIN q, q[i] # e PROVE q[i] \in ToSet(r)
    BY <1>1, <1>3, <2>2 DEF ToSet
  <2> QED BY <2>1, <2>2 DEF ToSet
<1>5. ASSUME NEW i \in DOMAIN r, NEW j \in DOMAIN r, r[i] = r[j] PROVE i = j
  <2>1. i + 1 = j + 1
    BY <1>2, <1>5 DEF IsInjective
  <2> QED BY <1>1, <2>1
<1>6. e \in ToSet(q) /\ IsInjective(r)
  BY <1>1, <1>2, <1>5 DEF ToSet, IsInjective
<1> QED BY <1>1, <1>4, <1>6 DEF r, e

\* What is counted is finite.
LEMMA Countable ==
    ASSUME Types
    PROVE  /\ IsFiniteSet(DOMAIN job) /\ InPool \in Nat
           /\ IsFiniteSet(Waiting) /\ Cardinality(Waiting) \in Nat /\ Cardinality(Waiting) <= InPool
           /\ IsFiniteSet(raised) /\ Cardinality(raised) \in Nat
           /\ IsFiniteSet(Failed) /\ Cardinality(Failed) \in Nat
           /\ Len(queue) \in Nat /\ L \in Nat /\ Submitted \in Int
<1>1. DOMAIN job \subseteq Events /\ raised \subseteq Events /\ stats \subseteq Events \X Answered
  BY DEF Types
<1>2. Waiting \subseteq DOMAIN job /\ Failed \subseteq Events \X Answered
  BY <1>1 DEF Waiting, Failed
<1>3. IsFiniteSet(DOMAIN job) /\ IsFiniteSet(raised) /\ IsFiniteSet(Failed)
  BY <1>1, <1>2, Sizes, FS_Subset
<1>4. IsFiniteSet(Waiting) /\ Cardinality(Waiting) <= InPool
  BY <1>2, <1>3, FS_Subset DEF InPool
<1>5. InPool \in Nat /\ Cardinality(Waiting) \in Nat /\ Cardinality(raised) \in Nat
      /\ Cardinality(Failed) \in Nat
  BY <1>3, <1>4, FS_CardinalityType DEF InPool
<1>6. Len(queue) \in Nat /\ L \in Nat /\ Submitted \in Int
  BY Sizes, LenProperties DEF Types, Submitted
<1> QED BY <1>3, <1>4, <1>5, <1>6

\* What the main thread does between two submissions leaves the requests where they are.
LEMMA Stays ==
    ASSUME Somewhere, Apart, Known, Submitted' = Submitted,
           UNCHANGED <<call, round, queue, job, stats, raised>>
    PROVE  Somewhere' /\ Apart' /\ Known'
<1>1. /\ InQueue' = InQueue /\ Reported' = Reported /\ RaisedNow' = RaisedNow
      /\ call' = call /\ round' = round /\ queue' = queue /\ job' = job /\ stats' = stats
      /\ raised' = raised
  BY DEF InQueue, Reported, RaisedNow
<1>2. Somewhere'
  BY <1>1 DEF Somewhere
<1>3. Apart'
  BY <1>1 DEF Apart
<1>4. Known'
  BY <1>1 DEF Known
<1> QED BY <1>2, <1>3, <1>4

(***************************************************************************)
(* Every step keeps the invariant: the main thread.                        *)
(***************************************************************************)

LEMMA InitHolds == ASSUME Init PROVE RunnerInv
<1>1. /\ call = <<>> /\ queue = <<>> /\ job = <<>> /\ stats = {} /\ raised = {} /\ file = None
      /\ main = "submit" /\ round = 1 /\ next = 1 /\ greedy \in BOOLEAN
      /\ processed = 0 /\ pending = 0 /\ errors = 0 /\ timing = 0 /\ latencies = 0
  BY RunnerAssumption DEF Init
<1>2. TreeInv
  BY <1>1, NothingCalled
<1>3. /\ InQueue = {} /\ DOMAIN job = {} /\ Reported = {} /\ RaisedNow = {} /\ Waiting = {}
      /\ Failed = {} /\ Submitted = 0
  BY <1>1 DEF InQueue, Reported, RaisedNow, Waiting, Failed, Submitted, ToSet
<1>4. Types
  <2>1. queue \in Seq(Events) /\ job = [e \in DOMAIN job |-> job[e]]
    BY <1>1, <1>3, EmptySeq
  <2> QED BY <1>1, <1>3, <2>1, Sizes DEF Types
<1>5. Control
  BY <1>1 DEF Control
<1>6. Counts
  <2>1. Len(queue) = 0 /\ InPool = 0 /\ Cardinality({}) = 0 /\ (round - 1) * L = 0
    BY <1>1, <1>3, Sizes, EmptySeq, FS_EmptySet DEF InPool
  <2> QED BY <1>1, <1>3, <2>1 DEF Counts
<1>7. Somewhere
  BY <1>3 DEF Somewhere
<1>8. Apart /\ Known
  BY <1>1, <1>3 DEF Apart, Known, IsInjective
<1> QED BY <1>2, <1>4, <1>5, <1>6, <1>7, <1>8 DEF RunnerInv

LEMMA SubmitKeeps == ASSUME RunnerInv, Submit PROVE RunnerInv'
<1> DEFINE e == <<round, next>>
<1>0. TreeInv /\ Types /\ Control /\ Counts /\ Somewhere /\ Apart /\ Known
  BY DEF RunnerInv
<1>1. /\ main = "submit" /\ next \in 1 .. L /\ next \in Nat /\ L \in Nat /\ round \in 1 .. Rounds
      /\ queue' = Append(queue, e) /\ queue \in Seq(Events) /\ e \in Events
      /\ IF greedy THEN next' = next + 1 /\ main' = main
                   ELSE main' = "count" /\ next' = next
      /\ call' = call /\ greedy' = greedy /\ round' = round /\ job' = job /\ stats' = stats
      /\ raised' = raised /\ latencies' = latencies /\ file' = file
      /\ processed' = processed /\ pending' = pending /\ errors' = errors /\ timing' = timing
  BY <1>0, Sizes DEF Submit, Types, counters, results, Events
<1>2. Submitted = next - 1 /\ Submitted' = next
  <2>1. \/ main' = "submit" /\ next' = next + 1
        \/ main' = "count" /\ next' = next
    BY <1>1
  <2>2. Submitted = next - 1
    BY <1>1 DEF Submitted
  <2>3. Submitted' = IF main' \in {"count", "check"} THEN next' ELSE next' - 1
    BY DEF Submitted
  <2>4. next \in Nat
    BY <1>1
  <2> QED BY <2>1, <2>2, <2>3, <2>4
<1>3. e \notin InQueue \cup DOMAIN job \cup Reported \cup raised
  <2>1. e \notin {round} \X (1 .. Submitted)
    BY <1>1, <1>2
  <2> QED BY <1>0, <2>1 DEF Somewhere, RaisedNow
<1>4. /\ queue' \in Seq(Events) /\ Len(queue') = Len(queue) + 1 /\ InQueue' = InQueue \cup {e}
      /\ IsInjective(queue')
  <2>1. queue \in Seq(Events) /\ e \in Events /\ queue' = Append(queue, e)
    BY <1>1
  <2>2. IsInjective(queue)
    BY <1>0 DEF Apart
  <2>3. e \notin ToSet(queue)
    BY <1>3 DEF InQueue
  <2> HIDE DEF e
  <2> QED BY <2>1, <2>2, <2>3, QueueAppend DEF InQueue
<1>5. /\ Reported' = Reported /\ RaisedNow' = RaisedNow /\ Waiting' = Waiting /\ Failed' = Failed
      /\ InPool' = InPool
  BY <1>1 DEF Reported, RaisedNow, Waiting, Failed, InPool
<1>20. /\ InPool \in Nat /\ Cardinality(Waiting) \in Nat /\ Cardinality(raised) \in Nat
       /\ Len(queue) \in Nat /\ L \in Nat
       /\ processed \in Nat /\ pending \in Int /\ latencies \in Nat
  BY <1>0, Countable DEF Types
<1>6. TreeInv'
  BY <1>0, <1>1, NoCallMoves
<1>7. Types'
  <2>1. main' \in {"submit", "count", "check", "done", "crashed"} /\ next' \in 1 .. L + 1
    BY <1>1
  <2> QED BY <1>0, <1>1, <1>4, <2>1 DEF Types
<1>8. Control'
  BY <1>0, <1>1 DEF Control, Types
<1>9. Counts'
  <2>1. main' # "check" /\ (main' = "count" <=> ~greedy)
    BY <1>0, <1>1 DEF Types
  <2>2. timing' <= next' - 1
    BY <1>0, <1>1 DEF Counts, Types
  <2>3. processed' + Len(queue') = Submitted'
    <3>1. processed + Len(queue) = Submitted /\ processed' = processed
      BY <1>0, <1>1 DEF Counts
    <3> QED BY <1>1, <1>2, <1>4, <1>20, <3>1
  <2>4. latencies' + Cardinality(raised') + InPool' + Len(queue') = (round' - 1) * L + Submitted'
    <3> DEFINE before == (round - 1) * L
    <3>1. /\ before \in Nat /\ before = (round' - 1) * L
          /\ latencies + Cardinality(raised) + InPool + Len(queue) = before + Submitted
          /\ latencies' = latencies /\ raised' = raised /\ InPool' = InPool /\ next \in Nat
          /\ Len(queue') = Len(queue) + 1
      BY <1>0, <1>1, <1>4, <1>5, Sizes DEF Counts
    <3> HIDE DEF before
    <3>2. latencies + Cardinality(raised) + InPool + (Len(queue) + 1) = before + Submitted'
      <4>1. latencies + Cardinality(raised) + InPool + Len(queue) = before + (next - 1)
        BY <1>2, <3>1
      <4>2. before \in Nat /\ next \in Nat
        BY <3>1
      <4>3. latencies + Cardinality(raised) + InPool + (Len(queue) + 1) = before + next
        BY <1>20, <4>1, <4>2
      <4> QED BY <1>2, <4>3
    <3> QED BY <3>1, <3>2
  <2>5. pending' = Cardinality(raised') + Cardinality(Waiting')
                    + (IF greedy' THEN 0 ELSE Len(queue')) - (IF main' = "count" THEN 1 ELSE 0)
    <3>1. /\ pending = Cardinality(raised) + Cardinality(Waiting) + (IF greedy THEN 0 ELSE Len(queue))
          /\ pending' = pending /\ raised' = raised /\ Waiting' = Waiting /\ greedy' = greedy
          /\ Len(queue') = Len(queue) + 1
      BY <1>0, <1>1, <1>4, <1>5, <1>20 DEF Counts
    <3>2. greedy \in BOOLEAN
      BY <1>0 DEF Types
    <3>3. CASE greedy
      BY <1>20, <2>1, <3>1, <3>3
    <3>4. CASE ~greedy
      <4>1. pending = Cardinality(raised) + Cardinality(Waiting) + (Len(queue) + 1) - 1
        BY <1>20, <3>1, <3>4
      <4> QED BY <2>1, <3>1, <3>4, <4>1
    <3> QED BY <3>2, <3>3, <3>4
  <2>6. errors' = Cardinality(Failed') /\ errors' + InPool' <= processed'
    BY <1>0, <1>1, <1>5 DEF Counts
  <2>7. L' = L
    BY DEF L
  <2> QED BY <2>2, <2>3, <2>4, <2>5, <2>6, <2>7 DEF Counts
<1>10. Somewhere'
  <2>1. {round} \X (1 .. next) = ({round} \X (1 .. next - 1)) \cup {e}
    <3>1. 1 .. next = (1 .. next - 1) \cup {next}
      BY <1>1
    <3> QED BY <3>1
  <2>2. Somewhere' = (InQueue' \cup DOMAIN job \cup Reported \cup RaisedNow = {round} \X (1 .. next))
    BY <1>1, <1>2, <1>5 DEF Somewhere
  <2>3. InQueue \cup DOMAIN job \cup Reported \cup RaisedNow = {round} \X (1 .. next - 1)
    BY <1>0, <1>2 DEF Somewhere
  <2> QED BY <1>4, <2>1, <2>2, <2>3
<1>11. Apart'
  <2>1. InQueue' \cap (DOMAIN job \cup Reported \cup raised) = {}
    BY <1>0, <1>3, <1>4 DEF Apart
  <2> QED BY <1>0, <1>1, <1>4, <1>5, <2>1 DEF Apart
<1>12. Known'
  <2>1. ASSUME NEW p \in DOMAIN call
        PROVE  /\ p[1] \in Events /\ p[1] \notin InQueue' /\ p[1][1] <= round
               /\ p[1][1] = round => p[1][2] <= next
    <3>1. /\ p[1] \in Events /\ p[1] \notin InQueue /\ p[1][1] <= round
          /\ p[1][1] = round => p[1][2] <= next - 1
      BY <1>0, <1>2 DEF Known
    <3>2. p[1] # e /\ p[1][2] \in Int
      BY <1>1, <3>1, Sizes DEF Events
    <3> QED BY <1>1, <1>4, <3>1, <3>2
  <2> QED BY <1>0, <1>1, <1>2, <2>1 DEF Known, Root
<1> QED BY <1>6, <1>7, <1>8, <1>9, <1>10, <1>11, <1>12 DEF RunnerInv

LEMMA CountPendingKeeps == ASSUME RunnerInv, CountPending PROVE RunnerInv'
<1>0. TreeInv /\ Types /\ Control /\ Counts /\ Somewhere /\ Apart /\ Known
  BY DEF RunnerInv
<1>1. /\ main = "count" /\ main' = "check" /\ pending' = pending + 1 /\ next' = next
      /\ call' = call /\ greedy' = greedy /\ round' = round /\ queue' = queue /\ job' = job
      /\ stats' = stats /\ raised' = raised /\ latencies' = latencies /\ file' = file
      /\ processed' = processed /\ errors' = errors /\ timing' = timing
  BY DEF CountPending, results
<1>2. /\ Submitted' = Submitted /\ Waiting' = Waiting /\ Failed' = Failed /\ InPool' = InPool
      /\ L' = L
  BY <1>1 DEF Submitted, Waiting, Failed, InPool, L
<1>3. TreeInv'
  BY <1>0, <1>1, NoCallMoves
<1>4. Types' /\ Control'
  BY <1>0, <1>1, <1>2 DEF Types, Control
<1>5. Counts'
  <2>1. /\ Cardinality(Waiting) \in Nat /\ Cardinality(raised) \in Nat /\ Len(queue) \in Nat
        /\ pending \in Int
    BY <1>0, Countable DEF Types
  <2>2. /\ pending = Cardinality(raised) + Cardinality(Waiting) + Len(queue) - 1 /\ ~greedy
    BY <1>0, <1>1 DEF Counts, Control
  <2>3. pending' = Cardinality(raised) + Cardinality(Waiting) + Len(queue) - 0
    BY <1>1, <2>1, <2>2
  <2>4. pending' = Cardinality(raised') + Cardinality(Waiting')
                    + (IF greedy' THEN 0 ELSE Len(queue')) - (IF main' = "count" THEN 1 ELSE 0)
    BY <1>1, <1>2, <2>2, <2>3
  <2> QED BY <1>0, <1>1, <1>2, <2>4 DEF Counts
<1> QED BY <1>0, <1>1, <1>2, <1>3, <1>4, <1>5, Stays DEF RunnerInv

LEMMA CheckKeeps == ASSUME RunnerInv, Check PROVE RunnerInv'
<1>0. TreeInv /\ Types /\ Control /\ Counts /\ Somewhere /\ Apart /\ Known
  BY DEF RunnerInv
<1>1. /\ main = "check" /\ main' = "submit" /\ pending' = pending /\ next' = next + 1
      /\ timing' \in {timing, timing + 1}
      /\ call' = call /\ greedy' = greedy /\ round' = round /\ queue' = queue /\ job' = job
      /\ stats' = stats /\ raised' = raised /\ latencies' = latencies /\ file' = file
      /\ processed' = processed /\ errors' = errors
  BY DEF Check, results
<1>2. next \in Nat /\ next >= 1 /\ next <= L /\ L \in Nat /\ timing \in Nat /\ timing <= next - 1
  BY <1>0, <1>1, Sizes DEF Control, Types, Counts
<1>3. /\ Submitted' = Submitted /\ Waiting' = Waiting /\ Failed' = Failed /\ InPool' = InPool
      /\ L' = L
  BY <1>1, <1>2 DEF Submitted, Waiting, Failed, InPool, L
<1>4. TreeInv'
  BY <1>0, <1>1, NoCallMoves
<1>5. Types' /\ Control'
  <2>1. next' \in 1 .. L + 1 /\ timing' \in Nat
    BY <1>1, <1>2
  <2> QED BY <1>0, <1>1, <1>3, <2>1 DEF Types, Control
<1>6. Counts'
  <2>1. timing' <= next' - 1
    BY <1>1, <1>2
  <2>2. pending' = Cardinality(raised') + Cardinality(Waiting')
                    + (IF greedy' THEN 0 ELSE Len(queue')) - (IF main' = "count" THEN 1 ELSE 0)
    BY <1>0, <1>1, <1>3 DEF Counts
  <2> QED BY <1>0, <1>1, <1>3, <2>1, <2>2 DEF Counts
<1> QED BY <1>0, <1>1, <1>3, <1>4, <1>5, <1>6, Stays DEF RunnerInv

\* The round is over.
LEMMA RoundOver ==
    ASSUME RunnerInv, Waited
    PROVE  /\ main = "submit" /\ next = L + 1 /\ Submitted = L /\ L \in Nat
           /\ queue = <<>> /\ job = <<>> /\ Len(queue) = 0
           /\ InQueue = {} /\ DOMAIN job = {} /\ Waiting = {} /\ InPool = 0
<1>1. next \in 1 .. L + 1 /\ L \in Nat /\ next \notin 1 .. L
      /\ main = "submit" /\ queue = <<>> /\ job = <<>>
  BY Sizes DEF RunnerInv, Types, Waited
<1>2. next = L + 1
  BY <1>1
<1>3. Submitted = L
  BY <1>1, <1>2 DEF Submitted
<1>4. Len(queue) = 0 /\ InQueue = {} /\ DOMAIN job = {} /\ Waiting = {}
  BY <1>1, EmptySeq DEF InQueue, Waiting, ToSet
<1>5. InPool = 0
  BY <1>4, FS_EmptySet DEF InPool
<1> QED BY <1>1, <1>2, <1>3, <1>4, <1>5

LEMMA EndKeeps == ASSUME RunnerInv, DivideByZero \/ WriteResults PROVE RunnerInv'
<1>0. TreeInv /\ Types /\ Control /\ Counts /\ Somewhere /\ Apart /\ Known
  BY DEF RunnerInv
<1>1. /\ Waited /\ main' \in {"done", "crashed"} /\ pending' = pending /\ next' = next
      /\ call' = call /\ greedy' = greedy /\ round' = round /\ queue' = queue /\ job' = job
      /\ stats' = stats /\ raised' = raised /\ latencies' = latencies /\ file' \in {file, stats}
      /\ processed' = processed /\ errors' = errors /\ timing' = timing
  BY DEF DivideByZero, WriteResults, results, counters
<1>2. main = "submit" /\ next = L + 1 /\ queue = <<>> /\ job = <<>>
  BY <1>1, RoundOver
<1>3. /\ Submitted' = Submitted /\ Waiting' = Waiting /\ Failed' = Failed /\ InPool' = InPool
      /\ L' = L
  BY <1>1, <1>2 DEF Submitted, Waiting, Failed, InPool, L
<1>4. TreeInv'
  BY <1>0, <1>1, NoCallMoves
<1>5. Types' /\ Control'
  BY <1>0, <1>1, <1>2, <1>3 DEF Types, Control
<1>6. Counts'
  <2>1. pending' = Cardinality(raised') + Cardinality(Waiting')
                    + (IF greedy' THEN 0 ELSE Len(queue')) - (IF main' = "count" THEN 1 ELSE 0)
    BY <1>0, <1>1, <1>2, <1>3 DEF Counts
  <2> QED BY <1>0, <1>1, <1>3, <2>1 DEF Counts
<1> QED BY <1>0, <1>1, <1>3, <1>4, <1>5, <1>6, Stays DEF RunnerInv

LEMMA RoundAfter ==
    ASSUME NEW r \in Nat, NEW x, NEW y, x = r + 1, y = 0
    PROVE  (x - 1) * L + y = (r - 1) * L + L
<1>1. L \in Nat /\ x \in Nat /\ x - 1 = r /\ y = 0 /\ r \in Nat
  BY Sizes
<1>2. r * L = (r - 1) * L + L /\ r * L \in Nat
  BY <1>1
<1> QED BY <1>1, <1>2

LEMMA NextRoundKeeps == ASSUME RunnerInv, NextRound PROVE RunnerInv'
<1> DEFINE S == {p \in DOMAIN call :
                    \E q \in DOMAIN call : q[1] = p[1] /\ call[q].state \notin Ended}
<1>0. TreeInv /\ Types /\ Control /\ Counts /\ Somewhere /\ Apart /\ Known
  BY DEF RunnerInv
<1>1. /\ Waited /\ ~greedy /\ round < Rounds /\ round' = round + 1 /\ next' = 1
      /\ processed' = 0 /\ errors' = 0 /\ timing' = 0 /\ stats' = {} /\ call' = Restrict(call, S)
      /\ main' = main /\ greedy' = greedy /\ queue' = queue /\ job' = job /\ pending' = pending
      /\ latencies' = latencies /\ raised' = raised /\ file' = file
  BY DEF NextRound
<1>2. /\ main = "submit" /\ next = L + 1 /\ Submitted = L /\ L \in Nat
      /\ queue = <<>> /\ job = <<>> /\ Len(queue) = 0
      /\ InQueue = {} /\ DOMAIN job = {} /\ Waiting = {} /\ InPool = 0
  BY <1>1, RoundOver
<1>3. /\ Submitted' = 0 /\ Waiting' = Waiting /\ Failed' = {} /\ InPool' = InPool
      /\ L' = L /\ InQueue' = {} /\ Reported' = {}
  BY <1>1, <1>2 DEF Submitted, Waiting, Failed, InPool, L, InQueue, Reported
<1>4. round \in Nat /\ round >= 1 /\ Rounds \in Nat /\ round' \in 1 .. Rounds
  <2>1. round \in 1 .. Rounds /\ Rounds \in Nat
    BY <1>0, Sizes DEF Types
  <2>2. round' = round + 1 /\ round < Rounds
    BY <1>1
  <2> QED BY <2>1, <2>2
<1>5. \A e \in raised : e[1] \in Nat /\ e[1] <= round /\ e[1] # round + 1 /\ e[1] <= round + 1
  BY <1>0, <1>4 DEF Types, Apart, Events
<1>6. DOMAIN call' \subseteq DOMAIN call
  BY <1>1 DEF Restrict
<1>7. TreeInv'
  <2>1. S \in SUBSET DOMAIN call /\ \A p, q \in DOMAIN call : p[1] = q[1] /\ p \in S => q \in S
    OBVIOUS
  <2> HIDE DEF S
  <2> QED BY <1>0, <1>1, <2>1, ForgetKeeps
<1>8. Types'
  <2>1. next' \in 1 .. L + 1
    BY <1>1, <1>2
  <2> QED BY <1>0, <1>1, <1>3, <1>4, <2>1 DEF Types
<1>9. Control'
  BY <1>1, <1>2 DEF Control
<1>10. Counts'
  <2>1. timing' <= next' - 1 /\ processed' + Len(queue') = Submitted'
        /\ errors' = Cardinality(Failed') /\ errors' + InPool' <= processed'
    BY <1>1, <1>2, <1>3, FS_EmptySet
  <2>2. pending' = Cardinality(raised') + Cardinality(Waiting')
                    + (IF greedy' THEN 0 ELSE Len(queue')) - (IF main' = "count" THEN 1 ELSE 0)
    BY <1>0, <1>1, <1>2, <1>3 DEF Counts
  <2>3. latencies' + Cardinality(raised') + InPool' + Len(queue') = (round' - 1) * L + Submitted'
    <3>1. latencies' + Cardinality(raised') + InPool' + Len(queue') = (round - 1) * L + L
      BY <1>0, <1>1, <1>2, <1>3 DEF Counts
    <3>2. round \in Nat /\ round' = round + 1 /\ Submitted' = 0
      BY <1>1, <1>3, <1>4
    <3>3. (round' - 1) * L + Submitted' = (round - 1) * L + L
      BY <3>2, RoundAfter
    <3> QED BY <3>1, <3>3
  <2> QED BY <1>3, <2>1, <2>2, <2>3 DEF Counts
<1>11. Somewhere'
  <2>1. RaisedNow' = {}
    BY <1>1, <1>5 DEF RaisedNow
  <2>2. {round'} \X (1 .. Submitted') = {}
    BY <1>3
  <2> QED BY <1>1, <1>2, <1>3, <2>1, <2>2 DEF Somewhere
<1>12. Apart'
  BY <1>0, <1>1, <1>2, <1>3, <1>5 DEF Apart
<1>13. Known'
  <2>1. ASSUME NEW p \in DOMAIN call'
        PROVE  /\ p[1] \in Events /\ p[1][1] <= round' /\ p[1][1] # round'
    <3>1. p[1] \in Events /\ p[1][1] <= round
      BY <1>0, <1>6 DEF Known
    <3>2. p[1][1] \in Nat
      BY <3>1 DEF Events
    <3> QED BY <1>1, <1>4, <3>1, <3>2
  <2> QED BY <1>1, <1>2, <1>3, <2>1 DEF Known
<1> QED BY <1>7, <1>8, <1>9, <1>10, <1>11, <1>12, <1>13 DEF RunnerInv

(***************************************************************************)
(* Every step keeps the invariant: the threads of the pool, and the cells. *)
(***************************************************************************)

LEMMA GetKeeps == ASSUME RunnerInv, Get PROVE RunnerInv'
<1> DEFINE e == Head(queue)
<1>0. TreeInv /\ Types /\ Control /\ Counts /\ Somewhere /\ Apart /\ Known
  BY DEF RunnerInv
<1>1. /\ queue # <<>> /\ queue' = Tail(queue) /\ processed' = processed + 1
      /\ job' = [f \in DOMAIN job \cup {e} |-> IF f = e THEN None ELSE job[f]]
      /\ pending' = (IF greedy THEN pending + 1 ELSE pending)
      /\ call' = Opened(Root(e), Workload[e[2]])
      /\ main' = main /\ greedy' = greedy /\ round' = round /\ next' = next
      /\ stats' = stats /\ raised' = raised /\ latencies' = latencies /\ file' = file
      /\ errors' = errors /\ timing' = timing
  BY DEF Get, results
<1>2. /\ queue' \in Seq(Events) /\ Len(queue') = Len(queue) - 1 /\ Len(queue) \in Nat \ {0}
      /\ e \in InQueue /\ InQueue' = InQueue \ {e}
      /\ IsInjective(queue')
  <2>1. queue \in Seq(Events) /\ queue # <<>> /\ queue' = Tail(queue) /\ IsInjective(queue)
    BY <1>0, <1>1 DEF Types, Apart
  <2> QED BY <2>1, QueueTail DEF InQueue
<1>3. e \in Events /\ e \notin DOMAIN job \cup Reported \cup raised
      /\ e \in {round} \X (1 .. Submitted)
  <2>1. e \in Events
    BY <1>0, <1>1, HeadTailProperties DEF Types
  <2> QED BY <1>0, <1>2, <2>1 DEF Apart, Somewhere
<1> HIDE DEF e
<1>4. /\ Reported' = Reported /\ RaisedNow' = RaisedNow /\ Failed' = Failed /\ L' = L
      /\ Submitted' = Submitted /\ DOMAIN job' = DOMAIN job \cup {e}
  BY <1>1 DEF Reported, RaisedNow, Failed, L, Submitted
<1>5. Waiting' = Waiting \cup {e} /\ e \notin Waiting
  BY <1>1, <1>3, <1>4 DEF Waiting
<1>6. /\ InPool \in Nat /\ InPool' = InPool + 1
      /\ Cardinality(Waiting) \in Nat /\ Cardinality(Waiting') = Cardinality(Waiting) + 1
      /\ Cardinality(raised) \in Nat /\ Len(queue) \in Nat /\ pending \in Int
      /\ processed \in Nat /\ latencies \in Nat /\ errors \in Nat
  <2>1. /\ IsFiniteSet(DOMAIN job) /\ IsFiniteSet(Waiting)
        /\ InPool \in Nat /\ Cardinality(Waiting) \in Nat
        /\ Cardinality(raised) \in Nat /\ Len(queue) \in Nat
    BY <1>0, Countable
  <2>2. InPool' = InPool + 1
    BY <1>3, <1>4, <2>1, FS_AddElement DEF InPool
  <2>3. Cardinality(Waiting') = Cardinality(Waiting) + 1
    BY <1>5, <2>1, FS_AddElement
  <2> QED BY <1>0, <2>1, <2>2, <2>3 DEF Types
<1>7. /\ TreeInv' /\ DOMAIN call' = DOMAIN call \cup {Root(e)}
      /\ \A p \in DOMAIN call : call'[p] = call[p]
  <2>1. e \in Segments /\ e[2] \in 1 .. L /\ Workload[e[2]] \in Targets
    <3>1. e \in (1 .. Rounds) \X (1 .. L)
      BY <1>3, Sizes DEF Events
    <3>2. e[2] \in 1 .. L /\ e[1] \in 1 .. Rounds
      BY <3>1
    <3>3. Workload[e[2]] \in Targets
      BY <3>2, RunnerAssumption, ElementOfSeq DEF L
    <3> QED BY <3>1, <3>2, <3>3, Sizes DEF Segments
  <2>2. <<e>> \notin DOMAIN call
    <3>1. <<e>>[1] = e
      OBVIOUS
    <3> QED BY <1>0, <1>2, <3>1 DEF Known
  <2> QED BY <1>0, <1>1, <2>1, <2>2, RequestKeeps DEF Root
<1>8. Types'
  <2>1. pending' \in Int /\ processed' \in Nat
    BY <1>1, <1>6
  <2>2. DOMAIN job' \subseteq Events /\ job' = [f \in DOMAIN job' |-> job'[f]]
        /\ \A f \in DOMAIN job' : job'[f] \in Answered \cup {None}
    BY <1>0, <1>1, <1>3, <1>4 DEF Types
  <2> QED BY <1>0, <1>1, <1>2, <1>4, <2>1, <2>2 DEF Types
<1>9. Control'
  BY <1>0, <1>1, <1>4 DEF Control
<1>10. Counts'
  <2>1. processed' + Len(queue') = Submitted'
    <3>1. processed + Len(queue) = Submitted
      BY <1>0 DEF Counts
    <3> QED BY <1>1, <1>2, <1>4, <1>6, <3>1
  <2>2. latencies' + Cardinality(raised') + InPool' + Len(queue') = (round' - 1) * L + Submitted'
    <3>1. latencies + Cardinality(raised) + InPool + Len(queue) = (round - 1) * L + Submitted
      BY <1>0 DEF Counts
    <3>2. latencies' + Cardinality(raised') + InPool' + Len(queue')
            = latencies + Cardinality(raised) + InPool + Len(queue)
      BY <1>1, <1>2, <1>6
    <3> QED BY <1>1, <1>4, <3>1, <3>2
  <2>3. pending' = Cardinality(raised') + Cardinality(Waiting')
                    + (IF greedy' THEN 0 ELSE Len(queue')) - (IF main' = "count" THEN 1 ELSE 0)
    <3> DEFINE d == IF main = "count" THEN 1 ELSE 0
    <3>0. d \in Int /\ d = IF main' = "count" THEN 1 ELSE 0
      BY <1>1
    <3>1. pending = Cardinality(raised) + Cardinality(Waiting)
                        + (IF greedy THEN 0 ELSE Len(queue)) - d
      BY <1>0 DEF Counts
    <3> HIDE DEF d
    <3>2. CASE greedy
      <4>1. pending = Cardinality(raised) + Cardinality(Waiting) + 0 - d /\ pending' = pending + 1
        BY <1>1, <3>1, <3>2
      <4>2. pending' = Cardinality(raised) + (Cardinality(Waiting) + 1) + 0 - d
        BY <1>6, <3>0, <4>1
      <4> QED BY <1>1, <1>6, <3>0, <3>2, <4>2
    <3>3. CASE ~greedy
      <4>1. pending = Cardinality(raised) + Cardinality(Waiting) + Len(queue) - d
            /\ pending' = pending
        BY <1>1, <3>1, <3>3
      <4>2. pending' = Cardinality(raised) + (Cardinality(Waiting) + 1) + (Len(queue) - 1) - d
        BY <1>6, <3>0, <4>1
      <4> QED BY <1>1, <1>2, <1>6, <3>0, <3>3, <4>2
    <3> QED BY <3>2, <3>3
  <2>4. errors' = Cardinality(Failed') /\ errors' + InPool' <= processed'
    <3>1. errors = Cardinality(Failed) /\ errors + InPool <= processed
      BY <1>0 DEF Counts
    <3> QED BY <1>1, <1>4, <1>6, <3>1
  <2>5. timing' <= next' - 1
    BY <1>0, <1>1 DEF Counts
  <2> QED BY <1>4, <2>1, <2>2, <2>3, <2>4, <2>5 DEF Counts
<1>11. Somewhere'
  <2>1. InQueue' \cup DOMAIN job' = InQueue \cup DOMAIN job
    BY <1>2, <1>4
  <2> QED BY <1>0, <1>1, <1>4, <2>1 DEF Somewhere
<1>12. Apart'
  <2>1. /\ InQueue' \cap (DOMAIN job' \cup Reported \cup raised) = {}
        /\ DOMAIN job' \cap (Reported \cup raised) = {}
    BY <1>0, <1>2, <1>3, <1>4 DEF Apart
  <2> QED BY <1>0, <1>1, <1>2, <1>4, <2>1 DEF Apart
<1>13. Known'
  <2>1. Root(e)[1] = e /\ e[1] = round /\ e[2] <= Submitted
    BY <1>3 DEF Root
  <2>2. ASSUME NEW p \in DOMAIN call'
        PROVE  /\ p[1] \in Events /\ p[1] \notin InQueue' /\ p[1][1] <= round
               /\ p[1][1] = round => p[1][2] <= Submitted
    <3>1. CASE p = Root(e)
      BY <1>0, <1>2, <1>3, <2>1, <3>1 DEF Types
    <3>2. CASE p \in DOMAIN call
      BY <1>0, <1>2, <3>2 DEF Known
    <3> QED BY <1>7, <3>1, <3>2
  <2>3. ASSUME NEW f \in DOMAIN job'
        PROVE  Root(f) \in DOMAIN call' /\ (job'[f] # None => job'[f] = call'[Root(f)].state)
    BY <1>0, <1>1, <1>4, <1>7 DEF Known
  <2>4. ASSUME NEW row \in stats
        PROVE  Root(row[1]) \in DOMAIN call' /\ call'[Root(row[1])].state = row[2]
    BY <1>0, <1>7 DEF Known
  <2> QED BY <1>1, <1>4, <2>2, <2>3, <2>4 DEF Known, Root
<1> QED BY <1>7, <1>8, <1>9, <1>10, <1>11, <1>12, <1>13 DEF RunnerInv

LEMMA ReceiveKeeps == ASSUME RunnerInv, NEW e \in DOMAIN job, Receive(e) PROVE RunnerInv'
<1> DEFINE status == call[Root(e)].state
<1>0. TreeInv /\ Types /\ Control /\ Counts /\ Somewhere /\ Apart /\ Known
  BY DEF RunnerInv
<1>1. /\ job[e] = None /\ status \in Answered /\ job' = [job EXCEPT ![e] = status]
      /\ pending' = pending - 1
      /\ call' = call /\ main' = main /\ greedy' = greedy /\ round' = round /\ next' = next
      /\ queue' = queue /\ processed' = processed /\ errors' = errors /\ timing' = timing
      /\ stats' = stats /\ raised' = raised /\ latencies' = latencies /\ file' = file
  BY DEF Receive, results
<1>2. status # None
  BY <1>1, RunnerAssumption
<1>3. /\ DOMAIN job' = DOMAIN job /\ job'[e] = status
      /\ \A f \in DOMAIN job \ {e} : job'[f] = job[f]
      /\ job' = [f \in DOMAIN job' |-> job'[f]]
  BY <1>0, <1>1 DEF Types
<1>4. /\ InQueue' = InQueue /\ Reported' = Reported /\ RaisedNow' = RaisedNow /\ Failed' = Failed
      /\ L' = L /\ Submitted' = Submitted /\ InPool' = InPool
  BY <1>1, <1>3 DEF InQueue, Reported, RaisedNow, Failed, L, Submitted, InPool
<1>5. Waiting' = Waiting \ {e} /\ e \in Waiting
  BY <1>1, <1>2, <1>3 DEF Waiting
<1>6. /\ Cardinality(Waiting) \in Nat /\ Cardinality(Waiting') = Cardinality(Waiting) - 1
      /\ Cardinality(raised) \in Nat /\ Len(queue) \in Nat /\ pending \in Int
  <2>1. /\ IsFiniteSet(Waiting) /\ Cardinality(Waiting) \in Nat
        /\ Cardinality(raised) \in Nat /\ Len(queue) \in Nat
    BY <1>0, Countable
  <2>2. Cardinality(Waiting') = Cardinality(Waiting) - 1
    BY <1>5, <2>1, FS_RemoveElement
  <2> QED BY <1>0, <2>1, <2>2 DEF Types
<1>7. TreeInv'
  BY <1>0, <1>1, NoCallMoves
<1>8. Types' /\ Control'
  <2>1. \A f \in DOMAIN job' : job'[f] \in Answered \cup {None}
    BY <1>0, <1>1, <1>3 DEF Types
  <2>2. pending' \in Int
    BY <1>1, <1>6
  <2>3. Types'
    BY <1>0, <1>1, <1>3, <1>4, <2>1, <2>2 DEF Types
  <2>4. Control'
    <3>1. main \notin {"done", "crashed"}
      BY <1>0 DEF Control
    <3> QED BY <1>0, <1>1, <1>4, <3>1 DEF Control
  <2> QED BY <2>3, <2>4
<1>9. Counts'
  <2>1. pending' = Cardinality(raised') + Cardinality(Waiting')
                    + (IF greedy' THEN 0 ELSE Len(queue')) - (IF main' = "count" THEN 1 ELSE 0)
    <3> DEFINE d == IF main = "count" THEN 1 ELSE 0
               w == IF greedy THEN 0 ELSE Len(queue)
    <3>1. /\ d \in Int /\ d = IF main' = "count" THEN 1 ELSE 0
          /\ w \in Int /\ w = IF greedy' THEN 0 ELSE Len(queue')
      BY <1>1, <1>6
    <3>2. pending = Cardinality(raised) + Cardinality(Waiting) + w - d
      BY <1>0 DEF Counts
    <3> HIDE DEF d, w
    <3>3. pending' = Cardinality(raised) + Cardinality(Waiting') + w - d
      <4>1. d \in Int /\ w \in Int /\ pending' = pending - 1
        BY <1>1, <3>1
      <4> QED BY <1>6, <3>2, <4>1
    <3> QED BY <1>1, <3>1, <3>3
  <2> QED BY <1>0, <1>1, <1>4, <2>1 DEF Counts
<1>10. Somewhere'
  BY <1>0, <1>1, <1>3, <1>4 DEF Somewhere
<1>11. Apart'
  BY <1>0, <1>1, <1>3, <1>4 DEF Apart
<1>12. Known'
  <2>1. ASSUME NEW f \in DOMAIN job'
        PROVE  Root(f) \in DOMAIN call /\ (job'[f] # None => job'[f] = call[Root(f)].state)
    BY <1>0, <1>3 DEF Known
  <2>2. Root(e)' = Root(e)
    BY DEF Root
  <2> QED BY <1>0, <1>1, <1>4, <2>1 DEF Known, Root
<1> QED BY <1>7, <1>8, <1>9, <1>10, <1>11, <1>12 DEF RunnerInv

\* A thread is done with a request.
LEMMA LeaveIs ==
    ASSUME RunnerInv, NEW e \in DOMAIN job, Leave(e), round' = round
    PROVE  /\ DOMAIN job' = DOMAIN job \ {e} /\ \A f \in DOMAIN job' : job'[f] = job[f]
           /\ job' = [f \in DOMAIN job' |-> job'[f]]
           /\ InPool \in Nat /\ InPool' = InPool - 1
           /\ Waiting' = Waiting \ {e}
           /\ e \in Events /\ e \notin InQueue \cup Reported \cup raised
           /\ e[1] = round /\ main \notin {"done", "crashed"} /\ Root(e) \in DOMAIN call
<1>0. Types /\ Control /\ Somewhere /\ Apart /\ Known
  BY DEF RunnerInv
<1>1. /\ DOMAIN job' = DOMAIN job \ {e} /\ \A f \in DOMAIN job' : job'[f] = job[f]
      /\ job' = [f \in DOMAIN job' |-> job'[f]]
  BY DEF Leave, Restrict
<1>2. InPool \in Nat /\ InPool' = InPool - 1
  <2>1. IsFiniteSet(DOMAIN job) /\ InPool \in Nat
    BY <1>0, Countable
  <2> QED BY <1>1, <2>1, FS_RemoveElement DEF InPool
<1>3. Waiting' = Waiting \ {e}
  BY <1>1 DEF Waiting
<1>4. e \in Events /\ e \notin InQueue \cup Reported \cup raised
  BY <1>0 DEF Types, Apart
<1>5. e[1] = round
  <2>1. e \in {round} \X (1 .. Submitted)
    BY <1>0 DEF Somewhere
  <2> QED BY <2>1
<1>6. main \notin {"done", "crashed"} /\ Root(e) \in DOMAIN call
  BY <1>0 DEF Control, Known
<1> QED BY <1>1, <1>2, <1>3, <1>4, <1>5, <1>6

LEMMA KeepRowKeeps == ASSUME RunnerInv, NEW e \in DOMAIN job, KeepRow(e) PROVE RunnerInv'
<1> DEFINE row == <<e, job[e]>>
<1>0. TreeInv /\ Types /\ Control /\ Counts /\ Somewhere /\ Apart /\ Known
  BY DEF RunnerInv
<1>1. /\ job[e] # None /\ Leave(e) /\ stats' = stats \cup {row} /\ latencies' = latencies + 1
      /\ errors' = (IF job[e] = "200" THEN errors ELSE errors + 1)
      /\ call' = call /\ main' = main /\ greedy' = greedy /\ round' = round /\ next' = next
      /\ queue' = queue /\ processed' = processed /\ pending' = pending /\ timing' = timing
      /\ raised' = raised /\ file' = file
  BY DEF KeepRow
<1>2. /\ DOMAIN job' = DOMAIN job \ {e} /\ \A f \in DOMAIN job' : job'[f] = job[f]
      /\ job' = [f \in DOMAIN job' |-> job'[f]]
      /\ InPool \in Nat /\ InPool' = InPool - 1
      /\ e \in Events /\ e \notin InQueue \cup Reported \cup raised
      /\ e[1] = round /\ main \notin {"done", "crashed"} /\ Root(e) \in DOMAIN call
  BY <1>1, LeaveIs
<1>3. row \in Events \X Answered /\ row \notin stats /\ row[1] = e /\ row[2] = job[e]
      /\ call[Root(e)].state = job[e]
  BY <1>0, <1>1, <1>2 DEF Types, Known, Reported
<1> HIDE DEF row
<1>4. /\ InQueue' = InQueue /\ RaisedNow' = RaisedNow /\ L' = L /\ Submitted' = Submitted
      /\ Reported' = Reported \cup {e}
  BY <1>1, <1>3 DEF InQueue, Reported, RaisedNow, L, Submitted
<1>5. Waiting' = Waiting
  BY <1>1, <1>2 DEF Waiting
<1>6. errors' \in {errors, errors + 1} /\ errors' = Cardinality(Failed') /\ errors \in Nat
  <2>1. IsFiniteSet(Failed) /\ errors = Cardinality(Failed) /\ errors \in Nat
    BY <1>0, Countable DEF Counts, Types
  <2>2. CASE job[e] = "200"
    <3>1. Failed' = Failed
      BY <1>1, <1>3, <2>2 DEF Failed
    <3> QED BY <1>1, <2>1, <2>2, <3>1
  <2>3. CASE job[e] # "200"
    <3>1. Failed' = Failed \cup {row} /\ row \notin Failed
      BY <1>1, <1>3, <2>3 DEF Failed
    <3>2. Cardinality(Failed') = Cardinality(Failed) + 1
      BY <2>1, <3>1, FS_AddElement
    <3> QED BY <1>1, <2>1, <2>3, <3>2
  <2> QED BY <2>2, <2>3
<1>7. TreeInv'
  BY <1>0, <1>1, NoCallMoves
<1>8. Types' /\ Control'
  <2>1. errors' \in Nat /\ latencies' \in Nat
    BY <1>0, <1>1, <1>6 DEF Types
  <2>2. stats' \subseteq Events \X Answered /\ DOMAIN job' \subseteq Events
        /\ \A f \in DOMAIN job' : job'[f] \in Answered \cup {None}
    BY <1>0, <1>1, <1>2, <1>3 DEF Types
  <2>3. Types'
    BY <1>0, <1>1, <1>2, <1>4, <2>1, <2>2 DEF Types
  <2> QED BY <1>0, <1>1, <1>2, <1>4, <2>3 DEF Control
<1>9. Counts'
  <2>1. latencies' + Cardinality(raised') + InPool' + Len(queue') = (round' - 1) * L + Submitted'
    <3>1. latencies + Cardinality(raised) + InPool + Len(queue) = (round - 1) * L + Submitted
      BY <1>0 DEF Counts
    <3>2. latencies \in Nat /\ Cardinality(raised) \in Nat /\ Len(queue) \in Nat
      BY <1>0, Countable DEF Types
    <3>3. latencies' + Cardinality(raised') + InPool' + Len(queue')
            = latencies + Cardinality(raised) + InPool + Len(queue)
      BY <1>1, <1>2, <3>2
    <3> QED BY <1>1, <1>4, <3>1, <3>3
  <2>2. errors' + InPool' <= processed'
    <3>1. errors + InPool <= processed /\ processed \in Nat
      BY <1>0 DEF Counts, Types
    <3> QED BY <1>1, <1>2, <1>6, <3>1
  <2> QED BY <1>0, <1>1, <1>4, <1>5, <1>6, <2>1, <2>2 DEF Counts
<1>10. Somewhere'
  <2>1. DOMAIN job' \cup Reported' = DOMAIN job \cup Reported
    BY <1>2, <1>4
  <2> QED BY <1>0, <1>1, <1>4, <2>1 DEF Somewhere
<1>11. Apart'
  <2>1. /\ InQueue' \cap (DOMAIN job' \cup Reported' \cup raised') = {}
        /\ DOMAIN job' \cap (Reported' \cup raised') = {} /\ Reported' \cap raised' = {}
    BY <1>0, <1>1, <1>2, <1>4 DEF Apart
  <2>2. ASSUME NEW r \in stats', NEW s \in stats', r[1] = s[1] PROVE r = s
    BY <1>0, <1>1, <1>2, <1>3, <2>2 DEF Apart, Reported
  <2> QED BY <1>0, <1>1, <2>1, <2>2 DEF Apart
<1>12. Known'
  <2>1. ASSUME NEW r \in stats' PROVE Root(r[1]) \in DOMAIN call /\ call[Root(r[1])].state = r[2]
    BY <1>0, <1>1, <1>2, <1>3 DEF Known
  <2> QED BY <1>0, <1>1, <1>2, <1>4, <2>1 DEF Known, Root
<1> QED BY <1>7, <1>8, <1>9, <1>10, <1>11, <1>12 DEF RunnerInv

LEMMA GetRaisesKeeps == ASSUME RunnerInv, NEW e \in DOMAIN job, GetRaises(e) PROVE RunnerInv'
<1>0. TreeInv /\ Types /\ Control /\ Counts /\ Somewhere /\ Apart /\ Known
  BY DEF RunnerInv
<1>1. /\ job[e] = None /\ Leave(e) /\ raised' = raised \cup {e}
      /\ call' = call /\ main' = main /\ greedy' = greedy /\ round' = round /\ next' = next
      /\ queue' = queue /\ processed' = processed /\ pending' = pending /\ errors' = errors
      /\ timing' = timing /\ stats' = stats /\ latencies' = latencies /\ file' = file
  BY DEF GetRaises, counters
<1>2. /\ DOMAIN job' = DOMAIN job \ {e} /\ \A f \in DOMAIN job' : job'[f] = job[f]
      /\ job' = [f \in DOMAIN job' |-> job'[f]]
      /\ InPool \in Nat /\ InPool' = InPool - 1 /\ Waiting' = Waiting \ {e}
      /\ e \in Events /\ e \notin InQueue \cup Reported \cup raised
      /\ e[1] = round /\ main \notin {"done", "crashed"}
  BY <1>1, LeaveIs
<1>3. /\ InQueue' = InQueue /\ Reported' = Reported /\ Failed' = Failed /\ L' = L
      /\ Submitted' = Submitted
  BY <1>1 DEF InQueue, Reported, Failed, L, Submitted
<1>4. RaisedNow' = RaisedNow \cup {e}
  BY <1>1, <1>2 DEF RaisedNow
<1>5. /\ Cardinality(Waiting) \in Nat /\ Cardinality(raised) \in Nat
      /\ Cardinality(Waiting') = Cardinality(Waiting) - 1
      /\ Cardinality(raised') = Cardinality(raised) + 1
  <2>1. /\ IsFiniteSet(Waiting) /\ Cardinality(Waiting) \in Nat
        /\ IsFiniteSet(raised) /\ Cardinality(raised) \in Nat
    BY <1>0, Countable
  <2>2. e \in Waiting
    BY <1>1 DEF Waiting
  <2>3. Cardinality(Waiting') = Cardinality(Waiting) - 1
    BY <1>2, <2>1, <2>2, FS_RemoveElement
  <2>4. Cardinality(raised') = Cardinality(raised) + 1
    BY <1>1, <1>2, <2>1, FS_AddElement
  <2> QED BY <2>1, <2>3, <2>4
<1>6. TreeInv'
  BY <1>0, <1>1, NoCallMoves
<1>7. Types' /\ Control'
  <2>1. DOMAIN job' \subseteq Events /\ raised' \subseteq Events
        /\ \A f \in DOMAIN job' : job'[f] \in Answered \cup {None}
    BY <1>0, <1>1, <1>2 DEF Types
  <2>2. Types'
    BY <1>0, <1>1, <1>2, <1>3, <2>1 DEF Types
  <2> QED BY <1>0, <1>1, <1>2, <1>3, <2>2 DEF Control
<1>8. Counts'
  <2>0. /\ latencies \in Nat /\ Len(queue) \in Nat /\ processed \in Nat /\ errors \in Nat
        /\ pending \in Int
    BY <1>0, Countable DEF Types
  <2>1. latencies' + Cardinality(raised') + InPool' + Len(queue') = (round' - 1) * L + Submitted'
    <3>1. latencies + Cardinality(raised) + InPool + Len(queue) = (round - 1) * L + Submitted
      BY <1>0 DEF Counts
    <3>2. latencies' + Cardinality(raised') + InPool' + Len(queue')
            = latencies + Cardinality(raised) + InPool + Len(queue)
      BY <1>1, <1>2, <1>5, <2>0
    <3> QED BY <1>1, <1>3, <3>1, <3>2
  <2>2. pending' = Cardinality(raised') + Cardinality(Waiting')
                    + (IF greedy' THEN 0 ELSE Len(queue')) - (IF main' = "count" THEN 1 ELSE 0)
    <3>1. pending = Cardinality(raised) + Cardinality(Waiting)
                        + (IF greedy THEN 0 ELSE Len(queue)) - (IF main = "count" THEN 1 ELSE 0)
      BY <1>0 DEF Counts
    <3>2. Cardinality(raised') + Cardinality(Waiting') = Cardinality(raised) + Cardinality(Waiting)
      BY <1>5
    <3> QED BY <1>1, <3>1, <3>2
  <2>3. errors' + InPool' <= processed'
    <3>1. errors + InPool <= processed
      BY <1>0 DEF Counts
    <3> QED BY <1>1, <1>2, <2>0, <3>1
  <2> QED BY <1>0, <1>1, <1>3, <2>1, <2>2, <2>3 DEF Counts
<1>9. Somewhere'
  <2>1. DOMAIN job' \cup RaisedNow' = DOMAIN job \cup RaisedNow
    BY <1>2, <1>4
  <2> QED BY <1>0, <1>1, <1>3, <2>1 DEF Somewhere
<1>10. Apart'
  <2>1. /\ InQueue' \cap (DOMAIN job' \cup Reported' \cup raised') = {}
        /\ DOMAIN job' \cap (Reported' \cup raised') = {} /\ Reported' \cap raised' = {}
    BY <1>0, <1>1, <1>2, <1>3 DEF Apart
  <2>2. \A f \in raised' : f[1] <= round'
    <3>1. round <= round
      BY <1>0 DEF Types
    <3> QED BY <1>0, <1>1, <1>2, <3>1 DEF Apart
  <2> QED BY <1>0, <1>1, <2>1, <2>2 DEF Apart
<1>11. Known'
  BY <1>0, <1>1, <1>2, <1>3 DEF Known, Root
<1> QED BY <1>6, <1>7, <1>8, <1>9, <1>10, <1>11 DEF RunnerInv

LEMMA CellsKeep ==
    ASSUME RunnerInv, CellStep \/ CellBreak, UNCHANGED runner PROVE RunnerInv'
<1>0. TreeInv /\ Types /\ Control /\ Counts /\ Somewhere /\ Apart /\ Known
  BY DEF RunnerInv
<1>1. /\ main' = main /\ greedy' = greedy /\ round' = round /\ next' = next /\ queue' = queue
      /\ job' = job /\ processed' = processed /\ pending' = pending /\ errors' = errors
      /\ timing' = timing /\ stats' = stats /\ raised' = raised /\ latencies' = latencies
      /\ file' = file
  BY DEF runner, counters, results
<1>2. /\ DOMAIN call \subseteq DOMAIN call'
      /\ \A p \in DOMAIN call : call[p].state \in Ended => call'[p] = call[p]
      /\ \A q \in DOMAIN call' : \E p \in DOMAIN call : p[1] = q[1]
  BY <1>0, CellGrows
<1>3. TreeInv'
  BY <1>0, CellKeeps
<1>4. /\ InQueue' = InQueue /\ Reported' = Reported /\ RaisedNow' = RaisedNow /\ Failed' = Failed
      /\ L' = L /\ Submitted' = Submitted /\ InPool' = InPool /\ Waiting' = Waiting
  BY <1>1 DEF InQueue, Reported, RaisedNow, Failed, L, Submitted, InPool, Waiting
<1>5. Types' /\ Control'
  BY <1>0, <1>1, <1>4 DEF Types, Control
<1>6. Counts'
  BY <1>0, <1>1, <1>4 DEF Counts
<1>7. Somewhere' /\ Apart'
  BY <1>0, <1>1, <1>4 DEF Somewhere, Apart
<1>8. Known'
  <2>1. ASSUME NEW q \in DOMAIN call'
        PROVE  /\ q[1] \in Events /\ q[1] \notin InQueue /\ q[1][1] <= round
               /\ q[1][1] = round => q[1][2] <= Submitted
    BY <1>0, <1>2 DEF Known
  <2>2. ASSUME NEW e \in DOMAIN job
        PROVE  Root(e) \in DOMAIN call' /\ (job[e] # None => job[e] = call'[Root(e)].state)
    <3>1. /\ Root(e) \in DOMAIN call /\ (job[e] # None => job[e] = call[Root(e)].state)
          /\ job[e] # None => job[e] \in Ended
      BY <1>0 DEF Known, Types, Ended
    <3> QED BY <1>2, <3>1
  <2>3. ASSUME NEW row \in stats
        PROVE  Root(row[1]) \in DOMAIN call' /\ call'[Root(row[1])].state = row[2]
    <3>1. Root(row[1]) \in DOMAIN call /\ call[Root(row[1])].state = row[2] /\ row[2] \in Ended
      BY <1>0 DEF Known, Types, Ended
    <3> QED BY <1>2, <3>1
  <2> QED BY <1>1, <1>4, <2>1, <2>2, <2>3 DEF Known, Root
<1> QED BY <1>3, <1>5, <1>6, <1>7, <1>8 DEF RunnerInv

(***************************************************************************)
(* Theorems, for any services, workload, rounds, threads and failures.     *)
(***************************************************************************)

LEMMA StepKeeps == ASSUME RunnerInv, [Next]_vars PROVE RunnerInv'
<1>1. CASE Main
  BY <1>1, SubmitKeeps, CountPendingKeeps, CheckKeeps, EndKeeps, NextRoundKeeps DEF Main
<1>2. CASE PoolStep
  BY <1>2, GetKeeps, ReceiveKeeps, KeepRowKeeps, GetRaisesKeeps DEF PoolStep
<1>3. CASE Cells \/ (CellBreak /\ UNCHANGED runner)
  BY <1>3, CellsKeep DEF Cells
<1>4. CASE UNCHANGED vars
  <2>1. call' = call /\ UNCHANGED runner
    BY <1>4 DEF vars, runner, counters, results
  <2>2. /\ main' = main /\ greedy' = greedy /\ round' = round /\ next' = next /\ queue' = queue
        /\ job' = job /\ processed' = processed /\ pending' = pending /\ errors' = errors
        /\ timing' = timing /\ stats' = stats /\ raised' = raised /\ latencies' = latencies
        /\ file' = file
    BY <2>1 DEF runner, counters, results
  <2>3. TreeInv'
    BY <2>1, NoCallMoves DEF RunnerInv
  <2>4. /\ L' = L /\ Submitted' = Submitted /\ InPool' = InPool /\ Waiting' = Waiting
        /\ Failed' = Failed
    BY <2>2 DEF L, Submitted, InPool, Waiting, Failed
  <2>5. Types' /\ Control' /\ Counts'
    BY <2>2, <2>4 DEF RunnerInv, Types, Control, Counts
  <2>6. Somewhere' /\ Apart' /\ Known'
    BY <2>1, <2>2, <2>4, Stays DEF RunnerInv
  <2> QED BY <2>3, <2>5, <2>6 DEF RunnerInv
<1> QED BY <1>1, <1>2, <1>3, <1>4 DEF Next

\* Where the requests are, what the counters count, and what the tree of calls is.
THEOREM RequestsAccounted == Spec => []RunnerInv
  BY InitHolds, StepKeeps, PTL DEF Spec

\* Every counter is at most the number of requests of the run, and the pending requests are
\* at least -1: a thread may have ended before its submission has been counted.
THEOREM TypeCorrect == Spec => []TypeOK
<1>1. RunnerInv => TypeOK
  <2> SUFFICES ASSUME RunnerInv PROVE TypeOK
    OBVIOUS
  <2>0. TreeInv /\ Types /\ Control /\ Counts /\ Known
    BY DEF RunnerInv
  <2> DEFINE all == Cardinality(Events)
             before == (round - 1) * L
  <2>1. /\ L \in Nat /\ all \in Nat /\ before \in Nat /\ before + L <= all
    <3>1. round \in 1 .. Rounds
      BY <2>0 DEF Types
    <3> QED BY <3>1, Sizes, FS_CardinalityType
  <2>2. /\ InPool \in Nat /\ Cardinality(Waiting) \in Nat /\ Cardinality(Waiting) <= InPool
        /\ Cardinality(raised) \in Nat /\ Len(queue) \in Nat
        /\ processed \in Nat /\ pending \in Int /\ errors \in Nat /\ timing \in Nat
        /\ latencies \in Nat
    BY <2>0, Countable DEF Types
  <2>3. /\ latencies + Cardinality(raised) + InPool + Len(queue) = before + Submitted
        /\ processed + Len(queue) = Submitted /\ errors + InPool <= processed
        /\ timing <= next - 1
    BY <2>0 DEF Counts
  <2>4. pending = Cardinality(raised) + Cardinality(Waiting)
                    + (IF greedy THEN 0 ELSE Len(queue)) - (IF main = "count" THEN 1 ELSE 0)
    BY <2>0 DEF Counts
  <2>5. Submitted \in Nat /\ Submitted <= L /\ next \in 1 .. L + 1
    <3>1. next \in 1 .. L + 1 /\ (main \in {"count", "check"} => next <= L)
      BY <2>0 DEF Types, Control
    <3> QED BY <2>1, <3>1 DEF Submitted
  <2> HIDE DEF all, before
  <2>6. latencies <= all /\ processed <= all /\ errors <= all /\ timing <= all
    <3>1. latencies <= before + L /\ processed <= L /\ errors <= L /\ timing <= L
      BY <2>1, <2>2, <2>3, <2>5
    <3> QED BY <2>1, <2>2, <3>1
  <2>7. -1 <= pending /\ pending <= all
    <3> DEFINE w == IF greedy THEN 0 ELSE Len(queue)
               d == IF main = "count" THEN 1 ELSE 0
    <3>1. w \in Nat /\ w <= Len(queue) /\ d \in 0 .. 1
      BY <2>2
    <3>2. pending = Cardinality(raised) + Cardinality(Waiting) + w - d
      BY <2>4
    <3> HIDE DEF w, d
    <3>3. -1 <= pending /\ pending <= Cardinality(raised) + InPool + Len(queue)
      BY <2>2, <3>1, <3>2
    <3>4. Cardinality(raised) + InPool + Len(queue) <= before + L
      BY <2>1, <2>2, <2>3, <2>5
    <3> QED BY <2>1, <2>2, <3>3, <3>4
  <2>8. \A p \in DOMAIN call : /\ Len(p) > 0 /\ p[1] \in Events
                               /\ call[p].target \in Targets /\ call[p].err \in BOOLEAN
                               /\ call[p].state \in {"queued", "running"} \cup Ended
                               /\ \A g \in DOMAIN call[p].todo :
                                     \A i \in DOMAIN call[p].todo[g] : call[p].todo[g][i] \in Targets
    <3> SUFFICES ASSUME NEW p \in DOMAIN call
                 PROVE  /\ Len(p) > 0 /\ p[1] \in Events
                        /\ call[p].target \in Targets /\ call[p].err \in BOOLEAN
                        /\ call[p].state \in {"queued", "running"} \cup Ended
                        /\ \A g \in DOMAIN call[p].todo :
                              \A i \in DOMAIN call[p].todo[g] : call[p].todo[g][i] \in Targets
      OBVIOUS
    <3>1. p \in Places /\ call[p] \in CallType
      BY <2>0 DEF TreeInv, CallsOk
    <3>2. Len(p) > 0 /\ p[1] \in Events
      BY <2>0, <3>1, PlaceLength DEF Known
    <3>3. call[p].target \in Targets /\ call[p].err \in BOOLEAN
          /\ call[p].state \in {"queued", "running"} \cup Ended /\ call[p].todo \in Seq(Seq(Targets))
      BY <3>1 DEF CallType, States
    <3>4. ASSUME NEW g \in DOMAIN call[p].todo, NEW i \in DOMAIN call[p].todo[g]
          PROVE  call[p].todo[g][i] \in Targets
      <4> DEFINE t == call[p].todo
      <4>1. t \in Seq(Seq(Targets)) /\ g \in DOMAIN t /\ i \in DOMAIN t[g]
        BY <3>3
      <4> HIDE DEF t
      <4>2. t[g] \in Seq(Targets)
        BY <4>1, LenProperties, ElementOfSeq
      <4>3. t[g][i] \in Targets
        BY <4>1, <4>2, LenProperties, ElementOfSeq
      <4> QED BY <4>3 DEF t
    <3> QED BY <3>2, <3>3, <3>4
  <2>9. \A i \in DOMAIN queue : queue[i] \in Events
    BY <2>0, LenProperties, ElementOfSeq DEF Types
  <2>10. {processed, errors, timing, latencies} \subseteq 0 .. all /\ pending \in -1 .. all
    BY <2>1, <2>2, <2>6, <2>7
  <2> QED BY <2>0, <2>5, <2>8, <2>9, <2>10 DEF Types, TypeOK, L, all
<1> QED BY <1>1, RequestsAccounted, PTL

\* A failure anywhere below a request reaches its answer, through every level, and nothing
\* else makes the answer an error.
THEOREM FailuresReachClient == Spec => []FailuresReach
<1>1. RunnerInv => FailuresReach
  BY FailuresSeen DEF RunnerInv
<1> QED BY <1>1, RequestsAccounted, PTL

\* Nothing runs on behalf of an answered call, but below a process that has died.
THEOREM NothingBehind == Spec => []NothingLeftBehind
<1>1. RunnerInv => NothingLeftBehind
  BY DEF RunnerInv, TreeInv
<1> QED BY <1>1, RequestsAccounted, PTL

\* A timing error is counted only when more requests wait, are in the pool or have raised
\* than there are threads.
THEOREM TimingErrors == Spec => TimingErrorsJustified
<1>1. ASSUME RunnerInv, [Next]_vars
      PROVE  [timing' > timing => Len(queue) + InPool + Cardinality(raised) > PoolSize]_vars
  <2> SUFFICES ASSUME timing' > timing PROVE Len(queue) + InPool + Cardinality(raised) > PoolSize
    OBVIOUS
  <2>1. timing \in Nat
    BY <1>1 DEF RunnerInv, Types
  <2>2. timing' # timing /\ timing' # 0
    BY <2>1
  <2>3. Check
    BY <1>1, <2>2 DEF Next, Main, PoolStep, Cells, Submit, CountPending, DivideByZero, NextRound,
        WriteResults, Get, Receive, KeepRow, GetRaises, runner, counters, vars
  <2>4. main = "check" /\ pending > PoolSize
    BY <2>2, <2>3 DEF Check
  <2>5. pending = Cardinality(raised) + Cardinality(Waiting) + Len(queue) - 0
    BY <1>1, <2>4 DEF RunnerInv, Counts, Control
  <2>6. /\ InPool \in Nat /\ Cardinality(Waiting) \in Nat /\ Cardinality(Waiting) <= InPool
        /\ Cardinality(raised) \in Nat /\ Len(queue) \in Nat /\ PoolSize \in Nat
    BY <1>1, Countable, Sizes DEF RunnerInv
  <2> QED BY <2>4, <2>5, <2>6
<1> QED BY <1>1, RequestsAccounted, PTL DEF Spec, TimingErrorsJustified

\* What is reported at the end of a round is about all of its requests, and no other.
THEOREM RoundsReported == Spec => RoundReported
<1> DEFINE Ends == Waited /\ main' # "crashed" /\ <<main, round>>' # <<main, round>>
           Report == /\ {row[1] : row \in stats} = ({round} \X DOMAIN Workload) \ raised
                     /\ \A row \in stats : call[Root(row[1])].state = row[2]
                     /\ errors = Cardinality({row \in stats : row[2] # "200"})
                     /\ processed = Len(Workload)
<1>1. ASSUME RunnerInv PROVE Waited => Report
  <2> SUFFICES ASSUME Waited PROVE Report
    OBVIOUS
  <2>1. /\ Submitted = L /\ L \in Nat /\ Len(queue) = 0 /\ InQueue = {} /\ DOMAIN job = {}
    BY <1>1, RoundOver
  <2>2. Types /\ Counts /\ Somewhere /\ Apart /\ Known
    BY <1>1 DEF RunnerInv
  <2>3. Reported \cup RaisedNow = {round} \X (1 .. L)
    BY <2>1, <2>2 DEF Somewhere
  <2>4. Reported = ({round} \X (1 .. L)) \ raised
    <3>1. Reported \cap raised = {}
      BY <2>2 DEF Apart
    <3>2. RaisedNow \subseteq raised
      BY DEF RaisedNow
    <3> QED BY <2>3, <3>1, <3>2
  <2>5. processed = L /\ errors = Cardinality(Failed)
    BY <2>1, <2>2 DEF Counts, Types
  <2>6. \A row \in stats : call[Root(row[1])].state = row[2]
    BY <2>2 DEF Known
  <2> QED BY <2>4, <2>5, <2>6, Sizes DEF Reported, Failed, L
<1>2. RunnerInv => [Ends => Report]_vars
  BY <1>1
<1> QED BY <1>2, RequestsAccounted, PTL DEF RoundReported
=============================================================================
