--------------------------- MODULE HttpCellProofs ---------------------------
(***************************************************************************)
(* Proofs about HttpCell, for any services, groups, threads and failures:  *)
(* what is true of the tree of calls, whatever the client is.              *)
(***************************************************************************)
EXTENDS HttpCell, FiniteSetTheorems, SequenceTheorems, TLAPS

(***************************************************************************)
(* The inductive invariant.                                                *)
(***************************************************************************)

Segments == Nat \X Nat
Places   == Seq(Segments) \ {<<>>}
States   == {"queued", "running"} \cup Ended
CallType == [target : Targets, state : States, todo : Seq(Seq(Targets)), err : BOOLEAN]

\* The call n levels below the client, on the way to q.
Up(q, n) == SubSeq(q, 1, n)

CallsOk == \A p \in DOMAIN call : p \in Places /\ call[p] \in CallType
Rooted  == \A p \in DOMAIN call : \A n \in 1 .. Len(p) : Up(p, n) \in DOMAIN call

\* What the caller, c, knows of a call at q, s, that it has made for a group: it is the one
\* the group waits for, or has ended and has been accounted for.
GroupOf(q) == q[Len(q)][1]
LeftAt(q)  == q[Len(q)][2]
Accounted(c, q, s) ==
    /\ GroupOf(q) \in DOMAIN c.todo
    /\ LeftAt(q) >= 1 /\ LeftAt(q) >= Len(c.todo[GroupOf(q)])
    /\ LeftAt(q) > Len(c.todo[GroupOf(q)]) => s \in Ended /\ (s # "200" => c.err)
Children ==
    \A p, q \in DOMAIN call : ChildOf(q, p) =>
        /\ call[p].state # "queued"
        /\ call[p].state # "broken" => Accounted(call[p], q, call[q].state)

\* What has not been started, or has died, calls nothing.
Unstarted(c) == c.state \in {"queued", "broken"} => c.todo = <<>> /\ ~c.err

\* An error has a reason, and a call is answered when all has been done.
Reason(p, c) ==
    \/ c.target \in Faulty \/ c.target[1] \in Grpc
    \/ \E q \in DOMAIN call : ChildOf(q, p) /\ call[q].state \in Ended \ {"200"}
Finished(c) ==
    c.state \in Answered => /\ c.err <=> c.state = "500"
                            /\ \A g \in DOMAIN c.todo : c.todo[g] = <<>>
Errors == \A p \in DOMAIN call : /\ Unstarted(call[p]) /\ Finished(call[p])
                                 /\ call[p].err => Reason(p, call[p])

Succeeded == \A p, q \in DOMAIN call :
                call[p].state = "200" /\ Below(q, p) => call[q].state = "200"

TreeInv == CallsOk /\ Rooted /\ Children /\ Errors /\ Succeeded /\ NothingLeftBehind

(***************************************************************************)
(* Lemmas: places in the tree.                                             *)
(***************************************************************************)

LEMMA BelowIs ==
    ASSUME NEW p \in Places, NEW q \in Places
    PROVE  Below(q, p) <=> Len(p) < Len(q) /\ \A i \in 1 .. Len(p) : q[i] = p[i]
<1>1. p \in Seq(Segments) /\ q \in Seq(Segments)
  BY DEF Places
<1> QED BY <1>1 DEF Below, IsStrictPrefix, IsPrefix

LEMMA UpIs ==
    ASSUME NEW q \in Places, NEW n \in 1 .. Len(q)
    PROVE  /\ Up(q, n) \in Places /\ Len(Up(q, n)) = n
           /\ \A i \in 1 .. n : Up(q, n)[i] = q[i]
<1>1. q \in Seq(Segments) /\ Len(q) \in Nat /\ n \in Nat /\ n >= 1
  BY DEF Places
<1>2. \A i \in 1 .. n : q[i] \in Segments
  BY <1>1
<1>3. /\ Up(q, n) \in Seq(Segments) /\ Len(Up(q, n)) = n
      /\ \A i \in 1 .. n : Up(q, n)[i] = q[i]
  BY <1>1, <1>2, SubSeqProperties DEF Up
<1> QED BY <1>1, <1>3 DEF Places

LEMMA SamePlace ==
    ASSUME NEW p \in Places, NEW q \in Places, Len(p) = Len(q), \A i \in 1 .. Len(p) : q[i] = p[i]
    PROVE  p = q
<1>1. p \in Seq(Segments) /\ q \in Seq(Segments)
  BY DEF Places
<1> QED BY <1>1, SeqEqual

LEMMA PlaceLength == ASSUME NEW p \in Places PROVE Len(p) \in Nat \ {0} /\ p[1] \in Segments
<1>1. p \in Seq(Segments) /\ p # <<>>
  BY DEF Places
<1> QED BY <1>1, EmptySeq, ElementOfSeq

LEMMA BelowTwice ==
    ASSUME NEW p \in Places, NEW q \in Places, NEW r \in Places, Below(r, q), Below(q, p)
    PROVE  Below(r, p)
<1>1. Len(p) \in Nat /\ Len(q) \in Nat /\ Len(r) \in Nat
  BY PlaceLength
<1> QED BY <1>1, BelowIs

LEMMA BelowRoot ==
    ASSUME NEW p \in Places, NEW q \in Places, Below(q, p) PROVE q[1] = p[1] /\ Len(q) > 1 /\ q # p
<1>1. Len(p) \in Nat \ {0} /\ Len(q) \in Nat
  BY PlaceLength
<1> QED BY <1>1, BelowIs

\* Between a call and one below it is the child on the way.
LEMMA OnTheWay ==
    ASSUME CallsOk, Rooted, NEW p \in DOMAIN call, NEW q \in DOMAIN call, Below(q, p)
    PROVE  \E c \in DOMAIN call : ChildOf(c, p) /\ (c = q \/ Below(q, c))
<1> DEFINE c == Up(q, Len(p) + 1)
<1>1. p \in Places /\ q \in Places
  BY DEF CallsOk
<1>2. Len(p) \in Nat /\ Len(q) \in Nat /\ Len(p) < Len(q) /\ \A i \in 1 .. Len(p) : q[i] = p[i]
  BY <1>1, PlaceLength, BelowIs
<1>3. Len(p) + 1 \in 1 .. Len(q)
  BY <1>2
<1>4. c \in Places /\ Len(c) = Len(p) + 1 /\ \A i \in 1 .. Len(p) + 1 : c[i] = q[i]
  BY <1>1, <1>3, UpIs
<1>5. c \in DOMAIN call
  BY <1>3 DEF Rooted
<1> HIDE DEF c
<1>6. ChildOf(c, p)
  <2>1. \A i \in 1 .. Len(p) : c[i] = p[i]
    BY <1>2, <1>4
  <2>2. Below(c, p)
    BY <1>1, <1>2, <1>4, <2>1, BelowIs
  <2> QED BY <1>4, <2>2 DEF ChildOf
<1>7. c = q \/ Below(q, c)
  BY <1>1, <1>2, <1>4, BelowIs, SamePlace
<1> QED BY <1>5, <1>6, <1>7

\* Whoever is above a call is its caller or above its caller.
LEMMA AboveChild ==
    ASSUME NEW p \in Places, NEW q \in Places, NEW x \in Places, ChildOf(q, p), Below(q, x)
    PROVE  x = p \/ Below(p, x)
<1>1. /\ Len(p) \in Nat /\ Len(q) \in Nat /\ Len(x) \in Nat
      /\ Len(q) = Len(p) + 1 /\ \A i \in 1 .. Len(p) : q[i] = p[i]
      /\ Len(x) < Len(q) /\ \A i \in 1 .. Len(x) : q[i] = x[i]
  BY PlaceLength, BelowIs DEF ChildOf
<1>2. \A i \in 1 .. Len(x) : p[i] = x[i]
  BY <1>1
<1> QED BY <1>1, <1>2, BelowIs, SamePlace

LEMMA AddressIs ==
    ASSUME NEW p \in Places, NEW g \in Nat, NEW k \in Nat
    PROVE  LET q == Append(p, <<g, k>>)
           IN  /\ q \in Places /\ ChildOf(q, p) /\ GroupOf(q) = g /\ LeftAt(q) = k
               /\ Up(q, Len(q)) = q
               /\ \A n \in 1 .. Len(q) - 1 : n \in 1 .. Len(p) /\ Up(q, n) = Up(p, n)
<1> DEFINE q == Append(p, <<g, k>>)
<1>0. p \in Seq(Segments) /\ <<g, k>> \in Segments
  BY DEF Places, Segments
<1>1. q \in Places /\ Len(q) = Len(p) + 1 /\ Len(p) \in Nat \ {0}
  BY <1>0, AppendProperties, PlaceLength DEF Places
<1>2. (\A i \in 1 .. Len(p) : q[i] = p[i]) /\ q[Len(q)] = <<g, k>>
  BY <1>0, <1>1, AppendProperties
<1> HIDE DEF q
<1>3. ChildOf(q, p)
  BY <1>1, <1>2, BelowIs DEF ChildOf
<1>4. Up(q, Len(q)) = q
  BY <1>1, UpIs, SamePlace
<1>5. ASSUME NEW n \in 1 .. Len(q) - 1 PROVE n \in 1 .. Len(p) /\ Up(q, n) = Up(p, n)
  <2>1. n \in 1 .. Len(p) /\ n \in 1 .. Len(q)
    BY <1>1
  <2>2. \A i \in 1 .. n : Up(p, n)[i] = Up(q, n)[i]
    BY <1>1, <1>2, <2>1, UpIs
  <2> QED BY <1>1, <2>1, <2>2, UpIs, SamePlace
<1>6. GroupOf(q) = g /\ LeftAt(q) = k
  BY <1>2 DEF GroupOf, LeftAt
<1> QED BY <1>1, <1>3, <1>4, <1>5, <1>6 DEF q

\* A call is named by its caller and what it does for it.
LEMMA ChildIs ==
    ASSUME NEW p \in Places, NEW q \in Places, ChildOf(q, p)
    PROVE  /\ q = Append(p, <<GroupOf(q), LeftAt(q)>>)
           /\ GroupOf(q) \in Nat /\ LeftAt(q) \in Nat
<1>1. /\ Len(p) \in Nat \ {0} /\ Len(q) = Len(p) + 1 /\ \A i \in 1 .. Len(p) : q[i] = p[i]
      /\ p \in Seq(Segments) /\ q \in Seq(Segments)
  BY PlaceLength, BelowIs DEF ChildOf, Places
<1>2. q[Len(q)] \in Segments
  BY <1>1, ElementOfSeq
<1>3. q[Len(q)] = <<GroupOf(q), LeftAt(q)>> /\ GroupOf(q) \in Nat /\ LeftAt(q) \in Nat
  BY <1>2 DEF GroupOf, LeftAt, Segments
<1>4. /\ Append(p, q[Len(q)]) \in Seq(Segments) /\ Len(Append(p, q[Len(q)])) = Len(q)
      /\ \A i \in 1 .. Len(q) : Append(p, q[Len(q)])[i] = q[i]
  BY <1>1, <1>2, AppendProperties
<1>5. q = Append(p, q[Len(q)])
  BY <1>1, <1>4, SeqEqual
<1> QED BY <1>3, <1>5

(***************************************************************************)
(* Lemmas: what is drawn is a sequence of targets for every group.         *)
(***************************************************************************)

LEMMA PickedType ==
    ASSUME NEW s \in Seq(Targets), NEW n \in Nat, NEW f \in [1 .. n -> DOMAIN s]
    PROVE  [i \in 1 .. n |-> s[f[i]]] \in Seq(Targets)
<1>1. DOMAIN s = 1 .. Len(s)
  BY LenProperties
<1>2. \A i \in 1 .. n : s[f[i]] \in Targets
  BY <1>1, ElementOfSeq
<1> QED BY <1>2

LEMMA KeptType ==
    ASSUME NEW s \in Seq(Targets), NEW skipped PROVE Kept(s, skipped) \subseteq Seq(Targets)
<1> DEFINE keep == {i \in DOMAIN s : s[i][1] \notin skipped}
           n == Cardinality(keep)
<1>1. DOMAIN s = 1 .. Len(s) /\ Len(s) \in Nat
  BY LenProperties
<1>2. n \in Nat
  <2>1. IsFiniteSet(DOMAIN s) /\ keep \subseteq DOMAIN s
    BY <1>1, FS_Interval
  <2>2. IsFiniteSet(keep)
    BY <2>1, FS_Subset, Zenon
  <2> QED BY <2>2, FS_CardinalityType
<1>3. Kept(s, skipped) = {[i \in 1 .. n |-> s[f[i]]] :
            f \in {f \in [1 .. n -> keep] : \A i, j \in 1 .. n : i < j => f[i] < f[j]}}
  BY DEF Kept
<1>4. \A f \in [1 .. n -> keep] : f \in [1 .. n -> DOMAIN s]
  OBVIOUS
<1> HIDE DEF keep, n
<1> QED BY <1>2, <1>3, <1>4, PickedType

LEMMA SamplesType ==
    ASSUME NEW s \in Seq(Targets), NEW k \in Nat PROVE Samples(s, k) \subseteq Seq(Targets)
  BY PickedType DEF Samples

GroupType == [services : Seq(Targets), seq_len : Nat, optional : SUBSET Services]

LEMMA SelectionsType ==
    ASSUME NEW g \in GroupType PROVE Selections(g) \subseteq Seq(Targets)
<1>1. g.services \in Seq(Targets) /\ g.seq_len \in Nat
  BY DEF GroupType
<1> DEFINE drawn == IF g.seq_len < Len(g.services) THEN Samples(g.services, g.seq_len)
                                                   ELSE {g.services}
<1>2. drawn \subseteq Seq(Targets)
  BY <1>1, SamplesType
<1> HIDE DEF drawn
<1>3. Selections(g) = UNION {Kept(s, skipped) : s \in drawn, skipped \in SUBSET g.optional}
  BY DEF Selections, drawn
<1> QED BY <1>2, <1>3, KeptType

LEMMA TodosType ==
    ASSUME NEW target \in Targets, NEW t \in Todos(Groups[target]) PROVE t \in Seq(Seq(Targets))
<1> DEFINE groups == Groups[target]
<1>1. groups \in Seq(GroupType)
  BY HttpCellAssumption DEF GroupType
<1> HIDE DEF groups
<1>2. DOMAIN groups = 1 .. Len(groups) /\ Len(groups) \in Nat
  BY <1>1, LenProperties
<1>3. t \in [DOMAIN groups -> UNION {Selections(groups[g]) : g \in DOMAIN groups}]
      /\ \A g \in DOMAIN groups : t[g] \in Selections(groups[g])
  BY DEF Todos, groups
<1>4. \A g \in DOMAIN groups : t[g] \in Seq(Targets)
  BY <1>1, <1>2, <1>3, ElementOfSeq, SelectionsType
<1>5. t \in [1 .. Len(groups) -> Seq(Targets)]
  BY <1>2, <1>3, <1>4
<1> QED BY <1>2, <1>5

(***************************************************************************)
(* A call changes.                                                         *)
(***************************************************************************)

\* It has not ended, the others stay, and what it has called is accounted for.
Changes(p, c) ==
    /\ p \in DOMAIN call /\ call[p].state \notin Ended
    /\ call' = [call EXCEPT ![p] = c]
    /\ c \in CallType /\ c.target = call[p].target
    /\ Unstarted(c) /\ Finished(c) /\ (c.err => Reason(p, c))
    /\ \A q \in DOMAIN call : ChildOf(q, p) =>
          c.state # "queued" /\ (c.state # "broken" => Accounted(c, q, call[q].state))

LEMMA OthersSame ==
    ASSUME CallsOk, NEW p, NEW c, Changes(p, c)
    PROVE  /\ DOMAIN call' = DOMAIN call /\ call'[p] = c
           /\ \A q \in DOMAIN call \ {p} : call'[q] = call[q]
           /\ \A q \in DOMAIN call : call[q].state \in Ended => call'[q] = call[q]
           /\ \A q \in DOMAIN call : call'[q].target = call[q].target
  BY DEF Changes

LEMMA ChangeKeeps ==
    ASSUME TreeInv, NEW p, NEW c, Changes(p, c) PROVE TreeInv'
<1>0. /\ CallsOk /\ Rooted /\ Children /\ Errors /\ Succeeded /\ NothingLeftBehind
      /\ p \in DOMAIN call /\ call[p].state \notin Ended /\ c \in CallType
      /\ Unstarted(c) /\ Finished(c) /\ (c.err => Reason(p, c))
  BY DEF TreeInv, Changes
<1>1. /\ DOMAIN call' = DOMAIN call /\ call'[p] = c
      /\ \A q \in DOMAIN call \ {p} : call'[q] = call[q]
      /\ \A q \in DOMAIN call : call[q].state \in Ended => call'[q] = call[q]
      /\ \A q \in DOMAIN call : call'[q].target = call[q].target
  BY <1>0, OthersSame
<1>2. CallsOk'
  BY <1>0, <1>1 DEF CallsOk
<1>3. Rooted'
  BY <1>0, <1>1 DEF Rooted
<1>4. Children'
  <2> SUFFICES ASSUME NEW x \in DOMAIN call, NEW q \in DOMAIN call, ChildOf(q, x)
               PROVE  /\ call'[x].state # "queued"
                      /\ call'[x].state # "broken" => Accounted(call'[x], q, call'[q].state)
    BY <1>1 DEF Children
  <2>1. q # x
    BY <1>0, BelowRoot DEF CallsOk, ChildOf
  <2>2. CASE x = p
    BY <1>1, <2>1, <2>2 DEF Changes
  <2>3. CASE x # p /\ q = p
    BY <1>0, <1>1, <2>3 DEF Children, Accounted
  <2>4. CASE x # p /\ q # p
    BY <1>0, <1>1, <2>4 DEF Children
  <2> QED BY <2>2, <2>3, <2>4
<1>5. ASSUME NEW x \in DOMAIN call, NEW d, d.target = call[x].target, Reason(x, d)
      PROVE  Reason(x, call[x])'
  <2>1. CASE \E q \in DOMAIN call : ChildOf(q, x) /\ call[q].state \in Ended \ {"200"}
    <3>1. PICK q \in DOMAIN call : ChildOf(q, x) /\ call[q].state \in Ended \ {"200"}
      BY <2>1
    <3> QED BY <1>1, <3>1 DEF Reason
  <2>2. CASE d.target \in Faulty \/ d.target[1] \in Grpc
    BY <1>1, <1>5, <2>2 DEF Reason
  <2> QED BY <1>5, <2>1, <2>2 DEF Reason
<1>6. Errors'
  <2> SUFFICES ASSUME NEW x \in DOMAIN call
               PROVE  /\ Unstarted(call'[x]) /\ Finished(call'[x])
                      /\ call'[x].err => Reason(x, call[x])'
    BY <1>1 DEF Errors
  <2>1. CASE x = p
    <3>1. c.err => Reason(x, call[x])'
      BY <1>0, <1>1, <1>5, <2>1 DEF Changes
    <3> QED BY <1>0, <1>1, <2>1, <3>1 DEF Reason
  <2>2. CASE x # p
    <3>1. call'[x] = call[x] /\ (call[x].err => Reason(x, call[x]))
      BY <1>0, <1>1, <2>2 DEF Errors
    <3>2. call[x].err => Reason(x, call[x])'
      BY <1>5, <3>1
    <3> QED BY <1>0, <3>1, <3>2 DEF Errors, Reason
  <2> QED BY <2>1, <2>2
<1>7. ASSUME NEW q \in DOMAIN call, ChildOf(q, p), c.state \in Answered
      PROVE  call[q].state \in Ended /\ (c.state = "200" => call[q].state = "200")
  <2>0. q \in Places /\ p \in Places /\ LeftAt(q) \in Nat
    BY <1>0, <1>7, ChildIs DEF CallsOk
  <2>1. Accounted(c, q, call[q].state)
    BY <1>7 DEF Changes, Answered
  <2>2. c.todo[GroupOf(q)] = <<>>
    BY <1>0, <1>7, <2>1 DEF Finished, Accounted
  <2>3. Len(c.todo[GroupOf(q)]) = 0 /\ LeftAt(q) > 0
    BY <1>0, <2>1, <2>2, <2>0 DEF Accounted
  <2>4. c.state = "200" => ~c.err
    BY <1>0, <1>7 DEF Finished
  <2> QED BY <2>1, <2>3, <2>4 DEF Accounted
<1>8. Succeeded'
  <2> SUFFICES ASSUME NEW x \in DOMAIN call, NEW q \in DOMAIN call,
                      call'[x].state = "200", Below(q, x)
               PROVE  call'[q].state = "200"
    BY <1>1 DEF Succeeded
  <2>1. CASE x # p
    BY <1>0, <1>1, <2>1 DEF Succeeded, Ended, Answered
  <2>2. CASE x = p
    <3>1. PICK d \in DOMAIN call : ChildOf(d, p) /\ (d = q \/ Below(q, d))
      BY <1>0, <2>2, OnTheWay
    <3>2. call[d].state = "200"
      BY <1>1, <1>7, <2>2, <3>1 DEF Answered
    <3>3. call[q].state = "200"
      BY <1>0, <3>1, <3>2 DEF Succeeded
    <3> QED BY <1>1, <3>3 DEF Ended, Answered
  <2> QED BY <2>1, <2>2
<1>9. NothingLeftBehind'
  <2> SUFFICES ASSUME NEW x \in DOMAIN call, NEW q \in DOMAIN call,
                      call'[x].state \in Answered, Below(q, x), call'[q].state \notin Ended
               PROVE  \E r \in DOMAIN call : call[r].state = "broken" /\ Below(r, x) /\ Below(q, r)
    BY <1>1 DEF NothingLeftBehind, Ended
  <2>1. call[q].state \notin Ended
    BY <1>1
  <2>2. CASE x # p
    BY <1>0, <1>1, <2>1, <2>2 DEF NothingLeftBehind
  <2>3. CASE x = p
    <3>1. PICK d \in DOMAIN call : ChildOf(d, p) /\ (d = q \/ Below(q, d))
      BY <1>0, <2>3, OnTheWay
    <3>2. call[d].state \in Ended
      BY <1>1, <1>7, <2>3, <3>1
    <3>3. Below(q, d) /\ Below(d, p)
      BY <2>1, <3>1, <3>2 DEF ChildOf
    <3>4. CASE call[d].state = "broken"
      BY <2>3, <3>3, <3>4
    <3>5. CASE call[d].state \in Answered
      <4>1. PICK r \in DOMAIN call : call[r].state = "broken" /\ Below(r, d) /\ Below(q, r)
        BY <1>0, <2>1, <3>3, <3>5 DEF NothingLeftBehind
      <4>2. Below(r, p)
        BY <1>0, <3>3, <4>1, BelowTwice DEF CallsOk
      <4> QED BY <2>3, <4>1, <4>2
    <3> QED BY <3>2, <3>4, <3>5 DEF Ended
  <2> QED BY <2>2, <2>3
<1> QED BY <1>2, <1>3, <1>4, <1>6, <1>8, <1>9 DEF TreeInv

(***************************************************************************)
(* A call is made.                                                         *)
(***************************************************************************)

\* It has a new place, at the top or where its caller waits for it.
Opens(q, target) ==
    /\ q \in Places /\ q \notin DOMAIN call /\ target \in Targets
    /\ call' = Opened(q, target)
    /\ \/ Len(q) = 1
       \/ \E p \in DOMAIN call :
             /\ ChildOf(q, p) /\ call[p].state = "running" /\ Accounted(call[p], q, "queued")
             /\ \A n \in 1 .. Len(q) - 1 : n \in 1 .. Len(p) /\ Up(q, n) = Up(p, n)

LEMMA OthersStay ==
    ASSUME NEW q, NEW target, Opens(q, target)
    PROVE  /\ DOMAIN call' = DOMAIN call \cup {q} /\ call'[q] = Call(target)
           /\ \A p \in DOMAIN call : p # q /\ call'[p] = call[p]
  BY DEF Opens, Opened

LEMMA NewCall ==
    ASSUME NEW target \in Targets
    PROVE  /\ Call(target) \in CallType /\ Unstarted(Call(target)) /\ Finished(Call(target))
           /\ Call(target).state = "queued" /\ Call(target).err = FALSE
  BY EmptySeq DEF Call, CallType, States, Unstarted, Finished, Answered

LEMMA OpenKeeps ==
    ASSUME TreeInv, NEW q, NEW target, Opens(q, target) PROVE TreeInv'
<1>0. /\ CallsOk /\ Rooted /\ Children /\ Errors /\ Succeeded /\ NothingLeftBehind
      /\ q \in Places /\ q \notin DOMAIN call /\ target \in Targets /\ Len(q) \in Nat \ {0}
  BY PlaceLength DEF TreeInv, Opens
<1>1. /\ DOMAIN call' = DOMAIN call \cup {q} /\ call'[q] = Call(target)
      /\ \A p \in DOMAIN call : p # q /\ call'[p] = call[p]
      /\ call'[q] \in CallType /\ Unstarted(call'[q]) /\ Finished(call'[q])
      /\ call'[q].state = "queued" /\ call'[q].err = FALSE
  <2>1. /\ DOMAIN call' = DOMAIN call \cup {q} /\ call'[q] = Call(target)
        /\ \A p \in DOMAIN call : p # q /\ call'[p] = call[p]
    BY OthersStay
  <2> QED BY <1>0, <2>1, NewCall
<1>11. Len(q) \in Nat /\ q \in Places
  BY <1>0
<1>2. CallsOk'
  BY <1>0, <1>1 DEF CallsOk
<1>3. Rooted'
  <2> SUFFICES ASSUME NEW n \in 1 .. Len(q) PROVE Up(q, n) \in DOMAIN call \cup {q}
    BY <1>0, <1>1 DEF Rooted
  <2>1. CASE n = Len(q)
    <3>1. /\ n \in 1 .. Len(q) /\ Up(q, n) \in Places /\ Len(Up(q, n)) = n
          /\ \A i \in 1 .. n : Up(q, n)[i] = q[i]
      BY <1>0, UpIs
    <3>2. Up(q, n) = q
      BY <1>0, <2>1, <3>1, SamePlace
    <3> QED BY <3>2
  <2>2. CASE n # Len(q)
    <3>1. n \in 1 .. Len(q) - 1 /\ Len(q) # 1
      BY <1>11, <2>2
    <3>2. PICK p \in DOMAIN call : n \in 1 .. Len(p) /\ Up(q, n) = Up(p, n)
      BY <3>1 DEF Opens
    <3> QED BY <1>0, <3>2 DEF Rooted
  <2> QED BY <2>1, <2>2
\* Nothing is below the new call, and above it are its caller and those above him.
<1>4. ASSUME NEW x \in DOMAIN call PROVE ~Below(x, q)
  <2> SUFFICES ASSUME Below(x, q) PROVE FALSE
    OBVIOUS
  <2>1. x \in Places /\ Len(x) \in Nat /\ Len(q) < Len(x) /\ \A i \in 1 .. Len(q) : x[i] = q[i]
    BY <1>0, BelowIs, PlaceLength DEF CallsOk
  <2>2. Len(q) \in 1 .. Len(x)
    BY <1>0, <2>1
  <2>3. Up(x, Len(q)) = q
    BY <1>0, <2>1, <2>2, UpIs, SamePlace
  <2> QED BY <1>0, <2>2, <2>3 DEF Rooted
<1>5. ~Below(q, q)
  BY <1>0, BelowRoot
<1>6. ASSUME NEW x \in DOMAIN call, Below(q, x)
      PROVE  \E p \in DOMAIN call : /\ ChildOf(q, p) /\ call[p].state = "running"
                                    /\ Accounted(call[p], q, "queued")
                                    /\ x = p \/ Below(p, x)
  <2>0. x \in Places
    BY <1>0, <1>6 DEF CallsOk
  <2>1. Len(q) # 1
    <3>1. Len(q) > 1
      BY <1>6, <1>11, <2>0, BelowRoot, Zenon
    <3> QED BY <1>11, <3>1
  <2>2. PICK p \in DOMAIN call :
           ChildOf(q, p) /\ call[p].state = "running" /\ Accounted(call[p], q, "queued")
    BY <2>1, Zenon DEF Opens
  <2>3. x = p \/ Below(p, x)
    BY <1>0, <1>6, <2>0, <2>2, AboveChild DEF CallsOk
  <2> QED BY <2>2, <2>3
<1>7. Children'
  <2> SUFFICES ASSUME NEW x \in DOMAIN call \cup {q}, NEW y \in DOMAIN call \cup {q}, ChildOf(y, x)
               PROVE  /\ call'[x].state # "queued"
                      /\ call'[x].state # "broken" => Accounted(call'[x], y, call'[y].state)
    BY <1>1 DEF Children
  <2>1. x \in DOMAIN call
    BY <1>4, <1>5 DEF ChildOf
  <2>2. CASE y # q
    BY <1>0, <1>1, <2>1, <2>2 DEF Children
  <2>3. CASE y = q
    <3>1. PICK p \in DOMAIN call : /\ ChildOf(q, p) /\ call[p].state = "running"
                                   /\ Accounted(call[p], q, "queued") /\ (x = p \/ Below(p, x))
      BY <1>6, <2>1, <2>3 DEF ChildOf
    <3>2. ~Below(p, x)
      <4>1. x \in Places /\ p \in Places /\ Len(x) \in Nat /\ Len(p) \in Nat
        BY <1>0, <2>1, PlaceLength DEF CallsOk
      <4>2. Len(q) = Len(p) + 1 /\ Len(q) = Len(x) + 1
        BY <2>3, <3>1 DEF ChildOf
      <4> QED BY <4>1, <4>2, BelowIs
    <3> QED BY <1>1, <2>3, <3>1, <3>2
  <2> QED BY <2>2, <2>3
<1>8. Errors'
  <2> SUFFICES ASSUME NEW x \in DOMAIN call
               PROVE  /\ Unstarted(call'[x]) /\ Finished(call'[x])
                      /\ call'[x].err => Reason(x, call[x])'
    BY <1>1 DEF Errors
  <2>1. call'[x] = call[x] /\ Unstarted(call[x]) /\ Finished(call[x])
        /\ (call[x].err => Reason(x, call[x]))
    BY <1>0, <1>1 DEF Errors
  <2>2. Reason(x, call[x]) => Reason(x, call[x])'
    <3>1. ASSUME NEW y \in DOMAIN call, ChildOf(y, x), call[y].state \in Ended \ {"200"}
          PROVE  \E z \in DOMAIN call' : ChildOf(z, x) /\ call'[z].state \in Ended \ {"200"}
      BY <1>1, <3>1
    <3> QED BY <2>1, <3>1 DEF Reason
  <2> QED BY <2>1, <2>2
<1>9. Succeeded'
  <2> SUFFICES ASSUME NEW x \in DOMAIN call \cup {q}, NEW y \in DOMAIN call \cup {q},
                      call'[x].state = "200", Below(y, x)
               PROVE  call'[y].state = "200"
    BY <1>1 DEF Succeeded
  <2>1. x \in DOMAIN call /\ call[x].state = "200"
    BY <1>1
  <2>2. y # q
    BY <1>0, <1>6, <2>1 DEF Succeeded
  <2> QED BY <1>0, <1>1, <2>1, <2>2 DEF Succeeded
<1>10. NothingLeftBehind'
  <2> SUFFICES ASSUME NEW x \in DOMAIN call \cup {q}, NEW y \in DOMAIN call \cup {q},
                      call'[x].state \in Answered, Below(y, x), call'[y].state \notin Ended
               PROVE  \E r \in DOMAIN call : call[r].state = "broken" /\ Below(r, x) /\ Below(y, r)
    BY <1>1 DEF NothingLeftBehind
  <2>1. x \in DOMAIN call /\ call[x].state \in Answered
    BY <1>1 DEF Answered
  <2>2. CASE y # q
    BY <1>0, <1>1, <2>1, <2>2 DEF NothingLeftBehind
  <2>3. CASE y = q
    <3>1. PICK p \in DOMAIN call : ChildOf(q, p) /\ call[p].state = "running" /\ (x = p \/ Below(p, x))
      BY <1>6, <2>1, <2>3
    <3>2. Below(p, x) /\ call[p].state \notin Ended
      BY <2>1, <3>1 DEF Answered, Ended
    <3>3. PICK r \in DOMAIN call : call[r].state = "broken" /\ Below(r, x) /\ Below(p, r)
      BY <1>0, <2>1, <3>2 DEF NothingLeftBehind
    <3>4. Below(q, r)
      BY <1>0, <3>1, <3>3, BelowTwice DEF CallsOk, ChildOf
    <3> QED BY <2>3, <3>3, <3>4
  <2> QED BY <2>2, <2>3
<1> QED BY <1>2, <1>3, <1>7, <1>8, <1>9, <1>10 DEF TreeInv

(***************************************************************************)
(* Each action changes a call or makes one.                                *)
(***************************************************************************)

LEMMA CallFields ==
    ASSUME NEW c \in CallType
    PROVE  /\ c.target \in Targets /\ c.state \in States /\ c.err \in BOOLEAN
           /\ c.todo \in Seq(Seq(Targets))
           /\ DOMAIN c.todo \subseteq Nat
           /\ \A g \in DOMAIN c.todo : c.todo[g] \in Seq(Targets)
<1>1. /\ c.target \in Targets /\ c.state \in States /\ c.err \in BOOLEAN
      /\ c.todo \in Seq(Seq(Targets))
  BY DEF CallType
<1>2. DOMAIN c.todo = 1 .. Len(c.todo) /\ Len(c.todo) \in Nat
  BY <1>1, LenProperties
<1> QED BY <1>1, <1>2, ElementOfSeq

LEMMA AcceptChanges ==
    ASSUME TreeInv, NEW p \in DOMAIN call, Accept(p) PROVE \E c : Changes(p, c)
<1>0. CallsOk /\ Children /\ Errors /\ call[p] \in CallType /\ call[p].state = "queued"
  BY DEF TreeInv, CallsOk, Accept, Queued
<1>1. PICK t \in Todos(Groups[call[p].target]) :
         call' = [call EXCEPT ![p].state = "running", ![p].todo = t]
  BY DEF Accept
<1> DEFINE c == [call[p] EXCEPT !.state = "running", !.todo = t]
<1>2. t \in Seq(Seq(Targets))
  BY <1>0, CallFields, TodosType
<1>3. c \in CallType /\ c.target = call[p].target /\ c.state = "running" /\ c.err = call[p].err
  BY <1>0, <1>2 DEF CallType, States
<1>4. call' = [call EXCEPT ![p] = c]
  BY <1>0, <1>1 DEF CallType
<1> HIDE DEF c
<1>5. ~c.err
  BY <1>0, <1>3 DEF Errors, Unstarted
<1>6. Unstarted(c) /\ Finished(c)
  BY <1>3 DEF Unstarted, Finished, Answered
<1>7. \A q \in DOMAIN call : ~ChildOf(q, p)
  BY <1>0 DEF Children
<1> QED BY <1>0, <1>3, <1>4, <1>5, <1>6, <1>7 DEF Changes, Ended, Answered

LEMMA RaiseChanges ==
    ASSUME TreeInv, NEW p \in DOMAIN call, Raise(p) PROVE \E c : Changes(p, c)
<1>0. /\ CallsOk /\ Children /\ Errors /\ call[p] \in CallType /\ call[p].state = "queued"
      /\ call[p].target \in Faulty
      /\ call' = [call EXCEPT ![p].state = "500", ![p].err = TRUE]
  BY DEF TreeInv, CallsOk, Raise, Queued
<1> DEFINE c == [call[p] EXCEPT !.state = "500", !.err = TRUE]
<1>1. /\ c \in CallType /\ c.target = call[p].target /\ c.state = "500" /\ c.err
      /\ c.todo = call[p].todo
  BY <1>0 DEF CallType, States, Ended, Answered
<1>2. call' = [call EXCEPT ![p] = c]
  BY <1>0 DEF CallType
<1> HIDE DEF c
<1>3. c.todo = <<>>
  BY <1>0, <1>1 DEF Errors, Unstarted
<1>4. Unstarted(c) /\ Finished(c)
  BY <1>1, <1>3 DEF Unstarted, Finished
<1>5. \A q \in DOMAIN call : ~ChildOf(q, p)
  BY <1>0 DEF Children
<1>6. Reason(p, c)
  BY <1>0, <1>1 DEF Reason
<1> QED BY <1>0, <1>1, <1>2, <1>4, <1>5, <1>6 DEF Changes, Ended, Answered

LEMMA AnswerChanges ==
    ASSUME TreeInv, NEW p \in DOMAIN call, Answer(p) PROVE \E c : Changes(p, c)
<1>0. /\ CallsOk /\ Children /\ Errors /\ call[p] \in CallType /\ call[p].state = "running"
      /\ \A g \in DOMAIN call[p].todo : call[p].todo[g] = <<>>
      /\ call' = [call EXCEPT ![p].state = IF call[p].err THEN "500" ELSE "200"]
  BY DEF TreeInv, CallsOk, Answer
<1> DEFINE s == IF call[p].err THEN "500" ELSE "200"
           c == [call[p] EXCEPT !.state = s]
<1>1. /\ c \in CallType /\ c.target = call[p].target /\ c.state = s /\ c.err = call[p].err
      /\ c.todo = call[p].todo
  BY <1>0 DEF CallType, States, Ended, Answered
<1>2. call' = [call EXCEPT ![p] = c]
  BY <1>0 DEF CallType
<1> HIDE DEF c
<1>3. Unstarted(c) /\ Finished(c)
  BY <1>0, <1>1, CallFields DEF Unstarted, Finished
<1>4. c.err => Reason(p, c)
  BY <1>0, <1>1 DEF Errors, Reason
<1>5. \A q \in DOMAIN call : ChildOf(q, p) => Accounted(c, q, call[q].state)
  BY <1>0, <1>1 DEF Children, Accounted
<1> QED BY <1>0, <1>1, <1>2, <1>3, <1>4, <1>5 DEF Changes, Ended, Answered

\* A group goes on to its next service.
LEMMA AdvanceChanges ==
    ASSUME TreeInv, NEW p \in DOMAIN call, call[p].state = "running",
           NEW g \in DOMAIN call[p].todo, call[p].todo[g] # <<>>, NEW e \in BOOLEAN,
           call' = [call EXCEPT ![p].todo[g] = Tail(@), ![p].err = e],
           call[p].err => e, e => Reason(p, call[p]),
           Child(p, g) \in DOMAIN call =>
              call[Child(p, g)].state \in Ended /\ (call[Child(p, g)].state # "200" => e)
    PROVE  \E c : Changes(p, c)
<1>0. CallsOk /\ Children /\ Errors /\ call[p] \in CallType /\ p \in Places
  BY DEF TreeInv, CallsOk
<1> DEFINE old == call[p].todo
           new == [old EXCEPT ![g] = Tail(old[g])]
           c == [call[p] EXCEPT !.todo = new, !.err = e]
<1>1. old \in Seq(Seq(Targets)) /\ g \in Nat /\ old[g] \in Seq(Targets)
  BY <1>0, CallFields
<1>2. Tail(old[g]) \in Seq(Targets) /\ Len(Tail(old[g])) = Len(old[g]) - 1 /\ Len(old[g]) \in Nat \ {0}
  BY <1>1, HeadTailProperties, EmptySeq
<1>3. /\ new \in Seq(Seq(Targets)) /\ DOMAIN new = DOMAIN old /\ new[g] = Tail(old[g])
      /\ \A h \in DOMAIN old \ {g} : new[h] = old[h]
  <2>1. g \in 1 .. Len(old)
    BY <1>1, LenProperties
  <2> QED BY <1>1, <1>2, <2>1, ExceptSeq
<1>4. call' = [call EXCEPT ![p] = c]
  BY <1>0 DEF CallType
<1> HIDE DEF new
<1>5. c \in CallType /\ c.target = call[p].target /\ c.state = "running" /\ c.err = e /\ c.todo = new
  BY <1>0, <1>3 DEF CallType
<1> HIDE DEF c
<1>6. Unstarted(c) /\ Finished(c)
  BY <1>5 DEF Unstarted, Finished, Answered
<1>7. c.err => Reason(p, c)
  BY <1>5 DEF Reason
<1>8. ASSUME NEW q \in DOMAIN call, ChildOf(q, p) PROVE Accounted(c, q, call[q].state)
  <2>1. Accounted(call[p], q, call[q].state)
    BY <1>0, <1>8 DEF Children
  <2>2. q \in Places /\ LeftAt(q) \in Nat /\ q = Append(p, <<GroupOf(q), LeftAt(q)>>)
    BY <1>0, <1>8, ChildIs DEF CallsOk
  <2>3. CASE GroupOf(q) # g
    BY <1>3, <1>5, <2>1, <2>3 DEF Accounted
  <2>4. CASE GroupOf(q) = g
    <3>1. LeftAt(q) = Len(old[g]) => q = Child(p, g)
      BY <2>2, <2>4 DEF Child
    <3>2. Len(c.todo[GroupOf(q)]) = Len(old[g]) - 1 /\ GroupOf(q) \in DOMAIN c.todo
      BY <1>2, <1>3, <1>5, <2>4
    <3>3. LeftAt(q) >= 1 /\ LeftAt(q) >= Len(old[g])
      BY <2>1, <2>4 DEF Accounted
    <3>4. call[q].state \in Ended /\ (call[q].state # "200" => e)
      <4>1. CASE LeftAt(q) = Len(old[g])
        BY <3>1, <4>1
      <4>2. CASE LeftAt(q) # Len(old[g])
        <5>1. LeftAt(q) > Len(old[g])
          BY <1>2, <2>2, <3>3, <4>2
        <5> QED BY <2>1, <2>4, <5>1 DEF Accounted
      <4> QED BY <4>1, <4>2
    <3>5. LeftAt(q) >= Len(c.todo[GroupOf(q)])
      BY <1>2, <2>2, <3>2, <3>3
    <3> QED BY <1>5, <3>2, <3>3, <3>4, <3>5 DEF Accounted
  <2> QED BY <2>3, <2>4
<1> QED BY <1>4, <1>5, <1>6, <1>7, <1>8 DEF Changes, Ended, Answered

LEMMA CallGrpcChanges ==
    ASSUME TreeInv, NEW p \in DOMAIN call, NEW g \in DOMAIN call[p].todo, CallGrpc(p, g)
    PROVE  \E c : Changes(p, c)
<1>1. /\ call[p].state = "running" /\ call[p].todo[g] # <<>> /\ Child(p, g) \notin DOMAIN call
      /\ call' = [call EXCEPT ![p].todo[g] = Tail(@), ![p].err = TRUE]
  BY DEF CallGrpc, Turn
<1>2. Reason(p, call[p])
  BY DEF CallGrpc, Reason
<1> QED BY <1>1, <1>2, AdvanceChanges

LEMMA ReturnChanges ==
    ASSUME TreeInv, NEW p \in DOMAIN call, NEW g \in DOMAIN call[p].todo, Return(p, g)
    PROVE  \E c : Changes(p, c)
<1> DEFINE q == Child(p, g)
           e == call[p].err \/ call[q].state # "200"
<1>0. CallsOk /\ Errors /\ call[p] \in CallType /\ p \in Places
  BY DEF TreeInv, CallsOk
<1>1. /\ call[p].state = "running" /\ call[p].todo[g] # <<>>
      /\ q \in DOMAIN call /\ call[q].state \in Ended
      /\ call' = [call EXCEPT ![p].todo[g] = Tail(@), ![p].err = @ \/ call[q].state # "200"]
  BY DEF Return
<1>2. g \in Nat /\ Len(call[p].todo[g]) \in Nat /\ e \in BOOLEAN
  BY <1>0, CallFields, LenProperties
<1>3. ChildOf(q, p)
  BY <1>0, <1>2, AddressIs DEF Child
<1>4. e => Reason(p, call[p])
  BY <1>0, <1>1, <1>3 DEF Errors, Reason
<1>5. call' = [call EXCEPT ![p].todo[g] = Tail(@), ![p].err = e]
  BY <1>1
<1> HIDE DEF q
<1>6. q = Child(p, g)
  BY DEF q
<1> QED BY <1>1, <1>2, <1>4, <1>5, <1>6, AdvanceChanges

LEMMA CallRestOpens ==
    ASSUME TreeInv, NEW p \in DOMAIN call, NEW g \in DOMAIN call[p].todo, CallRest(p, g)
    PROVE  Opens(Child(p, g), Head(call[p].todo[g]))
<1> DEFINE k == Len(call[p].todo[g])
           q == Append(p, <<g, k>>)
<1>0. call[p] \in CallType /\ p \in Places
  BY DEF TreeInv, CallsOk
<1>1. /\ call[p].state = "running" /\ call[p].todo[g] # <<>> /\ q \notin DOMAIN call
      /\ call' = Opened(q, Head(call[p].todo[g]))
  BY DEF CallRest, Turn, Child
<1>2. g \in Nat /\ k \in Nat \ {0} /\ Head(call[p].todo[g]) \in Targets
  BY <1>0, <1>1, CallFields, EmptySeq, HeadTailProperties
<1>3. /\ q \in Places /\ ChildOf(q, p) /\ GroupOf(q) = g /\ LeftAt(q) = k
      /\ \A n \in 1 .. Len(q) - 1 : n \in 1 .. Len(p) /\ Up(q, n) = Up(p, n)
  BY <1>0, <1>2, AddressIs
<1> HIDE DEF q
<1>4. Accounted(call[p], q, "queued")
  BY <1>2, <1>3 DEF Accounted
<1>5. Opens(q, Head(call[p].todo[g]))
  BY <1>1, <1>2, <1>3, <1>4 DEF Opens
<1> QED BY <1>5 DEF q, Child

LEMMA BreakChanges ==
    ASSUME TreeInv, NEW p \in DOMAIN call, Break(p) PROVE \E c : Changes(p, c)
<1> DEFINE target == call[p].target
           c == [Call(target) EXCEPT !.state = "broken"]
<1>0. call[p] \in CallType /\ call[p].state \notin Ended
  BY DEF TreeInv, CallsOk, Break
<1>1. call' = [call EXCEPT ![p] = c]
  BY DEF Break
<1>2. target \in Targets
  BY <1>0, CallFields
<1>3. c \in CallType /\ c.target = target /\ c.state = "broken" /\ ~c.err /\ c.todo = <<>>
  BY <1>2, EmptySeq DEF Call, CallType, States, Ended
<1> HIDE DEF c
<1>4. Unstarted(c) /\ Finished(c)
  BY <1>3 DEF Unstarted, Finished, Answered
<1> QED BY <1>0, <1>1, <1>3, <1>4 DEF Changes

(***************************************************************************)
(* What the cells do, for whoever calls them.                              *)
(***************************************************************************)

LEMMA CellIs ==
    ASSUME TreeInv, CellStep \/ CellBreak
    PROVE  \/ \E p, c : Changes(p, c)
           \/ \E p \in DOMAIN call, g \in Nat : \E target :
                    Opens(Append(p, <<g, Len(call[p].todo[g])>>), target)
<1>1. CASE CellBreak
  BY <1>1, BreakChanges DEF CellBreak
<1>2. CASE CellStep
  <2>1. PICK p \in DOMAIN call : Handle(p)
    BY <1>2 DEF CellStep
  <2>2. CASE Accept(p) \/ Raise(p) \/ Answer(p)
    BY <2>2, AcceptChanges, RaiseChanges, AnswerChanges
  <2>3. CASE \E g \in DOMAIN call[p].todo : CallRest(p, g) \/ CallGrpc(p, g) \/ Return(p, g)
    <3>1. PICK g \in DOMAIN call[p].todo : CallRest(p, g) \/ CallGrpc(p, g) \/ Return(p, g)
      BY <2>3
    <3>2. g \in Nat
      BY CallFields DEF TreeInv, CallsOk
    <3> QED BY <3>1, <3>2, CallRestOpens, CallGrpcChanges, ReturnChanges DEF Child
  <2> QED BY <2>1, <2>2, <2>3 DEF Handle
<1> QED BY <1>1, <1>2

LEMMA CellKeeps ==
    ASSUME TreeInv, CellStep \/ CellBreak PROVE TreeInv'
  BY CellIs, ChangeKeeps, OpenKeeps

\* What has ended does not change, calls do not disappear, and none comes from nowhere.
LEMMA CellGrows ==
    ASSUME TreeInv, CellStep \/ CellBreak
    PROVE  /\ DOMAIN call \subseteq DOMAIN call'
           /\ \A p \in DOMAIN call : call[p].state \in Ended => call'[p] = call[p]
           /\ \A q \in DOMAIN call' : \E p \in DOMAIN call : p[1] = q[1]
<1>1. CallsOk
  BY DEF TreeInv
<1>2. CASE \E p, c : Changes(p, c)
  <2>1. PICK p, c : Changes(p, c)
    BY <1>2
  <2>2. /\ DOMAIN call' = DOMAIN call
        /\ \A q \in DOMAIN call : call[q].state \in Ended => call'[q] = call[q]
    BY <1>1, <2>1, OthersSame
  <2>3. \A q \in DOMAIN call' : \E r \in DOMAIN call : r[1] = q[1]
    BY <2>2, Zenon
  <2> QED BY <2>2, <2>3
<1>3. CASE \E p \in DOMAIN call, g \in Nat : \E target :
                Opens(Append(p, <<g, Len(call[p].todo[g])>>), target)
  <2>0. PICK p \in DOMAIN call, g \in Nat :
                \E target : Opens(Append(p, <<g, Len(call[p].todo[g])>>), target)
    BY <1>3
  <2>1. PICK target : Opens(Append(p, <<g, Len(call[p].todo[g])>>), target)
    BY <2>0
  <2> DEFINE q == Append(p, <<g, Len(call[p].todo[g])>>)
  <2>2. Opens(q, target) /\ p \in Places /\ q \in Places
    BY <1>1, <2>1 DEF CallsOk, Opens
  <2>3. q[1] = p[1]
    BY <2>2 DEF Places
  <2> HIDE DEF q
  <2>4. DOMAIN call' = DOMAIN call \cup {q} /\ \A r \in DOMAIN call : call'[r] = call[r]
    BY <2>2, OthersStay
  <2>5. \A r \in DOMAIN call' : \E s \in DOMAIN call : s[1] = r[1]
    BY <2>3, <2>4, Zenon
  <2> QED BY <2>4, <2>5
<1> QED BY <1>2, <1>3, CellIs


(***************************************************************************)
(* What a client does: it makes a call, and forgets all calls of a request.*)
(***************************************************************************)

LEMMA RequestKeeps ==
    ASSUME TreeInv, NEW e \in Segments, NEW target \in Targets, <<e>> \notin DOMAIN call,
           call' = Opened(<<e>>, target)
    PROVE  TreeInv' /\ DOMAIN call' = DOMAIN call \cup {<<e>>}
           /\ \A p \in DOMAIN call : call'[p] = call[p]
<1>1. <<e>> \in Places /\ Len(<<e>>) = 1
  BY DEF Places
<1>2. Opens(<<e>>, target)
  BY <1>1 DEF Opens
<1> QED BY <1>2, OpenKeeps, OthersStay

LEMMA ForgetKeeps ==
    ASSUME TreeInv, NEW S \in SUBSET DOMAIN call, call' = Restrict(call, S),
           \A p, q \in DOMAIN call : p[1] = q[1] /\ p \in S => q \in S
    PROVE  TreeInv'
<1>0. CallsOk /\ Rooted /\ Children /\ Errors /\ Succeeded /\ NothingLeftBehind
  BY DEF TreeInv
<1>1. DOMAIN call' = S /\ \A p \in S : call'[p] = call[p]
  BY DEF Restrict
<1>2. ASSUME NEW p \in S, NEW q \in DOMAIN call, Below(q, p) \/ Below(p, q) PROVE q \in S
  <2>1. p[1] = q[1]
    BY <1>0, <1>2, BelowRoot DEF CallsOk
  <2> QED BY <2>1
<1>3. CallsOk'
  BY <1>0, <1>1 DEF CallsOk
<1>4. Rooted'
  <2> SUFFICES ASSUME NEW p \in S, NEW n \in 1 .. Len(p) PROVE Up(p, n) \in S
    BY <1>1 DEF Rooted
  <2>1. p \in Places /\ Up(p, n) \in DOMAIN call /\ n >= 1
    BY <1>0 DEF CallsOk, Rooted
  <2>2. Up(p, n)[1] = p[1]
    BY <2>1, UpIs
  <2> QED BY <2>1, <2>2
<1>5. Children' /\ Succeeded'
  BY <1>0, <1>1 DEF Children, Succeeded
<1>6. Errors'
  <2> SUFFICES ASSUME NEW p \in S, call[p].err PROVE Reason(p, call[p])'
    BY <1>0, <1>1 DEF Errors
  <2>1. Reason(p, call[p])
    BY <1>0 DEF Errors
  <2>2. ASSUME NEW q \in DOMAIN call, ChildOf(q, p), call[q].state \in Ended \ {"200"}
        PROVE  \E r \in DOMAIN call' : ChildOf(r, p) /\ call'[r].state \in Ended \ {"200"}
    BY <1>1, <1>2, <2>2 DEF ChildOf
  <2> QED BY <1>1, <2>1, <2>2 DEF Reason
<1>7. NothingLeftBehind'
  <2> SUFFICES ASSUME NEW p \in S, NEW q \in S,
                      call[p].state \in Answered, Below(q, p), call[q].state \notin Ended
               PROVE  \E r \in S : call[r].state = "broken" /\ Below(r, p) /\ Below(q, r)
    BY <1>1 DEF NothingLeftBehind
  <2>1. PICK r \in DOMAIN call : call[r].state = "broken" /\ Below(r, p) /\ Below(q, r)
    BY <1>0 DEF NothingLeftBehind
  <2> QED BY <1>2, <2>1
<1> QED BY <1>3, <1>4, <1>5, <1>6, <1>7 DEF TreeInv

LEMMA NothingCalled == ASSUME call = <<>> PROVE TreeInv
  BY DEF TreeInv, CallsOk, Rooted, Children, Errors, Succeeded, NothingLeftBehind

LEMMA NoCallMoves == ASSUME TreeInv, call' = call PROVE TreeInv'
  BY DEF TreeInv, CallsOk, Rooted, Children, Errors, Succeeded, NothingLeftBehind, Reason

\* A failure anywhere below a request reaches its answer, and nothing else makes an error.
LEMMA FailuresSeen == ASSUME TreeInv PROVE FailuresReach
<1> SUFFICES ASSUME NEW p \in DOMAIN call, call[p].state = "500",
                    call[p].target \notin Faulty, call[p].target[1] \notin Grpc
             PROVE  \E q \in DOMAIN call : ChildOf(q, p) /\ call[q].state # "200"
  BY DEF TreeInv, Succeeded, FailuresReach
<1>1. call[p].err
  BY DEF TreeInv, Errors, Finished, Answered
<1>2. Reason(p, call[p])
  BY <1>1 DEF TreeInv, Errors
<1> QED BY <1>2 DEF Reason
=============================================================================
