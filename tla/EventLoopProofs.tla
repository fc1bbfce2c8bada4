-------------------------- MODULE EventLoopProofs --------------------------
(***************************************************************************)
(* Proofs about EventLoop and the engine it runs, for any requests, any    *)
(* graphs of any size and depth, and any number of threads.                *)
(***************************************************************************)
EXTENDS EventLoop, TLAPS, FiniteSetTheorems, SequenceTheorems

(***************************************************************************)
(* The inductive invariant of the engine, of a context c and of the        *)
(* results h it has been told.                                             *)
(***************************************************************************)

Containers(g) == DOMAIN g \ Leaves(g)
Sending(g)    == {p \in DOMAIN g : g[p] \in {"nothing", "call", "calls"}}
Up(q, n)      == SubSeq(q, 1, n)

ContextsOf(g) ==
    [graph : {g}, state : [DOMAIN g -> NodeStates], current : [DOMAIN g -> Nat],
     waiting : SUBSET ((DOMAIN g) \X (Nat \ {0})),
     results : Seq([step : DOMAIN g, outcome : Outcomes]),
     wsgi : Outcomes, done : BOOLEAN,
     calls : Seq({"execute", "propagate"} \X (DOMAIN g)),
     sends : SUBSET ((DOMAIN g) \X (Nat \ {0})), runs : Seq(DOMAIN g)]

Exec(c, p) == <<"execute", p>> \in ToSet(c.calls)
Prop(c, p) == c.calls # <<>> /\ Head(c.calls) = <<"propagate", p>>
UnderRunning(c, p) == p = <<>> \/ c.state[Front(p)] = "running"

\* What has still to be called: steps to execute, of running containers, and perhaps
\* first the end of a step to be told.
Shape(c) ==
    /\ IsInjective(c.calls)
    /\ c.calls # <<>> => \A e \in ToSet(Tail(c.calls)) :
            e[1] = "execute" /\ e[2] # <<>> /\ c.graph[Front(e[2])] = "pipe"
MarksInv(c) ==
    \A p \in DOMAIN c.graph :
        /\ Exec(c, p) => c.state[p] = "pending" /\ UnderRunning(c, p)
        /\ Prop(c, p) => Ended(c, p) /\ UnderRunning(c, p)

RootInv(c) ==
    /\ c.done => c.calls = <<>>
    /\ c.graph = NoGraph => c.done /\ c.calls = <<>>
    /\ c.graph # NoGraph =>
        /\ c.state[<<>>] = "pending" => Exec(c, <<>>)
        /\ Ended(c, <<>>) => c.done \/ Prop(c, <<>>)
        /\ c.done => Ended(c, <<>>)

\* An order that has started is at its step x.
OrderAt(c, p, x) ==
    /\ Last(x) = c.current[p]
    /\ \A q \in Steps(c.graph, p) :
        /\ Last(q) < Last(x) => c.state[q] = "done"
        /\ Last(q) > Last(x) => c.state[q] = "pending" /\ ~Exec(c, q)
    /\ c.state[p] = "running" => Exec(c, x) \/ c.state[x] = "running" \/ Prop(c, x)
    /\ c.state[p] = "done" =>
        c.state[x] = "done" /\ \A q \in Steps(c.graph, p) : Last(q) <= Last(x)
    /\ c.state[p] = "error" => c.state[x] = "error"

PipeInv(c, p) ==
    /\ \A q \in Steps(c.graph, p) : c.state[q] = "pending" => Exec(c, q)
    /\ c.state[p] = "running" => \E q \in Steps(c.graph, p) : ~Ended(c, q) \/ Prop(c, q)
    /\ c.state[p] # "running" => PipeEnds(c, p) /\ c.state[p] = PipeState(c, p)

ContainerAt(c, p) ==
    /\ c.state[p] = "pending" => \A q \in Steps(c.graph, p) : c.state[q] = "pending"
    /\ c.state[p] # "pending" =>
        IF Steps(c.graph, p) = {} THEN c.state[p] = "done"
        ELSE IF c.graph[p] = "order" THEN \E x \in Steps(c.graph, p) : OrderAt(c, p, x)
        ELSE PipeInv(c, p)
ContainerInv(c) == \A p \in Containers(c.graph) : ContainerAt(c, p)

\* What is above a running node is running.
UpInv(c) ==
    \A p \in DOMAIN c.graph : c.state[p] = "running" =>
        \A n \in 0 .. Len(p) : Up(p, n) \in DOMAIN c.graph /\ c.state[Up(p, n)] = "running"

\* The results of a leaf.
LeafInv(c, h) ==
    \A p \in Leaves(c.graph) :
        /\ c.state[p] = "pending" => \A k \in Nat : ~Heard(h, p, k, Outcomes)
        /\ c.state[p] # "pending" => c.state[p] = LeafMeaning(c.graph, h, p)

\* The results of a call have come in one after the other.
HeardInv(c, h) ==
    /\ h \subseteq Leaves(c.graph) \X Nat \X Outcomes
    /\ \A p \in DOMAIN c.graph, k \in Nat, o \in Outcomes : <<p, k, o>> \in h =>
        /\ IF c.graph[p] = "internal" THEN k = 0
           ELSE /\ c.graph[p] \in {"call", "calls"} /\ k \in 1 .. NumRequests(c.graph[p])
                /\ \A j \in 1 .. k - 1 : Heard(h, p, j, {"ok"})
        /\ \A o2 \in Outcomes : <<p, k, o2>> \in h => o2 = o

WaitingInv(c, h) ==
    /\ c.waiting = {d \in Due(c.graph, c.state, h) : d[2] > 0}
    /\ c.sends \subseteq c.waiting
    /\ IsInjective(c.runs)
    /\ \A p \in ToSet(c.runs) :
        p \in Leaves(c.graph) /\ c.graph[p] = "internal" /\ c.state[p] = "running"

ResultsInv(c) ==
    /\ \A i \in DOMAIN c.results :
        c.results[i].step \in Leaves(c.graph) /\ Ended(c, c.results[i].step)
    /\ \A p \in Leaves(c.graph) :
        Ended(c, p) => \E i \in DOMAIN c.results : c.results[i].step = p
    /\ \A i, j \in DOMAIN c.results : c.results[i].step = c.results[j].step => i = j

\* No pipe is above p: p and every running node are one above the other.
Serial(g, p) == \A n \in 0 .. Len(p) : Up(p, n) \in DOMAIN g => g[Up(p, n)] # "pipe"

Beneath(q, p) == Len(p) <= Len(q) /\ Up(q, Len(p)) = p
SpineInv(c) ==
    \A p, q \in DOMAIN c.graph :
        c.state[p] = "running" /\ c.state[q] = "running" /\ Serial(c.graph, p) =>
            Beneath(p, q) \/ Beneath(q, p)

TreeInv(c) == MarksInv(c) /\ RootInv(c) /\ ContainerInv(c) /\ UpInv(c) /\ SpineInv(c)

\* When a leaf that no pipe is above has failed, the rest is to tell those above.
FailInv(c) ==
    \A p \in Leaves(c.graph) : c.state[p] = "error" /\ Serial(c.graph, p) =>
        /\ c.results # <<>> /\ Last(c.results).outcome # "ok"
        /\ \A q \in Leaves(c.graph) : c.state[q] # "running"
        /\ \/ c.calls = <<>>
           \/ \E n \in 0 .. Len(p) :
                /\ c.calls = << <<"propagate", Up(p, n)>> >>
                /\ c.state[Up(p, n)] = "error"
        /\ c.done => c.wsgi = Last(c.results).outcome

LeavesInv(c, h) == HeardInv(c, h) /\ LeafInv(c, h) /\ WaitingInv(c, h) /\ ResultsInv(c)

ContextInv(c, h) ==
    /\ IsGraph(c.graph) /\ c \in ContextsOf(c.graph)
    /\ Shape(c) /\ TreeInv(c) /\ FailInv(c) /\ LeavesInv(c, h)

\* An order is at one of its steps.
CurrentInv(c) == \A p \in DOMAIN c.graph : c.current[p] \in 0 .. NumSteps(c.graph, p)

\* A context between two handlers.
Quiet(c) == c.calls = <<>> /\ c.sends = {} /\ c.runs = <<>>

\* The requests that have been sent and not been answered, and the functions that run.
Out(c)    == c.waiting \ c.sends
Handed(c) == {p \in DOMAIN c.graph : /\ c.graph[p] = "internal" /\ c.state[p] = "running"
                                    /\ p \notin ToSet(c.runs)}

(***************************************************************************)
(* The inductive invariant of the loop.                                    *)
(***************************************************************************)

\* What of S belongs to a request.
Of(S, r)  == {e \in S : Len(e) = 3 /\ e[1] = r}
Fut(S, r) == {f \in S : f[1] = r}

\* What is outstanding for a request whose context is c.
Asked(r, c)   == {<<r, w[1], w[2]>> : w \in Out(c)}
Running(r, c) == {<<r, p>> : p \in Handed(c)}

Messages == EgressIds \cup {<<r>> : r \in Requests}
Away     == InRing \cup transit \cup lost

\* While an engine is at work the loop polls or handles futures.
PhaseInv ==
    /\ pc \in {"poll", "collect", "futures", "finalize", "crashed"}
    /\ turn \in active \cup {None}
    /\ turn # None => pc \in {"poll", "futures"}

RxInv ==
    /\ rx \in Seq(Messages) /\ IsInjective(rx)
    /\ InRing \subseteq EgressIds \cup {<<r>> : r \in Requests \ Known}

WayInv ==
    /\ transit \subseteq EgressIds /\ lost \subseteq EgressIds
    /\ IsFiniteSet(lost) /\ Cardinality(lost) <= MaxLost
    /\ InRing \cap (transit \cup lost) = {} /\ transit \cap lost = {}

PoolInv ==
    /\ futures \in Seq(Functions) /\ IsInjective(futures)
    /\ returned \subseteq Functions \X Outcomes
    /\ batch \subseteq ToSet(futures)

KnownInv ==
    /\ Known \subseteq Requests /\ active \subseteq Known /\ egress \subseteq EgressIds
    /\ heard \in [Requests -> SUBSET (Paths \X Nat \X Outcomes)]

\* Every context is as its engine keeps it; no handler is at work for one, unless it is
\* its turn.
EnginesInv ==
    /\ \A r \in Known : /\ contexts[r].graph \in Handlers[r]
                        /\ ContextInv(contexts[r], heard[r]) /\ CurrentInv(contexts[r])
    /\ \A r \in Requests \ Known : heard[r] = {}
    /\ pc # "crashed" => \A r \in Known \ {turn} : Quiet(contexts[r])

\* The response is the status of the context, or dropped.
RepliesOf(c) == {<<c.wsgi>>, <<"dropped">>}

RepliesInv ==
    /\ replies \in [Requests -> Seq(Outcomes \cup {"dropped"})]
    /\ pc = "crashed" => active = {} /\ egress = {} /\ futures = <<>>
    /\ \A r \in Requests : replies[r] # <<>> =>
        r \in Known \ active /\ contexts[r].done /\ replies[r] \in RepliesOf(contexts[r])

\* The tables of the loop, the pool and the world outside agree with the contexts.
LinksInv ==
    /\ \A r \in active : /\ Of(egress, r) = Asked(r, contexts[r])
                         /\ Of(Away, r) = Asked(r, contexts[r])
                         /\ Fut(ToSet(futures), r) = Running(r, contexts[r])
    /\ \A e \in egress : e[1] \in active
    /\ \A f \in ToSet(futures) : f[1] \in active
    /\ \A r \in Requests : (r \notin Known \/ replies[r] # <<>>) => Of(Away, r) = {}

LoopInv ==
    /\ PhaseInv /\ RxInv /\ WayInv /\ PoolInv /\ KnownInv
    /\ EnginesInv /\ RepliesInv /\ LinksInv
(***************************************************************************)
(* Lemmas: sequences.                                                      *)
(***************************************************************************)

LEMMA ToSetIs ==
    ASSUME NEW S, NEW s \in Seq(S)
    PROVE  ToSet(s) = {s[i] : i \in 1 .. Len(s)} /\ ToSet(s) \subseteq S
<1>1. DOMAIN s = 1 .. Len(s)
  BY LenProperties
<1>2. \A i \in 1 .. Len(s) : s[i] \in S
  BY ElementOfSeq
<1> QED BY <1>1, <1>2 DEF ToSet

LEMMA EmptyIs ==
    ToSet(<<>>) = {} /\ IsInjective(<<>>) /\ \A S : <<>> \in Seq(S)
BY EmptySeq DEF ToSet, IsInjective

\* A stack: what is left of it, and what is on it when something is pushed.
LEMMA PopIs ==
    ASSUME NEW S, NEW s \in Seq(S), s # <<>>
    PROVE  /\ Head(s) \in S /\ Head(s) \in ToSet(s)
           /\ Tail(s) \in Seq(S) /\ ToSet(Tail(s)) \subseteq ToSet(s)
           /\ ToSet(s) = ToSet(Tail(s)) \cup {Head(s)}
           /\ IsInjective(s) => IsInjective(Tail(s)) /\ Head(s) \notin ToSet(Tail(s))
<1> DEFINE t == Tail(s)
<1>1. /\ Head(s) \in S /\ t \in Seq(S) /\ Len(t) = Len(s) - 1 /\ Len(s) \in Nat \ {0}
      /\ \A i \in 1 .. Len(t) : t[i] = s[i + 1]
  BY HeadTailProperties, EmptySeq
<1>2. Head(s) = s[1]
  BY <1>1
<1>3. DOMAIN s = 1 .. Len(s) /\ DOMAIN t = 1 .. Len(t)
  BY <1>1, LenProperties
<1> HIDE DEF t
<1>4. ToSet(s) = ToSet(t) \cup {Head(s)}
  <2>1. ASSUME NEW e \in ToSet(s) PROVE e \in ToSet(t) \cup {Head(s)}
    <3>1. PICK i \in 1 .. Len(s) : e = s[i]
      BY <1>3 DEF ToSet
    <3>2. CASE i = 1
      BY <1>2, <3>1, <3>2
    <3>3. CASE i # 1
      <4>1. i - 1 \in 1 .. Len(t) /\ t[i - 1] = s[i]
        BY <1>1, <3>3
      <4> QED BY <1>3, <3>1, <4>1 DEF ToSet
    <3> QED BY <3>2, <3>3
  <2>2. Head(s) \in ToSet(s)
    BY <1>1, <1>2, <1>3 DEF ToSet
  <2>3. ASSUME NEW e \in ToSet(t) PROVE e \in ToSet(s)
    <3>1. PICK i \in 1 .. Len(t) : e = t[i]
      BY <1>3 DEF ToSet
    <3>2. i + 1 \in 1 .. Len(s) /\ t[i] = s[i + 1]
      BY <1>1
    <3> QED BY <1>3, <3>1, <3>2 DEF ToSet
  <2> QED BY <2>1, <2>2, <2>3
<1>5. ASSUME IsInjective(s) PROVE IsInjective(t) /\ Head(s) \notin ToSet(t)
  <2>1. \A a, b \in 1 .. Len(s) : s[a] = s[b] => a = b
    BY <1>3, <1>5 DEF IsInjective
  <2>2. ASSUME NEW a \in 1 .. Len(t), NEW b \in 1 .. Len(t), t[a] = t[b] PROVE a = b
    <3>1. a + 1 \in 1 .. Len(s) /\ b + 1 \in 1 .. Len(s) /\ s[a + 1] = s[b + 1]
      BY <1>1, <2>2
    <3>2. a + 1 = b + 1
      BY <2>1, <3>1
    <3> QED BY <3>2
  <2>3. ASSUME NEW a \in 1 .. Len(t) PROVE t[a] # Head(s)
    <3>1. a + 1 \in 1 .. Len(s) /\ t[a] = s[a + 1] /\ 1 \in 1 .. Len(s) /\ a + 1 # 1
      BY <1>1
    <3> QED BY <1>2, <2>1, <3>1
  <2> QED BY <1>3, <2>2, <2>3 DEF IsInjective, ToSet
<1> QED BY <1>1, <1>4, <1>5 DEF t

LEMMA ConcatIs ==
    ASSUME NEW S, NEW s \in Seq(S), NEW t \in Seq(S)
    PROVE  /\ s \o t \in Seq(S) /\ ToSet(s \o t) = ToSet(s) \cup ToSet(t)
           /\ IsInjective(s) /\ IsInjective(t) /\ ToSet(s) \cap ToSet(t) = {}
                => IsInjective(s \o t)
<1> DEFINE u == s \o t
<1>1. /\ Len(s) \in Nat /\ Len(t) \in Nat /\ u \in Seq(S) /\ Len(u) = Len(s) + Len(t)
      /\ DOMAIN s = 1 .. Len(s) /\ DOMAIN t = 1 .. Len(t) /\ DOMAIN u = 1 .. Len(u)
  BY ConcatProperties, LenProperties
<1>2. /\ \A i \in 1 .. Len(s) : i \in 1 .. Len(u) /\ u[i] = s[i]
      /\ \A i \in 1 .. Len(t) : Len(s) + i \in 1 .. Len(u) /\ u[Len(s) + i] = t[i]
      /\ \A i \in 1 .. Len(u) : i \in 1 .. Len(s) \/ \E j \in 1 .. Len(t) : i = Len(s) + j
  <2>1. \A i \in 1 .. Len(s) + Len(t) : u[i] = IF i <= Len(s) THEN s[i] ELSE t[i - Len(s)]
    BY ConcatProperties
  <2>2. ASSUME NEW i \in 1 .. Len(t) PROVE Len(s) + i \in 1 .. Len(u) /\ u[Len(s) + i] = t[i]
    <3>1. Len(s) + i \in 1 .. Len(s) + Len(t) /\ ~(Len(s) + i <= Len(s)) /\ Len(s) + i - Len(s) = i
      BY <1>1
    <3> QED BY <1>1, <2>1, <3>1
  <2>3. ASSUME NEW i \in 1 .. Len(u), i \notin 1 .. Len(s)
        PROVE  \E j \in 1 .. Len(t) : i = Len(s) + j
    <3>1. i - Len(s) \in 1 .. Len(t) /\ i = Len(s) + (i - Len(s))
      BY <1>1, <2>3
    <3> QED BY <3>1
  <2>4. \A i \in 1 .. Len(s) : i \in 1 .. Len(u) /\ u[i] = s[i]
    BY <1>1, <2>1
  <2> QED BY <2>2, <2>3, <2>4
<1> HIDE DEF u
<1>3. ToSet(u) = ToSet(s) \cup ToSet(t)
  <2>1. ASSUME NEW e \in ToSet(u) PROVE e \in ToSet(s) \cup ToSet(t)
    <3>1. PICK i \in 1 .. Len(u) : e = u[i]
      BY <1>1 DEF ToSet
    <3> QED BY <1>1, <1>2, <3>1 DEF ToSet
  <2>2. ToSet(s) \subseteq ToSet(u)
    BY <1>1, <1>2 DEF ToSet
  <2>3. ASSUME NEW e \in ToSet(t) PROVE e \in ToSet(u)
    <3>1. PICK i \in 1 .. Len(t) : e = t[i]
      BY <1>1 DEF ToSet
    <3>2. Len(s) + i \in DOMAIN u /\ u[Len(s) + i] = e
      BY <1>1, <1>2, <3>1
    <3> QED BY <3>2 DEF ToSet
  <2> QED BY <2>1, <2>2, <2>3
<1>4. ASSUME IsInjective(s), IsInjective(t), ToSet(s) \cap ToSet(t) = {}
      PROVE  IsInjective(u)
  <2>1. \A a \in 1 .. Len(s), b \in 1 .. Len(t) : s[a] # t[b]
    BY <1>1, <1>4 DEF ToSet
  <2>2. /\ \A a, b \in 1 .. Len(s) : s[a] = s[b] => a = b
        /\ \A a, b \in 1 .. Len(t) : t[a] = t[b] => a = b
    BY <1>1, <1>4 DEF IsInjective
  <2>3. ASSUME NEW a \in 1 .. Len(u), NEW b \in 1 .. Len(u), u[a] = u[b] PROVE a = b
    <3>1. ASSUME NEW i \in 1 .. Len(s), NEW j \in 1 .. Len(t), u[i] = u[Len(s) + j] PROVE FALSE
      BY <1>2, <2>1, <3>1
    <3>2. CASE a \in 1 .. Len(s) /\ b \in 1 .. Len(s)
      BY <1>2, <2>2, <2>3, <3>2
    <3>3. CASE a \in 1 .. Len(s) /\ b \notin 1 .. Len(s)
      BY <1>2, <2>3, <3>1, <3>3, Zenon
    <3>4. CASE a \notin 1 .. Len(s) /\ b \in 1 .. Len(s)
      BY <1>2, <2>3, <3>1, <3>4, Zenon
    <3>5. CASE a \notin 1 .. Len(s) /\ b \notin 1 .. Len(s)
      <4>1. PICK i \in 1 .. Len(t) : a = Len(s) + i
        BY <1>2, <3>5
      <4>2. PICK j \in 1 .. Len(t) : b = Len(s) + j
        BY <1>2, <3>5
      <4>3. t[i] = t[j]
        BY <1>2, <2>3, <4>1, <4>2
      <4> QED BY <2>2, <4>1, <4>2, <4>3
    <3> QED BY <3>2, <3>3, <3>4, <3>5
  <2> QED BY <1>1, <2>3 DEF IsInjective
<1> QED BY <1>1, <1>3, <1>4 DEF u

LEMMA OneIs ==
    ASSUME NEW S, NEW e \in S
    PROVE  <<e>> \in Seq(S) /\ <<e>> # <<>> /\ ToSet(<<e>>) = {e} /\ IsInjective(<<e>>)
           /\ Head(<<e>>) = e /\ Tail(<<e>>) = <<>>
BY DEF ToSet, IsInjective

LEMMA PushIs ==
    ASSUME NEW S, NEW e \in S, NEW t \in Seq(S)
    PROVE  /\ <<e>> \o t \in Seq(S) /\ <<e>> \o t # <<>>
           /\ Head(<<e>> \o t) = e /\ Tail(<<e>> \o t) = t
           /\ ToSet(<<e>> \o t) = {e} \cup ToSet(t)
           /\ IsInjective(t) /\ e \notin ToSet(t) => IsInjective(<<e>> \o t)
<1>1. <<e>> \o t # <<>> /\ Head(<<e>> \o t) = e /\ Tail(<<e>> \o t) = t
  OBVIOUS
<1>2. <<e>> \in Seq(S) /\ ToSet(<<e>>) = {e} /\ IsInjective(<<e>>)
  BY OneIs
<1>3. /\ <<e>> \o t \in Seq(S) /\ ToSet(<<e>> \o t) = ToSet(<<e>>) \cup ToSet(t)
      /\ IsInjective(<<e>>) /\ IsInjective(t) /\ ToSet(<<e>>) \cap ToSet(t) = {}
           => IsInjective(<<e>> \o t)
  BY <1>2, ConcatIs
<1> QED BY <1>1, <1>2, <1>3, Zenon

LEMMA AppendIs ==
    ASSUME NEW S, NEW s \in Seq(S), NEW e \in S
    PROVE  /\ Append(s, e) \in Seq(S) /\ Append(s, e) # <<>>
           /\ ToSet(Append(s, e)) = ToSet(s) \cup {e}
           /\ Last(Append(s, e)) = e /\ Front(Append(s, e)) = s
           /\ IsInjective(s) /\ e \notin ToSet(s) => IsInjective(Append(s, e))
<1>1. <<e>> \in Seq(S) /\ ToSet(<<e>>) = {e} /\ IsInjective(<<e>>)
  BY OneIs
<1>2. Append(s, e) = s \o <<e>>
  BY AppendIsConcat
<1>3. /\ Append(s, e) # <<>> /\ Len(Append(s, e)) = Len(s) + 1 /\ Len(s) \in Nat
      /\ Append(s, e)[Len(s) + 1] = e /\ Append(s, e) \in Seq(S)
      /\ \A i \in 1 .. Len(s) : Append(s, e)[i] = s[i]
  BY AppendProperties, LenProperties
<1>4. Front(Append(s, e)) = s
  <2>1. \A i \in 1 .. Len(s) : Append(s, e)[i] \in S
    BY <1>3, ElementOfSeq
  <2>2. Len(Append(s, e)) - 1 = Len(s)
    BY <1>3
  <2>3. /\ SubSeq(Append(s, e), 1, Len(s)) \in Seq(S)
        /\ Len(SubSeq(Append(s, e), 1, Len(s))) = Len(s)
        /\ \A i \in 1 .. Len(s) : SubSeq(Append(s, e), 1, Len(s))[i] = s[i]
    BY <1>3, <2>1, SubSeqProperties
  <2>4. SubSeq(Append(s, e), 1, Len(s)) = s
    BY <2>3, SeqEqual
  <2> QED BY <2>2, <2>4 DEF Front
<1>5. /\ ToSet(s \o <<e>>) = ToSet(s) \cup ToSet(<<e>>)
      /\ IsInjective(s) /\ IsInjective(<<e>>) /\ ToSet(s) \cap ToSet(<<e>>) = {}
           => IsInjective(s \o <<e>>)
  BY ONLY <1>1, s \in Seq(S), ConcatIs
<1>6. IsInjective(s) /\ e \notin ToSet(s) => IsInjective(Append(s, e))
  BY <1>1, <1>2, <1>5, Zenon
<1> QED BY <1>1, <1>2, <1>3, <1>4, <1>5, <1>6 DEF Last

(***************************************************************************)
(* Lemmas: the nodes of a graph.                                           *)
(***************************************************************************)

LEMMA NodeIs ==
    ASSUME NEW g, IsGraph(g), NEW p \in DOMAIN g
    PROVE  /\ p \in Seq(Nat) /\ Len(p) \in Nat /\ g[p] \in Kinds /\ <<>> \in DOMAIN g
           /\ p # <<>> => /\ Front(p) \in Containers(g) /\ p \in Steps(g, Front(p))
                          /\ Len(p) >= 1 /\ Len(Front(p)) = Len(p) - 1
<1>1. g # NoGraph
  BY DEF NoGraph
<1>2. /\ p \in Seq(Nat) /\ g[p] \in Kinds /\ <<>> \in DOMAIN g
      /\ p # <<>> => Front(p) \in DOMAIN g \ Leaves(g)
  BY <1>1 DEF IsGraph
<1>3. Len(p) \in Nat /\ (p # <<>> => Len(p) >= 1)
  BY <1>2, EmptySeq, LenProperties
<1>4. ASSUME p # <<>> PROVE Len(Front(p)) = Len(p) - 1
  <2>1. \A i \in 1 .. Len(p) - 1 : p[i] \in Nat
    BY <1>2, <1>3, ElementOfSeq
  <2>2. Len(p) - 1 \in Int /\ 1 \in Int /\ Len(p) >= 1
    BY <1>3, <1>4
  <2>3. Len(SubSeq(p, 1, Len(p) - 1)) = IF 1 <= Len(p) - 1 THEN Len(p) - 1 - 1 + 1 ELSE 0
    BY <2>1, <2>2, SubSeqProperties
  <2>4. Len(SubSeq(p, 1, Len(p) - 1)) = Len(p) - 1
    <3>1. Len(p) \in Nat /\ Len(p) >= 1
      BY <1>3, <1>4
    <3>2. (IF 1 <= Len(p) - 1 THEN Len(p) - 1 - 1 + 1 ELSE 0) = Len(p) - 1
      BY <3>1
    <3> QED BY <2>3, <3>2
  <2> QED BY <2>4 DEF Front
<1> QED BY <1>2, <1>3, <1>4 DEF Containers, Steps

LEMMA StepsAre ==
    ASSUME NEW g, IsGraph(g), NEW p \in DOMAIN g
    PROVE  /\ NumSteps(g, p) \in Nat
           /\ Steps(g, p) = {Append(p, i) : i \in 1 .. NumSteps(g, p)}
           /\ \A i \in Nat : Front(Append(p, i)) = p /\ Last(Append(p, i)) = i
           /\ \A q \in Steps(g, p) :
                /\ q \in DOMAIN g /\ q # <<>> /\ Front(q) = p /\ q # p /\ p \in Containers(g)
                /\ Last(q) \in 1 .. NumSteps(g, p) /\ q = Append(p, Last(q))
<1>1. NumSteps(g, p) \in Nat
  <2>1. IsFiniteSet(DOMAIN g) /\ Steps(g, p) \subseteq DOMAIN g
    BY DEF IsGraph, Steps
  <2>2. IsFiniteSet(Steps(g, p))
    BY <2>1, FS_Subset
  <2> QED BY <2>2, FS_CardinalityType DEF NumSteps
<1>2. p \in Seq(Nat) /\ Steps(g, p) = {Append(p, i) : i \in 1 .. NumSteps(g, p)}
  BY DEF IsGraph
<1>3. \A i \in Nat : Front(Append(p, i)) = p /\ Last(Append(p, i)) = i
  BY <1>2, AppendIs
<1>4. ASSUME NEW q \in Steps(g, p)
      PROVE  /\ q \in DOMAIN g /\ q # <<>> /\ Front(q) = p /\ q # p /\ p \in Containers(g)
             /\ Last(q) \in 1 .. NumSteps(g, p) /\ q = Append(p, Last(q))
  <2>1. q \in DOMAIN g /\ q # <<>> /\ Front(q) = p
    BY DEF Steps
  <2>2. p \in Containers(g) /\ Len(p) = Len(q) - 1 /\ Len(q) \in Nat
    BY <2>1, NodeIs
  <2>3. q # p
    BY <2>2
  <2>4. PICK i \in 1 .. NumSteps(g, p) : q = Append(p, i)
    BY <1>2
  <2>5. Last(q) = i
    BY <1>1, <1>3, <2>4
  <2> QED BY <2>1, <2>2, <2>3, <2>4, <2>5
<1> QED BY <1>1, <1>2, <1>3, <1>4

LEMMA SameStep ==
    ASSUME NEW g, IsGraph(g), NEW p \in DOMAIN g, NEW q \in Steps(g, p), NEW x \in Steps(g, p),
           Last(q) = Last(x)
    PROVE  q = x
<1>1. q = Append(p, Last(q)) /\ x = Append(p, Last(x))
  BY StepsAre
<1> QED BY <1>1

\* The nodes above one.
LEMMA UpIs ==
    ASSUME NEW q \in Seq(Nat), NEW n \in 0 .. Len(q)
    PROVE  /\ Up(q, n) \in Seq(Nat) /\ Len(Up(q, n)) = n
           /\ \A i \in 1 .. n : Up(q, n)[i] = q[i]
<1>1. Len(q) \in Nat /\ n \in Nat /\ n \in Int /\ 1 \in Int
  BY LenProperties
<1>2. \A i \in 1 .. n : q[i] \in Nat
  BY <1>1, ElementOfSeq
<1>3. /\ Up(q, n) \in Seq(Nat) /\ Len(Up(q, n)) = IF 1 <= n THEN n - 1 + 1 ELSE 0
      /\ \A i \in 1 .. n - 1 + 1 : Up(q, n)[i] = q[1 + i - 1]
  BY <1>1, <1>2, SubSeqProperties DEF Up
<1>4. Len(Up(q, n)) = n
  BY <1>1, <1>3
<1>5. \A i \in 1 .. n : Up(q, n)[i] = q[i]
  BY <1>1, <1>3
<1> QED BY <1>3, <1>4, <1>5

LEMMA UpFacts ==
    ASSUME NEW q \in Seq(Nat), NEW n \in 0 .. Len(q)
    PROVE  /\ Up(q, 0) = <<>> /\ Up(q, Len(q)) = q
           /\ n >= 1 => Up(q, n) # <<>> /\ Front(Up(q, n)) = Up(q, n - 1)
           /\ n <= Len(q) - 1 => Up(Front(q), n) = Up(q, n)
           /\ \A m \in 0 .. n : Up(Up(q, n), m) = Up(q, m)
<1>1. Len(q) \in Nat /\ n \in Nat /\ 0 \in 0 .. Len(q) /\ Len(q) \in 0 .. Len(q)
  BY LenProperties
<1>2. Up(q, 0) = <<>>
  <2>1. Up(q, 0) \in Seq(Nat) /\ Len(Up(q, 0)) = 0
    BY <1>1, UpIs
  <2> QED BY <2>1, EmptySeq
<1>3. Up(q, Len(q)) = q
  <2>1. /\ Up(q, Len(q)) \in Seq(Nat) /\ Len(Up(q, Len(q))) = Len(q)
        /\ \A i \in 1 .. Len(q) : Up(q, Len(q))[i] = q[i]
    BY <1>1, UpIs
  <2> QED BY <2>1, SeqEqual
<1>4. ASSUME NEW k \in 0 .. Len(q), NEW m \in 0 .. k PROVE Up(Up(q, k), m) = Up(q, m)
  <2>1. m \in 0 .. Len(q) /\ m \in Nat /\ k \in Nat
    BY <1>1
  <2>2. Up(q, k) \in Seq(Nat) /\ Len(Up(q, k)) = k /\ \A i \in 1 .. k : Up(q, k)[i] = q[i]
    BY UpIs
  <2>3. /\ Up(q, m) \in Seq(Nat) /\ Len(Up(q, m)) = m
        /\ \A i \in 1 .. m : Up(q, m)[i] = q[i]
    BY <2>1, UpIs
  <2>4. m \in 0 .. Len(Up(q, k))
    BY <2>2
  <2>5. /\ Up(Up(q, k), m) \in Seq(Nat) /\ Len(Up(Up(q, k), m)) = m
        /\ \A i \in 1 .. m : Up(Up(q, k), m)[i] = Up(q, k)[i]
    BY <2>2, <2>4, UpIs
  <2>6. \A i \in 1 .. m : i \in 1 .. k
    BY <2>1
  <2>7. \A i \in 1 .. m : Up(Up(q, k), m)[i] = Up(q, m)[i]
    BY <2>2, <2>3, <2>5, <2>6
  <2> QED BY <2>3, <2>5, <2>7, SeqEqual
<1>5. ASSUME n >= 1 PROVE Up(q, n) # <<>> /\ Front(Up(q, n)) = Up(q, n - 1)
  <2>1. Len(Up(q, n)) = n /\ Len(<<>>) = 0
    BY UpIs, EmptySeq
  <2>2. Front(Up(q, n)) = Up(Up(q, n), n - 1)
    BY <2>1 DEF Front, Up
  <2>3. n - 1 \in 0 .. n
    BY <1>1, <1>5
  <2>4. Up(Up(q, n), n - 1) = Up(q, n - 1)
    BY <1>4, <2>3
  <2> QED BY <1>1, <1>5, <2>1, <2>2, <2>4
<1>6. ASSUME n <= Len(q) - 1 PROVE Up(Front(q), n) = Up(q, n)
  <2>1. Len(q) - 1 \in 0 .. Len(q) /\ n \in 0 .. Len(q) - 1
    BY <1>1, <1>6
  <2>2. Up(Up(q, Len(q) - 1), n) = Up(q, n)
    BY <1>4, <2>1
  <2> QED BY <2>2 DEF Front, Up
<1>7. \A m \in 0 .. n : Up(Up(q, n), m) = Up(q, m)
  BY <1>4
<1> QED BY <1>2, <1>3, <1>5, <1>6, <1>7

(***************************************************************************)
(* Lemmas: what has still to be called.                                    *)
(***************************************************************************)

Calls(g) == {"execute", "propagate"} \X (DOMAIN g)

\* In d the steps of N are to be executed, and those of c but for R; the ends of
\* those in T are to be told.
Marked(c, d, N, R, T) ==
    /\ Shape(d)
    /\ \A x \in DOMAIN c.graph : Exec(d, x) <=> x \in N \/ (Exec(c, x) /\ x \notin R)
    /\ \A x \in DOMAIN c.graph : Prop(d, x) <=> x \in T

LEMMA CallIs ==
    ASSUME NEW g, NEW e \in Calls(g)
    PROVE  e = <<e[1], e[2]>> /\ e[1] \in {"execute", "propagate"} /\ e[2] \in DOMAIN g
BY DEF Calls

LEMMA HeadIs ==
    ASSUME NEW c, c \in ContextsOf(c.graph), c.calls # <<>>
    PROVE  /\ Head(c.calls) \in Calls(c.graph)
           /\ \E p \in DOMAIN c.graph :
                \/ Head(c.calls) = <<"execute", p>> /\ Exec(c, p) /\ \A x : ~Prop(c, x)
                \/ Head(c.calls) = <<"propagate", p>> /\ \A x : Prop(c, x) <=> x = p
<1>1. c.calls \in Seq(Calls(c.graph))
  BY DEF ContextsOf, Calls
<1>2. Head(c.calls) \in Calls(c.graph) /\ Head(c.calls) \in ToSet(c.calls)
  BY <1>1, PopIs
<1>3. PICK p \in DOMAIN c.graph :
        Head(c.calls) = <<"execute", p>> \/ Head(c.calls) = <<"propagate", p>>
  BY <1>2 DEF Calls
<1>4. CASE Head(c.calls) = <<"execute", p>>
  BY <1>2, <1>4 DEF Exec, Prop
<1>5. CASE Head(c.calls) = <<"propagate", p>>
  BY <1>2, <1>5 DEF Prop
<1> QED BY <1>2, <1>3, <1>4, <1>5

\* What of the stack is not its head is there to be executed.
LEMMA TailIs ==
    ASSUME NEW c, c \in ContextsOf(c.graph), Shape(c), c.calls # <<>>
    PROVE  /\ Tail(c.calls) \in Seq(Calls(c.graph)) /\ IsInjective(Tail(c.calls))
           /\ ToSet(c.calls) = ToSet(Tail(c.calls)) \cup {Head(c.calls)}
           /\ Head(c.calls) \notin ToSet(Tail(c.calls))
           /\ \A e \in ToSet(Tail(c.calls)) :
                /\ e[1] = "execute" /\ e[2] # <<>> /\ c.graph[Front(e[2])] = "pipe"
                /\ e[2] \in DOMAIN c.graph /\ e = <<"execute", e[2]>> /\ Exec(c, e[2])
<1>1. c.calls \in Seq(Calls(c.graph))
  BY DEF ContextsOf, Calls
<1>2. /\ Tail(c.calls) \in Seq(Calls(c.graph)) /\ IsInjective(Tail(c.calls))
      /\ ToSet(c.calls) = ToSet(Tail(c.calls)) \cup {Head(c.calls)}
      /\ Head(c.calls) \notin ToSet(Tail(c.calls))
  BY <1>1, PopIs DEF Shape
<1>3. ASSUME NEW e \in ToSet(Tail(c.calls))
      PROVE  /\ e[1] = "execute" /\ e[2] # <<>> /\ c.graph[Front(e[2])] = "pipe"
             /\ e[2] \in DOMAIN c.graph /\ e = <<"execute", e[2]>> /\ Exec(c, e[2])
  <2>1. e[1] = "execute" /\ e[2] # <<>> /\ c.graph[Front(e[2])] = "pipe"
    BY DEF Shape
  <2>2. e \in Calls(c.graph)
    BY <1>2, ToSetIs
  <2>3. e[2] \in DOMAIN c.graph /\ e = <<e[1], e[2]>>
    BY <2>2, CallIs
  <2>4. e \in ToSet(c.calls)
    BY <1>2
  <2> QED BY <2>1, <2>3, <2>4 DEF Exec
<1> QED BY <1>2, <1>3

LEMMA PopMarks ==
    ASSUME NEW c, NEW d, c \in ContextsOf(c.graph), Shape(c), c.calls # <<>>,
           d.graph = c.graph, d.calls = Tail(c.calls), NEW p, Head(c.calls)[2] = p
    PROVE  Marked(c, d, {}, IF Head(c.calls)[1] = "execute" THEN {p} ELSE {}, {})
<1> DEFINE t == Tail(c.calls)
           R == IF Head(c.calls)[1] = "execute" THEN {p} ELSE {}
<1>1. /\ t \in Seq(Calls(c.graph)) /\ IsInjective(t) /\ Head(c.calls) \notin ToSet(t)
      /\ ToSet(c.calls) = ToSet(t) \cup {Head(c.calls)}
      /\ \A e \in ToSet(t) : /\ e[1] = "execute" /\ e[2] # <<>>
                             /\ c.graph[Front(e[2])] = "pipe"
  BY TailIs
<1>2. Head(c.calls) \in Calls(c.graph) /\ Head(c.calls) = <<Head(c.calls)[1], p>>
  BY HeadIs, CallIs
<1>3. Shape(d)
  <2>1. ASSUME t # <<>> PROVE ToSet(Tail(t)) \subseteq ToSet(t)
    BY <1>1, <2>1, PopIs
  <2> QED BY <1>1, <2>1 DEF Shape
<1>4. ASSUME NEW x \in DOMAIN c.graph PROVE Exec(d, x) <=> (Exec(c, x) /\ x \notin R)
  <2>1. <<"execute", x>> \in ToSet(t) => x \notin R
    BY <1>1, <1>2
  <2>2. <<"execute", x>> = Head(c.calls) => x \in R
    BY <1>2
  <2> QED BY <1>1, <2>1, <2>2 DEF Exec
<1>5. ASSUME NEW x \in DOMAIN c.graph PROVE ~Prop(d, x)
  <2>1. ASSUME t # <<>> PROVE Head(t) \in ToSet(t)
    BY <1>1, <2>1, PopIs
  <2>2. <<"propagate", x>>[1] = "propagate" /\ "propagate" # "execute"
    OBVIOUS
  <2> QED BY <1>1, <2>1, <2>2 DEF Prop
<1> QED BY <1>3, <1>4, <1>5 DEF Marked

\* A push on what is left of the stack.
LEMMA PushMarks ==
    ASSUME NEW c, NEW d, c \in ContextsOf(c.graph), Shape(c), c.calls # <<>>,
           d.graph = c.graph, NEW p, Head(c.calls)[2] = p,
           NEW y \in DOMAIN c.graph, NEW kind \in {"execute", "propagate"},
           kind = "execute" => ~Exec(c, y),
           d.calls = << <<kind, y>> >> \o Tail(c.calls)
    PROVE  Marked(c, d, IF kind = "execute" THEN {y} ELSE {},
                  IF Head(c.calls)[1] = "execute" THEN {p} ELSE {},
                  IF kind = "execute" THEN {} ELSE {y})
<1> DEFINE t == Tail(c.calls)
           e == <<kind, y>>
           N == IF kind = "execute" THEN {y} ELSE {}
           R == IF Head(c.calls)[1] = "execute" THEN {p} ELSE {}
           T == IF kind = "execute" THEN {} ELSE {y}
<1>1. /\ t \in Seq(Calls(c.graph)) /\ IsInjective(t) /\ Head(c.calls) \notin ToSet(t)
      /\ ToSet(c.calls) = ToSet(t) \cup {Head(c.calls)}
      /\ \A f \in ToSet(t) : /\ f[1] = "execute" /\ f[2] # <<>>
                             /\ c.graph[Front(f[2])] = "pipe"
  BY TailIs
<1>2. Head(c.calls) \in Calls(c.graph) /\ Head(c.calls) = <<Head(c.calls)[1], p>>
  BY HeadIs, CallIs
<1>3. e \in Calls(c.graph) /\ e \notin ToSet(t)
  <2>1. e[1] = kind /\ e[2] = y
    OBVIOUS
  <2>2. e \notin ToSet(t)
    BY <1>1, <2>1 DEF Exec
  <2> QED BY <2>2 DEF Calls
<1>4. /\ d.calls # <<>> /\ Head(d.calls) = e /\ Tail(d.calls) = t
      /\ ToSet(d.calls) = {e} \cup ToSet(t) /\ IsInjective(d.calls)
  <2>1. d.calls = <<e>> \o t
    OBVIOUS
  <2> HIDE DEF e, t
  <2>2. /\ <<e>> \o t # <<>> /\ Head(<<e>> \o t) = e /\ Tail(<<e>> \o t) = t
        /\ ToSet(<<e>> \o t) = {e} \cup ToSet(t) /\ IsInjective(<<e>> \o t)
    BY <1>1, <1>3, PushIs
  <2> QED BY <2>1, <2>2
<1>5. Shape(d)
  BY <1>1, <1>4 DEF Shape
<1>6. ASSUME NEW x \in DOMAIN c.graph
      PROVE  Exec(d, x) <=> x \in N \/ (Exec(c, x) /\ x \notin R)
  <2>1. <<"execute", x>> \in ToSet(t) => x \notin R
    BY <1>1, <1>2
  <2>2. <<"execute", x>> = Head(c.calls) => x \in R
    BY <1>2
  <2>3. <<"execute", x>> = e <=> x \in N
    OBVIOUS
  <2> QED BY <1>1, <1>4, <2>1, <2>2, <2>3 DEF Exec
<1>7. ASSUME NEW x \in DOMAIN c.graph PROVE Prop(d, x) <=> x \in T
  BY <1>4 DEF Prop
<1> QED BY <1>5, <1>6, <1>7 DEF Marked

LEMMA LeftMarks ==
    ASSUME NEW c, NEW d, c \in ContextsOf(c.graph), Shape(c), c.calls # <<>>,
           d.graph = c.graph, d.calls = Tail(c.calls)
    PROVE  /\ \A p : Head(c.calls) = <<"execute", p>> => Marked(c, d, {}, {p}, {})
           /\ \A p : Head(c.calls) = <<"propagate", p>> => Marked(c, d, {}, {}, {})
<1>1. ASSUME NEW p, Head(c.calls)[2] = p
      PROVE  Marked(c, d, {}, IF Head(c.calls)[1] = "execute" THEN {p} ELSE {}, {})
  BY <1>1, PopMarks
<1>2. ASSUME NEW p, Head(c.calls) = <<"execute", p>> PROVE Marked(c, d, {}, {p}, {})
  <2>1. Head(c.calls)[1] = "execute" /\ Head(c.calls)[2] = p
    BY <1>2
  <2> QED BY <1>1, <2>1
<1>3. ASSUME NEW p, Head(c.calls) = <<"propagate", p>> PROVE Marked(c, d, {}, {}, {})
  <2>1. Head(c.calls)[1] # "execute" /\ Head(c.calls)[2] = p
    BY <1>3
  <2> QED BY <1>1, <2>1
<1> QED BY <1>2, <1>3

LEMMA TellMarks ==
    ASSUME NEW c, NEW d, c \in ContextsOf(c.graph), Shape(c), c.calls # <<>>,
           d.graph = c.graph, NEW y \in DOMAIN c.graph,
           d.calls = << <<"propagate", y>> >> \o Tail(c.calls)
    PROVE  /\ \A p : Head(c.calls) = <<"execute", p>> => Marked(c, d, {}, {p}, {y})
           /\ \A p : Head(c.calls) = <<"propagate", p>> => Marked(c, d, {}, {}, {y})
<1>1. ASSUME NEW p, Head(c.calls)[2] = p
      PROVE  Marked(c, d, IF "propagate" = "execute" THEN {y} ELSE {},
                    IF Head(c.calls)[1] = "execute" THEN {p} ELSE {},
                    IF "propagate" = "execute" THEN {} ELSE {y})
  <2>1. "propagate" \in {"execute", "propagate"} /\ "propagate" # "execute"
    OBVIOUS
  <2> QED BY <1>1, <2>1, PushMarks
<1>2. ASSUME NEW p, Head(c.calls) = <<"execute", p>> PROVE Marked(c, d, {}, {p}, {y})
  <2>1. Head(c.calls)[1] = "execute" /\ Head(c.calls)[2] = p /\ "propagate" # "execute"
    BY <1>2
  <2> QED BY <1>1, <2>1
<1>3. ASSUME NEW p, Head(c.calls) = <<"propagate", p>> PROVE Marked(c, d, {}, {}, {y})
  <2>1. Head(c.calls)[1] # "execute" /\ Head(c.calls)[2] = p /\ "propagate" # "execute"
    BY <1>3
  <2> QED BY <1>1, <2>1
<1> QED BY <1>2, <1>3

\* All the steps of a pipe.
LEMMA StepsMarks ==
    ASSUME NEW c, NEW d, IsGraph(c.graph), c \in ContextsOf(c.graph), Shape(c), c.calls # <<>>,
           d.graph = c.graph, NEW p \in DOMAIN c.graph, Head(c.calls) = <<"execute", p>>,
           c.graph[p] = "pipe", Steps(c.graph, p) # {},
           \A q \in Steps(c.graph, p) : ~Exec(c, q),
           d.calls = [i \in 1 .. NumSteps(c.graph, p) |-> <<"execute", Append(p, i)>>]
                     \o Tail(c.calls)
    PROVE  Marked(c, d, Steps(c.graph, p), {p}, {})
<1> DEFINE t == Tail(c.calls)
           n == NumSteps(c.graph, p)
           s == [i \in 1 .. n |-> <<"execute", Append(p, i)>>]
<1>1. /\ t \in Seq(Calls(c.graph)) /\ IsInjective(t) /\ Head(c.calls) \notin ToSet(t)
      /\ ToSet(c.calls) = ToSet(t) \cup {Head(c.calls)}
      /\ \A f \in ToSet(t) : /\ f[1] = "execute" /\ f[2] # <<>>
                             /\ c.graph[Front(f[2])] = "pipe"
  BY TailIs
<1>2. /\ n \in Nat /\ Steps(c.graph, p) = {Append(p, i) : i \in 1 .. n}
      /\ \A i \in Nat : Front(Append(p, i)) = p /\ Last(Append(p, i)) = i
      /\ \A q \in Steps(c.graph, p) : q \in DOMAIN c.graph /\ q # <<>> /\ Front(q) = p
  BY StepsAre
<1>3. n \in Nat \ {0}
  BY <1>2
<1> HIDE DEF n
<1>4. \A i \in 1 .. n : <<"execute", Append(p, i)>> \in Calls(c.graph)
  BY <1>2 DEF Calls
<1>5. s \in Seq(Calls(c.graph)) /\ Len(s) = n /\ DOMAIN s = 1 .. n
  BY <1>3, <1>4
<1>6. ToSet(s) = {<<"execute", q>> : q \in Steps(c.graph, p)}
  BY <1>2, <1>5 DEF ToSet
<1>7. IsInjective(s)
  <2>1. ASSUME NEW i \in 1 .. n, NEW j \in 1 .. n, s[i] = s[j] PROVE i = j
    <3>1. Append(p, i) = Append(p, j)
      BY <2>1
    <3> QED BY <1>2, <3>1
  <2> QED BY <1>5, <2>1 DEF IsInjective
<1> HIDE DEF s
<1>8. ToSet(s) \cap ToSet(t) = {}
  BY <1>1, <1>6 DEF Exec
<1>9. /\ d.calls \in Seq(Calls(c.graph)) /\ ToSet(d.calls) = ToSet(s) \cup ToSet(t)
      /\ IsInjective(d.calls)
  <2>1. d.calls = s \o t
    BY DEF n, s
  <2> HIDE DEF t
  <2>2. /\ s \o t \in Seq(Calls(c.graph)) /\ ToSet(s \o t) = ToSet(s) \cup ToSet(t)
        /\ IsInjective(s) /\ IsInjective(t) /\ ToSet(s) \cap ToSet(t) = {}
             => IsInjective(s \o t)
    BY <1>1, <1>5, ConcatIs
  <2> QED BY <1>1, <1>7, <1>8, <2>1, <2>2
<1>10. d.calls # <<>>
  <2>1. <<"execute", Append(p, 1)>> \in ToSet(d.calls)
    BY <1>2, <1>3, <1>6, <1>9
  <2> QED BY <2>1, EmptyIs
<1>11. \A e \in ToSet(d.calls) : /\ e[1] = "execute" /\ e[2] # <<>>
                                 /\ c.graph[Front(e[2])] = "pipe"
  <2>1. ASSUME NEW e \in ToSet(s)
        PROVE  e[1] = "execute" /\ e[2] # <<>> /\ c.graph[Front(e[2])] = "pipe"
    <3>1. PICK q \in Steps(c.graph, p) : e = <<"execute", q>>
      BY <1>6
    <3> QED BY <1>2, <3>1
  <2> QED BY <1>1, <1>9, <2>1
<1>12. Head(d.calls) \in ToSet(d.calls) /\ ToSet(Tail(d.calls)) \subseteq ToSet(d.calls)
  BY <1>9, <1>10, PopIs
<1>13. Shape(d)
  BY <1>9, <1>11, <1>12 DEF Shape
<1>14. ASSUME NEW x \in DOMAIN c.graph
       PROVE  Exec(d, x) <=> x \in Steps(c.graph, p) \/ (Exec(c, x) /\ x \notin {p})
  <2>1. <<"execute", x>> \in ToSet(s) <=> x \in Steps(c.graph, p)
    BY <1>6
  <2>2. <<"execute", x>> \in ToSet(t) <=> (Exec(c, x) /\ x # p)
    BY <1>1 DEF Exec
  <2> QED BY <1>9, <2>1, <2>2 DEF Exec
<1>15. ASSUME NEW x \in DOMAIN c.graph PROVE ~Prop(d, x)
  <2>1. <<"propagate", x>>[1] = "propagate" /\ "propagate" # "execute"
    OBVIOUS
  <2> QED BY <1>11, <1>12, <2>1 DEF Prop
<1> QED BY <1>13, <1>14, <1>15 DEF Marked

\* A single call on an empty stack.
LEMMA FirstMarks ==
    ASSUME NEW c, NEW d, c.calls = <<>>, NEW y \in DOMAIN c.graph,
           NEW kind \in {"execute", "propagate"}, d.calls = << <<kind, y>> >>
    PROVE  Marked(c, d, IF kind = "execute" THEN {y} ELSE {}, {},
                  IF kind = "execute" THEN {} ELSE {y})
<1>1. /\ d.calls # <<>> /\ Head(d.calls) = <<kind, y>> /\ Tail(d.calls) = <<>>
      /\ ToSet(d.calls) = {<<kind, y>>} /\ IsInjective(d.calls)
  BY OneIs
<1>2. Shape(d)
  BY <1>1, EmptyIs DEF Shape
<1>3. \A x : ~Exec(c, x)
  BY EmptyIs DEF Exec
<1> QED BY <1>1, <1>2, <1>3 DEF Marked, Exec, Prop

(***************************************************************************)
(* Lemmas: the steps of the engine and the tree.                           *)
(***************************************************************************)

LEMMA ContainerIs ==
    ASSUME NEW g, IsGraph(g), NEW p \in Containers(g)
    PROVE  p \in DOMAIN g /\ g[p] \in {"order", "pipe"}
BY DEF Containers, Leaves

\* The function e is f but at p.
Changed(g, f, e, p, v) == e[p] = v /\ \A x \in DOMAIN g \ {p} : e[x] = f[x]

LEMMA SameContainer ==
    ASSUME NEW c, NEW d, d.graph = c.graph, NEW p, ContainerAt(c, p),
           d.state[p] = c.state[p], d.current[p] = c.current[p],
           \A q \in Steps(c.graph, p) :
                /\ d.state[q] = c.state[q] /\ (Exec(d, q) <=> Exec(c, q))
                /\ Prop(c, q) => Prop(d, q)
    PROVE  ContainerAt(d, p)
<1>1. CASE c.state[p] = "pending"
  BY <1>1 DEF ContainerAt
<1>2. CASE c.state[p] # "pending" /\ Steps(c.graph, p) = {}
  BY <1>2 DEF ContainerAt
<1>3. CASE c.state[p] # "pending" /\ Steps(c.graph, p) # {} /\ c.graph[p] = "order"
  <2>1. PICK x \in Steps(c.graph, p) : OrderAt(c, p, x)
    BY <1>3 DEF ContainerAt
  <2>2. OrderAt(d, p, x)
    BY <2>1 DEF OrderAt
  <2> QED BY <1>3, <2>2 DEF ContainerAt
<1>4. CASE c.state[p] # "pending" /\ Steps(c.graph, p) # {} /\ c.graph[p] # "order"
  <2>1. PipeInv(c, p)
    BY <1>4 DEF ContainerAt
  <2>2. PipeInv(d, p)
    BY <2>1 DEF PipeInv, Ended, PipeEnds, PipeState
  <2> QED BY <1>4, <2>2 DEF ContainerAt
<1> QED BY <1>1, <1>2, <1>3, <1>4

\* A step of a running order that is not over, but is at work or to be executed, is
\* where the order is.
LEMMA CurrentIs ==
    ASSUME NEW c, IsGraph(c.graph), c \in ContextsOf(c.graph), ContainerInv(c),
           NEW p \in DOMAIN c.graph, NEW q \in Steps(c.graph, p), c.graph[p] = "order",
           c.state[p] = "running",
           c.state[q] \in {"running", "error"} \/ (Exec(c, q) /\ c.state[q] = "pending")
    PROVE  OrderAt(c, p, q)
<1>1. p \in Containers(c.graph) /\ Last(q) \in Int
  BY StepsAre
<1>2. PICK x \in Steps(c.graph, p) : OrderAt(c, p, x)
  BY <1>1 DEF ContainerInv, ContainerAt
<1>3. Last(x) \in Int
  BY StepsAre
<1>4. ~(Last(q) < Last(x)) /\ ~(Last(q) > Last(x))
  BY <1>2 DEF OrderAt
<1>5. q = x
  BY <1>1, <1>3, <1>4, SameStep
<1> QED BY <1>2, <1>5

\* The node above a node that is at work.
LEMMA ParentIs ==
    ASSUME NEW c, IsGraph(c.graph), NEW p \in DOMAIN c.graph, p # <<>>
    PROVE  /\ Front(p) \in DOMAIN c.graph /\ Front(p) \in Containers(c.graph)
           /\ p \in Steps(c.graph, Front(p)) /\ Front(p) # p
           /\ c.graph[Front(p)] \in {"order", "pipe"}
<1>1. Front(p) \in Containers(c.graph) /\ p \in Steps(c.graph, Front(p))
  BY NodeIs
<1>2. Front(p) \in DOMAIN c.graph /\ c.graph[Front(p)] \in {"order", "pipe"}
  BY <1>1, ContainerIs
<1>3. Front(p) # p
  BY <1>1, <1>2, StepsAre
<1> QED BY <1>1, <1>2, <1>3

\* Nothing is at work below what does not run, or has no step at work.
LEMMA NothingBelow ==
    ASSUME NEW c, IsGraph(c.graph), UpInv(c), NEW p \in DOMAIN c.graph,
           \A q \in Steps(c.graph, p) : c.state[q] # "running",
           NEW x \in DOMAIN c.graph, c.state[x] = "running", NEW n \in 0 .. Len(x), Up(x, n) = p
    PROVE  x = p
<1>1. x \in Seq(Nat) /\ Len(x) \in Nat
  BY NodeIs
<1>2. CASE n = Len(x)
  BY <1>1, <1>2, UpFacts
<1>3. CASE n # Len(x)
  <2>1. n + 1 \in 0 .. Len(x) /\ n + 1 >= 1 /\ n + 1 - 1 = n
    BY <1>1, <1>3
  <2>2. PICK m \in 0 .. Len(x) : m >= 1 /\ m - 1 = n
    BY <2>1
  <2>3. Up(x, m) # <<>> /\ Front(Up(x, m)) = Up(x, m - 1)
    BY <1>1, <2>2, UpFacts
  <2>4. Up(x, m) \in DOMAIN c.graph /\ c.state[Up(x, m)] = "running"
    BY DEF UpInv
  <2>5. Up(x, m) \in Steps(c.graph, p)
    BY <2>2, <2>3, <2>4 DEF Steps
  <2> QED BY <2>4, <2>5
<1> QED BY <1>2, <1>3

\* What runs beneath a running order is not beside a step that is to be executed.
LEMMA NotBeside ==
    ASSUME NEW c, IsGraph(c.graph), c \in ContextsOf(c.graph), ContainerInv(c), UpInv(c),
           NEW p \in DOMAIN c.graph, p # <<>>, Exec(c, p), c.state[p] = "pending",
           c.graph[Front(p)] = "order", c.state[Front(p)] = "running",
           NEW b \in DOMAIN c.graph, c.state[b] = "running", Beneath(b, Front(p))
    PROVE  b = Front(p)
<1> DEFINE q == Front(p)
<1>1. q \in DOMAIN c.graph /\ p \in Steps(c.graph, q)
  BY ParentIs
<1>2. OrderAt(c, q, p)
  BY <1>1, CurrentIs
<1>3. ASSUME NEW x \in Steps(c.graph, q), c.state[x] = "running" PROVE FALSE
  <2>1. OrderAt(c, q, x)
    BY <1>1, <1>3, CurrentIs
  <2>2. Last(x) = Last(p)
    BY <1>2, <2>1 DEF OrderAt
  <2>3. x = p
    BY <1>1, <2>2, SameStep
  <2> QED BY <1>3, <2>3
<1>4. Len(q) \in 0 .. Len(b) /\ Up(b, Len(q)) = q
  <2>1. Len(q) \in Nat /\ Len(b) \in Nat
    BY <1>1, NodeIs
  <2> QED BY <2>1 DEF Beneath
<1> HIDE DEF q
<1> QED BY <1>1, <1>3, <1>4, NothingBelow DEF q

\* A node starts; its steps in N are to be executed.
LEMMA TreeStarts ==
    ASSUME NEW c, NEW d, IsGraph(c.graph), c \in ContextsOf(c.graph), TreeInv(c),
           NEW p \in DOMAIN c.graph, Exec(c, p), \A x : ~Prop(c, x), ~c.done,
           NEW N \in SUBSET Steps(c.graph, p),
           d.graph = c.graph, d.done = c.done, Changed(c.graph, c.state, d.state, p, "running"),
           \A q \in DOMAIN c.graph \ {p} : d.current[q] = c.current[q],
           Marked(c, d, N, {p}, {}),
           p \in Containers(c.graph) => ContainerAt(d, p)
    PROVE  TreeInv(d)
<1>1. /\ MarksInv(c) /\ RootInv(c) /\ ContainerInv(c) /\ UpInv(c) /\ SpineInv(c)
  BY DEF TreeInv
<1>2. c.state[p] = "pending" /\ UnderRunning(c, p)
  BY <1>1 DEF MarksInv
<1>3. /\ d.state[p] = "running"
      /\ \A x \in DOMAIN c.graph \ {p} : d.state[x] = c.state[x]
      /\ \A x \in DOMAIN c.graph : c.state[x] = "running" => d.state[x] = "running"
  BY <1>2 DEF Changed
<1>4. \A x \in N : /\ x \in DOMAIN c.graph /\ x # <<>> /\ Front(x) = p /\ x # p
                   /\ c.state[x] = "pending"
  <2>1. \A x \in N : x \in DOMAIN c.graph /\ x # <<>> /\ Front(x) = p /\ x # p
                     /\ p \in Containers(c.graph)
    BY StepsAre
  <2>2. \A x \in N : c.state[x] = "pending"
    BY <1>1, <1>2, <2>1 DEF ContainerInv, ContainerAt
  <2> QED BY <2>1, <2>2
<1>5. /\ \A x \in DOMAIN c.graph : Exec(d, x) <=> x \in N \/ (Exec(c, x) /\ x # p)
      /\ \A x \in DOMAIN c.graph : ~Prop(d, x)
  BY DEF Marked
<1>6. MarksInv(d)
  <2>1. ASSUME NEW x \in DOMAIN c.graph, Exec(d, x)
        PROVE  d.state[x] = "pending" /\ UnderRunning(d, x)
    <3>1. CASE x \in N
      BY <1>3, <1>4, <3>1 DEF UnderRunning
    <3>2. CASE x \notin N
      <4>1. Exec(c, x) /\ x # p
        BY <1>5, <2>1, <3>2
      <4>2. c.state[x] = "pending" /\ UnderRunning(c, x)
        BY <1>1, <4>1 DEF MarksInv
      <4>3. x # <<>> => Front(x) \in DOMAIN c.graph
        BY ParentIs
      <4> QED BY <1>3, <4>1, <4>2, <4>3 DEF UnderRunning
    <3> QED BY <3>1, <3>2
  <2> QED BY <1>5, <2>1 DEF MarksInv
<1>7. RootInv(d)
  <2>1. c.graph # NoGraph /\ <<>> \in DOMAIN c.graph
    BY NodeIs DEF NoGraph
  <2>2. CASE p = <<>>
    BY <1>3, <2>1, <2>2 DEF RootInv, Ended
  <2>3. CASE p # <<>>
    BY <1>1, <1>3, <1>5, <2>1, <2>3 DEF RootInv, Ended
  <2> QED BY <2>2, <2>3
<1>8. ContainerInv(d)
  <2>1. ASSUME NEW q \in Containers(c.graph), q # p PROVE ContainerAt(d, q)
    <3>1. q \in DOMAIN c.graph /\ c.graph[q] \in {"order", "pipe"} /\ ContainerAt(c, q)
      BY <1>1, ContainerIs DEF ContainerInv
    <3>2. \A x \in Steps(c.graph, q) : x \in DOMAIN c.graph /\ Front(x) = q /\ x # <<>>
      BY <3>1, StepsAre
    <3>3. CASE p \notin Steps(c.graph, q)
      <4>1. ASSUME NEW x \in Steps(c.graph, q)
            PROVE  d.state[x] = c.state[x] /\ (Exec(d, x) <=> Exec(c, x))
        <5>1. x # p /\ x \notin N /\ x \in DOMAIN c.graph
          BY <1>4, <2>1, <3>2, <3>3
        <5> QED BY <1>3, <1>5, <5>1
      <4>2. d.state[q] = c.state[q] /\ d.current[q] = c.current[q]
        BY <1>3, <2>1, <3>1
      <4> QED BY <3>1, <4>1, <4>2, SameContainer
    <3>4. CASE p \in Steps(c.graph, q)
      <4>1. c.state[q] = "running" /\ d.state[q] = "running" /\ d.current[q] = c.current[q]
        BY <1>2, <1>3, <2>1, <3>1, <3>2, <3>4 DEF UnderRunning
      <4>2. \A x \in Steps(c.graph, q) \ {p} :
                d.state[x] = c.state[x] /\ (Exec(d, x) <=> Exec(c, x))
        BY <1>3, <1>4, <1>5, <2>1, <3>2
      <4>3. CASE c.graph[q] = "order"
        <5>1. OrderAt(c, q, p)
          BY <1>1, <1>2, <3>1, <3>4, <4>1, <4>3, CurrentIs
        <5>2. Last(p) \in Int
          BY <3>1, <3>4, StepsAre
        <5>3. OrderAt(d, q, p)
          BY <1>3, <4>1, <4>2, <5>1, <5>2 DEF OrderAt
        <5> QED BY <3>4, <4>1, <4>3, <5>3 DEF ContainerAt
      <4>4. CASE c.graph[q] = "pipe"
        <5>1. PipeInv(c, q)
          BY <3>1, <3>4, <4>1, <4>4 DEF ContainerAt
        <5>2. PipeInv(d, q)
          BY <1>3, <3>4, <4>1, <4>2, <5>1 DEF PipeInv, Ended
        <5> QED BY <3>4, <4>1, <4>4, <5>2 DEF ContainerAt
      <4> QED BY <3>1, <4>3, <4>4
    <3> QED BY <3>3, <3>4
  <2> QED BY <2>1 DEF ContainerInv
<1>9. UpInv(d)
  <2>1. ASSUME NEW x \in DOMAIN c.graph, d.state[x] = "running", NEW n \in 0 .. Len(x)
        PROVE  Up(x, n) \in DOMAIN c.graph /\ d.state[Up(x, n)] = "running"
    <3>1. x \in Seq(Nat) /\ Len(x) \in Nat
      BY NodeIs
    <3>2. CASE x # p
      BY <1>1, <1>3, <2>1, <3>2 DEF UpInv
    <3>3. CASE x = p /\ n = Len(x)
      BY <1>3, <3>1, <3>3, UpFacts
    <3>4. CASE x = p /\ n # Len(x)
      <4>1. p # <<>>
        BY <3>1, <3>4, EmptySeq
      <4>2. /\ Front(p) \in DOMAIN c.graph /\ c.state[Front(p)] = "running"
            /\ Len(Front(p)) = Len(p) - 1
        BY <1>2, <4>1, ParentIs, NodeIs DEF UnderRunning
      <4>3. n \in 0 .. Len(Front(p)) /\ n <= Len(x) - 1
        BY <3>1, <3>4, <4>2
      <4>4. Up(Front(p), n) = Up(x, n)
        BY <3>1, <3>4, <4>3, UpFacts
      <4>5. Up(Front(p), n) \in DOMAIN c.graph /\ c.state[Up(Front(p), n)] = "running"
        BY <1>1, <4>2, <4>3 DEF UpInv
      <4> QED BY <1>3, <4>4, <4>5
    <3> QED BY <3>2, <3>3, <3>4
  <2> QED BY <2>1 DEF UpInv
<1>10. SpineInv(d)
  <2>1. ASSUME NEW a \in DOMAIN c.graph \ {p}, c.state[a] = "running",
               Serial(c.graph, a) \/ Serial(c.graph, p)
        PROVE  Beneath(a, p) \/ Beneath(p, a)
    <3>1. a \in Seq(Nat) /\ p \in Seq(Nat) /\ Len(a) \in Nat /\ Len(p) \in Nat
      BY NodeIs
    <3>2. CASE p = <<>>
      BY <3>1, <3>2, UpFacts, EmptySeq DEF Beneath
    <3>3. CASE p # <<>>
      <4> DEFINE q == Front(p)
      <4>1. /\ q \in DOMAIN c.graph /\ q \in Seq(Nat) /\ Len(q) = Len(p) - 1 /\ Len(q) \in Nat
            /\ c.graph[q] \in {"order", "pipe"} /\ c.state[q] = "running"
        BY <1>2, <3>3, ParentIs, NodeIs DEF UnderRunning
      <4>2. ASSUME NEW n \in 0 .. Len(q) PROVE n \in 0 .. Len(p) /\ Up(q, n) = Up(p, n)
        <5>1. n \in 0 .. Len(p) /\ n <= Len(p) - 1
          BY <3>1, <4>1
        <5> QED BY <3>1, <5>1, UpFacts
      <4>3. Up(q, Len(q)) = q /\ Len(q) \in 0 .. Len(q) /\ Len(q) \in 0 .. Len(p)
        BY <3>1, <4>1, UpFacts
      <4>4. ASSUME Beneath(q, a) PROVE Beneath(p, a)
        <5>1. Len(a) \in 0 .. Len(q) /\ Up(q, Len(a)) = a
          BY <3>1, <4>1, <4>4 DEF Beneath
        <5>2. Len(a) \in 0 .. Len(p) /\ Up(q, Len(a)) = Up(p, Len(a))
          BY <4>2, <5>1
        <5>3. Up(p, Len(a)) = a
          BY <5>1, <5>2, Zenon
        <5>4. Len(a) <= Len(p)
          BY <3>1, <5>2
        <5> QED BY <5>3, <5>4 DEF Beneath
      <4>5. ASSUME Beneath(a, q), c.graph[q] = "order" PROVE Beneath(p, a)
        <5>1. a = Front(p)
          BY <1>1, <1>2, <2>1, <3>3, <4>1, <4>5, NotBeside
        <5> QED BY <4>3, <4>4, <5>1 DEF Beneath
      <4>6. CASE Serial(c.graph, p)
        <5>1. Serial(c.graph, q)
          BY <4>2, <4>6 DEF Serial
        <5>2. c.graph[q] # "pipe"
          BY <4>1, <4>3, <5>1 DEF Serial
        <5>3. Beneath(a, q) \/ Beneath(q, a)
          BY <1>1, <2>1, <4>1, <5>1 DEF SpineInv
        <5> QED BY <4>1, <4>4, <4>5, <5>2, <5>3
      <4>7. CASE Serial(c.graph, a)
        <5>1. Beneath(a, q) \/ Beneath(q, a)
          BY <1>1, <2>1, <4>1, <4>7 DEF SpineInv
        <5>2. ASSUME Beneath(a, q) PROVE c.graph[q] # "pipe"
          <6>1. Len(q) \in 0 .. Len(a) /\ Up(a, Len(q)) = q
            BY <3>1, <4>1, <5>2 DEF Beneath
          <6> QED BY <4>1, <4>7, <6>1 DEF Serial
        <5> QED BY <4>1, <4>4, <4>5, <5>1, <5>2
      <4> QED BY <2>1, <4>6, <4>7
    <3> QED BY <3>2, <3>3
  <2>2. Beneath(p, p)
    <3>1. p \in Seq(Nat) /\ Len(p) \in Nat
      BY NodeIs
    <3> QED BY <3>1, UpFacts DEF Beneath
  <2>3. ASSUME NEW a \in DOMAIN c.graph, NEW b \in DOMAIN c.graph,
               d.state[a] = "running", d.state[b] = "running", Serial(c.graph, a)
        PROVE  Beneath(a, b) \/ Beneath(b, a)
    <3>1. CASE a = p /\ b = p
      BY <2>2, <3>1
    <3>2. CASE a = p /\ b # p
      BY <1>3, <2>1, <2>3, <3>2
    <3>3. CASE a # p /\ b = p
      BY <1>3, <2>1, <2>3, <3>3
    <3>4. CASE a # p /\ b # p
      BY <1>1, <1>3, <2>3, <3>4 DEF SpineInv
    <3> QED BY <3>1, <3>2, <3>3, <3>4
  <2> QED BY <2>3 DEF SpineInv
<1> QED BY <1>6, <1>7, <1>8, <1>9, <1>10 DEF TreeInv

\* A node ends; those above it are to be told.
LEMMA TreeEnds ==
    ASSUME NEW c, NEW d, IsGraph(c.graph), c \in ContextsOf(c.graph), TreeInv(c), ~c.done,
           NEW p \in DOMAIN c.graph, NEW s \in {"done", "error"}, UnderRunning(c, p),
           c.state[p] = "running" \/ (c.state[p] = "pending" /\ Exec(c, p)),
           \A q \in Steps(c.graph, p) : c.state[q] # "running" /\ ~Exec(c, q),
           \A x \in DOMAIN c.graph : Prop(c, x) => x \in Steps(c.graph, p),
           d.graph = c.graph, d.done = c.done, Changed(c.graph, c.state, d.state, p, s),
           d.current = c.current, Marked(c, d, {}, {p}, {p}),
           p \in Containers(c.graph) => ContainerAt(d, p)
    PROVE  TreeInv(d)
<1>1. /\ MarksInv(c) /\ RootInv(c) /\ ContainerInv(c) /\ UpInv(c) /\ SpineInv(c)
  BY DEF TreeInv
<1>2. /\ d.state[p] = s
      /\ \A x \in DOMAIN c.graph \ {p} : d.state[x] = c.state[x]
  BY DEF Changed
<1>3. /\ \A x \in DOMAIN c.graph : Exec(d, x) <=> (Exec(c, x) /\ x # p)
      /\ \A x \in DOMAIN c.graph : Prop(d, x) <=> x = p
  BY DEF Marked
<1>4. p # <<>> => /\ Front(p) \in DOMAIN c.graph /\ Front(p) # p
                  /\ c.state[Front(p)] = "running" /\ d.state[Front(p)] = "running"
  BY <1>2, ParentIs DEF UnderRunning
<1>5. MarksInv(d)
  <2>1. ASSUME NEW x \in DOMAIN c.graph, Exec(d, x)
        PROVE  d.state[x] = "pending" /\ UnderRunning(d, x)
    <3>1. Exec(c, x) /\ x # p
      BY <1>3, <2>1
    <3>2. c.state[x] = "pending" /\ UnderRunning(c, x)
      BY <1>1, <3>1 DEF MarksInv
    <3>3. x # <<>> => Front(x) \in DOMAIN c.graph /\ x \in Steps(c.graph, Front(x))
      BY ParentIs
    <3>4. x # <<>> => Front(x) # p
      BY <3>1, <3>3
    <3> QED BY <1>2, <3>1, <3>2, <3>3, <3>4 DEF UnderRunning
  <2>2. Ended(d, p) /\ UnderRunning(d, p)
    BY <1>2, <1>4 DEF Ended, UnderRunning
  <2> QED BY <1>3, <2>1, <2>2 DEF MarksInv
<1>6. RootInv(d)
  <2>1. c.graph # NoGraph /\ <<>> \in DOMAIN c.graph
    BY NodeIs DEF NoGraph
  <2>2. CASE p = <<>>
    BY <1>2, <1>3, <2>1, <2>2 DEF RootInv, Ended
  <2>3. CASE p # <<>>
    <3>1. c.state[<<>>] = "running"
      <4>1. Front(p) \in Seq(Nat) /\ Len(Front(p)) \in Nat
        BY <1>4, <2>3, NodeIs
      <4>2. 0 \in 0 .. Len(Front(p)) /\ Up(Front(p), 0) = <<>>
        BY <4>1, UpFacts
      <4> QED BY <1>1, <1>4, <2>3, <4>2 DEF UpInv
    <3>2. d.state[<<>>] = "running"
      BY <1>2, <2>1, <2>3, <3>1
    <3> QED BY <2>1, <3>2 DEF RootInv, Ended
  <2> QED BY <2>2, <2>3
<1>7. ContainerInv(d)
  <2>1. ASSUME NEW q \in Containers(c.graph), q # p PROVE ContainerAt(d, q)
    <3>1. q \in DOMAIN c.graph /\ c.graph[q] \in {"order", "pipe"} /\ ContainerAt(c, q)
      BY <1>1, ContainerIs DEF ContainerInv
    <3>2. \A x \in Steps(c.graph, q) : x \in DOMAIN c.graph /\ Front(x) = q /\ x # <<>>
      BY <3>1, StepsAre
    <3>3. \A x \in Steps(c.graph, q) : ~Prop(c, x)
      <4>1. \A x \in Steps(c.graph, p) : Front(x) = p
        BY StepsAre
      <4> QED BY <2>1, <3>2, <4>1
    <3>4. CASE p \notin Steps(c.graph, q)
      <4>1. ASSUME NEW x \in Steps(c.graph, q)
            PROVE  d.state[x] = c.state[x] /\ (Exec(d, x) <=> Exec(c, x))
        BY <1>2, <1>3, <3>2, <3>4
      <4>2. d.state[q] = c.state[q] /\ d.current[q] = c.current[q]
        BY <1>2, <2>1, <3>1
      <4> QED BY <3>1, <3>3, <4>1, <4>2, SameContainer
    <3>5. CASE p \in Steps(c.graph, q)
      <4>1. c.state[q] = "running" /\ d.state[q] = "running" /\ d.current[q] = c.current[q]
        BY <1>4, <3>2, <3>5
      <4>2. \A x \in Steps(c.graph, q) \ {p} :
                d.state[x] = c.state[x] /\ (Exec(d, x) <=> Exec(c, x))
        BY <1>2, <1>3, <3>2
      <4>3. CASE c.graph[q] = "order"
        <5>1. OrderAt(c, q, p)
          BY <1>1, <3>1, <3>5, <4>1, <4>3, CurrentIs
        <5>2. Last(p) \in Int
          BY <3>1, <3>5, StepsAre
        <5>3. OrderAt(d, q, p)
          BY <1>3, <4>1, <4>2, <5>1, <5>2 DEF OrderAt
        <5> QED BY <3>5, <4>1, <4>3, <5>3 DEF ContainerAt
      <4>4. CASE c.graph[q] = "pipe"
        <5>1. PipeInv(c, q)
          BY <3>1, <3>5, <4>1, <4>4 DEF ContainerAt
        <5>2. PipeInv(d, q)
          BY <1>2, <1>3, <3>5, <4>1, <4>2, <5>1 DEF PipeInv
        <5> QED BY <3>5, <4>1, <4>4, <5>2 DEF ContainerAt
      <4> QED BY <3>1, <4>3, <4>4
    <3> QED BY <3>4, <3>5
  <2> QED BY <2>1 DEF ContainerInv
<1>8. \A x \in DOMAIN c.graph : d.state[x] = "running" => x # p /\ c.state[x] = "running"
  BY <1>2
<1>9. UpInv(d)
  <2>1. ASSUME NEW x \in DOMAIN c.graph, d.state[x] = "running", NEW n \in 0 .. Len(x)
        PROVE  Up(x, n) \in DOMAIN c.graph /\ d.state[Up(x, n)] = "running"
    <3>1. x # p /\ c.state[x] = "running"
      BY <1>8, <2>1
    <3>2. Up(x, n) \in DOMAIN c.graph /\ c.state[Up(x, n)] = "running"
      BY <1>1, <3>1 DEF UpInv
    <3>3. Up(x, n) # p
      BY <1>1, <3>1, NothingBelow
    <3> QED BY <1>2, <3>2, <3>3
  <2> QED BY <2>1 DEF UpInv
<1>10. SpineInv(d)
  BY <1>1, <1>8 DEF SpineInv
<1> QED BY <1>5, <1>6, <1>7, <1>9, <1>10 DEF TreeInv

\* An order goes on to its next step.
LEMMA TreeNext ==
    ASSUME NEW c, NEW d, IsGraph(c.graph), c \in ContextsOf(c.graph), TreeInv(c), ~c.done,
           NEW p \in DOMAIN c.graph, c.graph[p] = "order", c.state[p] = "running",
           NEW q \in Steps(c.graph, p), c.state[q] = "done", c.current[p] = Last(q),
           \A x \in DOMAIN c.graph : Prop(c, x) => x = q,
           NEW y \in Steps(c.graph, p), Last(y) = Last(q) + 1,
           d.graph = c.graph, d.done = c.done, d.state = c.state,
           Changed(c.graph, c.current, d.current, p, Last(y)), Marked(c, d, {y}, {}, {})
    PROVE  TreeInv(d)
<1>1. /\ MarksInv(c) /\ RootInv(c) /\ ContainerInv(c) /\ UpInv(c) /\ SpineInv(c)
  BY DEF TreeInv
<1>2. /\ \A x \in DOMAIN c.graph : Exec(d, x) <=> (x = y \/ Exec(c, x))
      /\ \A x \in DOMAIN c.graph : ~Prop(d, x)
  BY DEF Marked
<1>3. /\ d.current[p] = Last(y)
      /\ \A x \in DOMAIN c.graph \ {p} : d.current[x] = c.current[x]
  BY DEF Changed
<1>4. /\ p \in Containers(c.graph) /\ y \in DOMAIN c.graph /\ y # <<>> /\ Front(y) = p
      /\ \A x \in Steps(c.graph, p) : x \in DOMAIN c.graph /\ Last(x) \in Int
  BY StepsAre
<1>5. OrderAt(c, p, q)
  <2>1. PICK x \in Steps(c.graph, p) : OrderAt(c, p, x)
    BY <1>1, <1>4 DEF ContainerInv, ContainerAt
  <2>2. x = q
    BY <2>1, SameStep DEF OrderAt
  <2> QED BY <2>1, <2>2
<1>6. Last(y) > Last(q) /\ Last(q) \in Int /\ Last(y) \in Int
  BY <1>4
<1>7. c.state[y] = "pending"
  BY <1>5, <1>6 DEF OrderAt
<1>8. MarksInv(d)
  <2>1. ASSUME NEW x \in DOMAIN c.graph, Exec(d, x)
        PROVE  d.state[x] = "pending" /\ UnderRunning(d, x)
    BY <1>1, <1>2, <1>4, <1>7, <2>1 DEF MarksInv, UnderRunning
  <2> QED BY <1>2, <2>1 DEF MarksInv
<1>9. RootInv(d)
  <2>1. c.graph # NoGraph /\ <<>> \in DOMAIN c.graph /\ q # <<>>
    BY NodeIs, StepsAre DEF NoGraph
  <2> QED BY <1>1, <1>2, <2>1 DEF RootInv, Ended
<1>10. ContainerInv(d)
  <2>1. ASSUME NEW z \in Containers(c.graph), z # p PROVE ContainerAt(d, z)
    <3>1. z \in DOMAIN c.graph /\ ContainerAt(c, z)
      BY <1>1, ContainerIs DEF ContainerInv
    <3>2. \A x \in Steps(c.graph, z) : x \in DOMAIN c.graph /\ Front(x) = z
      BY <3>1, StepsAre
    <3>3. q \notin Steps(c.graph, z) /\ y \notin Steps(c.graph, z)
      BY <1>4, <2>1, <3>2, StepsAre
    <3>4. \A x \in Steps(c.graph, z) : (Exec(d, x) <=> Exec(c, x)) /\ ~Prop(c, x)
      BY <1>2, <3>2, <3>3
    <3> QED BY <1>3, <2>1, <3>1, <3>4, SameContainer
  <2>2. OrderAt(d, p, y)
    <3>1. ASSUME NEW x \in Steps(c.graph, p), Last(x) < Last(y) PROVE d.state[x] = "done"
      <4>1. Last(x) < Last(q) \/ Last(x) = Last(q)
        BY <1>4, <1>6, <3>1
      <4> QED BY <1>5, <4>1, SameStep DEF OrderAt
    <3>2. ASSUME NEW x \in Steps(c.graph, p), Last(x) > Last(y)
          PROVE  d.state[x] = "pending" /\ ~Exec(d, x)
      <4>1. Last(x) > Last(q) /\ x # y
        BY <1>4, <1>6, <3>2
      <4> QED BY <1>2, <1>4, <1>5, <4>1 DEF OrderAt
    <3>3. Exec(d, y)
      BY <1>2, <1>4
    <3> QED BY <1>3, <3>1, <3>2, <3>3 DEF OrderAt
  <2>3. ContainerAt(d, p)
    BY <2>2 DEF ContainerAt
  <2> QED BY <2>1, <2>3 DEF ContainerInv
<1>11. UpInv(d) /\ SpineInv(d)
  BY <1>1 DEF UpInv, SpineInv
<1> QED BY <1>8, <1>9, <1>10, <1>11 DEF TreeInv

\* The end of a step changes nothing above it.
LEMMA TreeStays ==
    ASSUME NEW c, NEW d, IsGraph(c.graph), c \in ContextsOf(c.graph), TreeInv(c), ~c.done,
           NEW q \in DOMAIN c.graph, q # <<>>, \A x \in DOMAIN c.graph : Prop(c, x) => x = q,
           c.graph[Front(q)] = "order" => c.current[Front(q)] # Last(q),
           c.graph[Front(q)] = "pipe" => ~PipeEnds(c, Front(q)),
           c.state[Front(q)] = "running",
           d.graph = c.graph, d.done = c.done, d.state = c.state, d.current = c.current,
           Marked(c, d, {}, {}, {})
    PROVE  TreeInv(d)
<1>1. /\ MarksInv(c) /\ RootInv(c) /\ ContainerInv(c) /\ UpInv(c) /\ SpineInv(c)
  BY DEF TreeInv
<1>2. /\ \A x \in DOMAIN c.graph : Exec(d, x) <=> Exec(c, x)
      /\ \A x \in DOMAIN c.graph : ~Prop(d, x)
  BY DEF Marked
<1>3. MarksInv(d)
  BY <1>1, <1>2 DEF MarksInv, UnderRunning
<1>4. RootInv(d)
  <2>1. c.graph # NoGraph /\ <<>> \in DOMAIN c.graph
    BY NodeIs DEF NoGraph
  <2> QED BY <1>1, <1>2, <2>1 DEF RootInv, Ended
<1>5. ContainerInv(d)
  <2> DEFINE p == Front(q)
  <2>1. p \in Containers(c.graph) /\ p \in DOMAIN c.graph /\ q \in Steps(c.graph, p)
        /\ c.graph[p] \in {"order", "pipe"}
    BY ParentIs
  <2>2. ASSUME NEW z \in Containers(c.graph), z # p PROVE ContainerAt(d, z)
    <3>1. z \in DOMAIN c.graph /\ ContainerAt(c, z)
      BY <1>1, ContainerIs DEF ContainerInv
    <3>2. \A x \in Steps(c.graph, z) : x \in DOMAIN c.graph /\ Front(x) = z
      BY <3>1, StepsAre
    <3>3. \A x \in Steps(c.graph, z) : (Exec(d, x) <=> Exec(c, x)) /\ ~Prop(c, x)
      BY <1>2, <2>2, <3>2
    <3> QED BY <3>1, <3>3, SameContainer
  <2>3. \A x \in Steps(c.graph, p) : x \in DOMAIN c.graph
    BY <2>1, StepsAre
  <2>4. ContainerAt(c, p)
    BY <1>1, <2>1 DEF ContainerInv
  <2>5. ASSUME c.graph[p] = "order" PROVE ContainerAt(d, p)
    <3>1. PICK x \in Steps(c.graph, p) : OrderAt(c, p, x)
      BY <2>1, <2>4, <2>5 DEF ContainerAt
    <3>2. x # q
      BY <2>5, <3>1 DEF OrderAt
    <3>3. OrderAt(d, p, x)
      BY <1>2, <2>3, <3>1, <3>2 DEF OrderAt
    <3> QED BY <2>5, <3>3 DEF ContainerAt
  <2>6. ASSUME c.graph[p] = "pipe" PROVE ContainerAt(d, p)
    <3>1. PipeInv(c, p)
      BY <2>1, <2>4, <2>6 DEF ContainerAt
    <3>2. \E x \in Steps(c.graph, p) : ~Ended(c, x)
      BY <2>6 DEF PipeEnds
    <3>3. PipeInv(d, p)
      BY <1>2, <2>3, <3>1, <3>2 DEF PipeInv, Ended
    <3> QED BY <2>1, <2>6, <3>3 DEF ContainerAt
  <2>7. ContainerAt(d, p)
    BY <2>1, <2>5, <2>6
  <2> HIDE DEF p
  <2> QED BY <2>2, <2>7 DEF ContainerInv
<1>6. UpInv(d) /\ SpineInv(d)
  BY <1>1 DEF UpInv, SpineInv
<1> QED BY <1>3, <1>4, <1>5, <1>6 DEF TreeInv

\* The root has ended: nothing is left to be called, and nothing runs.
LEMMA RootEnds ==
    ASSUME NEW c, IsGraph(c.graph), c \in ContextsOf(c.graph), Shape(c), TreeInv(c),
           <<>> \in DOMAIN c.graph, Ended(c, <<>>)
    PROVE  /\ \A x \in DOMAIN c.graph : c.state[x] # "running" /\ ~Exec(c, x)
           /\ c.calls # <<>> => Tail(c.calls) = <<>>
<1>1. MarksInv(c) /\ UpInv(c)
  BY DEF TreeInv
<1>2. ASSUME NEW x \in DOMAIN c.graph, c.state[x] = "running" PROVE FALSE
  <2>1. x \in Seq(Nat) /\ Len(x) \in Nat
    BY NodeIs
  <2>2. 0 \in 0 .. Len(x) /\ Up(x, 0) = <<>>
    BY <2>1, UpFacts
  <2> QED BY <1>1, <1>2, <2>2 DEF UpInv, Ended
<1>3. ASSUME NEW x \in DOMAIN c.graph, Exec(c, x) PROVE FALSE
  <2>1. c.state[x] = "pending" /\ UnderRunning(c, x)
    BY <1>1, <1>3 DEF MarksInv
  <2>2. x # <<>>
    BY <2>1 DEF Ended
  <2> QED BY <1>2, <2>1, <2>2, ParentIs DEF UnderRunning
<1>4. ASSUME c.calls # <<>>, Tail(c.calls) # <<>> PROVE FALSE
  <2>1. Tail(c.calls) \in Seq(Calls(c.graph))
    BY <1>4, TailIs
  <2>2. Head(Tail(c.calls)) \in ToSet(Tail(c.calls))
    BY <1>4, <2>1, PopIs
  <2> QED BY <1>3, <1>4, <2>2, TailIs
<1> QED BY <1>2, <1>3, <1>4

LEMMA TreeFinishes ==
    ASSUME NEW c, NEW d, IsGraph(c.graph), c \in ContextsOf(c.graph), Shape(c), TreeInv(c),
           <<>> \in DOMAIN c.graph, Ended(c, <<>>),
           d.graph = c.graph, d.done = TRUE, d.state = c.state, d.current = c.current,
           d.calls = <<>>, \A x \in DOMAIN c.graph : Prop(c, x) => x = <<>>
    PROVE  TreeInv(d) /\ Shape(d)
<1>1. /\ MarksInv(c) /\ RootInv(c) /\ ContainerInv(c) /\ UpInv(c) /\ SpineInv(c)
  BY DEF TreeInv
<1>2. \A x : ~Exec(d, x) /\ ~Prop(d, x)
  BY EmptyIs DEF Exec, Prop
<1>3. \A x \in DOMAIN c.graph : ~Exec(c, x)
  BY RootEnds
<1>4. MarksInv(d)
  BY <1>2 DEF MarksInv
<1>5. RootInv(d)
  BY DEF RootInv, Ended, NoGraph
<1>6. ASSUME NEW z \in Containers(c.graph) PROVE ContainerAt(d, z)
  <2>1. z \in DOMAIN c.graph /\ ContainerAt(c, z)
    BY <1>1, ContainerIs DEF ContainerInv
  <2>2. \A x \in Steps(c.graph, z) : x \in DOMAIN c.graph /\ x # <<>>
    BY <2>1, StepsAre
  <2>3. \A x \in Steps(c.graph, z) : (Exec(d, x) <=> Exec(c, x)) /\ ~Prop(c, x)
    BY <1>2, <1>3, <2>2
  <2> QED BY <2>1, <2>3, SameContainer
<1>7. ContainerInv(d) /\ UpInv(d) /\ SpineInv(d)
  BY <1>1, <1>6 DEF ContainerInv, UpInv, SpineInv
<1>8. Shape(d)
  BY EmptyIs DEF Shape
<1> QED BY <1>4, <1>5, <1>7, <1>8 DEF TreeInv

\* Nothing that the tree is about changes.
LEMMA TreeSame ==
    ASSUME NEW c, NEW d, TreeInv(c), Shape(c), d.graph = c.graph, d.done = c.done,
           d.state = c.state, d.current = c.current, d.calls = c.calls
    PROVE  TreeInv(d) /\ Shape(d)
<1>1. \A x : (Exec(d, x) <=> Exec(c, x)) /\ (Prop(d, x) <=> Prop(c, x))
  BY DEF Exec, Prop
<1>2. ASSUME NEW z \in Containers(c.graph) PROVE ContainerAt(d, z)
  <2>1. ContainerAt(c, z)
    BY DEF TreeInv, ContainerInv
  <2> QED BY <1>1, <2>1, SameContainer
<1>3. MarksInv(d) /\ RootInv(d)
  BY <1>1 DEF TreeInv, MarksInv, RootInv, UnderRunning, Ended
<1>4. ContainerInv(d) /\ UpInv(d) /\ SpineInv(d)
  BY <1>2 DEF TreeInv, ContainerInv, UpInv, SpineInv
<1> QED BY <1>3, <1>4 DEF TreeInv, Shape

\* Before anything is called, and when there is nothing to call.
LEMMA TreeBegins ==
    ASSUME NEW c, IsGraph(c.graph), c \in ContextsOf(c.graph), NEW d, d.graph = c.graph,
           d.state = c.state, \A p \in DOMAIN c.graph : c.state[p] = "pending",
           IF c.graph = NoGraph THEN d.calls = <<>> /\ d.done
           ELSE d.calls = << <<"execute", <<>> >> >> /\ ~d.done
    PROVE  TreeInv(d) /\ Shape(d)
<1>1. CASE c.graph = NoGraph
  <2>1. \A p : p \notin DOMAIN c.graph
    BY <1>1 DEF NoGraph
  <2>2. Shape(d)
    BY <1>1, EmptyIs DEF Shape
  <2>3. MarksInv(d) /\ RootInv(d) /\ ContainerInv(d) /\ UpInv(d) /\ SpineInv(d)
    BY <1>1, <2>1 DEF MarksInv, RootInv, ContainerInv, Containers, UpInv, SpineInv
  <2> QED BY <2>2, <2>3 DEF TreeInv
<1>2. CASE c.graph # NoGraph
  <2>1. <<>> \in DOMAIN c.graph
    BY <1>2 DEF IsGraph
  <2>2. /\ d.calls # <<>> /\ Head(d.calls) = <<"execute", <<>> >> /\ Tail(d.calls) = <<>>
        /\ ToSet(d.calls) = { <<"execute", <<>> >> } /\ IsInjective(d.calls)
    BY <1>2, OneIs
  <2>3. (\A x : Exec(d, x) <=> x = <<>>) /\ \A x : ~Prop(d, x)
    BY <2>2 DEF Exec, Prop
  <2>4. Shape(d)
    BY <2>2, EmptyIs DEF Shape
  <2>5. MarksInv(d)
    BY <2>3 DEF MarksInv, UnderRunning
  <2>6. RootInv(d)
    BY <1>2, <2>1, <2>3 DEF RootInv, Ended
  <2>7. ASSUME NEW z \in Containers(c.graph) PROVE ContainerAt(d, z)
    <3>1. z \in DOMAIN c.graph /\ \A x \in Steps(c.graph, z) : x \in DOMAIN c.graph
      BY ContainerIs DEF Steps
    <3> QED BY <3>1 DEF ContainerAt
  <2>8. ContainerInv(d) /\ UpInv(d) /\ SpineInv(d)
    BY <2>7 DEF ContainerInv, UpInv, SpineInv
  <2> QED BY <2>4, <2>5, <2>6, <2>8 DEF TreeInv
<1> QED BY <1>1, <1>2

(***************************************************************************)
(* Lemmas: the steps of the engine and the results of the leaves.          *)
(***************************************************************************)

LEMMA HeardMore ==
    ASSUME NEW h, NEW p, NEW k, NEW o, NEW x, NEW j, NEW O
    PROVE  Heard(h \cup {<<p, k, o>>}, x, j, O) <=>
                Heard(h, x, j, O) \/ (x = p /\ j = k /\ o \in O)
BY DEF Heard

LEMMA LeafIs ==
    ASSUME NEW g, IsGraph(g), NEW p \in Leaves(g)
    PROVE  /\ p \in DOMAIN g /\ p \notin Containers(g) /\ Steps(g, p) = {}
           /\ g[p] \in {"internal", "call", "calls", "nothing", "raises"}
           /\ g[p] = "nothing" => NumRequests(g[p]) = 0
           /\ g[p] = "call" => NumRequests(g[p]) = 1
           /\ g[p] = "calls" => NumRequests(g[p]) = 2
<1>1. p \in DOMAIN g /\ p \notin Containers(g) /\ g[p] \notin {"order", "pipe"}
  BY DEF Leaves, Containers
<1>2. g[p] \in {"internal", "call", "calls", "nothing", "raises"}
  BY <1>1, NodeIs DEF Kinds
<1>3. Steps(g, p) = {}
  BY <1>1, StepsAre
<1> QED BY <1>1, <1>2, <1>3 DEF NumRequests

\* What is due of a leaf.
LEMMA DueIs ==
    ASSUME NEW g, NEW state, NEW h, NEW W
    PROVE  W = {d \in Due(g, state, h) : d[2] > 0} <=>
              /\ W \subseteq Leaves(g) \X {1, 2}
              /\ \A p \in Leaves(g), k \in {1, 2} :
                    <<p, k>> \in W <=> IsDue(g, state, h, p, k)
<1> DEFINE D == {d \in Due(g, state, h) : d[2] > 0}
<1>1. D \subseteq Leaves(g) \X {1, 2}
  BY DEF Due
<1>2. \A p \in Leaves(g), k \in {1, 2} : <<p, k>> \in D <=> IsDue(g, state, h, p, k)
  BY DEF Due
<1> HIDE DEF D
<1>3. ASSUME W \subseteq Leaves(g) \X {1, 2},
             \A p \in Leaves(g), k \in {1, 2} : <<p, k>> \in W <=> <<p, k>> \in D
      PROVE  W = D
  <2>1. ASSUME NEW d \in W PROVE d \in D
    <3>1. PICK p \in Leaves(g), k \in {1, 2} : d = <<p, k>>
      BY <1>3
    <3> QED BY <1>3, <3>1
  <2>2. ASSUME NEW d \in D PROVE d \in W
    <3>1. PICK p \in Leaves(g), k \in {1, 2} : d = <<p, k>>
      BY <1>1
    <3> QED BY <1>3, <3>1
  <2> QED BY <2>1, <2>2
<1>4. W = D <=> /\ W \subseteq Leaves(g) \X {1, 2}
                /\ \A p \in Leaves(g), k \in {1, 2} :
                      <<p, k>> \in W <=> IsDue(g, state, h, p, k)
  BY <1>1, <1>2, <1>3
<1> QED BY <1>4 DEF D

LEMMA WaitingAre ==
    ASSUME NEW c, NEW h
    PROVE  c.waiting = {d \in Due(c.graph, c.state, h) : d[2] > 0} <=>
              /\ c.waiting \subseteq Leaves(c.graph) \X {1, 2}
              /\ \A p \in Leaves(c.graph), k \in {1, 2} :
                    <<p, k>> \in c.waiting <=> IsDue(c.graph, c.state, h, p, k)
<1> DEFINE W == c.waiting
           g == c.graph
           s == c.state
<1> HIDE DEF W, g, s
<1>1. W = {d \in Due(g, s, h) : d[2] > 0} <=>
              /\ W \subseteq Leaves(g) \X {1, 2}
              /\ \A p \in Leaves(g), k \in {1, 2} : <<p, k>> \in W <=> IsDue(g, s, h, p, k)
  BY DueIs
<1> QED BY <1>1 DEF W, g, s

LEMMA WaitingDue ==
    ASSUME NEW c, NEW h, WaitingInv(c, h)
    PROVE  /\ c.waiting \subseteq Leaves(c.graph) \X {1, 2}
           /\ \A p \in Leaves(c.graph), k \in {1, 2} :
                 <<p, k>> \in c.waiting <=> IsDue(c.graph, c.state, h, p, k)
<1>1. c.waiting = {d \in Due(c.graph, c.state, h) : d[2] > 0}
  BY DEF WaitingInv
<1> QED BY <1>1, WaitingAre

\* A leaf of which nothing new is heard.
LEMMA LeafStays ==
    ASSUME NEW g, NEW h, NEW h2, NEW p, NEW s, NEW s2,
           \A k, O : Heard(h2, p, k, O) <=> Heard(h, p, k, O), s[p] = s2[p]
    PROVE  /\ LeafMeaning(g, h2, p) = LeafMeaning(g, h, p)
           /\ \A k : IsDue(g, s, h, p, k) <=> IsDue(g, s2, h2, p, k)
<1>1. LeafMeaning(g, h2, p) = LeafMeaning(g, h, p)
  BY DEF LeafMeaning
<1>2. \A k : IsDue(g, s, h, p, k) <=> IsDue(g, s2, h2, p, k)
  BY DEF IsDue
<1> QED BY <1>1, <1>2

\* Only containers change, or what is to be done is taken away to be done.
LEMMA LeavesStay ==
    ASSUME NEW c, NEW d, NEW h, LeavesInv(c, h), d.graph = c.graph,
           \A p \in Leaves(c.graph) : d.state[p] = c.state[p],
           d.waiting = c.waiting, d.results = c.results,
           \/ d.sends = c.sends /\ d.runs = c.runs
           \/ d.sends = {} /\ d.runs = <<>>
    PROVE  LeavesInv(d, h)
<1>1. HeardInv(c, h) /\ LeafInv(c, h) /\ WaitingInv(c, h) /\ ResultsInv(c)
  BY DEF LeavesInv
<1>2. HeardInv(d, h) /\ LeafInv(d, h)
  BY <1>1 DEF HeardInv, LeafInv
<1>3. WaitingInv(d, h)
  <2>1. /\ c.waiting \subseteq Leaves(c.graph) \X {1, 2}
        /\ \A p \in Leaves(c.graph), k \in {1, 2} :
              <<p, k>> \in c.waiting <=> IsDue(c.graph, c.state, h, p, k)
    BY <1>1, WaitingDue
  <2>2. /\ d.waiting \subseteq Leaves(d.graph) \X {1, 2}
        /\ \A p \in Leaves(d.graph), k \in {1, 2} :
              <<p, k>> \in d.waiting <=> IsDue(d.graph, d.state, h, p, k)
    <3>1. \A p \in Leaves(c.graph), k \in {1, 2} :
              IsDue(c.graph, c.state, h, p, k) <=> IsDue(c.graph, d.state, h, p, k)
      BY DEF IsDue
    <3> QED BY <2>1, <3>1
  <2>3. d.waiting = {x \in Due(d.graph, d.state, h) : x[2] > 0}
    BY <2>2, WaitingAre
  <2> QED BY <1>1, <2>3, EmptyIs DEF WaitingInv
<1>4. ResultsInv(d)
  BY <1>1 DEF ResultsInv, Ended
<1> QED BY <1>2, <1>3, <1>4 DEF LeavesInv

\* A leaf starts, goes on or ends.
LEMMA LeafChanges ==
    ASSUME NEW c, NEW d, NEW h, NEW h2, c \in ContextsOf(c.graph), LeavesInv(c, h),
           NEW p \in Leaves(c.graph), d.graph = c.graph,
           HeardInv(d, h2), d.state[p] # "pending", d.state[p] = LeafMeaning(c.graph, h2, p),
           \A x \in Leaves(c.graph) \ {p} :
                /\ d.state[x] = c.state[x]
                /\ \A k, O : Heard(h2, x, k, O) <=> Heard(h, x, k, O)
                /\ \A k \in {1, 2} : <<x, k>> \in d.waiting <=> <<x, k>> \in c.waiting,
           d.waiting \subseteq Leaves(c.graph) \X {1, 2}, d.sends \subseteq d.waiting,
           \A k \in {1, 2} : <<p, k>> \in d.waiting <=> IsDue(c.graph, d.state, h2, p, k),
           p \notin ToSet(c.runs),
           \/ d.runs = c.runs
           \/ d.runs = Append(c.runs, p) /\ c.graph[p] = "internal" /\ d.state[p] = "running",
           ~Ended(c, p),
           \/ d.results = c.results /\ ~Ended(d, p)
           \/ /\ Ended(d, p)
              /\ \E o \in Outcomes : d.results = Append(c.results, [step |-> p, outcome |-> o])
    PROVE  LeavesInv(d, h2)
<1>1. HeardInv(c, h) /\ LeafInv(c, h) /\ WaitingInv(c, h) /\ ResultsInv(c)
  BY DEF LeavesInv
<1>2. LeafInv(d, h2)
  <2>1. ASSUME NEW x \in Leaves(c.graph), x # p
        PROVE  /\ d.state[x] = "pending" => \A k \in Nat : ~Heard(h2, x, k, Outcomes)
               /\ d.state[x] # "pending" => d.state[x] = LeafMeaning(c.graph, h2, x)
    <3>1. (\A k, O : Heard(h2, x, k, O) <=> Heard(h, x, k, O)) /\ d.state[x] = c.state[x]
      BY <2>1
    <3>2. LeafMeaning(c.graph, h2, x) = LeafMeaning(c.graph, h, x)
      BY <3>1, LeafStays
    <3> QED BY <1>1, <3>1, <3>2 DEF LeafInv
  <2> QED BY <2>1 DEF LeafInv
<1>3. WaitingInv(d, h2)
  <2>1. \A x \in Leaves(c.graph), k \in {1, 2} :
            <<x, k>> \in c.waiting <=> IsDue(c.graph, c.state, h, x, k)
    BY <1>1, WaitingDue
  <2>2. ASSUME NEW x \in Leaves(c.graph), NEW k \in {1, 2}
        PROVE  <<x, k>> \in d.waiting <=> IsDue(d.graph, d.state, h2, x, k)
    <3>1. CASE x # p
      <4>1. (\A i, O : Heard(h2, x, i, O) <=> Heard(h, x, i, O)) /\ c.state[x] = d.state[x]
        BY <3>1
      <4>2. IsDue(c.graph, c.state, h, x, k) <=> IsDue(c.graph, d.state, h2, x, k)
        BY <4>1, LeafStays
      <4> QED BY <2>1, <3>1, <4>2
    <3> QED BY <3>1
  <2>3. d.waiting = {x \in Due(d.graph, d.state, h2) : x[2] > 0}
    <3>1. /\ d.waiting \subseteq Leaves(d.graph) \X {1, 2}
          /\ \A x \in Leaves(d.graph), k \in {1, 2} :
                <<x, k>> \in d.waiting <=> IsDue(d.graph, d.state, h2, x, k)
      BY <2>2
    <3> QED BY <3>1, WaitingAre
  <2>4. /\ IsInjective(c.runs) /\ c.runs \in Seq(DOMAIN c.graph) /\ p \in DOMAIN c.graph
        /\ \A x \in ToSet(c.runs) :
            x \in Leaves(c.graph) /\ c.graph[x] = "internal" /\ c.state[x] = "running"
    BY <1>1 DEF WaitingInv, ContextsOf, Leaves
  <2>5. \A x \in ToSet(c.runs) : d.state[x] = "running"
    BY <2>4
  <2>6. /\ IsInjective(d.runs)
        /\ \A x \in ToSet(d.runs) :
            x \in Leaves(c.graph) /\ c.graph[x] = "internal" /\ d.state[x] = "running"
    <3>1. CASE d.runs = c.runs
      BY <2>4, <2>5, <3>1
    <3>2. CASE d.runs = Append(c.runs, p) /\ c.graph[p] = "internal" /\ d.state[p] = "running"
      <4>1. IsInjective(d.runs) /\ ToSet(d.runs) = ToSet(c.runs) \cup {p}
        BY <2>4, <3>2, AppendIs
      <4> QED BY <2>4, <2>5, <3>2, <4>1
    <3> QED BY <3>1, <3>2
  <2> QED BY <2>3, <2>6 DEF WaitingInv
<1>4. ResultsInv(d)
  <2> DEFINE R == [step : DOMAIN c.graph, outcome : Outcomes]
  <2>1. /\ c.results \in Seq(R) /\ p \in DOMAIN c.graph
        /\ \A x \in Leaves(c.graph) \ {p} : Ended(d, x) <=> Ended(c, x)
    BY DEF ContextsOf, Leaves, Ended
  <2>2. CASE d.results = c.results /\ ~Ended(d, p)
    BY <1>1, <2>1, <2>2 DEF ResultsInv
  <2>3. ASSUME Ended(d, p), NEW o \in Outcomes,
               d.results = Append(c.results, [step |-> p, outcome |-> o])
        PROVE  ResultsInv(d)
    <3> DEFINE e == [step |-> p, outcome |-> o]
    <3>1. e \in R /\ e.step = p
      BY <2>1
    <3>2. /\ Len(c.results) \in Nat /\ DOMAIN c.results = 1 .. Len(c.results)
          /\ DOMAIN d.results = 1 .. Len(c.results) + 1
          /\ d.results[Len(c.results) + 1] = e
          /\ \A i \in 1 .. Len(c.results) : d.results[i] = c.results[i]
      <4> HIDE DEF R, e
      <4>1. /\ Append(c.results, e) \in Seq(R)
            /\ Len(Append(c.results, e)) = Len(c.results) + 1
            /\ Append(c.results, e)[Len(c.results) + 1] = e
            /\ \A i \in 1 .. Len(c.results) : Append(c.results, e)[i] = c.results[i]
        BY <2>1, <3>1, AppendProperties
      <4>2. d.results = Append(c.results, e)
        BY <2>3 DEF e
      <4> QED BY <2>1, <4>1, <4>2, LenProperties
    <3> HIDE DEF R, e
    <3>3. \A i \in DOMAIN d.results : i \in DOMAIN c.results \/ i = Len(c.results) + 1
      BY <3>2
    <3>4. \A i \in DOMAIN c.results : i \in DOMAIN d.results /\ d.results[i] = c.results[i]
                                      /\ c.results[i].step # p
      BY <1>1, <3>2 DEF ResultsInv
    <3>5. /\ Len(c.results) + 1 \in DOMAIN d.results
          /\ d.results[Len(c.results) + 1].step = p
      BY <3>1, <3>2
    <3>6. \A i \in DOMAIN d.results :
            d.results[i].step \in Leaves(c.graph) /\ Ended(d, d.results[i].step)
      BY <1>1, <2>1, <2>3, <3>3, <3>4, <3>5 DEF ResultsInv
    <3>7. \A x \in Leaves(c.graph) :
            Ended(d, x) => \E i \in DOMAIN d.results : d.results[i].step = x
      BY <1>1, <2>1, <3>4, <3>5 DEF ResultsInv
    <3>8. \A i, j \in DOMAIN d.results : d.results[i].step = d.results[j].step => i = j
      BY <1>1, <3>3, <3>4, <3>5 DEF ResultsInv
    <3> QED BY <3>6, <3>7, <3>8 DEF ResultsInv
  <2> QED BY <2>2, <2>3
<1> QED BY <1>2, <1>3, <1>4 DEF LeavesInv

\* What a leaf that has not been heard of means when it starts.
LEMMA LeafStarts ==
    ASSUME NEW c, NEW h, IsGraph(c.graph), LeavesInv(c, h), NEW p \in Leaves(c.graph),
           c.state[p] = "pending"
    PROVE  /\ c.graph[p] = "raises" => LeafMeaning(c.graph, h, p) = "error"
           /\ c.graph[p] = "nothing" => LeafMeaning(c.graph, h, p) = "done"
           /\ c.graph[p] \in {"internal", "call", "calls"} =>
                LeafMeaning(c.graph, h, p) = "running"
           /\ \A s : \A k \in {1, 2} :
                c.graph[p] \in {"internal", "call", "calls"} /\ s[p] = "running" =>
                    (IsDue(c.graph, s, h, p, k) <=> c.graph[p] # "internal" /\ k = 1)
           /\ ~Ended(c, p) /\ \A k \in {1, 2} : <<p, k>> \notin c.waiting
           /\ p \notin ToSet(c.runs)
<1>1. LeafInv(c, h) /\ WaitingInv(c, h)
  BY DEF LeavesInv
<1>2. /\ c.graph[p] \in {"internal", "call", "calls", "nothing", "raises"}
      /\ c.graph[p] = "nothing" => NumRequests(c.graph[p]) = 0
      /\ c.graph[p] = "call" => NumRequests(c.graph[p]) = 1
      /\ c.graph[p] = "calls" => NumRequests(c.graph[p]) = 2
  BY LeafIs
<1>3. \A k \in Nat : ~Heard(h, p, k, Outcomes)
  BY <1>1 DEF LeafInv
<1>4. \A k \in Nat : /\ ~Heard(h, p, k, {"error"}) /\ ~Heard(h, p, k, {"ok"})
                     /\ ~Heard(h, p, k, {"ok", "bad"}) /\ ~Heard(h, p, k, {"bad", "error"})
  BY <1>3 DEF Heard, Outcomes
<1>5. /\ c.graph[p] = "raises" => LeafMeaning(c.graph, h, p) = "error"
      /\ c.graph[p] = "nothing" => LeafMeaning(c.graph, h, p) = "done"
      /\ c.graph[p] \in {"internal", "call", "calls"} =>
            LeafMeaning(c.graph, h, p) = "running"
  BY <1>2, <1>4 DEF LeafMeaning
<1>6. ASSUME NEW s, NEW k \in {1, 2}, s[p] = "running",
             c.graph[p] \in {"internal", "call", "calls"}
      PROVE  IsDue(c.graph, s, h, p, k) <=> c.graph[p] # "internal" /\ k = 1
  BY <1>2, <1>3, <1>4, <1>6 DEF IsDue
<1>7. \A k \in {1, 2} : <<p, k>> \notin c.waiting
  <2>1. \A k \in {1, 2} : <<p, k>> \in c.waiting => IsDue(c.graph, c.state, h, p, k)
    BY <1>1, WaitingDue
  <2> QED BY <2>1 DEF IsDue
<1>8. ~Ended(c, p) /\ p \notin ToSet(c.runs)
  BY <1>1 DEF Ended, WaitingInv
<1> QED BY <1>5, <1>6, <1>7, <1>8

\* The result that a leaf waits for.
HearsAs(c, h, h2, p, k, o) ==
    /\ HeardInv(c, h2) /\ c.state[p] = "running"
    /\ \A x, j, O : x # p => (Heard(h2, x, j, O) <=> Heard(h, x, j, O))
    /\ c.graph[p] \in {"internal", "call", "calls"}
    /\ c.graph[p] = "internal" <=> k = 0
    /\ k = 0 => LeafMeaning(c.graph, h2, p) = IF o = "error" THEN "error" ELSE "done"
    /\ k > 0 /\ o # "ok" => LeafMeaning(c.graph, h2, p) = "error"
    /\ k > 0 /\ o = "ok" /\ k >= NumRequests(c.graph[p]) =>
         LeafMeaning(c.graph, h2, p) = "done"
    /\ k > 0 /\ o = "ok" /\ k < NumRequests(c.graph[p]) =>
         /\ LeafMeaning(c.graph, h2, p) = "running" /\ k = 1
         /\ \A s : s[p] = "running" =>
             \A j \in {1, 2} : IsDue(c.graph, s, h2, p, j) <=> j = k + 1

LEMMA LeafHears ==
    ASSUME NEW c, NEW h, NEW h2, IsGraph(c.graph), LeavesInv(c, h), NEW p \in Leaves(c.graph),
           NEW k \in {0, 1, 2}, IsDue(c.graph, c.state, h, p, k), NEW o \in Outcomes,
           h2 = h \cup {<<p, k, o>>}
    PROVE  HearsAs(c, h, h2, p, k, o)
<1> DEFINE n == NumRequests(c.graph[p])
<1>1. HeardInv(c, h) /\ LeafInv(c, h)
  BY DEF LeavesInv
<1>2. /\ p \in DOMAIN c.graph
      /\ c.graph[p] \in {"internal", "call", "calls", "nothing", "raises"}
      /\ c.graph[p] = "nothing" => n = 0
      /\ c.graph[p] = "call" => n = 1
      /\ c.graph[p] = "calls" => n = 2
  BY LeafIs
<1>3. c.state[p] = "running" /\ ~Heard(h, p, k, Outcomes)
  BY DEF IsDue
<1>4. LeafMeaning(c.graph, h, p) = "running"
  BY <1>1, <1>3 DEF LeafInv
<1>5. c.graph[p] \in {"internal", "call", "calls"}
  BY <1>2, <1>4 DEF LeafMeaning
<1>6. /\ c.graph[p] = "internal" => k = 0
      /\ c.graph[p] # "internal" =>
            k \in 1 .. n /\ \A j \in 1 .. k - 1 : Heard(h, p, j, {"ok"})
  BY DEF IsDue
<1>7. \A x, j, O : Heard(h2, x, j, O) <=> Heard(h, x, j, O) \/ (x = p /\ j = k /\ o \in O)
  BY DEF Heard
<1> HIDE DEF n
<1>8. HeardInv(c, h2)
  <2>1. h2 \subseteq Leaves(c.graph) \X Nat \X Outcomes
    BY <1>1 DEF HeardInv
  <2>2. ASSUME NEW x \in DOMAIN c.graph, NEW j \in Nat, NEW a \in Outcomes, <<x, j, a>> \in h2
        PROVE  /\ IF c.graph[x] = "internal" THEN j = 0
                  ELSE /\ c.graph[x] \in {"call", "calls"} /\ j \in 1 .. NumRequests(c.graph[x])
                       /\ \A i \in 1 .. j - 1 : Heard(h2, x, i, {"ok"})
               /\ \A b \in Outcomes : <<x, j, b>> \in h2 => b = a
    <3>1. CASE <<x, j, a>> \in h
      <4>1. /\ IF c.graph[x] = "internal" THEN j = 0
               ELSE /\ c.graph[x] \in {"call", "calls"} /\ j \in 1 .. NumRequests(c.graph[x])
                    /\ \A i \in 1 .. j - 1 : Heard(h, x, i, {"ok"})
            /\ \A b \in Outcomes : <<x, j, b>> \in h => b = a
        BY <1>1, <3>1 DEF HeardInv
      <4>2. ~(x = p /\ j = k)
        BY <1>3, <3>1 DEF Heard
      <4>3. \A b \in Outcomes : <<x, j, b>> \in h2 => <<x, j, b>> \in h
        BY <4>2
      <4> QED BY <1>7, <4>1, <4>3
    <3>2. CASE <<x, j, a>> \notin h
      <4>1. x = p /\ j = k /\ a = o
        BY <2>2, <3>2
      <4>2. \A b \in Outcomes : <<p, k, b>> \in h2 => b = o
        BY <1>3 DEF Heard
      <4>3. \A i \in 1 .. k - 1 : Heard(h, p, i, {"ok"}) => Heard(h2, p, i, {"ok"})
        BY <1>7
      <4>4. IF c.graph[p] = "internal" THEN k = 0
            ELSE /\ c.graph[p] \in {"call", "calls"} /\ k \in 1 .. NumRequests(c.graph[p])
                 /\ \A i \in 1 .. k - 1 : Heard(h2, p, i, {"ok"})
        BY <1>5, <1>6, <4>3 DEF n
      <4> QED BY <4>1, <4>2, <4>4
    <3> QED BY <3>1, <3>2
  <2> QED BY <2>1, <2>2 DEF HeardInv
<1>9. \A j \in Nat : \A O : j > k /\ O \subseteq Outcomes /\ k > 0 => ~Heard(h, p, j, O)
  <2>1. ASSUME NEW j \in Nat, j > k, k > 0, NEW a \in Outcomes, <<p, j, a>> \in h PROVE FALSE
    <3>1. c.graph[p] # "internal" /\ j \in 1 .. NumRequests(c.graph[p])
          /\ \A i \in 1 .. j - 1 : Heard(h, p, i, {"ok"})
      BY <1>1, <1>2, <2>1 DEF HeardInv
    <3>2. k \in 1 .. j - 1
      BY <2>1
    <3> QED BY <1>3, <3>1, <3>2 DEF Heard, Outcomes
  <2> QED BY <2>1 DEF Heard
<1>10. CASE c.graph[p] = "internal"
  <2>1. LeafMeaning(c.graph, h2, p) = IF o = "error" THEN "error" ELSE "done"
    <3>1. ~Heard(h, p, 0, {"error"}) /\ ~Heard(h, p, 0, {"ok", "bad"})
      BY <1>4, <1>10 DEF LeafMeaning
    <3>2. /\ Heard(h2, p, 0, {"error"}) <=> o = "error"
          /\ Heard(h2, p, 0, {"ok", "bad"}) <=> o \in {"ok", "bad"}
      BY <1>6, <1>7, <1>10, <3>1
    <3> QED BY <1>10, <3>2 DEF LeafMeaning, Outcomes
  <2> QED BY <1>3, <1>6, <1>7, <1>8, <1>10, <2>1 DEF HearsAs
<1>11. CASE c.graph[p] \in {"call", "calls"}
  <2>1. n \in {1, 2} /\ k \in 1 .. n /\ k \in {1, 2}
    BY <1>2, <1>6, <1>11
  <2>2. /\ \A j \in 1 .. n : ~Heard(h, p, j, {"bad", "error"})
        /\ LeafMeaning(c.graph, h2, p) =
             IF \E j \in 1 .. n : Heard(h2, p, j, {"bad", "error"}) THEN "error"
             ELSE IF \A j \in 1 .. n : Heard(h2, p, j, {"ok"}) THEN "done" ELSE "running"
    BY <1>4, <1>11 DEF LeafMeaning, n
  <2>3. o # "ok" => LeafMeaning(c.graph, h2, p) = "error"
    BY <1>7, <2>1, <2>2 DEF Outcomes
  <2>4. o = "ok" => \A j \in 1 .. n : ~Heard(h2, p, j, {"bad", "error"})
    BY <1>7, <2>2
  <2>5. \A j \in 1 .. k - 1 : Heard(h2, p, j, {"ok"})
    BY <1>6, <1>7, <1>11
  <2>6. o = "ok" => Heard(h2, p, k, {"ok"})
    BY <1>7
  <2>7. ASSUME o = "ok", k >= n PROVE LeafMeaning(c.graph, h2, p) = "done"
    <3>1. \A j \in 1 .. n : j = k \/ j \in 1 .. k - 1
      BY <2>1, <2>7
    <3>2. \A j \in 1 .. n : Heard(h2, p, j, {"ok"})
      BY <2>5, <2>6, <2>7, <3>1
    <3> QED BY <2>2, <2>4, <2>7, <3>2
  <2>8. ASSUME o = "ok", k < n
        PROVE  /\ LeafMeaning(c.graph, h2, p) = "running" /\ k = 1
               /\ \A s : s[p] = "running" =>
                    \A j \in {1, 2} : IsDue(c.graph, s, h2, p, j) <=> j = k + 1
    <3>1. k = 1 /\ n = 2
      BY <2>1, <2>8
    <3>2. ~Heard(h2, p, 2, {"ok"}) /\ ~Heard(h2, p, 2, Outcomes)
      <4>1. ~Heard(h, p, 2, {"ok"}) /\ ~Heard(h, p, 2, Outcomes)
        BY <1>9, <3>1 DEF Outcomes
      <4> QED BY <1>7, <3>1, <4>1
    <3>3. LeafMeaning(c.graph, h2, p) = "running"
      BY <2>2, <2>4, <2>8, <3>1, <3>2
    <3>4. Heard(h2, p, 1, Outcomes) /\ Heard(h2, p, 1, {"ok"})
      BY <1>7, <2>8, <3>1
    <3>5. ASSUME NEW s, s[p] = "running", NEW j \in {1, 2}
          PROVE  IsDue(c.graph, s, h2, p, j) <=> j = k + 1
      <4>1. NumRequests(c.graph[p]) = 2 /\ c.graph[p] # "internal"
        BY <1>11, <3>1 DEF n
      <4>2. CASE j = 1
        BY <3>1, <3>4, <4>2 DEF IsDue
      <4>3. CASE j = 2
        <5>1. \A i \in 1 .. j - 1 : Heard(h2, p, i, {"ok"})
          BY <3>4, <4>3
        <5> QED BY <3>1, <3>2, <3>5, <4>1, <4>3, <5>1 DEF IsDue
      <4> QED BY <4>2, <4>3
    <3> QED BY <3>1, <3>3, <3>5
  <2>9. k > 0 /\ k # 0 /\ c.graph[p] # "internal" /\ n = NumRequests(c.graph[p])
    BY <1>11, <2>1 DEF n
  <2>10. \A x, j, O : x # p => (Heard(h2, x, j, O) <=> Heard(h, x, j, O))
    BY <1>7
  <2> QED BY <1>3, <1>5, <1>8, <2>3, <2>7, <2>8, <2>9, <2>10, Zenon DEF HearsAs
<1> QED BY <1>5, <1>10, <1>11 DEF HearsAs

(***************************************************************************)
(* Lemmas: a failure that no pipe is above.                                *)
(***************************************************************************)

Failed(c, p) == p \in Leaves(c.graph) /\ c.state[p] = "error" /\ Serial(c.graph, p)

\* While a step is to be executed or a leaf is at work, there is none.
LEMMA FailNone ==
    ASSUME NEW c, NEW p, FailInv(c), Failed(c, p)
    PROVE  /\ \A x : ~Exec(c, x)
           /\ \A x \in Leaves(c.graph) : c.state[x] # "running"
<1>1. /\ \A q \in Leaves(c.graph) : c.state[q] # "running"
      /\ \/ c.calls = <<>>
         \/ \E n \in 0 .. Len(p) : c.calls = << <<"propagate", Up(p, n)>> >>
  BY DEF FailInv, Failed
<1>2. ASSUME NEW x PROVE ~Exec(c, x)
  <2>1. CASE c.calls = <<>>
    BY <2>1, EmptyIs DEF Exec
  <2>2. CASE \E n \in 0 .. Len(p) : c.calls = << <<"propagate", Up(p, n)>> >>
    <3>1. PICK n \in 0 .. Len(p) : c.calls = << <<"propagate", Up(p, n)>> >>
      BY <2>2
    <3>2. ToSet(c.calls) = { <<"propagate", Up(p, n)>> }
      BY <3>1, OneIs
    <3> QED BY <3>2 DEF Exec
  <2> QED BY <1>1, <2>1, <2>2
<1> QED BY <1>1, <1>2

LEMMA FailStays ==
    ASSUME NEW c, NEW d, \A p : ~Failed(c, p), d.graph = c.graph,
           \A p \in Leaves(c.graph) : d.state[p] = "error" => c.state[p] = "error"
    PROVE  FailInv(d)
BY DEF FailInv, Failed

LEMMA FailSame ==
    ASSUME NEW c, NEW d, FailInv(c), d.graph = c.graph, d.state = c.state, d.calls = c.calls,
           d.results = c.results, d.done = c.done, d.wsgi = c.wsgi
    PROVE  FailInv(d)
BY DEF FailInv

\* A leaf under which is nothing.
LEMMA LeavesApart ==
    ASSUME NEW c, IsGraph(c.graph), UpInv(c), NEW a \in Leaves(c.graph),
           NEW b \in DOMAIN c.graph, c.state[b] = "running", Beneath(b, a)
    PROVE  a = b
<1>1. a \in DOMAIN c.graph /\ Steps(c.graph, a) = {}
  BY LeafIs
<1>2. a \in Seq(Nat) /\ Len(a) \in Nat /\ Len(b) \in Nat
  BY <1>1, NodeIs
<1>3. Len(a) \in 0 .. Len(b) /\ Up(b, Len(a)) = a
  BY <1>2 DEF Beneath
<1> QED BY <1>1, <1>3, NothingBelow

\* A leaf that no pipe is above starts: nothing is at work but what is above it, and
\* nothing else is to be called.
LEMMA AloneStarts ==
    ASSUME NEW c, IsGraph(c.graph), c \in ContextsOf(c.graph), Shape(c), TreeInv(c),
           NEW p \in Leaves(c.graph), Head(c.calls) = <<"execute", p>>, c.calls # <<>>,
           Serial(c.graph, p)
    PROVE  /\ \A x \in Leaves(c.graph) : c.state[x] # "running"
           /\ Tail(c.calls) = <<>>
<1>1. MarksInv(c) /\ ContainerInv(c) /\ UpInv(c) /\ SpineInv(c)
  BY DEF TreeInv
<1>2. p \in DOMAIN c.graph /\ Exec(c, p)
  BY LeafIs, HeadIs
<1>3. c.state[p] = "pending" /\ UnderRunning(c, p)
  BY <1>1, <1>2 DEF MarksInv
<1>4. p \in Seq(Nat) /\ Len(p) \in Nat
  BY <1>2, NodeIs
<1>5. ASSUME NEW a \in DOMAIN c.graph, c.state[a] = "running"
      PROVE  p # <<>> /\ Beneath(Front(p), a)
  <2>1. a \in Seq(Nat) /\ Len(a) \in Nat
    BY NodeIs
  <2>2. p # <<>>
    <3>1. 0 \in 0 .. Len(a) /\ Up(a, 0) = <<>>
      BY <2>1, UpFacts
    <3>2. c.state[<<>>] = "running"
      BY <1>1, <1>5, <3>1 DEF UpInv
    <3> QED BY <1>3, <3>2
  <2> DEFINE q == Front(p)
  <2>3. /\ q \in DOMAIN c.graph /\ c.state[q] = "running" /\ q \in Seq(Nat)
        /\ Len(q) \in Nat /\ Len(q) = Len(p) - 1 /\ c.graph[q] \in {"order", "pipe"}
    BY <1>2, <1>3, <2>2, ParentIs, NodeIs DEF UnderRunning
  <2> HIDE DEF q
  <2>4. ASSUME NEW n \in 0 .. Len(q) PROVE n \in 0 .. Len(p) /\ Up(q, n) = Up(p, n)
    <3>1. n \in 0 .. Len(p) /\ n <= Len(p) - 1
      BY <1>4, <2>3
    <3> QED BY <1>4, <3>1, UpFacts DEF q
  <2>5. Serial(c.graph, q)
    BY <2>4 DEF Serial
  <2>6. Up(q, Len(q)) = q /\ Len(q) \in 0 .. Len(q)
    BY <2>3, UpFacts
  <2>7. c.graph[q] = "order"
    BY <2>3, <2>5, <2>6 DEF Serial
  <2>8. Beneath(q, a) \/ Beneath(a, q)
    BY <1>1, <1>5, <2>3, <2>5 DEF SpineInv
  <2>9. ASSUME Beneath(a, q) PROVE a = q
    BY <1>1, <1>2, <1>3, <1>5, <2>2, <2>3, <2>7, <2>9, NotBeside DEF q
  <2>10. Beneath(q, a)
    BY <2>3, <2>6, <2>8, <2>9 DEF Beneath
  <2> QED BY <2>2, <2>10 DEF q
<1>6. \A x \in Leaves(c.graph) : c.state[x] # "running"
  <2>1. ASSUME NEW x \in Leaves(c.graph), c.state[x] = "running" PROVE FALSE
    <3>1. x \in DOMAIN c.graph /\ x \notin Containers(c.graph)
      BY LeafIs
    <3>2. p # <<>> /\ Beneath(Front(p), x)
      BY <1>5, <2>1, <3>1
    <3>3. Front(p) \in DOMAIN c.graph /\ Front(p) \in Containers(c.graph)
          /\ c.state[Front(p)] = "running"
      BY <1>2, <1>3, <3>2, ParentIs DEF UnderRunning
    <3>4. x = Front(p)
      BY <1>1, <3>2, <3>3, LeavesApart
    <3> QED BY <3>1, <3>3, <3>4
  <2> QED BY <2>1
<1>7. ASSUME Tail(c.calls) # <<>> PROVE FALSE
  <2> DEFINE e == Head(Tail(c.calls))
  <2>1. e \in ToSet(Tail(c.calls))
    BY <1>7, TailIs, PopIs
  <2>2. /\ e[2] # <<>> /\ c.graph[Front(e[2])] = "pipe" /\ e[2] \in DOMAIN c.graph
        /\ Exec(c, e[2])
    BY <1>7, <2>1, TailIs
  <2> DEFINE a == Front(e[2])
  <2>3. a \in DOMAIN c.graph /\ c.state[a] = "running" /\ c.graph[a] = "pipe"
    BY <1>1, <2>2, ParentIs DEF MarksInv, UnderRunning
  <2> HIDE DEF a, e
  <2>4. p # <<>> /\ Beneath(Front(p), a)
    BY <1>5, <2>3
  <2>5. /\ Front(p) \in DOMAIN c.graph /\ Len(Front(p)) = Len(p) - 1
        /\ Len(a) \in Nat
    BY <1>2, <2>3, <2>4, ParentIs, NodeIs
  <2>6. Len(a) \in 0 .. Len(p) /\ Len(a) <= Len(p) - 1 /\ Up(Front(p), Len(a)) = a
    BY <1>4, <2>4, <2>5 DEF Beneath
  <2>7. Up(p, Len(a)) = a
    BY <1>4, <2>6, UpFacts
  <2> QED BY <2>3, <2>6, <2>7 DEF Serial
<1> QED BY <1>6, <1>7

\* A leaf that no pipe is above, at work, is the only leaf at work.
LEMMA AloneRuns ==
    ASSUME NEW c, IsGraph(c.graph), TreeInv(c), NEW p \in Leaves(c.graph),
           c.state[p] = "running", Serial(c.graph, p),
           NEW x \in Leaves(c.graph), c.state[x] = "running"
    PROVE  x = p
<1>1. UpInv(c) /\ SpineInv(c) /\ p \in DOMAIN c.graph /\ x \in DOMAIN c.graph
  BY LeafIs DEF TreeInv
<1>2. Beneath(p, x) \/ Beneath(x, p)
  BY <1>1 DEF SpineInv
<1> QED BY <1>1, <1>2, LeavesApart

\* A leaf fails.
LEMMA FailBegins ==
    ASSUME NEW c, NEW d, IsGraph(c.graph), c \in ContextsOf(c.graph), \A x : ~Failed(c, x),
           NEW p \in Leaves(c.graph), d.graph = c.graph, ~d.done, d.state[p] # "running",
           \A x \in Leaves(c.graph) \ {p} : d.state[x] = c.state[x],
           d.state[p] = "error" => \E o \in Outcomes \ {"ok"} :
                d.results = Append(c.results, [step |-> p, outcome |-> o]),
           d.state[p] = "error" /\ Serial(c.graph, p) =>
                /\ \A x \in Leaves(c.graph) \ {p} : c.state[x] # "running"
                /\ d.calls = << <<"propagate", p>> >>
    PROVE  FailInv(d)
<1>1. ASSUME NEW x \in Leaves(c.graph), d.state[x] = "error", Serial(c.graph, x) PROVE x = p
  BY <1>1 DEF Failed
<1>2. ASSUME d.state[p] = "error", Serial(c.graph, p)
      PROVE  /\ d.results # <<>> /\ Last(d.results).outcome # "ok"
             /\ \A q \in Leaves(c.graph) : d.state[q] # "running"
             /\ \E n \in 0 .. Len(p) :
                    d.calls = << <<"propagate", Up(p, n)>> >> /\ d.state[Up(p, n)] = "error"
  <2>1. p \in DOMAIN c.graph /\ p \in Seq(Nat) /\ Len(p) \in Nat
    BY LeafIs, NodeIs
  <2>2. Len(p) \in 0 .. Len(p) /\ Up(p, Len(p)) = p
    BY <2>1, UpFacts
  <2>3. PICK o \in Outcomes \ {"ok"} :
            d.results = Append(c.results, [step |-> p, outcome |-> o])
    BY <1>2
  <2> DEFINE R == [step : DOMAIN c.graph, outcome : Outcomes]
             e == [step |-> p, outcome |-> o]
  <2>4. c.results \in Seq(R) /\ e \in R /\ e.outcome # "ok"
    BY <2>1 DEF ContextsOf
  <2> HIDE DEF R, e
  <2>5. Append(c.results, e) # <<>> /\ Last(Append(c.results, e)) = e
    BY <2>4, AppendIs
  <2>6. d.results # <<>> /\ Last(d.results).outcome # "ok"
    BY <2>3, <2>4, <2>5 DEF e
  <2>7. \A q \in Leaves(c.graph) : d.state[q] # "running"
    BY <1>2
  <2>8. d.calls = << <<"propagate", Up(p, Len(p))>> >> /\ d.state[Up(p, Len(p))] = "error"
    BY <1>2, <2>2
  <2> QED BY <2>2, <2>6, <2>7, <2>8
<1> QED BY <1>1, <1>2 DEF FailInv

\* It is told.
LEMMA FailHead ==
    ASSUME NEW c, IsGraph(c.graph), FailInv(c), NEW p, Failed(c, p), c.calls # <<>>,
           NEW q \in DOMAIN c.graph, Head(c.calls) = <<"propagate", q>>
    PROVE  /\ Tail(c.calls) = <<>> /\ c.state[q] = "error"
           /\ q # <<>> => /\ c.graph[Front(q)] = "order"
                          /\ \E m \in 0 .. Len(p) : Front(q) = Up(p, m)
<1>1. p \in Leaves(c.graph) /\ c.state[p] = "error" /\ Serial(c.graph, p)
  BY DEF Failed
<1>2. p \in Seq(Nat) /\ Len(p) \in Nat
  BY <1>1, LeafIs, NodeIs
<1>3. PICK n \in 0 .. Len(p) :
        c.calls = << <<"propagate", Up(p, n)>> >> /\ c.state[Up(p, n)] = "error"
  BY <1>1 DEF FailInv
<1>4. Tail(c.calls) = <<>> /\ q = Up(p, n)
  BY <1>3, OneIs
<1>5. ASSUME q # <<>>
      PROVE  c.graph[Front(q)] = "order" /\ \E m \in 0 .. Len(p) : Front(q) = Up(p, m)
  <2>1. n >= 1 /\ n \in Nat
    BY <1>2, <1>4, <1>5, UpFacts
  <2>2. n - 1 \in 0 .. Len(p) /\ Front(q) = Up(p, n - 1)
    BY <1>2, <1>4, <2>1, UpFacts
  <2>3. Front(q) \in DOMAIN c.graph /\ c.graph[Front(q)] \in {"order", "pipe"}
    BY <1>5, ParentIs
  <2>4. c.graph[Front(q)] # "pipe"
    BY <1>1, <2>2, <2>3 DEF Serial
  <2> QED BY <2>2, <2>3, <2>4
<1> QED BY <1>3, <1>4, <1>5

LEMMA FailTold ==
    ASSUME NEW c, NEW d, IsGraph(c.graph), c \in ContextsOf(c.graph), FailInv(c),
           c.calls # <<>>, NEW q \in DOMAIN c.graph, q # <<>>,
           Head(c.calls) = <<"propagate", q>>,
           d.graph = c.graph, d.results = c.results, d.done = c.done, d.wsgi = c.wsgi,
           \A x \in Leaves(c.graph) : d.state[x] = c.state[x],
           c.graph[Front(q)] = "order" /\ c.state[q] = "error" =>
                /\ d.state[Front(q)] = "error"
                /\ d.calls = << <<"propagate", Front(q)>> >> \o Tail(c.calls)
    PROVE  FailInv(d)
<1>1. ASSUME NEW p \in Leaves(c.graph), d.state[p] = "error", Serial(c.graph, p)
      PROVE  /\ d.results # <<>> /\ Last(d.results).outcome # "ok"
             /\ \A x \in Leaves(c.graph) : d.state[x] # "running"
             /\ \E n \in 0 .. Len(p) :
                    d.calls = << <<"propagate", Up(p, n)>> >> /\ d.state[Up(p, n)] = "error"
             /\ d.done => d.wsgi = Last(d.results).outcome
  <2>1. Failed(c, p)
    BY <1>1 DEF Failed
  <2>2. /\ Tail(c.calls) = <<>> /\ c.state[q] = "error" /\ c.graph[Front(q)] = "order"
        /\ \E m \in 0 .. Len(p) : Front(q) = Up(p, m)
    BY <2>1, FailHead
  <2>3. PICK m \in 0 .. Len(p) : Front(q) = Up(p, m)
    BY <2>2
  <2>4. d.state[Up(p, m)] = "error" /\ d.calls = << <<"propagate", Up(p, m)>> >>
    <3>1. d.state[Front(q)] = "error" /\ d.calls = << <<"propagate", Front(q)>> >> \o <<>>
      BY <2>2
    <3>2. << <<"propagate", Front(q)>> >> \o <<>> = << <<"propagate", Front(q)>> >>
      BY OneIs, ConcatEmptySeq
    <3> QED BY <2>3, <3>1, <3>2
  <2>5. /\ c.results # <<>> /\ Last(c.results).outcome # "ok"
        /\ \A x \in Leaves(c.graph) : c.state[x] # "running"
        /\ c.done => c.wsgi = Last(c.results).outcome
    BY <2>1 DEF FailInv, Failed
  <2> QED BY <2>4, <2>5
<1> QED BY <1>1 DEF FailInv

LEMMA FailFinishes ==
    ASSUME NEW c, NEW d, FailInv(c), d.graph = c.graph, d.state = c.state,
           d.results = c.results, d.calls = <<>>,
           c.results # <<>> => d.wsgi = Last(c.results).outcome
    PROVE  FailInv(d)
BY DEF FailInv

(***************************************************************************)
(* Lemmas: the fields of a context.                                        *)
(***************************************************************************)

Fields == {"graph", "state", "current", "waiting", "results", "wsgi", "done", "calls",
           "sends", "runs"}

\* d is c but for the fields in F.
ButFor(c, d, F) == \A f \in Fields \ F : d[f] = c[f]

LEMMA PushFields ==
    ASSUME NEW g, NEW c \in ContextsOf(g), NEW s \in Seq(Calls(g))
    PROVE  /\ Push(c, s) \in ContextsOf(g) /\ ButFor(c, Push(c, s), {"calls"})
           /\ Push(c, s).calls = s \o c.calls
<1>1. c.calls \in Seq(Calls(g))
  BY DEF ContextsOf, Calls
<1>2. s \o c.calls \in Seq(Calls(g))
  BY <1>1, ConcatProperties
<1> DEFINE t == s \o c.calls
<1> HIDE DEF t
<1>3. t \in Seq(Calls(g)) /\ Push(c, s) = [c EXCEPT !.calls = t]
  BY <1>2 DEF t, Push
<1>4. Push(c, s).calls = t /\ ButFor(c, Push(c, s), {"calls"})
  BY <1>3 DEF ContextsOf, ButFor, Fields
<1>5. Push(c, s) \in ContextsOf(g)
  BY <1>3 DEF ContextsOf, Calls
<1> QED BY <1>4, <1>5 DEF t

LEMMA BothChange ==
    ASSUME NEW c, NEW d, NEW e, NEW F, NEW G, ButFor(c, d, F), ButFor(d, e, G)
    PROVE  ButFor(c, e, F \cup G)
BY DEF ButFor

\* The changes that are not operators of the engine.
Popped(c)          == [c EXCEPT !.calls = Tail(@)]
AtStep(c, p, i)    == [c EXCEPT !.current[p] = i]
Answered(c, p, k)  == [c EXCEPT !.waiting = @ \ {<<p, k>>}]
Taken(c)           == [c EXCEPT !.sends = {}, !.runs = <<>>]

LEMMA PopFields ==
    ASSUME NEW g, NEW c \in ContextsOf(g), c.calls # <<>>
    PROVE  /\ Popped(c) \in ContextsOf(g) /\ ButFor(c, Popped(c), {"calls"})
           /\ Popped(c).calls = Tail(c.calls)
<1>1. c.calls \in Seq(Calls(g))
  BY DEF ContextsOf, Calls
<1>2. Tail(c.calls) \in Seq(Calls(g))
  BY <1>1, PopIs
<1> DEFINE t == Tail(c.calls)
           d == Popped(c)
<1> HIDE DEF t
<1>3. t \in Seq(Calls(g)) /\ d = [c EXCEPT !.calls = t]
  BY <1>2 DEF t, Popped
<1>4. d.calls = t /\ ButFor(c, d, {"calls"})
  BY <1>3 DEF ContextsOf, ButFor, Fields
<1>5. d \in ContextsOf(g)
  BY <1>3 DEF ContextsOf, Calls
<1> QED BY <1>4, <1>5 DEF t

LEMMA NodeFields ==
    ASSUME NEW g, NEW c \in ContextsOf(g), NEW p \in DOMAIN g, NEW s \in NodeStates
    PROVE  /\ SetNode(c, p, s) \in ContextsOf(g) /\ ButFor(c, SetNode(c, p, s), {"state"})
           /\ Changed(g, c.state, SetNode(c, p, s).state, p, s)
<1> DEFINE t == [c.state EXCEPT ![p] = s]
<1>1. t \in [DOMAIN g -> NodeStates] /\ Changed(g, c.state, t, p, s)
  BY DEF ContextsOf, Changed
<1>2. SetNode(c, p, s) = [c EXCEPT !.state = t]
  BY DEF SetNode
<1> HIDE DEF t
<1>3. SetNode(c, p, s).state = t /\ ButFor(c, SetNode(c, p, s), {"state"})
  BY <1>2 DEF ContextsOf, ButFor, Fields
<1>4. SetNode(c, p, s) \in ContextsOf(g)
  BY <1>1, <1>2 DEF ContextsOf
<1> QED BY <1>1, <1>3, <1>4

LEMMA CurrentFields ==
    ASSUME NEW g, NEW c \in ContextsOf(g), NEW p \in DOMAIN g, NEW i \in Nat
    PROVE  /\ AtStep(c, p, i) \in ContextsOf(g) /\ ButFor(c, AtStep(c, p, i), {"current"})
           /\ Changed(g, c.current, AtStep(c, p, i).current, p, i)
<1> DEFINE t == [c.current EXCEPT ![p] = i]
           d == AtStep(c, p, i)
<1>1. t \in [DOMAIN g -> Nat] /\ Changed(g, c.current, t, p, i)
  BY DEF ContextsOf, Changed
<1>2. d = [c EXCEPT !.current = t]
  BY DEF AtStep
<1> HIDE DEF t
<1>3. d.current = t /\ ButFor(c, d, {"current"})
  BY <1>2 DEF ContextsOf, ButFor, Fields
<1>4. d \in ContextsOf(g)
  BY <1>1, <1>2 DEF ContextsOf
<1> QED BY <1>1, <1>3, <1>4

LEMMA ResultFields ==
    ASSUME NEW g, NEW c \in ContextsOf(g), NEW p \in DOMAIN g, NEW o \in Outcomes
    PROVE  /\ SetResult(c, p, o) \in ContextsOf(g)
           /\ ButFor(c, SetResult(c, p, o), {"results"})
           /\ SetResult(c, p, o).results = Append(c.results, [step |-> p, outcome |-> o])
<1> DEFINE e == [step |-> p, outcome |-> o]
           R == [step : DOMAIN g, outcome : Outcomes]
           t == Append(c.results, e)
<1>1. c.results \in Seq(R) /\ e \in R
  BY DEF ContextsOf
<1>2. t \in Seq(R)
  <2> HIDE DEF e, R
  <2> QED BY <1>1, AppendProperties
<1>3. SetResult(c, p, o) = [c EXCEPT !.results = t]
  BY DEF SetResult
<1> HIDE DEF t
<1>4. SetResult(c, p, o).results = t /\ ButFor(c, SetResult(c, p, o), {"results"})
  BY <1>3 DEF ContextsOf, ButFor, Fields
<1>5. SetResult(c, p, o) \in ContextsOf(g)
  BY <1>2, <1>3 DEF ContextsOf
<1> QED BY <1>4, <1>5 DEF t

LEMMA AskFields ==
    ASSUME NEW g, NEW c \in ContextsOf(g), NEW p \in DOMAIN g
    PROVE  /\ Ask(c, p) \in ContextsOf(g) /\ ButFor(c, Ask(c, p), {"runs"})
           /\ Ask(c, p).runs = Append(c.runs, p)
<1> DEFINE t == Append(c.runs, p)
<1>1. c.runs \in Seq(DOMAIN g)
  BY DEF ContextsOf
<1>2. t \in Seq(DOMAIN g)
  BY <1>1, AppendProperties
<1>3. Ask(c, p) = [c EXCEPT !.runs = t]
  BY DEF Ask
<1> HIDE DEF t
<1>4. Ask(c, p).runs = t /\ ButFor(c, Ask(c, p), {"runs"})
  BY <1>3 DEF ContextsOf, ButFor, Fields
<1>5. Ask(c, p) \in ContextsOf(g)
  BY <1>2, <1>3 DEF ContextsOf
<1> QED BY <1>4, <1>5 DEF t

LEMMA SendFields ==
    ASSUME NEW g, NEW c \in ContextsOf(g), NEW p \in DOMAIN g, NEW k \in Nat \ {0}
    PROVE  /\ Send(c, p, k) \in ContextsOf(g) /\ ButFor(c, Send(c, p, k), {"waiting", "sends"})
           /\ Send(c, p, k).waiting = c.waiting \cup {<<p, k>>}
           /\ Send(c, p, k).sends = c.sends \cup {<<p, k>>}
<1> DEFINE t == c.waiting \cup {<<p, k>>}
           u == c.sends \cup {<<p, k>>}
<1>1. t \in SUBSET ((DOMAIN g) \X (Nat \ {0})) /\ u \in SUBSET ((DOMAIN g) \X (Nat \ {0}))
  BY DEF ContextsOf
<1>2. Send(c, p, k) = [c EXCEPT !.waiting = t, !.sends = u]
  BY DEF Send
<1> HIDE DEF t, u
<1>3. /\ Send(c, p, k).waiting = t /\ Send(c, p, k).sends = u
      /\ ButFor(c, Send(c, p, k), {"waiting", "sends"})
  BY <1>2 DEF ContextsOf, ButFor, Fields
<1>4. Send(c, p, k) \in ContextsOf(g)
  BY <1>1, <1>2 DEF ContextsOf
<1> QED BY <1>3, <1>4 DEF t, u

LEMMA AnsweredFields ==
    ASSUME NEW g, NEW c \in ContextsOf(g), NEW p, NEW k
    PROVE  /\ Answered(c, p, k) \in ContextsOf(g)
           /\ ButFor(c, Answered(c, p, k), {"waiting"})
           /\ Answered(c, p, k).waiting = c.waiting \ {<<p, k>>}
<1> DEFINE t == c.waiting \ {<<p, k>>}
           d == Answered(c, p, k)
<1>1. t \in SUBSET ((DOMAIN g) \X (Nat \ {0}))
  BY DEF ContextsOf
<1>2. d = [c EXCEPT !.waiting = t]
  BY DEF Answered
<1> HIDE DEF t
<1>3. d.waiting = t /\ ButFor(c, d, {"waiting"})
  BY <1>2 DEF ContextsOf, ButFor, Fields
<1>4. d \in ContextsOf(g)
  BY <1>1, <1>2 DEF ContextsOf
<1> QED BY <1>3, <1>4 DEF t

LEMMA TakenFields ==
    ASSUME NEW g, NEW c \in ContextsOf(g)
    PROVE  /\ Taken(c) \in ContextsOf(g) /\ ButFor(c, Taken(c), {"sends", "runs"})
           /\ Taken(c).sends = {} /\ Taken(c).runs = <<>>
<1> DEFINE d == Taken(c)
<1>1. d.sends = {} /\ d.runs = <<>> /\ ButFor(c, d, {"sends", "runs"})
  BY DEF ContextsOf, ButFor, Fields, Taken
<1>2. d \in ContextsOf(g)
  BY EmptyIs DEF ContextsOf, Taken
<1> QED BY <1>1, <1>2

LEMMA FinishFields ==
    ASSUME NEW g, NEW c \in ContextsOf(g)
    PROVE  /\ Finish(c) \in ContextsOf(g) /\ ButFor(c, Finish(c), {"done", "wsgi"})
           /\ Finish(c).done = TRUE
           /\ c.results # <<>> => Finish(c).wsgi = Last(c.results).outcome
<1> DEFINE w == IF c.results = <<>> THEN c.wsgi ELSE Last(c.results).outcome
           R == [step : DOMAIN g, outcome : Outcomes]
<1>1. c.results \in Seq(R) /\ c.wsgi \in Outcomes
  BY DEF ContextsOf
<1>2. ASSUME c.results # <<>> PROVE Last(c.results) \in R
  <2> HIDE DEF R
  <2>1. Len(c.results) \in Nat /\ Len(c.results) # 0
    BY <1>1, <1>2, EmptySeq, LenProperties
  <2>2. Len(c.results) \in 1 .. Len(c.results)
    BY <2>1
  <2> QED BY <1>1, <2>2, ElementOfSeq DEF Last
<1>3. w \in Outcomes
  BY <1>1, <1>2
<1>4. Finish(c) = [c EXCEPT !.done = TRUE, !.wsgi = w]
  BY DEF Finish
<1>5. c.results # <<>> => w = Last(c.results).outcome
  OBVIOUS
<1> HIDE DEF w
<1>6. Finish(c).done = TRUE /\ Finish(c).wsgi = w /\ ButFor(c, Finish(c), {"done", "wsgi"})
  BY <1>4 DEF ContextsOf, ButFor, Fields
<1>7. Finish(c) \in ContextsOf(g)
  BY <1>3, <1>4 DEF ContextsOf
<1> QED BY <1>5, <1>6, <1>7

LEMMA EndFields ==
    ASSUME NEW g, NEW c \in ContextsOf(g), NEW p \in DOMAIN g, NEW s \in {"done", "error"}
    PROVE  /\ End(c, p, s) \in ContextsOf(g) /\ ButFor(c, End(c, p, s), {"state", "calls"})
           /\ Changed(g, c.state, End(c, p, s).state, p, s)
           /\ End(c, p, s).calls = << <<"propagate", p>> >> \o c.calls
<1> DEFINE d == SetNode(c, p, s)
           t == << <<"propagate", p>> >>
<1>1. /\ d \in ContextsOf(g) /\ ButFor(c, d, {"state"})
      /\ Changed(g, c.state, d.state, p, s)
  <2>1. s \in NodeStates
    BY DEF NodeStates
  <2> QED BY <2>1, NodeFields
<1>2. t \in Seq(Calls(g))
  <2>1. <<"propagate", p>> \in Calls(g)
    BY DEF Calls
  <2> QED BY <2>1, OneIs
<1>3. End(c, p, s) = Push(d, t)
  BY DEF End
<1> HIDE DEF d, t
<1>4. /\ Push(d, t) \in ContextsOf(g) /\ ButFor(d, Push(d, t), {"calls"})
      /\ Push(d, t).calls = t \o d.calls
  BY <1>1, <1>2, PushFields
<1>5. ButFor(c, Push(d, t), {"state", "calls"})
  BY <1>1, <1>4, BothChange DEF ButFor
<1>6. d.calls = c.calls /\ Push(d, t).state = d.state
  BY <1>1, <1>4 DEF ButFor, Fields
<1> QED BY <1>1, <1>3, <1>4, <1>5, <1>6 DEF t

LEMMA ExecuteFields ==
    ASSUME NEW g, NEW c \in ContextsOf(g), NEW p \in DOMAIN g
    PROVE  /\ Execute(c, p) \in ContextsOf(g) /\ ButFor(c, Execute(c, p), {"calls"})
           /\ Execute(c, p).calls = << <<"execute", p>> >> \o c.calls
<1> DEFINE t == << <<"execute", p>> >>
<1>1. t \in Seq(Calls(g))
  <2>1. <<"execute", p>> \in Calls(g)
    BY DEF Calls
  <2> QED BY <2>1, OneIs
<1>2. Execute(c, p) = Push(c, t)
  BY DEF Execute
<1> HIDE DEF t
<1> QED BY <1>1, <1>2, PushFields DEF t

(***************************************************************************)
(* Lemmas: the engine keeps its invariant.                                 *)
(***************************************************************************)

\* d comes of c; nothing is sent or run but what it says is to be.
Moves(c, d, h) ==
    ContextInv(d, h) /\ d.graph = c.graph /\ Out(d) = Out(c) /\ Handed(d) = Handed(c)

Started(c, p) == SetNode(Popped(c), p, "running")

LEMMA Starting ==
    ASSUME NEW c, NEW h, ContextInv(c, h), c.calls # <<>>, NEW p \in DOMAIN c.graph,
           Head(c.calls) = <<"execute", p>>
    PROVE  /\ Advanced(c) = ExecuteNode(Popped(c), p)
           /\ Started(c, p) \in ContextsOf(c.graph)
           /\ ButFor(c, Started(c, p), {"calls", "state"})
           /\ Started(c, p).calls = Tail(c.calls)
           /\ Changed(c.graph, c.state, Started(c, p).state, p, "running")
           /\ c.state[p] = "pending" /\ UnderRunning(c, p) /\ Exec(c, p)
           /\ (\A x : ~Prop(c, x)) /\ ~c.done /\ \A x : ~Failed(c, x)
           /\ \A q \in Steps(c.graph, p) : c.state[q] = "pending" /\ ~Exec(c, q)
<1>1. /\ IsGraph(c.graph) /\ c \in ContextsOf(c.graph) /\ Shape(c) /\ FailInv(c)
      /\ MarksInv(c) /\ RootInv(c) /\ ContainerInv(c)
  BY DEF ContextInv, TreeInv
<1>2. Advanced(c) = ExecuteNode(Popped(c), p)
  BY DEF Advanced, Popped
<1>3. /\ Popped(c) \in ContextsOf(c.graph) /\ ButFor(c, Popped(c), {"calls"})
      /\ Popped(c).calls = Tail(c.calls)
  BY <1>1, PopFields DEF Popped
<1>4. "running" \in NodeStates
  BY DEF NodeStates
<1>5. /\ Started(c, p) \in ContextsOf(c.graph)
      /\ ButFor(Popped(c), Started(c, p), {"state"})
      /\ Changed(c.graph, Popped(c).state, Started(c, p).state, p, "running")
  BY <1>3, <1>4, NodeFields DEF Started
<1>6. ButFor(c, Started(c, p), {"calls", "state"})
  <2>1. ButFor(c, Started(c, p), {"calls"} \cup {"state"})
    BY <1>3, <1>5, BothChange
  <2>2. {"calls"} \cup {"state"} = {"calls", "state"}
    OBVIOUS
  <2> QED BY <2>1, <2>2
<1>7. Started(c, p).calls = Tail(c.calls) /\ Popped(c).state = c.state
  BY <1>3, <1>5 DEF ButFor, Fields
<1>8. Exec(c, p) /\ \A x : ~Prop(c, x)
  BY <1>1, HeadIs DEF Prop
<1>9. c.state[p] = "pending" /\ UnderRunning(c, p) /\ ~c.done
  BY <1>1, <1>8 DEF MarksInv, RootInv
<1>10. \A x : ~Failed(c, x)
  BY <1>1, <1>8, FailNone
<1>11. ASSUME NEW q \in Steps(c.graph, p) PROVE c.state[q] = "pending" /\ ~Exec(c, q)
  <2>1. q \in DOMAIN c.graph /\ q # <<>> /\ Front(q) = p /\ p \in Containers(c.graph)
    BY <1>1, StepsAre
  <2> QED BY <1>1, <1>9, <2>1 DEF ContainerInv, ContainerAt, MarksInv, UnderRunning
<1> QED BY <1>2, <1>5, <1>6, <1>7, <1>8, <1>9, <1>10, <1>11

\* Only a container changes.
LEMMA ContainerMoves ==
    ASSUME NEW c, NEW d, NEW h, ContextInv(c, h), d \in ContextsOf(c.graph),
           ButFor(c, d, {"state", "calls", "current"}), NEW p \in Containers(c.graph),
           \A x \in DOMAIN c.graph \ {p} : d.state[x] = c.state[x],
           Shape(d), TreeInv(d), FailInv(d)
    PROVE  Moves(c, d, h)
<1>1. /\ d.graph = c.graph /\ d.waiting = c.waiting /\ d.sends = c.sends
      /\ d.runs = c.runs /\ d.results = c.results
  BY DEF ButFor, Fields
<1>2. IsGraph(c.graph) /\ LeavesInv(c, h)
  BY DEF ContextInv
<1>3. \A x \in Leaves(c.graph) : d.state[x] = c.state[x]
  BY <1>2, LeafIs
<1>4. LeavesInv(d, h)
  BY <1>1, <1>2, <1>3, LeavesStay
<1>5. Out(d) = Out(c)
  BY <1>1 DEF Out
<1>6. Handed(d) = Handed(c)
  <2>1. c.graph[p] # "internal"
    BY <1>2, ContainerIs
  <2> QED BY <1>1, <2>1 DEF Handed
<1> QED BY <1>1, <1>2, <1>4, <1>5, <1>6 DEF Moves, ContextInv

\* A container without steps.
LEMMA EmptyMoves ==
    ASSUME NEW c, NEW h, ContextInv(c, h), c.calls # <<>>, NEW p \in Containers(c.graph),
           Head(c.calls) = <<"execute", p>>, Steps(c.graph, p) = {}
    PROVE  Moves(c, Advanced(c), h)
<1> DEFINE e == Started(c, p)
           d == End(e, p, "done")
<1>1. /\ IsGraph(c.graph) /\ c \in ContextsOf(c.graph) /\ Shape(c) /\ TreeInv(c)
      /\ p \in DOMAIN c.graph /\ c.graph[p] \in {"order", "pipe"}
  BY ContainerIs DEF ContextInv
<1>2. /\ Advanced(c) = ExecuteNode(Popped(c), p)
      /\ e \in ContextsOf(c.graph) /\ ButFor(c, e, {"calls", "state"})
      /\ e.calls = Tail(c.calls) /\ Changed(c.graph, c.state, e.state, p, "running")
      /\ c.state[p] = "pending" /\ UnderRunning(c, p) /\ Exec(c, p)
      /\ (\A x : ~Prop(c, x)) /\ ~c.done /\ \A x : ~Failed(c, x)
  BY <1>1, Starting
<1>3. e.graph = c.graph
  BY <1>2 DEF ButFor, Fields
<1>4. Advanced(c) = d
  BY <1>1, <1>2, <1>3 DEF ExecuteNode, ExecuteOrder, ExecutePipe, ExecuteEmpty, Started,
     Popped, SetNode
<1> HIDE DEF e
<1>5. /\ d \in ContextsOf(c.graph) /\ ButFor(e, d, {"state", "calls"})
      /\ Changed(c.graph, e.state, d.state, p, "done")
      /\ d.calls = << <<"propagate", p>> >> \o Tail(c.calls)
  <2>1. /\ d \in ContextsOf(c.graph) /\ ButFor(e, d, {"state", "calls"})
        /\ Changed(c.graph, e.state, d.state, p, "done")
        /\ d.calls = << <<"propagate", p>> >> \o e.calls
    <3>1. "done" \in {"done", "error"}
      OBVIOUS
    <3>2. e \in ContextsOf(c.graph) /\ p \in DOMAIN c.graph
      BY <1>1, <1>2
    <3> HIDE DEF e
    <3> QED BY <3>1, <3>2, EndFields
  <2> QED BY <1>2, <2>1
<1> HIDE DEF d
<1>6. /\ ButFor(c, d, {"state", "calls", "current"}) /\ d.graph = c.graph
      /\ d.done = c.done /\ d.current = c.current
  BY <1>2, <1>5 DEF ButFor, Fields
<1>7. Changed(c.graph, c.state, d.state, p, "done")
  BY <1>2, <1>5 DEF Changed
<1>8. Marked(c, d, {}, {p}, {p})
  BY <1>1, <1>5, <1>6, TellMarks
<1>9. d.state[p] = "done" /\ \A x \in DOMAIN c.graph \ {p} : d.state[x] = c.state[x]
  BY <1>7 DEF Changed
<1>10. ContainerAt(d, p)
  BY <1>6, <1>9 DEF ContainerAt
<1>11. TreeInv(d)
  BY <1>1, <1>2, <1>6, <1>7, <1>8, <1>10, TreeEnds
<1>12. FailInv(d)
  <2>1. \A x \in Leaves(c.graph) : d.state[x] = c.state[x]
    BY <1>1, <1>9, LeafIs
  <2> QED BY <1>2, <1>6, <2>1, FailStays
<1> QED BY <1>4, <1>5, <1>6, <1>8, <1>9, <1>11, <1>12, ContainerMoves DEF Marked

\* An order starts with its first step.
LEMMA OrderMoves ==
    ASSUME NEW c, NEW h, ContextInv(c, h), c.calls # <<>>, NEW p \in DOMAIN c.graph,
           Head(c.calls) = <<"execute", p>>, Steps(c.graph, p) # {}, c.graph[p] = "order"
    PROVE  Moves(c, Advanced(c), h)
<1> DEFINE y == Append(p, 1)
           e == Started(c, p)
           f == AtStep(e, p, 1)
           d == Execute(f, y)
<1>1. /\ IsGraph(c.graph) /\ c \in ContextsOf(c.graph) /\ Shape(c) /\ TreeInv(c)
      /\ p \in Containers(c.graph)
  <2>1. p \in Containers(c.graph)
    BY DEF Containers, Leaves
  <2> QED BY <2>1 DEF ContextInv
<1>2. /\ Advanced(c) = ExecuteNode(Popped(c), p)
      /\ e \in ContextsOf(c.graph) /\ ButFor(c, e, {"calls", "state"})
      /\ e.calls = Tail(c.calls) /\ Changed(c.graph, c.state, e.state, p, "running")
      /\ c.state[p] = "pending" /\ UnderRunning(c, p) /\ Exec(c, p)
      /\ (\A x : ~Prop(c, x)) /\ ~c.done /\ (\A x : ~Failed(c, x))
      /\ \A q \in Steps(c.graph, p) : c.state[q] = "pending" /\ ~Exec(c, q)
  BY <1>1, Starting
<1>3. e.graph = c.graph
  BY <1>2 DEF ButFor, Fields
<1>4. /\ y \in Steps(c.graph, p) /\ y \in DOMAIN c.graph /\ Last(y) = 1
      /\ \A q \in Steps(c.graph, p) : Last(q) \in Nat /\ Last(q) >= 1 /\ q \in DOMAIN c.graph
                                      /\ q # p /\ (Last(q) = 1 => q = y)
  <2>1. /\ NumSteps(c.graph, p) \in Nat
        /\ Steps(c.graph, p) = {Append(p, i) : i \in 1 .. NumSteps(c.graph, p)}
        /\ Last(y) = 1
        /\ \A q \in Steps(c.graph, p) :
            q \in DOMAIN c.graph /\ q # p
            /\ Last(q) \in 1 .. NumSteps(c.graph, p) /\ q = Append(p, Last(q))
    BY <1>1, StepsAre
  <2>2. 1 \in 1 .. NumSteps(c.graph, p)
    BY <2>1
  <2>3. y \in Steps(c.graph, p)
    BY <2>1, <2>2
  <2>4. ASSUME NEW q \in Steps(c.graph, p)
        PROVE  Last(q) \in Nat /\ Last(q) >= 1 /\ (Last(q) = 1 => q = y)
    <3>1. Last(q) \in 1 .. NumSteps(c.graph, p) /\ q = Append(p, Last(q))
      BY <2>1
    <3> QED BY <2>1, <3>1
  <2> QED BY <2>1, <2>3, <2>4
<1>5. Advanced(c) = d
  BY <1>2, <1>3, <1>4 DEF ExecuteNode, ExecuteOrder, OrderAdvances, Started, Popped, SetNode,
     AtStep
<1> HIDE DEF e, y
<1>6. /\ f \in ContextsOf(c.graph) /\ ButFor(e, f, {"current"})
      /\ Changed(c.graph, e.current, f.current, p, 1)
  <2>1. 1 \in Nat /\ e \in ContextsOf(c.graph)
    BY <1>2
  <2> QED BY <2>1, CurrentFields
<1> HIDE DEF f
<1>7. /\ d \in ContextsOf(c.graph) /\ ButFor(f, d, {"calls"})
      /\ d.calls = << <<"execute", y>> >> \o f.calls
  BY <1>4, <1>6, ExecuteFields
<1> HIDE DEF d
<1>8. /\ ButFor(c, d, {"state", "calls", "current"}) /\ d.graph = c.graph
      /\ d.done = c.done /\ Changed(c.graph, c.current, d.current, p, 1)
      /\ Changed(c.graph, c.state, d.state, p, "running")
      /\ d.calls = << <<"execute", y>> >> \o Tail(c.calls)
  BY <1>2, <1>6, <1>7 DEF ButFor, Fields
<1>9. Marked(c, d, {y}, {p}, {})
  <2>1. Head(c.calls)[1] = "execute" /\ Head(c.calls)[2] = p
    OBVIOUS
  <2> QED BY <1>1, <1>2, <1>4, <1>8, <2>1, PushMarks
<1>10. /\ d.state[p] = "running" /\ d.current[p] = 1
       /\ \A x \in DOMAIN c.graph \ {p} : d.state[x] = c.state[x] /\ d.current[x] = c.current[x]
  BY <1>8 DEF Changed
<1>11. ContainerAt(d, p)
  <2>1. \A x \in DOMAIN c.graph : Exec(d, x) <=> x \in {y} \/ (Exec(c, x) /\ x \notin {p})
    BY <1>9 DEF Marked
  <2>2. OrderAt(d, p, y)
    BY <1>2, <1>4, <1>8, <1>10, <2>1 DEF OrderAt
  <2> QED BY <1>4, <1>8, <1>10, <2>2 DEF ContainerAt
<1>12. TreeInv(d)
  <2>1. {y} \in SUBSET Steps(c.graph, p)
    BY <1>4
  <2> QED BY <1>1, <1>2, <1>8, <1>9, <1>10, <1>11, <2>1, TreeStarts
<1>13. FailInv(d)
  <2>1. \A x \in Leaves(c.graph) : d.state[x] = c.state[x]
    BY <1>1, <1>10, LeafIs
  <2> QED BY <1>2, <1>8, <2>1, FailStays
<1> QED BY <1>1, <1>5, <1>7, <1>8, <1>9, <1>10, <1>12, <1>13, ContainerMoves DEF Marked

\* A pipe starts with all of its steps.
LEMMA PipeMoves ==
    ASSUME NEW c, NEW h, ContextInv(c, h), c.calls # <<>>, NEW p \in DOMAIN c.graph,
           Head(c.calls) = <<"execute", p>>, Steps(c.graph, p) # {}, c.graph[p] = "pipe"
    PROVE  Moves(c, Advanced(c), h)
<1> DEFINE t == [i \in 1 .. NumSteps(c.graph, p) |-> <<"execute", Append(p, i)>>]
           e == Started(c, p)
           d == Push(e, t)
<1>1. /\ IsGraph(c.graph) /\ c \in ContextsOf(c.graph) /\ Shape(c) /\ TreeInv(c)
      /\ p \in Containers(c.graph)
  <2>1. p \in Containers(c.graph)
    BY DEF Containers, Leaves
  <2> QED BY <2>1 DEF ContextInv
<1>2. /\ Advanced(c) = ExecuteNode(Popped(c), p)
      /\ e \in ContextsOf(c.graph) /\ ButFor(c, e, {"calls", "state"})
      /\ e.calls = Tail(c.calls) /\ Changed(c.graph, c.state, e.state, p, "running")
      /\ c.state[p] = "pending" /\ UnderRunning(c, p) /\ Exec(c, p)
      /\ (\A x : ~Prop(c, x)) /\ ~c.done /\ (\A x : ~Failed(c, x))
      /\ \A q \in Steps(c.graph, p) : c.state[q] = "pending" /\ ~Exec(c, q)
  BY <1>1, Starting
<1>3. e.graph = c.graph
  BY <1>2 DEF ButFor, Fields
<1>4. /\ \A q \in Steps(c.graph, p) : q \in DOMAIN c.graph /\ q # p
      /\ t \in Seq(Calls(c.graph))
  <2>1. /\ NumSteps(c.graph, p) \in Nat
        /\ Steps(c.graph, p) = {Append(p, i) : i \in 1 .. NumSteps(c.graph, p)}
        /\ \A q \in Steps(c.graph, p) : q \in DOMAIN c.graph /\ q # p
    BY <1>1, StepsAre
  <2>2. \A i \in 1 .. NumSteps(c.graph, p) : <<"execute", Append(p, i)>> \in Calls(c.graph)
    BY <2>1 DEF Calls
  <2>3. t \in Seq(Calls(c.graph))
    <3> DEFINE n == NumSteps(c.graph, p)
    <3> HIDE DEF n
    <3>1. n \in Nat /\ \A i \in 1 .. n : <<"execute", Append(p, i)>> \in Calls(c.graph)
      BY <2>1, <2>2 DEF n
    <3>2. [i \in 1 .. n |-> <<"execute", Append(p, i)>>] \in Seq(Calls(c.graph))
      BY <3>1
    <3> QED BY <3>2 DEF n
  <2> QED BY <2>1, <2>3
<1>5. Advanced(c) = d
  BY <1>2, <1>3 DEF ExecuteNode, ExecutePipe, Started, Popped, SetNode
<1> HIDE DEF e
<1>6. /\ d \in ContextsOf(c.graph) /\ ButFor(e, d, {"calls"})
      /\ d.calls = t \o e.calls
  <2> HIDE DEF t
  <2>1. e \in ContextsOf(c.graph) /\ t \in Seq(Calls(c.graph))
    BY <1>2, <1>4
  <2> QED BY <2>1, PushFields
<1> HIDE DEF d
<1>7. /\ ButFor(c, d, {"state", "calls", "current"}) /\ d.graph = c.graph
      /\ d.done = c.done /\ d.current = c.current
      /\ Changed(c.graph, c.state, d.state, p, "running")
      /\ d.calls = t \o Tail(c.calls)
  <2> HIDE DEF t
  <2> QED BY <1>2, <1>6 DEF ButFor, Fields
<1>8. Marked(c, d, Steps(c.graph, p), {p}, {})
  BY <1>1, <1>2, <1>7, StepsMarks
<1>9. d.state[p] = "running" /\ \A x \in DOMAIN c.graph \ {p} : d.state[x] = c.state[x]
  BY <1>7 DEF Changed
<1> HIDE DEF t
<1>10. ContainerAt(d, p)
  <2>1. \A x \in Steps(c.graph, p) : Exec(d, x) /\ d.state[x] = "pending"
    BY <1>2, <1>4, <1>8, <1>9 DEF Marked
  <2>2. PipeInv(d, p)
    BY <1>7, <1>9, <2>1 DEF PipeInv, Ended
  <2> QED BY <1>7, <1>9, <2>2 DEF ContainerAt
<1>11. TreeInv(d)
  BY <1>1, <1>2, <1>7, <1>8, <1>10, TreeStarts
<1>12. FailInv(d)
  <2>1. \A x \in Leaves(c.graph) : d.state[x] = c.state[x]
    BY <1>1, <1>9, LeafIs
  <2> QED BY <1>2, <1>7, <2>1, FailStays
<1> QED BY <1>1, <1>5, <1>6, <1>7, <1>8, <1>9, <1>11, <1>12, ContainerMoves DEF Marked

\* A leaf starts, and may end at once.
LEMMA LeafMoves ==
    ASSUME NEW c, NEW d, NEW h, ContextInv(c, h), c.calls # <<>>, NEW p \in Leaves(c.graph),
           Head(c.calls) = <<"execute", p>>, d \in ContextsOf(c.graph), d.graph = c.graph,
           d.done = c.done, d.current = c.current,
           Changed(c.graph, c.state, d.state, p, LeafMeaning(c.graph, h, p)),
           c.graph[p] \in {"internal", "call", "calls"} =>
                d.calls = Tail(c.calls) /\ d.results = c.results,
           c.graph[p] \in {"raises", "nothing"} =>
                /\ d.calls = << <<"propagate", p>> >> \o Tail(c.calls)
                /\ \E o \in Outcomes :
                     /\ d.results = Append(c.results, [step |-> p, outcome |-> o])
                     /\ c.graph[p] = "raises" => o # "ok",
           IF c.graph[p] \in {"call", "calls"}
           THEN d.waiting = c.waiting \cup {<<p, 1>>} /\ d.sends = c.sends \cup {<<p, 1>>}
           ELSE d.waiting = c.waiting /\ d.sends = c.sends,
           IF c.graph[p] = "internal" THEN d.runs = Append(c.runs, p) ELSE d.runs = c.runs
    PROVE  Moves(c, d, h)
<1>1. /\ IsGraph(c.graph) /\ c \in ContextsOf(c.graph) /\ Shape(c) /\ TreeInv(c)
      /\ LeavesInv(c, h) /\ HeardInv(c, h) /\ WaitingInv(c, h)
  BY DEF ContextInv, LeavesInv
<1>2. /\ p \in DOMAIN c.graph /\ p \notin Containers(c.graph) /\ Steps(c.graph, p) = {}
      /\ c.graph[p] \in {"internal", "call", "calls", "nothing", "raises"}
  BY <1>1, LeafIs
<1>3. /\ c.state[p] = "pending" /\ UnderRunning(c, p) /\ Exec(c, p)
      /\ (\A x : ~Prop(c, x)) /\ ~c.done /\ \A x : ~Failed(c, x)
  BY <1>2, Starting
<1>4. /\ c.graph[p] = "raises" => LeafMeaning(c.graph, h, p) = "error"
      /\ c.graph[p] = "nothing" => LeafMeaning(c.graph, h, p) = "done"
      /\ c.graph[p] \in {"internal", "call", "calls"} =>
           LeafMeaning(c.graph, h, p) = "running"
      /\ \A s : \A k \in {1, 2} :
           c.graph[p] \in {"internal", "call", "calls"} /\ s[p] = "running" =>
               (IsDue(c.graph, s, h, p, k) <=> c.graph[p] # "internal" /\ k = 1)
      /\ ~Ended(c, p) /\ \A k \in {1, 2} : <<p, k>> \notin c.waiting
      /\ p \notin ToSet(c.runs)
  BY <1>1, <1>3, LeafStarts
<1>5. /\ d.state[p] = LeafMeaning(c.graph, h, p)
      /\ \A x \in DOMAIN c.graph \ {p} : d.state[x] = c.state[x]
  BY DEF Changed
<1>6. TreeInv(d) /\ Shape(d)
  <2>1. CASE c.graph[p] \in {"internal", "call", "calls"}
    <3>1. Marked(c, d, {}, {p}, {})
      BY <1>1, <2>1, LeftMarks
    <3>2. Changed(c.graph, c.state, d.state, p, "running")
      BY <1>4, <2>1
    <3>3. TreeInv(d)
      BY <1>1, <1>2, <1>3, <3>1, <3>2, TreeStarts
    <3> QED BY <3>1, <3>3 DEF Marked
  <2>2. CASE c.graph[p] \in {"raises", "nothing"}
    <3>1. Marked(c, d, {}, {p}, {p})
      BY <1>1, <1>2, <2>2, TellMarks
    <3>2. /\ LeafMeaning(c.graph, h, p) \in {"done", "error"}
          /\ Changed(c.graph, c.state, d.state, p, LeafMeaning(c.graph, h, p))
      BY <1>4, <2>2
    <3>3. TreeInv(d)
      BY <1>1, <1>2, <1>3, <3>1, <3>2, TreeEnds
    <3> QED BY <3>1, <3>3 DEF Marked
  <2> QED BY <1>2, <2>1, <2>2
<1>7. LeavesInv(d, h)
  <2>1. HeardInv(d, h)
    BY <1>1 DEF HeardInv
  <2>2. /\ d.state[p] # "pending" /\ d.state[p] = LeafMeaning(c.graph, h, p)
        /\ Ended(d, p) <=> c.graph[p] \in {"raises", "nothing"}
        /\ d.state[p] = "running" <=> c.graph[p] \in {"internal", "call", "calls"}
    BY <1>2, <1>4, <1>5 DEF Ended
  <2>3. \A x \in Leaves(c.graph) \ {p} :
            /\ d.state[x] = c.state[x]
            /\ \A k, O : Heard(h, x, k, O) <=> Heard(h, x, k, O)
            /\ \A k \in {1, 2} : <<x, k>> \in d.waiting <=> <<x, k>> \in c.waiting
    BY <1>1, <1>5, LeafIs
  <2>4. d.waiting \subseteq Leaves(c.graph) \X {1, 2} /\ d.sends \subseteq d.waiting
    <3>1. c.waiting \subseteq Leaves(c.graph) \X {1, 2} /\ c.sends \subseteq c.waiting
      BY <1>1, WaitingDue DEF WaitingInv
    <3> QED BY <3>1
  <2>5. ASSUME NEW k \in {1, 2}
        PROVE  <<p, k>> \in d.waiting <=> IsDue(c.graph, d.state, h, p, k)
    <3>1. CASE c.graph[p] \in {"internal", "call", "calls"}
      <4>1. IsDue(c.graph, d.state, h, p, k) <=> c.graph[p] # "internal" /\ k = 1
        BY <1>4, <2>2, <3>1
      <4>2. CASE c.graph[p] = "internal"
        BY <1>4, <4>1, <4>2
      <4>3. CASE c.graph[p] \in {"call", "calls"}
        <5>1. d.waiting = c.waiting \cup {<<p, 1>>} /\ <<p, k>> \notin c.waiting
          BY <1>4, <4>3
        <5>2. <<p, k>> \in d.waiting <=> k = 1
          BY <5>1
        <5> QED BY <4>1, <4>3, <5>2
      <4> QED BY <3>1, <4>2, <4>3
    <3>2. CASE c.graph[p] \in {"raises", "nothing"}
      <4>1. ~IsDue(c.graph, d.state, h, p, k)
        BY <2>2, <3>2 DEF IsDue
      <4> QED BY <1>4, <3>2, <4>1
    <3> QED BY <1>2, <3>1, <3>2
  <2>6. \/ d.runs = c.runs
        \/ d.runs = Append(c.runs, p) /\ c.graph[p] = "internal" /\ d.state[p] = "running"
    BY <2>2
  <2>7. \/ d.results = c.results /\ ~Ended(d, p)
        \/ /\ Ended(d, p)
           /\ \E o \in Outcomes : d.results = Append(c.results, [step |-> p, outcome |-> o])
    BY <1>2, <2>2
  <2> QED BY <1>1, <1>4, <2>1, <2>2, <2>3, <2>4, <2>5, <2>6, <2>7, LeafChanges
<1>8. FailInv(d)
  <2>1. CASE c.graph[p] # "raises"
    <3>1. \A x \in Leaves(c.graph) : d.state[x] = "error" => c.state[x] = "error"
      BY <1>1, <1>2, <1>4, <1>5, <2>1, LeafIs
    <3> QED BY <1>3, <3>1, FailStays
  <2>2. CASE c.graph[p] = "raises"
    <3>1. \A x \in Leaves(c.graph) \ {p} : d.state[x] = c.state[x]
      BY <1>1, <1>5, LeafIs
    <3>2. \E o \in Outcomes \ {"ok"} :
            d.results = Append(c.results, [step |-> p, outcome |-> o])
      BY <2>2
    <3>3. ASSUME Serial(c.graph, p)
          PROVE  /\ \A x \in Leaves(c.graph) : c.state[x] # "running"
                 /\ d.calls = << <<"propagate", p>> >>
      <4>1. (\A x \in Leaves(c.graph) : c.state[x] # "running") /\ Tail(c.calls) = <<>>
        BY <1>1, <3>3, AloneStarts
      <4>2. d.calls = << <<"propagate", p>> >> \o <<>>
        BY <2>2, <4>1
      <4>3. << <<"propagate", p>> >> \o <<>> = << <<"propagate", p>> >>
        BY OneIs, ConcatEmptySeq
      <4> QED BY <4>1, <4>2, <4>3
    <3>4. ~d.done /\ d.state[p] # "running"
      BY <1>3, <1>4, <1>5, <2>2
    <3> QED BY <1>1, <1>3, <3>1, <3>2, <3>3, <3>4, FailBegins
  <2> QED BY <2>1, <2>2
<1>9. Out(d) = Out(c)
  <2>1. <<p, 1>> \notin c.waiting
    BY <1>4
  <2> QED BY <2>1 DEF Out
<1>10. Handed(d) = Handed(c)
  <2>1. c.runs \in Seq(DOMAIN c.graph)
    BY <1>1 DEF ContextsOf
  <2>2. CASE c.graph[p] = "internal"
    <3>1. ToSet(Append(c.runs, p)) = ToSet(c.runs) \cup {p}
      BY <1>2, <2>1, AppendIs
    <3>2. ToSet(d.runs) = ToSet(c.runs) \cup {p}
      BY <2>2, <3>1
    <3> QED BY <1>3, <1>5, <3>2 DEF Handed
  <2>3. CASE c.graph[p] # "internal"
    BY <1>5, <2>3 DEF Handed
  <2> QED BY <2>2, <2>3
<1> QED BY <1>1, <1>6, <1>7, <1>8, <1>9, <1>10 DEF Moves, ContextInv

LEMMA LeafExecutes ==
    ASSUME NEW c, NEW h, ContextInv(c, h), c.calls # <<>>, NEW p \in Leaves(c.graph),
           Head(c.calls) = <<"execute", p>>
    PROVE  Moves(c, Advanced(c), h)
<1> DEFINE e == Started(c, p)
           m == LeafMeaning(c.graph, h, p)
<1>1. /\ IsGraph(c.graph) /\ c \in ContextsOf(c.graph) /\ LeavesInv(c, h)
      /\ p \in DOMAIN c.graph
      /\ c.graph[p] \in {"internal", "call", "calls", "nothing", "raises"}
  BY LeafIs DEF ContextInv
<1>2. /\ Advanced(c) = ExecuteNode(Popped(c), p)
      /\ e \in ContextsOf(c.graph) /\ ButFor(c, e, {"calls", "state"})
      /\ e.calls = Tail(c.calls) /\ Changed(c.graph, c.state, e.state, p, "running")
      /\ c.state[p] = "pending"
  BY <1>1, Starting
<1>3. /\ e.graph = c.graph /\ e.done = c.done /\ e.current = c.current
      /\ e.results = c.results /\ e.waiting = c.waiting /\ e.sends = c.sends
      /\ e.runs = c.runs
  BY <1>2 DEF ButFor, Fields
<1>4. /\ c.graph[p] = "raises" => m = "error"
      /\ c.graph[p] = "nothing" => m = "done"
      /\ c.graph[p] \in {"internal", "call", "calls"} => m = "running"
  BY <1>1, <1>2, LeafStarts
<1>5. /\ c.graph[p] = "internal" => Advanced(c) = Ask(e, p)
      /\ c.graph[p] \in {"call", "calls"} => Advanced(c) = Send(e, p, 1)
      /\ c.graph[p] = "raises" => Advanced(c) = End(SetResult(e, p, "error"), p, "error")
      /\ c.graph[p] = "nothing" => Advanced(c) = End(SetResult(e, p, "ok"), p, "done")
  <2>1. Popped(c).graph = c.graph
    BY <1>1, PopFields DEF ButFor, Fields
  <2>2. /\ c.graph[p] = "internal" => Advanced(c) = Ask(e, p)
        /\ c.graph[p] \in {"call", "calls", "raises", "nothing"} =>
              Advanced(c) = ExecuteEgress(e, p)
    BY <1>2, <2>1 DEF ExecuteNode, Started
  <2> HIDE DEF e
  <2> QED BY <1>3, <2>2 DEF ExecuteEgress
<1> HIDE DEF e, m
<1>6. CASE c.graph[p] = "internal"
  <2>1. /\ Ask(e, p) \in ContextsOf(c.graph) /\ ButFor(e, Ask(e, p), {"runs"})
        /\ Ask(e, p).runs = Append(e.runs, p)
    BY <1>1, <1>2, AskFields
  <2> DEFINE d == Ask(e, p)
  <2> HIDE DEF d
  <2>2. /\ d \in ContextsOf(c.graph) /\ d.graph = c.graph /\ d.done = c.done
        /\ d.current = c.current /\ d.calls = Tail(c.calls) /\ d.results = c.results
        /\ d.waiting = c.waiting /\ d.sends = c.sends /\ d.runs = Append(c.runs, p)
        /\ d.state = e.state
    BY <1>2, <1>3, <2>1 DEF d, ButFor, Fields
  <2>3. Changed(c.graph, c.state, d.state, p, LeafMeaning(c.graph, h, p))
    BY <1>2, <1>4, <1>6, <2>2 DEF m
  <2>4. c.graph[p] \notin {"call", "calls", "raises", "nothing"}
    BY <1>6
  <2>5. Moves(c, d, h)
    BY <1>6, <2>2, <2>3, <2>4, LeafMoves
  <2> QED BY <1>5, <1>6, <2>5 DEF d
<1>7. CASE c.graph[p] \in {"call", "calls"}
  <2> DEFINE d == Send(e, p, 1)
  <2>1. /\ d \in ContextsOf(c.graph) /\ ButFor(e, d, {"waiting", "sends"})
        /\ d.waiting = e.waiting \cup {<<p, 1>>} /\ d.sends = e.sends \cup {<<p, 1>>}
    <3>1. 1 \in Nat \ {0}
      OBVIOUS
    <3> QED BY <1>1, <1>2, <3>1, SendFields
  <2> HIDE DEF d
  <2>2. /\ d.graph = c.graph /\ d.done = c.done /\ d.runs = c.runs
        /\ d.current = c.current /\ d.calls = Tail(c.calls) /\ d.results = c.results
        /\ d.waiting = c.waiting \cup {<<p, 1>>} /\ d.sends = c.sends \cup {<<p, 1>>}
        /\ d.state = e.state
    BY <1>2, <1>3, <2>1 DEF ButFor, Fields
  <2>3. Changed(c.graph, c.state, d.state, p, LeafMeaning(c.graph, h, p))
    BY <1>2, <1>4, <1>7, <2>2 DEF m
  <2>4. c.graph[p] \notin {"internal", "raises", "nothing"}
    BY <1>7
  <2>5. Moves(c, d, h)
    BY <1>7, <2>1, <2>2, <2>3, <2>4, LeafMoves
  <2> QED BY <1>5, <1>7, <2>5 DEF d
<1>8. ASSUME NEW o \in Outcomes, NEW s \in {"done", "error"}, s = m,
             c.graph[p] \in {"raises", "nothing"}, c.graph[p] = "raises" => o # "ok"
      PROVE  Moves(c, End(SetResult(e, p, o), p, s), h)
  <2> DEFINE f == SetResult(e, p, o)
             d == End(f, p, s)
  <2>1. /\ f \in ContextsOf(c.graph) /\ ButFor(e, f, {"results"})
        /\ f.results = Append(e.results, [step |-> p, outcome |-> o])
    BY <1>1, <1>2, ResultFields
  <2> HIDE DEF f
  <2>2. /\ d \in ContextsOf(c.graph) /\ ButFor(f, d, {"state", "calls"})
        /\ Changed(c.graph, f.state, d.state, p, s)
        /\ d.calls = << <<"propagate", p>> >> \o f.calls
    BY <1>1, <2>1, EndFields
  <2> HIDE DEF d
  <2>3. /\ d.graph = c.graph /\ d.done = c.done /\ d.runs = c.runs
        /\ d.current = c.current /\ d.calls = << <<"propagate", p>> >> \o Tail(c.calls)
        /\ d.results = Append(c.results, [step |-> p, outcome |-> o])
        /\ d.waiting = c.waiting /\ d.sends = c.sends
        /\ f.state = e.state
    BY <1>2, <1>3, <2>1, <2>2 DEF ButFor, Fields
  <2>4. Changed(c.graph, c.state, d.state, p, LeafMeaning(c.graph, h, p))
    BY <1>2, <1>8, <2>2, <2>3 DEF m, Changed
  <2>5. c.graph[p] \notin {"internal", "call", "calls"}
    BY <1>8
  <2>6. \E r \in Outcomes : /\ d.results = Append(c.results, [step |-> p, outcome |-> r])
                            /\ c.graph[p] = "raises" => r # "ok"
    BY <1>8, <2>3
  <2>7. Moves(c, d, h)
    BY <1>8, <2>2, <2>3, <2>4, <2>5, <2>6, LeafMoves
  <2> QED BY <2>7 DEF d, f
<1>9. CASE c.graph[p] = "raises"
  <2>1. "error" \in Outcomes /\ "error" # "ok" /\ "error" \in {"done", "error"}
    BY DEF Outcomes
  <2>2. Moves(c, End(SetResult(e, p, "error"), p, "error"), h)
    BY <1>4, <1>8, <1>9, <2>1
  <2> QED BY <1>5, <1>9, <2>2
<1>10. CASE c.graph[p] = "nothing"
  <2>1. "ok" \in Outcomes /\ "done" \in {"done", "error"} /\ c.graph[p] # "raises"
    BY <1>10 DEF Outcomes
  <2>2. Moves(c, End(SetResult(e, p, "ok"), p, "done"), h)
    BY <1>4, <1>8, <1>10, <2>1
  <2> QED BY <1>5, <1>10, <2>2
<1> QED BY <1>1, <1>6, <1>7, <1>9, <1>10

LEMMA Telling ==
    ASSUME NEW c, NEW h, ContextInv(c, h), c.calls # <<>>, NEW q \in DOMAIN c.graph,
           Head(c.calls) = <<"propagate", q>>
    PROVE  /\ Advanced(c) = PropagateCompletion(Popped(c), q)
           /\ Popped(c) \in ContextsOf(c.graph) /\ ButFor(c, Popped(c), {"calls"})
           /\ Popped(c).calls = Tail(c.calls)
           /\ (\A x : Prop(c, x) <=> x = q) /\ ~c.done /\ Ended(c, q)
           /\ q # <<>> => /\ Front(q) \in Containers(c.graph) /\ Front(q) \in DOMAIN c.graph
                          /\ c.graph[Front(q)] \in {"order", "pipe"}
                          /\ c.state[Front(q)] = "running" /\ q \in Steps(c.graph, Front(q))
                          /\ UnderRunning(c, Front(q)) /\ ~Exec(c, Front(q))
<1>1. /\ IsGraph(c.graph) /\ c \in ContextsOf(c.graph)
      /\ MarksInv(c) /\ RootInv(c) /\ UpInv(c)
  BY DEF ContextInv, TreeInv
<1>2. Advanced(c) = PropagateCompletion(Popped(c), q)
  <2>1. Head(c.calls)[1] # "execute" /\ Head(c.calls)[2] = q
    OBVIOUS
  <2> QED BY <2>1 DEF Advanced, Popped
<1>3. /\ Popped(c) \in ContextsOf(c.graph) /\ ButFor(c, Popped(c), {"calls"})
      /\ Popped(c).calls = Tail(c.calls)
  BY <1>1, PopFields
<1>4. \A x : Prop(c, x) <=> x = q
  BY <1>1 DEF Prop
<1>5. Ended(c, q) /\ UnderRunning(c, q) /\ ~c.done
  BY <1>1, <1>4 DEF MarksInv, RootInv
<1>6. ASSUME q # <<>>
      PROVE  /\ Front(q) \in Containers(c.graph) /\ Front(q) \in DOMAIN c.graph
             /\ c.graph[Front(q)] \in {"order", "pipe"}
             /\ c.state[Front(q)] = "running" /\ q \in Steps(c.graph, Front(q))
             /\ UnderRunning(c, Front(q)) /\ ~Exec(c, Front(q))
  <2> DEFINE p == Front(q)
  <2>1. /\ p \in Containers(c.graph) /\ p \in DOMAIN c.graph
        /\ c.graph[p] \in {"order", "pipe"}
        /\ c.state[p] = "running" /\ q \in Steps(c.graph, p)
    BY <1>1, <1>5, <1>6, ParentIs DEF UnderRunning
  <2> HIDE DEF p
  <2>2. ~Exec(c, p)
    BY <1>1, <2>1 DEF MarksInv
  <2>3. ASSUME p # <<>> PROVE c.state[Front(p)] = "running"
    <3>1. /\ p \in Seq(Nat) /\ Len(p) \in Nat /\ Len(p) >= 1
      BY <1>1, <2>1, <2>3, NodeIs
    <3>2. Len(p) \in 0 .. Len(p) /\ Len(p) - 1 \in 0 .. Len(p)
      BY <3>1
    <3>3. Front(Up(p, Len(p))) = Up(p, Len(p) - 1) /\ Up(p, Len(p)) = p
      BY <3>1, <3>2, UpFacts
    <3>4. c.state[Up(p, Len(p) - 1)] = "running"
      BY <1>1, <2>1, <3>2 DEF UpInv
    <3> QED BY <3>3, <3>4
  <2> QED BY <2>1, <2>2, <2>3 DEF p, UnderRunning
<1> QED BY <1>2, <1>3, <1>4, <1>5, <1>6

\* The root has ended.
LEMMA RootTold ==
    ASSUME NEW c, NEW h, ContextInv(c, h), c.calls # <<>>, <<>> \in DOMAIN c.graph,
           Head(c.calls) = <<"propagate", <<>> >>
    PROVE  Moves(c, Advanced(c), h)
<1> DEFINE e == Popped(c)
           d == Finish(e)
<1>1. /\ IsGraph(c.graph) /\ c \in ContextsOf(c.graph) /\ Shape(c) /\ TreeInv(c) /\ FailInv(c)
      /\ LeavesInv(c, h)
  BY DEF ContextInv
<1>2. /\ Advanced(c) = PropagateCompletion(e, <<>>)
      /\ e \in ContextsOf(c.graph) /\ ButFor(c, e, {"calls"}) /\ e.calls = Tail(c.calls)
      /\ (\A x : Prop(c, x) <=> x = <<>>) /\ Ended(c, <<>>)
  BY Telling
<1>3. Advanced(c) = d
  BY <1>2 DEF PropagateCompletion
<1> HIDE DEF e
<1>4. /\ d \in ContextsOf(c.graph) /\ ButFor(e, d, {"done", "wsgi"}) /\ d.done = TRUE
      /\ e.results # <<>> => d.wsgi = Last(e.results).outcome
  BY <1>2, FinishFields
<1> HIDE DEF d
<1>5. Tail(c.calls) = <<>>
  BY <1>1, <1>2, RootEnds
<1>6. /\ d.graph = c.graph /\ d.state = c.state /\ d.current = c.current
      /\ d.waiting = c.waiting /\ d.sends = c.sends /\ d.runs = c.runs
      /\ d.results = c.results /\ e.results = c.results /\ d.calls = <<>>
  BY <1>2, <1>4, <1>5 DEF ButFor, Fields
<1>7. TreeInv(d) /\ Shape(d)
  BY <1>1, <1>2, <1>4, <1>6, TreeFinishes
<1>8. FailInv(d)
  BY <1>1, <1>4, <1>6, FailFinishes
<1>9. LeavesInv(d, h)
  BY <1>1, <1>6, LeavesStay
<1>10. Out(d) = Out(c) /\ Handed(d) = Handed(c)
  BY <1>6 DEF Out, Handed
<1> QED BY <1>1, <1>3, <1>4, <1>6, <1>7, <1>8, <1>9, <1>10 DEF Moves, ContextInv

\* Nothing follows of the end of a step.
LEMMA StepTold ==
    ASSUME NEW c, NEW h, ContextInv(c, h), c.calls # <<>>, NEW q \in DOMAIN c.graph,
           q # <<>>, Head(c.calls) = <<"propagate", q>>,
           c.graph[Front(q)] = "order" => c.current[Front(q)] # Last(q),
           c.graph[Front(q)] = "pipe" => ~PipeEnds(c, Front(q))
    PROVE  Moves(c, Popped(c), h)
<1> DEFINE d == Popped(c)
           p == Front(q)
<1>1. /\ IsGraph(c.graph) /\ c \in ContextsOf(c.graph) /\ Shape(c) /\ TreeInv(c) /\ FailInv(c)
      /\ ContainerInv(c)
  BY DEF ContextInv, TreeInv
<1>2. /\ d \in ContextsOf(c.graph) /\ ButFor(c, d, {"calls"}) /\ d.calls = Tail(c.calls)
      /\ (\A x : Prop(c, x) <=> x = q) /\ ~c.done /\ Ended(c, q)
      /\ p \in Containers(c.graph) /\ p \in DOMAIN c.graph
      /\ c.graph[p] \in {"order", "pipe"}
      /\ c.state[p] = "running" /\ q \in Steps(c.graph, p)
  BY Telling
<1> HIDE DEF d
<1>3. /\ d.graph = c.graph /\ d.state = c.state /\ d.current = c.current /\ d.done = c.done
      /\ d.results = c.results /\ d.wsgi = c.wsgi
      /\ ButFor(c, d, {"state", "calls", "current"})
  BY <1>2 DEF ButFor, Fields
<1>4. Marked(c, d, {}, {}, {})
  BY <1>1, <1>2, <1>3, LeftMarks
<1>5. TreeInv(d)
  BY <1>1, <1>2, <1>3, <1>4, TreeStays
<1>6. FailInv(d)
  <2>1. ~(c.graph[p] = "order" /\ c.state[q] = "error")
    <3>1. ASSUME c.graph[p] = "order", c.state[q] = "error" PROVE FALSE
      <4> HIDE DEF p
      <4>1. OrderAt(c, p, q)
        BY <1>1, <1>2, <3>1, CurrentIs
      <4> QED BY <3>1, <4>1 DEF OrderAt, p
    <3> QED BY <3>1
  <2> QED BY <1>1, <1>3, <2>1, FailTold
<1>7. \A x \in DOMAIN c.graph \ {p} : d.state[x] = c.state[x]
  BY <1>3
<1> HIDE DEF p
<1> QED BY <1>2, <1>3, <1>4, <1>5, <1>6, <1>7, ContainerMoves DEF Marked, d

\* The container of a step ends with it.
LEMMA ContainerTold ==
    ASSUME NEW c, NEW h, ContextInv(c, h), c.calls # <<>>, NEW q \in DOMAIN c.graph,
           q # <<>>, Head(c.calls) = <<"propagate", q>>, NEW s \in {"done", "error"},
           IF c.graph[Front(q)] = "order"
           THEN /\ c.current[Front(q)] = Last(q) /\ s = c.state[q]
                /\ s = "done" => Append(Front(q), Last(q) + 1) \notin DOMAIN c.graph
           ELSE PipeEnds(c, Front(q)) /\ s = PipeState(c, Front(q))
    PROVE  Moves(c, End(Popped(c), Front(q), s), h)
<1> DEFINE e == Popped(c)
           p == Front(q)
           d == End(e, p, s)
<1>1. /\ IsGraph(c.graph) /\ c \in ContextsOf(c.graph) /\ Shape(c) /\ TreeInv(c) /\ FailInv(c)
      /\ ContainerInv(c) /\ MarksInv(c)
  BY DEF ContextInv, TreeInv
<1>2. /\ e \in ContextsOf(c.graph) /\ ButFor(c, e, {"calls"}) /\ e.calls = Tail(c.calls)
      /\ (\A x : Prop(c, x) <=> x = q) /\ ~c.done /\ Ended(c, q)
      /\ p \in Containers(c.graph) /\ p \in DOMAIN c.graph
      /\ c.graph[p] \in {"order", "pipe"}
      /\ c.state[p] = "running" /\ q \in Steps(c.graph, p)
      /\ UnderRunning(c, p) /\ ~Exec(c, p)
  BY Telling
<1> HIDE DEF e
<1>3. /\ d \in ContextsOf(c.graph) /\ ButFor(e, d, {"state", "calls"})
      /\ Changed(c.graph, e.state, d.state, p, s)
      /\ d.calls = << <<"propagate", p>> >> \o e.calls
  <2> HIDE DEF p
  <2> QED BY <1>2, EndFields
<1> HIDE DEF d
<1>4. /\ d.graph = c.graph /\ d.current = c.current /\ d.done = c.done
      /\ d.results = c.results /\ d.wsgi = c.wsgi
      /\ ButFor(c, d, {"state", "calls", "current"})
      /\ Changed(c.graph, c.state, d.state, p, s)
      /\ d.calls = << <<"propagate", p>> >> \o Tail(c.calls)
  BY <1>2, <1>3 DEF ButFor, Fields
<1>5. Marked(c, d, {}, {p}, {p})
  <2>1. Marked(c, d, {}, {}, {p})
    <3> HIDE DEF p
    <3> QED BY <1>1, <1>2, <1>4, TellMarks
  <2> QED BY <1>2, <2>1 DEF Marked
<1>6. d.state[p] = s /\ \A x \in DOMAIN c.graph \ {p} : d.state[x] = c.state[x]
  BY <1>4 DEF Changed
<1>7. \A x \in Steps(c.graph, p) : x \in DOMAIN c.graph /\ x # p /\ Last(x) \in Int
                                   /\ d.state[x] = c.state[x]
  <2> HIDE DEF p
  <2> QED BY <1>1, <1>2, <1>6, StepsAre
<1>8. /\ \A x \in Steps(c.graph, p) : c.state[x] # "running" /\ ~Exec(c, x)
      /\ ContainerAt(d, p)
  <2>1. CASE c.graph[p] = "order"
    <3>1. c.current[p] = Last(q) /\ s = c.state[q]
          /\ (s = "done" => Append(p, Last(q) + 1) \notin DOMAIN c.graph)
      BY <2>1
    <3> HIDE DEF p
    <3>2. OrderAt(c, p, q)
      <4>1. PICK x \in Steps(c.graph, p) : OrderAt(c, p, x)
        BY <1>1, <1>2, <2>1 DEF ContainerInv, ContainerAt
      <4>2. x = q
        BY <1>1, <1>2, <3>1, <4>1, SameStep DEF OrderAt
      <4> QED BY <4>1, <4>2
    <3>3. ASSUME NEW x \in Steps(c.graph, p)
          PROVE  c.state[x] # "running" /\ ~Exec(c, x)
      <4>1. CASE Last(x) > Last(q)
        BY <3>2, <4>1 DEF OrderAt
      <4>2. CASE Last(x) < Last(q)
        BY <1>1, <1>7, <3>2, <4>2 DEF OrderAt, MarksInv
      <4>3. CASE Last(x) = Last(q)
        <5>1. x = q
          BY <1>1, <1>2, <4>3, SameStep
        <5> QED BY <1>1, <1>2, <5>1 DEF MarksInv, Ended
      <4> QED BY <1>2, <1>7, <4>1, <4>2, <4>3
    <3>4. ASSUME s = "done", NEW x \in Steps(c.graph, p) PROVE Last(x) <= Last(q)
      <4>1. ASSUME Last(x) > Last(q) PROVE FALSE
        <5>1. /\ NumSteps(c.graph, p) \in Nat
              /\ Steps(c.graph, p) = {Append(p, i) : i \in 1 .. NumSteps(c.graph, p)}
              /\ Last(q) \in 1 .. NumSteps(c.graph, p) /\ Last(x) \in 1 .. NumSteps(c.graph, p)
          BY <1>1, <1>2, StepsAre
        <5>2. Last(q) + 1 \in 1 .. NumSteps(c.graph, p)
          BY <4>1, <5>1
        <5>3. Append(p, Last(q) + 1) \in Steps(c.graph, p)
          BY <5>1, <5>2
        <5> QED BY <1>7, <3>1, <3>4, <5>3
      <4> QED BY <1>2, <1>7, <4>1
    <3>5. \A x \in DOMAIN c.graph : Exec(d, x) <=> (Exec(c, x) /\ x # p)
      BY <1>5 DEF Marked
    <3>6. OrderAt(d, p, q)
      <4>1. Last(q) = d.current[p]
        BY <1>4, <3>1
      <4>2. \A x \in Steps(c.graph, p) :
                /\ Last(x) < Last(q) => d.state[x] = "done"
                /\ Last(x) > Last(q) => d.state[x] = "pending" /\ ~Exec(d, x)
        BY <1>7, <3>2, <3>5 DEF OrderAt
      <4>3. d.state[q] = s /\ d.state[p] = s
        BY <1>2, <1>6, <1>7, <3>1
      <4> QED BY <1>4, <3>4, <4>1, <4>2, <4>3 DEF OrderAt
    <3> QED BY <1>2, <1>4, <1>6, <2>1, <3>3, <3>6 DEF ContainerAt
  <2>2. CASE c.graph[p] = "pipe"
    <3>1. PipeEnds(c, p) /\ s = PipeState(c, p)
      BY <2>2
    <3> HIDE DEF p
    <3>2. \A x \in Steps(c.graph, p) : c.state[x] \in {"done", "error"}
      BY <3>1 DEF PipeEnds, Ended
    <3>3. \A x \in Steps(c.graph, p) : c.state[x] # "running" /\ ~Exec(c, x)
      BY <1>1, <1>7, <3>2 DEF MarksInv
    <3>4. PipeInv(d, p)
      <4>1. \A x \in Steps(c.graph, p) : d.state[x] \in {"done", "error"}
        BY <1>7, <3>2
      <4>2. PipeEnds(d, p) /\ PipeState(d, p) = PipeState(c, p)
        BY <1>4, <1>7, <4>1 DEF PipeEnds, PipeState, Ended
      <4> QED BY <1>4, <1>6, <3>1, <4>1, <4>2 DEF PipeInv
    <3> QED BY <1>2, <1>4, <1>6, <2>2, <3>3, <3>4 DEF ContainerAt
  <2> QED BY <1>2, <2>1, <2>2
<1>9. TreeInv(d)
  <2>1. \A x \in DOMAIN c.graph : Prop(c, x) => x \in Steps(c.graph, p)
    BY <1>2
  <2> HIDE DEF p
  <2> QED BY <1>1, <1>2, <1>4, <1>5, <1>8, <2>1, TreeEnds
<1>10. FailInv(d)
  <2>1. \A x \in Leaves(c.graph) : d.state[x] = c.state[x]
    BY <1>1, <1>2, <1>6, LeafIs
  <2>2. c.graph[p] = "order" /\ c.state[q] = "error" =>
            /\ d.state[p] = "error"
            /\ d.calls = << <<"propagate", p>> >> \o Tail(c.calls)
    BY <1>4, <1>6
  <2> QED BY <1>1, <1>4, <2>1, <2>2, FailTold
<1>11. Moves(c, d, h)
  <2> HIDE DEF p
  <2> QED BY <1>2, <1>3, <1>4, <1>5, <1>6, <1>9, <1>10, ContainerMoves DEF Marked
<1> QED BY <1>11 DEF d, e, p

\* An order goes on to its next step.
LEMMA NextTold ==
    ASSUME NEW c, NEW h, ContextInv(c, h), c.calls # <<>>, NEW q \in DOMAIN c.graph,
           q # <<>>, Head(c.calls) = <<"propagate", q>>, c.graph[Front(q)] = "order",
           c.current[Front(q)] = Last(q), c.state[q] = "done",
           Append(Front(q), Last(q) + 1) \in DOMAIN c.graph
    PROVE  Moves(c, Execute(AtStep(Popped(c), Front(q), Last(q) + 1),
                            Append(Front(q), Last(q) + 1)), h)
<1> DEFINE e == Popped(c)
           p == Front(q)
           i == Last(q) + 1
           y == Append(p, i)
           f == AtStep(e, p, i)
           d == Execute(f, y)
<1>1. /\ IsGraph(c.graph) /\ c \in ContextsOf(c.graph) /\ Shape(c) /\ TreeInv(c) /\ FailInv(c)
      /\ ContainerInv(c)
  BY DEF ContextInv, TreeInv
<1>2. /\ e \in ContextsOf(c.graph) /\ ButFor(c, e, {"calls"}) /\ e.calls = Tail(c.calls)
      /\ (\A x : Prop(c, x) <=> x = q) /\ ~c.done
      /\ p \in Containers(c.graph) /\ p \in DOMAIN c.graph
      /\ c.state[p] = "running" /\ q \in Steps(c.graph, p)
  BY Telling
<1> HIDE DEF e
<1>3. /\ i \in Nat /\ y \in Steps(c.graph, p) /\ y \in DOMAIN c.graph /\ Last(y) = i
      /\ Last(q) \in Nat
  <2>1. y \in DOMAIN c.graph
    OBVIOUS
  <2> HIDE DEF p
  <2>2. /\ NumSteps(c.graph, p) \in Nat /\ Last(q) \in 1 .. NumSteps(c.graph, p)
        /\ \A n \in Nat : Front(Append(p, n)) = p /\ Last(Append(p, n)) = n
    BY <1>1, <1>2, StepsAre
  <2>3. i \in Nat /\ Last(q) \in Nat
    BY <2>2
  <2>4. Front(y) = p /\ Last(y) = i
    BY <2>2, <2>3
  <2>5. y # <<>>
    <3>1. p \in Seq(Nat)
      BY <1>1, <1>2, NodeIs
    <3> QED BY <2>3, <3>1, AppendIs
  <2> QED BY <2>1, <2>3, <2>4, <2>5 DEF Steps
<1> HIDE DEF y
<1>4. /\ f \in ContextsOf(c.graph) /\ ButFor(e, f, {"current"})
      /\ Changed(c.graph, e.current, f.current, p, i)
  <2> HIDE DEF p, i
  <2> QED BY <1>2, <1>3, CurrentFields
<1> HIDE DEF f
<1>5. /\ d \in ContextsOf(c.graph) /\ ButFor(f, d, {"calls"})
      /\ d.calls = << <<"execute", y>> >> \o f.calls
  BY <1>3, <1>4, ExecuteFields
<1> HIDE DEF d
<1>6. /\ d.graph = c.graph /\ d.done = c.done /\ d.state = c.state
      /\ d.results = c.results /\ d.wsgi = c.wsgi
      /\ ButFor(c, d, {"state", "calls", "current"})
      /\ Changed(c.graph, c.current, d.current, p, i)
      /\ d.calls = << <<"execute", y>> >> \o Tail(c.calls)
  BY <1>2, <1>4, <1>5 DEF ButFor, Fields
<1>7. ~Exec(c, y)
  <2> HIDE DEF p, i
  <2>1. c.graph[p] = "order" /\ c.current[p] = Last(q)
    BY DEF p
  <2>2. PICK x \in Steps(c.graph, p) : OrderAt(c, p, x)
    BY <1>1, <1>2, <2>1 DEF ContainerInv, ContainerAt
  <2>3. Last(x) = Last(q)
    BY <2>1, <2>2 DEF OrderAt
  <2>4. Last(y) > Last(x)
    BY <1>3, <2>3 DEF i
  <2> QED BY <1>3, <2>2, <2>4 DEF OrderAt
<1>8. Marked(c, d, {y}, {}, {})
  <2>1. Head(c.calls)[1] # "execute" /\ Head(c.calls)[2] = q
    OBVIOUS
  <2>2. Marked(c, d, IF "execute" = "execute" THEN {y} ELSE {},
               IF Head(c.calls)[1] = "execute" THEN {q} ELSE {},
               IF "execute" = "execute" THEN {} ELSE {y})
    BY <1>1, <1>3, <1>6, <1>7, <2>1, PushMarks
  <2> QED BY <2>1, <2>2
<1>9. TreeInv(d)
  <2>1. /\ c.graph[p] = "order" /\ c.current[p] = Last(q)
        /\ \A x \in DOMAIN c.graph : Prop(c, x) => x = q
        /\ Last(y) = Last(q) + 1
        /\ Changed(c.graph, c.current, d.current, p, Last(y))
    BY <1>2, <1>3, <1>6
  <2> HIDE DEF p, i
  <2> QED BY <1>1, <1>2, <1>3, <1>6, <1>8, <2>1, TreeNext
<1>10. FailInv(d)
  <2>1. c.state[q] # "error"
    OBVIOUS
  <2> QED BY <1>1, <1>6, <2>1, FailTold
<1>11. Moves(c, d, h)
  <2> HIDE DEF p, i
  <2> QED BY <1>2, <1>5, <1>6, <1>8, <1>9, <1>10, ContainerMoves DEF Marked
<1> QED BY <1>11 DEF d, e, f, i, p, y

LEMMA Propagates ==
    ASSUME NEW c, NEW h, ContextInv(c, h), c.calls # <<>>, NEW q \in DOMAIN c.graph,
           Head(c.calls) = <<"propagate", q>>
    PROVE  Moves(c, Advanced(c), h)
<1> DEFINE e == Popped(c)
           p == Front(q)
<1>1. CASE q = <<>>
  BY <1>1, RootTold
<1>2. CASE q # <<>>
  <2>1. /\ Advanced(c) = PropagateCompletion(e, q) /\ e \in ContextsOf(c.graph)
        /\ ButFor(c, e, {"calls"}) /\ Ended(c, q) /\ c.graph[p] \in {"order", "pipe"}
        /\ q \in Steps(c.graph, p) /\ p \in DOMAIN c.graph
    BY <1>2, Telling
  <2>2. e.graph = c.graph /\ e.state = c.state /\ e.current = c.current
    BY <2>1 DEF ButFor, Fields
  <2>3. c.state[q] \in {"done", "error"}
    BY <2>1 DEF Ended
  <2>4. Last(q) \in Nat
    <3>1. IsGraph(c.graph)
      BY DEF ContextInv
    <3> HIDE DEF p
    <3>2. Last(q) \in 1 .. NumSteps(c.graph, p)
      BY <2>1, <3>1, StepsAre
    <3> QED BY <3>2
  <2>5. /\ PipeEnds(e, p) <=> PipeEnds(c, p)
        /\ PipeState(e, p) = PipeState(c, p) /\ PipeState(c, p) \in {"done", "error"}
    BY <2>2 DEF PipeEnds, PipeState, Ended
  <2> HIDE DEF e
  <2>6. CASE c.graph[p] = "order" /\ c.current[p] # Last(q)
    <3>1. Advanced(c) = e
      BY <1>2, <2>1, <2>2, <2>6 DEF PropagateCompletion
    <3>2. c.graph[p] # "pipe"
      BY <2>6
    <3> QED BY <1>2, <2>6, <3>1, <3>2, StepTold DEF e
  <2>7. CASE c.graph[p] = "order" /\ c.current[p] = Last(q) /\ c.state[q] = "error"
    <3>1. Advanced(c) = End(e, p, "error")
      BY <1>2, <2>1, <2>2, <2>7 DEF PropagateCompletion
    <3>2. "error" \in {"done", "error"} /\ "error" # "done"
      OBVIOUS
    <3> QED BY <1>2, <2>7, <3>1, <3>2, ContainerTold DEF e
  <2>8. CASE /\ c.graph[p] = "order" /\ c.current[p] = Last(q) /\ c.state[q] = "done"
             /\ Append(p, Last(q) + 1) \in DOMAIN c.graph
    <3>1. Advanced(c) = Execute(AtStep(e, p, Last(q) + 1), Append(p, Last(q) + 1))
      BY <1>2, <2>1, <2>2, <2>8 DEF PropagateCompletion, OrderAdvances, AtStep
    <3> QED BY <1>2, <2>8, <3>1, NextTold DEF e
  <2>9. CASE /\ c.graph[p] = "order" /\ c.current[p] = Last(q) /\ c.state[q] = "done"
             /\ Append(p, Last(q) + 1) \notin DOMAIN c.graph
    <3>1. Advanced(c) = End(e, p, "done")
      BY <1>2, <2>1, <2>2, <2>9 DEF PropagateCompletion, OrderAdvances
    <3>2. "done" \in {"done", "error"}
      OBVIOUS
    <3> QED BY <1>2, <2>9, <3>1, <3>2, ContainerTold DEF e
  <2>10. CASE c.graph[p] = "pipe" /\ PipeEnds(c, p)
    <3>1. Advanced(c) = End(e, p, PipeState(c, p))
      BY <1>2, <2>1, <2>2, <2>5, <2>10 DEF PropagateCompletion
    <3>2. c.graph[p] # "order"
      BY <2>10
    <3> QED BY <1>2, <2>5, <2>10, <3>1, <3>2, ContainerTold DEF e
  <2>11. CASE c.graph[p] = "pipe" /\ ~PipeEnds(c, p)
    <3>1. Advanced(c) = e
      BY <1>2, <2>1, <2>2, <2>5, <2>11 DEF PropagateCompletion
    <3>2. c.graph[p] # "order"
      BY <2>11
    <3> QED BY <1>2, <2>11, <3>1, <3>2, StepTold DEF e
  <2> QED BY <2>1, <2>3, <2>6, <2>7, <2>8, <2>9, <2>10, <2>11
<1> QED BY <1>1, <1>2

\* One call of the engine.
LEMMA EngineStep ==
    ASSUME NEW c, NEW h, ContextInv(c, h), c.calls # <<>>
    PROVE  Moves(c, Advanced(c), h)
<1>1. IsGraph(c.graph) /\ c \in ContextsOf(c.graph)
  BY DEF ContextInv
<1>2. PICK p \in DOMAIN c.graph :
        Head(c.calls) = <<"execute", p>> \/ Head(c.calls) = <<"propagate", p>>
  BY <1>1, HeadIs
<1>3. CASE Head(c.calls) = <<"propagate", p>>
  BY <1>3, Propagates
<1>4. CASE Head(c.calls) = <<"execute", p>>
  <2>1. CASE p \in Leaves(c.graph)
    BY <1>4, <2>1, LeafExecutes
  <2>2. CASE p \notin Leaves(c.graph)
    <3>1. p \in Containers(c.graph) /\ c.graph[p] \in {"order", "pipe"}
      BY <2>2 DEF Containers, Leaves
    <3> QED BY <1>4, <3>1, EmptyMoves, OrderMoves, PipeMoves
  <2> QED BY <2>1, <2>2
<1> QED BY <1>2, <1>3, <1>4

(***************************************************************************)
(* Lemmas: what the loop brings to a context.                              *)
(***************************************************************************)

\* d comes of c by a result of p.
Hears(c, d, h, p, k) ==
    /\ ContextInv(d, h) /\ d.graph = c.graph /\ d.current = c.current
    /\ Out(d) = Out(c) \ {<<p, k>>} /\ Handed(d) = Handed(c) \ {p}

\* A leaf at work.
LEMMA AtWork ==
    ASSUME NEW c, NEW h, ContextInv(c, h), Quiet(c), NEW p \in Leaves(c.graph),
           c.state[p] = "running"
    PROVE  /\ p \in DOMAIN c.graph /\ p \notin Containers(c.graph) /\ Steps(c.graph, p) = {}
           /\ UnderRunning(c, p) /\ ~c.done /\ (\A x : ~Exec(c, x) /\ ~Prop(c, x))
           /\ \A x : ~Failed(c, x)
<1>1. /\ IsGraph(c.graph) /\ c \in ContextsOf(c.graph) /\ Shape(c) /\ TreeInv(c)
      /\ FailInv(c) /\ UpInv(c) /\ RootInv(c)
  BY DEF ContextInv, TreeInv
<1>2. p \in DOMAIN c.graph /\ p \notin Containers(c.graph) /\ Steps(c.graph, p) = {}
  BY <1>1, LeafIs
<1>3. \A x : ~Exec(c, x) /\ ~Prop(c, x)
  BY EmptyIs DEF Quiet, Exec, Prop
<1>4. /\ p \in Seq(Nat) /\ Len(p) \in Nat /\ <<>> \in DOMAIN c.graph
      /\ p # <<>> => Len(p) >= 1
  BY <1>1, <1>2, NodeIs
<1>5. ASSUME p # <<>> PROVE c.state[Front(p)] = "running"
  <2>2. Len(p) \in 0 .. Len(p) /\ Len(p) - 1 \in 0 .. Len(p) /\ Len(p) >= 1
    BY <1>4, <1>5
  <2>3. Front(Up(p, Len(p))) = Up(p, Len(p) - 1) /\ Up(p, Len(p)) = p
    BY <1>4, <2>2, UpFacts
  <2>4. c.state[Up(p, Len(p) - 1)] = "running"
    BY <1>1, <1>2, <2>2 DEF UpInv
  <2> QED BY <2>3, <2>4
<1>6. ~c.done
  <2>1. c.graph # NoGraph
    BY <1>2 DEF NoGraph
  <2>2. ~Ended(c, <<>>)
    BY <1>1, <1>2, <1>4, RootEnds
  <2> QED BY <1>1, <2>1, <2>2 DEF RootInv
<1>7. \A x : ~Failed(c, x)
  BY <1>1, FailNone
<1> QED BY <1>2, <1>3, <1>5, <1>6, <1>7 DEF UnderRunning

\* d is c after the result o of p: there is more to ask, or p ends.
AfterResult(c, d, h2, p, k, o, more) ==
    /\ d \in ContextsOf(c.graph)
    /\ ButFor(c, d, {"state", "results", "calls", "waiting", "sends"})
    /\ Changed(c.graph, c.state, d.state, p, LeafMeaning(c.graph, h2, p))
    /\ more \in BOOLEAN
    /\ more <=> k > 0 /\ o = "ok" /\ k < NumRequests(c.graph[p])
    /\ more => /\ d.calls = <<>> /\ d.results = c.results /\ d.sends = {<<p, k + 1>>}
               /\ d.waiting = (c.waiting \ {<<p, k>>}) \cup {<<p, k + 1>>}
    /\ ~more => /\ d.calls = << <<"propagate", p>> >> /\ d.sends = {}
                /\ d.results = Append(c.results, [step |-> p, outcome |-> o])
                /\ d.waiting = c.waiting \ {<<p, k>>}

LEMMA LeafAnswers ==
    ASSUME NEW c, NEW d, NEW h, NEW h2, ContextInv(c, h), Quiet(c), NEW p \in Leaves(c.graph),
           NEW k \in {0, 1, 2}, IsDue(c.graph, c.state, h, p, k), NEW o \in Outcomes,
           h2 = h \cup {<<p, k, o>>}, NEW more, AfterResult(c, d, h2, p, k, o, more)
    PROVE  Hears(c, d, h2, p, k)
<1> USE DEF AfterResult
<1>1. /\ IsGraph(c.graph) /\ c \in ContextsOf(c.graph) /\ Shape(c) /\ TreeInv(c)
      /\ LeavesInv(c, h) /\ WaitingInv(c, h)
  BY DEF ContextInv, LeavesInv
<1>2. /\ HeardInv(c, h2) /\ c.state[p] = "running"
      /\ \A x, j, O : x # p => (Heard(h2, x, j, O) <=> Heard(h, x, j, O))
      /\ c.graph[p] \in {"internal", "call", "calls"}
      /\ c.graph[p] = "internal" <=> k = 0
      /\ k = 0 => LeafMeaning(c.graph, h2, p) = IF o = "error" THEN "error" ELSE "done"
      /\ k > 0 /\ o # "ok" => LeafMeaning(c.graph, h2, p) = "error"
      /\ k > 0 /\ o = "ok" /\ k >= NumRequests(c.graph[p]) =>
           LeafMeaning(c.graph, h2, p) = "done"
      /\ k > 0 /\ o = "ok" /\ k < NumRequests(c.graph[p]) =>
           /\ LeafMeaning(c.graph, h2, p) = "running" /\ k = 1
           /\ \A s : s[p] = "running" =>
               \A j \in {1, 2} : IsDue(c.graph, s, h2, p, j) <=> j = k + 1
  <2>1. /\ IsGraph(c.graph) /\ LeavesInv(c, h) /\ p \in Leaves(c.graph) /\ k \in {0, 1, 2}
        /\ IsDue(c.graph, c.state, h, p, k) /\ o \in Outcomes /\ h2 = h \cup {<<p, k, o>>}
    BY <1>1
  <2>2. HearsAs(c, h, h2, p, k, o)
    BY ONLY <2>1, LeafHears
  <2> QED BY <2>2 DEF HearsAs
<1>3. /\ p \in DOMAIN c.graph /\ p \notin Containers(c.graph) /\ Steps(c.graph, p) = {}
      /\ UnderRunning(c, p) /\ ~c.done /\ (\A x : ~Exec(c, x) /\ ~Prop(c, x))
      /\ \A x : ~Failed(c, x)
  BY <1>2, AtWork
<1>4. /\ d.graph = c.graph /\ d.done = c.done /\ d.current = c.current
      /\ d.runs = c.runs /\ c.calls = <<>> /\ c.sends = {} /\ c.runs = <<>>
  BY DEF ButFor, Fields, Quiet
<1>5. /\ d.state[p] = LeafMeaning(c.graph, h2, p)
      /\ \A x \in DOMAIN c.graph \ {p} : d.state[x] = c.state[x]
  BY DEF Changed
<1>6. /\ more => LeafMeaning(c.graph, h2, p) = "running" /\ k = 1
      /\ ~more => LeafMeaning(c.graph, h2, p) \in {"done", "error"}
      /\ ~more /\ o = "ok" => LeafMeaning(c.graph, h2, p) = "done"
  <2>1. CASE more
    BY <1>2, <2>1
  <2>2. CASE ~more /\ k = 0
    <3>1. o = "ok" => o # "error"
      OBVIOUS
    <3> QED BY <1>2, <2>2, <3>1
  <2>3. CASE ~more /\ k # 0
    <3>1. k > 0 /\ k \in Int
      BY <2>3
    <3>2. c.graph[p] \in {"call", "calls"}
      BY <1>2, <2>3
    <3>3. NumRequests(c.graph[p]) \in Int
      BY <1>1, <3>2, LeafIs
    <3>4. o = "ok" => k >= NumRequests(c.graph[p])
      BY <2>3, <3>1, <3>3
    <3> QED BY <1>2, <2>3, <3>1, <3>4
  <2> QED BY <2>1, <2>2, <2>3
<1>7. TreeInv(d) /\ Shape(d)
  <2>1. CASE more
    <3>1. d.state = c.state
      <4>1. DOMAIN d.state = DOMAIN c.graph /\ DOMAIN c.state = DOMAIN c.graph
        BY <1>1 DEF ContextsOf
      <4>2. d.state \in [DOMAIN c.graph -> NodeStates] /\ c.state \in [DOMAIN c.graph -> NodeStates]
        BY <1>1 DEF ContextsOf
      <4>3. \A x \in DOMAIN c.graph : d.state[x] = c.state[x]
        BY <1>2, <1>5, <1>6, <2>1
      <4> QED BY <4>2, <4>3
    <3> QED BY <1>1, <1>4, <2>1, <3>1, TreeSame
  <2>2. CASE ~more
    <3>1. "propagate" \in {"execute", "propagate"} /\ "propagate" # "execute"
      OBVIOUS
    <3>2. Marked(c, d, IF "propagate" = "execute" THEN {p} ELSE {}, {},
                 IF "propagate" = "execute" THEN {} ELSE {p})
      BY <1>3, <1>4, <2>2, <3>1, FirstMarks
    <3>3. Marked(c, d, {}, {}, {p})
      BY <3>1, <3>2
    <3>4. Marked(c, d, {}, {p}, {p})
      BY <1>3, <3>3 DEF Marked
    <3> DEFINE s == LeafMeaning(c.graph, h2, p)
    <3>5. s \in {"done", "error"} /\ Changed(c.graph, c.state, d.state, p, s)
      BY <1>6, <2>2
    <3> HIDE DEF s
    <3>6. TreeInv(d)
      BY <1>1, <1>2, <1>3, <1>4, <3>4, <3>5, TreeEnds
    <3> QED BY <3>4, <3>6 DEF Marked
  <2> QED BY <2>1, <2>2
<1>8. LeavesInv(d, h2)
  <2>1. HeardInv(d, h2)
    BY <1>2, <1>4 DEF HeardInv
  <2>2. /\ d.state[p] # "pending" /\ d.state[p] = LeafMeaning(c.graph, h2, p)
        /\ Ended(d, p) <=> ~more
        /\ d.state[p] = "running" <=> more
    BY <1>5, <1>6 DEF Ended
  <2>3. \A x \in Leaves(c.graph) \ {p} :
            /\ d.state[x] = c.state[x]
            /\ \A j, O : Heard(h2, x, j, O) <=> Heard(h, x, j, O)
            /\ \A j \in {1, 2} : <<x, j>> \in d.waiting <=> <<x, j>> \in c.waiting
    <3>1. \A x \in Leaves(c.graph) : x \in DOMAIN c.graph
      BY <1>1, LeafIs
    <3>2. \A x \in Leaves(c.graph) \ {p}, j \in {1, 2} :
            <<x, j>> \in d.waiting <=> <<x, j>> \in c.waiting
      OBVIOUS
    <3> QED BY <1>2, <1>5, <3>1, <3>2
  <2>4. /\ c.waiting \subseteq Leaves(c.graph) \X {1, 2}
        /\ \A j \in {1, 2} : <<p, j>> \in c.waiting <=> IsDue(c.graph, c.state, h, p, j)
    BY <1>1, WaitingDue
  <2>5. d.waiting \subseteq Leaves(c.graph) \X {1, 2} /\ d.sends \subseteq d.waiting
    <3>1. CASE more
      <4>1. k + 1 \in {1, 2}
        BY <1>6, <3>1
      <4> QED BY <2>4, <3>1, <4>1
    <3>2. CASE ~more
      BY <2>4, <3>2
    <3> QED BY <3>1, <3>2
  <2>6. ASSUME NEW j \in {1, 2}
        PROVE  <<p, j>> \in d.waiting <=> IsDue(c.graph, d.state, h2, p, j)
    <3>1. \A i \in {1, 2} : i # k => <<p, i>> \notin c.waiting
      <4>1. ASSUME NEW i \in {1, 2}, i # k, IsDue(c.graph, c.state, h, p, i) PROVE FALSE
        <5>1. CASE k = 0
          BY <1>2, <4>1, <5>1 DEF IsDue
        <5>2. CASE k # 0
          <6>1. c.graph[p] # "internal"
            BY <1>2, <5>2
          <6>2. /\ \A l \in 1 .. i - 1 : Heard(h, p, l, {"ok"})
                /\ \A l \in 1 .. k - 1 : Heard(h, p, l, {"ok"})
                /\ ~Heard(h, p, i, Outcomes) /\ ~Heard(h, p, k, Outcomes)
            BY <4>1, <6>1 DEF IsDue
          <6>3. i \in 1 .. k - 1 \/ k \in 1 .. i - 1
            BY <4>1, <5>2
          <6>4. \A l : Heard(h, p, l, {"ok"}) => Heard(h, p, l, Outcomes)
            BY DEF Heard, Outcomes
          <6> QED BY <6>2, <6>3, <6>4
        <5> QED BY <5>1, <5>2
      <4> QED BY <2>4, <4>1
    <3>2. CASE more
      <4>1. IsDue(c.graph, d.state, h2, p, j) <=> j = k + 1
        BY <1>2, <2>2, <3>2
      <4>2. <<p, j>> \in d.waiting <=> j = k + 1
        <5>1. <<p, j>> \in d.waiting <=> (<<p, j>> \in c.waiting /\ j # k) \/ j = k + 1
          BY <3>2
        <5> QED BY <3>1, <5>1
      <4> QED BY <4>1, <4>2
    <3>3. CASE ~more
      <4>1. ~IsDue(c.graph, d.state, h2, p, j)
        BY <2>2, <3>3 DEF IsDue
      <4>2. <<p, j>> \in d.waiting <=> <<p, j>> \in c.waiting /\ j # k
        BY <3>3
      <4> QED BY <3>1, <4>1, <4>2
    <3> QED BY <3>2, <3>3
  <2>7. p \notin ToSet(c.runs) /\ ~Ended(c, p)
    BY <1>2, <1>4, EmptyIs DEF Ended
  <2>8. \/ d.results = c.results /\ ~Ended(d, p)
        \/ /\ Ended(d, p)
           /\ \E r \in Outcomes : d.results = Append(c.results, [step |-> p, outcome |-> r])
    BY <2>2
  <2> QED BY <1>1, <1>4, <2>1, <2>2, <2>3, <2>5, <2>6, <2>7, <2>8, LeafChanges
<1>9. FailInv(d)
  <2>1. CASE more
    <3>1. \A x \in Leaves(c.graph) : d.state[x] = "error" => c.state[x] = "error"
      BY <1>1, <1>5, <1>6, <2>1, LeafIs
    <3> QED BY <1>3, <1>4, <3>1, FailStays
  <2>2. CASE ~more
    <3>1. \A x \in Leaves(c.graph) \ {p} : d.state[x] = c.state[x]
      BY <1>1, <1>5, LeafIs
    <3>2. d.state[p] # "running" /\ (d.state[p] = "error" => o # "ok")
      BY <1>5, <1>6, <2>2
    <3>3. d.state[p] = "error" => \E r \in Outcomes \ {"ok"} :
            d.results = Append(c.results, [step |-> p, outcome |-> r])
      BY <2>2, <3>2
    <3>4. ASSUME Serial(c.graph, p)
          PROVE  \A x \in Leaves(c.graph) \ {p} : c.state[x] # "running"
      BY <1>1, <1>2, <3>4, AloneRuns
    <3> QED BY <1>1, <1>3, <1>4, <2>2, <3>1, <3>2, <3>3, <3>4, FailBegins
  <2> QED BY <2>1, <2>2
<1>10. Out(d) = Out(c) \ {<<p, k>>}
  <2>1. <<p, k + 1>> \notin c.waiting \/ ~more
    <3>1. ASSUME more, <<p, k + 1>> \in c.waiting PROVE FALSE
      <4>1. k = 1 /\ k + 1 = 2 /\ 2 \in {1, 2} /\ c.graph[p] # "internal"
        BY <1>2, <1>6, <3>1
      <4>2. IsDue(c.graph, c.state, h, p, 2)
        BY <1>1, <3>1, <4>1, WaitingDue
      <4>3. Heard(h, p, 1, {"ok"}) /\ ~Heard(h, p, 1, Outcomes)
        BY <4>1, <4>2 DEF IsDue
      <4> QED BY <4>3 DEF Heard, Outcomes
    <3> QED BY <3>1
  <2>2. CASE more
    BY <1>4, <2>1, <2>2 DEF Out
  <2>3. CASE ~more
    BY <1>4, <2>3 DEF Out
  <2> QED BY <2>2, <2>3
<1>11. Handed(d) = Handed(c) \ {p}
  <2>1. d.state[p] = "running" => c.graph[p] # "internal"
    BY <1>2, <1>5, <1>6
  <2> QED BY <1>4, <1>5, <2>1 DEF Handed
<1> QED BY <1>1, <1>4, <1>7, <1>8, <1>9, <1>10, <1>11 DEF Hears, ContextInv

LEMMA ResultEnds ==
    ASSUME NEW g, NEW c \in ContextsOf(g), NEW p \in DOMAIN g, NEW o \in Outcomes,
           NEW s \in {"done", "error"}, c.calls = <<>>
    PROVE  /\ End(SetResult(c, p, o), p, s) \in ContextsOf(g)
           /\ ButFor(c, End(SetResult(c, p, o), p, s), {"results", "state", "calls"})
           /\ Changed(g, c.state, End(SetResult(c, p, o), p, s).state, p, s)
           /\ End(SetResult(c, p, o), p, s).results =
                Append(c.results, [step |-> p, outcome |-> o])
           /\ End(SetResult(c, p, o), p, s).calls = << <<"propagate", p>> >>
<1> DEFINE f == SetResult(c, p, o)
           d == End(f, p, s)
<1>1. /\ f \in ContextsOf(g) /\ ButFor(c, f, {"results"})
      /\ f.results = Append(c.results, [step |-> p, outcome |-> o])
  BY ResultFields
<1> HIDE DEF f
<1>2. /\ d \in ContextsOf(g) /\ ButFor(f, d, {"state", "calls"})
      /\ Changed(g, f.state, d.state, p, s)
      /\ d.calls = << <<"propagate", p>> >> \o f.calls
  BY <1>1, EndFields
<1> HIDE DEF d
<1>3. f.calls = <<>> /\ f.state = c.state /\ d.results = f.results
  BY <1>1, <1>2 DEF ButFor, Fields
<1>4. << <<"propagate", p>> >> \o <<>> = << <<"propagate", p>> >>
  BY OneIs, ConcatEmptySeq
<1>5. ButFor(c, d, {"results", "state", "calls"})
  BY <1>1, <1>2 DEF ButFor
<1> QED BY <1>1, <1>2, <1>3, <1>4, <1>5 DEF d, f

\* on_egress_result(), for a request that is waited for.
LEMMA EgressResult ==
    ASSUME NEW c, NEW h, ContextInv(c, h), Quiet(c), NEW p, NEW k, <<p, k>> \in c.waiting,
           NEW o \in Outcomes
    PROVE  Hears(c, OnEgressResult(c, p, k, o), h \cup {<<p, k, o>>}, p, k)
<1> DEFINE h2 == h \cup {<<p, k, o>>}
           d  == OnEgressResult(c, p, k, o)
           a  == Answered(c, p, k)
           n  == NumRequests(c.graph[p])
           m  == LeafMeaning(c.graph, h2, p)
<1>1. /\ IsGraph(c.graph) /\ c \in ContextsOf(c.graph) /\ LeavesInv(c, h) /\ WaitingInv(c, h)
      /\ c.calls = <<>> /\ c.sends = {} /\ c.runs = <<>>
  BY DEF ContextInv, LeavesInv, Quiet
<1>2. p \in Leaves(c.graph) /\ k \in {1, 2} /\ IsDue(c.graph, c.state, h, p, k)
  <2>1. p \in Leaves(c.graph) /\ k \in {1, 2}
    BY <1>1, WaitingDue
  <2> QED BY <1>1, <2>1, WaitingDue
<1>3. p \in DOMAIN c.graph /\ k \in {0, 1, 2} /\ k \in Nat \ {0} /\ k > 0
  BY <1>1, <1>2, LeafIs
<1>4. HearsAs(c, h, h2, p, k, o)
  <2>1. /\ IsGraph(c.graph) /\ LeavesInv(c, h) /\ p \in Leaves(c.graph) /\ k \in {0, 1, 2}
        /\ IsDue(c.graph, c.state, h, p, k) /\ o \in Outcomes /\ h2 = h \cup {<<p, k, o>>}
    BY <1>1, <1>2, <1>3
  <2> HIDE DEF h2
  <2> QED BY ONLY <2>1, LeafHears
<1>5. c.graph[p] \in {"call", "calls"} /\ n \in Nat
  <2>1. c.graph[p] \in {"internal", "call", "calls"} /\ c.graph[p] # "internal"
    BY <1>2, <1>4 DEF HearsAs
  <2> QED BY <1>1, <1>2, <2>1, LeafIs
<1>6. /\ o # "ok" => m = "error"
      /\ o = "ok" /\ k >= n => m = "done"
      /\ o = "ok" /\ k < n => m = "running" /\ k = 1 /\ c.state[p] = "running"
  BY <1>3, <1>4 DEF HearsAs
<1>7. /\ a \in ContextsOf(c.graph) /\ ButFor(c, a, {"waiting"})
      /\ a.waiting = c.waiting \ {<<p, k>>}
  BY <1>1, AnsweredFields
<1>8. a.graph = c.graph /\ a.calls = <<>> /\ a.sends = {}
  BY <1>1, <1>7 DEF ButFor, Fields
<1>9. /\ o # "ok" => d = End(SetResult(a, p, o), p, "error")
      /\ o = "ok" /\ k < n => d = Send(a, p, k + 1)
      /\ o = "ok" /\ k >= n => d = End(SetResult(a, p, o), p, "done")
  <2>1. a = [c EXCEPT !.waiting = @ \ {<<p, k>>}]
    BY DEF Answered
  <2>2. d = CASE o # "ok" -> End(SetResult(a, p, o), p, "error")
              [] o = "ok" /\ k < NumRequests(c.graph[p]) -> Send(a, p, k + 1)
              [] o = "ok" /\ k >= NumRequests(c.graph[p]) ->
                    End(SetResult(a, p, o), p, "done")
    BY <2>1 DEF OnEgressResult
  <2> HIDE DEF d, a
  <2>3. k < n => ~(k >= n)
    BY <1>3, <1>5
  <2> QED BY <2>2, <2>3 DEF n
<1> HIDE DEF h2, d, a, m
<1>10. CASE o = "ok" /\ k < n
  <2>1. k + 1 \in Nat \ {0}
    BY <1>3
  <2>2. /\ d \in ContextsOf(c.graph) /\ ButFor(a, d, {"waiting", "sends"})
        /\ d.waiting = a.waiting \cup {<<p, k + 1>>} /\ d.sends = a.sends \cup {<<p, k + 1>>}
    BY <1>3, <1>7, <1>9, <1>10, <2>1, SendFields
  <2>3. ButFor(c, d, {"state", "results", "calls", "waiting", "sends"})
    BY <1>7, <2>2 DEF ButFor
  <2>4. /\ d.calls = <<>> /\ d.results = c.results /\ d.sends = {<<p, k + 1>>}
        /\ d.waiting = (c.waiting \ {<<p, k>>}) \cup {<<p, k + 1>>} /\ d.state = c.state
    BY <1>1, <1>7, <1>8, <2>2 DEF ButFor, Fields
  <2>5. Changed(c.graph, c.state, d.state, p, LeafMeaning(c.graph, h2, p))
    BY <1>6, <1>10, <2>4 DEF Changed, m
  <2> DEFINE more == TRUE
  <2>6. more \in BOOLEAN /\ (more <=> k > 0 /\ o = "ok" /\ k < NumRequests(c.graph[p]))
    BY <1>3, <1>10
  <2>7. /\ more => /\ d.calls = <<>> /\ d.results = c.results /\ d.sends = {<<p, k + 1>>}
                   /\ d.waiting = (c.waiting \ {<<p, k>>}) \cup {<<p, k + 1>>}
        /\ ~more => /\ d.calls = << <<"propagate", p>> >> /\ d.sends = {}
                    /\ d.results = Append(c.results, [step |-> p, outcome |-> o])
                    /\ d.waiting = c.waiting \ {<<p, k>>}
    BY <2>4
  <2> HIDE DEF more
  <2>8. /\ h2 = h \cup {<<p, k, o>>} /\ ContextInv(c, h) /\ Quiet(c) /\ o \in Outcomes
        /\ p \in Leaves(c.graph) /\ k \in {0, 1, 2} /\ IsDue(c.graph, c.state, h, p, k)
        /\ d \in ContextsOf(c.graph)
    BY <1>2, <1>3, <2>2 DEF h2
  <2>9. Hears(c, d, h2, p, k)
    <3>1. AfterResult(c, d, h2, p, k, o, more)
      BY <2>3, <2>5, <2>6, <2>7, <2>8 DEF AfterResult
    <3> QED BY ONLY <2>8, <3>1, LeafAnswers
  <2> QED BY <2>9 DEF h2, d
<1>11. ASSUME NEW s \in {"done", "error"}, ~(o = "ok" /\ k < n), m = s,
              d = End(SetResult(a, p, o), p, s)
       PROVE  Hears(c, d, h2, p, k)
  <2>1. /\ d \in ContextsOf(c.graph) /\ ButFor(a, d, {"results", "state", "calls"})
        /\ Changed(c.graph, a.state, d.state, p, s)
        /\ d.results = Append(a.results, [step |-> p, outcome |-> o])
        /\ d.calls = << <<"propagate", p>> >>
    BY <1>3, <1>7, <1>8, <1>11, ResultEnds
  <2>3. ButFor(c, d, {"state", "results", "calls", "waiting", "sends"})
    BY <1>7, <2>1 DEF ButFor
  <2>4. /\ d.waiting = c.waiting \ {<<p, k>>} /\ d.sends = {} /\ a.state = c.state
        /\ a.results = c.results
    BY <1>1, <1>7, <2>1 DEF ButFor, Fields
  <2>5. Changed(c.graph, c.state, d.state, p, LeafMeaning(c.graph, h2, p))
    BY <1>11, <2>1, <2>4 DEF m
  <2> DEFINE more == FALSE
  <2>6. more \in BOOLEAN /\ (more <=> k > 0 /\ o = "ok" /\ k < NumRequests(c.graph[p]))
    BY <1>3, <1>11
  <2>7. /\ more => /\ d.calls = <<>> /\ d.results = c.results /\ d.sends = {<<p, k + 1>>}
                   /\ d.waiting = (c.waiting \ {<<p, k>>}) \cup {<<p, k + 1>>}
        /\ ~more => /\ d.calls = << <<"propagate", p>> >> /\ d.sends = {}
                    /\ d.results = Append(c.results, [step |-> p, outcome |-> o])
                    /\ d.waiting = c.waiting \ {<<p, k>>}
    BY <2>1, <2>4
  <2> HIDE DEF more
  <2>8. /\ h2 = h \cup {<<p, k, o>>} /\ ContextInv(c, h) /\ Quiet(c) /\ o \in Outcomes
        /\ p \in Leaves(c.graph) /\ k \in {0, 1, 2} /\ IsDue(c.graph, c.state, h, p, k)
        /\ d \in ContextsOf(c.graph)
    BY <1>2, <1>3, <2>1 DEF h2
  <2>9. AfterResult(c, d, h2, p, k, o, more)
    BY <2>3, <2>5, <2>6, <2>7, <2>8 DEF AfterResult
  <2> QED BY ONLY <2>8, <2>9, LeafAnswers
<1>12. "done" \in {"done", "error"} /\ "error" \in {"done", "error"}
  OBVIOUS
<1>13. k < n \/ k >= n
  BY <1>3, <1>5
<1>14. CASE o # "ok"
  <2>1. m = "error" /\ d = End(SetResult(a, p, o), p, "error")
    BY <1>6, <1>9, <1>14
  <2>2. Hears(c, d, h2, p, k)
    BY <1>11, <1>12, <1>14, <2>1
  <2> QED BY <2>2 DEF h2, d
<1>15. CASE o = "ok" /\ k >= n
  <2>1. m = "done" /\ d = End(SetResult(a, p, o), p, "done") /\ ~(k < n)
    BY <1>3, <1>5, <1>6, <1>9, <1>15
  <2>2. Hears(c, d, h2, p, k)
    BY <1>11, <1>12, <2>1
  <2> QED BY <2>2 DEF h2, d
<1> QED BY <1>10, <1>13, <1>14, <1>15

\* on_internal_result(), for a function that runs.
LEMMA InternalResult ==
    ASSUME NEW c, NEW h, ContextInv(c, h), Quiet(c), NEW p \in Handed(c), NEW o \in Outcomes
    PROVE  Hears(c, OnInternalResult(c, p, o), h \cup {<<p, 0, o>>}, p, 0)
<1> DEFINE h2 == h \cup {<<p, 0, o>>}
           s  == IF o = "error" THEN "error" ELSE "done"
           d  == End(SetResult(c, p, o), p, s)
<1>1. /\ IsGraph(c.graph) /\ c \in ContextsOf(c.graph) /\ LeavesInv(c, h) /\ LeafInv(c, h)
      /\ WaitingInv(c, h) /\ c.calls = <<>> /\ c.sends = {} /\ c.runs = <<>>
  BY DEF ContextInv, LeavesInv, Quiet
<1>2. /\ p \in DOMAIN c.graph /\ c.graph[p] = "internal" /\ c.state[p] = "running"
      /\ p \in Leaves(c.graph)
  BY DEF Handed, Leaves
<1>3. IsDue(c.graph, c.state, h, p, 0)
  <2>1. LeafMeaning(c.graph, h, p) = "running"
    BY <1>1, <1>2 DEF LeafInv
  <2>2. ~Heard(h, p, 0, {"error"}) /\ ~Heard(h, p, 0, {"ok", "bad"})
    BY <1>2, <2>1 DEF LeafMeaning
  <2>3. ~Heard(h, p, 0, Outcomes)
    BY <2>2 DEF Heard, Outcomes
  <2> QED BY <1>2, <2>3 DEF IsDue
<1>4. HearsAs(c, h, h2, p, 0, o)
  <2>1. /\ IsGraph(c.graph) /\ LeavesInv(c, h) /\ p \in Leaves(c.graph) /\ 0 \in {0, 1, 2}
        /\ IsDue(c.graph, c.state, h, p, 0) /\ o \in Outcomes /\ h2 = h \cup {<<p, 0, o>>}
    BY <1>1, <1>2, <1>3
  <2> HIDE DEF h2
  <2> QED BY ONLY <2>1, LeafHears
<1>5. LeafMeaning(c.graph, h2, p) = s
  <2> HIDE DEF h2
  <2> QED BY <1>4 DEF HearsAs
<1>6. OnInternalResult(c, p, o) = d /\ s \in {"done", "error"}
  BY DEF OnInternalResult
<1> HIDE DEF h2, s
<1>7. /\ d \in ContextsOf(c.graph) /\ ButFor(c, d, {"results", "state", "calls"})
      /\ Changed(c.graph, c.state, d.state, p, s)
      /\ d.results = Append(c.results, [step |-> p, outcome |-> o])
      /\ d.calls = << <<"propagate", p>> >>
  BY <1>1, <1>2, <1>6, ResultEnds
<1> HIDE DEF d
<1>8. ButFor(c, d, {"state", "results", "calls", "waiting", "sends"})
  BY <1>7 DEF ButFor
<1>9. d.waiting = c.waiting \ {<<p, 0>>} /\ d.sends = {}
  <2>1. d.waiting = c.waiting /\ d.sends = {}
    BY <1>1, <1>7 DEF ButFor, Fields
  <2>2. <<p, 0>> \notin c.waiting
    BY <1>1, WaitingDue
  <2> QED BY <2>1, <2>2
<1>10. Changed(c.graph, c.state, d.state, p, LeafMeaning(c.graph, h2, p))
  BY <1>5, <1>7
<1> DEFINE more == FALSE
<1>11. /\ more \in BOOLEAN /\ 0 \in {0, 1, 2} /\ p \in Leaves(c.graph)
       /\ (more <=> 0 > 0 /\ o = "ok" /\ 0 < NumRequests(c.graph[p]))
  BY <1>2
<1>12. /\ more => /\ d.calls = <<>> /\ d.results = c.results /\ d.sends = {<<p, 0 + 1>>}
                  /\ d.waiting = (c.waiting \ {<<p, 0>>}) \cup {<<p, 0 + 1>>}
       /\ ~more => /\ d.calls = << <<"propagate", p>> >> /\ d.sends = {}
                   /\ d.results = Append(c.results, [step |-> p, outcome |-> o])
                   /\ d.waiting = c.waiting \ {<<p, 0>>}
  BY <1>7, <1>9
<1> HIDE DEF more
<1>13. h2 = h \cup {<<p, 0, o>>} /\ ContextInv(c, h) /\ Quiet(c) /\ o \in Outcomes
  BY DEF h2
<1>14. Hears(c, d, h2, p, 0)
  <2>1. AfterResult(c, d, h2, p, 0, o, more)
    BY <1>7, <1>8, <1>10, <1>11, <1>12 DEF AfterResult
  <2> QED BY ONLY <1>3, <1>11, <1>13, <2>1, LeafAnswers
<1> QED BY <1>6, <1>14 DEF h2

\* _execute_actions() takes the actions.
LEMMA ActionsTaken ==
    ASSUME NEW c, NEW h, ContextInv(c, h), c.calls = <<>>
    PROVE  /\ ContextInv(Taken(c), h) /\ Quiet(Taken(c)) /\ Taken(c).graph = c.graph
           /\ Taken(c).current = c.current
           /\ Out(Taken(c)) = Out(c) \cup c.sends /\ Out(c) \cap c.sends = {}
           /\ Handed(Taken(c)) = Handed(c) \cup ToSet(c.runs) /\ Handed(c) \cap ToSet(c.runs) = {}
           /\ IsInjective(c.runs) /\ c.runs \in Seq(DOMAIN c.graph)
<1> DEFINE d == Taken(c)
<1>1. /\ IsGraph(c.graph) /\ c \in ContextsOf(c.graph) /\ Shape(c) /\ TreeInv(c)
      /\ LeavesInv(c, h) /\ WaitingInv(c, h) /\ FailInv(c)
  BY DEF ContextInv, LeavesInv
<1>2. /\ d \in ContextsOf(c.graph) /\ ButFor(c, d, {"sends", "runs"})
      /\ d.sends = {} /\ d.runs = <<>>
  BY <1>1, TakenFields
<1> HIDE DEF d
<1>3. /\ d.graph = c.graph /\ d.done = c.done /\ d.state = c.state /\ d.current = c.current
      /\ d.calls = c.calls /\ d.results = c.results /\ d.wsgi = c.wsgi
      /\ d.waiting = c.waiting
  BY <1>2 DEF ButFor, Fields
<1>4. TreeInv(d) /\ Shape(d)
  BY <1>1, <1>3, TreeSame
<1>5. FailInv(d)
  BY <1>1, <1>3, FailSame
<1>6. LeavesInv(d, h)
  BY <1>1, <1>2, <1>3, LeavesStay
<1>7. Out(d) = Out(c) \cup c.sends /\ Out(c) \cap c.sends = {}
  BY <1>1, <1>2, <1>3 DEF Out, WaitingInv
<1>8. Handed(d) = Handed(c) \cup ToSet(c.runs) /\ Handed(c) \cap ToSet(c.runs) = {}
  <2>1. \A p \in ToSet(c.runs) :
            p \in DOMAIN c.graph /\ c.graph[p] = "internal" /\ c.state[p] = "running"
    BY <1>1, LeafIs DEF WaitingInv
  <2>2. ToSet(d.runs) = {}
    BY <1>2, EmptyIs
  <2> QED BY <1>3, <2>1, <2>2 DEF Handed
<1>9. IsInjective(c.runs) /\ c.runs \in Seq(DOMAIN c.graph)
  BY <1>1 DEF WaitingInv, ContextsOf
<1> QED BY <1>1, <1>2, <1>3, <1>4, <1>5, <1>6, <1>7, <1>8, <1>9 DEF ContextInv, Quiet, d

\* start().
LEMMA ContextStarts ==
    ASSUME NEW g, IsGraph(g), NEW w \in Outcomes
    PROVE  /\ ContextInv(Start(NewContext(g, w)), {}) /\ Start(NewContext(g, w)).graph = g
           /\ Out(Start(NewContext(g, w))) = {} /\ Handed(Start(NewContext(g, w))) = {}
           /\ CurrentInv(Start(NewContext(g, w)))
<1> DEFINE c == NewContext(g, w)
           d == Start(c)
<1>1. /\ c.graph = g /\ c.state = [p \in DOMAIN g |-> "pending"] /\ c.waiting = {}
      /\ c.current = [p \in DOMAIN g |-> 0]
      /\ c.results = <<>> /\ c.done = FALSE /\ c.calls = <<>> /\ c.sends = {} /\ c.runs = <<>>
  BY DEF NewContext
<1>2. c \in ContextsOf(g)
  <2>1. /\ [p \in DOMAIN g |-> "pending"] \in [DOMAIN g -> NodeStates]
        /\ [p \in DOMAIN g |-> 0] \in [DOMAIN g -> Nat]
    BY DEF NodeStates
  <2>2. \A S : <<>> \in Seq(S)
    BY EmptyIs
  <2> QED BY <2>1, <2>2 DEF NewContext, ContextsOf
<1>3. /\ g = NoGraph => d = [c EXCEPT !.done = TRUE]
      /\ g # NoGraph => d = Execute(c, <<>>)
  BY <1>1 DEF Start
<1> HIDE DEF c, d
<1>4. /\ d \in ContextsOf(g) /\ ButFor(c, d, {"done", "calls"})
      /\ IF g = NoGraph THEN d.calls = <<>> /\ d.done
         ELSE d.calls = << <<"execute", <<>> >> >> /\ ~d.done
  <2>1. CASE g = NoGraph
    <3>1. d = [c EXCEPT !.done = TRUE]
      BY <1>3, <2>1
    <3>2. d.done /\ d.calls = <<>> /\ ButFor(c, d, {"done", "calls"})
      BY <1>1, <1>2, <3>1 DEF ContextsOf, ButFor, Fields
    <3>3. d \in ContextsOf(g)
      BY <1>2, <3>1 DEF ContextsOf
    <3> QED BY <2>1, <3>2, <3>3
  <2>2. CASE g # NoGraph
    <3>1. <<>> \in DOMAIN g
      BY <2>2 DEF IsGraph
    <3>2. /\ d \in ContextsOf(g) /\ ButFor(c, d, {"calls"})
          /\ d.calls = << <<"execute", <<>> >> >> \o c.calls
      BY <1>2, <1>3, <2>2, <3>1, ExecuteFields
    <3>3. << <<"execute", <<>> >> >> \o <<>> = << <<"execute", <<>> >> >>
      BY OneIs, ConcatEmptySeq
    <3>4. ~d.done /\ ButFor(c, d, {"done", "calls"})
      BY <1>1, <3>2 DEF ButFor, Fields
    <3> QED BY <1>1, <2>2, <3>2, <3>3, <3>4
  <2> QED BY <2>1, <2>2
<1>5. /\ d.graph = g /\ d.state = c.state /\ d.waiting = {} /\ d.results = <<>>
      /\ d.sends = {} /\ d.runs = <<>>
  BY <1>1, <1>4 DEF ButFor, Fields
<1>6. \A p \in DOMAIN g : c.state[p] = "pending"
  BY <1>1
<1>7. TreeInv(d) /\ Shape(d)
  BY <1>1, <1>2, <1>4, <1>5, <1>6, TreeBegins
<1>8. \A p \in Leaves(g) : p \in DOMAIN g /\ d.state[p] = "pending"
  BY <1>5, <1>6, LeafIs
<1>9. FailInv(d)
  BY <1>5, <1>8 DEF FailInv
<1>10. LeavesInv(d, {})
  <2>1. HeardInv(d, {})
    BY DEF HeardInv
  <2>2. LeafInv(d, {})
    BY <1>5, <1>8 DEF LeafInv, Heard
  <2>3. WaitingInv(d, {})
    <3>1. \A p \in Leaves(d.graph), k \in {1, 2} : ~IsDue(d.graph, d.state, {}, p, k)
      BY <1>5, <1>8 DEF IsDue
    <3>2. d.waiting = {e \in Due(d.graph, d.state, {}) : e[2] > 0}
      <4>1. /\ d.waiting \subseteq Leaves(d.graph) \X {1, 2}
            /\ \A p \in Leaves(d.graph), k \in {1, 2} :
                 <<p, k>> \in d.waiting <=> IsDue(d.graph, d.state, {}, p, k)
        BY <1>5, <3>1
      <4> QED BY ONLY <4>1, WaitingAre
    <3>3. ToSet(d.runs) = {} /\ IsInjective(d.runs)
      BY <1>5, EmptyIs
    <3> QED BY <1>5, <3>2, <3>3 DEF WaitingInv
  <2>4. ResultsInv(d)
    <3>1. DOMAIN d.results = {}
      BY <1>5
    <3> QED BY <1>5, <1>8, <3>1 DEF ResultsInv, Ended
  <2> QED BY <2>1, <2>2, <2>3, <2>4 DEF LeavesInv
<1>11. Out(d) = {} /\ Handed(d) = {}
  BY <1>5, <1>6 DEF Out, Handed
<1>12. CurrentInv(d)
  <2>1. d.current = c.current /\ \A p \in DOMAIN g : c.current[p] = 0
    BY <1>1, <1>4 DEF ButFor, Fields
  <2>2. \A p \in DOMAIN g : NumSteps(g, p) \in Nat
    BY StepsAre
  <2> QED BY <1>5, <2>1, <2>2 DEF CurrentInv
<1> QED BY <1>4, <1>5, <1>7, <1>9, <1>10, <1>11, <1>12 DEF ContextInv, d, c

(***************************************************************************)
(* Lemmas: what the invariant of a context says between two handlers.      *)
(***************************************************************************)

\* A node that has not started is not reached, one that has is.
LEMMA ReachedIs ==
    ASSUME NEW c, NEW h, ContextInv(c, h), c.calls = <<>>, NEW p \in DOMAIN c.graph
    PROVE  Reached(c.graph, c.state, p) <=> c.state[p] # "pending"
<1>1. /\ IsGraph(c.graph) /\ c \in ContextsOf(c.graph) /\ ContainerInv(c) /\ RootInv(c)
  BY DEF ContextInv, TreeInv
<1>2. \A x : ~Exec(c, x) /\ ~Prop(c, x)
  BY EmptyIs DEF Exec, Prop
<1>3. CASE p = <<>>
  <2>1. c.graph # NoGraph
    BY DEF NoGraph
  <2>2. c.state[<<>>] # "pending"
    BY <1>1, <1>2, <2>1 DEF RootInv
  <2> QED BY <1>3, <2>2 DEF Reached
<1>4. CASE p # <<>>
  <2> DEFINE q == Front(p)
  <2>1. /\ q \in DOMAIN c.graph /\ q \in Containers(c.graph) /\ p \in Steps(c.graph, q)
        /\ c.graph[q] \in {"order", "pipe"}
    BY <1>1, <1>4, ParentIs
  <2> HIDE DEF q
  <2>2. Reached(c.graph, c.state, p) <=>
            /\ c.state[q] # "pending"
            /\ \/ c.graph[q] = "pipe"
               \/ \A i \in 1 .. Last(p) - 1 : c.state[Append(q, i)] = "done"
    BY <1>4 DEF Reached, q
  <2>3. ContainerAt(c, q)
    BY <1>1, <2>1 DEF ContainerInv
  <2>4. CASE c.state[q] = "pending"
    BY <2>1, <2>2, <2>3, <2>4 DEF ContainerAt
  <2>5. CASE c.state[q] # "pending" /\ c.graph[q] = "pipe"
    <3>1. PipeInv(c, q)
      BY <2>1, <2>3, <2>5 DEF ContainerAt
    <3> QED BY <1>2, <2>1, <2>2, <2>5, <3>1 DEF PipeInv
  <2>6. CASE c.state[q] # "pending" /\ c.graph[q] = "order"
    <3>1. PICK x \in Steps(c.graph, q) : OrderAt(c, q, x)
      BY <2>1, <2>3, <2>6 DEF ContainerAt
    <3>2. /\ NumSteps(c.graph, q) \in Nat
          /\ Last(x) \in 1 .. NumSteps(c.graph, q) /\ x = Append(q, Last(x))
          /\ Last(p) \in 1 .. NumSteps(c.graph, q) /\ p = Append(q, Last(p))
          /\ Steps(c.graph, q) = {Append(q, i) : i \in 1 .. NumSteps(c.graph, q)}
          /\ \A i \in Nat : Last(Append(q, i)) = i
      BY <1>1, <2>1, StepsAre
    <3>3. c.state[q] \in {"running", "done", "error"} /\ c.state[x] # "pending"
      <4>1. c.state[q] \in NodeStates
        BY <1>1, <2>1 DEF ContextsOf
      <4>2. c.state[q] \in {"running", "done", "error"}
        BY <2>6, <4>1 DEF NodeStates
      <4> QED BY <1>2, <3>1, <4>2 DEF OrderAt
    <3>4. CASE Last(p) > Last(x)
      <4>1. c.state[p] = "pending" /\ c.state[q] # "done"
        BY <2>1, <3>1, <3>2, <3>4 DEF OrderAt
      <4>2. c.state[x] # "done"
        BY <1>2, <3>1, <3>3, <4>1 DEF OrderAt
      <4>3. Last(x) \in 1 .. Last(p) - 1
        BY <3>2, <3>4
      <4> QED BY <2>2, <2>6, <3>2, <4>1, <4>2, <4>3
    <3>5. CASE ~(Last(p) > Last(x))
      <4>1. c.state[p] # "pending"
        <5>1. CASE Last(p) = Last(x)
          BY <3>2, <3>3, <5>1
        <5>2. CASE Last(p) # Last(x)
          <6>1. Last(p) < Last(x)
            BY <3>2, <3>5, <5>2
          <6> QED BY <2>1, <3>1, <6>1 DEF OrderAt
        <5> QED BY <5>1, <5>2
      <4>2. ASSUME NEW i \in 1 .. Last(p) - 1 PROVE c.state[Append(q, i)] = "done"
        <5>1. /\ i \in 1 .. NumSteps(c.graph, q) /\ i \in Nat /\ i < Last(x)
          BY <3>2, <3>5
        <5>2. Append(q, i) \in Steps(c.graph, q) /\ Last(Append(q, i)) = i
          BY <3>2, <5>1
        <5> QED BY <3>1, <5>1, <5>2 DEF OrderAt
      <4> QED BY <2>2, <2>6, <4>1, <4>2
    <3> QED BY <3>4, <3>5
  <2> QED BY <2>1, <2>4, <2>5, <2>6
<1> QED BY <1>3, <1>4

\* A container is where its steps put it.
LEMMA ContainerMeans ==
    ASSUME NEW c, NEW h, ContextInv(c, h), c.calls = <<>>, NEW p \in Containers(c.graph),
           c.state[p] # "pending"
    PROVE  c.state[p] = ContainerMeaning(c.graph, c.state, p)
<1>1. /\ IsGraph(c.graph) /\ c \in ContextsOf(c.graph) /\ ContainerInv(c)
  BY DEF ContextInv, TreeInv
<1>2. \A x : ~Exec(c, x) /\ ~Prop(c, x)
  BY EmptyIs DEF Exec, Prop
<1>3. p \in DOMAIN c.graph /\ c.graph[p] \in {"order", "pipe"} /\ ContainerAt(c, p)
  BY <1>1, ContainerIs DEF ContainerInv
<1>4. c.state[p] \in {"running", "done", "error"}
  <2>1. c.state[p] \in NodeStates
    BY <1>1, <1>3 DEF ContextsOf
  <2> QED BY <2>1 DEF NodeStates
<1>5. CASE Steps(c.graph, p) = {}
  BY <1>3, <1>5 DEF ContainerAt, ContainerMeaning
<1>6. CASE Steps(c.graph, p) # {} /\ c.graph[p] = "order"
  <2>1. PICK x \in Steps(c.graph, p) : OrderAt(c, p, x)
    BY <1>3, <1>6 DEF ContainerAt
  <2>2. Last(x) \in Int /\ \A q \in Steps(c.graph, p) : Last(q) \in Int
    BY <1>1, <1>3, StepsAre
  <2>3. \A q \in Steps(c.graph, p) : q # x =>
            c.state[q] = "done" \/ (c.state[q] = "pending" /\ Last(q) > Last(x))
    <3>1. ASSUME NEW q \in Steps(c.graph, p), q # x
          PROVE  c.state[q] = "done" \/ (c.state[q] = "pending" /\ Last(q) > Last(x))
      <4>1. Last(q) # Last(x)
        BY <1>1, <1>3, <3>1, SameStep
      <4>2. Last(q) < Last(x) \/ Last(q) > Last(x)
        BY <2>2, <4>1
      <4> QED BY <2>1, <4>2 DEF OrderAt
    <3> QED BY <3>1
  <2>4. ContainerMeaning(c.graph, c.state, p) =
            IF \E q \in Steps(c.graph, p) : c.state[q] = "error" THEN "error"
            ELSE IF \A q \in Steps(c.graph, p) : c.state[q] \in {"done"} THEN "done"
            ELSE "running"
    BY <1>6 DEF ContainerMeaning
  <2>5. CASE c.state[p] = "running"
    <3>1. c.state[x] = "running"
      BY <1>2, <2>1, <2>5 DEF OrderAt
    <3> QED BY <2>3, <2>4, <2>5, <3>1
  <2>6. CASE c.state[p] = "done"
    <3>1. c.state[x] = "done" /\ \A q \in Steps(c.graph, p) : Last(q) <= Last(x)
      BY <2>1, <2>6 DEF OrderAt
    <3>2. \A q \in Steps(c.graph, p) : c.state[q] = "done"
      <4>1. \A q \in Steps(c.graph, p) : ~(Last(q) > Last(x))
        BY <2>2, <3>1
      <4> QED BY <2>3, <3>1, <4>1
    <3> QED BY <2>4, <2>6, <3>2
  <2>7. CASE c.state[p] = "error"
    BY <2>1, <2>4, <2>7 DEF OrderAt
  <2> QED BY <1>4, <2>5, <2>6, <2>7
<1>7. CASE Steps(c.graph, p) # {} /\ c.graph[p] = "pipe"
  <2>1. PipeInv(c, p)
    BY <1>3, <1>7 DEF ContainerAt
  <2>2. ContainerMeaning(c.graph, c.state, p) =
            IF ~\A q \in Steps(c.graph, p) : c.state[q] \in {"done", "error"} THEN "running"
            ELSE IF \E q \in Steps(c.graph, p) : c.state[q] = "error" THEN "error" ELSE "done"
    BY <1>7 DEF ContainerMeaning
  <2>3. CASE c.state[p] = "running"
    BY <1>2, <2>1, <2>2, <2>3 DEF PipeInv, Ended
  <2>4. CASE c.state[p] # "running"
    BY <2>1, <2>2, <2>4 DEF PipeInv, PipeEnds, PipeState, Ended
  <2> QED BY <2>3, <2>4
<1> QED BY <1>3, <1>5, <1>6, <1>7

\* Every node is where the meaning of the graph puts it.
LEMMA NodeMeans ==
    ASSUME NEW c, NEW h, ContextInv(c, h), c.calls = <<>>, NEW p \in DOMAIN c.graph
    PROVE  c.state[p] = Meaning(c.graph, c.state, h, p)
<1>1. LeafInv(c, h)
  BY DEF ContextInv, LeavesInv
<1>2. Reached(c.graph, c.state, p) <=> c.state[p] # "pending"
  BY ReachedIs
<1>3. p \notin Leaves(c.graph) => p \in Containers(c.graph)
  BY DEF Containers
<1>4. c.state[p] # "pending" /\ p \in Containers(c.graph) =>
            c.state[p] = ContainerMeaning(c.graph, c.state, p)
  BY ContainerMeans
<1> QED BY <1>1, <1>2, <1>3, <1>4 DEF Meaning, LeafInv

\* It is done when the root has ended, and has a result for each leaf that has.
LEMMA DoneAndResults ==
    ASSUME NEW c, NEW h, ContextInv(c, h), c.calls = <<>>
    PROVE  /\ c.done <=> c.graph = NoGraph \/ Ended(c, <<>>)
           /\ {c.results[i].step : i \in DOMAIN c.results} =
                {p \in Leaves(c.graph) : Ended(c, p)}
           /\ \A i, j \in DOMAIN c.results : c.results[i].step = c.results[j].step => i = j
<1>1. RootInv(c) /\ ResultsInv(c)
  BY DEF ContextInv, TreeInv, LeavesInv
<1>2. \A x : ~Prop(c, x)
  BY DEF Prop
<1>3. c.done <=> c.graph = NoGraph \/ Ended(c, <<>>)
  BY <1>1, <1>2 DEF RootInv
<1>4. {c.results[i].step : i \in DOMAIN c.results} = {p \in Leaves(c.graph) : Ended(c, p)}
  BY <1>1 DEF ResultsInv
<1> QED BY <1>1, <1>3, <1>4 DEF ResultsInv

\* What is waited for and handed to the pool is what is due.
LEMMA DueOf ==
    ASSUME NEW c, NEW h, ContextInv(c, h), Quiet(c)
    PROVE  /\ c.waiting = {d \in Due(c.graph, c.state, h) : d[2] > 0} /\ Out(c) = c.waiting
           /\ Handed(c) = {d[1] : d \in {x \in Due(c.graph, c.state, h) : x[2] = 0}}
<1>1. IsGraph(c.graph) /\ WaitingInv(c, h) /\ LeafInv(c, h)
  BY DEF ContextInv, LeavesInv
<1>2. c.waiting = {d \in Due(c.graph, c.state, h) : d[2] > 0} /\ Out(c) = c.waiting
  BY <1>1 DEF WaitingInv, Out, Quiet
<1>3. \A p : p \in Handed(c) <=>
            p \in DOMAIN c.graph /\ c.graph[p] = "internal" /\ c.state[p] = "running"
  BY EmptyIs DEF Handed, Quiet
<1>4. ASSUME NEW p \in Handed(c) PROVE <<p, 0>> \in Due(c.graph, c.state, h)
  <2>1. p \in Leaves(c.graph) /\ c.graph[p] = "internal" /\ c.state[p] = "running"
    BY <1>3 DEF Leaves
  <2>2. LeafMeaning(c.graph, h, p) = "running"
    BY <1>1, <2>1 DEF LeafInv
  <2>3. ~Heard(h, p, 0, {"error"}) /\ ~Heard(h, p, 0, {"ok", "bad"})
    BY <2>1, <2>2 DEF LeafMeaning
  <2>4. ~Heard(h, p, 0, Outcomes)
    BY <2>3 DEF Heard, Outcomes
  <2>5. IsDue(c.graph, c.state, h, p, 0)
    BY <2>1, <2>4 DEF IsDue
  <2> QED BY <2>1, <2>5 DEF Due
<1>5. ASSUME NEW d \in Due(c.graph, c.state, h), d[2] = 0 PROVE d[1] \in Handed(c)
  <2>1. d[1] \in Leaves(c.graph) /\ IsDue(c.graph, c.state, h, d[1], 0)
    BY <1>5 DEF Due
  <2> DEFINE p == d[1]
  <2>2. p \in Leaves(c.graph) /\ IsDue(c.graph, c.state, h, p, 0)
    BY <2>1
  <2> HIDE DEF p
  <2>3. /\ p \in DOMAIN c.graph
        /\ c.graph[p] \in {"internal", "call", "calls", "nothing", "raises"}
        /\ c.graph[p] = "nothing" => NumRequests(c.graph[p]) = 0
        /\ c.graph[p] = "call" => NumRequests(c.graph[p]) = 1
        /\ c.graph[p] = "calls" => NumRequests(c.graph[p]) = 2
    BY <1>1, <2>2, LeafIs
  <2>4. c.state[p] = "running" /\ c.graph[p] # "raises"
    <3>1. c.state[p] = "running" /\ LeafMeaning(c.graph, h, p) = "running"
      BY <1>1, <2>2 DEF LeafInv, IsDue
    <3> QED BY <3>1 DEF LeafMeaning
  <2>5. c.graph[p] = "internal"
    <3>1. c.graph[p] # "internal" => 0 \in 1 .. NumRequests(c.graph[p])
      BY <2>2 DEF IsDue
    <3> QED BY <2>3, <2>4, <3>1
  <2>6. p \in Handed(c)
    BY <1>3, <2>3, <2>4, <2>5
  <2> QED BY <2>6 DEF p
<1>6. Handed(c) = {d[1] : d \in {x \in Due(c.graph, c.state, h) : x[2] = 0}}
  <2> DEFINE D == {x \in Due(c.graph, c.state, h) : x[2] = 0}
  <2>1. ASSUME NEW p \in Handed(c) PROVE \E d \in D : d[1] = p
    <3>1. <<p, 0>> \in D /\ <<p, 0>>[1] = p
      BY <1>4
    <3> QED BY <3>1
  <2>2. \A d \in D : d[1] \in Handed(c)
    BY <1>5
  <2> HIDE DEF D
  <2>3. Handed(c) = {d[1] : d \in D}
    BY <2>1, <2>2
  <2> QED BY <2>3 DEF D
<1> QED BY <1>2, <1>6

\* The response of a request that is done tells of a failure that no pipe is above.
LEMMA FailureTold ==
    ASSUME NEW c, NEW h, ContextInv(c, h), c.done, NEW p \in Leaves(c.graph),
           c.state[p] = "error",
           \A q \in DOMAIN c.graph : IsPrefix(q, p) => c.graph[q] # "pipe"
    PROVE  c.wsgi # "ok"
<1>1. IsGraph(c.graph) /\ FailInv(c)
  BY DEF ContextInv
<1>2. p \in Seq(Nat)
  BY <1>1, LeafIs, NodeIs
<1>3. ASSUME NEW n \in 0 .. Len(p), Up(p, n) \in DOMAIN c.graph
      PROVE  c.graph[Up(p, n)] # "pipe"
  <2>1. Len(Up(p, n)) = n /\ Up(p, n) \in Seq(Nat) /\ Len(p) \in Nat
    BY <1>2, UpIs, LenProperties
  <2>2. Up(Up(p, n), n) = Up(p, n)
    BY <1>2, UpFacts
  <2>3. IsPrefix(Up(p, n), p)
    <3>1. n <= Len(p)
      BY <2>1
    <3> QED BY <2>1, <2>2, <3>1 DEF IsPrefix, Up
  <2> QED BY <1>3, <2>3
<1>4. Serial(c.graph, p)
  BY <1>3 DEF Serial
<1> QED BY <1>1, <1>4 DEF FailInv

(***************************************************************************)
(* Lemmas: where the orders are.                                           *)
(***************************************************************************)

\* d has the graph of c, and its orders are where they are in c.
SameOrders(c, d) == d.graph = c.graph /\ d.current = c.current

LEMMA SameCurrent ==
    ASSUME NEW c, NEW d, CurrentInv(c), SameOrders(c, d)
    PROVE  CurrentInv(d)
BY DEF CurrentInv, SameOrders

LEMMA PushSame ==
    ASSUME NEW g, NEW c \in ContextsOf(g), NEW s
    PROVE  SameOrders(c, Push(c, s))
BY DEF ContextsOf, Push, SameOrders

LEMMA EndSame ==
    ASSUME NEW g, NEW c \in ContextsOf(g), NEW p \in DOMAIN g, NEW s \in {"done", "error"}
    PROVE  SameOrders(c, End(c, p, s))
<1>1. ButFor(c, End(c, p, s), {"state", "calls"})
  BY EndFields
<1> QED BY <1>1 DEF ButFor, Fields, SameOrders

\* An order goes on to a step it has, or ends.
LEMMA OrderAdvancesWithin ==
    ASSUME NEW c, IsGraph(c.graph), c \in ContextsOf(c.graph), CurrentInv(c),
           NEW p \in DOMAIN c.graph, NEW i \in Nat
    PROVE  CurrentInv(OrderAdvances(c, p, i))
<1>1. CASE Append(p, i) \notin DOMAIN c.graph
  <2>1. OrderAdvances(c, p, i) = End(c, p, "done")
    BY <1>1 DEF OrderAdvances
  <2>2. SameOrders(c, End(c, p, "done"))
    BY EndSame
  <2> QED BY <2>1, <2>2, SameCurrent
<1>2. CASE Append(p, i) \in DOMAIN c.graph
  <2> DEFINE a == AtStep(c, p, i)
             q == Append(p, i)
  <2>1. OrderAdvances(c, p, i) = Execute(a, q)
    BY <1>2 DEF OrderAdvances, AtStep
  <2>2. /\ a \in ContextsOf(c.graph) /\ ButFor(c, a, {"current"})
        /\ Changed(c.graph, c.current, a.current, p, i)
    BY CurrentFields
  <2>3. i \in 0 .. NumSteps(c.graph, p)
    <3>1. /\ NumSteps(c.graph, p) \in Nat /\ Front(q) = p /\ Last(q) = i
          /\ \A x \in Steps(c.graph, p) : Last(x) \in 1 .. NumSteps(c.graph, p)
      BY StepsAre
    <3>2. q # <<>>
      <4>1. p \in Seq(Nat)
        BY NodeIs
      <4> QED BY <4>1, AppendIs
    <3>3. q \in Steps(c.graph, p)
      BY <1>2, <3>1, <3>2 DEF Steps
    <3>4. Last(q) \in 1 .. NumSteps(c.graph, p)
      BY <3>1, <3>3
    <3> QED BY <3>1, <3>4
  <2> HIDE DEF a, q
  <2>4. a.graph = c.graph
    BY <2>2 DEF ButFor, Fields
  <2>5. CurrentInv(a)
    <3>1. ASSUME NEW x \in DOMAIN c.graph PROVE a.current[x] \in 0 .. NumSteps(c.graph, x)
      <4>1. CASE x = p
        BY <2>2, <2>3, <4>1 DEF Changed
      <4>2. CASE x # p
        BY <2>2, <4>2 DEF Changed, CurrentInv
      <4> QED BY <4>1, <4>2
    <3> QED BY <2>4, <3>1 DEF CurrentInv
  <2>6. SameOrders(a, Execute(a, q))
    BY <2>2, PushSame DEF Execute
  <2> QED BY <2>1, <2>5, <2>6, SameCurrent
<1> QED BY <1>1, <1>2

LEMMA CurrentStep ==
    ASSUME NEW c, NEW h, ContextInv(c, h), CurrentInv(c), c.calls # <<>>
    PROVE  CurrentInv(Advanced(c))
<1>1. IsGraph(c.graph) /\ c \in ContextsOf(c.graph)
  BY DEF ContextInv
<1>2. PICK p \in DOMAIN c.graph :
        Head(c.calls) = <<"execute", p>> \/ Head(c.calls) = <<"propagate", p>>
  BY <1>1, HeadIs
<1>3. CASE Head(c.calls) = <<"propagate", p>>
  <2> DEFINE e == Popped(c)
             q == Front(p)
  <2>1. /\ Advanced(c) = PropagateCompletion(e, p)
        /\ e \in ContextsOf(c.graph) /\ ButFor(c, e, {"calls"})
        /\ p # <<>> => /\ q \in DOMAIN c.graph /\ c.graph[q] \in {"order", "pipe"}
                       /\ p \in Steps(c.graph, q)
    BY <1>3, Telling
  <2> HIDE DEF e
  <2>2. e.graph = c.graph /\ SameOrders(c, e)
    BY <2>1 DEF ButFor, Fields, SameOrders
  <2>3. CurrentInv(e)
    BY <2>2, SameCurrent
  <2>4. \A s \in {"done", "error"} : p # <<>> => CurrentInv(End(e, q, s))
    BY <2>1, <2>3, EndSame, SameCurrent
  <2>5. CASE p = <<>>
    <3>1. Advanced(c) = Finish(e)
      BY <2>1, <2>5 DEF PropagateCompletion
    <3>2. ButFor(e, Finish(e), {"done", "wsgi"})
      BY <2>1, FinishFields
    <3>3. SameOrders(e, Finish(e))
      BY <3>2 DEF ButFor, Fields, SameOrders
    <3> QED BY <2>3, <3>1, <3>3, SameCurrent
  <2>6. CASE p # <<>> /\ c.graph[q] = "order"
    <3>1. Last(p) + 1 \in Nat
      <4>1. NumSteps(c.graph, q) \in Nat /\ Last(p) \in 1 .. NumSteps(c.graph, q)
        BY <1>1, <2>1, <2>6, StepsAre
      <4> QED BY <4>1
    <3>2. CurrentInv(OrderAdvances(e, q, Last(p) + 1))
      BY <1>1, <2>1, <2>2, <2>3, <2>6, <3>1, OrderAdvancesWithin
    <3>3. \/ Advanced(c) = e \/ Advanced(c) = End(e, q, "error")
          \/ Advanced(c) = OrderAdvances(e, q, Last(p) + 1)
      BY <2>1, <2>2, <2>6 DEF PropagateCompletion
    <3> QED BY <2>3, <2>4, <2>6, <3>2, <3>3
  <2>7. CASE p # <<>> /\ c.graph[q] = "pipe"
    <3>1. Advanced(c) = e \/ Advanced(c) = End(e, q, PipeState(e, q))
      BY <2>1, <2>2, <2>7 DEF PropagateCompletion
    <3>2. PipeState(e, q) \in {"done", "error"}
      BY DEF PipeState
    <3> QED BY <2>3, <2>4, <2>7, <3>1, <3>2
  <2> QED BY <2>1, <2>5, <2>6, <2>7
<1>4. CASE Head(c.calls) = <<"execute", p>>
  <2> DEFINE e == Popped(c)
             d == Started(c, p)
  <2>1. /\ Advanced(c) = ExecuteNode(e, p)
        /\ d \in ContextsOf(c.graph) /\ ButFor(c, d, {"calls", "state"})
    BY <1>4, Starting
  <2>2. e.graph = c.graph
    BY <1>1, <1>4, PopFields DEF ButFor, Fields
  <2>3. Advanced(c) = CASE c.graph[p] = "order"    -> ExecuteOrder(d, p)
                        [] c.graph[p] = "pipe"     -> ExecutePipe(d, p)
                        [] c.graph[p] = "internal" -> Ask(d, p)
                        [] OTHER                   -> ExecuteEgress(d, p)
    BY <2>1, <2>2 DEF ExecuteNode, Started
  <2> HIDE DEF d, e
  <2>4. d.graph = c.graph /\ SameOrders(c, d)
    BY <2>1 DEF ButFor, Fields, SameOrders
  <2>5. CurrentInv(d)
    BY <2>4, SameCurrent
  <2>6. \A s \in {"done", "error"} : CurrentInv(End(d, p, s))
    BY <2>1, <2>5, EndSame, SameCurrent
  <2>7. CASE c.graph[p] = "order"
    <3>1. Advanced(c) = ExecuteOrder(d, p)
      BY <2>3, <2>7
    <3>2. Advanced(c) = End(d, p, "done") \/ Advanced(c) = OrderAdvances(d, p, 1)
      BY <3>1 DEF ExecuteOrder, ExecuteEmpty
    <3>3. CurrentInv(OrderAdvances(d, p, 1))
      <4>1. 1 \in Nat
        OBVIOUS
      <4> QED BY <1>1, <2>1, <2>4, <2>5, <4>1, OrderAdvancesWithin
    <3> QED BY <2>6, <3>2, <3>3
  <2>8. CASE c.graph[p] = "pipe"
    <3>1. Advanced(c) = ExecutePipe(d, p)
      BY <2>3, <2>8
    <3>2. Advanced(c) = End(d, p, "done") \/ \E s : Advanced(c) = Push(d, s)
      BY <3>1 DEF ExecutePipe, ExecuteEmpty
    <3>3. \A s : CurrentInv(Push(d, s))
      BY <2>1, <2>5, PushSame, SameCurrent
    <3> QED BY <2>6, <3>2, <3>3
  <2>9. CASE c.graph[p] = "internal"
    <3>1. Advanced(c) = Ask(d, p)
      BY <2>3, <2>9
    <3>2. SameOrders(d, Ask(d, p))
      <4>1. ButFor(d, Ask(d, p), {"runs"})
        BY <2>1, AskFields
      <4> QED BY <4>1 DEF ButFor, Fields, SameOrders
    <3> QED BY <2>5, <3>1, <3>2, SameCurrent
  <2>10. CASE c.graph[p] \notin {"order", "pipe", "internal"}
    <3>1. Advanced(c) = ExecuteEgress(d, p)
      BY <2>3, <2>10
    <3>2. \/ Advanced(c) = End(SetResult(d, p, "error"), p, "error")
          \/ Advanced(c) = End(SetResult(d, p, "ok"), p, "done")
          \/ Advanced(c) = Send(d, p, 1)
      BY <3>1 DEF ExecuteEgress
    <3>3. ASSUME NEW o \in Outcomes, NEW s \in {"done", "error"}
          PROVE  CurrentInv(End(SetResult(d, p, o), p, s))
      <4> DEFINE f == SetResult(d, p, o)
      <4>1. f \in ContextsOf(c.graph) /\ ButFor(d, f, {"results"})
        BY <2>1, ResultFields
      <4> HIDE DEF f
      <4>2. SameOrders(d, f)
        BY <4>1 DEF ButFor, Fields, SameOrders
      <4>3. CurrentInv(f) /\ SameOrders(f, End(f, p, s))
        BY <2>5, <4>1, <4>2, SameCurrent, EndSame
      <4> QED BY <4>3, SameCurrent DEF f
    <3>4. CurrentInv(Send(d, p, 1))
      <4>1. 1 \in Nat \ {0}
        OBVIOUS
      <4>2. ButFor(d, Send(d, p, 1), {"waiting", "sends"})
        BY <2>1, <4>1, SendFields
      <4>3. SameOrders(d, Send(d, p, 1))
        BY <4>2 DEF ButFor, Fields, SameOrders
      <4> QED BY <2>5, <4>3, SameCurrent
    <3>5. "ok" \in Outcomes /\ "error" \in Outcomes
      BY DEF Outcomes
    <3> QED BY <3>2, <3>3, <3>4, <3>5
  <2> QED BY <2>7, <2>8, <2>9, <2>10
<1> QED BY <1>2, <1>3, <1>4

(***************************************************************************)
(* Lemmas: the loop.                                                       *)
(***************************************************************************)

LEMMA RemoveIs ==
    ASSUME NEW S, NEW s \in Seq(S), IsInjective(s), NEW i \in DOMAIN s
    PROVE  /\ RemoveAt(s, i) \in Seq(S) /\ IsInjective(RemoveAt(s, i))
           /\ ToSet(RemoveAt(s, i)) = ToSet(s) \ {s[i]}
<1> DEFINE t == RemoveAt(s, i)
           n == Len(s)
           a == SubSeq(s, 1, i - 1)
           b == SubSeq(s, i + 1, n)
<1>1. DOMAIN s = 1 .. n /\ n \in Nat /\ i \in 1 .. n
  BY LenProperties
<1>2. \A j \in 1 .. n : s[j] \in S
  BY ElementOfSeq
<1>3. /\ a \in Seq(S) /\ Len(a) = i - 1 /\ \A j \in 1 .. i - 1 : a[j] = s[j]
  <2>1. i - 1 \in Int /\ 1 \in Int /\ \A j \in 1 .. i - 1 : s[j] \in S
    BY <1>1, <1>2
  <2>2. /\ a \in Seq(S) /\ Len(a) = (IF 1 <= i - 1 THEN i - 1 - 1 + 1 ELSE 0)
        /\ \A j \in 1 .. i - 1 - 1 + 1 : a[j] = s[1 + j - 1]
    BY <2>1, SubSeqProperties
  <2> HIDE DEF a
  <2> QED BY <1>1, <2>2
<1>4. /\ b \in Seq(S) /\ Len(b) = n - i /\ \A j \in 1 .. n - i : b[j] = s[j + i]
  <2>1. i + 1 \in Int /\ n \in Int /\ \A j \in i + 1 .. n : s[j] \in S
    BY <1>1, <1>2
  <2>2. /\ b \in Seq(S) /\ Len(b) = (IF i + 1 <= n THEN n - (i + 1) + 1 ELSE 0)
        /\ \A j \in 1 .. n - (i + 1) + 1 : b[j] = s[i + 1 + j - 1]
    BY <2>1, SubSeqProperties
  <2> HIDE DEF b, n
  <2>3. Len(b) = n - i
    BY <1>1, <2>2
  <2>4. ASSUME NEW j \in 1 .. n - i PROVE b[j] = s[j + i]
    <3>1. j \in 1 .. n - (i + 1) + 1 /\ i + 1 + j - 1 = j + i
      BY <1>1
    <3> QED BY <2>2, <3>1
  <2> QED BY <2>2, <2>3, <2>4
<1>5. t = a \o b
  BY DEF RemoveAt
<1> HIDE DEF t, a, b
<1>6. /\ t \in Seq(S) /\ ToSet(t) = ToSet(a) \cup ToSet(b)
      /\ IsInjective(a) /\ IsInjective(b) /\ ToSet(a) \cap ToSet(b) = {} => IsInjective(t)
  BY <1>3, <1>4, <1>5, ConcatIs
<1>7. /\ ToSet(a) = {s[j] : j \in 1 .. i - 1} /\ DOMAIN a = 1 .. i - 1
      /\ DOMAIN b = 1 .. n - i
  <2>1. ToSet(a) = {a[j] : j \in 1 .. Len(a)} /\ DOMAIN a = 1 .. Len(a) /\ DOMAIN b = 1 .. Len(b)
    BY <1>3, <1>4, ToSetIs, LenProperties
  <2> QED BY <1>3, <1>4, <2>1
<1>8. ToSet(b) = {s[j] : j \in i + 1 .. n}
  <2>1. ToSet(b) = {b[j] : j \in 1 .. n - i}
    BY <1>4, ToSetIs
  <2>2. ASSUME NEW j \in 1 .. n - i PROVE b[j] \in {s[k] : k \in i + 1 .. n}
    <3>1. j + i \in i + 1 .. n /\ b[j] = s[j + i]
      BY <1>1, <1>4
    <3> QED BY <3>1
  <2>3. ASSUME NEW k \in i + 1 .. n PROVE s[k] \in {b[j] : j \in 1 .. n - i}
    <3>1. k - i \in 1 .. n - i /\ k - i + i = k
      BY <1>1
    <3>2. b[k - i] = s[k]
      BY <1>4, <3>1
    <3> QED BY <3>1, <3>2
  <2> QED BY <2>1, <2>2, <2>3
<1>9. \A j, k \in 1 .. n : s[j] = s[k] => j = k
  BY <1>1 DEF IsInjective
<1>10. ToSet(a) \cap ToSet(b) = {} /\ s[i] \notin ToSet(a) /\ s[i] \notin ToSet(b)
  <2>1. \A j \in 1 .. i - 1, k \in i + 1 .. n : s[j] # s[k]
    BY <1>1, <1>9
  <2>2. \A j \in 1 .. i - 1 : s[j] # s[i]
    BY <1>1, <1>9
  <2>3. \A k \in i + 1 .. n : s[k] # s[i]
    BY <1>1, <1>9
  <2> QED BY <1>7, <1>8, <2>1, <2>2, <2>3
<1>11. IsInjective(a) /\ IsInjective(b)
  <2>1. \A j, k \in 1 .. i - 1 : a[j] = a[k] => j = k
    BY <1>1, <1>3, <1>9
  <2>2. ASSUME NEW j \in 1 .. n - i, NEW k \in 1 .. n - i, b[j] = b[k] PROVE j = k
    <3>1. j + i \in 1 .. n /\ k + i \in 1 .. n /\ s[j + i] = s[k + i]
      BY <1>1, <1>4, <2>2
    <3>2. j + i = k + i
      BY <1>9, <3>1
    <3> QED BY <1>1, <3>2
  <2> QED BY <1>7, <2>1, <2>2 DEF IsInjective
<1>12. ToSet(s) = ToSet(a) \cup {s[i]} \cup ToSet(b)
  <2>1. ToSet(s) = {s[j] : j \in 1 .. n}
    BY ToSetIs
  <2>2. \A j \in 1 .. n : j \in 1 .. i - 1 \/ j = i \/ j \in i + 1 .. n
    BY <1>1
  <2>3. /\ \A j \in 1 .. i - 1 : j \in 1 .. n
        /\ \A j \in i + 1 .. n : j \in 1 .. n
    BY <1>1
  <2> QED BY <1>1, <1>7, <1>8, <2>1, <2>2, <2>3
<1>13. ToSet(t) = ToSet(s) \ {s[i]}
  BY <1>6, <1>10, <1>12
<1> QED BY <1>6, <1>10, <1>11, <1>13 DEF t

\* The identifiers of egress requests, and what of a set belongs to a request.
LEMMA IdIs ==
    ASSUME NEW e \in EgressIds
    PROVE  /\ Len(e) = 3 /\ e = <<e[1], e[2], e[3]>>
           /\ e[1] \in Requests /\ e[2] \in Paths /\ e[3] \in {1, 2}
BY DEF EgressIds

LEMMA OneMessage ==
    ASSUME NEW r
    PROVE  /\ Len(<<r>>) = 1 /\ <<r>>[1] = r /\ \A S, q : <<r>> \notin Of(S, q)
BY DEF Of

LEMMA OfIs ==
    ASSUME NEW S, NEW T, NEW r
    PROVE  Of(S \cup T, r) = Of(S, r) \cup Of(T, r) /\ Of(S \ T, r) = Of(S, r) \ T
BY DEF Of

\* One context changes.
LEMMA SetContextIs ==
    ASSUME NEW r, NEW c, SetContext(r, c)
    PROVE  /\ Known' = Known \cup {r} /\ contexts'[r] = c
           /\ \A q \in Known \ {r} : contexts'[q] = contexts[q]
BY DEF SetContext, Known

\* What a context asks for is of its request.
LEMMA AskedIs ==
    ASSUME NEW r \in Requests, NEW c, NEW h, ContextInv(c, h), c.graph \in Handlers[r]
    PROVE  /\ c \in ContextsOf(c.graph) /\ IsGraph(c.graph)
           /\ DOMAIN c.graph \subseteq Paths
           /\ c.waiting \subseteq (DOMAIN c.graph) \X {1, 2} /\ c.sends \subseteq c.waiting
           /\ Asked(r, c) \subseteq EgressIds /\ \A e \in Asked(r, c) : e[1] = r
           /\ \A p, k : <<r, p, k>> \in Asked(r, c) <=> <<p, k>> \in Out(c)
           /\ \A f : f \in Running(r, c) <=> \E p \in Handed(c) : f = <<r, p>>
<1>1. c \in ContextsOf(c.graph) /\ IsGraph(c.graph) /\ WaitingInv(c, h)
  BY DEF ContextInv, LeavesInv
<1>2. c.waiting \subseteq (DOMAIN c.graph) \X {1, 2} /\ c.sends \subseteq c.waiting
  <2>1. c.waiting \subseteq Leaves(c.graph) \X {1, 2}
    BY <1>1, WaitingDue
  <2>2. Leaves(c.graph) \subseteq DOMAIN c.graph
    BY DEF Leaves
  <2> QED BY <1>1, <2>1, <2>2 DEF WaitingInv
<1>3. DOMAIN c.graph \subseteq Paths
  BY DEF Paths, Graphs
<1>4. \A w \in Out(c) : w \in (DOMAIN c.graph) \X {1, 2} /\ w = <<w[1], w[2]>>
  BY <1>2 DEF Out
<1>5. Asked(r, c) \subseteq EgressIds /\ \A e \in Asked(r, c) : e[1] = r
  BY <1>3, <1>4 DEF Asked, EgressIds
<1>6. ASSUME NEW p, NEW k PROVE <<r, p, k>> \in Asked(r, c) <=> <<p, k>> \in Out(c)
  BY <1>4 DEF Asked
<1> QED BY <1>1, <1>2, <1>3, <1>5, <1>6 DEF Running

\* Nothing is outstanding for a request that is done.
LEMMA DoneAsksNothing ==
    ASSUME NEW r, NEW c, NEW h, ContextInv(c, h), c.done
    PROVE  Asked(r, c) = {} /\ Running(r, c) = {}
<1>1. /\ IsGraph(c.graph) /\ c \in ContextsOf(c.graph) /\ Shape(c) /\ TreeInv(c) /\ RootInv(c)
      /\ WaitingInv(c, h)
  BY DEF ContextInv, TreeInv, LeavesInv
<1>2. \A x \in DOMAIN c.graph : c.state[x] # "running"
  <2>1. CASE c.graph = NoGraph
    BY <2>1 DEF NoGraph
  <2>2. CASE c.graph # NoGraph
    <3>1. Ended(c, <<>>) /\ <<>> \in DOMAIN c.graph
      BY <1>1, <2>2 DEF RootInv, IsGraph
    <3> QED BY <1>1, <3>1, RootEnds
  <2> QED BY <2>1, <2>2
<1>3. c.waiting = {}
  <2>1. ASSUME NEW w \in c.waiting PROVE FALSE
    <3>1. w[1] \in Leaves(c.graph) /\ IsDue(c.graph, c.state, h, w[1], w[2])
      BY <1>1, <2>1 DEF WaitingInv, Due
    <3>2. c.state[w[1]] = "running" /\ w[1] \in DOMAIN c.graph
      BY <3>1 DEF IsDue, Leaves
    <3> QED BY <1>2, <3>2
  <2> QED BY <2>1
<1>4. Out(c) = {} /\ Handed(c) = {}
  BY <1>2, <1>3 DEF Out, Handed
<1> QED BY <1>4 DEF Asked, Running

(***************************************************************************)
(* The steps of the world outside the loop keep the invariant.             *)
(***************************************************************************)

\* The contexts, and what the loop keeps for them.
tables == <<contexts, active, egress, replies, heard>>

\* What only moves from one place outside the loop to another.
LEMMA WorldMoves ==
    ASSUME LoopInv, UNCHANGED <<pc, turn, tables, pool>>, RxInv', WayInv',
           \A q \in Requests : Of(Away, q)' = Of(Away, q)
    PROVE  LoopInv'
<1>1. /\ PhaseInv /\ PoolInv /\ KnownInv /\ EnginesInv /\ RepliesInv /\ LinksInv
      /\ pc' = pc /\ turn' = turn /\ contexts' = contexts /\ active' = active
      /\ egress' = egress /\ replies' = replies /\ heard' = heard /\ futures' = futures
      /\ returned' = returned /\ batch' = batch /\ Known' = Known
  BY DEF LoopInv, tables, pool, Known
<1>2. PhaseInv' /\ PoolInv' /\ KnownInv'
  BY <1>1 DEF PhaseInv, PoolInv, KnownInv
<1>3. EnginesInv'
  BY <1>1 DEF EnginesInv
<1>4. RepliesInv'
  BY <1>1 DEF RepliesInv
<1>5. LinksInv'
  <2>1. active \subseteq Requests
    BY <1>1 DEF KnownInv
  <2> QED BY <1>1, <2>1 DEF LinksInv
<1> QED BY <1>2, <1>3, <1>4, <1>5 DEF LoopInv

LEMMA RequestArrives ==
    ASSUME LoopInv, NEW r \in Requests, ArriveRequest(r)
    PROVE  LoopInv'
<1>1. RxInv /\ WayInv
  BY DEF LoopInv
<1>2. /\ r \notin Known /\ <<r>> \notin InRing /\ rx' = Append(rx, <<r>>)
      /\ transit' = transit /\ lost' = lost /\ UNCHANGED <<pc, turn, tables, pool>>
      /\ Known' = Known
  BY DEF ArriveRequest, outside, pool, tables, Known
<1>3. /\ rx \in Seq(Messages) /\ <<r>> \in Messages /\ IsInjective(rx)
      /\ Len(<<r>>) = 1
  BY <1>1 DEF RxInv, Messages
<1>4. /\ rx' \in Seq(Messages) /\ InRing' = InRing \cup {<<r>>} /\ IsInjective(rx')
  BY <1>2, <1>3, AppendIs DEF InRing
<1>5. RxInv'
  <2>1. <<r>> \in {<<q>> : q \in Requests \ Known}
    BY <1>2
  <2> QED BY <1>1, <1>2, <1>4, <2>1 DEF RxInv
<1>6. <<r>> \notin EgressIds
  BY <1>3, IdIs
<1>7. WayInv'
  BY <1>1, <1>2, <1>4, <1>6 DEF WayInv
<1>8. \A q \in Requests : Of(Away, q)' = Of(Away, q)
  <2>1. Away' = Away \cup {<<r>>}
    BY <1>2, <1>4 DEF Away
  <2> DEFINE m == <<r>>
  <2>2. Away' = Away \cup {m} /\ Len(m) # 3
    BY <1>3, <2>1
  <2> HIDE DEF m
  <2>3. \A q : Of(Away \cup {m}, q) = Of(Away, q)
    BY <2>2 DEF Of
  <2> QED BY <2>2, <2>3
<1> QED BY <1>2, <1>5, <1>7, <1>8, WorldMoves

LEMMA AnswerArrives ==
    ASSUME LoopInv, NEW e \in transit, ArriveAnswer(e)
    PROVE  LoopInv'
<1>1. RxInv /\ WayInv
  BY DEF LoopInv
<1>2. /\ rx' = Append(rx, e) /\ transit' = transit \ {e} /\ lost' = lost
      /\ UNCHANGED <<pc, turn, tables, pool>> /\ Known' = Known
  BY DEF ArriveAnswer, pool, tables, Known
<1>3. /\ rx \in Seq(Messages) /\ e \in Messages /\ e \in EgressIds /\ IsInjective(rx)
      /\ e \notin InRing /\ e \notin lost
  BY <1>1 DEF RxInv, WayInv, Messages
<1>4. /\ rx' \in Seq(Messages) /\ InRing' = InRing \cup {e} /\ IsInjective(rx')
  BY <1>2, <1>3, AppendIs DEF InRing
<1>5. RxInv'
  BY <1>1, <1>2, <1>3, <1>4 DEF RxInv
<1>6. WayInv'
  BY <1>1, <1>2, <1>3, <1>4 DEF WayInv
<1>7. \A q \in Requests : Of(Away, q)' = Of(Away, q)
  <2>1. Away' = Away
    BY <1>2, <1>4 DEF Away
  <2> QED BY <2>1
<1> QED BY <1>2, <1>5, <1>6, <1>7, WorldMoves

LEMMA AnswerLost ==
    ASSUME LoopInv, NEW e \in transit, Lose(e)
    PROVE  LoopInv'
<1>1. RxInv /\ WayInv
  BY DEF LoopInv
<1>2. /\ rx' = rx /\ transit' = transit \ {e} /\ lost' = lost \cup {e}
      /\ Cardinality(lost) < MaxLost /\ InRing' = InRing
      /\ UNCHANGED <<pc, turn, tables, pool>> /\ Known' = Known
  BY DEF Lose, pool, tables, Known, InRing
<1>3. RxInv'
  BY <1>1, <1>2 DEF RxInv
<1>4. e \notin lost /\ IsFiniteSet(lost) /\ e \in EgressIds /\ e \notin InRing
  BY <1>1 DEF WayInv
<1>5. IsFiniteSet(lost') /\ Cardinality(lost') <= MaxLost
  <2>1. /\ IsFiniteSet(lost \cup {e}) /\ Cardinality(lost \cup {e}) = Cardinality(lost) + 1
        /\ Cardinality(lost) \in Nat
    BY <1>4, FS_AddElement, FS_CardinalityType
  <2>2. MaxLost \in Nat
    BY EventLoopAssumption
  <2> QED BY <1>2, <2>1, <2>2
<1>6. WayInv'
  BY <1>1, <1>2, <1>4, <1>5 DEF WayInv
<1>7. \A q \in Requests : Of(Away, q)' = Of(Away, q)
  <2>1. Away' = Away
    BY <1>2 DEF Away
  <2> QED BY <2>1
<1> QED BY <1>2, <1>3, <1>6, <1>7, WorldMoves

(***************************************************************************)
(* Steps of the loop that touch no context.                                *)
(***************************************************************************)

\* The phase or what the pool has done changes.
LEMMA PhaseMoves ==
    ASSUME LoopInv, UNCHANGED <<turn, rx, outside, tables, futures>>, PhaseInv', PoolInv',
           pc # "crashed", pc' # "crashed"
    PROVE  LoopInv'
<1>1. /\ RxInv /\ WayInv /\ KnownInv /\ EnginesInv /\ RepliesInv /\ LinksInv
      /\ turn' = turn /\ rx' = rx /\ transit' = transit /\ lost' = lost
      /\ contexts' = contexts /\ active' = active /\ egress' = egress
      /\ replies' = replies /\ heard' = heard /\ futures' = futures
      /\ Known' = Known /\ InRing' = InRing /\ Away' = Away
  BY DEF LoopInv, tables, outside, Known, InRing, Away
<1>2. RxInv' /\ WayInv' /\ KnownInv'
  BY <1>1 DEF RxInv, WayInv, KnownInv
<1>3. EnginesInv'
  BY <1>1 DEF EnginesInv
<1>4. RepliesInv'
  BY <1>1 DEF RepliesInv
<1>5. LinksInv'
  BY <1>1 DEF LinksInv
<1> QED BY <1>2, <1>3, <1>4, <1>5 DEF LoopInv

LEMMA FunctionRuns ==
    ASSUME LoopInv, FunctionReturns
    PROVE  LoopInv'
<1>1. PhaseInv /\ PoolInv /\ RepliesInv
  BY DEF LoopInv
<1>2. PICK i \in DOMAIN futures, o \in Outcomes : returned' = returned \cup {<<futures[i], o>>}
  BY DEF FunctionReturns
<1>3. /\ pc' = pc /\ batch' = batch /\ futures' = futures /\ active' = active /\ turn' = turn
      /\ UNCHANGED <<turn, rx, outside, tables, futures>>
  BY DEF FunctionReturns, tables
<1>4. futures[i] \in Functions
  <2>1. futures \in Seq(Functions) /\ i \in 1 .. Len(futures)
    BY <1>1, LenProperties DEF PoolInv
  <2> QED BY <2>1, ElementOfSeq
<1>5. PoolInv'
  BY <1>1, <1>2, <1>3, <1>4 DEF PoolInv
<1>6. PhaseInv'
  BY <1>1, <1>3 DEF PhaseInv
<1>7. pc # "crashed"
  <2>1. futures # <<>>
    BY <1>2
  <2> QED BY <1>1, <2>1 DEF RepliesInv
<1> QED BY <1>3, <1>5, <1>6, <1>7, PhaseMoves

LEMMA LoopTurns ==
    ASSUME LoopInv, PollEmpty \/ Collect \/ FinalizeEnd
    PROVE  LoopInv'
<1>1. PhaseInv /\ PoolInv
  BY DEF LoopInv
<1>2. /\ pc \in {"poll", "collect", "finalize"} /\ pc' \in {"collect", "futures", "finalize", "poll"}
      /\ pc = "poll" => turn = None
      /\ batch' = batch \/ batch' = {f \in ToSet(futures) : Returned(f)}
      /\ returned' = returned /\ futures' = futures /\ active' = active /\ turn' = turn
      /\ UNCHANGED <<turn, rx, outside, tables, futures>>
  BY DEF PollEmpty, Collect, FinalizeEnd, pool, tables
<1>3. PhaseInv'
  BY <1>1, <1>2 DEF PhaseInv
<1>4. PoolInv'
  BY <1>1, <1>2 DEF PoolInv
<1> QED BY <1>2, <1>3, <1>4, PhaseMoves

\* The process ends.
LEMMA LoopCrashes ==
    ASSUME LoopInv, Crash
    PROVE  LoopInv'
<1>1. RxInv /\ WayInv /\ KnownInv /\ EnginesInv /\ RepliesInv /\ LinksInv
  BY DEF LoopInv
<1>2. /\ pc' = "crashed" /\ turn' = None /\ active' = {} /\ egress' = {} /\ futures' = <<>>
      /\ returned' = {} /\ batch' = {} /\ rx' = rx /\ transit' = transit /\ lost' = lost
      /\ contexts' = contexts /\ replies' = replies /\ heard' = heard
      /\ Known' = Known /\ InRing' = InRing /\ Away' = Away
  BY DEF Crash, outside, Known, InRing, Away
<1>3. PhaseInv' /\ RxInv' /\ WayInv' /\ KnownInv'
  BY <1>1, <1>2 DEF PhaseInv, RxInv, WayInv, KnownInv
<1>4. PoolInv'
  BY <1>2, EmptyIs DEF PoolInv
<1>5. EnginesInv'
  BY <1>1, <1>2 DEF EnginesInv
<1>6. RepliesInv'
  BY <1>1, <1>2 DEF RepliesInv
<1>7. LinksInv'
  BY <1>1, <1>2, EmptyIs DEF LinksInv
<1> QED BY <1>3, <1>4, <1>5, <1>6, <1>7 DEF LoopInv

(***************************************************************************)
(* Steps of the loop that bring something to a context.                    *)
(***************************************************************************)

\* What the invariant says of a request that is active.
LEMMA ActiveIs ==
    ASSUME LoopInv, NEW r \in active
    PROVE  /\ r \in Requests /\ r \in Known /\ r # None /\ pc # "crashed" /\ replies[r] = <<>>
           /\ contexts[r].graph \in Handlers[r] /\ ContextInv(contexts[r], heard[r])
           /\ CurrentInv(contexts[r]) /\ (r # turn => Quiet(contexts[r]))
           /\ Of(egress, r) = Asked(r, contexts[r]) /\ Of(Away, r) = Asked(r, contexts[r])
           /\ Fut(ToSet(futures), r) = Running(r, contexts[r])
<1>1. KnownInv /\ EnginesInv /\ RepliesInv /\ LinksInv
  BY DEF LoopInv
<1>2. r \in Requests /\ r \in Known /\ r # None
  BY <1>1, EventLoopAssumption DEF KnownInv
<1>3. pc # "crashed" /\ replies[r] = <<>>
  BY <1>1, <1>2 DEF RepliesInv
<1> QED BY <1>1, <1>2, <1>3 DEF EnginesInv, LinksInv

\* A step that makes c the context of r, which has been told h, and that changes the
\* tables for no other request.
ForRequest(r, c, h) ==
    /\ SetContext(r, c) /\ c.graph \in Handlers[r] /\ ContextInv(c, h) /\ CurrentInv(c)
    /\ active' = active \cup {r} /\ replies' = replies /\ replies[r] = <<>>
    /\ heard' = [heard EXCEPT ![r] = h]
    /\ pc # "crashed" /\ pc' # "crashed" /\ turn \in {None, r}
    /\ turn' = r \/ (turn' = None /\ Quiet(c))
    /\ \A q \in Requests \ {r} : /\ Of(egress', q) = Of(egress, q)
                                 /\ Of(Away', q) = Of(Away, q)
                                 /\ Fut(ToSet(futures'), q) = Fut(ToSet(futures), q)
    /\ Of(egress', r) = Asked(r, c) /\ Of(Away', r) = Asked(r, c)
    /\ Fut(ToSet(futures'), r) = Running(r, c)
    /\ \A e \in egress' : e \in egress \/ e[1] = r
    /\ \A f \in ToSet(futures') : f \in ToSet(futures) \/ f[1] = r

LEMMA ContextChanges ==
    ASSUME LoopInv, NEW r \in Requests, NEW c, NEW h, ForRequest(r, c, h),
           PhaseInv', RxInv', WayInv', PoolInv', egress' \subseteq EgressIds
    PROVE  LoopInv'
<1> USE DEF ForRequest
<1>1. KnownInv /\ EnginesInv /\ RepliesInv /\ LinksInv
  BY DEF LoopInv
<1>2. /\ Known' = Known \cup {r} /\ contexts'[r] = c
      /\ \A q \in Known \ {r} : contexts'[q] = contexts[q]
  BY SetContextIs
<1>3. /\ heard'[r] = h /\ \A q \in Requests \ {r} : heard'[q] = heard[q]
  BY <1>1 DEF KnownInv
<1>4. KnownInv'
  <2>1. h \subseteq Paths \X Nat \X Outcomes
    <3>1. h \subseteq Leaves(c.graph) \X Nat \X Outcomes
      BY DEF ContextInv, LeavesInv, HeardInv
    <3>2. Leaves(c.graph) \subseteq Paths
      BY AskedIs DEF Leaves
    <3> QED BY <3>1, <3>2
  <2>2. heard' \in [Requests -> SUBSET (Paths \X Nat \X Outcomes)]
    BY <1>1, <2>1 DEF KnownInv
  <2>3. Known' \subseteq Requests /\ active' \subseteq Known'
    BY <1>1, <1>2 DEF KnownInv
  <2> QED BY <2>2, <2>3 DEF KnownInv
<1>5. EnginesInv'
  <2>1. ASSUME NEW q \in Known'
        PROVE  /\ contexts'[q].graph \in Handlers[q]
               /\ ContextInv(contexts'[q], heard'[q]) /\ CurrentInv(contexts'[q])
    <3>1. CASE q = r
      BY <1>2, <1>3, <3>1
    <3>2. CASE q # r
      <4>1. q \in Known /\ q \in Requests /\ contexts'[q] = contexts[q] /\ heard'[q] = heard[q]
        BY <1>1, <1>2, <1>3, <3>2 DEF KnownInv
      <4> QED BY <1>1, <4>1 DEF EnginesInv
    <3> QED BY <3>1, <3>2
  <2>2. \A q \in Requests \ Known' : heard'[q] = {}
    BY <1>1, <1>2, <1>3 DEF EnginesInv
  <2>3. ASSUME NEW q \in Known' \ {turn'} PROVE Quiet(contexts'[q])
    <3>1. CASE q = r
      BY <1>2, <3>1
    <3>2. CASE q # r
      <4>1. q \in Known /\ q \in Requests /\ contexts'[q] = contexts[q]
        BY <1>1, <1>2, <3>2 DEF KnownInv
      <4>2. q # turn
        BY <3>2, <4>1, EventLoopAssumption
      <4> QED BY <1>1, <4>1, <4>2 DEF EnginesInv
    <3> QED BY <3>1, <3>2
  <2> QED BY <2>1, <2>2, <2>3 DEF EnginesInv
<1>6. RepliesInv'
  <2>1. ASSUME NEW q \in Requests, replies'[q] # <<>>
        PROVE  /\ q \in Known' \ active' /\ contexts'[q].done
               /\ replies'[q] \in RepliesOf(contexts'[q])
    <3>1. q # r /\ replies[q] # <<>>
      BY <2>1
    <3>2. q \in Known \ active /\ contexts[q].done /\ replies[q] \in RepliesOf(contexts[q])
      BY <1>1, <3>1 DEF RepliesInv
    <3> QED BY <1>2, <3>1, <3>2
  <2>2. replies' \in [Requests -> Seq(Outcomes \cup {"dropped"})]
    BY <1>1 DEF RepliesInv
  <2> QED BY <2>1, <2>2 DEF RepliesInv
<1>7. LinksInv'
  <2>1. ASSUME NEW q \in active'
        PROVE  /\ Of(egress, q)' = Asked(q, contexts'[q])
               /\ Of(Away, q)' = Asked(q, contexts'[q])
               /\ Fut(ToSet(futures), q)' = Running(q, contexts'[q])
    <3>1. CASE q = r
      BY <1>2, <3>1
    <3>2. CASE q # r
      <4>1. q \in active /\ q \in Known /\ q \in Requests /\ contexts'[q] = contexts[q]
        BY <1>1, <1>2, <3>2 DEF KnownInv
      <4>2. /\ Of(egress, q)' = Of(egress, q) /\ Of(Away, q)' = Of(Away, q)
            /\ Fut(ToSet(futures), q)' = Fut(ToSet(futures), q)
        BY <3>2, <4>1
      <4>3. /\ Of(egress, q) = Asked(q, contexts[q]) /\ Of(Away, q) = Asked(q, contexts[q])
            /\ Fut(ToSet(futures), q) = Running(q, contexts[q])
        BY <1>1, <4>1 DEF LinksInv
      <4> QED BY <4>1, <4>2, <4>3
    <3> QED BY <3>1, <3>2
  <2>2. (\A e \in egress' : e[1] \in active') /\ (\A f \in ToSet(futures)' : f[1] \in active')
    BY <1>1 DEF LinksInv
  <2>3. ASSUME NEW q \in Requests, q \notin Known' \/ replies'[q] # <<>>
        PROVE  Of(Away, q)' = {}
    <3>1. q # r /\ (q \notin Known \/ replies[q] # <<>>)
      BY <1>2, <2>3
    <3>2. Of(Away, q) = {}
      BY <1>1, <3>1 DEF LinksInv
    <3> QED BY <3>1, <3>2
  <2> QED BY <2>1, <2>2, <2>3 DEF LinksInv
<1> QED BY <1>4, <1>5, <1>6, <1>7 DEF LoopInv

\* The engine goes on.
LEMMA EngineAdvances ==
    ASSUME LoopInv, Advance
    PROVE  LoopInv'
<1>1. PhaseInv /\ RxInv /\ WayInv /\ PoolInv /\ KnownInv
  BY DEF LoopInv
<1>2. PICK r \in active : r = turn
  BY <1>1 DEF PhaseInv, Advance
<1>3. PICK o : o = contexts[r]
  OBVIOUS
<1>4. PICK c : c = Advanced(o)
  OBVIOUS
<1>5. /\ o.calls # <<>> /\ SetContext(r, c)
      /\ pc' = pc /\ turn' = turn /\ rx' = rx /\ transit' = transit /\ lost' = lost
      /\ active' = active /\ egress' = egress /\ futures' = futures /\ returned' = returned
      /\ batch' = batch /\ replies' = replies /\ heard' = heard
  BY <1>2, <1>3, <1>4 DEF Advance, outside, pool
<1>6. /\ r \in Requests /\ r \in Known /\ pc # "crashed" /\ replies[r] = <<>>
      /\ o.graph \in Handlers[r] /\ ContextInv(o, heard[r]) /\ CurrentInv(o)
      /\ Of(egress, r) = Asked(r, o) /\ Of(Away, r) = Asked(r, o)
      /\ Fut(ToSet(futures), r) = Running(r, o)
  BY <1>3, ActiveIs
<1>7. Moves(o, c, heard[r]) /\ CurrentInv(c)
  BY <1>4, <1>5, <1>6, EngineStep, CurrentStep
<1>8. /\ ContextInv(c, heard[r]) /\ c.graph \in Handlers[r]
      /\ Asked(r, c) = Asked(r, o) /\ Running(r, c) = Running(r, o)
  BY <1>6, <1>7 DEF Moves, Asked, Running
<1>9. heard' = [heard EXCEPT ![r] = heard[r]]
  BY <1>1, <1>5 DEF KnownInv
<1>10. Known' = Known
  BY <1>5, <1>6, SetContextIs
<1>11. InRing' = InRing /\ Away' = Away
  BY <1>5 DEF InRing, Away
<1>12. PhaseInv' /\ RxInv' /\ WayInv' /\ PoolInv' /\ egress' \subseteq EgressIds
  BY <1>1, <1>5, <1>10, <1>11 DEF PhaseInv, RxInv, WayInv, PoolInv, KnownInv
<1>13. ForRequest(r, c, heard[r])
  BY <1>2, <1>5, <1>6, <1>7, <1>8, <1>9, <1>11 DEF ForRequest
<1>14. PICK h : h = heard[r]
  OBVIOUS
<1> QED BY <1>6, <1>12, <1>13, <1>14, ContextChanges

\* The functions that are submitted for r.
LEMMA SubmittedIs ==
    ASSUME NEW r \in Requests, NEW g, DOMAIN g \subseteq Paths, NEW s \in Seq(DOMAIN g),
           IsInjective(s), NEW t, t = [i \in DOMAIN s |-> <<r, s[i]>>]
    PROVE  /\ t \in Seq(Functions) /\ IsInjective(t) /\ ToSet(t) = {<<r, p>> : p \in ToSet(s)}
<1>1. DOMAIN s = 1 .. Len(s) /\ Len(s) \in Nat /\ \A i \in 1 .. Len(s) : s[i] \in DOMAIN g
  BY LenProperties, ElementOfSeq
<1>2. t \in [1 .. Len(s) -> Functions]
  BY <1>1 DEF Functions
<1>3. t \in Seq(Functions)
  BY <1>1, <1>2, SeqDef
<1>4. IsInjective(t)
  <2>1. \A i, j \in DOMAIN t : t[i] = t[j] => s[i] = s[j]
    OBVIOUS
  <2> QED BY <2>1 DEF IsInjective
<1>5. ToSet(t) = {<<r, p>> : p \in ToSet(s)}
  BY DEF ToSet
<1> QED BY <1>3, <1>4, <1>5

\* The actions are executed.
LEMMA ActionsExecuted ==
    ASSUME LoopInv, ExecuteActions
    PROVE  LoopInv'
<1>1. PhaseInv /\ RxInv /\ WayInv /\ PoolInv /\ KnownInv
  BY DEF LoopInv
<1>2. PICK r \in active : r = turn
  BY <1>1 DEF PhaseInv, ExecuteActions
<1>3. PICK o : o = contexts[r]
  OBVIOUS
<1>4. PICK c : c = Taken(o)
  OBVIOUS
<1>5. PICK S : S = {<<r, s[1], s[2]>> : s \in o.sends}
  OBVIOUS
<1>6. PICK t : t = [i \in DOMAIN o.runs |-> <<r, o.runs[i]>>]
  OBVIOUS
<1>7. /\ o.calls = <<>> /\ SetContext(r, c)
      /\ egress' = egress \cup S /\ transit' = transit \cup S /\ futures' = futures \o t
      /\ pc' = AfterHandler /\ turn' = None /\ rx' = rx /\ lost' = lost
      /\ active' = active /\ returned' = returned /\ batch' = batch /\ replies' = replies
      /\ heard' = heard
  BY <1>2, <1>3, <1>4, <1>5, <1>6 DEF ExecuteActions, Submits, Taken
<1>8. /\ r \in Requests /\ r \in Known /\ pc # "crashed" /\ replies[r] = <<>>
      /\ o.graph \in Handlers[r] /\ ContextInv(o, heard[r]) /\ CurrentInv(o)
      /\ Of(egress, r) = Asked(r, o) /\ Of(Away, r) = Asked(r, o)
      /\ Fut(ToSet(futures), r) = Running(r, o)
  BY <1>3, ActiveIs
<1>9. /\ ContextInv(c, heard[r]) /\ Quiet(c) /\ c.graph = o.graph /\ c.current = o.current
      /\ Out(c) = Out(o) \cup o.sends /\ Out(o) \cap o.sends = {}
      /\ Handed(c) = Handed(o) \cup ToSet(o.runs) /\ Handed(o) \cap ToSet(o.runs) = {}
      /\ IsInjective(o.runs) /\ o.runs \in Seq(DOMAIN o.graph)
  BY <1>4, <1>7, <1>8, ActionsTaken
<1>10. CurrentInv(c)
  BY <1>8, <1>9, SameCurrent DEF SameOrders
<1>11. /\ DOMAIN o.graph \subseteq Paths /\ o.waiting \subseteq (DOMAIN o.graph) \X {1, 2}
       /\ o.sends \subseteq o.waiting
       /\ \A p, k : <<r, p, k>> \in Asked(r, o) <=> <<p, k>> \in Out(o)
       /\ \A f : f \in Running(r, o) <=> \E p \in Handed(o) : f = <<r, p>>
  BY <1>8, AskedIs
<1>12. /\ S \subseteq EgressIds /\ (\A e \in S : e[1] = r) /\ S \cap Asked(r, o) = {}
       /\ Asked(r, c) = Asked(r, o) \cup S
  <2>1. \A s \in o.sends : /\ s = <<s[1], s[2]>> /\ s[1] \in Paths /\ s[2] \in {1, 2}
                           /\ s \notin Out(o)
    BY <1>9, <1>11
  <2>2. S \subseteq EgressIds /\ \A e \in S : e[1] = r
    BY <1>5, <1>8, <2>1 DEF EgressIds
  <2>3. \A s \in o.sends : <<r, s[1], s[2]>> \notin Asked(r, o)
    BY <1>11, <2>1
  <2>4. S \cap Asked(r, o) = {}
    BY <1>5, <2>3
  <2>5. Asked(r, c) = Asked(r, o) \cup S
    BY <1>5, <1>9 DEF Asked
  <2> QED BY <2>2, <2>4, <2>5
<1>13. /\ t \in Seq(Functions) /\ IsInjective(t) /\ ToSet(t) = {<<r, p>> : p \in ToSet(o.runs)}
  BY <1>6, <1>8, <1>9, <1>11, SubmittedIs
<1>14. /\ (\A f \in ToSet(t) : f[1] = r) /\ Running(r, c) = Running(r, o) \cup ToSet(t)
       /\ ToSet(t) \cap ToSet(futures) = {}
  <2>1. \A f \in ToSet(t) : f[1] = r /\ \E p \in ToSet(o.runs) : f = <<r, p>>
    BY <1>13
  <2>2. Running(r, c) = Running(r, o) \cup ToSet(t)
    BY <1>9, <1>13 DEF Running
  <2>3. ASSUME NEW f \in ToSet(t), f \in ToSet(futures) PROVE FALSE
    <3>1. f \in Running(r, o)
      BY <1>8, <2>1, <2>3 DEF Fut
    <3>2. PICK p \in ToSet(o.runs) : f = <<r, p>>
      BY <2>1
    <3>3. PICK q \in Handed(o) : f = <<r, q>>
      BY <1>11, <3>1
    <3>4. p = q
      BY <3>2, <3>3
    <3> QED BY <1>9, <3>4
  <2> QED BY <2>1, <2>2, <2>3
<1>15. /\ futures' \in Seq(Functions) /\ IsInjective(futures')
       /\ ToSet(futures') = ToSet(futures) \cup ToSet(t)
  <2>1. futures \in Seq(Functions) /\ IsInjective(futures)
    BY <1>1 DEF PoolInv
  <2>2. ToSet(futures) \cap ToSet(t) = {}
    BY <1>14
  <2> QED BY <1>7, <1>13, <2>1, <2>2, ConcatIs
<1>16. InRing' = InRing /\ Known' = Known
  BY <1>7, <1>8, SetContextIs DEF InRing
<1>17. PhaseInv'
  <2>1. pc' \in {"collect", "finalize", pc}
    BY <1>7 DEF AfterHandler
  <2> QED BY <1>1, <1>7, <2>1 DEF PhaseInv
<1>18. RxInv' /\ PoolInv' /\ egress' \subseteq EgressIds
  BY <1>1, <1>7, <1>12, <1>15, <1>16 DEF RxInv, PoolInv, KnownInv
<1>19. WayInv'
  <2>1. S \cap (InRing \cup transit \cup lost) = {}
    <3>1. ASSUME NEW e \in S, e \in InRing \cup transit \cup lost PROVE FALSE
      <4>1. e \in EgressIds /\ e[1] = r /\ e \in Away /\ Len(e) = 3
        BY <1>12, <3>1, IdIs DEF Away
      <4>2. e \in Of(Away, r)
        BY <4>1 DEF Of
      <4> QED BY <1>8, <1>12, <4>2
    <3> QED BY <3>1
  <2> QED BY <1>1, <1>7, <1>12, <1>16, <2>1 DEF WayInv
<1>20. /\ Of(S, r) = S /\ \A q \in Requests \ {r} : Of(S, q) = {}
  <2>1. \A e \in S : Len(e) = 3 /\ e[1] = r
    BY <1>12, IdIs
  <2> QED BY <2>1 DEF Of
<1>21. /\ Away' = Away \cup S
  BY <1>7, <1>16 DEF Away
<1>22. \A q \in Requests : /\ Of(egress', q) = Of(egress, q) \cup Of(S, q)
                           /\ Of(Away', q) = Of(Away, q) \cup Of(S, q)
  <2>1. \A A, q : Of(A \cup S, q) = Of(A, q) \cup Of(S, q)
    BY DEF Of
  <2> QED BY <1>7, <1>21, <2>1
<1>23. /\ \A q \in Requests \ {r} : Fut(ToSet(futures'), q) = Fut(ToSet(futures), q)
       /\ Fut(ToSet(futures'), r) = Fut(ToSet(futures), r) \cup ToSet(t)
  BY <1>14, <1>15 DEF Fut
<1>24. pc' # "crashed" /\ heard' = [heard EXCEPT ![r] = heard[r]]
  BY <1>1, <1>7, <1>8 DEF AfterHandler, KnownInv
<1>25. ForRequest(r, c, heard[r])
  <2>1. /\ Of(egress', r) = Asked(r, c) /\ Of(Away', r) = Asked(r, c)
        /\ Fut(ToSet(futures'), r) = Running(r, c)
    BY <1>8, <1>12, <1>14, <1>20, <1>22, <1>23
  <2>2. \A q \in Requests \ {r} : /\ Of(egress', q) = Of(egress, q)
                                  /\ Of(Away', q) = Of(Away, q)
                                  /\ Fut(ToSet(futures'), q) = Fut(ToSet(futures), q)
    BY <1>20, <1>22, <1>23
  <2>3. /\ \A e \in egress' : e \in egress \/ e[1] = r
        /\ \A f \in ToSet(futures') : f \in ToSet(futures) \/ f[1] = r
    BY <1>7, <1>12, <1>14, <1>15
  <2>4. active' = active \cup {r} /\ turn \in {None, r}
    BY <1>2, <1>7
  <2> QED BY <1>7, <1>8, <1>9, <1>10, <1>24, <2>1, <2>2, <2>3, <2>4 DEF ForRequest
<1>26. PICK h : h = heard[r]
  OBVIOUS
<1> QED BY <1>8, <1>17, <1>18, <1>19, <1>25, <1>26, ContextChanges

\* A request comes in.
LEMMA RequestStarts ==
    ASSUME LoopInv, HandleNewRequest
    PROVE  LoopInv'
<1>1. PhaseInv /\ RxInv /\ WayInv /\ PoolInv /\ KnownInv /\ EnginesInv /\ RepliesInv /\ LinksInv
  BY DEF LoopInv
<1>2. /\ pc = "poll" /\ turn = None /\ rx # <<>> /\ Len(Head(rx)) = 1 /\ rx' = Tail(rx)
      /\ pc' = pc /\ transit' = transit /\ lost' = lost /\ egress' = egress
      /\ futures' = futures /\ returned' = returned /\ batch' = batch
      /\ replies' = replies /\ heard' = heard
  BY DEF HandleNewRequest, outside, pool
<1>3. /\ Tail(rx) \in Seq(Messages) /\ IsInjective(Tail(rx)) /\ Head(rx) \in InRing
      /\ InRing' = InRing \ {Head(rx)}
  <2>1. /\ Head(rx) \in ToSet(rx) /\ Tail(rx) \in Seq(Messages)
        /\ ToSet(rx) = ToSet(Tail(rx)) \cup {Head(rx)}
        /\ IsInjective(Tail(rx)) /\ Head(rx) \notin ToSet(Tail(rx))
    BY <1>1, <1>2, PopIs DEF RxInv
  <2> QED BY <1>2, <2>1 DEF InRing
<1>4. PICK r \in Requests \ Known : Head(rx) = <<r>>
  <2>1. Head(rx) \notin EgressIds
    BY <1>2, IdIs
  <2> QED BY <1>1, <1>3, <2>1 DEF RxInv
<1>5. PICK g \in Handlers[r], w \in WsgiStatuses : SetContext(r, Start(NewContext(g, w)))
  BY <1>4 DEF HandleNewRequest
<1>6. active' = active \cup {r} /\ turn' = r
  BY <1>4 DEF HandleNewRequest
<1>7. PICK c : c = Start(NewContext(g, w))
  OBVIOUS
<1>8. /\ ContextInv(c, {}) /\ c.graph = g /\ Out(c) = {} /\ Handed(c) = {} /\ CurrentInv(c)
  <2>1. IsGraph(g) /\ w \in Outcomes
    BY <1>4, <1>5, EventLoopAssumption DEF WsgiStatuses, Outcomes
  <2> QED BY <1>7, <2>1, ContextStarts
<1>9. Asked(r, c) = {} /\ Running(r, c) = {}
  BY <1>8 DEF Asked, Running
<1>10. Known' = Known \cup {r}
  BY <1>5, SetContextIs
<1>11. /\ r \notin active /\ replies[r] = <<>> /\ heard[r] = {}
       /\ Of(egress, r) = {} /\ Of(Away, r) = {} /\ Fut(ToSet(futures), r) = {}
  <2>1. r \notin active
    BY <1>1, <1>4 DEF KnownInv
  <2>2. replies[r] = <<>> /\ heard[r] = {}
    BY <1>1, <1>4 DEF RepliesInv, EnginesInv
  <2> QED BY <1>1, <1>4, <2>1, <2>2 DEF LinksInv, Of, Fut
<1>12. heard' = [heard EXCEPT ![r] = {}]
  BY <1>1, <1>2, <1>11 DEF KnownInv
<1>13. PhaseInv'
  BY <1>1, <1>2, <1>6 DEF PhaseInv
<1>14. RxInv'
  <2>1. ASSUME NEW e \in InRing'
        PROVE  e \in EgressIds \cup {<<q>> : q \in Requests \ (Known \cup {r})}
    <3>1. e \in InRing /\ e # <<r>>
      BY <1>3, <1>4, <2>1
    <3>2. e \in EgressIds \/ \E q \in Requests \ Known : e = <<q>>
      BY <1>1, <3>1 DEF RxInv
    <3> QED BY <3>1, <3>2
  <2> QED BY <1>2, <1>3, <1>10, <2>1 DEF RxInv
<1>15. WayInv'
  BY <1>1, <1>2, <1>3 DEF WayInv
<1>16. PoolInv' /\ egress' \subseteq EgressIds
  BY <1>1, <1>2 DEF PoolInv, KnownInv
<1>17. \A q \in Requests : Of(Away', q) = Of(Away, q)
  <2> DEFINE m == <<r>>
  <2>1. Away' = Away \ ({m} \ (transit \cup lost)) /\ Len(m) # 3
    BY <1>2, <1>3, <1>4 DEF Away
  <2> HIDE DEF m
  <2> QED BY <2>1 DEF Of
<1>18. ForRequest(r, c, {})
  <2>1. /\ Of(egress', r) = Asked(r, c) /\ Of(Away', r) = Asked(r, c)
        /\ Fut(ToSet(futures'), r) = Running(r, c)
    BY <1>2, <1>4, <1>9, <1>11, <1>17
  <2>2. \A q \in Requests \ {r} : /\ Of(egress', q) = Of(egress, q)
                                  /\ Of(Away', q) = Of(Away, q)
                                  /\ Fut(ToSet(futures'), q) = Fut(ToSet(futures), q)
    BY <1>2, <1>17
  <2>3. pc # "crashed" /\ pc' # "crashed"
    BY <1>2
  <2>4. c.graph \in Handlers[r] /\ SetContext(r, c)
    BY <1>5, <1>7, <1>8
  <2> QED BY <1>2, <1>6, <1>8, <1>11, <1>12, <2>1, <2>2, <2>3, <2>4 DEF ForRequest
<1> QED BY <1>4, <1>13, <1>14, <1>15, <1>16, <1>18, ContextChanges

\* A result has been handled.
LEMMA HandledIs ==
    ASSUME NEW r \in Requests, NEW o, NEW c, NEW h, NEW h2, NEW p, NEW k, ContextInv(o, h),
           o.graph \in Handlers[r], CurrentInv(o), Hears(o, c, h2, p, k)
    PROVE  /\ ContextInv(c, h2) /\ c.graph \in Handlers[r] /\ CurrentInv(c)
           /\ Asked(r, c) = Asked(r, o) \ {<<r, p, k>>}
           /\ Running(r, c) = Running(r, o) \ {<<r, p>>}
<1>1. /\ ContextInv(c, h2) /\ c.graph = o.graph /\ c.current = o.current
      /\ Out(c) = Out(o) \ {<<p, k>>} /\ Handed(c) = Handed(o) \ {p}
  BY DEF Hears
<1>2. CurrentInv(c)
  BY <1>1, SameCurrent DEF SameOrders
<1>3. \A w \in Out(o) : w = <<w[1], w[2]>>
  BY AskedIs DEF Out
<1>4. Asked(r, c) = Asked(r, o) \ {<<r, p, k>>}
  <2>1. \A w \in Out(o) : <<r, w[1], w[2]>> = <<r, p, k>> <=> w = <<p, k>>
    BY <1>3
  <2>2. Asked(r, c) = {<<r, w[1], w[2]>> : w \in Out(o) \ {<<p, k>>}}
    BY <1>1 DEF Asked
  <2> QED BY <2>1, <2>2 DEF Asked
<1>5. Running(r, c) = Running(r, o) \ {<<r, p>>}
  BY <1>1 DEF Running
<1> QED BY <1>1, <1>2, <1>4, <1>5

\* An answer leaves the ring.
LEMMA AnswerTaken ==
    ASSUME LoopInv, rx # <<>>, Len(Head(rx)) = 3, rx' = Tail(rx), UNCHANGED outside,
           Known' = Known
    PROVE  /\ Head(rx) \in EgressIds /\ Head(rx) \in InRing
           /\ RxInv' /\ WayInv' /\ Away' = Away \ {Head(rx)}
<1> DEFINE e == Head(rx)
<1>1. RxInv /\ WayInv /\ transit' = transit /\ lost' = lost
  BY DEF LoopInv, outside
<1>2. /\ rx' \in Seq(Messages) /\ InRing = InRing' \cup {e} /\ e \in InRing
      /\ IsInjective(rx') /\ e \notin InRing'
  BY <1>1, PopIs DEF RxInv, InRing
<1>3. e \in EgressIds
  <2>1. e \in EgressIds \/ \E q \in Requests \ Known : e = <<q>>
    BY <1>1, <1>2 DEF RxInv
  <2>2. \A q : Len(<<q>>) # 3
    BY OneMessage
  <2> HIDE DEF e
  <2>3. Len(e) = 3
    BY DEF e
  <2> QED BY <2>1, <2>2, <2>3
<1> HIDE DEF e
<1>4. RxInv' /\ WayInv'
  BY <1>1, <1>2 DEF RxInv, WayInv
<1>5. Away' = Away \ {e}
  BY <1>1, <1>2 DEF Away, WayInv
<1> QED BY <1>2, <1>3, <1>4, <1>5 DEF e

\* An answer comes in for a request that is not active any more.
LEMMA AnswerIgnored ==
    ASSUME LoopInv, NEW e \in EgressIds, e \notin egress,
           e \in Away, RxInv', WayInv', Away' = Away \ {e},
           pc' = "collect", pc = "poll", turn = None, turn' = None, egress' = egress \ {e},
           UNCHANGED <<contexts, active, replies, heard, pool>>
    PROVE  LoopInv'
<1>1. /\ PhaseInv /\ PoolInv /\ KnownInv /\ EnginesInv /\ RepliesInv /\ LinksInv
  BY DEF LoopInv
<1>2. /\ contexts' = contexts /\ active' = active /\ egress' = egress /\ replies' = replies
      /\ heard' = heard /\ futures' = futures /\ returned' = returned /\ batch' = batch
      /\ Known' = Known
  BY DEF pool, Known
<1>3. PhaseInv' /\ PoolInv' /\ KnownInv' /\ EnginesInv' /\ RepliesInv'
  BY <1>1, <1>2 DEF PhaseInv, PoolInv, KnownInv, EnginesInv, RepliesInv
<1>4. e[1] \notin active
  <2>1. SUFFICES ASSUME e[1] \in active PROVE FALSE
    OBVIOUS
  <2>2. PICK r \in active : r = e[1]
    BY <2>1
  <2>3. e \in Of(Away, r)
    BY <2>2, IdIs DEF Of
  <2>4. e \in Of(egress, r)
    BY <1>1, <2>3 DEF LinksInv
  <2> QED BY <2>4 DEF Of
<1>5. \A q \in active : Of(Away', q) = Of(Away, q)
  BY <1>4 DEF Of
<1>6. \A q : Of(Away', q) \subseteq Of(Away, q)
  BY DEF Of
<1>7. LinksInv'
  BY <1>1, <1>2, <1>5, <1>6 DEF LinksInv
<1> QED BY <1>3, <1>7 DEF LoopInv

\* An answer comes in.
LEMMA ResponseHandled ==
    ASSUME LoopInv, HandleEgressResponse
    PROVE  LoopInv'
<1>1. PhaseInv /\ PoolInv /\ KnownInv /\ EnginesInv /\ LinksInv
  BY DEF LoopInv
<1>2. PICK e : e = Head(rx)
  OBVIOUS
<1>3. PICK r : r = e[1]
  OBVIOUS
<1>4. /\ pc = "poll" /\ turn = None /\ rx # <<>> /\ Len(e) = 3 /\ rx' = Tail(rx)
      /\ UNCHANGED <<outside, active, pool, replies>>
  BY <1>2 DEF HandleEgressResponse
<1>5. PICK outcome \in {"ok", "bad"} :
        LET known == e \in egress /\ r \in active
        IN  /\ IF known THEN SetContext(r, OnEgressResult(contexts[r], e[2], e[3], outcome))
                        ELSE UNCHANGED contexts
            /\ heard' = [heard EXCEPT ![r] = IF known THEN @ \cup {<<e[2], e[3], outcome>>}
                                                      ELSE @]
            /\ turn' = IF known THEN r ELSE None
            /\ pc' = IF known THEN pc ELSE AfterHandler
            /\ egress' = egress \ {e}
  BY <1>2, <1>3 DEF HandleEgressResponse
<1>6. CASE ~(e \in egress /\ r \in active)
  <2>1. e \notin egress
    BY <1>1, <1>3, <1>6 DEF LinksInv
  <2>2. /\ contexts' = contexts /\ turn' = None /\ pc' = "collect" /\ egress' = egress \ {e}
        /\ heard' = [heard EXCEPT ![r] = heard[r]]
    BY <1>4, <1>5, <1>6 DEF AfterHandler
  <2>3. heard' = heard
    BY <1>1, <2>2 DEF KnownInv
  <2>4. Known' = Known
    BY <2>2 DEF Known
  <2>5. e \in EgressIds /\ e \in InRing /\ RxInv' /\ WayInv' /\ Away' = Away \ {e}
    BY <1>2, <1>4, <2>4, AnswerTaken
  <2>6. e \in Away /\ UNCHANGED <<contexts, active, replies, heard, pool>>
    BY <1>4, <2>2, <2>3, <2>5 DEF Away
  <2> QED BY <1>4, <2>1, <2>2, <2>5, <2>6, AnswerIgnored
<1>7. CASE e \in egress /\ r \in active
  <2>1. PICK o : o = contexts[r]
    OBVIOUS
  <2>2. PICK g : g = heard[r]
    OBVIOUS
  <2>3. PICK c : c = OnEgressResult(o, e[2], e[3], outcome)
    OBVIOUS
  <2>4. PICK h : h = g \cup {<<e[2], e[3], outcome>>}
    OBVIOUS
  <2>5. /\ SetContext(r, c) /\ heard' = [heard EXCEPT ![r] = h]
        /\ turn' = r /\ pc' = pc /\ egress' = egress \ {e}
    BY <1>5, <1>7, <2>1, <2>2, <2>3, <2>4
  <2>6. /\ r \in Requests /\ r \in Known /\ replies[r] = <<>> /\ r # None
        /\ o.graph \in Handlers[r] /\ ContextInv(o, g) /\ CurrentInv(o) /\ Quiet(o)
        /\ Of(egress, r) = Asked(r, o) /\ Of(Away, r) = Asked(r, o)
        /\ Fut(ToSet(futures), r) = Running(r, o)
    BY <1>4, <1>7, <2>1, <2>2, ActiveIs
  <2>7. Known' = Known
    BY <2>5, <2>6, SetContextIs
  <2>8. e \in EgressIds /\ e \in InRing /\ RxInv' /\ WayInv' /\ Away' = Away \ {e}
    BY <1>2, <1>4, <2>7, AnswerTaken
  <2>9. PICK p, k : e = <<r, p, k>> /\ p = e[2] /\ k = e[3]
    BY <1>3, <2>8, IdIs
  <2>10. <<p, k>> \in o.waiting
    <3>1. e \in Asked(r, o)
      BY <1>3, <1>4, <1>7, <2>6 DEF Of
    <3>2. <<p, k>> \in Out(o)
      BY <2>6, <2>9, <3>1, AskedIs
    <3> QED BY <3>2 DEF Out
  <2>11. outcome \in Outcomes
    BY DEF Outcomes
  <2>12. Hears(o, c, h, p, k)
    BY <2>3, <2>4, <2>6, <2>9, <2>10, <2>11, EgressResult
  <2>13. /\ ContextInv(c, h) /\ c.graph \in Handlers[r] /\ CurrentInv(c)
         /\ Asked(r, c) = Asked(r, o) \ {e} /\ Running(r, c) = Running(r, o) \ {<<r, p>>}
    BY <2>6, <2>9, <2>12, HandledIs
  <2>14. Running(r, c) = Running(r, o)
    <3>1. p \notin Handed(o)
      <4>1. p \in Leaves(o.graph) /\ IsGraph(o.graph) /\ IsDue(o.graph, o.state, g, p, k)
            /\ k \in {1, 2}
        <5>1. IsGraph(o.graph) /\ WaitingInv(o, g)
          BY <2>6 DEF ContextInv, LeavesInv
        <5>2. p \in Leaves(o.graph) /\ k \in {1, 2}
          BY <2>10, <5>1, WaitingDue
        <5> QED BY <2>10, <5>1, <5>2, WaitingDue
      <4>2. o.graph[p] # "internal"
        BY <4>1 DEF IsDue
      <4> QED BY <4>2 DEF Handed
    <3>2. <<r, p>> \notin Running(r, o)
      BY <3>1 DEF Running
    <3> QED BY <2>13, <3>2
  <2>15. /\ Of(egress', r) = Asked(r, c) /\ Of(Away', r) = Asked(r, c)
    <3>1. \A A : Of(A \ {e}, r) = Of(A, r) \ {e}
      BY DEF Of
    <3> QED BY <2>5, <2>6, <2>8, <2>13, <3>1
  <2>16. \A q \in Requests \ {r} : Of(egress', q) = Of(egress, q) /\ Of(Away', q) = Of(Away, q)
    <3>1. \A A, q : q # r => Of(A \ {e}, q) = Of(A, q)
      BY <1>3 DEF Of
    <3> QED BY <2>5, <2>8, <3>1
  <2>17. futures' = futures /\ batch' = batch /\ returned' = returned /\ active' = active
         /\ replies' = replies
    BY <1>4 DEF pool
  <2>18. PhaseInv' /\ PoolInv' /\ egress' \subseteq EgressIds
    BY <1>1, <1>4, <1>7, <2>5, <2>17 DEF PhaseInv, PoolInv, KnownInv
  <2>19. /\ active' = active \cup {r} /\ pc # "crashed" /\ pc' # "crashed" /\ turn \in {None, r}
         /\ \A q \in Requests : Fut(ToSet(futures'), q) = Fut(ToSet(futures), q)
         /\ Fut(ToSet(futures'), r) = Running(r, c)
         /\ (\A x \in egress' : x \in egress) /\ \A f \in ToSet(futures') : f \in ToSet(futures)
    BY <1>4, <1>7, <2>5, <2>6, <2>14, <2>17
  <2>20. ForRequest(r, c, h)
    BY <2>5, <2>6, <2>13, <2>15, <2>16, <2>17, <2>19 DEF ForRequest
  <2> QED BY <2>6, <2>8, <2>18, <2>20, ContextChanges
<1> QED BY <1>6, <1>7

\* The first future of the batch.
LEMMA InternalHandled ==
    ASSUME LoopInv, HandleInternalResult
    PROVE  LoopInv'
<1>1. PhaseInv /\ RxInv /\ WayInv /\ PoolInv /\ KnownInv /\ EnginesInv /\ LinksInv
  BY DEF LoopInv
<1>2. /\ pc = "futures" /\ turn = None /\ rx' = rx /\ transit' = transit /\ lost' = lost
      /\ active' = active /\ egress' = egress /\ replies' = replies
  BY DEF HandleInternalResult, outside
<1>3. PICK i \in DOMAIN futures, v \in returned :
        LET f == futures[i]
            r == f[1]
            known == r \in active
        IN  /\ f \in batch /\ v[1] = f
            /\ IF known THEN SetContext(r, OnInternalResult(contexts[r], f[2], v[2]))
                        ELSE UNCHANGED contexts
            /\ heard' = [heard EXCEPT ![r] = IF known THEN @ \cup {<<f[2], 0, v[2]>>} ELSE @]
            /\ futures' = RemoveAt(futures, i)
            /\ returned' = returned \ {v} /\ batch' = batch \ {f}
            /\ turn' = IF known THEN r ELSE None
            /\ pc' = IF known \/ batch' # {} THEN pc ELSE "finalize"
  BY DEF HandleInternalResult
<1>4. PICK f : f = futures[i]
  OBVIOUS
<1>5. f \in ToSet(futures) /\ f \in Functions /\ f = <<f[1], f[2]>>
  <2>1. f \in ToSet(futures)
    BY <1>4 DEF ToSet
  <2>2. ToSet(futures) \subseteq Functions
    BY <1>1, ToSetIs DEF PoolInv
  <2> QED BY <2>1, <2>2 DEF Functions
<1>6. PICK r \in active : r = f[1]
  BY <1>1, <1>5 DEF LinksInv
<1>7. PICK p, outcome : p = f[2] /\ outcome = v[2]
  OBVIOUS
<1>8. PICK o : o = contexts[r]
  OBVIOUS
<1>9. PICK g : g = heard[r]
  OBVIOUS
<1>10. PICK c : c = OnInternalResult(o, p, outcome)
  OBVIOUS
<1>11. PICK h : h = g \cup {<<p, 0, outcome>>}
  OBVIOUS
<1>12. /\ SetContext(r, c) /\ heard' = [heard EXCEPT ![r] = h]
       /\ futures' = RemoveAt(futures, i) /\ returned' = returned \ {v}
       /\ batch' = batch \ {f} /\ turn' = r /\ pc' = pc
  BY <1>3, <1>4, <1>6, <1>7, <1>8, <1>9, <1>10, <1>11
<1>13. /\ r \in Requests /\ r \in Known /\ replies[r] = <<>> /\ r # None
       /\ o.graph \in Handlers[r] /\ ContextInv(o, g) /\ CurrentInv(o) /\ Quiet(o)
       /\ Of(egress, r) = Asked(r, o) /\ Of(Away, r) = Asked(r, o)
       /\ Fut(ToSet(futures), r) = Running(r, o)
  BY <1>2, <1>6, <1>8, <1>9, ActiveIs
<1>14. f = <<r, p>> /\ p \in Handed(o) /\ outcome \in Outcomes
  <2>1. f = <<r, p>>
    BY <1>5, <1>6, <1>7
  <2>2. f \in Running(r, o)
    BY <1>5, <1>6, <1>13 DEF Fut
  <2>3. PICK q \in Handed(o) : f = <<r, q>>
    BY <2>2 DEF Running
  <2>4. p = q
    BY <2>1, <2>3
  <2>5. outcome \in Outcomes
    BY <1>1, <1>7 DEF PoolInv
  <2> QED BY <2>1, <2>3, <2>4, <2>5
<1>15. Hears(o, c, h, p, 0)
  BY <1>10, <1>11, <1>13, <1>14, InternalResult
<1>16. /\ ContextInv(c, h) /\ c.graph \in Handlers[r] /\ CurrentInv(c)
       /\ Asked(r, c) = Asked(r, o) \ {<<r, p, 0>>} /\ Running(r, c) = Running(r, o) \ {f}
  BY <1>13, <1>14, <1>15, HandledIs
<1>17. Asked(r, c) = Asked(r, o)
  <2>1. Asked(r, o) \subseteq EgressIds
    BY <1>13, AskedIs
  <2>2. <<r, p, 0>> \notin EgressIds
    BY DEF EgressIds
  <2> QED BY <1>16, <2>1, <2>2
<1>18. /\ futures' \in Seq(Functions) /\ IsInjective(futures')
       /\ ToSet(futures') = ToSet(futures) \ {f}
  BY <1>1, <1>4, <1>12, RemoveIs DEF PoolInv
<1>19. /\ Fut(ToSet(futures'), r) = Running(r, c)
       /\ \A q \in Requests \ {r} : Fut(ToSet(futures'), q) = Fut(ToSet(futures), q)
  BY <1>6, <1>13, <1>16, <1>18 DEF Fut
<1>20. InRing' = InRing /\ Away' = Away /\ Known' = Known
  BY <1>2, <1>12, <1>13, SetContextIs DEF InRing, Away
<1>21. PhaseInv' /\ RxInv' /\ WayInv' /\ PoolInv' /\ egress' \subseteq EgressIds
  BY <1>1, <1>2, <1>6, <1>12, <1>18, <1>20
     DEF PhaseInv, RxInv, WayInv, PoolInv, KnownInv
<1>22. /\ active' = active \cup {r} /\ pc # "crashed" /\ pc' # "crashed" /\ turn \in {None, r}
       /\ \A q \in Requests : Of(egress', q) = Of(egress, q) /\ Of(Away', q) = Of(Away, q)
       /\ Of(egress', r) = Asked(r, c) /\ Of(Away', r) = Asked(r, c)
       /\ (\A x \in egress' : x \in egress) /\ \A x \in ToSet(futures') : x \in ToSet(futures)
  BY <1>2, <1>6, <1>12, <1>13, <1>17, <1>18, <1>20
<1>23. ForRequest(r, c, h)
  BY <1>2, <1>12, <1>13, <1>16, <1>19, <1>22 DEF ForRequest
<1> QED BY <1>13, <1>21, <1>23, ContextChanges

\* A request that is done is answered.
LEMMA ContextFinalized ==
    ASSUME LoopInv, NEW r \in Requests, FinalizeContext(r)
    PROVE  LoopInv'
<1>1. /\ PhaseInv /\ RxInv /\ WayInv /\ PoolInv /\ KnownInv /\ EnginesInv /\ RepliesInv
      /\ LinksInv
  BY DEF LoopInv
<1>2. /\ pc = "finalize" /\ r \in active /\ contexts[r].done /\ active' = active \ {r}
      /\ egress' = {e \in egress : e[1] # r}
      /\ \E x \in Responses(r) : replies' = [replies EXCEPT ![r] = Append(@, x)]
      /\ pc' = pc /\ turn' = turn /\ rx' = rx /\ transit' = transit /\ lost' = lost
      /\ contexts' = contexts /\ futures' = futures /\ returned' = returned
      /\ batch' = batch /\ heard' = heard
  BY DEF FinalizeContext, outside, pool
<1>3. turn = None
  BY <1>1, <1>2 DEF PhaseInv
<1>4. PICK o : o = contexts[r]
  OBVIOUS
<1>5. PICK h : h = heard[r]
  OBVIOUS
<1>6. /\ r \in Known /\ replies[r] = <<>> /\ ContextInv(o, h) /\ o.done
      /\ Of(egress, r) = Asked(r, o) /\ Of(Away, r) = Asked(r, o)
      /\ Fut(ToSet(futures), r) = Running(r, o)
  BY <1>2, <1>4, <1>5, ActiveIs
<1>7. Of(Away, r) = {} /\ Fut(ToSet(futures), r) = {}
  BY <1>6, DoneAsksNothing
<1>8. /\ replies' \in [Requests -> Seq(Outcomes \cup {"dropped"})] /\ replies'[r] \in RepliesOf(o)
      /\ \A q \in Requests \ {r} : replies'[q] = replies[q]
  <2>1. o.wsgi \in Outcomes
    BY <1>6 DEF ContextInv, ContextsOf
  <2>2. PICK x \in {o.wsgi, "dropped"} : replies' = [replies EXCEPT ![r] = Append(@, x)]
    BY <1>2, <1>4 DEF Responses
  <2>3. <<x>> \in Seq(Outcomes \cup {"dropped"}) /\ Append(<<>>, x) = <<x>>
    BY <2>1
  <2>4. replies' = [replies EXCEPT ![r] = <<x>>] /\ <<x>> \in RepliesOf(o)
    BY <1>6, <2>2, <2>3 DEF RepliesOf
  <2> QED BY <1>1, <2>3, <2>4 DEF RepliesInv
<1>9. /\ Known' = Known /\ InRing' = InRing /\ Away' = Away
  BY <1>2 DEF Known, InRing, Away
<1>10. PhaseInv' /\ RxInv' /\ WayInv' /\ PoolInv' /\ KnownInv'
  BY <1>1, <1>2, <1>3, <1>9 DEF PhaseInv, RxInv, WayInv, PoolInv, KnownInv
<1>11. EnginesInv'
  BY <1>1, <1>2, <1>9 DEF EnginesInv
<1>12. RepliesInv'
  <2>1. ASSUME NEW q \in Requests, replies'[q] # <<>>
        PROVE  /\ q \in Known' \ active' /\ contexts'[q].done
               /\ replies'[q] \in RepliesOf(contexts'[q])
    BY <1>1, <1>2, <1>4, <1>6, <1>8, <1>9, <2>1 DEF RepliesInv
  <2>2. pc' # "crashed"
    BY <1>2
  <2> QED BY <1>8, <2>1, <2>2 DEF RepliesInv
<1>13. LinksInv'
  <2>1. \A q \in active' : Of(egress', q) = Of(egress, q)
    BY <1>2 DEF Of
  <2>2. \A q \in active' : /\ Of(egress', q) = Asked(q, contexts'[q])
                           /\ Of(Away', q) = Asked(q, contexts'[q])
                           /\ Fut(ToSet(futures'), q) = Running(q, contexts'[q])
    BY <1>1, <1>2, <1>9, <2>1 DEF LinksInv
  <2>3. \A e \in egress' : e[1] \in active'
    BY <1>1, <1>2 DEF LinksInv
  <2>4. \A f \in ToSet(futures') : f[1] \in active'
    BY <1>1, <1>2, <1>7 DEF LinksInv, Fut
  <2>5. ASSUME NEW q \in Requests, q \notin Known' \/ replies'[q] # <<>>
        PROVE  Of(Away', q) = {}
    BY <1>1, <1>7, <1>8, <1>9, <2>5 DEF LinksInv
  <2> QED BY <2>2, <2>3, <2>4, <2>5 DEF LinksInv
<1> QED BY <1>10, <1>11, <1>12, <1>13 DEF LoopInv

LEMMA LoopStarts ==
    ASSUME Init
    PROVE  LoopInv
<1>1. /\ pc = "poll" /\ turn = None /\ rx = <<>> /\ transit = {} /\ lost = {}
      /\ contexts = <<>> /\ active = {} /\ egress = {} /\ futures = <<>> /\ returned = {}
      /\ batch = {} /\ replies = [r \in Requests |-> <<>>] /\ heard = [r \in Requests |-> {}]
  BY DEF Init
<1>2. Known = {} /\ InRing = {} /\ Away = {} /\ ToSet(futures) = {}
  BY <1>1, EmptyIs DEF Known, InRing, Away
<1>3. PhaseInv /\ RxInv /\ PoolInv /\ KnownInv
  BY <1>1, <1>2, EmptyIs DEF PhaseInv, RxInv, PoolInv, KnownInv
<1>4. WayInv
  BY <1>1, <1>2, FS_EmptySet, EventLoopAssumption DEF WayInv
<1>5. EnginesInv
  BY <1>1, <1>2 DEF EnginesInv
<1>6. RepliesInv
  BY <1>1, EmptyIs DEF RepliesInv
<1>7. LinksInv
  BY <1>1, <1>2 DEF LinksInv, Of
<1> QED BY <1>3, <1>4, <1>5, <1>6, <1>7 DEF LoopInv

LEMMA LoopStep ==
    ASSUME LoopInv, [Next]_vars
    PROVE  LoopInv'
<1>1. CASE UNCHANGED vars
  <2>1. /\ UNCHANGED <<pc, turn, rx, transit, lost, contexts, active, egress>>
        /\ UNCHANGED <<futures, returned, batch, replies, heard>>
    BY <1>1 DEF vars, outside, pool
  <2>2. Known' = Known /\ InRing' = InRing /\ Away' = Away
    BY <2>1 DEF Known, InRing, Away
  <2> QED BY <2>1, <2>2 DEF LoopInv, PhaseInv, RxInv, WayInv, PoolInv, KnownInv, EnginesInv,
                            RepliesInv, LinksInv
<1>2. ASSUME HandleNewRequest PROVE LoopInv'
  BY <1>2, RequestStarts
<1>3. ASSUME HandleEgressResponse PROVE LoopInv'
  BY <1>3, ResponseHandled
<1>4. ASSUME PollEmpty \/ Collect \/ FinalizeEnd PROVE LoopInv'
  BY <1>4, LoopTurns
<1>5. ASSUME Advance PROVE LoopInv'
  BY <1>5, EngineAdvances
<1>6. ASSUME ExecuteActions PROVE LoopInv'
  BY <1>6, ActionsExecuted
<1>7. ASSUME SubmitRaises PROVE LoopInv'
  BY <1>7, LoopCrashes DEF SubmitRaises
<1>8. ASSUME HandleInternalResult PROVE LoopInv'
  BY <1>8, InternalHandled
<1>9. ASSUME NEW r \in Requests, FinalizeContext(r) PROVE LoopInv'
  BY <1>9, ContextFinalized
<1>10. ASSUME NEW e \in transit, ArriveAnswer(e) PROVE LoopInv'
  BY <1>10, AnswerArrives
<1>11. ASSUME FunctionReturns PROVE LoopInv'
  BY <1>11, FunctionRuns
<1>12. ASSUME NEW r \in Requests, ArriveRequest(r) PROVE LoopInv'
  BY <1>12, RequestArrives
<1>13. ASSUME NEW e \in transit, Lose(e) PROVE LoopInv'
  BY <1>13, AnswerLost
<1> QED BY <1>1, <1>2, <1>3, <1>4, <1>5, <1>6, <1>7, <1>8, <1>9, <1>10, <1>11, <1>12, <1>13
        DEF Next, Loop, Arrive

(***************************************************************************)
(* The theorems.                                                           *)
(***************************************************************************)

\* What the loop and the engines keep, whatever comes in and in whatever order: every
\* context is as its engine leaves it, and the tables, the pool and what is under way
\* agree with the contexts (server.py, run_forever() and ExecutionContext).
THEOREM LoopKeeps == Spec => []LoopInv
<1>1. Init => LoopInv
  BY LoopStarts
<1>2. LoopInv /\ [Next]_vars => LoopInv'
  BY LoopStep
<1> QED BY <1>1, <1>2, PTL DEF Spec

\* The variables of the loop and of every context have their types; in particular no
\* order goes past its last step and no step sends a third request.
THEOREM LoopTypes == Spec => []TypeOK
<1>1. LoopInv => TypeOK
  <2> SUFFICES ASSUME LoopInv PROVE TypeOK
    OBVIOUS
  <2>1. /\ PhaseInv /\ RxInv /\ WayInv /\ PoolInv /\ KnownInv /\ EnginesInv /\ RepliesInv
    BY DEF LoopInv
  <2>2. turn \in Requests \cup {None}
    BY <2>1 DEF PhaseInv, KnownInv
  <2>3. rx \in Seq(EgressIds \cup {<<r>> : r \in Requests})
    BY <2>1 DEF RxInv, Messages
  <2>4. ASSUME NEW r \in Known
        PROVE  LET c == contexts[r]
               IN  /\ c.graph \in Handlers[r]
                   /\ c.state \in [DOMAIN c.graph -> NodeStates]
                   /\ \A p \in DOMAIN c.graph : c.current[p] \in 0 .. NumSteps(c.graph, p)
                   /\ c.waiting \subseteq Leaves(c.graph) \X {1, 2}
                   /\ c.done \in BOOLEAN /\ c.wsgi \in Outcomes
    <3>1. PICK c : c = contexts[r]
      OBVIOUS
    <3>2. PICK h : h = heard[r]
      OBVIOUS
    <3>3. c.graph \in Handlers[r] /\ ContextInv(c, h) /\ CurrentInv(c)
      BY <2>1, <3>1, <3>2 DEF EnginesInv
    <3>4. c \in ContextsOf(c.graph) /\ WaitingInv(c, h)
      BY <3>3 DEF ContextInv, LeavesInv
    <3>5. c.waiting \subseteq Leaves(c.graph) \X {1, 2}
      BY <3>4, WaitingDue
    <3>6. c.state \in [DOMAIN c.graph -> NodeStates] /\ c.done \in BOOLEAN /\ c.wsgi \in Outcomes
      BY <3>4 DEF ContextsOf
    <3> QED BY <3>1, <3>3, <3>5, <3>6 DEF CurrentInv
  <2> QED BY <2>1, <2>2, <2>3, <2>4 DEF TypeOK, PhaseInv, WayInv, PoolInv, KnownInv, RepliesInv
<1> QED BY <1>1, LoopKeeps, PTL

\* In whatever order results arrive and however deep the graph is, the engine has every
\* node where the meaning of the graph puts it, stores one result for each step that has
\* ended, and is done exactly when the root has ended (_execute_node(),
\* _propagate_completion(), on_egress_result(), on_internal_result()).
THEOREM EngineIsFaithful == Spec => []EngineAgrees
<1>1. LoopInv => EngineAgrees
  <2> SUFFICES ASSUME LoopInv, NEW r \in Requests, Settled(r)
               PROVE  LET c == contexts[r]
                      IN  /\ \A p \in DOMAIN c.graph :
                                c.state[p] = Meaning(c.graph, c.state, heard[r], p)
                          /\ c.done <=> c.graph = NoGraph \/ Ended(c, <<>>)
                          /\ {c.results[i].step : i \in DOMAIN c.results} =
                                {p \in Leaves(c.graph) : Ended(c, p)}
                          /\ \A i, j \in DOMAIN c.results :
                                c.results[i].step = c.results[j].step => i = j
    BY DEF EngineAgrees
  <2>1. PICK c : c = contexts[r]
    OBVIOUS
  <2>2. PICK h : h = heard[r]
    OBVIOUS
  <2>3. ContextInv(c, h) /\ c.calls = <<>>
    BY <2>1, <2>2 DEF LoopInv, EnginesInv, Settled
  <2>4. \A p \in DOMAIN c.graph : c.state[p] = Meaning(c.graph, c.state, h, p)
    BY <2>3, NodeMeans
  <2>5. /\ c.done <=> c.graph = NoGraph \/ Ended(c, <<>>)
        /\ {c.results[i].step : i \in DOMAIN c.results} = {p \in Leaves(c.graph) : Ended(c, p)}
        /\ \A i, j \in DOMAIN c.results : c.results[i].step = c.results[j].step => i = j
    BY <2>3, DoneAndResults
  <2> QED BY <2>1, <2>2, <2>4, <2>5
<1> QED BY <1>1, LoopKeeps, PTL

\* What is in egress_to_ingress, in _egress_to_step, under way and in the pool for an
\* active request is what its graph has due, each part of it once.
THEOREM NothingForgotten == Spec => []OutstandingIsDue
<1>1. LoopInv => OutstandingIsDue
  <2> SUFFICES ASSUME LoopInv, NEW r \in active \ {turn}
               PROVE  LET c    == contexts[r]
                          due  == Due(c.graph, c.state, heard[r])
                          sent == {<<r, d[1], d[2]>> : d \in {x \in due : x[2] > 0}}
                      IN  /\ {e \in egress : e[1] = r} = sent
                          /\ {<<r, w[1], w[2]>> : w \in c.waiting} = sent
                          /\ {e \in InRing \cup transit \cup lost :
                                Len(e) = 3 /\ e[1] = r} = sent
                          /\ {f \in ToSet(futures) : f[1] = r} =
                                {<<r, x[1]>> : x \in {y \in due : y[2] = 0}}
    BY DEF OutstandingIsDue
  <2>1. PICK c : c = contexts[r]
    OBVIOUS
  <2>2. PICK h : h = heard[r]
    OBVIOUS
  <2>3. /\ ContextInv(c, h) /\ Quiet(c) /\ Of(egress, r) = Asked(r, c)
        /\ Of(Away, r) = Asked(r, c) /\ Fut(ToSet(futures), r) = Running(r, c)
    BY <2>1, <2>2, ActiveIs
  <2> DEFINE due == Due(c.graph, c.state, h)
  <2>4. /\ c.waiting = {x \in due : x[2] > 0} /\ Out(c) = c.waiting
        /\ Handed(c) = {d[1] : d \in {x \in due : x[2] = 0}}
    BY <2>3, DueOf
  <2> HIDE DEF due
  <2>5. {e \in egress : e[1] = r} = Of(egress, r)
    <3>1. \A e \in egress : Len(e) = 3
      BY IdIs DEF LoopInv, KnownInv
    <3> QED BY <3>1 DEF Of
  <2>6. Asked(r, c) = {<<r, d[1], d[2]>> : d \in {x \in due : x[2] > 0}}
    BY <2>4 DEF Asked
  <2>7. Running(r, c) = {<<r, x[1]>> : x \in {y \in due : y[2] = 0}}
    <3> DEFINE D == {x \in due : x[2] = 0}
    <3>1. Handed(c) = {d[1] : d \in D}
      BY <2>4
    <3> HIDE DEF D
    <3>2. Running(r, c) = {<<r, x[1]>> : x \in D}
      BY <3>1 DEF Running
    <3> QED BY <3>2 DEF D
  <2>8. {<<r, w[1], w[2]>> : w \in c.waiting} = Asked(r, c)
    BY <2>4 DEF Asked
  <2>9. /\ {e \in egress : e[1] = r} = {<<r, d[1], d[2]>> : d \in {x \in due : x[2] > 0}}
        /\ {<<r, w[1], w[2]>> : w \in c.waiting} =
             {<<r, d[1], d[2]>> : d \in {x \in due : x[2] > 0}}
        /\ {e \in InRing \cup transit \cup lost : Len(e) = 3 /\ e[1] = r} =
             {<<r, d[1], d[2]>> : d \in {x \in due : x[2] > 0}}
        /\ {f \in ToSet(futures) : f[1] = r} = {<<r, x[1]>> : x \in {y \in due : y[2] = 0}}
    BY <2>3, <2>5, <2>6, <2>7, <2>8 DEF Of, Away, Fut
  <2> QED BY <2>1, <2>2, <2>9 DEF due
<1> QED BY <1>1, LoopKeeps, PTL

\* No message and no function is in two places: nothing is sent or submitted twice.
THEOREM NothingTwice == Spec => []OutstandingOnce
<1>1. LoopInv => OutstandingOnce
  BY DEF LoopInv, RxInv, WayInv, PoolInv, OutstandingOnce
<1> QED BY <1>1, LoopKeeps, PTL

\* A request gets one response, written or dropped, and nothing of it is left behind
\* (_finalize_done_contexts()).
THEOREM AnswersAreFinal == Spec => []AnswerIsFinal
<1>1. LoopInv => AnswerIsFinal
  <2> SUFFICES ASSUME LoopInv, NEW r \in Requests, replies[r] # <<>>
               PROVE  /\ Len(replies[r]) = 1
                      /\ \A e \in egress \cup transit \cup lost \cup InRing : e[1] # r
                      /\ \A i \in DOMAIN futures : futures[i][1] # r
    BY DEF AnswerIsFinal
  <2>1. RxInv /\ WayInv /\ RepliesInv /\ LinksInv
    BY DEF LoopInv
  <2>2. r \in Known /\ r \notin active /\ replies[r] \in RepliesOf(contexts[r])
    BY <2>1 DEF RepliesInv
  <2>3. Len(replies[r]) = 1
    BY <2>2 DEF RepliesOf
  <2>4. \A e \in egress : e[1] # r
    BY <2>1, <2>2 DEF LinksInv
  <2>5. ASSUME NEW e \in Away, e[1] = r PROVE FALSE
    <3>1. e \notin EgressIds
      <4>1. Of(Away, r) = {}
        BY <2>1 DEF LinksInv
      <4> QED BY <2>5, <4>1, IdIs DEF Of
    <3>2. PICK q \in Requests \ Known : e = <<q>>
      BY <2>1, <2>5, <3>1 DEF RxInv, WayInv, Away
    <3>3. q = r
      BY <2>5, <3>2
    <3> QED BY <2>2, <3>2, <3>3
  <2>6. \A i \in DOMAIN futures : futures[i][1] # r
    <3>1. \A i \in DOMAIN futures : futures[i] \in ToSet(futures)
      BY DEF ToSet
    <3> QED BY <2>1, <2>2, <3>1 DEF LinksInv
  <2> QED BY <2>3, <2>4, <2>5, <2>6 DEF Away
<1> QED BY <1>1, LoopKeeps, PTL

\* A failure that no pipe is above is in the response (_propagate_completion(), and the
\* DONE action, which takes the result that was stored last).
THEOREM FailuresReported == Spec => []FailureReported
<1>1. LoopInv => FailureReported
  <2> SUFFICES ASSUME LoopInv, NEW r \in Requests, replies[r] # <<>>,
                      NEW p \in Leaves(contexts[r].graph), contexts[r].state[p] = "error",
                      \A q \in DOMAIN contexts[r].graph :
                            IsPrefix(q, p) => contexts[r].graph[q] # "pipe"
               PROVE  replies[r] # <<"ok">>
    BY DEF FailureReported
  <2>1. RepliesInv /\ EnginesInv
    BY DEF LoopInv
  <2>2. PICK c : c = contexts[r]
    OBVIOUS
  <2>3. PICK h : h = heard[r]
    OBVIOUS
  <2>4. r \in Known /\ c.done /\ replies[r] \in RepliesOf(c) /\ ContextInv(c, h)
    BY <2>1, <2>2, <2>3 DEF RepliesInv, EnginesInv
  <2>5. /\ p \in Leaves(c.graph) /\ c.state[p] = "error"
        /\ \A q \in DOMAIN c.graph : IsPrefix(q, p) => c.graph[q] # "pipe"
    BY <2>2
  <2>6. c.wsgi # "ok"
    BY <2>4, <2>5, FailureTold
  <2>7. \A x : <<x>>[1] = x
    OBVIOUS
  <2> QED BY <2>4, <2>6, <2>7 DEF RepliesOf
<1> QED BY <1>1, LoopKeeps, PTL

(***************************************************************************)
(* A graph has one meaning: no more than one labelling of its nodes agrees *)
(* with itself.                                                            *)
(***************************************************************************)

\* A graph is finite: of some of its nodes, there is one such that none of them is deeper,
Deep(g, p) == {x \in DOMAIN g : Len(x) >= Len(p)}

\* and one such that none of them is less deep or an earlier step of the same container.
IsEarlier(x, p) ==
    Len(x) < Len(p) \/ (x # <<>> /\ p # <<>> /\ Front(x) = Front(p) /\ Last(x) < Last(p))
Early(g, p) == {x \in DOMAIN g : x = p \/ IsEarlier(x, p)}

\* Some subsets of a finite set, one of which has no other one in it.
LEMMA NoDescent ==
    ASSUME NEW S, IsFiniteSet(S), NEW T, T \subseteq SUBSET S, T # {}
    PROVE  \E A \in T : \A B \in T : B \subseteq A => B = A
<1>1. IsWellFoundedOn(StrictSubsetOrdering(S), FiniteSubsetsOf(S))
  BY FS_StrictSubsetOrderingWellFounded
<1>2. T \subseteq FiniteSubsetsOf(S)
  <2>1. ASSUME NEW A \in T PROVE A \in FiniteSubsetsOf(S)
    <3>1. A \in SUBSET S /\ IsFiniteSet(A)
      BY FS_Subset
    <3> QED BY <3>1 DEF FiniteSubsetsOf
  <2> QED BY <2>1
<1>3. PICK A \in T : \A B \in T : ~(<<B, A>> \in StrictSubsetOrdering(S))
  BY <1>1, <1>2, WFMin
<1>4. ASSUME NEW B \in T, B \subseteq A, B # A PROVE FALSE
  <2>1. <<B, A>> \in StrictSubsetOrdering(S)
    BY <1>4 DEF StrictSubsetOrdering
  <2> QED BY <1>3, <2>1
<1> QED BY <1>4

LEMMA Deepest ==
    ASSUME NEW g, IsGraph(g), NEW E, E \subseteq DOMAIN g, E # {}
    PROVE  \E p \in E : \A x \in E : Len(x) <= Len(p)
<1> DEFINE T == {Deep(g, p) : p \in E}
<1>1. IsFiniteSet(DOMAIN g) /\ T \subseteq SUBSET DOMAIN g /\ T # {}
  <2>1. PICK x \in E : TRUE
    OBVIOUS
  <2>2. Deep(g, x) \in T
    OBVIOUS
  <2>3. ASSUME NEW p \in E PROVE Deep(g, p) \subseteq DOMAIN g
    BY DEF Deep
  <2>4. T \subseteq SUBSET DOMAIN g
    BY <2>3
  <2> QED BY <2>2, <2>4 DEF IsGraph
<1>2. PICK A \in T : \A B \in T : B \subseteq A => B = A
  <2> HIDE DEF T
  <2> QED BY <1>1, NoDescent
<1>3. PICK p \in E : A = Deep(g, p)
  OBVIOUS
<1>4. ASSUME NEW x \in E, Len(x) > Len(p) PROVE FALSE
  <2>1. \A y \in DOMAIN g : Len(y) \in Nat
    BY NodeIs
  <2>2. Deep(g, x) \subseteq Deep(g, p) /\ p \in Deep(g, p) /\ p \notin Deep(g, x)
    BY <1>4, <2>1 DEF Deep
  <2> QED BY <1>2, <1>3, <2>2
<1>5. \A x \in E : Len(x) \in Nat
  BY NodeIs
<1> QED BY <1>4, <1>5

LEMMA Earliest ==
    ASSUME NEW g, IsGraph(g), NEW E, E \subseteq DOMAIN g, E # {}
    PROVE  \E p \in E : \A x \in E : ~IsEarlier(x, p)
<1> DEFINE T == {Early(g, p) : p \in E}
<1>1. IsFiniteSet(DOMAIN g) /\ T \subseteq SUBSET DOMAIN g /\ T # {}
  <2>1. PICK x \in E : TRUE
    OBVIOUS
  <2>2. Early(g, x) \in T
    OBVIOUS
  <2>3. ASSUME NEW p \in E PROVE Early(g, p) \subseteq DOMAIN g
    BY DEF Early
  <2>4. T \subseteq SUBSET DOMAIN g
    BY <2>3
  <2> QED BY <2>2, <2>4 DEF IsGraph
<1>2. PICK A \in T : \A B \in T : B \subseteq A => B = A
  <2> HIDE DEF T
  <2> QED BY <1>1, NoDescent
<1>3. PICK p \in E : A = Early(g, p)
  OBVIOUS
<1>4. ASSUME NEW x \in E, IsEarlier(x, p) PROVE FALSE
  <2>1. \A y \in DOMAIN g : Len(y) \in Nat
    BY NodeIs
  <2>2. \A y \in DOMAIN g \ {<<>>} : Last(y) \in Nat /\ Len(y) = Len(Front(y)) + 1
    <3>1. ASSUME NEW y \in DOMAIN g, y # <<>> PROVE Last(y) \in Nat /\ Len(y) = Len(Front(y)) + 1
      <4>1. Front(y) \in DOMAIN g /\ y \in Steps(g, Front(y)) /\ Len(Front(y)) = Len(y) - 1
        BY <3>1, NodeIs DEF Containers
      <4>2. Last(y) \in 1 .. NumSteps(g, Front(y)) /\ NumSteps(g, Front(y)) \in Nat
        BY <4>1, StepsAre
      <4> QED BY <2>1, <4>1, <4>2
    <3> QED BY <3>1
  <2>3. ASSUME NEW y \in DOMAIN g, IsEarlier(y, x) PROVE IsEarlier(y, p) /\ y # x
    <3>1. CASE Len(y) < Len(x)
      BY <1>4, <2>1, <2>2, <2>3, <3>1 DEF IsEarlier
    <3>2. CASE /\ y # <<>> /\ x # <<>> /\ Front(y) = Front(x) /\ Last(y) < Last(x)
      BY <1>4, <2>1, <2>2, <2>3, <3>2 DEF IsEarlier
    <3> QED BY <2>3, <3>1, <3>2 DEF IsEarlier
  <2>4. p # x /\ ~IsEarlier(p, x)
    BY <1>4, <2>1, <2>2 DEF IsEarlier
  <2>5. Early(g, x) \subseteq Early(g, p) /\ p \in Early(g, p) /\ p \notin Early(g, x)
    BY <1>4, <2>3, <2>4 DEF Early
  <2> QED BY <1>2, <1>3, <2>5
<1> QED BY <1>4

\* Two labellings that agree on the container of a step and on the steps before it reach it both,
\* or neither.
LEMMA SameReached ==
    ASSUME NEW g, IsGraph(g), NEW s \in [DOMAIN g -> NodeStates],
           NEW t \in [DOMAIN g -> NodeStates], NEW p \in DOMAIN g,
           p # <<>> => (s[Front(p)] = "pending" <=> t[Front(p)] = "pending"),
           \A x \in DOMAIN g : x # <<>> /\ p # <<>> /\ Front(x) = Front(p) /\ Last(x) < Last(p)
                                => s[x] = t[x]
    PROVE  Reached(g, s, p) <=> Reached(g, t, p)
<1>1. CASE p = <<>>
  BY <1>1 DEF Reached
<1>2. CASE p # <<>>
  <2>1. Front(p) \in DOMAIN g /\ p \in Steps(g, Front(p))
    BY <1>2, NodeIs DEF Containers
  <2>2. Last(p) \in 1 .. NumSteps(g, Front(p)) /\ NumSteps(g, Front(p)) \in Nat
    BY <2>1, StepsAre
  <2>3. ASSUME NEW i \in 1 .. Last(p) - 1
        PROVE  s[Append(Front(p), i)] = t[Append(Front(p), i)]
    <3>1. i \in 1 .. NumSteps(g, Front(p)) /\ i < Last(p) /\ i \in Nat
      BY <2>2
    <3>2. Append(Front(p), i) \in Steps(g, Front(p))
      <4>1. Steps(g, Front(p)) = {Append(Front(p), j) : j \in 1 .. NumSteps(g, Front(p))}
        BY <2>1, StepsAre
      <4> QED BY <3>1, <4>1
    <3>3. /\ Append(Front(p), i) \in DOMAIN g /\ Append(Front(p), i) # <<>>
          /\ Front(Append(Front(p), i)) = Front(p)
      BY <2>1, <3>2, StepsAre
    <3>4. Last(Append(Front(p), i)) = i
      BY <2>1, <3>1, StepsAre
    <3> QED BY <1>2, <3>1, <3>3, <3>4
  <2> QED BY <1>2, <2>3 DEF Reached
<1> QED BY <1>1, <1>2

\* Where two labellings that agree with their own meaning differ, and have both reached the
\* node, they differ at a step of it that both have reached.
LEMMA StepDiffers ==
    ASSUME NEW g, IsGraph(g), NEW h, NEW s \in [DOMAIN g -> NodeStates],
           NEW t \in [DOMAIN g -> NodeStates],
           \A x \in DOMAIN g : s[x] = Meaning(g, s, h, x),
           \A x \in DOMAIN g : t[x] = Meaning(g, t, h, x),
           NEW p \in DOMAIN g, s[p] # t[p], Reached(g, s, p), Reached(g, t, p)
    PROVE  \E x \in Steps(g, p) : s[x] # t[x] /\ Reached(g, s, x) /\ Reached(g, t, x)
<1> DEFINE D == {x \in Steps(g, p) : s[x] # t[x]}
<1>1. p \in Containers(g)
  <2>1. ASSUME p \in Leaves(g) PROVE FALSE
    BY <2>1 DEF Meaning
  <2> QED BY <2>1 DEF Containers
<1>2. s[p] = ContainerMeaning(g, s, p) /\ t[p] = ContainerMeaning(g, t, p)
  BY <1>1 DEF Meaning, Containers
<1>3. D # {}
  <2>1. ASSUME \A x \in Steps(g, p) : s[x] = t[x]
        PROVE  ContainerMeaning(g, s, p) = ContainerMeaning(g, t, p)
    BY <2>1 DEF ContainerMeaning
  <2> QED BY <1>2, <2>1
<1>4. D \subseteq DOMAIN g /\ \A x \in D : x # <<>> /\ Front(x) = p
  BY StepsAre
<1>5. PICK x \in D : \A y \in D : ~IsEarlier(y, x)
  <2> HIDE DEF D
  <2> QED BY <1>3, <1>4, Earliest
<1>6. g[p] \in {"order", "pipe"}
  BY <1>1 DEF Containers, Leaves
<1>7. s[p] # "pending" /\ t[p] # "pending"
  BY <1>2, <1>6 DEF ContainerMeaning
<1>8. ASSUME NEW y \in DOMAIN g, y # <<>>, Front(y) = Front(x), Last(y) < Last(x)
      PROVE  s[y] = t[y]
  <2>1. y \in Steps(g, p) /\ IsEarlier(y, x)
    BY <1>4, <1>8 DEF Steps, IsEarlier
  <2> QED BY <1>5, <2>1
<1>9. Reached(g, s, x) <=> Reached(g, t, x)
  <2> HIDE DEF D
  <2> QED BY <1>4, <1>5, <1>7, <1>8, SameReached
<1>10. x \in DOMAIN g /\ s[x] # t[x]
  BY <1>4
<1>11. ~Reached(g, s, x) => s[x] = "pending"
  BY <1>10 DEF Meaning
<1>12. ~Reached(g, t, x) => t[x] = "pending"
  BY <1>10 DEF Meaning
<1> QED BY <1>9, <1>10, <1>11, <1>12

\* What the results that have come in mean for a graph is one thing only: the first node where
\* two labellings differ is reached in both, and then so is one below it, without end.
LEMMA OneMeaning ==
    ASSUME NEW g, IsGraph(g), NEW h, NEW s \in [DOMAIN g -> NodeStates],
           NEW t \in [DOMAIN g -> NodeStates],
           \A x \in DOMAIN g : s[x] = Meaning(g, s, h, x),
           \A x \in DOMAIN g : t[x] = Meaning(g, t, h, x)
    PROVE  s = t
<1> DEFINE D == {x \in DOMAIN g : s[x] # t[x]}
           E == {x \in D : Reached(g, s, x) /\ Reached(g, t, x)}
<1>1. ASSUME NEW p \in E PROVE \E x \in E : Len(x) > Len(p)
  <2>1. PICK x \in Steps(g, p) : s[x] # t[x] /\ Reached(g, s, x) /\ Reached(g, t, x)
    BY StepDiffers
  <2>2. x \in DOMAIN g /\ x # <<>> /\ Front(x) = p
    BY <2>1, StepsAre
  <2>3. Len(p) = Len(x) - 1 /\ Len(x) \in Nat
    BY <2>2, NodeIs
  <2> QED BY <2>1, <2>2, <2>3
<1>2. E = {}
  <2>1. ASSUME E # {} PROVE FALSE
    <3>1. E \subseteq DOMAIN g
      OBVIOUS
    <3>2. PICK p \in E : \A x \in E : Len(x) <= Len(p)
      <4> HIDE DEF E
      <4> QED BY <2>1, <3>1, Deepest
    <3>3. PICK x \in E : Len(x) > Len(p)
      BY <1>1
    <3>4. Len(x) \in Nat /\ Len(p) \in Nat
      BY NodeIs
    <3> QED BY <3>2, <3>3, <3>4
  <2> QED BY <2>1
<1>3. ASSUME D # {} PROVE FALSE
  <2>1. D \subseteq DOMAIN g
    OBVIOUS
  <2>2. PICK p \in D : \A x \in D : ~IsEarlier(x, p)
    <3> HIDE DEF D
    <3> QED BY <1>3, <2>1, Earliest
  <2>3. ASSUME NEW x \in DOMAIN g, IsEarlier(x, p) PROVE s[x] = t[x]
    BY <2>2, <2>3
  <2>4. p # <<>> => s[Front(p)] = t[Front(p)]
    <3>1. ASSUME p # <<>> PROVE Front(p) \in DOMAIN g /\ IsEarlier(Front(p), p)
      <4>1. Front(p) \in DOMAIN g /\ Len(Front(p)) = Len(p) - 1 /\ Len(p) \in Nat
        BY <3>1, NodeIs DEF Containers
      <4> QED BY <4>1 DEF IsEarlier
    <3> QED BY <2>3, <3>1
  <2>5. Reached(g, s, p) <=> Reached(g, t, p)
    <3>1. \A x \in DOMAIN g : x # <<>> /\ p # <<>> /\ Front(x) = Front(p) /\ Last(x) < Last(p)
                                => s[x] = t[x]
      BY <2>3 DEF IsEarlier
    <3> QED BY <2>4, <3>1, SameReached
  <2>6. p \in DOMAIN g /\ s[p] # t[p]
    OBVIOUS
  <2>7. (~Reached(g, s, p) => s[p] = "pending") /\ (~Reached(g, t, p) => t[p] = "pending")
    BY <2>6 DEF Meaning
  <2> QED BY <1>2, <2>5, <2>6, <2>7
<1> QED BY <1>3

\* Two requests with the same graph that have been told the same results, in whatever order,
\* are at the same place and wait for the same.
SameResultsSamePlace ==
    \A q, r \in Requests :
        LET c == contexts[q]
            d == contexts[r]
        IN  Settled(q) /\ Settled(r) /\ c.graph = d.graph /\ heard[q] = heard[r] =>
                c.state = d.state /\ c.waiting = d.waiting /\ c.done = d.done

\* What becomes of a request depends on its graph and the results of its steps, and neither on
\* the order in which these arrive nor on what other requests do (on_egress_result(),
\* on_internal_result(), _propagate_completion()).
THEOREM OrderDoesNotMatter == Spec => []SameResultsSamePlace
<1>1. LoopInv => SameResultsSamePlace
  <2> SUFFICES ASSUME LoopInv, NEW q \in Requests, NEW r \in Requests, Settled(q), Settled(r),
                      contexts[q].graph = contexts[r].graph, heard[q] = heard[r]
               PROVE  /\ contexts[q].state = contexts[r].state
                      /\ contexts[q].waiting = contexts[r].waiting
                      /\ contexts[q].done = contexts[r].done
    BY DEF SameResultsSamePlace
  <2>1. PICK c : c = contexts[q]
    OBVIOUS
  <2>2. PICK d : d = contexts[r]
    OBVIOUS
  <2>3. PICK h : h = heard[q] /\ h = heard[r]
    OBVIOUS
  <2>4. ContextInv(c, h) /\ c.calls = <<>> /\ c.graph \in Handlers[q]
    BY <2>1, <2>3 DEF LoopInv, EnginesInv, Settled
  <2>5. ContextInv(d, h) /\ d.calls = <<>> /\ d.graph = c.graph
    BY <2>1, <2>2, <2>3 DEF LoopInv, EnginesInv, Settled
  <2>6. PICK g : g = c.graph /\ g = d.graph
    BY <2>5
  <2>7. IsGraph(g)
    BY <2>4, <2>6, EventLoopAssumption
  <2>8. c.state \in [DOMAIN g -> NodeStates] /\ d.state \in [DOMAIN g -> NodeStates]
    BY <2>4, <2>5, <2>6 DEF ContextInv, ContextsOf
  <2>9. /\ \A p \in DOMAIN g : c.state[p] = Meaning(g, c.state, h, p)
        /\ \A p \in DOMAIN g : d.state[p] = Meaning(g, d.state, h, p)
    BY <2>4, <2>5, <2>6, NodeMeans
  <2>10. c.state = d.state
    BY <2>7, <2>8, <2>9, OneMeaning
  <2>11. /\ c.done <=> c.graph = NoGraph \/ Ended(c, <<>>)
         /\ d.done <=> d.graph = NoGraph \/ Ended(d, <<>>)
    BY <2>4, <2>5, DoneAndResults
  <2>12. c.done \in BOOLEAN /\ d.done \in BOOLEAN
    BY <2>4, <2>5 DEF ContextInv, ContextsOf
  <2>13. c.done <=> d.done
    BY <2>6, <2>10, <2>11 DEF Ended
  <2>14. c.done = d.done
    BY <2>12, <2>13
  <2>15. c.waiting = d.waiting
    BY <2>4, <2>5, <2>6, <2>10 DEF ContextInv, LeavesInv, WaitingInv
  <2> QED BY <2>1, <2>2, <2>10, <2>14, <2>15
<1> QED BY <1>1, LoopKeeps, PTL

=============================================================================
