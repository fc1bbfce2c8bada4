-------------------------- MODULE ExecutionContext --------------------------
(***************************************************************************)
(* The execution graph of a request (server.py): what a handler registers, *)
(* how the cell controller builds it, and the engine that advances it.     *)
(*                                                                         *)
(* A graph is a function from the paths of its nodes to their kinds: <<>>  *)
(* is the root, <<2, 1>> the first step of its second step, and a request  *)
(* without steps has the empty graph.  Kinds of steps:                     *)
(*   "order", "pipe"   containers: one after the other, all at once;       *)
(*   "internal"        a function that runs in the thread pool;            *)
(*   "call", "calls"   an EgressStep with one request, with two;           *)
(*   "nothing"         an EgressStep whose request_builder returns [];     *)
(*   "raises"          an EgressStep whose request_builder raises.         *)
(* Steps are named by their paths: their ids are unique, as the API asks.  *)
(* An outcome is "ok", "bad" (a status of 400 or more) or "error" (a       *)
(* StepResult with an error, answered with status 500).                    *)
(***************************************************************************)
EXTENDS Integers, FiniteSets, SequencesExt

Outcomes   == {"ok", "bad", "error"}
NodeStates == {"pending", "running", "done", "error"}
Kinds      == {"order", "pipe", "internal", "call", "calls", "nothing", "raises"}

\* How many requests an EgressStep sends, one after the other.
NumRequests(kind) == CASE kind = "nothing" -> 0 [] kind = "call" -> 1 [] kind = "calls" -> 2

(***************************************************************************)
(* Building graphs.                                                        *)
(***************************************************************************)

NoGraph == <<>>

Steps(graph, p)    == {q \in DOMAIN graph : q # <<>> /\ Front(q) = p}
NumSteps(graph, p) == Cardinality(Steps(graph, p))
Leaves(graph)      == {p \in DOMAIN graph : graph[p] \notin {"order", "pipe"}}

\* A tree of steps; the steps of a container are numbered.
IsGraph(graph) ==
    /\ IsFiniteSet(DOMAIN graph)
    /\ graph = NoGraph \/ <<>> \in DOMAIN graph
    /\ \A p \in DOMAIN graph :
        /\ p \in Seq(Nat) /\ graph[p] \in Kinds
        /\ Steps(graph, p) = {Append(p, i) : i \in 1 .. NumSteps(graph, p)}
        /\ p # <<>> => Front(p) \in DOMAIN graph \ Leaves(graph)

Step(kind) == [p \in {<<>>} |-> kind]

\* order([...]) and pipe([...]) of the given graphs.
Container(kind, steps) ==
    LET Under == UNION {{<<i>> \o q : q \in DOMAIN steps[i]} : i \in DOMAIN steps}
    IN  [p \in Under \cup {<<>>} |-> IF p = <<>> THEN kind ELSE steps[Head(p)][Tail(p)]]

\* What parallel() leaves of the steps of its block: no step, one, or a pipe.
Block(kinds) ==
    LET steps == [i \in DOMAIN kinds |-> Step(kinds[i])]
    IN  IF Len(kinds) > 1 THEN <<Container("pipe", steps)>> ELSE steps

\* The graph of the blocks a handler has registered; a step outside parallel()
\* is a block of its own.
BuildGraph(blocks) ==
    LET steps == FlattenSeq([i \in DOMAIN blocks |-> Block(blocks[i])])
    IN  CASE Len(steps) = 0 -> NoGraph
          [] Len(steps) = 1 -> steps[1]
          [] OTHER          -> Container("order", steps)

\* A group of the work model has a number of services, a seq_len, and perhaps
\* probabilities: how many of its services may be drawn for a request.
Draws(group) ==
    LET most == IF group.seqLen < group.services THEN group.seqLen ELSE group.services
    IN  IF group.certain THEN {most} ELSE 0 .. most

\* register_external_calls(): one call for each service drawn, group after group.
RegisterExternalCalls(drawn) ==
    FlattenSeq([g \in DOMAIN drawn |-> [s \in 1 .. drawn[g] |-> "call"]])

\* The graphs start_worker() registers for the groups of its service.
StartWorkerGraphs(groups) ==
    {BuildGraph(<< <<"internal">>, RegisterExternalCalls(drawn) >>) :
        drawn \in {d \in [DOMAIN groups -> UNION {Draws(groups[g]) : g \in DOMAIN groups}] :
                      \A g \in DOMAIN groups : d[g] \in Draws(groups[g])}}

(***************************************************************************)
(* The engine.  Its methods are operators from contexts to contexts.  They *)
(* call each other: "calls" is what has still to be called, the next one   *)
(* first, <<"execute", p>> for _execute_node() and <<"propagate", p>> for  *)
(* _propagate_completion().  The actions they return are gathered in       *)
(* "sends", <<p, k>> to send the k-th request of step p, and in "runs",    *)
(* the steps whose functions are to run.                                   *)
(***************************************************************************)

NewContext(graph, wsgi) ==
    [graph   |-> graph,
     state   |-> [p \in DOMAIN graph |-> "pending"],    \* _node_states
     current |-> [p \in DOMAIN graph |-> 0],            \* _ec_order_current
     waiting |-> {},                                    \* _egress_to_step
     results |-> <<>>,                                  \* in order of insertion
     wsgi    |-> wsgi,                                  \* wsgi_status
     done    |-> FALSE,
     calls   |-> <<>>, sends |-> {}, runs |-> <<>>]

SetNode(c, p, s)   == [c EXCEPT !.state[p] = s]
SetResult(c, p, o) == [c EXCEPT !.results = Append(@, [step |-> p, outcome |-> o])]
Ask(c, p)          == [c EXCEPT !.runs = Append(@, p)]
Send(c, p, k)      == [c EXCEPT !.waiting = @ \cup {<<p, k>>}, !.sends = @ \cup {<<p, k>>}]
Push(c, calls)     == [c EXCEPT !.calls = calls \o @]
Execute(c, p)      == Push(c, << <<"execute", p>> >>)

\* A step ends, and its parent is told.
End(c, p, s) == Push(SetNode(c, p, s), << <<"propagate", p>> >>)
Ended(c, p)  == c.state[p] \in {"done", "error"}

\* The state of a pipe whose steps have all ended.
\* Mutant: a failed step is forgotten.
PipeStateOptimist(c, p) == "done"
PipeState(c, p) ==
    IF \E q \in Steps(c.graph, p) : c.state[q] = "error" THEN "error" ELSE "done"

\* Whether a pipe is to end now.
\* Mutant: with the first step.
PipeEndsFirst(c, p) == \E q \in Steps(c.graph, p) : Ended(c, q)
PipeEnds(c, p) == \A q \in Steps(c.graph, p) : Ended(c, q)

\* The DONE action: the last result that was stored is the response.
Finish(c) ==
    [c EXCEPT !.done = TRUE,
              !.wsgi = IF c.results = <<>> THEN @ ELSE Last(c.results).outcome]

\* After a step of an order: the next one, or the end of the order.
OrderAdvances(c, p, i) ==
    IF Append(p, i) \in DOMAIN c.graph
    THEN Execute([c EXCEPT !.current[p] = i], Append(p, i))
    ELSE End(c, p, "done")

PropagateCompletion(c, p) ==
    IF p = <<>> THEN Finish(c)
    ELSE LET parent == Front(p)
             i      == Last(p)
         IN  CASE c.graph[parent] = "order" /\ c.current[parent] # i -> c
               [] c.graph[parent] = "order" /\ c.current[parent] = i ->
                    IF c.state[p] = "error" THEN End(c, parent, "error")
                    ELSE OrderAdvances(c, parent, i + 1)
               [] c.graph[parent] = "pipe" ->
                    IF PipeEnds(c, parent) THEN End(c, parent, PipeState(c, parent)) ELSE c

\* A container without steps.
\* Mutant: its parent is not told.
ExecuteEmptySilent(c, p) == SetNode(c, p, "done")
ExecuteEmpty(c, p) == End(c, p, "done")

ExecutePipe(c, p) ==
    IF Steps(c.graph, p) = {} THEN ExecuteEmpty(c, p)
    ELSE Push(c, [i \in 1 .. NumSteps(c.graph, p) |-> <<"execute", Append(p, i)>>])

ExecuteOrder(c, p) ==
    IF Steps(c.graph, p) = {} THEN ExecuteEmpty(c, p) ELSE OrderAdvances(c, p, 1)

ExecuteEgress(c, p) ==
    CASE c.graph[p] = "raises"  -> End(SetResult(c, p, "error"), p, "error")
      [] c.graph[p] = "nothing" -> End(SetResult(c, p, "ok"), p, "done")
      [] OTHER                  -> Send(c, p, 1)

ExecuteNode(c, p) ==
    LET d == SetNode(c, p, "running")
    IN  CASE c.graph[p] = "order"    -> ExecuteOrder(d, p)
          [] c.graph[p] = "pipe"     -> ExecutePipe(d, p)
          [] c.graph[p] = "internal" -> Ask(d, p)
          [] OTHER                   -> ExecuteEgress(d, p)

\* The next call.
Advanced(c) ==
    LET call == Head(c.calls)
        d    == [c EXCEPT !.calls = Tail(@)]
    IN  IF call[1] = "execute" THEN ExecuteNode(d, call[2]) ELSE PropagateCompletion(d, call[2])

Start(c) == IF c.graph = NoGraph THEN [c EXCEPT !.done = TRUE] ELSE Execute(c, <<>>)

\* on_egress_result(): the answer to request k of step p.
\* Mutants: the request stays in _egress_to_step; a request too many is sent; the
\* result of a failed step is not stored.
OnEgressResultKeepsId(c, p, k, outcome) ==
    IF outcome = "ok" /\ k < NumRequests(c.graph[p]) THEN Send(c, p, k + 1)
    ELSE End(SetResult(c, p, outcome), p, IF outcome = "ok" THEN "done" ELSE "error")
OnEgressResultOneMore(c, p, k, outcome) ==
    LET d == [c EXCEPT !.waiting = @ \ {<<p, k>>}]
    IN  IF outcome = "ok" /\ k <= NumRequests(c.graph[p]) THEN Send(d, p, k + 1)
        ELSE End(SetResult(d, p, outcome), p, IF outcome = "ok" THEN "done" ELSE "error")
OnEgressResultUnstored(c, p, k, outcome) ==
    LET d == [c EXCEPT !.waiting = @ \ {<<p, k>>}]
    IN  CASE outcome # "ok" -> End(d, p, "error")
          [] outcome = "ok" /\ k < NumRequests(c.graph[p]) -> Send(d, p, k + 1)
          [] outcome = "ok" /\ k >= NumRequests(c.graph[p]) ->
                End(SetResult(d, p, outcome), p, "done")
OnEgressResult(c, p, k, outcome) ==
    IF <<p, k>> \notin c.waiting THEN c
    ELSE LET d == [c EXCEPT !.waiting = @ \ {<<p, k>>}]
         IN  CASE outcome # "ok" -> End(SetResult(d, p, outcome), p, "error")
               [] outcome = "ok" /\ k < NumRequests(c.graph[p]) -> Send(d, p, k + 1)
               [] outcome = "ok" /\ k >= NumRequests(c.graph[p]) ->
                    End(SetResult(d, p, outcome), p, "done")

\* on_internal_result(): only an exception is an error; a StepResult or dict with
\* a bad status is stored, and the step is done.
OnInternalResult(c, p, outcome) ==
    End(SetResult(c, p, outcome), p, IF outcome = "error" THEN "error" ELSE "done")

(***************************************************************************)
(* What a graph means, without an engine.  "heard" are the results that    *)
(* have come in, <<p, k, outcome>>.  The state of a leaf follows from its  *)
(* results, that of a container from its steps, and whether a node is      *)
(* reached from its parent and the steps before it: as a graph is a tree,  *)
(* one labelling of the nodes only agrees with its own meaning everywhere. *)
(***************************************************************************)

Heard(heard, p, k, outcomes) == \E o \in outcomes : <<p, k, o>> \in heard

LeafMeaning(graph, heard, p) ==
    LET n == NumRequests(graph[p])
    IN  CASE graph[p] = "raises" -> "error"
          [] graph[p] = "internal" ->
                IF Heard(heard, p, 0, {"error"}) THEN "error"
                ELSE IF Heard(heard, p, 0, {"ok", "bad"}) THEN "done" ELSE "running"
          [] graph[p] \in {"nothing", "call", "calls"} ->
                IF \E k \in 1 .. n : Heard(heard, p, k, {"bad", "error"}) THEN "error"
                ELSE IF \A k \in 1 .. n : Heard(heard, p, k, {"ok"}) THEN "done" ELSE "running"

\* An order fails with a step, and ends with the last one; a pipe ends with all of its
\* steps, and has failed if one of them has.
ContainerMeaning(graph, state, p) ==
    LET is(s) == \E q \in Steps(graph, p) : state[q] = s
        all(S) == \A q \in Steps(graph, p) : state[q] \in S
    IN  CASE graph[p] = "order" ->
                IF is("error") THEN "error" ELSE IF all({"done"}) THEN "done" ELSE "running"
          [] graph[p] = "pipe" ->
                IF ~all({"done", "error"}) THEN "running" ELSE IF is("error") THEN "error" ELSE "done"

\* A step of a pipe is reached with the pipe, a step of an order when those
\* before it are done.
Reached(graph, state, p) ==
    p = <<>> \/ /\ state[Front(p)] # "pending"
                /\ \/ graph[Front(p)] = "pipe"
                   \/ \A i \in 1 .. Last(p) - 1 : state[Append(Front(p), i)] = "done"

Meaning(graph, state, heard, p) ==
    IF ~Reached(graph, state, p) THEN "pending"
    ELSE IF p \in Leaves(graph) THEN LeafMeaning(graph, heard, p)
    ELSE ContainerMeaning(graph, state, p)

\* What is to be outstanding: the function of a running internal step, the next
\* request of a running call.
IsDue(graph, state, heard, p, k) ==
    /\ state[p] = "running" /\ ~Heard(heard, p, k, Outcomes)
    /\ IF graph[p] = "internal" THEN k = 0
       ELSE k \in 1 .. NumRequests(graph[p]) /\ \A j \in 1 .. k - 1 : Heard(heard, p, j, {"ok"})
Due(graph, state, heard) ==
    {d \in Leaves(graph) \X {0, 1, 2} : IsDue(graph, state, heard, d[1], d[2])}
=============================================================================
