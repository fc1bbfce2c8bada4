----------------------------- MODULE EventLoop -----------------------------
(***************************************************************************)
(* The event loop of a worker (DPUmeshServer in server.py): requests and   *)
(* answers come in through the RX ring, the steps of their graphs go out   *)
(* as egress requests or into the thread pool, and a finished request is   *)
(* answered.  The way of a message through the node, which module DataPath *)
(* models, is here a step that delivers or loses it.                       *)
(***************************************************************************)
EXTENDS ExecutionContext

CONSTANTS
    Requests,       \* the requests this worker receives
    Handlers,       \* the graphs a handler may register for a request
    ThreadPoolSize, \* the functions that run at a time
    TxMayFill,      \* TRUE: a submission or a response may find a TX ring or pool full
    MaxLost,        \* how many answers are lost
    None

ASSUME EventLoopAssumption ==
    /\ ThreadPoolSize \in Nat \ {0} /\ MaxLost \in Nat /\ TxMayFill \in BOOLEAN
    /\ None \notin Requests
    /\ \A r \in Requests : \A graph \in Handlers[r] : IsGraph(graph)

VARIABLES
    pc,        \* the phase of the loop, or "crashed"
    turn,      \* the request whose engine is at work, or None
    rx,        \* what is in the RX ring: requests <<r>> and answers <<r, p, k>>
    transit,   \* egress requests <<r, p, k>> under way, there or back
    lost,      \* those whose answer never comes
    contexts,  \* the contexts of the requests that have come in
    active,    \* the requests in active_contexts
    egress,    \* the keys of egress_to_ingress; the value is the first component
    futures,   \* _pending_futures: <<r, p>> in order of submission
    returned,  \* what the functions that are through have returned
    batch,     \* done_futures
    replies,   \* what became of the response of each request: written, or dropped
    heard      \* the results handled so far, for the properties

outside == <<transit, lost>>
pool    == <<futures, returned, batch>>
vars == <<pc, turn, rx, outside, contexts, active, egress, pool, replies, heard>>

Init ==
    /\ pc = "poll" /\ turn = None
    /\ rx = <<>>
    /\ transit = {} /\ lost = {}
    /\ contexts = <<>>
    /\ active = {} /\ egress = {}
    /\ futures = <<>> /\ returned = {} /\ batch = {}
    /\ replies = [r \in Requests |-> <<>>]
    /\ heard = [r \in Requests |-> {}]

(***************************************************************************)
(* The world outside the loop.  It sees nothing of what the engine does    *)
(* before its actions are executed, so it may as well wait for that.       *)
(***************************************************************************)

Known  == DOMAIN contexts
InRing == ToSet(rx)

\* The DPA puts a request for this worker into its RX ring.
ArriveRequest(r) ==
    /\ turn = None
    /\ r \notin Known /\ <<r>> \notin InRing
    /\ rx' = Append(rx, <<r>>)
    /\ UNCHANGED <<pc, turn, outside, contexts, active, egress, pool, replies, heard>>

\* An egress request has been answered, in whatever order.
ArriveAnswer(e) ==
    /\ turn = None
    /\ e \in transit
    /\ transit' = transit \ {e}
    /\ rx' = Append(rx, e)
    /\ UNCHANGED <<pc, turn, lost, contexts, active, egress, pool, replies, heard>>

\* The request or its answer is lost on the way.
Lose(e) ==
    /\ turn = None
    /\ e \in transit /\ Cardinality(lost) < MaxLost
    /\ transit' = transit \ {e}
    /\ lost' = lost \cup {e}
    /\ UNCHANGED <<pc, turn, rx, contexts, active, egress, pool, replies, heard>>

\* _run_internal_func() in a thread of the pool: what the function returns, or
\* the exception it raises.  The threads take the functions in order.
Returned(f) == \E v \in returned : v[1] = f
Before(i)   == {j \in 1 .. i - 1 : ~Returned(futures[j])}

FunctionReturns ==
    /\ turn = None
    /\ \E i \in DOMAIN futures, outcome \in Outcomes :
            /\ ~Returned(futures[i]) /\ Cardinality(Before(i)) < ThreadPoolSize
            /\ returned' = returned \cup {<<futures[i], outcome>>}
    /\ UNCHANGED <<pc, turn, rx, outside, contexts, active, egress, futures, batch, replies,
                   heard>>

(***************************************************************************)
(* The loop.  A handler brings a result to the context of its request, the *)
(* engine advances it, and the actions it returns are executed.            *)
(***************************************************************************)

SetContext(r, c) ==
    contexts' = [q \in Known \cup {r} |-> IF q = r THEN c ELSE contexts[q]]

\* One method of the engine.
Advance ==
    /\ turn # None /\ contexts[turn].calls # <<>>
    /\ SetContext(turn, Advanced(contexts[turn]))
    /\ UNCHANGED <<pc, turn, rx, outside, active, egress, pool, replies, heard>>

\* The process ends with an exception; what it kept in memory is gone.
Crash ==
    /\ pc' = "crashed" /\ turn' = None
    /\ active' = {} /\ egress' = {} /\ futures' = <<>> /\ returned' = {} /\ batch' = {}
    /\ UNCHANGED <<rx, outside, contexts, replies, heard>>

\* _execute_actions(), after which the loop goes on; a submission that raises ends the
\* process.
Submits(r)   == {<<r, s[1], s[2]>> : s \in contexts[r].sends}
AfterHandler == IF pc = "poll" THEN "collect" ELSE IF batch = {} THEN "finalize" ELSE pc

\* Mutant: the context keeps the actions, and they are executed again.
ExecuteActionsAgain ==
    /\ turn # None /\ contexts[turn].calls = <<>>
    /\ LET c == contexts[turn]
       IN  /\ egress'   = egress \cup Submits(turn)
           /\ transit'  = transit \cup Submits(turn)
           /\ futures'  = futures \o [i \in DOMAIN c.runs |-> <<turn, c.runs[i]>>]
    /\ pc' = AfterHandler /\ turn' = None
    /\ UNCHANGED <<contexts, rx, lost, active, returned, batch, replies, heard>>
ExecuteActions ==
    /\ turn # None /\ contexts[turn].calls = <<>>
    /\ LET c == contexts[turn]
       IN  /\ SetContext(turn, [c EXCEPT !.sends = {}, !.runs = <<>>])
           /\ egress'   = egress \cup Submits(turn)
           /\ transit'  = transit \cup Submits(turn)
           /\ futures'  = futures \o [i \in DOMAIN c.runs |-> <<turn, c.runs[i]>>]
    /\ pc' = AfterHandler /\ turn' = None
    /\ UNCHANGED <<rx, lost, active, returned, batch, replies, heard>>

SubmitRaises == /\ TxMayFill
                /\ turn # None /\ contexts[turn].calls = <<>> /\ contexts[turn].sends # {}
                /\ Crash

\* How the application itself answers; an exception is a status of 500.
WsgiStatuses == {"ok", "bad"}

\* A request: the handler runs, registers a graph, and the graph is started.
HandleNewRequest ==
    /\ pc = "poll" /\ turn = None
    /\ rx # <<>> /\ Len(Head(rx)) = 1 /\ rx' = Tail(rx)
    /\ LET r == Head(rx)[1]
       IN  /\ \E graph \in Handlers[r], wsgi \in WsgiStatuses :
                    SetContext(r, Start(NewContext(graph, wsgi)))
           /\ active' = active \cup {r} /\ turn' = r
    /\ UNCHANGED <<pc, outside, egress, pool, replies, heard>>

\* An answer: its context, if it is known and still active, goes on.
HandleEgressResponse ==
    /\ pc = "poll" /\ turn = None
    /\ rx # <<>> /\ Len(Head(rx)) = 3 /\ rx' = Tail(rx)
    /\ LET e     == Head(rx)
           r     == e[1]
           known == e \in egress /\ r \in active
       IN  \E outcome \in {"ok", "bad"} :
              /\ IF known THEN SetContext(r, OnEgressResult(contexts[r], e[2], e[3], outcome))
                          ELSE UNCHANGED contexts
              /\ heard' = [heard EXCEPT ![r] = IF known THEN @ \cup {<<e[2], e[3], outcome>>} ELSE @]
              /\ turn' = IF known THEN r ELSE None
              /\ pc' = IF known THEN pc ELSE AfterHandler
              /\ egress' = egress \ {e}
    /\ UNCHANGED <<outside, active, pool, replies>>

PollEmpty ==
    /\ pc = "poll" /\ turn = None /\ rx = <<>>
    /\ pc' = "collect"
    /\ UNCHANGED <<turn, rx, outside, contexts, active, egress, pool, replies, heard>>

\* The futures that are done by now; more may be while they are handled.
Collect ==
    /\ pc = "collect"
    /\ batch' = {f \in ToSet(futures) : Returned(f)}
    /\ pc' = IF batch' = {} THEN "finalize" ELSE "futures"
    /\ UNCHANGED <<turn, rx, outside, contexts, active, egress, futures, returned, replies,
                   heard>>

\* The first of them.
HandleInternalResult ==
    /\ pc = "futures" /\ turn = None
    /\ \E i \in DOMAIN futures, v \in returned :
        LET f == futures[i]
            r == f[1]
            known == r \in active
        IN  /\ f \in batch /\ (\A j \in 1 .. i - 1 : futures[j] \notin batch) /\ v[1] = f
            /\ IF known THEN SetContext(r, OnInternalResult(contexts[r], f[2], v[2]))
                        ELSE UNCHANGED contexts
            /\ heard' = [heard EXCEPT ![r] = IF known THEN @ \cup {<<f[2], 0, v[2]>>} ELSE @]
            /\ futures' = RemoveAt(futures, i)
            /\ returned' = returned \ {v} /\ batch' = batch \ {f}
            /\ turn' = IF known THEN r ELSE None
            /\ pc' = IF known \/ batch' # {} THEN pc ELSE "finalize"
    /\ UNCHANGED <<rx, outside, active, egress, replies>>

\* write_ingress_response(): what it cannot put into the TX pools and ring it drops,
\* whatever is raised, and the loop goes on.
Responses(r) == {contexts[r].wsgi} \cup (IF TxMayFill THEN {"dropped"} ELSE {})

\* _finalize_done_contexts(), one context at a time.
FinalizeContext(r) ==
    /\ pc = "finalize" /\ r \in active /\ contexts[r].done
    /\ active' = active \ {r}
    /\ egress' = {e \in egress : e[1] # r}
    /\ \E response \in Responses(r) : replies' = [replies EXCEPT ![r] = Append(@, response)]
    /\ UNCHANGED <<pc, turn, rx, outside, contexts, pool, heard>>

FinalizeEnd ==
    /\ pc = "finalize" /\ \A r \in active : ~contexts[r].done
    /\ pc' = "poll"
    /\ UNCHANGED <<turn, rx, outside, contexts, active, egress, pool, replies, heard>>

(***************************************************************************)
(* The specification.                                                      *)
(***************************************************************************)

Loop ==
    \/ HandleNewRequest \/ HandleEgressResponse \/ PollEmpty
    \/ Advance \/ ExecuteActions \/ SubmitRaises
    \/ Collect \/ HandleInternalResult
    \/ \E r \in Requests : FinalizeContext(r)
    \/ FinalizeEnd

Arrive == \E e \in transit : ArriveAnswer(e)

Next ==
    \/ Loop
    \/ Arrive
    \/ FunctionReturns
    \/ \E r \in Requests : ArriveRequest(r)
    \/ \E e \in transit : Lose(e)

Spec == Init /\ [][Next]_vars

\* The loop runs for ever, functions return, and what is not lost arrives.
FairSpec == Spec /\ WF_vars(Loop) /\ WF_vars(FunctionReturns) /\ WF_vars(Arrive)

(***************************************************************************)
(* Properties.                                                             *)
(***************************************************************************)

Graphs == UNION {Handlers[r] : r \in Requests}
Paths  == UNION {DOMAIN graph : graph \in Graphs}
EgressIds == Requests \X Paths \X {1, 2}
Functions == Requests \X Paths

\* The types of the variables; no egress request has more than two parts, and
\* what is to be handled is among the pending futures.
TypeOK ==
    /\ pc \in {"poll", "collect", "futures", "finalize", "crashed"}
    /\ turn \in Requests \cup {None}
    /\ rx \in Seq(EgressIds \cup {<<r>> : r \in Requests})
    /\ transit \subseteq EgressIds /\ lost \subseteq EgressIds
    /\ IsFiniteSet(lost) /\ Cardinality(lost) <= MaxLost
    /\ Known \subseteq Requests /\ active \subseteq Known
    /\ egress \subseteq EgressIds
    /\ futures \in Seq(Functions)
    /\ returned \subseteq Functions \X Outcomes
    /\ batch \subseteq ToSet(futures)
    /\ replies \in [Requests -> Seq(Outcomes \cup {"dropped"})]
    /\ \A r \in Known :
         LET c == contexts[r]
         IN  /\ c.graph \in Handlers[r]
             /\ c.state \in [DOMAIN c.graph -> NodeStates]
             /\ \A p \in DOMAIN c.graph : c.current[p] \in 0 .. NumSteps(c.graph, p)
             /\ c.waiting \subseteq Leaves(c.graph) \X {1, 2}
             /\ c.done \in BOOLEAN /\ c.wsgi \in Outcomes

\* Whenever the engine has nothing more to call.
Settled(r) == r \in Known /\ contexts[r].calls = <<>>

\* In whatever order results arrive, the engine has every node where the meaning
\* of the graph puts it: steps of an order one by one, none after a failure,
\* steps of a pipe together, a pipe failed when one of its steps has; it keeps
\* one result for each step that has ended, and is done when the root has ended.
EngineAgrees ==
    \A r \in Requests : Settled(r) =>
        LET c == contexts[r]
        IN  /\ \A p \in DOMAIN c.graph : c.state[p] = Meaning(c.graph, c.state, heard[r], p)
            /\ c.done <=> c.graph = NoGraph \/ Ended(c, <<>>)
            /\ {c.results[i].step : i \in DOMAIN c.results} = {p \in Leaves(c.graph) : Ended(c, p)}
            /\ \A i, j \in DOMAIN c.results : c.results[i].step = c.results[j].step => i = j

\* What is outstanding for an active request is what its graph has due, each
\* part once: nothing is sent or run twice or too early, nothing is forgotten,
\* and each answer that comes finds its entry in egress_to_ingress.
OutstandingIsDue ==
    \A r \in active \ {turn} :
        LET c    == contexts[r]
            due  == Due(c.graph, c.state, heard[r])
            sent == {<<r, d[1], d[2]>> : d \in {x \in due : x[2] > 0}}
        IN  /\ {e \in egress : e[1] = r} = sent
            /\ {<<r, w[1], w[2]>> : w \in c.waiting} = sent
            /\ {e \in InRing \cup transit \cup lost : Len(e) = 3 /\ e[1] = r} = sent
            /\ {f \in ToSet(futures) : f[1] = r} = {<<r, x[1]>> : x \in {y \in due : y[2] = 0}}

\* Nothing is in two places.
OutstandingOnce ==
    /\ IsInjective(rx) /\ IsInjective(futures)
    /\ InRing \cap (transit \cup lost) = {} /\ transit \cap lost = {}

\* A request gets one response, which is written or dropped, and then nothing of it is
\* left behind: no request under way, no entry in a table, no function in the pool.
AnswerIsFinal ==
    \A r \in Requests : replies[r] # <<>> =>
        /\ Len(replies[r]) = 1
        /\ \A e \in egress \cup transit \cup lost \cup InRing : e[1] # r
        /\ \A i \in DOMAIN futures : futures[i][1] # r

\* A step that has failed shows in the response when no pipe is above it.
FailureReported ==
    \A r \in Requests : replies[r] # <<>> =>
        \A p \in Leaves(contexts[r].graph) :
            (/\ contexts[r].state[p] = "error"
             /\ \A q \in DOMAIN contexts[r].graph :
                    IsPrefix(q, p) => contexts[r].graph[q] # "pipe")
            => replies[r] # <<"ok">>

\* A request that has come in is answered, whatever happens to others, unless its
\* response finds the TX side full, an answer it waits for is lost, or the process ends.
AllAnswered ==
    \A r \in Requests :
        <<r>> \in InRing ~> \/ \E status \in Outcomes : replies[r] = <<status>>
                            \/ replies[r] = <<"dropped">>
                            \/ \E e \in lost : e[1] = r
                            \/ pc = "crashed"
=============================================================================
