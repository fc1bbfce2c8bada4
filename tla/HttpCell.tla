------------------------------ MODULE HttpCell ------------------------------
(***************************************************************************)
(* Service cells over HTTP (CellController-mp.py, ExternalServiceExecutor. *)
(* py).  A request is answered by a thread of its service, which runs the  *)
(* internal service and then calls the services of its groups: a thread    *)
(* for every group, the services of a group one after the other.  So a     *)
(* request grows a tree of calls across the services, and each waiting     *)
(* call keeps a thread of a pool that all the requests share.              *)
(*                                                                         *)
(* A call is named by its place in the tree: the request of the client,    *)
(* then the group and how many services of it are left, for each level.    *)
(* Calls that have ended stay in the tree.                                 *)
(***************************************************************************)
EXTENDS Naturals, Sequences, FiniteSets, SequencesExt

CONSTANTS
    Services,
    Carries,    \* what a request carries: nothing, a behaviour id, a trace
    Groups,     \* the groups a service calls for it
    Grpc,       \* services whose request_method is grpc
    Faulty,     \* where start_worker() may raise: an unknown key, a bad trace, no body
    Flaky,      \* services whose processes may die
    Threads     \* the threads of a service: PN processes of TN

Targets == Services \X Carries

\* A group: services in their order, seq_len of them to be called, optional ones with
\* a probability below 1.
ASSUME HttpCellAssumption ==
    /\ Groups \in [Targets -> Seq([services : Seq(Targets), seq_len : Nat,
                                   optional : SUBSET Services])]
    /\ Grpc \subseteq Services /\ Flaky \subseteq Services /\ Faulty \subseteq Targets
    /\ Threads \in Nat \ {0}

VARIABLE call   \* the calls there are, by their names

Answered == {"200", "500"}
Ended == Answered \cup {"broken"}

Call(target) == [target |-> target, state |-> "queued", todo |-> <<>>, err |-> FALSE]
Opened(p, target) == [q \in DOMAIN call \cup {p} |-> IF q = p THEN Call(target) ELSE call[q]]
Child(p, g) == Append(p, <<g, Len(call[p].todo[g])>>)

(***************************************************************************)
(* start_worker(): a call waits for a thread and keeps it until it is      *)
(* answered.  The internal service, which shares nothing, takes no step;   *)
(* what will be called is drawn at once.                                   *)
(***************************************************************************)

\* Mutant: the threads are those of all services.
FreeAnywhere(s) == Cardinality({p \in DOMAIN call : call[p].state = "running"}) < Threads

\* A service that speaks gRPC has a Flask server next to it, with a thread per request.
Free(s) ==
    \/ s \in Grpc
    \/ Cardinality({p \in DOMAIN call : call[p].target[1] = s /\ call[p].state = "running"})
            < Threads

Samples(s, k) ==
    {[i \in 1 .. k |-> s[f[i]]] : f \in {f \in [1 .. k -> DOMAIN s] : IsInjective(f)}}

\* What of s is not skipped, in its order.
Kept(s, skipped) ==
    LET keep == {i \in DOMAIN s : s[i][1] \notin skipped}
        n == Cardinality(keep)
    IN  {[i \in 1 .. n |-> s[f[i]]] :
            f \in {f \in [1 .. n -> keep] : \A i, j \in 1 .. n : i < j => f[i] < f[j]}}

\* external_service(): random.sample() if seq_len is less than there are, and a draw
\* for every service that has a probability.
Selections(g) ==
    UNION {Kept(s, skipped) :
        s \in IF g.seq_len < Len(g.services) THEN Samples(g.services, g.seq_len)
                                             ELSE {g.services},
        skipped \in SUBSET g.optional}

Todos(groups) == {t \in [DOMAIN groups -> UNION {Selections(groups[g]) : g \in DOMAIN groups}] :
                    \A g \in DOMAIN groups : t[g] \in Selections(groups[g])}

Queued(p) == call[p].state = "queued" /\ Free(call[p].target[1])

Accept(p) ==
    /\ Queued(p)
    /\ \E t \in Todos(Groups[call[p].target]) :
            call' = [call EXCEPT ![p].state = "running", ![p].todo = t]

\* Whatever start_worker() raises is answered with 500.
Raise(p) ==
    /\ Queued(p) /\ call[p].target \in Faulty
    /\ call' = [call EXCEPT ![p].state = "500", ![p].err = TRUE]

(***************************************************************************)
(* run_external_service(): all groups at the same time.                    *)
(***************************************************************************)

\* It is the turn of the next service of the group.
Turn(p, g) == /\ call[p].state = "running" /\ call[p].todo[g] # <<>>
               /\ Child(p, g) \notin DOMAIN call

CallRest(p, g) ==
    /\ Turn(p, g) /\ call[p].target[1] \notin Grpc
    /\ call' = Opened(Child(p, g), Head(call[p].todo[g]))

\* The handler of a gRPC call raises at its first line (app.logger.info.info) and
\* answers False.
CallGrpc(p, g) ==
    /\ Turn(p, g) /\ call[p].target[1] \in Grpc
    /\ call' = [call EXCEPT ![p].todo[g] = Tail(@), ![p].err = TRUE]

\* Mutant: the result of the last call is the result of the group.
ReturnLast(p, g) ==
    /\ call[p].state = "running" /\ call[p].todo[g] # <<>>
    /\ Child(p, g) \in DOMAIN call /\ call[Child(p, g)].state \in Ended
    /\ call' = [call EXCEPT ![p].todo[g] = Tail(@), ![p].err = call[Child(p, g)].state # "200"]

\* The caller learns how a call has ended; after an error it goes on with the next.
Return(p, g) ==
    /\ call[p].state = "running" /\ call[p].todo[g] # <<>>
    /\ Child(p, g) \in DOMAIN call /\ call[Child(p, g)].state \in Ended
    /\ call' = [call EXCEPT ![p].todo[g] = Tail(@),
                            ![p].err = @ \/ call[Child(p, g)].state # "200"]

\* Mutant: wait(futures, return_when=FIRST_COMPLETED).
AnswerFirst(p) ==
    /\ call[p].state = "running"
    /\ DOMAIN call[p].todo # {} => \E g \in DOMAIN call[p].todo : call[p].todo[g] = <<>>
    /\ call' = [call EXCEPT ![p].state = IF call[p].err THEN "500" ELSE "200"]

Answer(p) ==
    /\ call[p].state = "running" /\ \A g \in DOMAIN call[p].todo : call[p].todo[g] = <<>>
    /\ call' = [call EXCEPT ![p].state = IF call[p].err THEN "500" ELSE "200"]

\* The process dies, or cannot be reached: who has called it gets an exception, what it
\* has called goes on, and what it was going to call is not called.
Break(p) ==
    /\ call[p].target[1] \in Flaky /\ call[p].state \notin Ended
    /\ call' = [call EXCEPT ![p] = [Call(@.target) EXCEPT !.state = "broken"]]

Handle(p) ==
    \/ Accept(p) \/ Raise(p) \/ Answer(p)
    \/ \E g \in DOMAIN call[p].todo : CallRest(p, g) \/ CallGrpc(p, g) \/ Return(p, g)

CellStep == \E p \in DOMAIN call : Handle(p)
CellBreak == \E p \in DOMAIN call : Break(p)

(***************************************************************************)
(* Properties.                                                             *)
(***************************************************************************)

Below(q, p) == IsStrictPrefix(p, q)
ChildOf(q, p) == Below(q, p) /\ Len(q) = Len(p) + 1

\* A failure anywhere below a request reaches its answer, through every level and
\* next to whatever succeeds, and nothing else makes the answer an error
\* (CellController-mp.py 175-184, ExternalServiceExecutor.py 90-113).
FailuresReach ==
    \A p \in DOMAIN call :
        /\ call[p].state = "200" => \A q \in DOMAIN call : Below(q, p) => call[q].state = "200"
        /\ call[p].state = "500" /\ call[p].target \notin Faulty /\ call[p].target[1] \notin Grpc
                => \E q \in DOMAIN call : ChildOf(q, p) /\ call[q].state # "200"

\* When a call has been answered nothing is running on its behalf, but below a
\* process that has died (wait(futures), ExternalServiceExecutor.py 130).
NothingLeftBehind ==
    \A p, q \in DOMAIN call : call[p].state \in Answered /\ Below(q, p) /\ call[q].state \notin Ended
        => \E r \in DOMAIN call : call[r].state = "broken" /\ Below(r, p) /\ Below(q, r)
=============================================================================
