------------------------------- MODULE Runner -------------------------------
(***************************************************************************)
(* The load generator (Runner.py) on top of the service cells: the main    *)
(* thread submits the requests of a workload to a thread pool, a round     *)
(* after the other; the threads call the cells, count and keep the rows of *)
(* the results.  Counters are increased and decreased under a lock of      *)
(* their own, and read without it.                                         *)
(***************************************************************************)
EXTENDS HttpCell, TLC

CONSTANTS
    Workload,       \* the targets of a workload file, in the order of their times
    Rounds,         \* workload_rounds
    PoolSize,       \* thread_pool_size
    Modes,          \* FALSE: runner_type is "file", TRUE: it is "greedy"
    None

ASSUME RunnerAssumption ==
    /\ Workload \in Seq(Targets) /\ Rounds \in Nat \ {0}
    /\ PoolSize \in Nat \ {0} /\ Modes \subseteq BOOLEAN
    /\ None \notin Answered

Events == (1 .. Rounds) \X DOMAIN Workload

VARIABLES
    greedy,         \* runner_type
    main, round, next,  \* where the main thread is, in which round, at which event
    queue, job,     \* of the pool: the events that wait, those that threads have, with
                    \* the status they have got
    processed, pending, errors, timing,     \* the counters
    stats,          \* the rows of the round, in whatever order
    latencies,      \* length of local_latency_stats, which no round empties
    file,           \* the rows in the result file
    raised          \* history: the events whose get() has raised

counters == <<processed, pending, errors, timing>>
results  == <<stats, latencies, file, raised>>
vars == <<call, greedy, main, round, next, queue, job, counters, results>>

Root(e) == <<e>>

Init ==
    /\ call = <<>>
    /\ greedy \in Modes
    /\ main = "submit" /\ round = 1 /\ next = 1
    /\ queue = <<>> /\ job = <<>>
    /\ processed = 0 /\ pending = 0 /\ errors = 0 /\ timing = 0
    /\ stats = {} /\ latencies = 0 /\ file = None /\ raised = {}

(***************************************************************************)
(* The main thread: the scheduler runs job_assignment() for every event.   *)
(***************************************************************************)

Submit ==
    /\ main = "submit" /\ next \in DOMAIN Workload
    /\ queue' = Append(queue, <<round, next>>)
    /\ IF greedy THEN next' = next + 1 /\ UNCHANGED main
                 ELSE main' = "count" /\ UNCHANGED next
    /\ UNCHANGED <<call, greedy, round, job, counters, results>>

\* Mutant: the test for the greedy runner is the wrong way round.
CountPendingGreedy ==
    /\ main = "count" /\ main' = "check"
    /\ pending' = IF greedy THEN pending + 1 ELSE pending
    /\ UNCHANGED <<call, greedy, round, next, queue, job, processed, errors, timing, results>>

\* Only after submit(), and the threads may have been faster.
CountPending ==
    /\ main = "count" /\ main' = "check"
    /\ pending' = pending + 1
    /\ UNCHANGED <<call, greedy, round, next, queue, job, processed, errors, timing, results>>

\* Mutant: an off-by-one of the comparison with the size of the pool.
CheckFull ==
    /\ main = "check" /\ main' = "submit" /\ next' = next + 1
    /\ timing' = IF pending >= PoolSize THEN timing + 1 ELSE timing
    /\ UNCHANGED <<call, greedy, round, queue, job, processed, pending, errors, results>>

Check ==
    /\ main = "check" /\ main' = "submit" /\ next' = next + 1
    /\ timing' = IF pending > PoolSize THEN timing + 1 ELSE timing
    /\ UNCHANGED <<call, greedy, round, queue, job, processed, pending, errors, results>>

\* Mutant: the last requests are not waited for.
NotWaited == main = "submit" /\ next \notin DOMAIN Workload /\ queue = <<>>

\* wait(futures), after which the average is computed, which needs a latency.
Waited == main = "submit" /\ next \notin DOMAIN Workload /\ queue = <<>> /\ job = <<>>

DivideByZero ==
    /\ Waited /\ latencies = 0
    /\ main' = "crashed"
    /\ UNCHANGED <<call, greedy, round, next, queue, job, counters, results>>

\* The next round has new rows and counters, but for pending and the latencies.  (The
\* model forgets the calls of a request when all of them have ended.)
NextRound ==
    /\ Waited /\ latencies # 0 /\ ~greedy /\ round < Rounds
    /\ round' = round + 1 /\ next' = 1
    /\ processed' = 0 /\ errors' = 0 /\ timing' = 0 /\ stats' = {}
    /\ call' = Restrict(call, {p \in DOMAIN call :
                    \E q \in DOMAIN call : q[1] = p[1] /\ call[q].state \notin Ended})
    /\ UNCHANGED <<greedy, main, queue, job, pending, latencies, file, raised>>

WriteResults ==
    /\ Waited /\ latencies # 0 /\ (greedy \/ round = Rounds)
    /\ main' = "done" /\ file' = stats
    /\ UNCHANGED <<call, greedy, round, next, queue, job, counters, stats, latencies, raised>>

(***************************************************************************)
(* A thread of the pool: do_requests().                                    *)
(***************************************************************************)

InPool == Cardinality(DOMAIN job)
Leave(e) == job' = Restrict(job, DOMAIN job \ {e})

Get ==
    /\ InPool < PoolSize /\ queue # <<>>
    /\ job' = [e \in DOMAIN job \cup {Head(queue)} |-> IF e = Head(queue) THEN None ELSE job[e]]
    /\ queue' = Tail(queue)
    /\ processed' = processed + 1
    /\ pending' = IF greedy THEN pending + 1 ELSE pending
    /\ call' = Opened(Root(Head(queue)), Workload[Head(queue)[2]])
    /\ UNCHANGED <<greedy, main, round, next, errors, timing, results>>

Receive(e) ==
    /\ job[e] = None /\ call[Root(e)].state \in Answered
    /\ job' = [job EXCEPT ![e] = call[Root(e)].state]
    /\ pending' = pending - 1
    /\ UNCHANGED <<call, greedy, main, round, next, queue, processed, errors, timing, results>>

KeepRow(e) ==
    /\ job[e] # None /\ Leave(e)
    /\ errors' = IF job[e] = "200" THEN errors ELSE errors + 1
    /\ stats' = stats \cup {<<e, job[e]>>} /\ latencies' = latencies + 1
    /\ UNCHANGED <<call, greedy, main, round, next, queue, processed, pending, timing, file, raised>>

\* get() raises: the counter of pending requests is not decreased.
GetRaises(e) ==
    /\ job[e] = None /\ call[Root(e)].state = "broken" /\ Leave(e)
    /\ raised' = raised \cup {e}
    /\ UNCHANGED <<call, greedy, main, round, next, queue, counters, stats, latencies, file>>

Main == Submit \/ CountPending \/ Check \/ DivideByZero \/ NextRound \/ WriteResults
PoolStep == Get \/ \E e \in DOMAIN job : Receive(e) \/ KeepRow(e) \/ GetRaises(e)
runner == <<greedy, main, round, next, queue, job, counters, results>>
Cells == CellStep /\ UNCHANGED runner

Next == Main \/ PoolStep \/ Cells \/ (CellBreak /\ UNCHANGED runner)

Spec == Init /\ [][Next]_vars

\* The main thread and those of the pool run, and the cells do: there are only
\* finitely many calls, and none that could be made is kept back.
Fairness == WF_vars(Main) /\ WF_vars(PoolStep) /\ WF_vars(Cells)
FairSpec == Spec /\ Fairness

(***************************************************************************)
(* Properties.                                                             *)
(***************************************************************************)

TypeOK ==
    /\ \A p \in DOMAIN call : /\ Len(p) > 0 /\ p[1] \in Events
                              /\ call[p].target \in Targets /\ call[p].err \in BOOLEAN
                              /\ call[p].state \in {"queued", "running"} \cup Ended
                              /\ \A g \in DOMAIN call[p].todo :
                                    \A i \in DOMAIN call[p].todo[g] : call[p].todo[g][i] \in Targets
    /\ greedy \in BOOLEAN /\ main \in {"submit", "count", "check", "done", "crashed"}
    /\ round \in 1 .. Rounds /\ next \in 1 .. Len(Workload) + 1
    /\ \A i \in DOMAIN queue : queue[i] \in Events
    /\ \A e \in DOMAIN job : e \in Events /\ job[e] \in Answered \cup {None}
    /\ {processed, errors, timing, latencies} \subseteq 0 .. Cardinality(Events)
    /\ pending \in -1 .. Cardinality(Events)
    /\ stats \subseteq Events \X Answered /\ (file = None \/ file \subseteq Events \X Answered)
    /\ raised \subseteq Events

\* Runner.py:76 says of a timing error that all threads were busy and the request was
\* queued.  It is so, unless requests have raised: each of these counts as pending
\* for good, in the next rounds too.
TimingErrorsJustified ==
    [][timing' > timing =>
        Len(queue) + InPool + Cardinality(raised) > PoolSize]_vars

\* What is reported at the end of a round is about all of its requests, each once, and
\* no other, with the status it was answered with: none is under way any more, and
\* no request of one round gets into the next.
RoundReported ==
    [][Waited /\ main' # "crashed" /\ <<main, round>>' # <<main, round>> =>
            /\ {row[1] : row \in stats} = ({round} \X DOMAIN Workload) \ raised
            /\ \A row \in stats : call[Root(row[1])].state = row[2]
            /\ errors = Cardinality({row \in stats : row[2] # "200"})
            /\ processed = Len(Workload)]_vars

\* A run ends, however few threads there are, and ends without results only when no
\* request has ever been answered (sum/len of no latencies, Runner.py:113).
RunEnds ==
    <>(main = "done" \/ (main = "crashed" /\ raised = {1} \X DOMAIN Workload))
=============================================================================
