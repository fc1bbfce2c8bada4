--------------------------- MODULE MC_PodRegistry ---------------------------
(***************************************************************************)
(* Instances of PodRegistry: a worker and the process that takes its place *)
(* when it has died, and a worker of another service.                      *)
(***************************************************************************)
EXTENDS PodRegistry, TLC

CONSTANTS w1, w2, again, A, B, n1, n2, r1

MCWorkers   == {w1, w2, again}
MCNames     == {n1, n2}
MCNameOf    == (w1 :> n1) @@ (w2 :> n2) @@ (again :> n1)
MCServices  == {A, B}
MCServiceOf == (w1 :> A) @@ (w2 :> B) @@ (again :> A)

\* The one random id there is: the worst case.
MCRandomIds == {1000}

\* A worker starts before the DPA is up and runs on; others come and go.
MCEarly == {w2}
MCMortal == {w1}

\* Two look pods up at once: a thread of the DPU daemon, and the worker that may be up
\* from before the boot.
MCRouters == {r1}
MCLookers == {r1, w2}

\* What the last life of the DPA has left: no counter, as on a node where there was
\* none, and a registry where n2 has id 1.
NoCounter == {Absent}
Leftovers == {Table([NoNames EXCEPT ![n2] = [pod_id |-> 1, service |-> A]])}
=============================================================================
