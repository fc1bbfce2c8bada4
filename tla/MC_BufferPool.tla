---------------------------- MODULE MC_BufferPool ----------------------------
(***************************************************************************)
(* Instances of BufferPool: two workers of a service and the DPA, each     *)
(* with one thread on the pool (host pools), or the two polling threads of *)
(* the DPA on one pool (the DPU TX header pool).                           *)
(***************************************************************************)
EXTENDS BufferPool, TLC

CONSTANTS w1, w2, dpa,       \* processes: two workers, the DPA daemon
          t1, t2, tx, rx,    \* threads: the two workers', the DPA's
          x, y

\* A host TX pool: the workers write, the DPA reads.
HostProcs   == {w1, w2, dpa}
HostThreads == {t1, t2, rx}
HostProcOf  == (t1 :> w1) @@ (t2 :> w2) @@ (rx :> dpa)
HostWriters == {t1, t2}
HostReaders == {rx}
HostCreators == {w1, w2}
HostSymmetry == Permutations({x, y})

\* The DPU TX header pool: DPA-TX-Poll writes, DPA-RX-Poll reads.
DpuProcs   == {dpa}
DpuThreads == {tx, rx}
DpuProcOf  == (tx :> dpa) @@ (rx :> dpa)
DpuWriters == {tx}
DpuReaders == {rx}
DpuCreators == {dpa}

MCData == {x, y}
=============================================================================
