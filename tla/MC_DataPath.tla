---------------------------- MODULE MC_DataPath ----------------------------
(***************************************************************************)
(* Instances of DataPath: a worker of service A, one or two of service B,  *)
(* and requests between them and from TCP clients.                         *)
(***************************************************************************)
EXTENDS DataPath, TLC

CONSTANTS a, b1, b2,        \* workers
          A, B, NoOne,      \* services, the last one without workers
          r1, r2, r3, r4    \* requests

MCServices == {A, B, NoOne}

\* For the pools: a calls service B twice, a client calls A, another one a service
\* without workers.
MCWorkers   == {a, b1, b2}
MCServiceOf == (a :> A) @@ (b1 :> B) @@ (b2 :> B)
MCWorkersOf == (A :> <<a>>) @@ (B :> <<b1, b2>>) @@ (NoOne :> <<>>)
MCRequests  == {r1, r2, r3, r4}
MCOrigin    == (r1 :> a) @@ (r2 :> a) @@ (r3 :> Bridge) @@ (r4 :> Bridge)
MCTarget    == (r1 :> B) @@ (r2 :> B) @@ (r3 :> A) @@ (r4 :> NoOne)

\* For the rings: a worker per service; a and a client call B, b1 calls a service
\* without workers.
PairWorkers   == {a, b1}
PairServiceOf == (a :> A) @@ (b1 :> B)
PairWorkersOf == (A :> <<a>>) @@ (B :> <<b1>>) @@ (NoOne :> <<>>)
PairRequests  == {r1, r2, r3}
PairOrigin    == (r1 :> a) @@ (r2 :> Bridge) @@ (r3 :> b1)
PairTarget    == (r1 :> B) @@ (r2 :> B) @@ (r3 :> NoOne)

NoMessages   == {}
EmptyRequest == {<<r1, "request">>}
BigAnswer    == {<<r3, "response">>}
=============================================================================
