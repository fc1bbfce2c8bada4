---------------------------- MODULE MC_EventLoop ----------------------------
(***************************************************************************)
(* Instances of EventLoop: two requests, and handlers that register graphs *)
(* of every shape.                                                         *)
(***************************************************************************)
EXTENDS EventLoop, TLC

CONSTANTS r1, r2

Order(steps) == Container("order", steps)
Pipe(steps)  == Container("pipe", steps)
Call     == Step("call")
Calls    == Step("calls")
Internal == Step("internal")
Raises   == Step("raises")
Nothing  == Step("nothing")

\* A work model: a group of two services, one of which is drawn, perhaps, and a
\* group of a single one.
WorkModel == <<[services |-> 2, seqLen |-> 1, certain |-> FALSE],
               [services |-> 1, seqLen |-> 1, certain |-> TRUE]>>

Shapes ==
    StartWorkerGraphs(WorkModel) \cup
    {NoGraph, Internal, Calls, Pipe(<<>>),
     Order(<<Call, Raises, Call>>),
     Order(<<Pipe(<<Raises, Nothing>>), Call>>),
     Order(<<Order(<<Nothing, Order(<<>>)>>), Call, Pipe(<<>>)>>),
     Pipe(<<Pipe(<<Internal, Internal>>), Order(<<>>), Nothing>>),
     Pipe(<<Order(<<Call, Internal>>), Calls>>)}

MCRequests == {r1, r2}
MCHandlers == (r1 :> Shapes) @@ (r2 :> {Order(<<Internal, Call>>)})
=============================================================================
