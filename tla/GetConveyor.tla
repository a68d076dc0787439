----------------------------- MODULE GetConveyor ------------------------------
(***************************************************************************)
(* The queue of GET requests that carries title updates to an Icecast or   *)
(* Shoutcast server (src/glasscoder/getconveyor.cpp): one curl process at  *)
(* a time, the front of the queue being the request it makes.              *)
(*                                                                         *)
(* Requests are numbered in the order of the calls of push().  What the    *)
(* owner of the queue makes of a result is in the module that composes it. *)
(***************************************************************************)
EXTENDS Naturals, Sequences

CONSTANT MaxUpdates   \* bound: title updates sent

ASSUME UpdatesAssumption == MaxUpdates \in Nat

VARIABLES
  queue,    \* conv_events
  curl,     \* conv_process: "none", "running", or "finished" with the garbage
            \* timer armed
  pushed,   \* requests pushed so far
  applied   \* ghost: the requests the server executed, in order

conveyorVars == <<queue, curl, pushed, applied>>

ConveyorInit == queue = <<>> /\ curl = "none" /\ pushed = 0 /\ applied = <<>>

\* Dispatch() of the front, if the queue q is to go on.
Dispatched(q) == IF q = <<>> THEN "none" ELSE "running"

\* push(): a request that finds the queue empty is dispatched at once; any
\* other waits for its turn, also behind a request that is already finished.
Push ==
  /\ pushed < MaxUpdates
  /\ pushed' = pushed + 1
  /\ queue' = Append(queue, pushed + 1)
  /\ curl' = IF Len(queue') = 1 THEN Dispatched(queue') ELSE curl
  /\ UNCHANGED applied

\* processFinishedData(): curl ended.  The server may have executed the
\* request and the answer been lost, so a failure says nothing.
CurlFinished(done) ==
  /\ curl = "running"
  /\ curl' = "finished"
  /\ applied' = IF done THEN Append(applied, Head(queue)) ELSE applied
  /\ UNCHANGED <<queue, pushed>>

\* What the queue is after its front is finished.
Popped(q) == Tail(q)

StallsAfter(q) == IF Len(q) <= 1 THEN "none" ELSE "running"
GoesOn(q)      == Dispatched(q)

\* processCollectGarbageData(): forget the process, pop, dispatch the next.
CollectProcess ==
  /\ curl = "finished"
  /\ queue' = Popped(queue)
  /\ curl' = GoesOn(queue')
  /\ UNCHANGED <<pushed, applied>>

ConveyorTypeOK ==
  /\ queue \in Seq(1..MaxUpdates) /\ applied \in Seq(1..MaxUpdates)
  /\ curl \in {"none", "running", "finished"}
  /\ pushed \in 0..MaxUpdates
  /\ curl = "none" <=> queue = <<>>
===============================================================================
