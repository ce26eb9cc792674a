----------------------------- MODULE NodeFence -----------------------------
(***************************************************************************)
(* What the services that write data on behalf of a node run may rely on:  *)
(* the producer fence.  A node run is claimed again and again, each time   *)
(* with the next attempt; an attempt is live until its lease ends; a node  *)
(* that succeeded is not claimed any more.                                 *)
(*                                                                         *)
(* The workflow runtime implements this module (WorkflowRuntime,           *)
(* ImplementsNodeFence); the modules of the data services use its actions  *)
(* as their environment and Live as assertActiveNodeProducer.              *)
(***************************************************************************)
EXTENDS Integers

CONSTANTS
    Nodes,      \* node runs
    MaxAttempt  \* bound: a node run is not claimed more often than this

VARIABLE fence

Fence == [attempt : 0..MaxAttempt, phase : {"idle", "live", "final"}]

Init == fence = [n \in Nodes |-> [attempt |-> 0, phase |-> "idle"]]

\* assertActiveNodeProducer: n runs, in this attempt, under a lease not yet over.
Live(n, attempt) == fence[n].phase = "live" /\ fence[n].attempt = attempt

\* A worker claims n, for the first time or after the last claim has ended.
Claim(n) ==
    /\ fence[n].phase = "idle"
    /\ fence[n].attempt < MaxAttempt
    /\ fence' = [fence EXCEPT ![n].attempt = @ + 1, ![n].phase = "live"]

\* The lease expires, or the node is paused, fails, retries or asks a human.
Lose(n) ==
    /\ fence[n].phase = "live"
    /\ fence' = [fence EXCEPT ![n].phase = "idle"]

\* The node succeeds: by its live attempt, or by a human when none is live.
Settle(n) ==
    /\ fence[n].attempt > 0 /\ fence[n].phase # "final"
    /\ fence' = [fence EXCEPT ![n].phase = "final"]

Next == \E n \in Nodes : Claim(n) \/ Lose(n) \/ Settle(n)

Spec == Init /\ [][Next]_fence
=============================================================================
