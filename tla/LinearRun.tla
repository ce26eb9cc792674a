----------------------------- MODULE LinearRun -----------------------------
(***************************************************************************)
(* What the workflow runtime promises to the owner of a run, without       *)
(* workers, leases, attempts in flight or transactions: every node of the  *)
(* line gets one result, in the order of the line, and never another one;  *)
(* a run that is suspended, waits for a human or has failed produces       *)
(* nothing until it is continued.                                          *)
(***************************************************************************)
EXTENDS Integers

CONSTANTS
    Runs,       \* the runs
    NodeCount,  \* the length of the line
    Attempt     \* the attempts that may produce a result, numbered from 1

VARIABLES
    phase,   \* what the owner sees of each run
    result   \* the attempt whose result a node has; 0 while it has none

vars == <<phase, result>>

Ordinals == 1..NodeCount

Phases == {"created", "active", "suspended", "human", "failed", "done"}

TypeOK ==
    /\ phase \in [Runs -> Phases]
    /\ result \in [Runs \X Ordinals -> Attempt \cup {0}]

Init ==
    /\ phase = [r \in Runs |-> "created"]
    /\ result = [n \in Runs \X Ordinals |-> 0]

\* The phase of r moves from "from" to "to"; no result changes.
Move(r, from, to) ==
    /\ phase[r] = from
    /\ phase' = [phase EXCEPT ![r] = to]
    /\ UNCHANGED result

Begin(r)    == Move(r, "created", "active")
Suspend(r)  == Move(r, "active", "suspended")
Continue(r) == Move(r, "suspended", "active")
AskHuman(r) == Move(r, "active", "human")
GiveUp(r)   == Move(r, "active", "failed")
TryAgain(r) == Move(r, "failed", "active")

\* Node i of r, the first without a result, gets that of attempt a.  The run
\* is done with its last node; a suspension may take effect at this point.
Finish(r, i, a) ==
    /\ phase[r] \in {"active", "human"}
    /\ \A j \in Ordinals : result[<<r, j>>] = 0 <=> j >= i
    /\ result' = [result EXCEPT ![<<r, i>>] = a]
    /\ \/ i = NodeCount /\ phase' = [phase EXCEPT ![r] = "done"]
       \/ i < NodeCount /\ phase' = [phase EXCEPT ![r] = "active"]
       \/ /\ i < NodeCount /\ phase[r] = "active"
          /\ phase' = [phase EXCEPT ![r] = "suspended"]

Next ==
    \E r \in Runs :
      \/ Begin(r) \/ Suspend(r) \/ Continue(r)
      \/ AskHuman(r) \/ GiveUp(r) \/ TryAgain(r)
      \/ \E i \in Ordinals, a \in Attempt : Finish(r, i, a)

Spec == Init /\ [][Next]_vars
=============================================================================
