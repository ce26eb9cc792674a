------------------------- MODULE MCWorkflowRuntime -------------------------
(* Instances of WorkflowRuntime for TLC.                                   *)
EXTENDS WorkflowRuntime, TLC

\* The first node cannot be completed by a human, the others can.
MCManualCapable == 2..NodeCount

ProcessSymmetry == Permutations(Processes)
=============================================================================
