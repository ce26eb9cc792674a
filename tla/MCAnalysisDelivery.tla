------------------------- MODULE MCAnalysisDelivery -------------------------
(* Instances of AnalysisDelivery for TLC.                                  *)
EXTENDS AnalysisDelivery, TLC

CONSTANTS empty, o1, r1, r2

ReviewerSymmetry == Permutations(Reviewers)
=============================================================================
