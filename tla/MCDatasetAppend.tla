-------------------------- MODULE MCDatasetAppend --------------------------
(* Instances of DatasetAppend for TLC.                                     *)
EXTENDS DatasetAppend

CONSTANTS k1, k2

MCKeys == {k1, k2}

\* Each publisher has one record to publish; clients compete for its key.
MCApproved == [n \in Publishers |-> {k1}]

MCGoal == [n \in Publishers |-> "base"]
=============================================================================
