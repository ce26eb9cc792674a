----------------------------- MODULE DerivedLog ----------------------------
(***************************************************************************)
(* What the owners of a base dataset and of the query dataset derived from *)
(* it may rely on, without batches, node runs, attempts or positions that  *)
(* were read a while ago: the base dataset is a log of distinct records    *)
(* that only grows at its end, and the records derived into the query      *)
(* dataset are always those of a prefix of it, each once.  Others may put  *)
(* records of their own into the query dataset; these are never taken for  *)
(* derived ones, and a record that is there already is not derived.        *)
(***************************************************************************)
EXTENDS Integers, Sequences

CONSTANT Keys  \* the records, by business key

VARIABLES
    log,       \* the base dataset
    position,  \* how far it is derived
    derived,   \* the records that have their query item
    foreign    \* what others put into the query dataset

vars == <<log, position, derived, foreign>>

Init == log = <<>> /\ position = 0 /\ derived = {} /\ foreign = {}

Distinct(s) == \A i, j \in 1..Len(s) : s[i] = s[j] => i = j

\* A batch of new records is appended as a whole.
AppendBatch ==
    /\ Len(log') > Len(log)
    /\ SubSeq(log', 1, Len(log)) = log
    /\ Distinct(log')
    /\ UNCHANGED <<position, derived, foreign>>

\* Records that are new to the query dataset are put into it.
AddForeign ==
    /\ foreign' # foreign /\ foreign \subseteq foreign'
    /\ foreign' \cap derived = {}
    /\ UNCHANGED <<log, position, derived>>

\* The records up to "to" that are not derived yet are derived, all at once.
Derive(to) ==
    LET increment == {log[i] : i \in (position + 1)..to} IN
    /\ position < to /\ to <= Len(log)
    /\ increment \cap (derived \cup foreign) = {}
    /\ position' = to
    /\ derived' = derived \cup increment
    /\ UNCHANGED <<log, foreign>>

Next == AppendBatch \/ AddForeign \/ \E to \in 1..Len(log) : Derive(to)

Spec == Init /\ [][Next]_vars
=============================================================================
