----------------------------- MODULE CommandLog -----------------------------
(***************************************************************************)
(* What the draft commands promise to their clients: a workflow is the     *)
(* sequence of the commands applied to it, a command takes effect at most  *)
(* once in the whole system, and every answer to a command names the place *)
(* where it took effect.                                                   *)
(***************************************************************************)
EXTENDS Naturals, Sequences, SequencesExt

CONSTANTS Workflows, CommandIds, Calls

VARIABLES
    log,     \* the commands applied to each workflow, in order
    answers  \* of each call: <<>>, or <<w, i, r>>: command i is revision r of w

Applied == UNION {ToSet(log[w]) : w \in Workflows}

Init ==
    /\ log = [w \in Workflows |-> <<>>]
    /\ answers = [c \in Calls |-> <<>>]

\* The call c applies the command i to w and is answered.
Execute(c, w, i) ==
    /\ i \notin Applied
    /\ log' = [log EXCEPT ![w] = Append(@, i)]
    /\ answers' = [answers EXCEPT ![c] = <<w, i, Len(log'[w])>>]

\* The call c finds the command i applied already.
Repeat(c, w, i) ==
    /\ \E r \in DOMAIN log[w] :
          /\ log[w][r] = i
          /\ answers' = [answers EXCEPT ![c] = <<w, i, r>>]
    /\ UNCHANGED log

\* The call is over.
Forget(c) ==
    /\ answers' = [answers EXCEPT ![c] = <<>>]
    /\ UNCHANGED log

Next ==
    \E c \in Calls :
        \/ \E w \in Workflows, i \in CommandIds : Execute(c, w, i) \/ Repeat(c, w, i)
        \/ Forget(c)

Spec == Init /\ [][Next]_<<log, answers>>
=============================================================================
