-------------------------- MODULE ExtractionAgent --------------------------
(***************************************************************************)
(* The agent that turns one unit of a document into record drafts: the     *)
(* loop between a language model and the extraction tools, the checkpoint  *)
(* that is saved after every message and every tool call, and the row of   *)
(* the unit at its end.                                                    *)
(*                                                                         *)
(* A message holds tool calls that are executed one by one, whatever an    *)
(* earlier one of them did; after the last, the loop goes on unless one of *)
(* them terminated it.  An attempt of the node run that loses its lease or *)
(* its process ends at once, as no save of it succeeds any more; the next  *)
(* attempt continues the conversation and the drafts of the checkpoint.    *)
(* How attempts are fenced and units are put together is in                *)
(* DocumentExtraction.                                                     *)
(***************************************************************************)
EXTENDS Integers, FiniteSets, Functions

CONSTANTS
    Segments,      \* the source blocks of the unit
    Keys,          \* draft keys the model may use
    Contents,      \* fields of drafts, all valid in schema, confidence, quotes
    MaxRecords,    \* maxRecordsPerUnit
    MaxIterations, \* requests in one run of the agent
    MaxCalls,      \* bound: tool calls in one message
    MaxAttempt     \* bound: attempts of the node run

AgentAssumption ==
    /\ IsFiniteSet(Segments) /\ IsFiniteSet(Keys)
    /\ MaxRecords \in Nat /\ MaxIterations \in Nat \ {0}
    /\ MaxCalls \in Nat /\ MaxAttempt \in Nat

VARIABLES
    unit,  \* the extraction_units row with its drafts
    saved, \* the unit's entry in the checkpoint; the loop's memory is the same
    run    \* the execution: where it is, its attempt and its requests so far

vars == <<unit, saved, run>>

NoDrafts == [k \in {} |-> {}]

\* extractionAgentState
Drafting == [drafts : UNION {[K -> Contents] : K \in SUBSET Keys},
             read : SUBSET Segments, validated : BOOLEAN, finished : BOOLEAN]

\* requests: answered ones in the conversation; accounted: of these, those
\* that the row's usage is known to hold; open: calls without a result.
Entry == [state : Drafting, requests : Nat, accounted : Nat, open : 0..MaxCalls]

\* "prompting": about to ask the model.  "calling": a tool call is next.
\* "called": it is executed, its result not yet in the conversation.
Run == [pc : {"idle", "prompting", "calling", "called", "ended", "failing", "failed"},
        attempt : 0..MaxAttempt, turns : 0..MaxIterations, terminate : BOOLEAN]

Row == [status : {"pending", "running", "failed", "succeeded"}, requests : Nat,
        counted : 0..MaxAttempt, drafts : UNION {[K -> Contents] : K \in SUBSET Keys}]

TypeOK == unit \in Row /\ saved \in Entry /\ run \in Run

Init ==
    /\ unit = [status |-> "pending", requests |-> 0, counted |-> 0, drafts |-> NoDrafts]
    /\ saved = [state |-> [drafts |-> NoDrafts, read |-> {}, validated |-> FALSE,
                           finished |-> FALSE],
                requests |-> 0, accounted |-> 0, open |-> 0]
    /\ run = [pc |-> "idle", attempt |-> 0, turns |-> 0, terminate |-> FALSE]

-----------------------------------------------------------------------------
(* The tools; each answers with the state it leaves *)

Drafted(s) == DOMAIN s.drafts

\* extractionValidationIssues: unread blocks and drafts with equal fields.
Sound(s) ==
    /\ Cardinality(Drafted(s)) <= MaxRecords
    /\ s.read = Segments
    /\ \A k, j \in Drafted(s) : s.drafts[k] = s.drafts[j] => k = j

\* read_source_blocks; only a block not read before asks for a validation.
MarkRead(s, segment) ==
    [s EXCEPT !.read = @ \cup {segment}, !.validated = @ /\ segment \in s.read]

\* The drafts with c under k; a new key needs room.
Room(s, k) == k \in Drafted(s) \/ Cardinality(Drafted(s)) < MaxRecords
Put(drafts, k, c) == [j \in {k} \cup DOMAIN drafts |-> IF j = k THEN c ELSE drafts[j]]

\* Mutant: a revised draft leaves the validation in force.
UpsertUnnoticed(s, k, c) ==
    IF Room(s, k)
    THEN [s EXCEPT !.drafts = Put(s.drafts, k, c), !.validated = @ /\ k \in Drafted(s)]
    ELSE s

\* upsert_record_drafts, of one draft.
Upsert(s, k, c) ==
    IF Room(s, k)
    THEN [s EXCEPT !.drafts = Put(s.drafts, k, c), !.validated = FALSE]
    ELSE s

\* delete_record_drafts, of one key.
Delete(s, k) ==
    IF k \notin Drafted(s) THEN s
    ELSE [s EXCEPT !.drafts = Restrict(@, Drafted(s) \ {k}), !.validated = FALSE]

\* validate_record_drafts
Validate(s) == [s EXCEPT !.validated = Sound(s)]

\* What finish_extraction_unit asks for, of a caller that announces rightly
\* whether there are records; another one is refused.
Finishable(s) == Sound(s) /\ s.validated

\* The states a call may leave; a refused call, an unknown tool and the tools
\* that list or search leave s.
Changed(s) ==
    {s, Validate(s)}
    \cup {MarkRead(s, b) : b \in Segments}
    \cup {Upsert(s, k, c) : k \in Keys, c \in Contents}
    \cup {Delete(s, k) : k \in Keys}

-----------------------------------------------------------------------------
(* The agent *)

\* StartExtractionUnit, and the entry of the checkpoint is restored: a unit
\* that is finished there is not given to the model again.
Start ==
    /\ run.pc = "idle"
    /\ run.attempt < MaxAttempt
    /\ unit.status # "succeeded"
    /\ unit' = [unit EXCEPT !.status = "running"]
    /\ run' = [pc |-> IF saved.state.finished THEN "ended" ELSE "prompting",
               attempt |-> run.attempt + 1, turns |-> 0, terminate |-> FALSE]
    /\ UNCHANGED saved

\* The model answers with some calls.  Without any, a reminder is added; if
\* the answer was cut off at the length limit, all get an error as result.
Prompt ==
    /\ run.pc = "prompting"
    /\ run.turns < MaxIterations
    /\ \E calls \in 0..MaxCalls, cut \in BOOLEAN :
         LET executed == IF cut THEN 0 ELSE calls
         IN  /\ saved' = [saved EXCEPT !.requests = @ + 1, !.open = executed]
             /\ run' = [run EXCEPT !.turns = @ + 1, !.terminate = FALSE,
                                   !.pc = IF executed = 0 THEN "prompting" ELSE "calling"]
    /\ UNCHANGED unit

\* The request fails or is refused; a partial answer is kept with its calls.
PromptFails ==
    /\ run.pc = "prompting"
    /\ run.turns < MaxIterations
    /\ \/ UNCHANGED saved
       \/ \E calls \in 0..MaxCalls : saved' = [saved EXCEPT !.requests = @ + 1, !.open = calls]
    /\ run' = [run EXCEPT !.pc = "failing"]
    /\ UNCHANGED unit

\* executeTool, and the checkpoint is saved.  Only a finish terminates.
Execute ==
    /\ run.pc = "calling"
    /\ \/ /\ \E s \in Changed(saved.state) : saved' = [saved EXCEPT !.state = s]
          /\ run' = [run EXCEPT !.pc = "called"]
       \/ /\ Finishable(saved.state)
          /\ saved' = [saved EXCEPT !.state.finished = TRUE]
          /\ run' = [run EXCEPT !.pc = "called", !.terminate = TRUE]
    /\ UNCHANGED unit

\* appendResult, and the checkpoint is saved again.
AppendResult ==
    /\ run.pc = "called"
    /\ saved' = [saved EXCEPT !.open = @ - 1]
    /\ run' = [run EXCEPT !.pc = IF saved.open > 1 THEN "calling"
                                 ELSE IF run.terminate THEN "ended" ELSE "prompting"]
    /\ UNCHANGED unit

OutOfTurns ==
    /\ run.pc = "prompting"
    /\ run.turns = MaxIterations
    /\ run' = [run EXCEPT !.pc = "failing"]
    /\ UNCHANGED <<unit, saved>>

\* The lease, the process or the context of the attempt ends.
Stop ==
    /\ run.pc # "idle"
    /\ run' = [run EXCEPT !.pc = "idle"]
    /\ UNCHANGED <<unit, saved>>

-----------------------------------------------------------------------------
(* The row of the unit *)

\* UnaccountedUsage, added to the row once for every attempt.
Charged(row) ==
    IF row.counted < run.attempt
    THEN [row EXCEPT !.requests = @ + saved.requests - saved.accounted, !.counted = run.attempt]
    ELSE row

\* CompleteExtractionUnit; the entry leaves the checkpoint, which nobody
\* reads any more.
Complete ==
    /\ run.pc = "ended"
    /\ unit' = [Charged(unit) EXCEPT !.status = "succeeded", !.drafts = saved.state.drafts]
    /\ run' = [run EXCEPT !.pc = "idle"]
    /\ UNCHANGED saved

\* FailExtractionUnit
Fail ==
    /\ run.pc = "failing"
    /\ unit' = [Charged(unit) EXCEPT !.status = "failed"]
    /\ run' = [run EXCEPT !.pc = "failed"]
    /\ UNCHANGED saved

\* In the next transaction the checkpoint notes the usage as accounted.
Account ==
    /\ run.pc = "failed"
    /\ saved' = [saved EXCEPT !.accounted = saved.requests]
    /\ run' = [run EXCEPT !.pc = "idle"]
    /\ UNCHANGED unit

Next ==
    \/ Start \/ Prompt \/ PromptFails \/ Execute \/ AppendResult \/ OutOfTurns \/ Stop
    \/ Complete \/ Fail \/ Account

Spec == Init /\ [][Next]_vars

-----------------------------------------------------------------------------
(* Properties *)

\* However the agent's calls, lost attempts and restarts follow one another,
\* a unit's records are stored only after the agent has read the whole unit
\* and has ended it explicitly; they are the drafts of the checkpoint, no
\* more than allowed, and no two of them are equal unless calls after the
\* end have changed them and nobody has validated them since.  No request
\* that the conversation holds is missing in the row's usage.
StoredUnitsAreRead ==
    unit.status = "succeeded" =>
        /\ saved.state.finished
        /\ saved.state.read = Segments
        /\ unit.drafts = saved.state.drafts
        /\ Cardinality(DOMAIN unit.drafts) <= MaxRecords
        /\ saved.state.validated => Sound(saved.state)
        /\ unit.requests >= saved.requests
=============================================================================
