-------------------------- MODULE AnalysisDelivery --------------------------
(***************************************************************************)
(* From a knowledge base to an artifact: knowledge.analyze lets an agent   *)
(* submit an output, a person may confirm or edit it at the gate           *)
(* human.approve_analysis, and artifact.render stores what was concluded.  *)
(*                                                                         *)
(* The agent's submission is first saved in the checkpoint of the node run *)
(* and then, in another transaction, as the result; an attempt that finds  *)
(* a submission in its checkpoint does not ask the agent again.  Outputs   *)
(* are JSON objects in the compact form that normalisation writes; the     *)
(* database keeps jsonb and gives back a text of its own.                  *)
(***************************************************************************)
EXTENDS Integers, FiniteSets

CONSTANTS
    Outputs,    \* objects that conform to the output contract
    Compact,    \* those whose jsonb text is their compact form: the object
                \* without fields, as jsonb writes a blank after every key
    None,       \* no output
    Reviewers,  \* requests that complete the gate
    MaxAttempt  \* bound: a node run is not claimed more often than this

DeliveryAssumption ==
    /\ Compact \subseteq Outputs
    /\ None \notin Outputs
    /\ MaxAttempt \in Nat

VARIABLES
    fence,      \* workflow_node_runs of the two steps that workers execute
    checkpoint, \* the submission in the checkpoint of the analysis
    result,     \* the analysis_results row of the analysis
    gate,       \* status of the gate's node run; "absent": there is none
    approved,   \* output of the analysis_results row of the gate
    blobs,      \* contents in the blob store
    artifact,   \* content of the artifacts row
    call,       \* the execution of each attempt of each step
    request     \* the requests that complete the gate

vars == <<fence, checkpoint, result, gate, approved, blobs, artifact, call, request>>

Steps == {"analyze", "render"}
Nodes == INSTANCE NodeFence WITH Nodes <- Steps

\* "submitting": the tool accepted an output.  "saved": it is in the
\* checkpoint.  "submitted": the agent has ended.
CallPC == {"none", "begun", "agent", "submitting", "saved", "submitted",
           "read", "stored", "failing", "answered", "stopped"}

Maybe == Outputs \cup {None}

TypeOK ==
    /\ fence \in [Steps -> Nodes!Fence]
    /\ checkpoint \in Maybe /\ approved \in Maybe /\ artifact \in Maybe
    /\ result \in [attempt : 0..MaxAttempt, output : Maybe,
                   status : {"none", "running", "failed", "succeeded"}]
    /\ gate \in {"absent", "waiting", "awaiting", "cancelled", "succeeded"}
    /\ blobs \subseteq Outputs
    /\ call \in [Steps \X (1..MaxAttempt) -> [pc : CallPC, output : Maybe]]
    /\ request \in [Reviewers -> [pc : {"idle", "decided", "refused", "concluded", "answered"},
                                  output : Maybe]]

Init ==
    /\ Nodes!Init
    /\ checkpoint = None /\ approved = None /\ artifact = None
    /\ result = [attempt |-> 0, output |-> None, status |-> "none"]
    /\ gate \in {"absent", "waiting"}
    /\ blobs = {}
    /\ call = [c \in Steps \X (1..MaxAttempt) |-> [pc |-> "none", output |-> None]]
    /\ request = [r \in Reviewers |-> [pc |-> "idle", output |-> None]]

At(n, k, pc) == call[<<n, k>>].pc = pc
Output(n, k) == call[<<n, k>>].output
Enter(n, k, pc, output) == call' = [call EXCEPT ![<<n, k>>] = [pc |-> pc, output |-> output]]
MoveTo(n, k, pc) == Enter(n, k, pc, Output(n, k))

-----------------------------------------------------------------------------
(* The node runs *)

Ready(n) == \/ n = "analyze"
            \/ gate = "succeeded"
            \/ gate = "absent" /\ fence["analyze"].phase = "final"

\* The claim answers with the checkpoint, which only the analysis writes.
Claim(n) ==
    /\ Ready(n)
    /\ Nodes!Claim(n)
    /\ Enter(n, fence[n].attempt + 1, "begun", IF n = "analyze" THEN checkpoint ELSE None)
    /\ UNCHANGED <<checkpoint, result, gate, approved, blobs, artifact, request>>

Lose(n) ==
    /\ Nodes!Lose(n)
    /\ UNCHANGED <<checkpoint, result, gate, approved, blobs, artifact, call, request>>

Settle(n, k) ==
    /\ At(n, k, "answered")
    /\ Nodes!Live(n, k)
    /\ Nodes!Settle(n)
    /\ UNCHANGED <<checkpoint, result, gate, approved, blobs, artifact, call, request>>

-----------------------------------------------------------------------------
(* knowledge.analyze *)

\* BeginAnalysisResult; a later attempt takes an unfinished row over.
BeginAnalysisResult(k) ==
    /\ At("analyze", k, "begun")
    /\ Nodes!Live("analyze", k)
    /\ IF result.status = "succeeded"
       THEN /\ Enter("analyze", k, "answered", result.output)
            /\ UNCHANGED result
       ELSE /\ MoveTo("analyze", k, IF Output("analyze", k) = None THEN "agent" ELSE "submitted")
            /\ result' = [attempt |-> k, output |-> None, status |-> "running"]
    /\ UNCHANGED <<fence, checkpoint, gate, approved, blobs, artifact, request>>

\* submit_analysis_result: one message may hold several calls of it.
Submit(k) ==
    /\ At("analyze", k, "agent") \/ At("analyze", k, "saved")
    /\ \E o \in Outputs : Enter("analyze", k, "submitting", o)
    /\ UNCHANGED <<fence, checkpoint, result, gate, approved, blobs, artifact, request>>

\* OnFlush, at the end of a tool call and at the end of the agent.
SaveCheckpoint(k) ==
    /\ Nodes!Live("analyze", k)
    /\ \/ At("analyze", k, "submitting") /\ MoveTo("analyze", k, "saved")
       \/ At("analyze", k, "saved") /\ MoveTo("analyze", k, "submitted")
    /\ checkpoint' = Output("analyze", k)
    /\ UNCHANGED <<fence, result, gate, approved, blobs, artifact, request>>

Completable(k) == result.status = "running" /\ result.attempt = k
CompleteAnalysisResult(k) ==
    /\ At("analyze", k, "submitted")
    /\ Nodes!Live("analyze", k)
    /\ Completable(k)
    /\ result' = [result EXCEPT !.status = "succeeded", !.output = Output("analyze", k)]
    /\ MoveTo("analyze", k, "answered")
    /\ UNCHANGED <<fence, checkpoint, gate, approved, blobs, artifact, request>>

\* The model, the agent, a save or the completion fails.
AnalysisFails(k) ==
    /\ call[<<"analyze", k>>].pc \in {"agent", "submitting", "saved", "submitted"}
    /\ MoveTo("analyze", k, "failing")
    /\ UNCHANGED <<fence, checkpoint, result, gate, approved, blobs, artifact, request>>

\* The deferred FailAnalysisResult, whose own error is dropped.
FailAnalysisResult(k) ==
    /\ At("analyze", k, "failing")
    /\ result' = IF Nodes!Live("analyze", k) /\ result.attempt = k /\ result.status # "succeeded"
                 THEN [result EXCEPT !.status = "failed"] ELSE result
    /\ MoveTo("analyze", k, "stopped")
    /\ UNCHANGED <<fence, checkpoint, gate, approved, blobs, artifact, request>>

-----------------------------------------------------------------------------
(* human.approve_analysis *)

Await ==
    /\ gate = "waiting"
    /\ fence["analyze"].phase = "final"
    /\ gate' = "awaiting"
    /\ UNCHANGED <<fence, checkpoint, result, approved, blobs, artifact, call, request>>

Cancel ==
    /\ gate \in {"waiting", "awaiting"}
    /\ gate' = "cancelled"
    /\ UNCHANGED <<fence, checkpoint, result, approved, blobs, artifact, call, request>>

\* Complete: the output as it is, or another one.
Decide(r) ==
    /\ request[r].pc = "idle"
    /\ gate = "awaiting"
    /\ result.status = "succeeded"
    /\ \E o \in Outputs : request' = [request EXCEPT ![r] = [pc |-> "decided", output |-> o]]
    /\ UNCHANGED <<fence, checkpoint, result, gate, approved, blobs, artifact, call>>

\* The text of the stored jsonb is compared with the compact form.
SameBytes(stored, output) == stored = output /\ output \in Compact

\* CreateHumanApprovedAnalysis inserts the row unless there is one, reads it
\* back and compares; what it inserted is rolled back when that fails.
CreateHumanApprovedAnalysis(r) ==
    LET output == request[r].output
        stored == IF approved = None THEN output ELSE approved
        same == SameBytes(stored, output)
    IN  /\ request[r].pc = "decided"
        /\ gate = "awaiting"
        /\ approved' = IF same THEN stored ELSE approved
        /\ request' = [request EXCEPT ![r].pc = IF same THEN "concluded" ELSE "refused"]
        /\ UNCHANGED <<fence, checkpoint, result, gate, blobs, artifact, call>>

\* CompleteWorkflowNodeManual
CompleteGate(r) ==
    /\ request[r].pc = "concluded"
    /\ gate = "awaiting"
    /\ gate' = "succeeded"
    /\ request' = [request EXCEPT ![r].pc = "answered"]
    /\ UNCHANGED <<fence, checkpoint, result, approved, blobs, artifact, call>>

-----------------------------------------------------------------------------
(* artifact.render *)

\* The result that the input of the step is bound to.
Concluded == IF gate = "absent" THEN result.output ELSE approved

ReadResult(k) ==
    /\ At("render", k, "begun")
    /\ Enter("render", k, "read", Concluded)
    /\ UNCHANGED <<fence, checkpoint, result, gate, approved, blobs, artifact, request>>

\* Publish puts the content into the store, at the address of its hash.
PutBlob(k) ==
    /\ At("render", k, "read")
    /\ blobs' = blobs \cup {Output("render", k)}
    /\ MoveTo("render", k, "stored")
    /\ UNCHANGED <<fence, checkpoint, result, gate, approved, artifact, request>>

CreateArtifactForNode(k) ==
    /\ At("render", k, "stored")
    /\ Nodes!Live("render", k)
    /\ artifact \in {None, Output("render", k)}
    /\ artifact' = Output("render", k)
    /\ MoveTo("render", k, "answered")
    /\ UNCHANGED <<fence, checkpoint, result, gate, approved, blobs, request>>

-----------------------------------------------------------------------------
Next ==
    \/ \E n \in Steps : Claim(n) \/ Lose(n)
    \/ \E n \in Steps, k \in 1..MaxAttempt : Settle(n, k)
    \/ \E k \in 1..MaxAttempt :
          \/ BeginAnalysisResult(k) \/ Submit(k) \/ SaveCheckpoint(k)
          \/ CompleteAnalysisResult(k) \/ AnalysisFails(k) \/ FailAnalysisResult(k)
          \/ ReadResult(k) \/ PutBlob(k) \/ CreateArtifactForNode(k)
    \/ Await \/ Cancel
    \/ \E r \in Reviewers :
          Decide(r) \/ CreateHumanApprovedAnalysis(r) \/ CompleteGate(r)

Spec == Init /\ [][Next]_vars

-----------------------------------------------------------------------------
(* Properties *)

\* Who is told that the analysis, the gate or the artifact is complete finds
\* its own output stored: the analysis that answers is the one of its
\* submission or of an earlier attempt's, the request that answers is the one
\* whose output was concluded, and the artifact is made of what was concluded
\* and its content is in the store.
AnswersAgree ==
    /\ \A k \in 1..MaxAttempt :
         /\ At("analyze", k, "answered") => result.status = "succeeded" /\ result.output = Output("analyze", k)
         /\ At("render", k, "answered") => artifact = Output("render", k)
    /\ \A r \in Reviewers : request[r].pc \in {"concluded", "answered"} => approved = request[r].output
    /\ artifact # None => artifact = Concluded /\ artifact \in blobs

\* What the agent submitted is not lost with the attempt: the result that
\* succeeds is the submission that the checkpoint holds.
SubmissionIsKept ==
    result.status = "succeeded" => result.output # None /\ result.output = checkpoint

\* A result that succeeded, a conclusion and an artifact are not changed.
KeepsDelivered ==
    /\ result.status = "succeeded" => result' = result
    /\ approved # None => approved' = approved
    /\ artifact # None => artifact' = artifact

DeliveredIsFrozen == [][KeepsDelivered]_vars

\* A request is refused only if the gate already holds another conclusion:
\* "the retries of one gate can only reuse exactly the same conclusion".
RefusedOnlyIfDifferent ==
    \A r \in Reviewers :
        request[r].pc = "refused" => approved \notin {None, request[r].output}
=============================================================================
