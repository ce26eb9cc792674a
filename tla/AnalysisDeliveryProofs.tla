----------------------- MODULE AnalysisDeliveryProofs -----------------------
(***************************************************************************)
(* Proofs about AnalysisDelivery for every set of outputs and reviewers    *)
(* and every bound on the claims: a submission survives its attempt, who   *)
(* is answered finds its own output stored, and what is delivered stays.   *)
(***************************************************************************)
EXTENDS AnalysisDelivery, TLAPS

Attempts == 1..MaxAttempt

-----------------------------------------------------------------------------
(* The inductive invariant.                                                *)

\* The call of the live attempt works on the newest checkpoint and, until it
\* ends, owns the unfinished result.
LiveCallOwnsResult ==
    \A k \in Attempts : Nodes!Live("analyze", k) =>
        /\ call[<<"analyze", k>>].pc \in {"begun", "saved", "submitted"} =>
             Output("analyze", k) = checkpoint
        /\ call[<<"analyze", k>>].pc \in {"agent", "submitting", "saved", "submitted"} =>
             result.status = "running" /\ result.attempt = k

SubmissionsAreOutputs ==
    \A k \in Attempts :
        call[<<"analyze", k>>].pc \in {"submitting", "saved", "submitted"} =>
            Output("analyze", k) \in Outputs

\* Only an answered analysis settles, and only a concluded gate succeeds.
StepsEndConcluded ==
    /\ fence["analyze"].phase = "final" => result.status = "succeeded"
    /\ gate = "succeeded" => approved # None
    /\ \A r \in Reviewers : request[r].pc \in {"decided", "concluded", "answered"} => request[r].output # None

\* What artifact.render is bound to is there and does not change any more.
ReadyToRender == gate = "succeeded" \/ (gate = "absent" /\ result.status = "succeeded")

RendersWhatIsConcluded ==
    /\ artifact # None => ReadyToRender
    /\ \A k \in Attempts :
         /\ call[<<"render", k>>].pc # "none" => ReadyToRender
         /\ call[<<"render", k>>].pc \in {"read", "stored", "answered"} =>
              Output("render", k) = Concluded
         /\ call[<<"render", k>>].pc \in {"stored", "answered"} => Output("render", k) \in blobs

IInv ==
    /\ TypeOK
    /\ AnswersAgree
    /\ SubmissionIsKept
    /\ LiveCallOwnsResult
    /\ SubmissionsAreOutputs
    /\ StepsEndConcluded
    /\ RendersWhatIsConcluded

-----------------------------------------------------------------------------
(* What the steps do.                                                      *)

\* One call is replaced.
LEMMA EnterEffect ==
    ASSUME TypeOK, NEW n \in Steps, NEW k \in Attempts, NEW pc \in CallPC, NEW output \in Maybe,
           Enter(n, k, pc, output)
    PROVE  /\ call' \in [Steps \X Attempts -> [pc : CallPC, output : Maybe]]
           /\ call'[<<n, k>>].pc = pc /\ call'[<<n, k>>].output = output
           /\ \A m \in Steps, j \in Attempts : m # n \/ j # k => call'[<<m, j>>] = call[<<m, j>>]
  <1>1. PICK new : new = [pc |-> pc, output |-> output]
    OBVIOUS
  <1>2. new \in [pc : CallPC, output : Maybe] /\ new.pc = pc /\ new.output = output
    BY <1>1
  <1>3. call' = [call EXCEPT ![<<n, k>>] = new]
    BY <1>1 DEF Enter
  <1>4. \A m \in Steps, j \in Attempts : m # n \/ j # k => <<m, j>> # <<n, k>>
    OBVIOUS
  <1>5. call \in [Steps \X Attempts -> [pc : CallPC, output : Maybe]]
    BY DEF TypeOK, Attempts
  <1>6. QED
    BY <1>2, <1>3, <1>4, <1>5

\* A call goes on with the output it has.
LEMMA MoveEffect ==
    ASSUME TypeOK, NEW n \in Steps, NEW k \in Attempts, NEW pc \in CallPC, MoveTo(n, k, pc)
    PROVE  /\ call' \in [Steps \X Attempts -> [pc : CallPC, output : Maybe]]
           /\ call'[<<n, k>>].pc = pc /\ call'[<<n, k>>].output = Output(n, k)
           /\ \A m \in Steps, j \in Attempts : m # n \/ j # k => call'[<<m, j>>] = call[<<m, j>>]
  <1>1. Output(n, k) \in Maybe
    BY DEF TypeOK, Output, Attempts
  <1>2. QED
    BY <1>1, EnterEffect DEF MoveTo

\* The invariant of calls that nobody touches, for the analysis.
LEMMA AnalysisUntouched ==
    ASSUME IInv, UNCHANGED <<fence, checkpoint, result>>,
           \A k \in Attempts : call'[<<"analyze", k>>] = call[<<"analyze", k>>]
    PROVE  LiveCallOwnsResult' /\ SubmissionsAreOutputs' /\ SubmissionIsKept'
  BY DEF IInv, LiveCallOwnsResult, SubmissionsAreOutputs, SubmissionIsKept, Output, Nodes!Live

\* What renders rely on stays while the conclusion does.
LEMMA RenderUntouched ==
    ASSUME IInv, UNCHANGED <<blobs, artifact>>,
           \A k \in Attempts : call'[<<"render", k>>] = call[<<"render", k>>],
           ReadyToRender => ReadyToRender' /\ Concluded' = Concluded
    PROVE  RendersWhatIsConcluded'
  BY DEF IInv, RendersWhatIsConcluded, Output

\* What renders rely on is there and is not changed by what a step may still
\* do to the result, the gate and the conclusion.
LEMMA ConclusionStays ==
    ASSUME IInv,
           result.status = "succeeded" => result' = result,
           approved # None => approved' = approved,
           gate \in {"absent", "succeeded"} => gate' = gate
    PROVE  ReadyToRender => ReadyToRender' /\ Concluded' = Concluded /\ Concluded # None
  BY DEF IInv, ReadyToRender, Concluded, StepsEndConcluded, SubmissionIsKept

\* What a render reads is an output.
LEMMA ConclusionIsThere ==
    ASSUME IInv, ReadyToRender
    PROVE  Concluded # None
  BY DEF IInv, ReadyToRender, Concluded, StepsEndConcluded, SubmissionIsKept

-----------------------------------------------------------------------------
(* The gate.                                                               *)

Request == [pc : {"idle", "decided", "refused", "concluded", "answered"}, output : Maybe]

\* One request is replaced.
LEMMA RequestEffect ==
    ASSUME TypeOK, NEW r \in Reviewers, NEW new \in Request,
           request' = [request EXCEPT ![r] = new]
    PROVE  /\ request' \in [Reviewers -> Request] /\ request'[r] = new
           /\ \A q \in Reviewers : q # r => request'[q] = request[q]
  BY DEF TypeOK, Request

\* Waiting for a person, and cancelling the run.
LEMMA WaitStep ==
    ASSUME IInv, Await \/ Cancel
    PROVE  IInv' /\ KeepsDelivered
  <1>1. /\ UNCHANGED <<fence, checkpoint, result, approved, blobs, artifact, call, request>>
        /\ gate \in {"waiting", "awaiting"} /\ gate' \in {"awaiting", "cancelled"}
    BY DEF Await, Cancel
  <1>2. TypeOK' /\ StepsEndConcluded' /\ KeepsDelivered
    BY <1>1 DEF IInv, TypeOK, StepsEndConcluded, KeepsDelivered
  <1>3. ReadyToRender => ReadyToRender' /\ Concluded' = Concluded /\ Concluded # None
    BY <1>1, ConclusionStays
  <1>4. RendersWhatIsConcluded'
    BY <1>1, <1>3, RenderUntouched
  <1>5. LiveCallOwnsResult' /\ SubmissionsAreOutputs' /\ SubmissionIsKept'
    BY <1>1, AnalysisUntouched
  <1>6. AnswersAgree'
    BY <1>1, <1>3 DEF IInv, AnswersAgree, At, Output, RendersWhatIsConcluded
  <1>7. QED
    BY <1>2, <1>4, <1>5, <1>6 DEF IInv

\* A person decides.
LEMMA DecideStep ==
    ASSUME IInv, NEW r \in Reviewers, Decide(r), DeliveryAssumption
    PROVE  IInv' /\ KeepsDelivered
  <1>1. PICK o \in Outputs : request' = [request EXCEPT ![r] = [pc |-> "decided", output |-> o]]
    BY DEF Decide
  <1>2. /\ UNCHANGED <<fence, checkpoint, result, gate, approved, blobs, artifact, call>>
        /\ o \in Maybe /\ o # None
    BY DEF Decide, DeliveryAssumption, Maybe
  <1>3. PICK new : new = [pc |-> "decided", output |-> o]
    OBVIOUS
  <1>4. /\ new.pc = "decided" /\ new.output = o
        /\ new \in Request
    BY <1>2, <1>3 DEF Request
  <1>5. /\ request' \in [Reviewers -> Request] /\ request'[r] = new
        /\ \A q \in Reviewers : q # r => request'[q] = request[q]
    BY <1>1, <1>3, <1>4, RequestEffect DEF IInv
  <1>6. TypeOK' /\ KeepsDelivered
    BY <1>2, <1>5 DEF IInv, TypeOK, Request, KeepsDelivered
  <1>7. StepsEndConcluded'
    BY <1>2, <1>4, <1>5 DEF IInv, StepsEndConcluded
  <1>8. ReadyToRender => ReadyToRender' /\ Concluded' = Concluded
    BY <1>2, ConclusionStays
  <1>9. RendersWhatIsConcluded'
    BY <1>2, <1>8, RenderUntouched
  <1>10. LiveCallOwnsResult' /\ SubmissionsAreOutputs' /\ SubmissionIsKept'
    BY <1>2, AnalysisUntouched
  <1>11. AnswersAgree'
    BY <1>2, <1>4, <1>5 DEF IInv, AnswersAgree, At, Output, Concluded
  <1>12. QED
    BY <1>6, <1>7, <1>9, <1>10, <1>11 DEF IInv

\* The conclusion is stored or compared with the stored one.
LEMMA ConcludeStep ==
    ASSUME IInv, NEW r \in Reviewers, CreateHumanApprovedAnalysis(r), DeliveryAssumption
    PROVE  IInv' /\ KeepsDelivered
  <1> DEFINE output == request[r].output
             stored == IF approved = None THEN output ELSE approved
             same == SameBytes(stored, output)
  <1>1. /\ request[r].pc = "decided" /\ gate = "awaiting"
        /\ approved' = IF same THEN stored ELSE approved
        /\ request' = [request EXCEPT ![r].pc = IF same THEN "concluded" ELSE "refused"]
        /\ UNCHANGED <<fence, checkpoint, result, gate, blobs, artifact, call>>
    BY DEF CreateHumanApprovedAnalysis
  <1>2. output \in Maybe /\ output # None /\ stored \in Maybe /\ stored # None /\ request[r] \in Request
    BY <1>1 DEF IInv, TypeOK, StepsEndConcluded, Maybe, Request
  <1>3. same => stored = output
    BY DEF SameBytes
  <1> HIDE DEF same
  <1>4. PICK new : new = [request[r] EXCEPT !.pc = IF same THEN "concluded" ELSE "refused"]
    OBVIOUS
  <1>5. /\ new.pc = (IF same THEN "concluded" ELSE "refused") /\ new.output = output
        /\ new \in Request
    BY <1>2, <1>4 DEF Request
  <1>6. /\ request' \in [Reviewers -> Request] /\ request'[r] = new
        /\ \A q \in Reviewers : q # r => request'[q] = request[q]
    BY <1>1, <1>4, <1>5, RequestEffect DEF IInv
  <1>7. approved' \in Maybe /\ (approved # None => approved' = approved)
    BY <1>1, <1>2 DEF IInv, TypeOK
  <1>8. TypeOK' /\ KeepsDelivered
    BY <1>1, <1>6, <1>7 DEF IInv, TypeOK, Request, KeepsDelivered
  <1>9. StepsEndConcluded'
    BY <1>1, <1>2, <1>5, <1>6, <1>7 DEF IInv, StepsEndConcluded
  <1>10. ReadyToRender => ReadyToRender' /\ Concluded' = Concluded /\ Concluded # None
    BY <1>1, <1>7, ConclusionStays
  <1>11. RendersWhatIsConcluded'
    BY <1>1, <1>10, RenderUntouched
  <1>12. LiveCallOwnsResult' /\ SubmissionsAreOutputs' /\ SubmissionIsKept'
    BY <1>1, AnalysisUntouched
  <1>13. AnswersAgree'
    <2>1. ASSUME NEW q \in Reviewers, request'[q].pc \in {"concluded", "answered"}
          PROVE  approved' = request'[q].output
      <3>1. CASE q = r
        BY <1>1, <1>3, <1>5, <1>6, <2>1, <3>1
      <3>2. CASE q # r
        <4>1. approved = request[q].output /\ request[q].pc \in {"concluded", "answered"}
          BY <1>6, <2>1, <3>2 DEF IInv, AnswersAgree
        <4>2. request[q].output # None
          BY <4>1 DEF IInv, StepsEndConcluded
        <4>3. QED
          BY <1>6, <1>7, <3>2, <4>1, <4>2
      <3>3. QED
        BY <3>1, <3>2
    <2>2. artifact' # None => artifact' = Concluded' /\ artifact' \in blobs'
      BY <1>1, <1>10 DEF IInv, AnswersAgree, RendersWhatIsConcluded
    <2>3. QED
      BY <1>1, <2>1, <2>2 DEF IInv, AnswersAgree, At, Output
  <1>14. QED
    BY <1>8, <1>9, <1>11, <1>12, <1>13 DEF IInv

\* The gate is completed with what was concluded.
LEMMA CompleteGateStep ==
    ASSUME IInv, NEW r \in Reviewers, CompleteGate(r)
    PROVE  IInv' /\ KeepsDelivered
  <1>1. /\ request[r].pc = "concluded" /\ gate = "awaiting" /\ gate' = "succeeded"
        /\ request' = [request EXCEPT ![r].pc = "answered"]
        /\ UNCHANGED <<fence, checkpoint, result, approved, blobs, artifact, call>>
    BY DEF CompleteGate
  <1>2. /\ request[r] \in Request /\ approved = request[r].output /\ request[r].output # None
    BY <1>1 DEF IInv, TypeOK, Request, AnswersAgree, StepsEndConcluded
  <1>3. PICK new : new = [request[r] EXCEPT !.pc = "answered"]
    OBVIOUS
  <1>4. new.pc = "answered" /\ new.output = request[r].output /\ new \in Request
    BY <1>2, <1>3 DEF Request
  <1>5. /\ request' \in [Reviewers -> Request] /\ request'[r] = new
        /\ \A q \in Reviewers : q # r => request'[q] = request[q]
    BY <1>1, <1>3, <1>4, RequestEffect DEF IInv
  <1>6. TypeOK' /\ KeepsDelivered
    BY <1>1, <1>5 DEF IInv, TypeOK, Request, KeepsDelivered
  <1>7. StepsEndConcluded'
    BY <1>1, <1>2, <1>4, <1>5 DEF IInv, StepsEndConcluded
  <1>8. ReadyToRender => ReadyToRender' /\ Concluded' = Concluded
    BY <1>1, ConclusionStays
  <1>9. RendersWhatIsConcluded'
    BY <1>1, <1>8, RenderUntouched
  <1>10. LiveCallOwnsResult' /\ SubmissionsAreOutputs' /\ SubmissionIsKept'
    BY <1>1, AnalysisUntouched
  <1>11. AnswersAgree'
    BY <1>1, <1>2, <1>4, <1>5, <1>8 DEF IInv, AnswersAgree, At, Output, RendersWhatIsConcluded
  <1>12. QED
    BY <1>6, <1>7, <1>9, <1>10, <1>11 DEF IInv

-----------------------------------------------------------------------------
(* knowledge.analyze.                                                      *)

\* What a step of a call of the analysis leaves alone.
LEMMA OutsideAnalysis ==
    ASSUME IInv, UNCHANGED <<gate, approved, blobs, artifact, request>>,
           \A k \in Attempts : call'[<<"render", k>>] = call[<<"render", k>>],
           fence' = fence, result.status = "succeeded" => result' = result,
           \A k \in Attempts : At("analyze", k, "answered")' =>
               result'.status = "succeeded" /\ result'.output = Output("analyze", k)'
    PROVE  AnswersAgree' /\ StepsEndConcluded' /\ RendersWhatIsConcluded' /\ KeepsDelivered
  <1>1. ReadyToRender => ReadyToRender' /\ Concluded' = Concluded
    BY ConclusionStays
  <1>2. RendersWhatIsConcluded'
    BY <1>1, RenderUntouched
  <1>3. StepsEndConcluded'
    BY DEF IInv, StepsEndConcluded
  <1>4. KeepsDelivered
    BY DEF KeepsDelivered
  <1>5. AnswersAgree'
    <2>1. \A k \in Attempts : At("render", k, "answered")' => artifact' = Output("render", k)'
      BY DEF IInv, AnswersAgree, At, Output, Attempts
    <2>2. artifact' # None => artifact' = Concluded' /\ artifact' \in blobs'
      BY <1>1 DEF IInv, AnswersAgree, RendersWhatIsConcluded
    <2>3. \A r \in Reviewers : request'[r].pc \in {"concluded", "answered"} => approved' = request'[r].output
      BY DEF IInv, AnswersAgree
    <2>4. QED
      BY <2>1, <2>2, <2>3 DEF AnswersAgree, At, Attempts
  <1>6. QED
    BY <1>2, <1>3, <1>4, <1>5

\* An attempt takes the result over or finds it there.
LEMMA BeginStep ==
    ASSUME IInv, NEW k \in Attempts, BeginAnalysisResult(k)
    PROVE  IInv' /\ KeepsDelivered
  <1>1. /\ call[<<"analyze", k>>].pc = "begun" /\ Nodes!Live("analyze", k)
        /\ UNCHANGED <<fence, checkpoint, gate, approved, blobs, artifact, request>>
    BY DEF BeginAnalysisResult, At
  <1>2. /\ "analyze" \in Steps /\ {"answered", "agent", "submitted"} \subseteq CallPC
        /\ result.output \in Maybe /\ k \in 0..MaxAttempt
    BY DEF IInv, TypeOK, Steps, CallPC, Attempts
  <1>3. Output("analyze", k) = checkpoint /\ checkpoint \in Maybe
    BY <1>1 DEF IInv, LiveCallOwnsResult, TypeOK
  <1>4. \A j \in Attempts : Nodes!Live("analyze", j) => j = k
    BY <1>1 DEF Nodes!Live
  <1>5. CASE result.status = "succeeded"
    <2>1. Enter("analyze", k, "answered", result.output) /\ result' = result
      BY <1>5 DEF BeginAnalysisResult
    <2>2. /\ call' \in [Steps \X Attempts -> [pc : CallPC, output : Maybe]]
          /\ call'[<<"analyze", k>>].pc = "answered" /\ call'[<<"analyze", k>>].output = result.output
          /\ \A m \in Steps, j \in Attempts : m # "analyze" \/ j # k => call'[<<m, j>>] = call[<<m, j>>]
      BY <1>2, <2>1, EnterEffect DEF IInv
    <2>3. TypeOK'
      BY <1>1, <2>1, <2>2 DEF IInv, TypeOK, Attempts
    <2>4. \A j \in Attempts : At("analyze", j, "answered")' =>
            result'.status = "succeeded" /\ result'.output = Output("analyze", j)'
      BY <1>5, <2>1, <2>2 DEF IInv, AnswersAgree, At, Output, Steps, Attempts
    <2>5. AnswersAgree' /\ StepsEndConcluded' /\ RendersWhatIsConcluded' /\ KeepsDelivered
      BY <1>1, <2>1, <2>2, <2>4, OutsideAnalysis DEF Steps
    <2>6. LiveCallOwnsResult' /\ SubmissionsAreOutputs' /\ SubmissionIsKept'
      BY <1>1, <1>4, <2>1, <2>2 DEF IInv, LiveCallOwnsResult, SubmissionsAreOutputs,
         SubmissionIsKept, Output, Nodes!Live, Steps
    <2>7. QED
      BY <2>3, <2>5, <2>6 DEF IInv
  <1>6. CASE result.status # "succeeded"
    <2>1. PICK pc : pc = IF Output("analyze", k) = None THEN "agent" ELSE "submitted"
      OBVIOUS
    <2>2. /\ MoveTo("analyze", k, pc) /\ pc \in {"agent", "submitted"} /\ pc \in CallPC
          /\ pc = "submitted" => checkpoint # None
          /\ result' = [attempt |-> k, output |-> None, status |-> "running"]
      BY <1>2, <1>3, <1>6, <2>1 DEF BeginAnalysisResult
    <2>3. /\ call' \in [Steps \X Attempts -> [pc : CallPC, output : Maybe]]
          /\ call'[<<"analyze", k>>].pc = pc /\ call'[<<"analyze", k>>].output = checkpoint
          /\ \A m \in Steps, j \in Attempts : m # "analyze" \/ j # k => call'[<<m, j>>] = call[<<m, j>>]
      BY <1>2, <1>3, <2>2, MoveEffect DEF IInv
    <2>4. result'.attempt = k /\ result'.output = None /\ result'.status = "running"
      BY <2>2
    <2>5. TypeOK'
      BY <1>1, <1>2, <2>2, <2>3 DEF IInv, TypeOK, Attempts, Maybe
    <2>6. \A j \in Attempts : ~ At("analyze", j, "answered")'
      BY <1>6, <2>2, <2>3 DEF IInv, AnswersAgree, At, Steps, Attempts
    <2>7. AnswersAgree' /\ StepsEndConcluded' /\ RendersWhatIsConcluded' /\ KeepsDelivered
      BY <1>1, <1>6, <2>3, <2>6, OutsideAnalysis DEF Steps
    <2>8. LiveCallOwnsResult' /\ SubmissionsAreOutputs' /\ SubmissionIsKept'
      <3>1. \A j \in Attempts : j # k => call'[<<"analyze", j>>] = call[<<"analyze", j>>]
        BY <1>2, <2>3
      <3>2. checkpoint' = checkpoint /\ fence' = fence
        BY <1>1
      <3>3. LiveCallOwnsResult'
        BY <1>4, <2>3, <2>4, <3>2 DEF LiveCallOwnsResult, Output, Nodes!Live
      <3>4. SubmissionsAreOutputs'
        BY <1>3, <2>2, <2>3, <3>1 DEF IInv, Maybe, SubmissionsAreOutputs, Output
      <3>5. SubmissionIsKept'
        BY <2>4 DEF SubmissionIsKept
      <3>6. QED
        BY <3>3, <3>4, <3>5
    <2>9. QED
      BY <2>5, <2>7, <2>8 DEF IInv
  <1>7. QED
    BY <1>5, <1>6

\* The tool accepts an output.
LEMMA SubmitStep ==
    ASSUME IInv, NEW k \in Attempts, Submit(k)
    PROVE  IInv' /\ KeepsDelivered
  <1>1. PICK o \in Outputs : Enter("analyze", k, "submitting", o)
    BY DEF Submit
  <1>2. /\ call[<<"analyze", k>>].pc \in {"agent", "saved"}
        /\ UNCHANGED <<fence, checkpoint, result, gate, approved, blobs, artifact, request>>
        /\ o \in Maybe /\ "analyze" \in Steps /\ "submitting" \in CallPC
    BY DEF Submit, At, Maybe, Steps, CallPC
  <1>3. /\ call' \in [Steps \X Attempts -> [pc : CallPC, output : Maybe]]
        /\ call'[<<"analyze", k>>].pc = "submitting" /\ call'[<<"analyze", k>>].output = o
        /\ \A m \in Steps, j \in Attempts : m # "analyze" \/ j # k => call'[<<m, j>>] = call[<<m, j>>]
    BY <1>1, <1>2, EnterEffect DEF IInv
  <1>4. TypeOK'
    BY <1>2, <1>3 DEF IInv, TypeOK, Attempts
  <1>5. \A j \in Attempts : At("analyze", j, "answered")' =>
          result'.status = "succeeded" /\ result'.output = Output("analyze", j)'
    BY <1>2, <1>3 DEF IInv, AnswersAgree, At, Output, Steps, Attempts
  <1>6. AnswersAgree' /\ StepsEndConcluded' /\ RendersWhatIsConcluded' /\ KeepsDelivered
    BY <1>2, <1>3, <1>5, OutsideAnalysis DEF Steps
  <1>7. LiveCallOwnsResult' /\ SubmissionsAreOutputs' /\ SubmissionIsKept'
    BY <1>2, <1>3 DEF IInv, LiveCallOwnsResult, SubmissionsAreOutputs, SubmissionIsKept, Output,
       Nodes!Live, Steps
  <1>8. QED
    BY <1>4, <1>6, <1>7 DEF IInv

\* The submission is saved in the checkpoint.
LEMMA SaveStep ==
    ASSUME IInv, NEW k \in Attempts, SaveCheckpoint(k), DeliveryAssumption
    PROVE  IInv' /\ KeepsDelivered
  <1>1. PICK pc \in {"saved", "submitted"} : MoveTo("analyze", k, pc)
    BY DEF SaveCheckpoint
  <1>2. /\ call[<<"analyze", k>>].pc \in {"submitting", "saved"} /\ Nodes!Live("analyze", k)
        /\ checkpoint' = Output("analyze", k)
        /\ UNCHANGED <<fence, result, gate, approved, blobs, artifact, request>>
        /\ "analyze" \in Steps /\ pc \in CallPC
    BY DEF SaveCheckpoint, At, Steps, CallPC
  <1>3. /\ call' \in [Steps \X Attempts -> [pc : CallPC, output : Maybe]]
        /\ call'[<<"analyze", k>>].pc = pc /\ call'[<<"analyze", k>>].output = Output("analyze", k)
        /\ \A m \in Steps, j \in Attempts : m # "analyze" \/ j # k => call'[<<m, j>>] = call[<<m, j>>]
    BY <1>1, <1>2, MoveEffect DEF IInv
  <1>4. Output("analyze", k) \in Outputs /\ result.status = "running" /\ result.attempt = k
    BY <1>2 DEF IInv, LiveCallOwnsResult, SubmissionsAreOutputs
  <1>5. TypeOK'
    BY <1>2, <1>3, <1>4 DEF IInv, TypeOK, Attempts, Maybe
  <1>6. \A j \in Attempts : At("analyze", j, "answered")' =>
          result'.status = "succeeded" /\ result'.output = Output("analyze", j)'
    BY <1>2, <1>3 DEF IInv, AnswersAgree, At, Output, Steps, Attempts
  <1>7. AnswersAgree' /\ StepsEndConcluded' /\ RendersWhatIsConcluded' /\ KeepsDelivered
    BY <1>2, <1>3, <1>6, OutsideAnalysis DEF Steps
  <1>8. \A j \in Attempts : Nodes!Live("analyze", j) => j = k
    BY <1>2 DEF Nodes!Live
  <1>9. LiveCallOwnsResult' /\ SubmissionsAreOutputs' /\ SubmissionIsKept'
    BY <1>2, <1>3, <1>4, <1>8 DEF IInv, LiveCallOwnsResult, SubmissionsAreOutputs,
       SubmissionIsKept, Output, Nodes!Live, Steps
  <1>10. QED
    BY <1>5, <1>7, <1>9 DEF IInv

\* The submission becomes the result.
LEMMA CompleteStep ==
    ASSUME IInv, NEW k \in Attempts, CompleteAnalysisResult(k), DeliveryAssumption
    PROVE  IInv' /\ KeepsDelivered
  <1>1. /\ call[<<"analyze", k>>].pc = "submitted" /\ Nodes!Live("analyze", k)
        /\ result.status = "running" /\ result.attempt = k
        /\ result' = [result EXCEPT !.status = "succeeded", !.output = Output("analyze", k)]
        /\ MoveTo("analyze", k, "answered")
        /\ UNCHANGED <<fence, checkpoint, gate, approved, blobs, artifact, request>>
        /\ "analyze" \in Steps /\ "answered" \in CallPC
    BY DEF CompleteAnalysisResult, Completable, At, Steps, CallPC
  <1>2. /\ call' \in [Steps \X Attempts -> [pc : CallPC, output : Maybe]]
        /\ call'[<<"analyze", k>>].pc = "answered" /\ call'[<<"analyze", k>>].output = Output("analyze", k)
        /\ \A m \in Steps, j \in Attempts : m # "analyze" \/ j # k => call'[<<m, j>>] = call[<<m, j>>]
    BY <1>1, MoveEffect DEF IInv
  <1>3. Output("analyze", k) \in Outputs /\ Output("analyze", k) = checkpoint
    BY <1>1 DEF IInv, LiveCallOwnsResult, SubmissionsAreOutputs
  <1>4. result'.status = "succeeded" /\ result'.output = checkpoint /\ result'.attempt = k
    BY <1>1, <1>3 DEF IInv, TypeOK
  <1>5. TypeOK'
    BY <1>1, <1>2, <1>3 DEF IInv, TypeOK, Attempts, Maybe
  <1>6. \A j \in Attempts : At("analyze", j, "answered")' =>
          result'.status = "succeeded" /\ result'.output = Output("analyze", j)'
    BY <1>1, <1>2, <1>3, <1>4 DEF IInv, AnswersAgree, At, Output, Steps, Attempts
  <1>7. AnswersAgree' /\ StepsEndConcluded' /\ RendersWhatIsConcluded' /\ KeepsDelivered
    BY <1>1, <1>2, <1>6, OutsideAnalysis DEF Steps
  <1>8. \A j \in Attempts : Nodes!Live("analyze", j) => j = k
    BY <1>1 DEF Nodes!Live
  <1>9. LiveCallOwnsResult' /\ SubmissionsAreOutputs' /\ SubmissionIsKept'
    BY <1>1, <1>2, <1>3, <1>4, <1>8 DEF IInv, LiveCallOwnsResult, SubmissionsAreOutputs,
       SubmissionIsKept, Output, Nodes!Live, Steps, DeliveryAssumption
  <1>10. QED
    BY <1>5, <1>7, <1>9 DEF IInv

\* An attempt that fails keeps its output to itself.
LEMMA FailStep ==
    ASSUME IInv, NEW k \in Attempts, AnalysisFails(k) \/ FailAnalysisResult(k)
    PROVE  IInv' /\ KeepsDelivered
  <1>1. PICK pc \in {"failing", "stopped"} : MoveTo("analyze", k, pc)
    BY DEF AnalysisFails, FailAnalysisResult
  <1>2. /\ UNCHANGED <<fence, checkpoint, gate, approved, blobs, artifact, request>>
        /\ "analyze" \in Steps /\ pc \in CallPC
    BY DEF AnalysisFails, FailAnalysisResult, Steps, CallPC
  <1>3. /\ call' \in [Steps \X Attempts -> [pc : CallPC, output : Maybe]]
        /\ call'[<<"analyze", k>>].pc = pc
        /\ \A m \in Steps, j \in Attempts : m # "analyze" \/ j # k => call'[<<m, j>>] = call[<<m, j>>]
    BY <1>1, <1>2, MoveEffect DEF IInv
  <1>4. \/ result' = result
        \/ /\ Nodes!Live("analyze", k) /\ result.status # "succeeded"
           /\ result' = [result EXCEPT !.status = "failed"]
    BY DEF AnalysisFails, FailAnalysisResult
  <1>5. TypeOK'
    BY <1>2, <1>3, <1>4 DEF IInv, TypeOK, Attempts
  <1>6. /\ result.status = "succeeded" => result' = result
        /\ result'.status = "succeeded" => result' = result
    BY <1>4 DEF IInv, TypeOK
  <1>7. \A j \in Attempts : At("analyze", j, "answered")' =>
          result'.status = "succeeded" /\ result'.output = Output("analyze", j)'
    BY <1>3, <1>6 DEF IInv, AnswersAgree, At, Output, Steps, Attempts
  <1>8. AnswersAgree' /\ StepsEndConcluded' /\ RendersWhatIsConcluded' /\ KeepsDelivered
    BY <1>2, <1>3, <1>6, <1>7, OutsideAnalysis DEF Steps
  <1>9. \A j \in Attempts : Nodes!Live("analyze", k) /\ Nodes!Live("analyze", j) => j = k
    BY DEF Nodes!Live
  <1>10. LiveCallOwnsResult' /\ SubmissionsAreOutputs' /\ SubmissionIsKept'
    BY <1>2, <1>3, <1>4, <1>6, <1>9 DEF IInv, LiveCallOwnsResult, SubmissionsAreOutputs,
       SubmissionIsKept, Output, Nodes!Live, Steps
  <1>11. QED
    BY <1>5, <1>8, <1>10 DEF IInv

-----------------------------------------------------------------------------
(* artifact.render.                                                        *)

\* What a step of a call of the render leaves alone, and what is left to show.
LEMMA OutsideRender ==
    ASSUME IInv, UNCHANGED <<fence, checkpoint, result, gate, approved, request>>,
           \A k \in Attempts : call'[<<"analyze", k>>] = call[<<"analyze", k>>],
           artifact # None => artifact' = artifact,
           \A k \in Attempts : At("render", k, "answered")' => artifact' = Output("render", k)',
           artifact' # None => artifact' = Concluded /\ artifact' \in blobs'
    PROVE  /\ LiveCallOwnsResult' /\ SubmissionsAreOutputs' /\ SubmissionIsKept'
           /\ StepsEndConcluded' /\ AnswersAgree' /\ KeepsDelivered
           /\ Concluded' = Concluded /\ (ReadyToRender => ReadyToRender')
  <1>1. Concluded' = Concluded /\ (ReadyToRender => ReadyToRender')
    BY DEF Concluded, ReadyToRender
  <1>2. LiveCallOwnsResult' /\ SubmissionsAreOutputs' /\ SubmissionIsKept'
    BY AnalysisUntouched
  <1>3. StepsEndConcluded' /\ KeepsDelivered
    BY DEF IInv, StepsEndConcluded, KeepsDelivered
  <1>4. \A k \in Attempts : At("analyze", k, "answered")' =>
          result'.status = "succeeded" /\ result'.output = Output("analyze", k)'
    BY DEF IInv, AnswersAgree, At, Output, Attempts
  <1>5. \A r \in Reviewers : request'[r].pc \in {"concluded", "answered"} => approved' = request'[r].output
    BY DEF IInv, AnswersAgree
  <1>6. AnswersAgree'
    BY <1>1, <1>4, <1>5 DEF AnswersAgree, At, Attempts
  <1>7. QED
    BY <1>1, <1>2, <1>3, <1>6

\* A render reads what was concluded.
LEMMA ReadStep ==
    ASSUME IInv, NEW k \in Attempts, ReadResult(k)
    PROVE  IInv' /\ KeepsDelivered
  <1>1. PICK output : output = Concluded
    OBVIOUS
  <1>2. /\ call[<<"render", k>>].pc = "begun" /\ Enter("render", k, "read", output)
        /\ UNCHANGED <<fence, checkpoint, result, gate, approved, blobs, artifact, request>>
        /\ output \in Maybe /\ "render" \in Steps /\ "read" \in CallPC
    BY <1>1 DEF ReadResult, At, Steps, CallPC, IInv, TypeOK, Concluded
  <1>3. /\ call' \in [Steps \X Attempts -> [pc : CallPC, output : Maybe]]
        /\ call'[<<"render", k>>].pc = "read" /\ call'[<<"render", k>>].output = output
        /\ \A m \in Steps, j \in Attempts : m # "render" \/ j # k => call'[<<m, j>>] = call[<<m, j>>]
    BY <1>2, EnterEffect DEF IInv
  <1>4. TypeOK'
    BY <1>2, <1>3 DEF IInv, TypeOK, Attempts
  <1>5. \A j \in Attempts : At("render", j, "answered")' => artifact' = Output("render", j)'
    BY <1>2, <1>3 DEF IInv, AnswersAgree, At, Output, Steps, Attempts
  <1>6. artifact' # None => artifact' = Concluded /\ artifact' \in blobs'
    BY <1>2 DEF IInv, AnswersAgree
  <1>7. /\ LiveCallOwnsResult' /\ SubmissionsAreOutputs' /\ SubmissionIsKept'
        /\ StepsEndConcluded' /\ AnswersAgree' /\ KeepsDelivered
        /\ Concluded' = Concluded /\ (ReadyToRender => ReadyToRender')
    BY <1>2, <1>3, <1>5, <1>6, OutsideRender DEF Steps
  <1>8. RendersWhatIsConcluded'
    BY <1>1, <1>2, <1>3, <1>7 DEF IInv, RendersWhatIsConcluded, Output, Steps
  <1>9. QED
    BY <1>4, <1>7, <1>8 DEF IInv

\* The content is put into the store.
LEMMA PutStep ==
    ASSUME IInv, NEW k \in Attempts, PutBlob(k), DeliveryAssumption
    PROVE  IInv' /\ KeepsDelivered
  <1>1. /\ call[<<"render", k>>].pc = "read" /\ MoveTo("render", k, "stored")
        /\ blobs' = blobs \cup {Output("render", k)}
        /\ UNCHANGED <<fence, checkpoint, result, gate, approved, artifact, request>>
        /\ "render" \in Steps /\ "stored" \in CallPC
    BY DEF PutBlob, At, Steps, CallPC
  <1>2. /\ call' \in [Steps \X Attempts -> [pc : CallPC, output : Maybe]]
        /\ call'[<<"render", k>>].pc = "stored" /\ call'[<<"render", k>>].output = Output("render", k)
        /\ \A m \in Steps, j \in Attempts : m # "render" \/ j # k => call'[<<m, j>>] = call[<<m, j>>]
    BY <1>1, MoveEffect DEF IInv
  <1>3. /\ ReadyToRender /\ Output("render", k) = Concluded
        /\ Concluded # None /\ Concluded \in Maybe
    <2>1. ReadyToRender /\ Output("render", k) = Concluded
      BY <1>1 DEF IInv, RendersWhatIsConcluded
    <2>2. Concluded # None
      BY <2>1, ConclusionIsThere
    <2>3. QED
      BY <2>1, <2>2 DEF IInv, TypeOK, Concluded
  <1>4. TypeOK'
    BY <1>1, <1>2, <1>3 DEF IInv, TypeOK, Attempts, Maybe
  <1>5. \A j \in Attempts : At("render", j, "answered")' => artifact' = Output("render", j)'
    BY <1>1, <1>2 DEF IInv, AnswersAgree, At, Output, Steps, Attempts
  <1>6. artifact' # None => artifact' = Concluded /\ artifact' \in blobs'
    BY <1>1 DEF IInv, AnswersAgree
  <1>7. /\ LiveCallOwnsResult' /\ SubmissionsAreOutputs' /\ SubmissionIsKept'
        /\ StepsEndConcluded' /\ AnswersAgree' /\ KeepsDelivered
        /\ Concluded' = Concluded /\ (ReadyToRender => ReadyToRender')
    BY <1>1, <1>2, <1>5, <1>6, OutsideRender DEF Steps
  <1>8. RendersWhatIsConcluded'
    BY <1>1, <1>2, <1>3, <1>7 DEF IInv, RendersWhatIsConcluded, Output, Steps
  <1>9. QED
    BY <1>4, <1>7, <1>8 DEF IInv

\* The row of the artifact is written.
LEMMA ArtifactStep ==
    ASSUME IInv, NEW k \in Attempts, CreateArtifactForNode(k)
    PROVE  IInv' /\ KeepsDelivered
  <1>1. /\ call[<<"render", k>>].pc = "stored" /\ MoveTo("render", k, "answered")
        /\ artifact \in {None, Output("render", k)} /\ artifact' = Output("render", k)
        /\ UNCHANGED <<fence, checkpoint, result, gate, approved, blobs, request>>
        /\ "render" \in Steps /\ "answered" \in CallPC
    BY DEF CreateArtifactForNode, At, Steps, CallPC
  <1>2. /\ call' \in [Steps \X Attempts -> [pc : CallPC, output : Maybe]]
        /\ call'[<<"render", k>>].pc = "answered" /\ call'[<<"render", k>>].output = Output("render", k)
        /\ \A m \in Steps, j \in Attempts : m # "render" \/ j # k => call'[<<m, j>>] = call[<<m, j>>]
    BY <1>1, MoveEffect DEF IInv
  <1>3. /\ ReadyToRender /\ Output("render", k) = Concluded
        /\ Output("render", k) \in blobs /\ Concluded # None /\ Concluded \in Maybe
    <2>1. ReadyToRender /\ Output("render", k) = Concluded /\ Output("render", k) \in blobs
      BY <1>1 DEF IInv, RendersWhatIsConcluded
    <2>2. Concluded # None
      BY <2>1, ConclusionIsThere
    <2>3. QED
      BY <2>1, <2>2 DEF IInv, TypeOK, Concluded
  <1>4. TypeOK'
    BY <1>1, <1>2, <1>3 DEF IInv, TypeOK, Attempts
  <1>5. \A j \in Attempts : At("render", j, "answered")' => artifact' = Output("render", j)'
    <2>1. ASSUME NEW j \in Attempts, j # k, At("render", j, "answered")'
          PROVE  artifact' = Output("render", j)'
      <3>1. /\ call'[<<"render", j>>] = call[<<"render", j>>]
            /\ call[<<"render", j>>].pc = "answered"
        BY <1>1, <1>2, <2>1 DEF At
      <3>2. Output("render", j) = Concluded
        BY <3>1 DEF IInv, RendersWhatIsConcluded
      <3>3. QED
        BY <1>1, <1>3, <3>1, <3>2 DEF Output
    <2>2. QED
      BY <1>1, <1>2, <2>1 DEF Output
  <1>6. artifact' # None => artifact' = Concluded /\ artifact' \in blobs'
    BY <1>1, <1>3
  <1>7. /\ LiveCallOwnsResult' /\ SubmissionsAreOutputs' /\ SubmissionIsKept'
        /\ StepsEndConcluded' /\ AnswersAgree' /\ KeepsDelivered
        /\ Concluded' = Concluded /\ (ReadyToRender => ReadyToRender')
    BY <1>1, <1>2, <1>5, <1>6, OutsideRender DEF Steps
  <1>8. RendersWhatIsConcluded'
    BY <1>1, <1>2, <1>3, <1>7 DEF IInv, RendersWhatIsConcluded, Output, Steps
  <1>9. QED
    BY <1>4, <1>7, <1>8 DEF IInv

-----------------------------------------------------------------------------
(* The node runs.                                                          *)

\* A claim gives the step its next attempt, a settlement ends it.
LEMMA FenceEffect ==
    ASSUME TypeOK, NEW n \in Steps, DeliveryAssumption
    PROVE  /\ Nodes!Claim(n) =>
                /\ fence' \in [Steps -> Nodes!Fence]
                /\ fence[n].attempt + 1 \in Attempts
                /\ fence[n].phase = "idle" /\ fence'[n].phase = "live"
                /\ fence'[n].attempt = fence[n].attempt + 1
                /\ \A m \in Steps : m # n => fence'[m] = fence[m]
           /\ Nodes!Lose(n) =>
                /\ fence' \in [Steps -> Nodes!Fence]
                /\ fence[n].phase = "live" /\ fence'[n].phase = "idle"
                /\ \A m \in Steps : m # n => fence'[m] = fence[m]
           /\ Nodes!Settle(n) =>
                /\ fence' \in [Steps -> Nodes!Fence]
                /\ fence'[n].phase = "final"
                /\ \A m \in Steps : m # n => fence'[m] = fence[m]
  <1>1. /\ fence \in [Steps -> Nodes!Fence] /\ fence[n] \in Nodes!Fence
        /\ MaxAttempt \in Nat
    BY DEF TypeOK, DeliveryAssumption
  <1>2. ASSUME Nodes!Claim(n)
        PROVE  /\ fence' \in [Steps -> Nodes!Fence]
               /\ fence[n].attempt + 1 \in Attempts
               /\ fence[n].phase = "idle" /\ fence'[n].phase = "live"
               /\ fence'[n].attempt = fence[n].attempt + 1
               /\ \A m \in Steps : m # n => fence'[m] = fence[m]
    <2>1. PICK new : new = [attempt |-> fence[n].attempt + 1, phase |-> "live"]
      OBVIOUS
    <2>2. new \in Nodes!Fence /\ new.attempt = fence[n].attempt + 1 /\ new.phase = "live"
      BY <1>1, <1>2, <2>1 DEF Nodes!Fence, Nodes!Claim
    <2>3. fence' = [fence EXCEPT ![n] = new]
      BY <1>1, <1>2, <2>1 DEF Nodes!Claim, Nodes!Fence
    <2>4. QED
      BY <1>1, <1>2, <2>2, <2>3 DEF Nodes!Claim, Nodes!Fence, Attempts
  <1>3. ASSUME Nodes!Lose(n)
        PROVE  /\ fence' \in [Steps -> Nodes!Fence]
               /\ fence[n].phase = "live" /\ fence'[n].phase = "idle"
               /\ \A m \in Steps : m # n => fence'[m] = fence[m]
    BY <1>1, <1>3 DEF Nodes!Lose, Nodes!Fence
  <1>4. ASSUME Nodes!Settle(n)
        PROVE  /\ fence' \in [Steps -> Nodes!Fence]
               /\ fence'[n].phase = "final"
               /\ \A m \in Steps : m # n => fence'[m] = fence[m]
    BY <1>1, <1>4 DEF Nodes!Settle, Nodes!Fence
  <1>5. QED
    BY <1>2, <1>3, <1>4

\* A new attempt begins with what the last one saved.
LEMMA ClaimStep ==
    ASSUME IInv, NEW n \in Steps, Claim(n), DeliveryAssumption
    PROVE  IInv' /\ KeepsDelivered
  <1>1. PICK k : k = fence[n].attempt + 1
    OBVIOUS
  <1>2. PICK output : output = IF n = "analyze" THEN checkpoint ELSE None
    OBVIOUS
  <1>3. /\ k \in Attempts
        /\ fence' \in [Steps -> Nodes!Fence]
        /\ fence[n].phase = "idle" /\ fence'[n].phase = "live" /\ fence'[n].attempt = k
        /\ \A m \in Steps : m # n => fence'[m] = fence[m]
    BY <1>1, FenceEffect DEF IInv, Claim
  <1>4. /\ Enter(n, k, "begun", output) /\ Ready(n)
        /\ UNCHANGED <<checkpoint, result, gate, approved, blobs, artifact, request>>
        /\ output \in Maybe /\ "begun" \in CallPC
    BY <1>1, <1>2 DEF Claim, CallPC, Maybe, IInv, TypeOK
  <1>5. /\ call' \in [Steps \X Attempts -> [pc : CallPC, output : Maybe]]
        /\ call'[<<n, k>>].pc = "begun" /\ call'[<<n, k>>].output = output
        /\ \A m \in Steps, j \in Attempts : m # n \/ j # k => call'[<<m, j>>] = call[<<m, j>>]
    BY <1>3, <1>4, EnterEffect DEF IInv
  <1>6. TypeOK'
    BY <1>3, <1>4, <1>5 DEF IInv, TypeOK, Attempts
  <1>7. StepsEndConcluded' /\ SubmissionIsKept' /\ KeepsDelivered
    BY <1>3, <1>4 DEF IInv, StepsEndConcluded, SubmissionIsKept, KeepsDelivered, Steps
  <1>8. Concluded' = Concluded /\ (ReadyToRender <=> ReadyToRender')
    BY <1>4 DEF Concluded, ReadyToRender
  <1>9. AnswersAgree'
    <2>1. \A j \in Attempts : At("analyze", j, "answered")' =>
            result'.status = "succeeded" /\ result'.output = Output("analyze", j)'
      BY <1>4, <1>5 DEF IInv, AnswersAgree, At, Output, Steps, Attempts
    <2>2. \A j \in Attempts : At("render", j, "answered")' => artifact' = Output("render", j)'
      BY <1>4, <1>5 DEF IInv, AnswersAgree, At, Output, Steps, Attempts
    <2>3. /\ \A r \in Reviewers : request'[r].pc \in {"concluded", "answered"} => approved' = request'[r].output
          /\ artifact' # None => artifact' = Concluded' /\ artifact' \in blobs'
      BY <1>4, <1>8 DEF IInv, AnswersAgree
    <2>4. QED
      BY <2>1, <2>2, <2>3 DEF AnswersAgree, At, Attempts
  <1>10. LiveCallOwnsResult'
    BY <1>2, <1>3, <1>4, <1>5 DEF IInv, LiveCallOwnsResult, Output, Nodes!Live, Steps
  <1>11. SubmissionsAreOutputs'
    BY <1>5 DEF IInv, SubmissionsAreOutputs, Output, Steps
  <1>12. n = "render" => ReadyToRender
    BY <1>4 DEF Ready, ReadyToRender, IInv, StepsEndConcluded
  <1>13. RendersWhatIsConcluded'
    BY <1>4, <1>5, <1>8, <1>12 DEF IInv, RendersWhatIsConcluded, Output, Steps
  <1>14. QED
    BY <1>6, <1>7, <1>9, <1>10, <1>11, <1>13 DEF IInv

\* An attempt that loses its lease, and one that ends its node.
LEMMA EndStep ==
    ASSUME IInv, NEW n \in Steps, DeliveryAssumption,
           Lose(n) \/ \E k \in Attempts : Settle(n, k)
    PROVE  IInv' /\ KeepsDelivered
  <1>1. /\ UNCHANGED <<checkpoint, result, gate, approved, blobs, artifact, call, request>>
        /\ fence' \in [Steps -> Nodes!Fence]
        /\ fence'[n].phase \in {"idle", "final"}
        /\ \A m \in Steps : m # n => fence'[m] = fence[m]
    BY FenceEffect DEF IInv, Lose, Settle
  <1>2. n = "analyze" /\ fence'[n].phase = "final" => result.status = "succeeded"
    <2>1. CASE Lose(n)
      BY <2>1, FenceEffect DEF IInv, Lose
    <2>2. ASSUME NEW k \in Attempts, Settle(n, k), n = "analyze"
          PROVE  result.status = "succeeded"
      BY <2>2 DEF IInv, Settle, AnswersAgree, At, Attempts
    <2>3. QED
      BY <2>1, <2>2
  <1>3. TypeOK'
    BY <1>1 DEF IInv, TypeOK
  <1>4. StepsEndConcluded' /\ SubmissionIsKept' /\ SubmissionsAreOutputs' /\ KeepsDelivered
    BY <1>1, <1>2 DEF IInv, StepsEndConcluded, SubmissionIsKept, SubmissionsAreOutputs, Output,
       KeepsDelivered, Steps
  <1>5. LiveCallOwnsResult'
    BY <1>1 DEF IInv, LiveCallOwnsResult, Output, Nodes!Live, Steps
  <1>6. RendersWhatIsConcluded' /\ AnswersAgree'
    BY <1>1 DEF IInv, RendersWhatIsConcluded, AnswersAgree, ReadyToRender, Concluded, At, Output
  <1>7. QED
    BY <1>3, <1>4, <1>5, <1>6 DEF IInv

-----------------------------------------------------------------------------
(* The theorems.                                                           *)

\* The invariant holds at first.
LEMMA InitInvariant ==
    ASSUME DeliveryAssumption, Init
    PROVE  IInv
  <1>1. TypeOK
    BY DEF DeliveryAssumption, Init, Nodes!Init, Nodes!Fence, TypeOK, Maybe, CallPC
  <1>2. \A n \in Steps, k \in Attempts : call[<<n, k>>].pc = "none" /\ ~ Nodes!Live(n, k)
    BY DEF Init, Nodes!Init, Nodes!Live, Attempts
  <1>3. /\ AnswersAgree /\ SubmissionIsKept /\ LiveCallOwnsResult
        /\ SubmissionsAreOutputs /\ StepsEndConcluded /\ RendersWhatIsConcluded
    BY <1>2 DEF Init, Nodes!Init, AnswersAgree, SubmissionIsKept, LiveCallOwnsResult,
       SubmissionsAreOutputs, StepsEndConcluded, RendersWhatIsConcluded, At, Attempts, Steps
  <1>4. QED
    BY <1>1, <1>3 DEF IInv

\* Every step keeps the invariant and what is delivered.
LEMMA InvariantStep ==
    ASSUME DeliveryAssumption, IInv, [Next]_vars
    PROVE  IInv' /\ KeepsDelivered
  <1>1. ASSUME NEW n \in Steps, Claim(n)
        PROVE  IInv' /\ KeepsDelivered
    BY <1>1, ClaimStep
  <1>2. ASSUME NEW n \in Steps, Lose(n) \/ \E k \in Attempts : Settle(n, k)
        PROVE  IInv' /\ KeepsDelivered
    BY <1>2, EndStep
  <1>3. ASSUME NEW k \in Attempts,
               \/ BeginAnalysisResult(k) \/ Submit(k) \/ SaveCheckpoint(k)
               \/ CompleteAnalysisResult(k) \/ AnalysisFails(k) \/ FailAnalysisResult(k)
               \/ ReadResult(k) \/ PutBlob(k) \/ CreateArtifactForNode(k)
        PROVE  IInv' /\ KeepsDelivered
    BY <1>3, BeginStep, SubmitStep, SaveStep, CompleteStep, FailStep, ReadStep, PutStep, ArtifactStep
  <1>4. CASE Await \/ Cancel
    BY <1>4, WaitStep
  <1>5. ASSUME NEW r \in Reviewers,
               Decide(r) \/ CreateHumanApprovedAnalysis(r) \/ CompleteGate(r)
        PROVE  IInv' /\ KeepsDelivered
    BY <1>5, DecideStep, ConcludeStep, CompleteGateStep
  <1>6. CASE UNCHANGED vars
    BY <1>6 DEF vars, IInv, TypeOK, AnswersAgree, SubmissionIsKept, LiveCallOwnsResult,
       SubmissionsAreOutputs, StepsEndConcluded, RendersWhatIsConcluded, ReadyToRender,
       Concluded, At, Output, Nodes!Live, KeepsDelivered
  <1>7. QED
    BY <1>1, <1>2, <1>3, <1>4, <1>5, <1>6 DEF Next, Attempts

\* Every interleaving of attempts, people and lost leases keeps the invariant.
THEOREM DeliveryInvariant ==
    ASSUME DeliveryAssumption
    PROVE  Spec => []IInv
  <1>1. Init => IInv
    BY InitInvariant
  <1>2. IInv /\ [Next]_vars => IInv'
    BY InvariantStep
  <1>3. QED
    BY <1>1, <1>2, PTL DEF Spec

\* Every variable keeps a value of its type.
THEOREM DeliveryTypeCorrect ==
    ASSUME DeliveryAssumption
    PROVE  Spec => []TypeOK
  <1>1. IInv => TypeOK
    BY DEF IInv
  <1>2. QED
    BY <1>1, DeliveryInvariant, PTL

\* Who is told that the analysis, the gate or the artifact is complete finds
\* its own output stored, and the artifact is made of what was concluded.
THEOREM DeliveryAnswersAgree ==
    ASSUME DeliveryAssumption
    PROVE  Spec => []AnswersAgree
  <1>1. IInv => AnswersAgree
    BY DEF IInv
  <1>2. QED
    BY <1>1, DeliveryInvariant, PTL

\* The result that succeeds is the submission that the checkpoint holds, also
\* if the attempt that saved it is gone.
THEOREM SubmissionSurvives ==
    ASSUME DeliveryAssumption
    PROVE  Spec => []SubmissionIsKept
  <1>1. IInv => SubmissionIsKept
    BY DEF IInv
  <1>2. QED
    BY <1>1, DeliveryInvariant, PTL

\* A result that succeeded, a conclusion and an artifact are never changed.
THEOREM DeliveredStays ==
    ASSUME DeliveryAssumption
    PROVE  Spec => DeliveredIsFrozen
  <1>1. IInv /\ [Next]_vars => KeepsDelivered
    BY InvariantStep
  <1>2. QED
    BY <1>1, DeliveryInvariant, PTL DEF Spec, DeliveredIsFrozen

=============================================================================
