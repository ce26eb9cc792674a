-------------------------- MODULE WorkflowRuntime --------------------------
(***************************************************************************)
(* The linear workflow runtime: the workflow_runs and workflow_node_runs   *)
(* rows, the worker loop RuntimeWorker.Run / RuntimeService.RunOnce of     *)
(* every server process, and the user's Start, Pause, Resume, Retry and    *)
(* CompleteManual requests.                                                *)
(*                                                                         *)
(* One action is one database transaction (or one in-memory step) of the   *)
(* source.  Every transaction locks the rows it reads to decide, so it is  *)
(* atomic; everything between two transactions of one call is an           *)
(* interleaving point and a place where the process may die.               *)
(*                                                                         *)
(* Time is abstract: a lease is live until LeaseExpires, a retry_at is in  *)
(* the future until RetryBecomesDue.                                       *)
(***************************************************************************)
EXTENDS Integers

CONSTANTS
    Runs,           \* identifiers of the workflow runs
    Processes,      \* server processes: one RuntimeWorker and the HTTP API each
    NodeCount,      \* number of nodes of the (linear) revision
    ManualCapable,  \* ordinals whose capability declares ManualCompletion
    RetryLimit,     \* RuntimeService.retry
    MaxAttempt,     \* bound: a node run is not claimed more often than this
    NoOwner         \* the empty lease_owner

Ordinals == 1..NodeCount

ASSUME RuntimeAssumption ==
    /\ Runs # {}
    /\ NodeCount \in Nat \ {0}
    /\ ManualCapable \subseteq Ordinals
    /\ RetryLimit \in Nat
    /\ MaxAttempt \in Nat
    /\ NoOwner \notin Processes

NodeRuns == Runs \X Ordinals

RunStatus == {"queued", "running", "pausing", "paused",
              "awaiting_manual_completion", "failed", "succeeded"}

NodeStatus == {"pending", "queued", "running", "retry_wait",
               "awaiting_manual_completion", "failed", "succeeded"}

VARIABLES
    run,      \* workflow_runs: status, and the ordinal of current_node_id (0: "")
    node,     \* workflow_node_runs with their output and input bindings
    worker,   \* the RunOnce call each process is in, and its local variables
    cancels,  \* <<p, r>>: Pause of r committed in p, active.Load not yet called
    manual    \* <<n, a>>: CompleteManual in flight between its two transactions

vars == <<run, node, worker, cancels, manual>>

RunRow == [status : RunStatus, current : 0..NodeCount]

(* checkpoint is the attempt that wrote the checkpoint column (0: the '{}' *)
(* of creation); output is the attempt whose results are bound to the      *)
(* output ports (0: none); input the attempt of the previous node whose    *)
(* outputs were propagated to the input ports (0: none).                   *)
NodeRow == [status : NodeStatus, attempt : 0..MaxAttempt,
            owner : Processes \cup {NoOwner},
            lease : {"none", "live", "expired"},
            retry : {"none", "waiting", "due"},
            checkpoint : 0..MaxAttempt, output : 0..MaxAttempt,
            input : 0..MaxAttempt]

(* Where a worker stands in RunOnce.  "down": no process.  "exited":       *)
(* RuntimeWorker.Run returned but the process still serves the API.        *)
WorkerPC == {"down", "polling", "claimed", "halting", "ready",
             "executing", "returned", "exited"}

Outcomes == {"none", "completed", "awaiting", "retryable", "fatal"}

Worker == [pc : WorkerPC, at : NodeRuns, attempt : 0..MaxAttempt,
           base : 0..MaxAttempt,
           cancelled : BOOLEAN, lost : BOOLEAN, outcome : Outcomes]

\* A process that is in no RunOnce call.
Outside(pc) == [pc |-> pc, at |-> CHOOSE n \in NodeRuns : TRUE, attempt |-> 0,
                base |-> 0, cancelled |-> FALSE, lost |-> FALSE, outcome |-> "none"]

NewNode == [status |-> "pending", attempt |-> 0, owner |-> NoOwner,
            lease |-> "none", retry |-> "none",
            checkpoint |-> 0, output |-> 0, input |-> 0]

-----------------------------------------------------------------------------
(* Helpers.                                                                *)

Following(n) == <<n[1], n[2] + 1>>

IsLast(n) == n[2] = NodeCount

CurrentNode(r) == <<r, run[r].current>>

Up(p) == worker[p].pc # "down"

\* Between active.Store and the deferred active.Delete of RunOnce.
Active(p, r) ==
    /\ worker[p].pc \in {"executing", "returned"}
    /\ worker[p].at[1] = r

\* Mutant: lease_until is not compared with the clock.
HoldsLeaseAnyTime(p) ==
    LET n == node[worker[p].at]
    IN  n.status = "running" /\ n.attempt = worker[p].attempt /\ n.owner = p

\* Mutant: only the attempt is compared.
HoldsLeaseByAttempt(p) == node[worker[p].at].attempt = worker[p].attempt

\* The condition of lockNodeAndRun and of the fenced UPDATE statements.
HoldsLease(p) ==
    LET w == worker[p]
        n == node[w.at]
    IN  /\ n.status = "running"
        /\ n.attempt = w.attempt
        /\ n.owner = p
        /\ n.lease = "live"

\* Mutant: expired running rows are not matched.
ClaimableNoTakeover(n) ==
    /\ \/ node[n].status = "queued"
       \/ node[n].status = "retry_wait" /\ node[n].retry = "due"
    /\ run[n[1]].status \in {"running", "pausing"}

\* Mutant: nodes of a pausing run are not matched.
ClaimableRunningOnly(n) ==
    /\ \/ node[n].status = "queued"
       \/ node[n].status = "retry_wait" /\ node[n].retry = "due"
       \/ node[n].status = "running" /\ node[n].lease = "expired"
    /\ run[n[1]].status = "running"

\* Mutant: lease_until is not compared with the clock.
ClaimableUnderLease(n) ==
    /\ \/ node[n].status \in {"queued", "running"}
       \/ node[n].status = "retry_wait" /\ node[n].retry = "due"
    /\ run[n[1]].status \in {"running", "pausing"}

\* Rows that match the WHERE clause of ClaimWorkflowNode.
Claimable(n) ==
    /\ \/ node[n].status = "queued"
       \/ node[n].status = "retry_wait" /\ node[n].retry = "due"
       \/ node[n].status = "running" /\ node[n].lease = "expired"
    /\ run[n[1]].status \in {"running", "pausing"}

\* Mutant: lease_until is not cleared.
ReleasedKeepsLease(n, status) ==
    [node[n] EXCEPT !.status = status, !.owner = NoOwner]

\* A node row that leaves "running": owner and lease are cleared with it.
Released(n, status) ==
    [node[n] EXCEPT !.status = status, !.owner = NoOwner, !.lease = "none"]

SetRun(r, status, current) ==
    run' = [run EXCEPT ![r] = [status |-> status, current |-> current]]

\* RunOnce returned nil: the loop polls again.
PollAgain(p) == worker' = [worker EXCEPT ![p] = Outside("polling")]

\* RunOnce returned an error: RuntimeWorker.Run returns it and never polls again.
Exit(p) == worker' = [worker EXCEPT ![p] = Outside("exited")]

-----------------------------------------------------------------------------
Init ==
    /\ run = [r \in Runs |-> [status |-> "queued", current |-> 0]]
    /\ node = [n \in NodeRuns |-> NewNode]
    /\ worker = [p \in Processes |-> Outside("down")]
    /\ cancels = {}
    /\ manual = {}

-----------------------------------------------------------------------------
(* The user's requests.                                                    *)

StartWorkflowRun(r) ==
    /\ run[r].status = "queued"
    /\ node' = [node EXCEPT ![<<r, 1>>].status =
                    IF @ = "pending" THEN "queued" ELSE @]
    /\ SetRun(r, "running", 1)
    /\ UNCHANGED <<worker, cancels, manual>>

\* Pause, first half: the transaction RequestWorkflowRunPause, in process p.
RequestWorkflowRunPause(p, r) ==
    LET n == CurrentNode(r) IN
    /\ Up(p)
    /\ run[r].status = "running"
    /\ \/ /\ node[n].status = "running"
          /\ SetRun(r, "pausing", run[r].current)
          /\ UNCHANGED node
       \/ /\ node[n].status \in {"queued", "pending", "retry_wait"}
          /\ node' = [node EXCEPT ![n].status = "pending", ![n].retry = "none"]
          /\ SetRun(r, "paused", run[r].current)
    /\ cancels' = cancels \cup {<<p, r>>}
    /\ UNCHANGED <<worker, manual>>

\* Pause, second half: active.Load(id) and the call of whatever it finds.
DeliverCancel(p, r) ==
    /\ <<p, r>> \in cancels
    /\ cancels' = cancels \ {<<p, r>>}
    /\ worker' = [worker EXCEPT ![p].cancelled = @ \/ Active(p, r)]
    /\ UNCHANGED <<run, node, manual>>

\* Mutant: no ORDER BY ordinal.
ResumeWorkflowRunUnordered(r) ==
    /\ run[r].status = "paused"
    /\ \E i \in Ordinals :
         /\ node[<<r, i>>].status \in {"pending", "retry_wait"}
         /\ node' = [node EXCEPT ![<<r, i>>].status = "queued",
                                 ![<<r, i>>].retry = "none"]
         /\ SetRun(r, "running", i)
    /\ UNCHANGED <<worker, cancels, manual>>

\* Mutant: a failed run is resumed, past its failed node.
ResumeWorkflowRunFailed(r) ==
    /\ run[r].status \in {"paused", "failed"}
    /\ \E i \in Ordinals :
         /\ node[<<r, i>>].status \in {"pending", "retry_wait"}
         /\ \A j \in 1..(i - 1) :
              node[<<r, j>>].status \notin {"pending", "retry_wait"}
         /\ node' = [node EXCEPT ![<<r, i>>].status = "queued",
                                 ![<<r, i>>].retry = "none"]
         /\ SetRun(r, "running", i)
    /\ UNCHANGED <<worker, cancels, manual>>

\* The first node by ordinal that is pending or retry_wait is queued.
ResumeWorkflowRun(r) ==
    /\ run[r].status = "paused"
    /\ \E i \in Ordinals :
         /\ node[<<r, i>>].status \in {"pending", "retry_wait"}
         /\ \A j \in 1..(i - 1) :
              node[<<r, j>>].status \notin {"pending", "retry_wait"}
         /\ node' = [node EXCEPT ![<<r, i>>].status = "queued",
                                 ![<<r, i>>].retry = "none"]
         /\ SetRun(r, "running", i)
    /\ UNCHANGED <<worker, cancels, manual>>

\* Mutant: the status of the node is not checked.
RequeueAnyWorkflowNode(n) ==
    /\ run[n[1]].status # "queued"
    /\ node' = [node EXCEPT ![n].status = "queued", ![n].retry = "none"]
    /\ SetRun(n[1], "running", n[2])
    /\ UNCHANGED <<worker, cancels, manual>>

\* Retry: a failed node is queued again; its attempt count is kept.
RequeueFailedWorkflowNode(n) ==
    /\ node[n].status = "failed"
    /\ node' = [node EXCEPT ![n].status = "queued", ![n].retry = "none"]
    /\ SetRun(n[1], "running", n[2])
    /\ UNCHANGED <<worker, cancels, manual>>

-----------------------------------------------------------------------------
\* The row of a node that attempt a completed, with a's outputs bound.
Done(n, a) == [Released(n, "succeeded") EXCEPT !.output = a]

\* The row of the following node, with a's outputs bound to its inputs.
Fed(n, a, status) == [node[n] EXCEPT !.input = a, !.status = status]

\* Mutant: current_node_id moves past the last node instead of being cleared.
AdvanceRunPastEnd(n, a) ==
    LET next == Following(n) IN
    /\ node[n].output = 0
    /\ \/ /\ IsLast(n)
          /\ node' = [node EXCEPT ![n] = Done(n, a)]
          /\ SetRun(n[1], "succeeded", next[2])
       \/ /\ ~IsLast(n)
          /\ node' = [node EXCEPT ![n] = Done(n, a), ![next] = Fed(next, a, "queued")]
          /\ SetRun(n[1], "running", next[2])

\* Mutant: a pausing run stops before the outputs are propagated.
AdvanceRunUnfed(n, a) ==
    LET next    == Following(n)
        pausing == run[n[1]].status = "pausing"
    IN
    /\ node[n].output = 0
    /\ \/ /\ IsLast(n)
          /\ node' = [node EXCEPT ![n] = Done(n, a)]
          /\ SetRun(n[1], "succeeded", 0)
       \/ /\ ~IsLast(n) /\ pausing
          /\ node' = [node EXCEPT ![n] = Done(n, a)]
          /\ SetRun(n[1], "paused", next[2])
       \/ /\ ~IsLast(n) /\ ~pausing
          /\ node' = [node EXCEPT ![n] = Done(n, a), ![next] = Fed(next, a, "queued")]
          /\ SetRun(n[1], "running", next[2])

(* advanceRun with propagateNodeOutputs: bind the outputs of attempt a of  *)
(* n, feed them to the following node, and queue it unless the run is      *)
(* pausing.  The unique key (node_run_id, direction, port) of the bindings *)
(* makes a second insertion fail, hence the conjuncts on output and input. *)
AdvanceRun(n, a) ==
    LET next    == Following(n)
        pausing == run[n[1]].status = "pausing"
        queued  == IF node[next].status = "pending" /\ ~pausing
                   THEN "queued" ELSE node[next].status
    IN
    /\ node[n].output = 0
    /\ \/ /\ IsLast(n)
          /\ node' = [node EXCEPT ![n] = Done(n, a)]
          /\ SetRun(n[1], "succeeded", 0)
       \/ /\ ~IsLast(n)
          /\ node[next].input = 0
          /\ node' = [node EXCEPT ![n] = Done(n, a), ![next] = Fed(next, a, queued)]
          /\ SetRun(n[1], IF pausing THEN "paused" ELSE "running", next[2])

\* CompleteManual, first half: the snapshot shows the node awaiting and the
\* completer commits the human's resource for this attempt.
CompleteManualResource(n) ==
    /\ node[n].status = "awaiting_manual_completion"
    /\ <<n, node[n].attempt>> \notin manual
    /\ manual' = manual \cup {<<n, node[n].attempt>>}
    /\ UNCHANGED <<run, node, worker, cancels>>

\* CompleteManual, second half: the outputs are bound if the node still awaits.
CompleteWorkflowNodeManual(n, a) ==
    /\ <<n, a>> \in manual
    /\ node[n].status = "awaiting_manual_completion"
    /\ node[n].attempt = a
    /\ AdvanceRun(n, a)
    /\ UNCHANGED <<worker, cancels, manual>>

\* The request ends: it answered, was rejected, or its process died.
ManualRequestEnds(n, a) ==
    /\ <<n, a>> \in manual
    /\ manual' = manual \ {<<n, a>>}
    /\ UNCHANGED <<run, node, worker, cancels>>

-----------------------------------------------------------------------------
(* The worker loop.                                                        *)

\* Mutant: a takeover keeps the attempt of the lease it takes over.
ClaimWorkflowNodeSameAttempt(p, n) ==
    LET a == node[n].attempt + (IF node[n].status = "running" THEN 0 ELSE 1) IN
    /\ worker[p].pc = "polling"
    /\ Claimable(n)
    /\ node[n].attempt < MaxAttempt
    /\ node' = [node EXCEPT ![n].status = "running", ![n].attempt = a,
                            ![n].owner = p, ![n].lease = "live",
                            ![n].retry = "none"]
    /\ worker' = [worker EXCEPT ![p] =
                    [pc |-> "claimed", at |-> n, attempt |-> a,
                     base |-> node[n].checkpoint, cancelled |-> FALSE,
                     lost |-> FALSE, outcome |-> "none"]]
    /\ UNCHANGED <<run, cancels, manual>>

\* FOR UPDATE SKIP LOCKED passes over rows another transaction holds, so
\* any matching row may be the first unlocked one.
ClaimWorkflowNode(p, n) ==
    /\ worker[p].pc = "polling"
    /\ Claimable(n)
    /\ node[n].attempt < MaxAttempt
    /\ node' = [node EXCEPT ![n].status = "running", ![n].attempt = @ + 1,
                            ![n].owner = p, ![n].lease = "live",
                            ![n].retry = "none"]
    /\ worker' = [worker EXCEPT ![p] =
                    [pc |-> "claimed", at |-> n, attempt |-> node[n].attempt + 1,
                     base |-> node[n].checkpoint, cancelled |-> FALSE,
                     lost |-> FALSE, outcome |-> "none"]]
    /\ UNCHANGED <<run, cancels, manual>>

\* GetWorkflowRun after the claim: a run that is pausing is not executed.
ReadSnapshot(p) ==
    /\ worker[p].pc = "claimed"
    /\ worker' = [worker EXCEPT ![p].pc =
                    IF run[worker[p].at[1]].status = "pausing"
                    THEN "halting" ELSE "ready"]
    /\ UNCHANGED <<run, node, cancels, manual>>

\* Mutant: the node is paused and the run is forgotten.
PauseWorkflowNodeOnly(p) ==
    LET n == worker[p].at IN
    /\ HoldsLease(p)
    /\ node' = [node EXCEPT ![n] = Released(n, "pending")]
    /\ PollAgain(p)
    /\ UNCHANGED <<run, cancels, manual>>

\* PauseWorkflowNode: whatever the run's status is, it becomes paused.
PauseWorkflowNode(p) ==
    LET n == worker[p].at IN
    /\ HoldsLease(p)
    /\ node' = [node EXCEPT ![n] = Released(n, "pending")]
    /\ SetRun(n[1], "paused", n[2])
    /\ PollAgain(p)
    /\ UNCHANGED <<cancels, manual>>

AwaitWorkflowNodeManual(p) ==
    LET n == worker[p].at IN
    /\ HoldsLease(p)
    /\ node' = [node EXCEPT ![n] = Released(n, "awaiting_manual_completion")]
    /\ SetRun(n[1], "awaiting_manual_completion", n[2])
    /\ PollAgain(p)
    /\ UNCHANGED <<cancels, manual>>

FailWorkflowNode(p) ==
    LET n == worker[p].at IN
    /\ HoldsLease(p)
    /\ node' = [node EXCEPT ![n] = Released(n, "failed")]
    /\ SetRun(n[1], "failed", run[n[1]].current)
    /\ PollAgain(p)
    /\ UNCHANGED <<cancels, manual>>

RetryWorkflowNode(p) ==
    LET n == worker[p].at IN
    /\ HoldsLease(p)
    /\ node' = [node EXCEPT ![n] = [Released(n, "retry_wait") EXCEPT !.retry = "waiting"]]
    /\ SetRun(n[1], "running", n[2])
    /\ PollAgain(p)
    /\ UNCHANGED <<cancels, manual>>

CompleteWorkflowNode(p) ==
    LET n == worker[p].at IN
    /\ HoldsLease(p)
    /\ AdvanceRun(n, worker[p].attempt)
    /\ PollAgain(p)
    /\ UNCHANGED <<cancels, manual>>

\* handleNodeFailure: retry within the budget, else a human, else failed.
HandleNodeFailure(p, retryable) ==
    LET w == worker[p] IN
    \/ retryable /\ w.attempt <= RetryLimit /\ RetryWorkflowNode(p)
    \/ /\ ~(retryable /\ w.attempt <= RetryLimit)
       /\ \/ w.at[2] \in ManualCapable /\ AwaitWorkflowNodeManual(p)
          \/ w.at[2] \notin ManualCapable /\ FailWorkflowNode(p)

\* The snapshot said pausing: PauseWorkflowNode instead of executing.
HaltClaimed(p) ==
    /\ worker[p].pc = "halting"
    /\ PauseWorkflowNode(p)

\* No executor is registered, or the inputs are unreadable or invalid.
RejectClaimed(p) ==
    /\ worker[p].pc = "ready"
    /\ \/ worker[p].at[2] \in ManualCapable /\ AwaitWorkflowNodeManual(p)
       \/ FailWorkflowNode(p)

\* active.Store, the renewal goroutine, and Execute or Resume.
BeginExecution(p) ==
    /\ worker[p].pc = "ready"
    /\ worker' = [worker EXCEPT ![p].pc = "executing"]
    /\ UNCHANGED <<run, node, cancels, manual>>

\* Mutant: the UPDATE is not fenced.
SaveCheckpointUnfenced(p) ==
    /\ worker[p].pc = "executing"
    /\ node' = [node EXCEPT ![worker[p].at].checkpoint = worker[p].attempt]
    /\ UNCHANGED <<run, worker, cancels, manual>>

\* The executor saves a checkpoint: saveOwnedNodeField.
SaveCheckpoint(p) ==
    /\ worker[p].pc = "executing"
    /\ HoldsLease(p)
    /\ node' = [node EXCEPT ![worker[p].at].checkpoint = worker[p].attempt]
    /\ UNCHANGED <<run, worker, cancels, manual>>

\* renewNodeLease got an error: it cancels the execution and reports the error.
RenewalError(p) ==
    /\ worker[p].pc = "executing"
    /\ worker' = [worker EXCEPT ![p].cancelled = TRUE, ![p].lost = TRUE]
    /\ UNCHANGED <<run, node, cancels, manual>>

\* RenewWorkflowNodeLease updates no row.
RenewFails(p) == ~HoldsLease(p) /\ RenewalError(p)

ExecutorReturns(p, outcome) ==
    /\ worker[p].pc = "executing"
    /\ worker' = [worker EXCEPT ![p].pc = "returned", ![p].outcome = outcome]
    /\ UNCHANGED <<run, node, cancels, manual>>

\* RunOnce after the executor: a failed renewal wins, then a cancellation
\* (whatever the executor returned), then the executor's own outcome.
ApplyOutcome(p) ==
    LET w == worker[p] IN
    /\ w.pc = "returned"
    /\ ~w.lost
    /\ \/ w.cancelled /\ PauseWorkflowNode(p)
       \/ /\ ~w.cancelled
          /\ \/ w.outcome = "completed" /\ CompleteWorkflowNode(p)
             \/ w.outcome = "awaiting" /\ AwaitWorkflowNodeManual(p)
             \/ w.outcome = "retryable" /\ HandleNodeFailure(p, TRUE)
             \/ w.outcome = "fatal" /\ HandleNodeFailure(p, FALSE)

\* The renewal failed, or the transaction's own check finds the lease lost.
LeaseLost(p) ==
    /\ worker[p].pc \in {"halting", "ready", "returned"}
    /\ worker[p].lost \/ ~HoldsLease(p)
    /\ Exit(p)
    /\ UNCHANGED <<run, node, cancels, manual>>

\* A statement of RunOnce fails (connection, deadlock victim): nothing is
\* written, the error ends the loop.
DatabaseFails(p) ==
    /\ worker[p].pc \in {"polling", "claimed", "halting", "ready", "returned"}
    /\ Exit(p)
    /\ UNCHANGED <<run, node, cancels, manual>>

-----------------------------------------------------------------------------
(* The passing of time, and the processes.                                 *)

\* lease_until passes: the holder died, stalled, or stopped renewing.
LeaseExpires(n) ==
    /\ node[n].lease = "live"
    /\ node' = [node EXCEPT ![n].lease = "expired"]
    /\ UNCHANGED <<run, worker, cancels, manual>>

RetryBecomesDue(n) ==
    /\ node[n].retry = "waiting"
    /\ node' = [node EXCEPT ![n].retry = "due"]
    /\ UNCHANGED <<run, worker, cancels, manual>>

\* The process dies with everything it holds in memory.
Crash(p) ==
    /\ Up(p)
    /\ worker' = [worker EXCEPT ![p] = Outside("down")]
    /\ cancels' = {c \in cancels : c[1] # p}
    /\ UNCHANGED <<run, node, manual>>

\* A process starts: RuntimeWorker.Run first calls RecoverWorkflowNodeLeases.
StartWorker(p) ==
    /\ worker[p].pc = "down"
    /\ node' = [n \in NodeRuns |->
                   IF node[n].status = "running" /\ node[n].lease = "expired"
                   THEN Released(n, "queued") ELSE node[n]]
    /\ PollAgain(p)
    /\ UNCHANGED <<run, cancels, manual>>

-----------------------------------------------------------------------------
UserStep ==
    \/ \E r \in Runs : StartWorkflowRun(r) \/ ResumeWorkflowRun(r)
    \/ \E p \in Processes, r \in Runs : RequestWorkflowRunPause(p, r)
    \/ \E n \in NodeRuns : RequeueFailedWorkflowNode(n) \/ CompleteManualResource(n)
    \/ \E c \in manual : \/ CompleteWorkflowNodeManual(c[1], c[2])
                          \/ ManualRequestEnds(c[1], c[2])

\* What a live process does by itself, claiming excepted.
ProcessStep(p) ==
    \/ ReadSnapshot(p)
    \/ HaltClaimed(p)
    \/ RejectClaimed(p)
    \/ BeginExecution(p)
    \/ \E o \in Outcomes \ {"none"} : ExecutorReturns(p, o)
    \/ ApplyOutcome(p)
    \/ LeaseLost(p)

Claim(p) == \E n \in NodeRuns : ClaimWorkflowNode(p, n)

WorkerStep(p) ==
    \/ ProcessStep(p)
    \/ Claim(p)
    \/ SaveCheckpoint(p)
    \/ RenewFails(p)
    \/ \E r \in Runs : DeliverCancel(p, r)

TimeStep == \E n \in NodeRuns : LeaseExpires(n) \/ RetryBecomesDue(n)

FaultStep == \E p \in Processes : DatabaseFails(p) \/ RenewalError(p) \/ Crash(p)

Next ==
    \/ UserStep
    \/ \E p \in Processes : WorkerStep(p) \/ StartWorker(p)
    \/ TimeStep
    \/ FaultStep

Spec == Init /\ [][Next]_vars

\* No process is in the call that claimed this attempt: nobody renews it.
Abandoned(n) ==
    \A p \in Processes :
      worker[p].at = n /\ worker[p].attempt = node[n].attempt =>
        worker[p].pc \in {"down", "polling", "exited"}

(* What the code's own scheduling justifies: a live worker goes on with    *)
(* its call, executors return, timers fire.  The last conjunct is an       *)
(* assumption on the deployment: a process that died or whose loop exited  *)
(* is eventually started again (nothing in the repository does it).        *)
WorkerFairness ==
    /\ \A p \in Processes :
         /\ WF_vars(ProcessStep(p))
         /\ SF_vars(Claim(p))
         /\ WF_vars(\E r \in Runs : DeliverCancel(p, r))
    /\ \A n \in NodeRuns :
         /\ WF_vars(RetryBecomesDue(n))
         /\ WF_vars(Abandoned(n) /\ LeaseExpires(n))

Restart(p) == StartWorker(p) \/ (worker[p].pc = "exited" /\ Crash(p))

FairSpec == Spec /\ WorkerFairness /\ \A p \in Processes : WF_vars(Restart(p))

(* No process dies and no statement fails: everything but FaultStep.       *)
FaultFreeNext ==
    \/ UserStep
    \/ \E p \in Processes : WorkerStep(p) \/ StartWorker(p)
    \/ TimeStep

FaultFreeSpec ==
    /\ Init /\ [][FaultFreeNext]_vars
    /\ WorkerFairness
    /\ \A p \in Processes : WF_vars(StartWorker(p))

-----------------------------------------------------------------------------
(* Invariants.                                                             *)

\* Every column holds a value of its type.
TypeOK ==
    /\ run \in [Runs -> RunRow]
    /\ node \in [NodeRuns -> NodeRow]
    /\ worker \in [Processes -> Worker]
    /\ cancels \subseteq Processes \X Runs
    /\ manual \subseteq NodeRuns \X (0..MaxAttempt)

Untouched(n) ==
    /\ node[n].status = "pending"
    /\ node[n].attempt = 0
    /\ node[n].output = 0

IsCurrent(n) == n[2] = run[n[1]].current

IsBefore(n) == n[2] < run[n[1]].current \/ run[n[1]].status = "succeeded"

IsBeyond(n) == n[2] > run[n[1]].current /\ run[n[1]].status # "succeeded"

\* current_node_id splits the line: everything before it succeeded, nothing
\* after it was ever claimed.  A queued run is before all of its nodes, a
\* succeeded one after all of them.  (advanceRun, StartWorkflowRun and the
\* two transactions that rewrite current_node_id agree on one frontier.)
LinearFrontier ==
    /\ \A r \in Runs : run[r].current = 0 <=> run[r].status \in {"queued", "succeeded"}
    /\ \A n \in NodeRuns : IsBefore(n) => node[n].status = "succeeded"
    /\ \A n \in NodeRuns : IsBeyond(n) => Untouched(n)

Agree(runStatus, nodeStatus) ==
    \/ runStatus = "running" /\ nodeStatus \in {"queued", "running", "retry_wait"}
    \/ runStatus = "pausing" /\ nodeStatus \in {"queued", "running"}
    \/ runStatus = "paused" /\ nodeStatus = "pending"
    \/ /\ runStatus \in {"awaiting_manual_completion", "failed"}
       /\ nodeStatus = runStatus

\* The status of a run and that of its current node agree, although most
\* transactions write the run's status without reading it.  In particular
\* nothing of a paused run can be claimed, and a running run always has a
\* node that a worker can or does work on: it cannot be stranded.
RunAgreesWithNode ==
    \A n \in NodeRuns :
      IsCurrent(n) => Agree(run[n[1]].status, node[n].status)

Inside(p) == worker[p].pc \in {"claimed", "halting", "ready", "executing", "returned"}

\* The fencing token: two RunOnce calls on one node never carry the same
\* attempt, none carries an attempt of the future, and the call that carries
\* the attempt of a running row is its lease_owner's.
ExclusiveToken ==
    \A p \in Processes : Inside(p) =>
      LET w == worker[p] IN
      /\ w.attempt \in 1..node[w.at].attempt
      /\ w.attempt = node[w.at].attempt /\ node[w.at].status = "running"
           => node[w.at].owner = p
      /\ \A q \in Processes \ {p} :
           Inside(q) /\ worker[q].at = w.at => worker[q].attempt # w.attempt

\* The bindings are those of the winning attempt: a node has outputs exactly
\* if it succeeded, they are its last attempt's, and the next node's inputs
\* are the same attempt's.  A superseded or paused attempt leaves none.
OutputsOfWinner ==
    \A n \in NodeRuns :
      /\ node[n].status = "succeeded" => node[n].output = node[n].attempt
      /\ node[n].output # 0 => node[n].status = "succeeded"
      /\ ~IsLast(n) => node[Following(n)].input = node[n].output

\* The worker that holds the lease continues from the newest checkpoint: the
\* column holds what its claim returned or what it wrote itself since, never
\* the late write of a superseded attempt.
CheckpointLineage ==
    \A p \in Processes :
      Inside(p) /\ HoldsLease(p) =>
        node[worker[p].at].checkpoint \in {worker[p].base, worker[p].attempt}

\* An owner and a lease belong to a running row, a retry time to a waiting
\* one: nothing is left behind that a later status would inherit.
LeaseFitsStatus ==
    \A n \in NodeRuns :
      /\ node[n].lease # "none" <=> node[n].status = "running"
      /\ node[n].owner # NoOwner <=> node[n].status = "running"
      /\ node[n].retry # "none" <=> node[n].status = "retry_wait"

\* The conjunction is inductive; WorkflowRuntimeProofs proves it.
IInv ==
    /\ TypeOK
    /\ LinearFrontier
    /\ RunAgreesWithNode
    /\ OutputsOfWinner
    /\ ExclusiveToken
    /\ CheckpointLineage

-----------------------------------------------------------------------------
(* Action properties.                                                      *)

\* A running row is decided (succeeded, failed, awaiting, retry_wait, paused)
\* only by a call that claimed the row's current attempt and whose lease is
\* live at that moment; anything else can only put it back in the queue.
OnlyHolderDecides ==
    [][\A n \in NodeRuns :
         /\ node[n].status = "running"
         /\ node'[n].status \notin {"running", "queued"}
         => /\ node[n].lease = "live"
            /\ \E p \in Processes :
                 /\ Inside(p)
                 /\ worker[p].at = n
                 /\ worker[p].attempt = node[n].attempt]_vars

\* What succeeded is never executed again, fed again or rebound.
SucceededIsFinal ==
    [][\A n \in NodeRuns : node[n].status = "succeeded" => node'[n] = node[n]]_vars

\* No late transaction of a worker touches a paused run: it and all its nodes
\* stay as they are until the user resumes it.
PausedIsLeftAlone ==
    [][\A r \in Runs :
         run[r].status = "paused" =>
           \/ /\ run'[r] = run[r]
              /\ \A i \in Ordinals : node'[<<r, i>>] = node[<<r, i>>]
           \/ /\ run'[r] = [run[r] EXCEPT !.status = "running"]
              /\ \A i \in Ordinals :
                   node'[<<r, i>>] = IF i = run[r].current
                                     THEN [node[<<r, i>>] EXCEPT !.status = "queued"]
                                     ELSE node[<<r, i>>]]_vars

-----------------------------------------------------------------------------
(* The promise to the owner of a run: LinearRun.                           *)

PhaseOf == [queued |-> "created", running |-> "active", pausing |-> "active",
            paused |-> "suspended", awaiting_manual_completion |-> "human",
            failed |-> "failed", succeeded |-> "done"]

Promise == INSTANCE LinearRun WITH
    Attempt <- 1..MaxAttempt,
    phase   <- [r \in Runs |-> PhaseOf[run[r].status]],
    result  <- [n \in NodeRuns |-> node[n].output]

\* Through claims, takeovers, lost leases, retries, pauses and restarts every
\* node gets one result, in the order of the line, and only while its run is
\* active or waits for a human.
ImplementsLinearRun == Promise!Spec

(* The promise to the services that write data for a node run: NodeFence.  *)

FencePhase(n) ==
    IF node[n].status = "succeeded" THEN "final"
    ELSE IF node[n].status = "running" /\ node[n].lease = "live" THEN "live" ELSE "idle"

Fence == INSTANCE NodeFence WITH
    Nodes <- NodeRuns,
    fence <- [n \in NodeRuns |-> [attempt |-> node[n].attempt, phase |-> FencePhase(n)]]

\* At most one attempt of a node is live, the attempts are counted up one by
\* one, none begins before the last one ended or after the node succeeded.
ImplementsNodeFence == Fence!Spec

-----------------------------------------------------------------------------
(* Liveness.                                                               *)

\* Below the bound on claims; at the bound the model has no claim to offer.
Orphaned(n) ==
    /\ node[n].status = "running"
    /\ node[n].lease = "expired"
    /\ node[n].attempt < MaxAttempt

\* A node whose worker died or lost its lease does not stay "running": "an
\* expired running lease is recoverable" (ClaimWorkflowNode).  It holds when
\* stopped processes are restarted, and fails when they are not.
OrphansAreRecovered ==
    \A n \in NodeRuns : Orphaned(n) ~> ~Orphaned(n)

Exhausted(r) == \E i \in Ordinals : node[<<r, i>>].attempt = MaxAttempt

\* A requested pause takes effect, or the node's end overtakes it (up to the
\* bound on claims): a run does not stay "pausing".
PauseSettles ==
    \A r \in Runs : run[r].status = "pausing" ~> run[r].status # "pausing" \/ Exhausted(r)

-----------------------------------------------------------------------------
(* Statements of the documentation and of the domain model that the        *)
(* transactions do not respect; each is refuted by a run of its own.       *)

\* docs/WORKFLOW_REBUILD_PLAN.md draws pausing -> paused: a run on which a
\* pause was requested does not go back to running.
PauseIsKept ==
    [][\A r \in Runs : run[r].status = "pausing" => run'[r].status # "running"]_vars

\* WorkflowRun.AwaitManual: only a running run may enter manual completion.
AwaitOnlyFromRunning ==
    [][\A r \in Runs :
         run'[r].status = "awaiting_manual_completion" =>
           run[r].status \in {"running", "awaiting_manual_completion"}]_vars

\* The same diagram: a run whose node executes is paused through pausing only.
PausedThroughPausing ==
    [][\A r \in Runs :
         /\ run[r].status = "running"
         /\ node[CurrentNode(r)].status = "running"
         => run'[r].status # "paused"]_vars

\* "The user may take over at once during retries": the manual completion of
\* a node that waits for its retry is accepted.
TakeoverDuringRetry ==
    \A n \in NodeRuns :
      node[n].status = "retry_wait" /\ n[2] \in ManualCapable =>
        ENABLED (CompleteManualResource(n))
=============================================================================
