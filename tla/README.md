# ReqFlow in TLA+

TLA+ modules, TLC configurations and TLAPS proofs about ReqFlow, kept beside its
code.  Paths are relative to the repository's `src/`.  Abbreviations: *runtime* is
`internal/app/workflow/runtime.go`, *runtime repo* is
`internal/infra/repository/workflow_runtime_repo.go`, *pipeline repo* is
`internal/infra/repository/pipeline_repo.go`, *Derive* is
`internal/app/pipeline/query_dataset_service.go`.

Contents: 1 the system, 2 inventory, 3 modules, 4 runs, 5 fairness, 6 proofs,
7 disagreements found, 8 what is only checked and what is not modelled, 9 plan.

## 1. The system

ReqFlow is one Go binary.  Each process serves a Gin HTTP API and runs one
`RuntimeWorker`; any number of processes share a PostgreSQL database (with
pgvector) and an OpenSearch index and call LLM, embedding and document-parser
services.  The layers are `cmd` (wiring), `internal/infra` (repositories, clients,
HTTP), `internal/app` (services, executors), `internal/port` (interfaces) and
`internal/domain`.

A *workflow* is a line of capability nodes (parse, extract, clean, validate,
review, publish, derive, build a retrieval snapshot, analyse, write an artifact).
It is edited as a draft, tried in acceptance runs and published as immutable
revisions.  A *workflow run* executes one revision node by node.  A *node run* is
claimed by a worker under a lease with an attempt number; the executor of its
capability writes an immutable resource (a manifest, a dataset batch, a snapshot
...) and the completion of the node binds the resource to the node's output ports
and to the next node's input ports.

Two protocols carry everything else:

* the **runtime**: rows of `workflow_runs` and `workflow_node_runs`, changed by
  workers, users and restarting processes;
* the **producer fence** (`assertActiveNodeProducer`,
  `internal/infra/repository/extraction_repo.go`): a service that writes data for a
  node run first checks that the run is `running` in this very attempt under a
  lease that has not expired.

## 2. Inventory

**Workflow runtime** (*runtime*, *runtime repo*).  State: status and
`current_node_id` of each run; status, attempt, owner, lease, retry time,
checkpoint and bindings of each node run; in memory, the cancel function of each
active execution and the local variables of `RunOnce`.  Operations: start, pause,
resume, retry and manual completion by users; claim, renew, save checkpoint,
complete, retry, await, fail, pause by workers; lease recovery at start-up.  Hard:
every operation is several transactions with memory in between; two workers may
believe they execute one node; a pause reaches an execution through a map looked
up after the transaction; most transactions write the run's status without reading
it.  Correct when: one frontier per run, one deciding holder per attempt, one
result per node, no run is stranded, a paused run is left alone, an abandoned node
is recovered.

**Dataset append pipeline** (*pipeline repo*, *Derive*,
`internal/app/pipeline`).  State: `datasets.current_seq`, `dataset_items`,
`dataset_batches`, `pipeline_cursors`.  Operations: get or create a node's batch,
commit it, the same for any batch over HTTP, derive the query dataset behind a cursor.
Hard: commits are repeated after a lost answer, clients use a node run's batch, the increment is read outside the
transaction that commits it, several runs share a cursor.  Correct when: positions
have no gap, no key enters twice, a committed batch never changes, every base
record is derived exactly once.

**Draft, preview and publication** (`workflow_repo.go`,
`internal/app/workflow/service.go`, `draft_editor.go`).  State: draft document and
revision, command events, previews, revisions.  Operations: fifteen commands
through `ApplyCommand`, acceptance runs, `PublishRevision`.  Hard: the command event is
looked up before the draft is locked; `MarkAcceptancePassed` writes the document
without a new draft revision; publication rechecks the draft revision only; an
incomplete chain is only a warning while editing.  Correct when: a command is applied
once, no edit is lost, what is published was accepted, no draft gets stuck half-edited.

**Design session** (`internal/app/workflow/design_service.go`).  State: proposals, mode
and status, saved as a whole row.  Hard: last writer wins; accepting a proposal is a
command and a save in two transactions; the agent loop flushes while it runs.  Correct
when: a proposal that is shown as accepted was applied, once, to the revision it was
made for.

**Parsed document and extraction manifests** (`asset_repo.go`, `extraction_repo.go`,
`internal/app/extraction`).  State: assets, parsed documents with blocks, document
sets and items; draft sets, extraction units, record drafts, the agent's checkpoint.
Hard: parsed documents are shared by runs and saved without a fence, a succeeded
document is not downgraded but its blocks are replaced; finalisation checks the lease
without locking the node run; units of an old attempt are in flight while the new one
resets; an agent resumes from a checkpoint.  Correct when: a finished set accounts for
every file and every unit and never changes again; a unit's records are stored only
after the agent has read and ended it.

**Cleaning and validation manifests, review gate** (`cleaning_repo.go`,
`review_repo.go`, `internal/domain/logic`).  State: transformed records, validation
results, the gate's approved record set with its decisions.  Hard: saved results are
immutable while the dataset they are checked against grows; two people submit at once;
the gate's resource and the gate's node are completed in two transactions.  Correct
when: a later attempt computes what is saved, whoever is told the gate is complete
finds its own decisions, nothing unsound is published.

**Retrieval snapshot and search** (`retrieval_repo.go`, `internal/app/retrieval`).
State: snapshots (building → validating → active), chunks, the external index.  Hard:
chunks and index documents are written without the fence and shared by snapshots; two
rankings with different units are cut and fused.  Correct when: an active snapshot is
complete and stays so; the answer respects both rankings.

**Analysis and artifacts** (`internal/app/analysis`).  State: the submission in the
checkpoint, analysis results under fence and attempt, human approvals, artifacts and
their content.  Correct when: a submission survives its attempt and what is answered is
what is stored.

**Platform configuration** (`internal/app/platformconfig`).  State: rows of which at
most one per capability is active.  Hard: switching is several statements under an
advisory lock that updates and deletions do not take.

**Agent loop and provider router**: a sequential turn loop with a budget; the router is
constructed in tests only.  **Workflow definition validation**
(`internal/domain/workflow`): the linear order, connections and per-field checks.
**External clients**, **HTTP API**, **process start-up, migrations, web front end**:
stateless I/O and wiring.

Interaction: users reach the services over HTTP; the runtime calls executors, which
call the services with the node run's id, attempt and owner; the services look at
the runtime's rows only through the fence; users reach an executing node only
through the database and the in-process cancel map.

## 3. Modules

| module | what it is |
| --- | --- |
| `WorkflowRuntime` | the runtime: run and node rows, workers, users, time, faults |
| `LinearRun` | what the runtime promises to the owner of a run |
| `NodeFence` | what the runtime promises to the data services: attempts, leases |
| `DatasetAppend` | batches of node runs and of clients, commits and derivation, above `NodeFence` |
| `DerivedLog` | what the datasets promise: a log, and a derived prefix of it beside foreign records |
| `DraftPublication` | commands, acceptance runs and publication of drafts |
| `CommandLog` | what the draft commands promise: a log, each command once |
| `DesignSession` | sessions of users and agents, on top of `DraftPublication` |
| `DraftEditor` | what the editing commands do to the document of a draft |
| `DocumentExtraction` | parsing and extraction manifests, above `NodeFence` |
| `ExtractionAgent` | one unit's agent: tools, checkpoints, attempts, usage |
| `RecordCleaning` | what is computed for one record (no state) |
| `RecordReview` | cleaning, validation, gate and publication, above `NodeFence` |
| `RetrievalSnapshot` | building snapshots over shared indexes, above `NodeFence` |
| `RetrievalSearch` | recall, rank fusion and reranking |
| `AnalysisDelivery` | analysis, approval gate and artifact, above `NodeFence` |
| `PlatformConfig` | configurations and the switching transactions |
| `Services` | the eight components above the runtime that share no state with each other, and their properties |
| `MCWorkflowRuntime`, `MCDatasetAppend`, `MCDrafts`, `MCServices`, `MCAnalysisDelivery` | instances for TLC |
| `WorkflowRuntimeProofs` | invariants and action properties of the runtime; it implements `LinearRun` and `NodeFence` |
| `DatasetAppendProofs` | the datasets: all their invariants, and that they implement `DerivedLog` |
| `DesignSessionProofs` | drafts on their own and with sessions at work, their invariants, and that they implement `CommandLog` |
| `DocumentExtractionProofs` | complete sets of documents and drafts, and that they stay |
| `RetrievalSnapshotProofs` | sealed snapshots stay covered |
| `AnalysisDeliveryProofs` | answers of analysis, gate and artifact are stored and stay |
| `RecordReviewProofs` | saved validations, the gate's answers and what is published |
| `ServicesProofs` | the properties of `Services`; the draft editor, the extraction agent and the platform configurations |

How they compose: `DatasetAppend`, `DocumentExtraction`, `RecordReview`,
`RetrievalSnapshot` and `AnalysisDelivery` instantiate `NodeFence` and use its actions
as the environment of every call, conjoined with what the service does.  That this
environment is the real one is a theorem, not a convention: `WorkflowRuntime`
implements `NodeFence` (`ImplementsNodeFence`).  So each is checked without the
runtime's state space.  `DesignSession` extends `DraftPublication` and executes
proposals through its actions; `RecordReview` extends `RecordCleaning`.  `Services` is
parameterised by the constants of all its components and instantiates each of them: a
behaviour is one of the component that `focus` names.  `MCServices` gives it values.

In all of them a *call* is the execution of one attempt, or one request.  Its local
variables are state, every transaction or statement is one action, and a call whose
attempt lost its lease keeps going until a fence stops it.  A call that a check
rejects, whose statement fails or whose process dies is one that takes no further
step, so failure at each point needs no action of its own unless the code then writes
something (`RecordFailure`, `FailAnalysisResult`, `Fail`).

Definitions whose comment speaks of a *mutant* are faulty variants of the definition
they stand before: a dropped guard, a missing reset.  Nothing uses them; replacing
the definition by its variant makes the property named in `PROJECT.json` fail.

### WorkflowRuntime

One action is one transaction, or one in-memory step.  The transactions lock the
rows they decide on, so they are atomic; everything between two of them is an
interleaving point.

* `run[r]`, `node[n]` are the rows.  Nodes are ordinals 1..`NodeCount`.
  `checkpoint`, `output`, `input` hold the attempt that wrote the checkpoint,
  the output bindings, and the outputs that were bound to the inputs: which
  attempt's data is where is all the properties distinguish.
* `worker[p]` is the `RunOnce` call of process `p`: `claimed` after
  `ClaimWorkflowNode`; `ready` or `halting` after the snapshot was read;
  `executing` between `active.Store` and the executor's return; `returned`
  afterwards; `exited` when `RuntimeWorker.Run` has returned an error.
* `cancels` are pauses that committed but have not called `active.Load` yet;
  `manual` are human completions between the commit of the resource and that of
  the node.
* Time: a lease is live or expired, a retry waiting or due; `LeaseExpires` and
  `RetryBecomesDue` may happen at any moment.
* Faults: `Crash` of a process at any point, `DatabaseFails` for a failed statement
  (a deadlock victim included), `RenewalError`.
* A workflow with any number of nodes, runs and processes is covered; a node run is
  claimed at most `MaxAttempt` times.

Names are the code's: `ClaimWorkflowNode`, `AdvanceRun`, `PauseWorkflowNode`,
`HandleNodeFailure` and so on; `PROJECT.json` maps each to its lines.

### DatasetAppend

* `rows`, `current`, `batch`, `cursor` are the tables; `boundary` is the
  `through_seq` a deriver's input is bound to; `call` is the execution of each
  attempt.  A call whose attempt lost its lease keeps going: only the fence in each
  transaction stops it.
* A record is its business key, because fields, fingerprint and provenance are
  functions of it; the payload hash is therefore the set of keys.  One base item
  gives one query item.
* The items of a batch are numbered in an order the model leaves open (the code
  sorts by key, and keys are hashes).
* A call that is rejected or whose process dies is a call that takes no further
  step, so failure at each point is covered without an action of its own.
* HTTP clients are not confined, because the code does not confine them.  `OpenBatch`
  opens a batch of either dataset, the query dataset included (no one looks at a
  dataset's purpose but `Derive`), and under any node run's id, with the workflow run that
  the node run will ask for (`own`) or another one; by the unique producer it is then *the*
  batch of that node run.  `PublishBatch` commits any staging batch with any records,
  without a fence and without the cursor.  A node run that finds its batch opened for
  something else is refused by `GetOrCreateBatch`, a derivation that finds it committed by
  `StageDerivation`, and one that has prepared an increment by `CommitDerivation`.
* So the query dataset is not the image of the base dataset.  What the properties say is
  about `Derived`, the rows in batches that a derivation has committed itself: they are
  the base records up to the cursor, each once.  The other rows, `Foreign`, are the
  clients' and publishers'; a key that is among them already blocks the derivation of it.
* `Derive` is a service without an executor so far (`cmd/reqflow/main.go` constructs
  it only).  The model calls it the way the other capabilities are called.

### DraftPublication, DesignSession, DraftEditor

* `draft`, `events`, `published`, `active` are the tables of `workflow_repo.go`.  A
  document is named by the last command applied to it, because a command computes
  the next document from the one it has locked; the acceptance cases are kept apart,
  because `MarkAcceptancePassed` changes them between two commands.  A stamp records
  the document the execution saw, which is what `PublishedWasAccepted` compares.
* `LookUp` is the read of the event outside the lock, `Apply` the rest of
  `ApplyCommand`; `ReadForTest`/`MarkPassed` and `BuildRevision`/`PublishRevision` are
  the reads and the transactions of an acceptance run and of a publication.
* `DesignSession` keeps a copy of the row in each request (`work`), because the code
  saves the whole row.  A proposal's id is the `command_id`.  `Tool` and `Flush` alternate
  as the loop flushes after every tool call.
* `DraftEditor` has one action per command that edits the chain, the ports or the
  rules; each computes the next document and is refused when draft-mode validation
  reports an error.  The catalogue of capabilities is translated with its port types.

### DocumentExtraction, ExtractionAgent

* `doc` is the cache that all runs share; `parse` counts how often its blocks were
  written, since a unit's key is a hash over the ids of its blocks.  One document has
  one unit.
* `FinalizeParsedDocumentSet` is two actions, `CheckLease` and `FinishParsedSet`, because
  it reads the lease without locking the node run; the row of the set is locked in
  between (`Locked`).  Everything else locks what it decides on.
* `ExtractionAgent` is one unit: the conversation is the number of requests in it and
  of tool calls without a result.  Of the tools' state it has the segments that were read,
  the drafts, and whether a validation accepted the unit or it was finished.  The outcome that
  `finish_extraction_unit` announces is left out: it need not fit the drafts that are stored
  (section 7), and nothing compares the two.  There is one attempt at a time, as no save of
  an older one succeeds (`DocumentExtraction`).

### RecordCleaning, RecordReview

* `RecordCleaning` is a translation of `record_cleaning.go` and `dataset_contract.go` as
  operators.  What parses a text is a partial function given as a constant, what a
  keyword refuses is a set.  Numerals are texts: `Plain` is how the coercion writes one,
  `Numeric` how jsonb gives it back, without exponents and without a negative zero.
* Every save reads the row back and compares it with what it has sent, numeral by numeral
  (`RowAfter`, `Savable`).  A record that is scaled to a negative zero is therefore refused
  by its own first save, in every attempt; one of the lists of drafts of `MCServices` has it.
* `RecordReview` runs the two manifests, the gate and the publication.  `KeyOf` leaves
  records with an error without key, as the code does; `Publish` is the check of the
  identity with the effect of the commit that `DatasetAppend` details, in an order that is
  left open, as there.

### RetrievalSnapshot, RetrievalSearch

* `lexical` and `chunk` are the two indexes of one dataset and search specification;
  both are written by calls of any attempt.  `Covered` is both counts.  A page may
  arrive in part when the lexical index fails.
* `RetrievalSearch` orders are arbitrary; scores are exact fractions.

### AnalysisDelivery, PlatformConfig

* The submission goes to the checkpoint and then to the result, two transactions.
  `SameBytes` is the comparison of jsonb text with compact JSON: only the empty object
  has one form.
* `PlatformConfig` models READ COMMITTED: what a switching transaction has changed
  (`off`) is invisible until its commit, and its rows are locked.  There are two unique
  indexes: `Collide` is a request refused because its name is taken, at any time and
  because of any other request; `refused` is one refused by the index of the active rows,
  which `SwitchesAreSerial` says does not happen.

## 4. Runs

| run | expected | distinct states | shows |
| --- | --- | --- | --- |
| `safety` | pass | 518,789 | 1 run of 2 nodes, 2 processes: all invariants and action properties, both refinements |
| `liveness` | pass | 56,875 | 1 node, 2 processes under `FairSpec`: orphans are recovered, pauses settle |
| `append_safety` | pass | 1,463,407 | a publisher, two derivers, clients that open two of the four batches and commit any: invariants and the refinement of `DerivedLog` |
| `drafts` | pass | 437,398 | two requests on one draft, or on a design session: invariants and the refinement of `CommandLog` |
| `services` | pass | 772,193 | the eight other components, one at a time |
| `pause_lost` | violation | | a retry undoes a requested pause |
| `await_pausing` | violation | | a pausing run goes to manual completion |
| `stale_cancel` | violation | | a late cancellation pauses a resumed run |
| `takeover` | violation | | a node in `retry_wait` cannot be completed by a human |
| `worker_exit` | violation | | without any fault, one lost lease ends the worker loop for good |
| `append_reuse` | violation | | a later attempt does not find the batch its run committed |
| `approve_gate` | violation | | the only approval of an analysis is refused as a different one |

What the properties say:

* `LinearFrontier`, `RunAgreesWithNode`: `current_node_id` splits the line into
  succeeded and untouched nodes, and a run's status fits its current node.  This is
  what unconditional status updates could break; it implies that a running run
  always has a node to claim or to finish and that nothing of a paused run can be
  claimed.
* `ExclusiveToken`, `OnlyHolderDecides`, `LeaseFitsStatus`, `CheckpointLineage`: the
  attempt is a fencing token; late calls decide nothing, and write no checkpoint
  under the new holder.
* `OutputsOfWinner`, `SucceededIsFinal`, `PausedIsLeftAlone`: bindings come from
  the winning attempt, once; a paused run waits for its user.
* `ImplementsLinearRun`, `ImplementsNodeFence`: see section 3.
* `OrphansAreRecovered`, `PauseSettles`: the liveness properties.
* `SeqsAreContiguous`, `BatchOwnsItsRange`, `AppendOnly`: positions 1..`current_seq`
  with distinct keys, whoever appends; a committed batch is its range and its
  payload, for ever.
* `DerivedExactlyOnce`, `CursorMovesWithBatch`, `CursorAgreesWithBatch`,
  `IncrementIsComplete`, `AnswerIsDurable`, `ImplementsDerivedLog`: cursor, batches and
  what was derived tell the same story although the increment is read outside of the
  transaction, attempts come and go, and clients open and commit batches of derivations.

* `PublishedWasAccepted`, `ActiveIsNewest`, `ImplementsCommandLog`: what is published was
  passed by an execution of exactly that document, revisions have no gap and never go
  back, every command takes effect once and every answer names where.
* `AcceptedWasApplied`, `PendingIsCurrent`, `AppliedAsProposed`: proposals, their commands and
  their fate agree although two transactions and several writers make them.
* `EditsKeepTheChain`: whatever commands are accepted, the draft is one chain with every
  input connected.
* `FinishedSetsAreWhole`, `StoredUnitsAreRead`, `SavedResultsAreReproducible`: manifests are
  complete and can be completed, whatever attempts were on the way.
* `BoundResourcesAreFrozen`: what a succeeded node, a person or a sealed snapshot has
  handed on does not change, in four components.
* `AnswersAgree`, `UnsoundNeverPublished`, `AnswersAreRanked`, `SwitchesAreSerial`: who is told
  that something is complete finds it stored; no record with an error reaches the
  dataset unedited; the fused order respects both rankings; no switch of a
  configuration is refused because another one is active.

Bounds.  Two processes are enough for every pairwise race (holder and successor,
execution and pause in the other process); the third party, the user, has no
identity.  Two nodes give a first and a last node and every hand-over between
neighbours; one of them is manual-capable and one is not, so both ends of
`handleNodeFailure` occur.  Two claims with `RetryLimit = 1` give a retry, a
takeover and an exhausted budget.  Several runs share no rows; a second one would
only compete for the workers.  For datasets: two derivers race for one cursor, one
of them with two attempts; the publisher and the clients compete for a key; two keys allow
batches of one and of two items.  Clients open the batch of no node run and that of one
deriver (`Opened`), on either dataset, and only that deriver is taken over (`Retried`): a
client that has opened the batch of another node run competes with it in the same way.
They commit every batch.  The safety results of the runtime and of the datasets hold
beyond these bounds by the proofs of section 6.

`drafts`: two requests are enough for every race between a read and a transaction; two
commands, two cases and two publications let a mark become stale in each way.  Sessions
are looked at with commands of a client but without acceptance runs, which do not touch
the revision a session reads; of two calls at most one runs an agent, so that the
user's request is the other.

`services`: the components share no variable, so a behaviour is about one of them (`focus`)
and one run covers all.  Two attempts give every takeover; a third one differs from the
second in nothing the code looks at.  Two files, two parsers that race for the cache and one
extractor; four lists of two records that bring every status about; two builders with
different boundaries; three items with four chunks; two segments, two draft keys and three
calls in a message, the least that lets an agent end a unit, change its drafts and validate
it again before the loop looks; two configurations and two administrators.  `Bounded` leaves
out histories in which more than two executions overlap: the races it keeps are those
between a call and its successor, and between two node runs on the shared cache or the
shared indexes. `Search` enumerates the orders of both rankings; with a reranker one lexical
order is enough, as the reranker's order is arbitrary anyway.

Symmetry is used over processes in `safety`, over calls
and commands in `drafts`, and over models, reviewers and administrators in `services`; no
definition compares or chooses among them.  Deadlock is checked in `drafts` only: elsewhere
a run that has succeeded, and a history whose claims are used up, really stop.

## 5. Fairness

`WorkerFairness` is what the code's scheduling gives:

* weak fairness of `ProcessStep(p)`: a live process goes on with its call, and
  executors return;
* strong fairness of `Claim(p)`: the loop polls for ever, but between two polls the
  row may be unclaimable for a while, and a claim by another process interrupts it;
* weak fairness of delivering a cancellation, of a retry time becoming due, and of
  the expiry of a lease whose attempt nobody works on.  A lease that is renewed is
  never forced to expire.

`FairSpec` adds that a process that is down, or whose worker loop has returned, is
started again.  Nothing in the repository does that; it is an assumption about the
deployment, and `OrphansAreRecovered` fails without it: run `worker_exit` keeps every
process alive and every statement successful (`FaultFreeSpec`), and the expired
lease is still never taken over.

## 6. Proofs

`tlapm` checks some 12,900 obligations in eight modules.  Each theorem is about the
specification of its module for every value of the constants that satisfies the module's
assumption; `MaxAttempt`, `MaxParses` and the like bound the counters, and no theorem
depends on how large they are.

| module | obligations | assumption |
| --- | --- | --- |
| `WorkflowRuntimeProofs` | 2,344 | `RuntimeAssumption`: at least one run and one node, ordinals of manual-capable nodes exist, limits are natural numbers, the empty owner is no process |
| `DatasetAppendProofs` | 2,141 | `AppendAssumption`: finitely many keys; publishers, derivers and the batches of no node run are different; each publisher has a set of approved keys and a dataset, either one |
| `DesignSessionProofs` | 1,518 | `DraftAssumption`: at least one workflow; the blank document and "no case" are none of the others.  `SessionAssumption`: at least one session, each with a workflow |
| `DocumentExtractionProofs` | 1,280 | `ExtractionAssumption`: finitely many files, by number, and each extractor is bound to one parser |
| `RetrievalSnapshotProofs` | 544 | `RetrievalAssumption`: positions are numbers, a page is not empty, "no model" is no model |
| `AnalysisDeliveryProofs` | 730 | `DeliveryAssumption`: the outputs whose text PostgreSQL keeps are outputs, "no output" is none |
| `RecordReviewProofs` | 1,685 | `ReviewAssumption`: at least one draft, and every list of drafts numbers all of them |
| `ServicesProofs` | 2,626 | `ServicesAssumption`: the components' own.  `EditorAssumption`: the capabilities in use are built in, ports are declared with one of their types; `AgentAssumption`: limits are numbers; `ConfigAssumption`: finitely many configurations, "nobody" is neither a request nor a secret |

TLC evaluates every assumption for the instances of the runs.  Of the invariants and
action properties of all passing runs, only `AnswersAreRanked` is not a theorem.

### The services

`ServicesInv` says that the component in focus satisfies its own inductive invariant.  For
documents, records, snapshots and delivery `Services` instantiates the module with the
proofs, and `ServicesProofs` cites its lemmas (`Documents!InvariantStep` ...) instead of
repeating them.  The editor, the agent and the configurations are proved in place.  From
`ServicesInvariant` follow the properties that the run `services` checks.

### The runtime

    IInv == TypeOK /\ LinearFrontier /\ RunAgreesWithNode
            /\ OutputsOfWinner /\ ExclusiveToken /\ CheckpointLineage

The named parts are not inductive one by one.  A completion keeps the frontier only
because the node it completes is the current one, which follows from
`RunAgreesWithNode`: an active node is its run's current node (`ActiveIsCurrent`).
The unconditional writes of the run's status agree with the node only because
nothing beyond the frontier is active.  `OutputsOfWinner` needs that the next node
is untouched; a completion decides the right node only because the call's attempt is
unique, `ExclusiveToken`.

The step lemmas are grouped by what a transaction does to the frontier: rows that
change in place (`KeepPlacePreserves`), a move of the current node together with
its run (`MovesPreserves`), an advance to the next node.  Each action is reduced to
one of them and to what it does to the calls in flight.

Theorems: `IInvInductive`, and from it `TypeCorrect`, `FrontierHolds`,
`AgreementHolds`, `TokenIsExclusive`, `OutputsAreTheWinners`, `CheckpointIsTheHolders`,
`LeaseFits`; the action properties `HolderDecides`, `SuccessIsFinal` and `PauseHolds`,
from one lemma that lists what a step may do to one node row; and the refinements
`RuntimeImplementsLine` and `RuntimeImplementsFence`, in which every action maps to an
action of the abstract module or to a stutter.

### The datasets

All seven invariants and three temporal properties of `append_safety` are theorems, from

    IInv == TypeOK /\ Tables /\ DerivedExactlyOnce /\ Progress

`Tables` adds to contiguous positions and the ranges of batches that a committed range
lies behind `current_seq`; otherwise a later commit could write into it.  `Progress`
adds what holds of calls between their transactions: a deriver's boundary is bound
before it runs, a call that is on its way works on a position before the boundary and on
exactly the records between the two, and the cursor has passed the boundary of every
derivation that has answered.  Since clients commit batches too, that a batch is committed
says nothing about who did it; a derivation is told from its answer (`Derivations`), and
attempts of one node run must agree about it (`AttemptsAgree`): while an attempt is on its
way under a live lease, no earlier one has answered.  A commit of a client changes no row of
`Derived`, because a batch that is committed already is never committed again.  With these a commit under a stale read of the cursor is refused,
and a commit that is not refused continues the derived prefix without a gap.  The
positions of an increment are counted (`Cardinality` of the staged keys), so the lemmas
about keys and intervals need no induction.  `DatasetsImplementDerivedLog` maps each
commit to an append, a foreign addition or a derivation of `DerivedLog` and everything
else to a stutter.

### Drafts and sessions

`DraftInv` numbers the commands of each workflow from 1 to its revision without a gap and
says what a revision *is*: `Named(w, r, i)`, the document that the command with result
`r` made.  A draft, a copy read by a slow acceptance run or publication, and a published
revision are all `Faithful`: they name the document of their revision, and every passed
case saw the document of the revision it is stamped with.  Then a publication that passed
its check froze an accepted document, however long ago it read it.

`DesignSession` adds steps that end a call anywhere (a request dies), so its proofs reuse
the draft's lemmas through `DraftMove`, which has these steps too.  Its own part is that
rows and *every copy* of a session, however old, are `Truthful`: not ahead of the draft,
pending proposals for the revision the copy stands at, accepted ones in the log.  This is
inductive because truth about the log is stable, so the last of several saves may win
without showing something that never happened.  `AcceptanceExecutes` links an acceptance
that is under way to the command it executes.  All five invariants and both temporal
properties of `drafts` are theorems.

### The data services

In `DocumentExtraction`, `RetrievalSnapshot` and `AnalysisDelivery` an attempt whose lease
is over goes on, so the invariants tell what is known of a call while `Live` holds from
what stays true without it.

* `DocumentExtractionProofs`: per parser, an item succeeds only for a document that can
  be read, and a finalisation that has checked its lease owns the set (`ParserOK`): no
  other attempt takes the set over while it is locked, although the lease may end in
  between.  Per extractor, its source is final, every plan has a unit for each readable
  document and no other, and the set was planned for as many as there are
  (`ExtractorOK`).  A document may be parsed again between two attempts, so a later plan
  may name other units; that a finished set then has one unit per document is an argument
  about cardinalities: the units of a whole set map onto the readable documents and there
  are as many of both, so the map is a bijection (`OneUnitEach`).
* `RetrievalSnapshotProofs`: no fence guards the indexes, so nothing can be said of who
  wrote last; but indexes only grow, and what a call has counted stays covered
  (`CountedIsCovered`).  A call that has opened a row resolved the row's model
  (`CallsFitTheirRow`).
* `AnalysisDeliveryProofs`: the live attempt works on the newest checkpoint and owns the
  unfinished result; what `artifact.render` is bound to, `ReadyToRender`, is there before
  its first attempt and does not change, so a render that is taken over writes the same
  artifact.

### Records and review

`RecordReviewProofs` takes field bags and keys as any values; what a cleaning or a
validation computes is not looked into, only that it is computed from the same input.  The
invariant follows the line of the nodes: nothing looks at records before there is one of
every draft (`TransformComesFirst`), nothing at results before there is one of every record
(`ValidationComesFirst`), a conclusion is made before its node is completed and both
transactions of the gate tell the same (`GateIsConcluded`), and what is published is what
was concluded (`PublishedAsConcluded`).  The heart is `ValidationsAgree`: the results that
are saved, in whatever attempt, are those that a validation against the dataset up to the
saved boundary computes, although other runs append meanwhile, because a row below the
boundary never changes.  `UnsoundStays` then needs no step of its own: a record with an
error has no key, so only fields a reviewer has entered let it in.

### The extraction agent

The tools alternate with requests, and an attempt may end between any two steps.  What is
inductive is said of the state the loop carries, of the checkpoint and of the unit at once:
whatever a checkpoint says was read was read (`Trustworthy`), an end is one the agent has
asked for (`EndIsExplicit`), requests in the checkpoint are covered by those accounted for
(`UsageIsCovered`), and a stored unit is the checkpoint's (`StoredIsLast`).  It holds for any
number of calls in a message; trying to prove it has shown that an earlier form of
`StoredUnitsAreRead` did not (section 7).

### The draft editor

    EditorInv == IsDraft(doc) /\ Valid(doc) /\ IsChain(doc)

`LinearOrder` of the code walks from the only head; that is no shape for an induction over
commands.  `IsChain` says instead that there are positions 1 to `length`, one for each node,
that every connection between nodes leads from a position to the next, that every node but
the first has one, and that a workflow output leaves the last.  Each command then is an
arithmetic of positions: a splice makes room (`Behind`), a bridge closes up (`Ahead`), an
append adds the last, and the rest leave all ends where they are (`SameEnds`).  Draft-mode
validation is needed to know that a node has one connection at its role input (`EdgeFacts`).
From the positions follow the count of connections, the only head and, by the least step at
which it could go wrong, the walk (`ChainIsCounted`, `WalkVisitsAll`).

### Configurations

A switch reads, deactivates and activates in three statements, and updates and deletions
take no advisory lock.  The invariant says that a switch past its first statement holds a
row lock on everything that is in force (`SwitchCoversActive`): nobody else puts a row in
force without the advisory lock, and nobody touches a locked row.  So the index of the active
rows has nothing to refuse.  A name that is taken rolls a transaction back like a lost
connection does.

## 7. Disagreements between the code and what is written about it

Each is a run that TLC refutes with a short trace, and an entry in `findings`.

1. `pause_lost`: `RetryWorkflowNode` (*runtime repo*:387) sets the run to running
   whatever it was; a pause requested during the execution is forgotten.
2. `await_pausing`: `AwaitWorkflowNodeManual` (*runtime repo*:328) moves a pausing run to
   manual completion, which `WorkflowRun.AwaitManual` refuses.
3. `stale_cancel`: `Pause` (*runtime*:150) looks the cancel function up by run id after
   its transaction; when the user has resumed meanwhile it stops the new execution
   and the run goes from running to paused.
4. `takeover`: the rebuild plan lets users take over during retries; `CompleteManual`
   (*runtime*:168) accepts awaiting nodes only.
5. `worker_exit`: `RuntimeWorker.Run` (*runtime*:374) returns on every error of `RunOnce`,
   a lost lease included; the process then serves requests and claims nothing.
6. `append_reuse`: `Derive` (line 222) recognises its own committed batch by the
   cursor's last run only; once another run has moved the cursor, the new attempt
   fails although its batch is committed.

7. `approve_gate`: `CreateHumanApprovedAnalysis` (`analysis_repo.go`:193) compares the text
   of a JSONB column with the compact JSON it has just inserted; they differ for every
   object with a field, the insertion is rolled back, and the gate never completes.

Further ones that have no run, because they need no interleaving to be seen:

* No command creates a decision about a rule (`draft_editor.go`:647 refuses
  `confirm_decision` for every draft), while publish mode demands one for a draft with a
  data contract (`validate.go`:585); `docs/WORKFLOW_REBUILD_PLAN.md`:383 lists the command.
* Of two concurrent deliveries of a command the second is answered with a revision
  conflict, not with the first one's result (`docs/WORKFLOW_REBUILD_PLAN.md`:357).
* `RemoveAndBridge` (`draft_editor.go`:213) tells the user to remove a workflow output
  first; no command does.
* A snapshot may mix embeddings of two models: items behind an older snapshot are
  reused without a comparison of the model and an upsert replaces them
  (`retrieval/service.go`:159), while `docs/REFACTOR_HANDOFF.md`:45 says that a snapshot freezes
  its embedding model.
* A checkpoint may end with a tool call without a result (`agent/run.go`:147); nothing
  repairs it, and providers require the result to follow (`infra/llm/anthropic.go`:89).
* Tool calls after `finish_extraction_unit` in one message still change the drafts, although
  the tool says that it seals the result (`extraction/tools.go`:411).  When a later call of
  the message validates them, the checkpoint and the hash of the unit's response keep the
  changed drafts together with the outcome announced before (`extraction/service.go`:476),
  "no records" with records for instance.  It takes three calls in one message; with a bound
  of two the model could not show it, the attempt at a proof for any number did.
* An item with at least four times as many chunks as the limit crowds others out of the
  semantic ranking, against the comment at `retrieval_repo.go`:249.

## 8. What is only checked, and what is not modelled

Only model-checked:

* the liveness properties: they rest on fairness and `ENABLED`, which the prover does not
  handle;
* `AnswersAreRanked`: sorting and the sum of the reciprocal ranks are folds over sequences
  and sets, and what they compute would be an induction over data;
* the disagreements of section 7, which are traces.

What `RecordCleaning` and `RetrievalSearch` compute is compared with their reference
definitions on the instances of the run; for all inputs it would be an induction over
data, which the prover cannot do.

Left out of the modules on purpose: the progress column and the outbox rows (nothing
reads them), `item_count`, the rows of previews and of query audits (inserted, never
decided on), identifiers and timestamps, the contents of resources, creation of runs,
datasets, assets and asset sets (part of `Init` or of the constants).  Transactions are
atomic, so the order in which they lock rows is not visible: an aborted transaction is
`DatabaseFails`, or a call that takes no further step.

Not modelled: the dry run of a preview (an execution passes or not), the per-field
predicates of definition validation (no state), streaming, traces and the sanitising of
messages in the agent loop (presentation), `ProviderRouter` (constructed in tests only),
external clients and the HTTP layer (stateless), start-up wiring, migrations and the front
end.  Fairness among several runs is left open: the claim order skips locked rows and no
document promises one.  `PROJECT.json` lists the components with their reasons, and under
`hazards` every behaviour found hard to test, with the properties that cover it or the
reason why none does.

## 9. Plan

Done: all modules and runs, and the proofs of section 6.  What would come next, most
important first:

1. `RetrievalSearch`: a specification of the sorted sequence by its properties in place of
   `SetToSortSeq`, which would take the induction out of the proof of `AnswersAreRanked`.
2. An abstract specification of the extraction manifest for `RecordReview` to start from, as
   `NodeFence` is one of the runtime.
3. The dry run of a preview, whose execution is a choice of passing or not so far.
