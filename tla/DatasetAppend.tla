--------------------------- MODULE DatasetAppend ---------------------------
(***************************************************************************)
(* Appending to datasets.  Node runs of data.publish append approved       *)
(* records to a dataset, and node runs that derive the query dataset       *)
(* process the base dataset increment by increment behind a cursor.        *)
(* Clients open and commit batches over HTTP, and nothing confines them: a *)
(* client may open a batch of either dataset, also under the id of a node  *)
(* run before that run does, and may commit any batch, with any records,   *)
(* whoever opened it.                                                      *)
(*                                                                         *)
(* One action is one transaction or one read of the source.  A call is one *)
(* execution of a node's executor by one attempt; a call of an attempt     *)
(* that lost its lease goes on until a fence stops it.  A call that a      *)
(* check rejects, whose statement fails or whose process dies writes       *)
(* nothing more: it is a call that takes no further step.                  *)
(*                                                                         *)
(* A record is its business key: fields, fingerprints and provenance are   *)
(* functions of it, so the payload hash is the set of keys (a payload that *)
(* differs in more than its keys is refused at a commit that is repeated,  *)
(* and the refused call takes no further step).  One base item gives one   *)
(* query item.  Of the datasets of the workspace there are two; a batch of *)
(* a third one is to a node run what a batch of another run is.            *)
(***************************************************************************)
EXTENDS Integers, FiniteSets

CONSTANTS
    Publishers,  \* node runs of data.publish
    Derivers,    \* node runs that derive the query dataset, one per workflow run
    Drafts,      \* batches opened over HTTP for no node run
    Keys,        \* business keys (item_key)
    Approved,    \* the keys of each publisher's approved record set
    Goal,        \* the dataset of each publisher's approved record set
    MaxAttempt,  \* bound: a node run is not claimed more often than this
    Retried,     \* bound: only these node runs are claimed more than once
    Opened,      \* bound: clients open only these batches
    NoRun        \* the NULL last_success_run_id

\* Their purpose matters to Derive only.
Datasets == {"base", "query"}

ASSUME AppendAssumption ==
    /\ Publishers \cap Derivers = {}
    /\ Drafts \cap (Publishers \cup Derivers) = {}
    /\ IsFiniteSet(Keys)
    /\ Approved \in [Publishers -> SUBSET Keys]
    /\ Goal \in [Publishers -> Datasets]
    /\ MaxAttempt \in Nat
    /\ NoRun \notin Derivers

Producers == Publishers \cup Derivers

\* A node run has at most one batch (unique producer_node_run_id), which is
\* named after it, whoever opens it.
Batches == Producers \cup Drafts

\* The dataset a node run asks its batch for.
Target(n) == IF n \in Derivers THEN "query" ELSE Goal[n]

VARIABLES
    fence,     \* workflow_node_runs, as far as the services look at it
    rows,      \* dataset_items of each dataset
    current,   \* datasets.current_seq
    batch,     \* dataset_batches
    cursor,    \* the pipeline_cursors row of (pipeline, base, query)
    boundary,  \* through_seq of each deriver's input binding (0: not yet bound)
    call       \* the execution of each attempt of each node run

vars == <<fence, rows, current, batch, cursor, boundary, call>>

Nodes == INSTANCE NodeFence WITH Nodes <- Producers

Row == [seq : Nat \ {0}, key : Keys, batch : Batches]

\* "own": dataset and workflow run are those that the node run asks for.
Batch == [status : {"none", "staging", "committed"}, dataset : Datasets,
          own : BOOLEAN, payload : SUBSET Keys, from : Nat, to : Nat]

Cursor == [through : Nat, run : Derivers \cup {NoRun}]

(* Where an execution stands.  "positioned": Derive found an increment     *)
(* after through.  "reusing": it found its own run's.  "staged": the batch *)
(* exists.  "prepared": the items are read.  "answered": committed.        *)
(* "stale": another run moved the cursor to the boundary or past it, an    *)
(* error.                                                                  *)
CallPC == {"none", "begun", "positioned", "reusing", "staged", "prepared",
           "answered", "stale"}

Call == [pc : CallPC, through : Nat, items : SUBSET Keys]

Calls == Producers \X (1..MaxAttempt)

NewCall(pc) == [pc |-> pc, through |-> 0, items |-> {}]

Init ==
    /\ Nodes!Init
    /\ rows = [d \in Datasets |-> {}]
    /\ current = [d \in Datasets |-> 0]
    /\ batch = [b \in Batches |->
                  [status |-> "none", dataset |-> "base", own |-> FALSE,
                   payload |-> {}, from |-> 0, to |-> 0]]
    /\ cursor = [through |-> 0, run |-> NoRun]
    /\ boundary = [n \in Derivers |-> 0]
    /\ call = [c \in Calls |-> NewCall("none")]

-----------------------------------------------------------------------------
(* The node runs.                                                          *)

\* Mutant: each claim binds the newest boundary.
ClaimRebinds(n) ==
    /\ Nodes!Claim(n)
    /\ fence[n].attempt = 0 \/ n \in Retried
    /\ call' = [call EXCEPT ![<<n, fence[n].attempt + 1>>] = NewCall("begun")]
    /\ IF n \in Derivers
       THEN \E s \in 1..current["base"] : boundary' = [boundary EXCEPT ![n] = s]
       ELSE UNCHANGED boundary
    /\ UNCHANGED <<rows, current, batch, cursor>>

\* A worker claims n and begins its execution.  The input of a deriver, a
\* boundary inside the base dataset, is bound before its first claim.
Claim(n) ==
    /\ Nodes!Claim(n)
    /\ fence[n].attempt = 0 \/ n \in Retried
    /\ call' = [call EXCEPT ![<<n, fence[n].attempt + 1>>] = NewCall("begun")]
    /\ IF n \in Derivers /\ boundary[n] = 0
       THEN \E s \in 1..current["base"] : boundary' = [boundary EXCEPT ![n] = s]
       ELSE UNCHANGED boundary
    /\ UNCHANGED <<rows, current, batch, cursor>>

Lose(n) ==
    /\ Nodes!Lose(n)
    /\ UNCHANGED <<rows, current, batch, cursor, boundary, call>>

\* The executor answered and the worker completes the node.
Settle(n, a) ==
    /\ call[<<n, a>>].pc = "answered"
    /\ Nodes!Live(n, a)
    /\ Nodes!Settle(n)
    /\ UNCHANGED <<rows, current, batch, cursor, boundary, call>>

At(n, a, pc) == call[<<n, a>>].pc = pc

MoveTo(n, a, pc) == call' = [call EXCEPT ![<<n, a>>].pc = pc]

-----------------------------------------------------------------------------
(* The transactions on batches.                                            *)

Open(b, d, own) ==
    /\ batch[b].status = "none"
    /\ batch' = [batch EXCEPT ![b] = [@ EXCEPT !.status = "staging", !.dataset = d, !.own = own]]

\* GetOrCreateDatasetBatchForNode: INSERT ... ON CONFLICT DO NOTHING, and an
\* error if the batch that was there is of another dataset or workflow run.
GetOrCreateBatch(n) ==
    \/ Open(n, Target(n), TRUE)
    \/ batch[n].status # "none" /\ batch[n].own /\ UNCHANGED batch

KeysOf(d) == {r.key : r \in rows[d]}

\* Mutant: the range starts at current_seq instead of after it.
NumberingsFromCurrent(d, items) ==
    {f \in [items -> current[d]..(current[d] + Cardinality(items) - 1)] :
        \A k, l \in items : f[k] = f[l] => k = l}

\* NextCommitRange and the order of the items within it: sorted by item_key,
\* a hash, hence an order the model leaves open.
Numberings(d, items) ==
    {f \in [items -> (current[d] + 1)..(current[d] + Cardinality(items))] :
        \A k, l \in items : f[k] = f[l] => k = l}

\* Mutant: the dataset counts batches instead of items.
AppendCountsBatches(b, items) ==
    LET d  == batch[b].dataset
        to == current[d] + Cardinality(items)
    IN  /\ batch[b].status = "staging"
        /\ items # {}
        /\ items \cap KeysOf(d) = {}
        /\ \E f \in Numberings(d, items) :
             rows' = [rows EXCEPT ![d] = @ \cup
                        {[seq |-> f[k], key |-> k, batch |-> b] : k \in items}]
        /\ current' = [current EXCEPT ![d] = @ + 1]
        /\ batch' = [batch EXCEPT ![b] = [@ EXCEPT !.status = "committed", !.payload = items,
                                                   !.from = current[d] + 1, !.to = to]]

\* Mutant: from_seq is the position before the range.
AppendFromCurrent(b, items) ==
    LET d  == batch[b].dataset
        to == current[d] + Cardinality(items)
    IN  /\ batch[b].status = "staging"
        /\ items # {}
        /\ items \cap KeysOf(d) = {}
        /\ \E f \in Numberings(d, items) :
             rows' = [rows EXCEPT ![d] = @ \cup
                        {[seq |-> f[k], key |-> k, batch |-> b] : k \in items}]
        /\ current' = [current EXCEPT ![d] = to]
        /\ batch' = [batch EXCEPT ![b] = [@ EXCEPT !.status = "committed", !.payload = items,
                                                   !.from = current[d], !.to = to]]

\* Mutant: the status of the batch is not checked.
AppendAgain(b, items) ==
    LET d  == batch[b].dataset
        to == current[d] + Cardinality(items)
    IN  /\ batch[b].status # "none"
        /\ items # {}
        /\ items \cap KeysOf(d) = {}
        /\ \E f \in Numberings(d, items) :
             rows' = [rows EXCEPT ![d] = @ \cup
                        {[seq |-> f[k], key |-> k, batch |-> b] : k \in items}]
        /\ current' = [current EXCEPT ![d] = to]
        /\ batch' = [batch EXCEPT ![b] = [@ EXCEPT !.status = "committed", !.payload = items,
                                                   !.from = current[d] + 1, !.to = to]]

\* commitDatasetBatch on a staging batch.
Append(b, items) ==
    LET d  == batch[b].dataset
        to == current[d] + Cardinality(items)
    IN  /\ batch[b].status = "staging"
        /\ items # {}
        /\ items \cap KeysOf(d) = {}
        /\ \E f \in Numberings(d, items) :
             rows' = [rows EXCEPT ![d] = @ \cup
                        {[seq |-> f[k], key |-> k, batch |-> b] : k \in items}]
        /\ current' = [current EXCEPT ![d] = to]
        /\ batch' = [batch EXCEPT ![b] = [@ EXCEPT !.status = "committed", !.payload = items,
                                                   !.from = current[d] + 1, !.to = to]]

\* commitDatasetBatch on a committed batch: the same payload_hash, no write.
AlreadyCommitted(b, items) ==
    /\ batch[b].status = "committed"
    /\ batch[b].payload = items
    /\ UNCHANGED <<rows, current, batch>>

-----------------------------------------------------------------------------
(* PublishApprovedRecords.                                                 *)

StagePublication(n, a) ==
    /\ n \in Publishers /\ At(n, a, "begun")
    /\ Nodes!Live(n, a)
    /\ GetOrCreateBatch(n)
    /\ MoveTo(n, a, "staged")
    /\ UNCHANGED <<fence, rows, current, cursor, boundary>>

CommitPublication(n, a) ==
    /\ n \in Publishers /\ At(n, a, "staged")
    /\ Nodes!Live(n, a)
    /\ Append(n, Approved[n]) \/ AlreadyCommitted(n, Approved[n])
    /\ MoveTo(n, a, "answered")
    /\ UNCHANGED <<fence, cursor, boundary>>

(* Clients over HTTP: no fence and no cursor.  (A commit that is sent      *)
(* again, AlreadyCommitted, changes nothing.)                              *)

\* OpenBatch: the dataset and both producer ids are the client's choice.
OpenBatch(b, d, own) ==
    /\ own => b \in Producers /\ d = Target(b)
    /\ Open(b, d, own)
    /\ UNCHANGED <<fence, rows, current, cursor, boundary, call>>

PublishBatch(b, items) ==
    /\ Append(b, items)
    /\ UNCHANGED <<fence, cursor, boundary, call>>

-----------------------------------------------------------------------------
(* Derive.                                                                 *)

\* Mutant: a cursor at or past the boundary is an answer.
ReadCursorAnswers(n, a) ==
    /\ n \in Derivers /\ At(n, a, "begun")
    /\ \/ /\ cursor.through < boundary[n]
          /\ call' = [call EXCEPT ![<<n, a>>].pc = "positioned",
                                  ![<<n, a>>].through = cursor.through]
       \/ /\ cursor.through >= boundary[n]
          /\ MoveTo(n, a, "answered")
    /\ UNCHANGED <<fence, rows, current, batch, cursor, boundary>>

\* Mutant: the insertion that finds a cursor resets it.
ReadCursorResets(n, a) ==
    /\ n \in Derivers /\ At(n, a, "begun")
    /\ call' = [call EXCEPT ![<<n, a>>].pc = "positioned", ![<<n, a>>].through = 0]
    /\ cursor' = [through |-> 0, run |-> NoRun]
    /\ UNCHANGED <<fence, rows, current, batch, boundary>>

\* GetOrCreatePipelineCursor, read without a fence, and what follows from it.
ReadCursor(n, a) ==
    /\ n \in Derivers /\ At(n, a, "begun")
    /\ \/ /\ cursor.through < boundary[n]
          /\ call' = [call EXCEPT ![<<n, a>>].pc = "positioned",
                                  ![<<n, a>>].through = cursor.through]
       \/ /\ cursor.through >= boundary[n] /\ cursor.run = n
          /\ MoveTo(n, a, "reusing")
       \/ /\ cursor.through >= boundary[n] /\ cursor.run # n
          /\ MoveTo(n, a, "stale")
    /\ UNCHANGED <<fence, rows, current, batch, cursor, boundary>>

\* The run's own batch, if it is committed, is the answer.
ReuseBatch(n, a) ==
    /\ At(n, a, "reusing")
    /\ Nodes!Live(n, a)
    /\ GetOrCreateBatch(n)
    /\ batch'[n].status = "committed"
    /\ MoveTo(n, a, "answered")
    /\ UNCHANGED <<fence, rows, current, cursor, boundary>>

StageDerivation(n, a) ==
    /\ At(n, a, "positioned")
    /\ Nodes!Live(n, a)
    /\ GetOrCreateBatch(n)
    /\ batch'[n].status # "committed"
    /\ MoveTo(n, a, "staged")
    /\ UNCHANGED <<fence, rows, current, cursor, boundary>>

\* Mutant: the item after the cursor is left out.
IncrementSkipsFirst(n, through) ==
    {r \in rows["base"] : through + 1 < r.seq /\ r.seq <= boundary[n]}

\* Mutant: whatever the base dataset holds by now.
IncrementUnbounded(n, through) ==
    {r \in rows["base"] : through < r.seq}

Increment(n, through) ==
    {r \in rows["base"] : through < r.seq /\ r.seq <= boundary[n]}

\* readSourceIncrement: every position after the cursor, without a gap.
ReadIncrement(n, a) ==
    LET through == call[<<n, a>>].through IN
    /\ n \in Derivers /\ At(n, a, "staged")
    /\ \A s \in (through + 1)..boundary[n] : \E r \in Increment(n, through) : r.seq = s
    /\ call' = [call EXCEPT ![<<n, a>>].pc = "prepared",
                            ![<<n, a>>].items = {r.key : r \in Increment(n, through)}]
    /\ UNCHANGED <<fence, rows, current, batch, cursor, boundary>>

\* Mutant: the cursor moves to the newest base position.
CommitDerivationNewest(n, a) ==
    /\ At(n, a, "prepared")
    /\ Nodes!Live(n, a)
    /\ Append(n, call[<<n, a>>].items)
    /\ cursor.through = call[<<n, a>>].through
    /\ cursor' = [through |-> current["base"], run |-> n]
    /\ MoveTo(n, a, "answered")
    /\ UNCHANGED <<fence, boundary>>

\* CommitQueryDatasetBatchForNode: the batch and the cursor in one transaction.
\* (The branch of a committed batch is out of reach: a batch that a client has
\* committed meanwhile holds the increment only while the cursor is before it.)
CommitDerivation(n, a) ==
    /\ At(n, a, "prepared")
    /\ Nodes!Live(n, a)
    /\ \/ /\ Append(n, call[<<n, a>>].items)
          /\ cursor.through = call[<<n, a>>].through
          /\ cursor' = [through |-> boundary[n], run |-> n]
       \/ /\ AlreadyCommitted(n, call[<<n, a>>].items)
          /\ cursor.through >= boundary[n]
          /\ UNCHANGED cursor
    /\ MoveTo(n, a, "answered")
    /\ UNCHANGED <<fence, boundary>>

-----------------------------------------------------------------------------
CallStep(n, a) ==
    \/ Settle(n, a)
    \/ StagePublication(n, a) \/ CommitPublication(n, a)
    \/ ReadCursor(n, a) \/ ReuseBatch(n, a) \/ StageDerivation(n, a)
    \/ ReadIncrement(n, a) \/ CommitDerivation(n, a)

Next ==
    \/ \E n \in Producers : Claim(n) \/ Lose(n)
    \/ \E c \in Calls : CallStep(c[1], c[2])
    \/ \E b \in Batches \cap Opened, d \in Datasets, own \in BOOLEAN : OpenBatch(b, d, own)
    \/ \E b \in Batches, items \in SUBSET Keys : PublishBatch(b, items)

Spec == Init /\ [][Next]_vars

-----------------------------------------------------------------------------
(* Invariants.                                                             *)

\* Every column holds a value of its type; positions start at 1.
TypeOK ==
    /\ fence \in [Producers -> Nodes!Fence]
    /\ rows \in [Datasets -> SUBSET Row]
    /\ current \in [Datasets -> Nat]
    /\ batch \in [Batches -> Batch]
    /\ cursor \in Cursor
    /\ boundary \in [Derivers -> Nat]
    /\ call \in [Calls -> Call]

\* The positions of a dataset are 1..current_seq without a gap and without a
\* repetition, and no business key occurs twice, whoever appends.  (Derive
\* stops with an error at a gap; nothing could ever close one.)
SeqsAreContiguous ==
    \A d \in Datasets :
      /\ {r.seq : r \in rows[d]} = 1..current[d]
      /\ \A r, q \in rows[d] : r.seq = q.seq \/ r.key = q.key => r = q

Owned(d, b) == {r \in rows[d] : r.batch = b}

\* A committed batch is exactly the range from_seq..to_seq of its dataset and
\* holds exactly what its payload_hash says; no other row is of any batch.
BatchOwnsItsRange ==
    \A b \in Batches, d \in Datasets :
      IF batch[b].status = "committed" /\ batch[b].dataset = d
      THEN /\ Owned(d, b) = {r \in rows[d] : r.seq \in batch[b].from..batch[b].to}
           /\ {r.key : r \in Owned(d, b)} = batch[b].payload
      ELSE Owned(d, b) = {}

\* The node runs that answered with a derivation, and what they derived.
\* Everything else in the query dataset was published or put there by clients.
Derivations == {n \in Derivers : \E a \in 1..MaxAttempt : At(n, a, "answered")}

Derived == {r \in rows["query"] : r.batch \in Derivations}

Foreign == rows["query"] \ Derived

\* What derivations wrote are the base records up to the cursor, no other
\* ones and none of them twice, whatever clients add to either dataset and
\* whichever batches they commit in a derivation's place.
DerivedExactlyOnce ==
    /\ cursor.through <= current["base"]
    /\ {r.key : r \in Derived} = {r.key : r \in {q \in rows["base"] : q.seq <= cursor.through}}
    /\ \A r, q \in rows["query"] : r \in Derived /\ r.key = q.key => r = q

\* A derivation's commit and the cursor agree: an attempt that finds its run
\* in the cursor finds the batch of its own node run committed, and a live
\* attempt that found an increment has no predecessor that committed one (if
\* its batch is committed, a client did that).
CursorAgreesWithBatch ==
    \A c \in Calls : c[1] \in Derivers =>
      /\ call[c].pc = "reusing" => /\ batch[c[1]].status = "committed"
                                   /\ batch[c[1]].dataset = "query"
      /\ call[c].pc \in {"positioned", "staged", "prepared"} /\ Nodes!Live(c[1], c[2])
           => c[1] \notin Derivations

\* The increment is read page by page outside the transaction that commits
\* it: it is whole when it is read, and still the same when it is committed.
IncrementIsComplete ==
    \A c \in Calls : c[1] \in Derivers =>
      LET increment == Increment(c[1], call[c].through) IN
      /\ call[c].pc \in {"staged", "prepared"} =>
           {r.seq : r \in increment} = (call[c].through + 1)..boundary[c[1]]
      /\ call[c].pc = "prepared" => call[c].items = {r.key : r \in increment}

\* What an executor answered is there: its own batch is committed in the
\* dataset it asked for; a publication holds what was approved, and for a
\* derivation the query dataset covers the boundary.
AnswerIsDurable ==
    \A c \in Calls : call[c].pc = "answered" =>
      /\ batch[c[1]].status = "committed"
      /\ batch[c[1]].dataset = Target(c[1])
      /\ c[1] \in Publishers => batch[c[1]].payload = Approved[c[1]]
      /\ c[1] \in Derivers =>
           \A r \in rows["base"] : r.seq <= boundary[c[1]] => r.key \in KeysOf("query")

-----------------------------------------------------------------------------
(* Action properties.                                                      *)

\* Datasets only grow, and a committed batch never changes: a repeated
\* commit, by whichever attempt, adds nothing.
AppendOnly ==
    [][/\ \A d \in Datasets : rows[d] \subseteq rows'[d]
       /\ \A b \in Batches : batch[b].status = "committed" => batch'[b] = batch[b]]_vars

\* The cursor moves forward only, and only together with the commit of the
\* batch that covers the way.
CursorMovesWithBatch ==
    [][cursor' # cursor =>
         /\ cursor'.through > cursor.through
         /\ cursor'.run \in Derivers
         /\ batch[cursor'.run].status = "staging"
         /\ batch'[cursor'.run].status = "committed"]_vars

-----------------------------------------------------------------------------
(* The promise: DerivedLog.                                                *)

KeyAt(s) == CHOOSE k \in Keys : \E r \in rows["base"] : r.seq = s /\ r.key = k

Promise == INSTANCE DerivedLog WITH
    log      <- [s \in 1..current["base"] |-> KeyAt(s)],
    position <- cursor.through,
    derived  <- {r.key : r \in Derived},
    foreign  <- {r.key : r \in Foreign}

\* Through attempts, stale positions, repeated commits and clients that open
\* and commit batches of node runs the base dataset is a log, and what was
\* derived into the query dataset is a prefix of it, each record once, beside
\* what others put there.
ImplementsDerivedLog == Promise!Spec

-----------------------------------------------------------------------------
(* A statement of the source that the code does not respect.               *)

\* Derive: a new attempt of the run that committed the batch "must reuse" it.
\* (Derivations: the batch was committed by the run, not by a client.)
TakeoverReusesBatch ==
    \A c \in Calls : call[c].pc = "stale" => c[1] \notin Derivations
=============================================================================
