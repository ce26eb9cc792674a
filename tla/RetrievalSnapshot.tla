------------------------- MODULE RetrievalSnapshot -------------------------
(***************************************************************************)
(* retrieval.build: a node run seals the first items of a dataset for      *)
(* search.  All snapshots of one dataset and one search specification      *)
(* share a lexical index and a table of chunks with their embeddings; what *)
(* a snapshot owns is its row, with the position up to which a search may  *)
(* look into the two.                                                      *)
(*                                                                         *)
(* Neither index is fenced: an attempt whose lease is over goes on writing *)
(* them until its next fenced statement.  An attempt starts behind the     *)
(* newest active snapshot it can rely on, indexes page after page, counts, *)
(* and activates.  Its row says who may still write it.                    *)
(***************************************************************************)
EXTENDS Integers, FiniteSets

CONSTANTS
    Builders,   \* node runs of retrieval.build on one dataset and search spec
    Boundary,   \* the position that each builder's dataset input is bound to
    Models,     \* embedding models the platform may be configured with
    None,       \* no model: an item without chunks
    PageSize,   \* Options.PageSize: items read, embedded and written at once
    MaxAttempt  \* bound: a node run is not claimed more often than this

RetrievalAssumption ==
    /\ Boundary \in [Builders -> Nat]
    /\ None \notin Models
    /\ PageSize \in Nat \ {0} /\ MaxAttempt \in Nat

VARIABLES
    fence,     \* workflow_node_runs, as far as the service looks at it
    platform,  \* the embedding model in force
    lexical,   \* items in the lexical index
    chunk,     \* for each item, the model that embedded its chunks
    snap,      \* retrieval_snapshots, one for each builder
    call       \* the execution of each attempt of each builder

vars == <<fence, platform, lexical, chunk, snap, call>>

Nodes == INSTANCE NodeFence WITH Nodes <- Builders

Items == UNION {1..Boundary[n] : n \in Builders}

Snapshot == [attempt : 0..MaxAttempt, model : Models \cup {None},
             status : {"none", "building", "validating", "active", "failed"}]

CallPC == {"none", "begun", "resolved", "opened", "indexing", "embedded",
           "indexed", "validating", "counted", "activated", "failing",
           "answered", "stopped"}

\* model: of the snapshot; by: what embedded the page at hand.
Call == [pc : CallPC, model : Models \cup {None}, by : Models \cup {None},
         processed : Nat]

Init ==
    /\ Nodes!Init
    /\ platform \in Models
    /\ lexical = {}
    /\ chunk = [i \in Items |-> None]
    /\ snap = [n \in Builders |-> [attempt |-> 0, model |-> None, status |-> "none"]]
    /\ call = [c \in Builders \X (1..MaxAttempt) |->
                 [pc |-> "none", model |-> None, by |-> None, processed |-> 0]]

At(n, k, pc) == call[<<n, k>>].pc = pc
MoveTo(n, k, pc) == call' = [call EXCEPT ![<<n, k>>].pc = pc]

\* What a search of the snapshot of n can find by both of its lists: each
\* list is cut at the position of the snapshot.
Visible(n) == {i \in 1..Boundary[n] : i \in lexical /\ chunk[i] # None}

\* lexical.Count and CountRetrievalChunks up to the position both give it.
Covered(through) == \A i \in 1..through : i \in lexical /\ chunk[i] # None

-----------------------------------------------------------------------------
(* The environment *)

Claim(n) ==
    /\ Nodes!Claim(n)
    /\ MoveTo(n, fence[n].attempt + 1, "begun")
    /\ UNCHANGED <<platform, lexical, chunk, snap>>

Lose(n) ==
    /\ Nodes!Lose(n)
    /\ UNCHANGED <<platform, lexical, chunk, snap, call>>

Settle(n, k) ==
    /\ At(n, k, "answered")
    /\ Nodes!Live(n, k)
    /\ Nodes!Settle(n)
    /\ UNCHANGED <<platform, lexical, chunk, snap, call>>

\* Somebody activates another embedding configuration.
Reconfigure ==
    /\ \E m \in Models \ {platform} : platform' = m
    /\ UNCHANGED <<fence, lexical, chunk, snap, call>>

-----------------------------------------------------------------------------
(* BuildSnapshot *)

\* resolveEmbeddingModel: compileSearchContract asks for "platform_default".
Resolve(n, k) ==
    /\ At(n, k, "begun")
    /\ call' = [call EXCEPT ![<<n, k>>].model = platform, ![<<n, k>>].pc = "resolved"]
    /\ UNCHANGED <<fence, platform, lexical, chunk, snap>>

\* GetOrCreateRetrievalSnapshotForNode: the row must have been made for the
\* same inputs, of which only the model can differ between two attempts.
GetOrCreate(n, k) ==
    LET m == call[<<n, k>>].model
    IN  /\ At(n, k, "resolved")
        /\ Nodes!Live(n, k)
        /\ snap[n].status # "none" => snap[n].model = m
        /\ \/ /\ snap[n].status # "active"
              /\ snap' = [snap EXCEPT ![n] =
                            [attempt |-> k, model |-> m, status |-> "building"]]
              /\ MoveTo(n, k, "opened")
           \/ /\ snap[n].status = "active"
              /\ MoveTo(n, k, "answered")
              /\ UNCHANGED snap
        /\ UNCHANGED <<fence, platform, lexical, chunk>>

\* GetLatestActiveRetrievalSnapshot and the counts that decide whether the
\* items behind it may be skipped.
LatestActive(through) ==
    LET sealed == {0} \cup {Boundary[m] : m \in {b \in Builders : snap[b].status = "active"
                                                             /\ Boundary[b] <= through}}
    IN  CHOOSE p \in sealed : \A q \in sealed : q <= p

Start(n, k) ==
    LET previous == LatestActive(Boundary[n])
    IN  /\ At(n, k, "opened")
        /\ call' = [call EXCEPT ![<<n, k>>].processed = IF Covered(previous) THEN previous ELSE 0,
                                ![<<n, k>>].pc = "indexing"]
        /\ UNCHANGED <<fence, platform, lexical, chunk, snap>>

Page(n, k) ==
    {i \in 1..Boundary[n] : i > call[<<n, k>>].processed
                            /\ i <= call[<<n, k>>].processed + PageSize}

\* The client of the embedder resolves the configuration on every request.
Embed(n, k) ==
    /\ At(n, k, "indexing")
    /\ Page(n, k) # {}
    /\ call' = [call EXCEPT ![<<n, k>>].by = platform, ![<<n, k>>].pc = "embedded"]
    /\ UNCHANGED <<fence, platform, lexical, chunk, snap>>

\* LexicalBackend.Build: documents are keyed by the id of the item.
BuildLexical(n, k) ==
    /\ At(n, k, "embedded")
    /\ lexical' = lexical \cup Page(n, k)
    /\ MoveTo(n, k, "indexed")
    /\ UNCHANGED <<fence, platform, chunk, snap>>

\* UpsertRetrievalChunks overwrites what the item had; progress follows.
UpsertChunks(n, k) ==
    LET page == Page(n, k)
    IN  /\ At(n, k, "indexed")
        /\ chunk' = [i \in Items |-> IF i \in page THEN call[<<n, k>>].by ELSE chunk[i]]
        /\ call' = [call EXCEPT ![<<n, k>>].pc = "indexing", ![<<n, k>>].by = None,
                                ![<<n, k>>].processed = @ + Cardinality(page)]
        /\ UNCHANGED <<fence, platform, lexical, snap>>

\* Mutant: an active snapshot is not spared.
StatusWritableInAnyStatus(n, k) == Nodes!Live(n, k) /\ snap[n].attempt = k

\* The WHERE clause of SetRetrievalSnapshotStatusForNode, after the fence.
StatusWritable(n, k) == /\ Nodes!Live(n, k)
                        /\ snap[n].attempt = k /\ snap[n].status # "active"

Validate(n, k) ==
    /\ At(n, k, "indexing")
    /\ Page(n, k) = {}
    /\ StatusWritable(n, k)
    /\ snap' = [snap EXCEPT ![n].status = "validating"]
    /\ MoveTo(n, k, "validating")
    /\ UNCHANGED <<fence, platform, lexical, chunk>>

Count(n, k) ==
    /\ At(n, k, "validating")
    /\ Covered(Boundary[n])
    /\ MoveTo(n, k, "counted")
    /\ UNCHANGED <<fence, platform, lexical, chunk, snap>>

\* ActivateRetrievalSnapshotForNode: an active row is returned as it is.
Activate(n, k) ==
    /\ At(n, k, "counted")
    /\ Nodes!Live(n, k)
    /\ snap[n].status = "active" \/ (snap[n].status = "validating" /\ snap[n].attempt = k)
    /\ snap' = [snap EXCEPT ![n].status = "active"]
    /\ MoveTo(n, k, "activated")
    /\ UNCHANGED <<fence, platform, lexical, chunk>>

\* The progress report after the activation succeeds.
Answer(n, k) ==
    /\ At(n, k, "activated")
    /\ MoveTo(n, k, "answered")
    /\ UNCHANGED <<fence, platform, lexical, chunk, snap>>

\* A read, a write, the embedder, a count or a report fails; of a page sent
\* to the lexical index some documents may have arrived.
Error(n, k) ==
    /\ call[<<n, k>>].pc \in {"opened", "indexing", "embedded", "indexed",
                              "validating", "counted", "activated"}
    /\ \E part \in SUBSET (IF At(n, k, "embedded") THEN Page(n, k) ELSE {}) :
         lexical' = lexical \cup part
    /\ MoveTo(n, k, "failing")
    /\ UNCHANGED <<fence, platform, chunk, snap>>

\* The deferred SetRetrievalSnapshotStatusForNode, whose own error is dropped.
RecordFailure(n, k) ==
    /\ At(n, k, "failing")
    /\ IF StatusWritable(n, k)
       THEN snap' = [snap EXCEPT ![n].status = "failed"]
       ELSE UNCHANGED snap
    /\ MoveTo(n, k, "stopped")
    /\ UNCHANGED <<fence, platform, lexical, chunk>>

-----------------------------------------------------------------------------
Next ==
    \/ Reconfigure
    \/ \E n \in Builders : Claim(n) \/ Lose(n)
    \/ \E n \in Builders, k \in 1..MaxAttempt :
         \/ Settle(n, k) \/ Resolve(n, k) \/ GetOrCreate(n, k) \/ Start(n, k)
         \/ Embed(n, k) \/ BuildLexical(n, k) \/ UpsertChunks(n, k)
         \/ Validate(n, k) \/ Count(n, k) \/ Activate(n, k) \/ Answer(n, k)
         \/ Error(n, k) \/ RecordFailure(n, k)

Spec == Init /\ [][Next]_vars

-----------------------------------------------------------------------------
(* Properties *)

TypeOK ==
    /\ fence \in [Builders -> Nodes!Fence]
    /\ platform \in Models
    /\ lexical \subseteq Items
    /\ chunk \in [Items -> Models \cup {None}]
    /\ snap \in [Builders -> Snapshot]
    /\ call \in [Builders \X (1..MaxAttempt) -> Call]

\* A node run that is told to be complete has an active snapshot behind it,
\* of the model it was begun with, also when it only found it there.
AnsweredIsActive ==
    \A n \in Builders, k \in 1..MaxAttempt :
        At(n, k, "answered") =>
            snap[n].status = "active" /\ snap[n].model = call[<<n, k>>].model

(***************************************************************************)
(* An active snapshot is sealed: it stays active with the inputs it was    *)
(* built for, and every item up to its position is and stays in both       *)
(* indexes, whatever a report, a stale attempt or another builder does     *)
(* afterwards.                                                             *)
(***************************************************************************)
KeepsSealedSnapshots ==
    \A n \in Builders :
      /\ snap[n].status = "active" => snap'[n] = snap[n]
      /\ snap'[n].status = "active" => Visible(n)' = 1..Boundary[n]

SealedSnapshotsStaySealed == [][KeepsSealedSnapshots]_vars
=============================================================================
