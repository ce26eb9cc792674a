------------------------ MODULE DatasetAppendProofs ------------------------
(***************************************************************************)
(* Proofs about DatasetAppend for every set of node runs, drafts and keys, *)
(* every bound on claims and every choice of what clients open and commit: *)
(* with Opened = Batches they are free to do everything the HTTP handlers  *)
(* let through.                                                            *)
(***************************************************************************)
EXTENDS DatasetAppend, FiniteSetTheorems, TLAPS

-----------------------------------------------------------------------------
(* The inductive invariant.  Beside the properties that the runs check it  *)
(* says what the calls and the cursor rely on.                             *)

\* The range of a committed batch lies behind current_seq: no later row can
\* fall into it.
RangesAreWritten ==
    \A b \in Batches :
      batch[b].status = "committed" => batch[b].to <= current[batch[b].dataset]

\* The boundary of a deriver lies inside the base dataset, and it is bound
\* before the node run is executed: what a call read of it stays true.
BoundariesAreBound ==
    \A n \in Derivers :
      /\ boundary[n] <= current["base"]
      /\ boundary[n] = 0 => \A a \in 1..MaxAttempt : At(n, a, "none")

\* Attempts are executed in the order of the claims.
ClaimedInOrder ==
    \A c \in Calls : c[2] > fence[c[1]].attempt => call[c].pc = "none"

\* A node run of data.publish does nothing that Derive does.
PublishersOnlyPublish ==
    \A c \in Calls : c[1] \in Publishers =>
      call[c].pc \in {"none", "begun", "staged", "answered"}

\* A deriver that is on its way works on a position before its boundary, and
\* on exactly the records between the two.
PositionsAreBehind ==
    \A c \in Calls : c[1] \in Derivers =>
      /\ call[c].pc \in {"positioned", "staged", "prepared"} =>
           call[c].through < boundary[c[1]]
      /\ call[c].pc = "prepared" =>
           call[c].items = {r.key : r \in Increment(c[1], call[c].through)}

\* What a node run accepted as its own batch is one of the dataset it asked
\* for, and who accepted one goes on with it.
OwnBatches ==
    /\ \A n \in Producers :
         batch[n].own => batch[n].status # "none" /\ batch[n].dataset = Target(n)
    /\ \A c \in Calls :
         call[c].pc \in {"staged", "prepared", "answered"} => batch[c[1]].own

\* The cursor has passed the boundary of every derivation that answered, and
\* names one of them.
CursorCoversAnswers ==
    /\ \A n \in Derivations : boundary[n] <= cursor.through
    /\ cursor.run \in Derivers => cursor.run \in Derivations

\* An attempt that reuses has a predecessor that answered, a live attempt
\* that derives has none.
AttemptsAgree ==
    \A c \in Calls : c[1] \in Derivers =>
      /\ call[c].pc = "reusing" => c[1] \in Derivations
      /\ call[c].pc \in {"positioned", "staged", "prepared"} /\ Nodes!Live(c[1], c[2])
           => c[1] \notin Derivations

\* Only the owner of a committed batch answers, a publisher with the batch
\* that holds what was approved.
AnsweredIsCommitted ==
    \A c \in Calls : call[c].pc = "answered" =>
      /\ batch[c[1]].status = "committed"
      /\ c[1] \in Publishers => batch[c[1]].payload = Approved[c[1]]

Tables == SeqsAreContiguous /\ BatchOwnsItsRange /\ RangesAreWritten

Progress ==
    /\ BoundariesAreBound /\ ClaimedInOrder /\ PublishersOnlyPublish /\ PositionsAreBehind
    /\ OwnBatches /\ CursorCoversAnswers /\ AttemptsAgree /\ AnsweredIsCommitted

IInv == TypeOK /\ Tables /\ DerivedExactlyOnce /\ Progress

-----------------------------------------------------------------------------
(* Small facts.                                                            *)

\* Sets of keys are finite, and counted by a natural number.
LEMMA KeySetsAreFinite ==
    ASSUME NEW items \in SUBSET Keys
    PROVE  /\ IsFiniteSet(items)
           /\ Cardinality(items) \in Nat
           /\ items # {} => Cardinality(items) > 0
  <1>1. IsFiniteSet(items)
    BY FS_Subset, AppendAssumption
  <1>2. QED
    BY <1>1, FS_CardinalityType, FS_EmptySet

\* A publisher has a set of keys to publish.
LEMMA ApprovedType == \A n \in Publishers : Approved[n] \in SUBSET Keys
  BY AppendAssumption

\* Node runs have batches, and derivers ask for one of the query dataset.
LEMMA NodeBatches ==
    /\ \A n \in Producers : n \in Batches /\ Target(n) \in Datasets
    /\ \A n \in Derivers : Target(n) = "query" /\ n \in Batches /\ n \in Producers
    /\ \A n \in Publishers : n \in Batches /\ n \in Producers /\ n \notin Derivers
  BY AppendAssumption DEF Target, Datasets, Batches, Producers

\* A batch is one of the two datasets.
LEMMA BatchDataset ==
    ASSUME TypeOK, NEW b \in Batches
    PROVE  /\ batch[b] \in Batch
           /\ batch[b].dataset \in Datasets
           /\ current[batch[b].dataset] \in Nat
  BY DEF TypeOK, Batch

\* An execution belongs to a node run and to one of its claims.
LEMMA CallPair ==
    ASSUME NEW c \in Calls
    PROVE  c[1] \in Producers /\ c[2] \in 1..MaxAttempt /\ c = <<c[1], c[2]>>
  BY DEF Calls

\* As many positions as items.
LEMMA RangeLength ==
    ASSUME NEW a \in Nat, NEW n \in Nat
    PROVE  IsFiniteSet((a + 1)..(a + n)) /\ Cardinality((a + 1)..(a + n)) = n
  <1>1. PICK lo \in Int, hi \in Int : lo = a + 1 /\ hi = a + n
    OBVIOUS
  <1>2. IsFiniteSet(lo..hi) /\ Cardinality(lo..hi) = IF lo > hi THEN 0 ELSE hi - lo + 1
    BY FS_Interval
  <1>3. QED
    BY <1>1, <1>2

\* The items of a batch take all the positions behind current_seq: there are
\* as many of the ones as of the others.
LEMMA NumberingIsOnto ==
    ASSUME NEW d \in Datasets, current[d] \in Nat, NEW items \in SUBSET Keys,
           NEW f \in Numberings(d, items)
    PROVE  \A s \in (current[d] + 1)..(current[d] + Cardinality(items)) :
             \E k \in items : f[k] = s
  <1> DEFINE n == Cardinality(items)
             range == (current[d] + 1)..(current[d] + n)
  <1>1. n \in Nat /\ IsFiniteSet(items)
    BY KeySetsAreFinite
  <1>2. IsFiniteSet(range) /\ Cardinality(range) = n
    BY <1>1, RangeLength
  <1>3. f \in Injection(items, range)
    BY DEF Numberings, Injection, IsInjective
  <1>4. f \in Surjection(items, range)
    BY <1>1, <1>2, <1>3, FS_Injection
  <1>5. QED
    BY <1>4 DEF Surjection

-----------------------------------------------------------------------------
(* What an append does to the rows.                                        *)

\* new are the rows of one batch: they take the positions behind current_seq
\* and bring exactly these items, whose keys are new.
NewRows(b, items, new) ==
    LET d == batch[b].dataset IN
    /\ new \in SUBSET Row
    /\ \A r \in new : /\ r.seq \in (current[d] + 1)..(current[d] + Cardinality(items))
                      /\ r.key \in items
                      /\ r.key \notin KeysOf(d)
                      /\ r.batch = b
    /\ \A s \in (current[d] + 1)..(current[d] + Cardinality(items)) :
         \E r \in new : r.seq = s
    /\ \A k \in items : \E r \in new : r.key = k
    /\ \A r, q \in new : r.seq = q.seq \/ r.key = q.key => r = q

\* An append adds such rows to the dataset of its batch and commits the batch.
Appended(b, items, new) ==
    LET d == batch[b].dataset IN
    /\ NewRows(b, items, new)
    /\ rows' = [rows EXCEPT ![d] = @ \cup new]
    /\ current' = [current EXCEPT ![d] = @ + Cardinality(items)]
    /\ batch' = [batch EXCEPT ![b] =
                   [@ EXCEPT !.status = "committed", !.payload = items,
                             !.from = current[d] + 1,
                             !.to = current[d] + Cardinality(items)]]

\* Append does what it should.
LEMMA AppendAddsRows ==
    ASSUME TypeOK, NEW b \in Batches, NEW items \in SUBSET Keys, Append(b, items)
    PROVE  \E new \in SUBSET Row : Appended(b, items, new)
  <1> DEFINE d == batch[b].dataset
             n == Cardinality(items)
  <1>1. d \in Datasets /\ current[d] \in Nat /\ n \in Nat /\ n > 0
    BY BatchDataset, KeySetsAreFinite DEF Append
  <1>2. PICK f \in Numberings(d, items) :
          rows' = [rows EXCEPT ![d] = @ \cup
                     {[seq |-> f[k], key |-> k, batch |-> b] : k \in items}]
    BY DEF Append
  <1> DEFINE new == {[seq |-> f[k], key |-> k, batch |-> b] : k \in items}
  <1>3. /\ f \in [items -> (current[d] + 1)..(current[d] + n)]
        /\ \A k, l \in items : f[k] = f[l] => k = l
    BY DEF Numberings
  <1>4. new \in SUBSET Row
    BY <1>1, <1>3 DEF Row
  <1>5. \A k \in items : [seq |-> f[k], key |-> k, batch |-> b] \in new
    OBVIOUS
  <1>6. /\ \A s \in (current[d] + 1)..(current[d] + n) : \E r \in new : r.seq = s
        /\ \A k \in items : \E r \in new : r.key = k
    <2>1. ASSUME NEW s \in (current[d] + 1)..(current[d] + n)
          PROVE  \E r \in new : r.seq = s
      <3>1. PICK k \in items : f[k] = s
        BY <1>1, <1>2, NumberingIsOnto
      <3>2. [seq |-> f[k], key |-> k, batch |-> b].seq = s
        BY <3>1
      <3>3. QED
        BY <1>5, <3>2
    <2>2. ASSUME NEW k \in items
          PROVE  \E r \in new : r.key = k
      <3>1. [seq |-> f[k], key |-> k, batch |-> b].key = k
        OBVIOUS
      <3>2. QED
        BY <1>5, <3>1
    <2>3. QED
      BY <2>1, <2>2
  <1>7. \A r \in new : /\ r.seq \in (current[d] + 1)..(current[d] + n)
                       /\ r.key \in items
                       /\ r.key \notin KeysOf(d)
                       /\ r.batch = b
    <2>1. items \cap KeysOf(d) = {}
      BY DEF Append
    <2>2. QED
      BY <1>3, <2>1
  <1>8. \A r, q \in new : r.seq = q.seq \/ r.key = q.key => r = q
    BY <1>3
  <1>9. NewRows(b, items, new)
    BY <1>4, <1>6, <1>7, <1>8 DEF NewRows
  <1>10. current' = [current EXCEPT ![d] = @ + n]
    BY DEF Append
  <1>11. Appended(b, items, new)
    BY <1>2, <1>9, <1>10 DEF Appended, Append
  <1> HIDE DEF new
  <1>12. QED
    BY <1>4, <1>11


-----------------------------------------------------------------------------
(* Type correctness.                                                       *)

\* What an append leaves of the tables: the rows of its batch behind the
\* dataset's positions, the batch committed, everything else as it was.
LEMMA AppendedRows ==
    ASSUME TypeOK, NEW b \in Batches, NEW items \in SUBSET Keys, NEW new,
           Appended(b, items, new)
    PROVE  /\ rows'[batch[b].dataset] = rows[batch[b].dataset] \cup new
           /\ current'[batch[b].dataset] = current[batch[b].dataset] + Cardinality(items)
           /\ current[batch[b].dataset] \in Nat /\ Cardinality(items) \in Nat
           /\ \A d \in Datasets : d # batch[b].dataset =>
                rows'[d] = rows[d] /\ current'[d] = current[d]
           /\ batch' \in [Batches -> Batch]
           /\ batch'[b].status = "committed" /\ batch'[b].payload = items
           /\ batch'[b].from = current[batch[b].dataset] + 1
           /\ batch'[b].to = current[batch[b].dataset] + Cardinality(items)
           /\ batch'[b].dataset = batch[b].dataset /\ batch'[b].own = batch[b].own
           /\ \A q \in Batches : q # b => batch'[q] = batch[q]
  <1> DEFINE d == batch[b].dataset
             n == Cardinality(items)
             done == [batch[b] EXCEPT !.status = "committed", !.payload = items,
                                      !.from = current[d] + 1, !.to = current[d] + n]
  <1>1. /\ n \in Nat /\ d \in Datasets /\ current[d] \in Nat /\ batch[b] \in Batch
        /\ batch \in [Batches -> Batch]
    BY KeySetsAreFinite, BatchDataset DEF TypeOK
  <1>2. batch' = [batch EXCEPT ![b] = done]
    BY DEF Appended
  <1>3. done \in Batch
    <2>1. PICK lo \in Nat, hi \in Nat : lo = current[d] + 1 /\ hi = current[d] + n
      BY <1>1
    <2>2. ASSUME NEW e \in Batch
          PROVE  [e EXCEPT !.status = "committed", !.payload = items, !.from = lo, !.to = hi]
                   \in Batch
      BY DEF Batch
    <2>3. QED
      BY <1>1, <2>1, <2>2
  <1>4. /\ done.status = "committed" /\ done.payload = items
        /\ done.from = current[d] + 1 /\ done.to = current[d] + n
        /\ done.dataset = d /\ done.own = batch[b].own
    BY <1>1 DEF Batch
  <1> HIDE DEF done
  <1>5. /\ batch' \in [Batches -> Batch]
        /\ batch'[b] = done
        /\ \A q \in Batches : q # b => batch'[q] = batch[q]
    BY <1>1, <1>2, <1>3
  <1>6. /\ rows'[d] = rows[d] \cup new
        /\ current'[d] = current[d] + n
        /\ \A e \in Datasets : e # d => rows'[e] = rows[e] /\ current'[e] = current[e]
    BY <1>1 DEF Appended, TypeOK
  <1>7. QED
    BY <1>1, <1>4, <1>5, <1>6

\* The tables stay typed when rows are appended.
LEMMA AppendedType ==
    ASSUME TypeOK, NEW b \in Batches, NEW items \in SUBSET Keys, NEW new,
           Appended(b, items, new)
    PROVE  /\ rows' \in [Datasets -> SUBSET Row]
           /\ current' \in [Datasets -> Nat]
           /\ batch' \in [Batches -> Batch]
  <1>1. Cardinality(items) \in Nat /\ batch[b].dataset \in Datasets
    BY KeySetsAreFinite, BatchDataset
  <1>2. new \in SUBSET Row
    BY DEF Appended, NewRows
  <1>3. rows' \in [Datasets -> SUBSET Row]
    BY <1>1, <1>2 DEF Appended, TypeOK
  <1>4. current' \in [Datasets -> Nat]
    BY <1>1 DEF Appended, TypeOK
  <1>5. QED
    BY <1>3, <1>4, AppendedRows

\* A batch that is opened is staging.
LEMMA OpenEffect ==
    ASSUME TypeOK, NEW b \in Batches, NEW d \in Datasets, NEW own \in BOOLEAN, Open(b, d, own)
    PROVE  /\ batch' \in [Batches -> Batch]
           /\ batch[b].status = "none" /\ batch'[b].status = "staging"
           /\ batch'[b].dataset = d /\ batch'[b].own = own
           /\ \A q \in Batches : q # b => batch'[q] = batch[q]
  <1> DEFINE opened == [batch[b] EXCEPT !.status = "staging", !.dataset = d, !.own = own]
  <1>1. batch \in [Batches -> Batch] /\ batch[b] \in Batch /\ batch[b].status = "none"
    BY DEF TypeOK, Open
  <1>2. batch' = [batch EXCEPT ![b] = opened]
    BY DEF Open
  <1>3. /\ opened \in Batch
        /\ opened.status = "staging" /\ opened.dataset = d /\ opened.own = own
    BY <1>1 DEF Batch
  <1> HIDE DEF opened
  <1>4. QED
    BY <1>1, <1>2, <1>3

\* What the transactions that open batches leave of them.
Kept(b) == \/ batch'[b] = batch[b]
           \/ /\ batch[b].status = "none" /\ batch'[b].status = "staging"
              /\ batch'[b].own => b \in Producers /\ batch'[b].dataset = Target(b)

\* A node run opens its own batch, or finds it.
LEMMA GetOrCreateEffect ==
    ASSUME TypeOK, NEW n \in Producers, GetOrCreateBatch(n)
    PROVE  /\ batch' \in [Batches -> Batch]
           /\ \A b \in Batches : Kept(b)
           /\ batch'[n].own
  <1>1. n \in Batches /\ Target(n) \in Datasets
    BY NodeBatches
  <1>2. CASE Open(n, Target(n), TRUE)
    BY <1>1, <1>2, OpenEffect DEF Kept
  <1>3. CASE batch[n].own /\ UNCHANGED batch
    BY <1>3 DEF TypeOK, Kept
  <1>4. QED
    BY <1>2, <1>3 DEF GetOrCreateBatch

\* A client opens any batch, or fails.
LEMMA OpenBatchEffect ==
    ASSUME TypeOK, NEW b \in Batches, NEW d \in Datasets, NEW own \in BOOLEAN,
           OpenBatch(b, d, own)
    PROVE  /\ batch' \in [Batches -> Batch]
           /\ \A q \in Batches : Kept(q)
  <1>1. Open(b, d, own) /\ (own => b \in Producers /\ d = Target(b))
    BY DEF OpenBatch
  <1>2. QED
    BY <1>1, OpenEffect DEF Kept

\* The execution of one attempt moves on, and nothing else does.
LEMMA MoveToEffect ==
    ASSUME TypeOK, NEW n \in Producers, NEW a \in 1..MaxAttempt, NEW pc \in CallPC,
           MoveTo(n, a, pc)
    PROVE  /\ call' \in [Calls -> Call]
           /\ call'[<<n, a>>].pc = pc
           /\ call'[<<n, a>>].through = call[<<n, a>>].through
           /\ call'[<<n, a>>].items = call[<<n, a>>].items
           /\ \A c \in Calls : c # <<n, a>> => call'[c] = call[c]
  <1>1. <<n, a>> \in Calls
    BY DEF Calls
  <1>2. call[<<n, a>>] \in Call
    BY <1>1 DEF TypeOK
  <1>3. [call[<<n, a>>] EXCEPT !.pc = pc] \in Call
    BY <1>2 DEF Call
  <1>4. call'[<<n, a>>] = [call[<<n, a>>] EXCEPT !.pc = pc]
    BY <1>1 DEF TypeOK, MoveTo
  <1>5. /\ call'[<<n, a>>].pc = pc
        /\ call'[<<n, a>>].through = call[<<n, a>>].through
        /\ call'[<<n, a>>].items = call[<<n, a>>].items
    BY <1>2, <1>4 DEF Call
  <1>6. QED
    BY <1>1, <1>3, <1>5 DEF TypeOK, MoveTo

\* A claim begins an execution, and binds the input of a deriver at the first.
LEMMA ClaimEffect ==
    ASSUME TypeOK, NEW n \in Producers, Claim(n)
    PROVE  /\ fence' \in [Producers -> Nodes!Fence]
           /\ call' \in [Calls -> Call]
           /\ boundary' \in [Derivers -> Nat]
           /\ fence[n].phase = "idle"
           /\ fence'[n].attempt = fence[n].attempt + 1
           /\ \A m \in Producers : m # n => fence'[m] = fence[m]
           /\ <<n, fence[n].attempt + 1>> \in Calls
           /\ call'[<<n, fence[n].attempt + 1>>] = NewCall("begun")
           /\ \A c \in Calls : c # <<n, fence[n].attempt + 1>> => call'[c] = call[c]
           /\ \A m \in Derivers : \/ boundary'[m] = boundary[m]
                                  \/ m = n /\ boundary[m] = 0 /\ boundary'[m] \in 1..current["base"]
           /\ n \in Derivers => boundary'[n] # 0
  <1>1. fence[n] \in Nodes!Fence /\ fence[n].phase = "idle" /\ fence[n].attempt < MaxAttempt
    BY DEF TypeOK, Claim, Nodes!Claim
  <1>2. /\ fence'[n].attempt = fence[n].attempt + 1
        /\ \A m \in Producers : m # n => fence'[m] = fence[m]
        /\ fence' \in [Producers -> Nodes!Fence]
    BY <1>1, AppendAssumption DEF TypeOK, Claim, Nodes!Claim, Nodes!Fence
  <1>3. <<n, fence[n].attempt + 1>> \in Calls
    BY <1>1, AppendAssumption DEF Calls, Nodes!Fence
  <1>4. NewCall("begun") \in Call
    BY DEF NewCall, Call, CallPC
  <1>5. call' = [call EXCEPT ![<<n, fence[n].attempt + 1>>] = NewCall("begun")]
    BY DEF Claim
  <1>6. /\ call' \in [Calls -> Call]
        /\ call'[<<n, fence[n].attempt + 1>>] = NewCall("begun")
        /\ \A c \in Calls : c # <<n, fence[n].attempt + 1>> => call'[c] = call[c]
    BY <1>3, <1>4, <1>5 DEF TypeOK
  <1>7. CASE n \in Derivers /\ boundary[n] = 0
    <2>1. PICK s \in 1..current["base"] : boundary' = [boundary EXCEPT ![n] = s]
      BY <1>7 DEF Claim
    <2>2. current["base"] \in Nat
      BY DEF TypeOK, Datasets
    <2>3. QED
      BY <1>1, <1>2, <1>3, <1>6, <1>7, <2>1, <2>2 DEF TypeOK
  <1>8. CASE ~(n \in Derivers /\ boundary[n] = 0)
    BY <1>1, <1>2, <1>3, <1>6, <1>8 DEF TypeOK, Claim
  <1>9. QED
    BY <1>7, <1>8

\* Losing and settling keep the fence typed and only end an attempt.
LEMMA FenceEffect ==
    ASSUME TypeOK, NEW n \in Producers, Nodes!Lose(n) \/ Nodes!Settle(n)
    PROVE  /\ fence' \in [Producers -> Nodes!Fence]
           /\ fence'[n].phase # "live"
           /\ \A m \in Producers : m # n => fence'[m] = fence[m]
  BY DEF TypeOK, Nodes!Lose, Nodes!Settle, Nodes!Fence

\* The read of the increment fills the items of the call.
LEMMA ReadIncrementEffect ==
    ASSUME TypeOK, NEW n \in Producers, NEW a \in 1..MaxAttempt, ReadIncrement(n, a)
    PROVE  /\ call' \in [Calls -> Call]
           /\ call'[<<n, a>>].pc = "prepared"
           /\ call'[<<n, a>>].through = call[<<n, a>>].through
           /\ call'[<<n, a>>].items = {r.key : r \in Increment(n, call[<<n, a>>].through)}
           /\ \A c \in Calls : c # <<n, a>> => call'[c] = call[c]
  <1> DEFINE items == {r.key : r \in Increment(n, call[<<n, a>>].through)}
  <1>1. <<n, a>> \in Calls
    BY DEF Calls
  <1>2. call[<<n, a>>] \in Call
    BY <1>1 DEF TypeOK
  <1>3. items \in SUBSET Keys
    BY DEF Increment, TypeOK, Row, Datasets
  <1>4. call' = [call EXCEPT ![<<n, a>>].pc = "prepared", ![<<n, a>>].items = items]
    BY DEF ReadIncrement
  <1> HIDE DEF items
  <1>5. [call[<<n, a>>] EXCEPT !.pc = "prepared", !.items = items] \in Call
    BY <1>2, <1>3 DEF Call, CallPC
  <1>6. call' = [call EXCEPT ![<<n, a>>] = [call[<<n, a>>] EXCEPT !.pc = "prepared", !.items = items]]
    BY <1>1, <1>4 DEF TypeOK
  <1>7. call'[<<n, a>>] = [call[<<n, a>>] EXCEPT !.pc = "prepared", !.items = items]
    BY <1>1, <1>6 DEF TypeOK
  <1>8. /\ call'[<<n, a>>].pc = "prepared"
        /\ call'[<<n, a>>].through = call[<<n, a>>].through
        /\ call'[<<n, a>>].items = items
    BY <1>2, <1>7 DEF Call
  <1>9. QED
    BY <1>1, <1>5, <1>6, <1>8 DEF TypeOK, items

\* The read of the cursor.
LEMMA ReadCursorEffect ==
    ASSUME TypeOK, NEW n \in Producers, NEW a \in 1..MaxAttempt, ReadCursor(n, a)
    PROVE  /\ n \in Derivers
           /\ call' \in [Calls -> Call]
           /\ \/ /\ cursor.through < boundary[n]
                 /\ call'[<<n, a>>].pc = "positioned"
                 /\ call'[<<n, a>>].through = cursor.through
              \/ /\ cursor.through >= boundary[n] /\ cursor.run = n
                 /\ call'[<<n, a>>].pc = "reusing"
              \/ call'[<<n, a>>].pc = "stale"
           /\ \A c \in Calls : c # <<n, a>> => call'[c] = call[c]
  <1>1. <<n, a>> \in Calls
    BY DEF Calls
  <1>2. call[<<n, a>>] \in Call /\ cursor.through \in Nat
    BY <1>1 DEF TypeOK, Cursor
  <1>3. CASE /\ cursor.through < boundary[n]
             /\ call' = [call EXCEPT ![<<n, a>>].pc = "positioned",
                                     ![<<n, a>>].through = cursor.through]
    <2>1. [call[<<n, a>>] EXCEPT !.pc = "positioned", !.through = cursor.through] \in Call
      BY <1>2 DEF Call, CallPC
    <2>2. call' = [call EXCEPT ![<<n, a>>] =
                     [call[<<n, a>>] EXCEPT !.pc = "positioned", !.through = cursor.through]]
      BY <1>1, <1>3 DEF TypeOK
    <2>3. call'[<<n, a>>] = [call[<<n, a>>] EXCEPT !.pc = "positioned", !.through = cursor.through]
      BY <1>1, <2>2 DEF TypeOK
    <2>4. call'[<<n, a>>].pc = "positioned" /\ call'[<<n, a>>].through = cursor.through
      BY <1>2, <2>3 DEF Call
    <2>5. QED
      BY <1>1, <1>3, <2>1, <2>2, <2>4 DEF TypeOK, ReadCursor
  <1>4. CASE cursor.through >= boundary[n] /\ cursor.run = n /\ MoveTo(n, a, "reusing")
    <2>1. n \in Derivers /\ "reusing" \in CallPC
      BY DEF ReadCursor, CallPC
    <2>2. QED
      BY <1>4, <2>1, MoveToEffect
  <1>5. CASE MoveTo(n, a, "stale")
    <2>1. n \in Derivers /\ "stale" \in CallPC
      BY DEF ReadCursor, CallPC
    <2>2. QED
      BY <1>5, <2>1, MoveToEffect
  <1>6. QED
    BY <1>3, <1>4, <1>5 DEF ReadCursor

\* Init establishes the types.
LEMMA InitType == Init => TypeOK
  <1> SUFFICES ASSUME Init PROVE TypeOK
    OBVIOUS
  <1>1. fence \in [Producers -> Nodes!Fence]
    BY AppendAssumption DEF Init, Nodes!Init, Nodes!Fence
  <1>2. /\ rows \in [Datasets -> SUBSET Row]
        /\ current \in [Datasets -> Nat]
        /\ boundary \in [Derivers -> Nat]
    BY DEF Init
  <1>3. batch \in [Batches -> Batch] /\ cursor \in Cursor
    <2>1. [status |-> "none", dataset |-> "base", own |-> FALSE,
           payload |-> {}, from |-> 0, to |-> 0] \in Batch
      BY DEF Batch, Datasets
    <2>2. QED
      BY <2>1 DEF Init, Cursor
  <1>4. call \in [Calls -> Call]
    BY DEF Init, NewCall, Call, CallPC
  <1>5. QED
    BY <1>1, <1>2, <1>3, <1>4 DEF TypeOK

\* Only derivers get further than a staged batch without an answer.
LEMMA DeriversDerive ==
    ASSUME PublishersOnlyPublish, NEW n \in Producers, NEW a \in 1..MaxAttempt,
           call[<<n, a>>].pc \in {"positioned", "reusing", "prepared", "stale"}
    PROVE  n \in Derivers
  BY DEF PublishersOnlyPublish, Producers, Calls

\* Every step keeps the types.
LEMMA TypeStep == TypeOK /\ PublishersOnlyPublish /\ [Next]_vars => TypeOK'
  <1> SUFFICES ASSUME TypeOK, PublishersOnlyPublish, [Next]_vars PROVE TypeOK'
    OBVIOUS
  <1> USE DEF TypeOK
  <1>1. ASSUME NEW n \in Producers, Claim(n) PROVE TypeOK'
    BY <1>1, ClaimEffect DEF Claim
  <1>2. ASSUME NEW n \in Producers, Lose(n) PROVE TypeOK'
    BY <1>2, FenceEffect DEF Lose
  <1>3. ASSUME NEW c \in Calls, CallStep(c[1], c[2]) PROVE TypeOK'
    <2> DEFINE n == c[1]
               a == c[2]
    <2>1. n \in Producers /\ a \in 1..MaxAttempt /\ <<n, a>> \in Calls
      BY CallPair
    <2> HIDE DEF n, a
    <2>2. CASE Settle(n, a)
      BY <2>1, <2>2, FenceEffect DEF Settle
    <2>3. CASE StagePublication(n, a)
      BY <2>1, <2>3, GetOrCreateEffect, MoveToEffect DEF StagePublication, CallPC
    <2>4. CASE CommitPublication(n, a)
      <3>1. call' \in [Calls -> Call]
        BY <2>1, <2>4, MoveToEffect DEF CommitPublication, CallPC
      <3>2. CASE Append(n, Approved[n])
        <4>1. PICK new \in SUBSET Row : Appended(n, Approved[n], new)
          BY <2>1, <2>4, <3>2, AppendAddsRows, ApprovedType, NodeBatches DEF CommitPublication
        <4>2. /\ rows' \in [Datasets -> SUBSET Row]
              /\ current' \in [Datasets -> Nat]
              /\ batch' \in [Batches -> Batch]
          BY <2>4, <4>1, AppendedType, ApprovedType, NodeBatches DEF CommitPublication
        <4>3. QED
          BY <2>4, <3>1, <4>2 DEF CommitPublication
      <3>3. CASE AlreadyCommitted(n, Approved[n])
        BY <2>4, <3>1, <3>3 DEF CommitPublication, AlreadyCommitted
      <3>4. QED
        BY <2>4, <3>2, <3>3 DEF CommitPublication
    <2>5. CASE ReadCursor(n, a)
      BY <2>1, <2>5, ReadCursorEffect DEF ReadCursor
    <2>6. CASE ReuseBatch(n, a)
      BY <2>1, <2>6, GetOrCreateEffect, MoveToEffect DEF ReuseBatch, CallPC
    <2>7. CASE StageDerivation(n, a)
      BY <2>1, <2>7, GetOrCreateEffect, MoveToEffect DEF StageDerivation, CallPC
    <2>8. CASE ReadIncrement(n, a)
      BY <2>1, <2>8, ReadIncrementEffect DEF ReadIncrement
    <2>9. CASE CommitDerivation(n, a)
      <3>1. call' \in [Calls -> Call]
        BY <2>1, <2>9, MoveToEffect DEF CommitDerivation, CallPC
      <3>2. CASE /\ Append(n, call[<<n, a>>].items)
                 /\ cursor.through = call[<<n, a>>].through
                 /\ cursor' = [through |-> boundary[n], run |-> n]
        <4>1. call[<<n, a>>].items \in SUBSET Keys
          BY <2>1 DEF Call
        <4>2. PICK new \in SUBSET Row : Appended(n, call[<<n, a>>].items, new)
          BY <2>1, <3>2, <4>1, AppendAddsRows DEF Batches
        <4>3. /\ rows' \in [Datasets -> SUBSET Row]
              /\ current' \in [Datasets -> Nat]
              /\ batch' \in [Batches -> Batch]
          BY <2>1, <4>1, <4>2, AppendedType DEF Batches
        <4>4. cursor' \in Cursor
          <5>1. n \in Derivers
            BY <2>1, <2>9, DeriversDerive DEF CommitDerivation, At
          <5>2. QED
            BY <3>2, <5>1 DEF Cursor
        <4>5. QED
          BY <2>9, <3>1, <4>3, <4>4 DEF CommitDerivation
      <3>3. CASE AlreadyCommitted(n, call[<<n, a>>].items) /\ UNCHANGED cursor
        BY <2>9, <3>1, <3>3 DEF CommitDerivation, AlreadyCommitted
      <3>4. QED
        BY <2>9, <3>2, <3>3 DEF CommitDerivation
    <2>10. QED
      BY <1>3, <2>2, <2>3, <2>4, <2>5, <2>6, <2>7, <2>8, <2>9 DEF CallStep, n, a
  <1>4. ASSUME NEW b \in Batches, NEW d \in Datasets, NEW own \in BOOLEAN, OpenBatch(b, d, own)
        PROVE  TypeOK'
    BY <1>4, OpenBatchEffect DEF OpenBatch
  <1>5. ASSUME NEW b \in Batches, NEW items \in SUBSET Keys, PublishBatch(b, items) PROVE TypeOK'
    <2>1. PICK new \in SUBSET Row : Appended(b, items, new)
      BY <1>5, AppendAddsRows DEF PublishBatch
    <2>2. /\ rows' \in [Datasets -> SUBSET Row]
          /\ current' \in [Datasets -> Nat]
          /\ batch' \in [Batches -> Batch]
      BY <2>1, AppendedType
    <2>3. QED
      BY <1>5, <2>2 DEF PublishBatch
  <1>6. CASE UNCHANGED vars
    BY <1>6 DEF vars
  <1>7. QED
    BY <1>1, <1>2, <1>3, <1>4, <1>5, <1>6 DEF Next

\* Every step keeps publishers from deriving.
LEMMA PublisherStep ==
    TypeOK /\ PublishersOnlyPublish /\ [Next]_vars => PublishersOnlyPublish'
  <1> SUFFICES ASSUME TypeOK, PublishersOnlyPublish, [Next]_vars,
                      NEW p \in Calls, p[1] \in Publishers
               PROVE  call'[p].pc \in {"none", "begun", "staged", "answered"}
    BY DEF PublishersOnlyPublish
  <1>1. /\ call[p].pc \in {"none", "begun", "staged", "answered"}
        /\ p[1] \notin Derivers
    BY AppendAssumption DEF PublishersOnlyPublish
  <1> \A n \in Derivers, a \in 1..MaxAttempt : p # <<n, a>>
    BY <1>1
  <1>2. ASSUME NEW n \in Producers, Claim(n)
        PROVE  call'[p].pc \in {"none", "begun", "staged", "answered"}
    <2>1. call'[p] = call[p] \/ call'[p] = NewCall("begun")
      BY <1>2, ClaimEffect
    <2>2. QED
      BY <1>1, <2>1 DEF NewCall
  <1>3. ASSUME NEW n \in Producers, NEW a \in 1..MaxAttempt, CallStep(n, a)
        PROVE  call'[p].pc \in {"none", "begun", "staged", "answered"}
    <2>1. CASE Settle(n, a)
      BY <1>1, <2>1 DEF Settle
    <2>2. CASE StagePublication(n, a) \/ CommitPublication(n, a)
      <3>1. \E pc \in {"staged", "answered"} : MoveTo(n, a, pc)
        BY <2>2 DEF StagePublication, CommitPublication
      <3>2. call'[p] = call[p] \/ call'[p].pc \in {"staged", "answered"}
        BY <3>1, MoveToEffect DEF CallPC
      <3>3. QED
        BY <1>1, <3>2
    <2>3. CASE ReadCursor(n, a)
      BY <1>1, <2>3, ReadCursorEffect
    <2>4. CASE ReuseBatch(n, a) \/ StageDerivation(n, a) \/ CommitDerivation(n, a)
      <3>1. n \in Derivers
        BY <2>4, DeriversDerive DEF ReuseBatch, StageDerivation, CommitDerivation, At
      <3>2. \E pc \in {"staged", "answered"} : MoveTo(n, a, pc)
        BY <2>4 DEF ReuseBatch, StageDerivation, CommitDerivation
      <3>3. call'[p] = call[p]
        BY <1>1, <3>1, <3>2, MoveToEffect DEF CallPC
      <3>4. QED
        BY <1>1, <3>3
    <2>5. CASE ReadIncrement(n, a)
      <3>1. call'[p] = call[p]
        BY <1>1, <2>5, ReadIncrementEffect DEF ReadIncrement
      <3>2. QED
        BY <1>1, <3>1
    <2>6. QED
      BY <1>3, <2>1, <2>2, <2>3, <2>4, <2>5 DEF CallStep
  <1>4. CASE UNCHANGED call
    BY <1>1, <1>4
  <1>5. QED
    BY <1>2, <1>3, <1>4, CallPair DEF Next, Lose, OpenBatch, PublishBatch, vars

-----------------------------------------------------------------------------
(* The steps of the calls.                                                 *)

\* An execution changes by a step of its own, or begins.
LEMMA OneCallMoves ==
    ASSUME TypeOK, [Next]_vars, NEW c \in Calls
    PROVE  \/ call'[c] = call[c]
           \/ call'[c] = NewCall("begun") /\ Claim(c[1])
           \/ CallStep(c[1], c[2])
  <1>1. ASSUME NEW n \in Producers, Claim(n)
        PROVE  call'[c] = call[c] \/ (call'[c] = NewCall("begun") /\ Claim(c[1]))
    <2>1. CASE c = <<n, fence[n].attempt + 1>>
      BY <1>1, <2>1, ClaimEffect
    <2>2. CASE c # <<n, fence[n].attempt + 1>>
      BY <1>1, <2>2, ClaimEffect
    <2>3. QED
      BY <2>1, <2>2
  <1>2. ASSUME NEW n \in Producers, NEW a \in 1..MaxAttempt, CallStep(n, a)
        PROVE  call'[c] = call[c] \/ CallStep(c[1], c[2])
    <2>1. CASE c = <<n, a>>
      BY <1>2, <2>1
    <2>2. CASE c # <<n, a>>
      <3>1. \/ call' = call
            \/ \E pc \in CallPC : MoveTo(n, a, pc)
            \/ ReadCursor(n, a) \/ ReadIncrement(n, a)
        BY <1>2 DEF CallStep, Settle, StagePublication, CommitPublication, ReuseBatch,
             StageDerivation, CommitDerivation, CallPC
      <3>2. CASE \E pc \in CallPC : MoveTo(n, a, pc)
        BY <2>2, <3>2, MoveToEffect
      <3>3. CASE ReadCursor(n, a)
        BY <2>2, <3>3, ReadCursorEffect
      <3>4. CASE ReadIncrement(n, a)
        BY <2>2, <3>4, ReadIncrementEffect
      <3>5. QED
        BY <3>1, <3>2, <3>3, <3>4
    <2>3. QED
      BY <2>1, <2>2
  <1>3. CASE UNCHANGED call
    BY <1>3
  <1>4. QED
    BY <1>1, <1>2, <1>3, CallPair DEF Next, Lose, OpenBatch, PublishBatch, vars

\* An execution that is not there takes no step.
LEMMA IdleCallStays ==
    ASSUME NEW n \in Producers, NEW a \in 1..MaxAttempt, At(n, a, "none")
    PROVE  ~CallStep(n, a)
  BY DEF At, CallStep, Settle, StagePublication, CommitPublication, ReadCursor, ReuseBatch,
         StageDerivation, ReadIncrement, CommitDerivation

\* What an own step leaves of a deriver's call.
LEMMA DeriverSteps ==
    ASSUME TypeOK, NEW n \in Derivers, NEW a \in 1..MaxAttempt, CallStep(n, a)
    PROVE  \/ call'[<<n, a>>] = call[<<n, a>>]
           \/ ReadCursor(n, a) \/ StageDerivation(n, a) \/ ReadIncrement(n, a)
           \/ /\ call'[<<n, a>>].pc = "answered"
              /\ ReuseBatch(n, a) \/ CommitDerivation(n, a)
  <1>1. n \in Producers /\ n \notin Publishers
    BY AppendAssumption, NodeBatches
  <1>2. CASE ReuseBatch(n, a) \/ CommitDerivation(n, a)
    <2>1. MoveTo(n, a, "answered")
      BY <1>2 DEF ReuseBatch, CommitDerivation
    <2>2. QED
      BY <1>1, <1>2, <2>1, MoveToEffect DEF CallPC
  <1>3. CASE Settle(n, a)
    BY <1>3 DEF Settle
  <1>4. QED
    BY <1>1, <1>2, <1>3 DEF CallStep, StagePublication, CommitPublication

\* Later attempts are not there before they are claimed.
LEMMA ClaimOrderStep ==
    TypeOK /\ TypeOK' /\ ClaimedInOrder /\ [Next]_vars => ClaimedInOrder'
  <1> SUFFICES ASSUME TypeOK, TypeOK', ClaimedInOrder, [Next]_vars,
                      NEW c \in Calls, c[2] > fence'[c[1]].attempt
               PROVE  call'[c].pc = "none"
    BY DEF ClaimedInOrder
  <1> DEFINE n == c[1]
             a == c[2]
  <1>1. n \in Producers /\ a \in 1..MaxAttempt /\ c = <<n, a>>
    BY CallPair
  <1>2. fence[n] \in Nodes!Fence /\ fence[n].attempt \in Nat
    BY <1>1, AppendAssumption DEF TypeOK, Nodes!Fence
  <1>3. fence[n].attempt <= fence'[n].attempt /\ (Claim(n) => c # <<n, fence[n].attempt + 1>>)
    <2> DEFINE next == fence[n].attempt + 1
    <2>0. Claim(n) => fence'[n].attempt = next /\ fence[n].attempt < next
                       /\ fence'[n].attempt # fence[n].attempt
      <3>1. Claim(n) => fence'[n].attempt = next
        BY <1>1, ClaimEffect
      <3>2. fence[n].attempt < next /\ next # fence[n].attempt
        BY <1>2
      <3> HIDE DEF next
      <3>3. QED
        BY <3>1, <3>2
    <2>1. ASSUME NEW m \in Producers, Claim(m)
          PROVE  fence[n].attempt <= fence'[n].attempt
                   /\ (Claim(n) => c # <<n, fence[n].attempt + 1>>)
      <3>1. CASE m = n
        <4>1. fence'[n].attempt = fence[n].attempt + 1
          BY <1>1, <2>1, <3>1, ClaimEffect
        <4>2. c # <<n, next>>
          <5>1. a > fence'[n].attempt
            OBVIOUS
          <5>2. a # fence'[n].attempt /\ fence'[n].attempt = next
            BY <1>1, <1>2, <4>1, <5>1
          <5>3. QED
            BY <1>1, <5>2
        <4>3. QED
          BY <1>2, <4>1, <4>2
      <3>2. CASE m # n
        <4>1. fence'[n] = fence[n]
          BY <1>1, <2>1, <3>2, ClaimEffect
        <4>2. QED
          BY <1>2, <2>0, <4>1
      <3>3. QED
        BY <3>1, <3>2
    <2>2. ASSUME UNCHANGED fence PROVE fence[n].attempt <= fence'[n].attempt /\ ~Claim(n)
      <3>1. ~Claim(n)
        BY <2>0, <2>2
      <3>2. QED
        BY <1>2, <2>2, <3>1
    <2>3. ASSUME NEW m \in Producers, Nodes!Lose(m) \/ Nodes!Settle(m)
          PROVE  fence[n].attempt = fence'[n].attempt /\ ~Claim(n)
      <3>1. fence[n].attempt = fence'[n].attempt
        BY <1>1, <1>2, <2>3 DEF TypeOK, Nodes!Lose, Nodes!Settle, Nodes!Fence
      <3>2. QED
        BY <2>0, <3>1
    <2>4. ASSUME NEW m \in Producers, NEW k \in 1..MaxAttempt, CallStep(m, k)
          PROVE  Nodes!Settle(m) \/ UNCHANGED fence
      BY <2>4 DEF CallStep, Settle, StagePublication, CommitPublication, ReadCursor, ReuseBatch,
           StageDerivation, ReadIncrement, CommitDerivation
    <2>5. QED
      BY <1>2, <2>1, <2>2, <2>3, <2>4, CallPair DEF Next, Lose, OpenBatch, PublishBatch, vars
  <1>4. call[c].pc = "none"
    <2>1. fence'[n].attempt \in Nat
      BY <1>1, AppendAssumption DEF TypeOK, Nodes!Fence
    <2>2. a > fence[n].attempt
      BY <1>1, <1>2, <1>3, <2>1
    <2>3. QED
      BY <2>2 DEF ClaimedInOrder
  <1>5. call'[c] = call[c]
    <2>1. ~CallStep(n, a)
      BY <1>1, <1>4, IdleCallStays DEF At
    <2>2. CASE Claim(n)
      BY <1>1, <1>3, <2>2, ClaimEffect
    <2>3. CASE ~Claim(n)
      BY <2>1, <2>3, OneCallMoves
    <2>4. QED
      BY <2>2, <2>3
  <1>6. QED
    BY <1>4, <1>5

\* The derivations are the same while no deriver's call gets or loses an answer.
LEMMA SameAnswers ==
    ASSUME \A c \in Calls : c[1] \in Derivers =>
             ((call'[c].pc = "answered") <=> (call[c].pc = "answered"))
    PROVE  Derivations' = Derivations
  <1>1. \A n \in Derivers, a \in 1..MaxAttempt :
          (call'[<<n, a>>].pc = "answered") <=> (call[<<n, a>>].pc = "answered")
    BY DEF Calls, Producers
  <1>2. QED
    BY <1>1 DEF Derivations, At

\* A deriver that answers joins them.
LEMMA OneMoreAnswer ==
    ASSUME NEW n \in Derivers, NEW a \in 1..MaxAttempt, call'[<<n, a>>].pc = "answered",
           call[<<n, a>>].pc # "answered",
           \A c \in Calls : c # <<n, a>> => call'[c] = call[c]
    PROVE  Derivations' = Derivations \cup {n}
  <1>1. \A m \in Derivers, k \in 1..MaxAttempt :
          <<m, k>> # <<n, a>> => call'[<<m, k>>] = call[<<m, k>>]
    BY DEF Calls, Producers
  <1>2. ASSUME NEW m \in Derivers, m # n
        PROVE  m \in Derivations' <=> m \in Derivations
    BY <1>1, <1>2 DEF Derivations, At
  <1>3. n \in Derivations'
    BY DEF Derivations, At
  <1>4. QED
    BY <1>2, <1>3 DEF Derivations

-----------------------------------------------------------------------------
(* What a step does to the tables: nothing that counts, an append by a     *)
(* publisher or a client to any dataset, or a derivation.                  *)

NothingAppended ==
    /\ UNCHANGED <<rows, current, cursor>>
    /\ \A b \in Batches : Kept(b)
    /\ Derivations' = Derivations

OthersAppended ==
    /\ UNCHANGED <<cursor, boundary>>
    /\ Derivations' = Derivations
    /\ \E b \in Batches, items \in SUBSET Keys, new \in SUBSET Row :
         /\ batch[b].status = "staging" /\ items # {}
         /\ Appended(b, items, new)

\* The attempt a of n commits the increment it prepared.
DerivationOf(n, a, new) ==
    /\ n \in Batches /\ batch[n].dataset = "query" /\ <<n, a>> \in Calls
    /\ At(n, a, "prepared") /\ Nodes!Live(n, a) /\ call'[<<n, a>>].pc = "answered"
    /\ batch[n].status = "staging" /\ call[<<n, a>>].items # {}
    /\ call[<<n, a>>].items \in SUBSET Keys
    /\ Appended(n, call[<<n, a>>].items, new)
    /\ Derivations' = Derivations \cup {n}
    /\ cursor.through = call[<<n, a>>].through
    /\ cursor' = [through |-> boundary[n], run |-> n]

DerivationAppended ==
    /\ UNCHANGED <<fence, boundary>>
    /\ \E n \in Derivers, a \in 1..MaxAttempt, new \in SUBSET Row : DerivationOf(n, a, new)

\* A prepared attempt never finds its own increment committed: if the cursor
\* has passed its boundary, other batches hold these records.
LEMMA NoSecondCommit ==
    ASSUME IInv, NEW n \in Derivers, NEW a \in 1..MaxAttempt,
           At(n, a, "prepared"), Nodes!Live(n, a),
           AlreadyCommitted(n, call[<<n, a>>].items), cursor.through >= boundary[n]
    PROVE  FALSE
  <1> DEFINE items == call[<<n, a>>].items
             t == call[<<n, a>>].through
             b == boundary[n]
  <1>1. <<n, a>> \in Calls /\ n \in Producers /\ n \in Batches /\ Target(n) = "query"
    BY NodeBatches DEF Calls
  <1>2. /\ n \notin Derivations /\ batch[n].own
        /\ t < b /\ items = {r.key : r \in Increment(n, t)}
    BY <1>1 DEF IInv, Progress, AttemptsAgree, PositionsAreBehind, OwnBatches, At
  <1>3. /\ t \in Nat /\ b \in Nat /\ b <= current["base"] /\ current["base"] \in Nat
        /\ cursor.through \in Nat
    BY <1>1 DEF IInv, TypeOK, Call, Cursor, Datasets, Progress, BoundariesAreBound
  <1>4. PICK r \in rows["base"] : r.seq = b
    <2>1. {r.seq : r \in rows["base"]} = 1..current["base"]
      BY DEF IInv, Tables, SeqsAreContiguous, Datasets
    <2>2. b \in 1..current["base"]
      BY <1>2, <1>3
    <2>3. QED
      BY <2>1, <2>2
  <1>5. r.key \in items
    BY <1>2, <1>3, <1>4 DEF Increment
  <1>6. PICK p \in Derived : p.key = r.key
    BY <1>4 DEF IInv, DerivedExactlyOnce
  <1>7. PICK q \in rows["query"] : q.batch = n /\ q.key = r.key
    <2>1. batch[n].dataset = "query" /\ batch[n].status = "committed" /\ batch[n].payload = items
      BY <1>1, <1>2 DEF IInv, Progress, OwnBatches, AlreadyCommitted
    <2>2. {q.key : q \in Owned("query", n)} = items
      BY <1>1, <2>1 DEF IInv, Tables, BatchOwnsItsRange, Datasets
    <2>3. QED
      BY <1>5, <2>2 DEF Owned
  <1>8. p = q
    BY <1>6, <1>7 DEF IInv, DerivedExactlyOnce, Derived
  <1>9. QED
    BY <1>2, <1>6, <1>7, <1>8 DEF Derived

\* Every step is one of the three.
LEMMA StepShape ==
    ASSUME IInv, [Next]_vars
    PROVE  NothingAppended \/ OthersAppended \/ DerivationAppended
  <1> USE DEF IInv
  <1>1. ASSUME NEW n \in Producers, Claim(n) \/ Lose(n)
        PROVE  NothingAppended
    <2>1. CASE Claim(n)
      <3>1. /\ fence[n].attempt \in Nat
            /\ <<n, fence[n].attempt + 1>> \in Calls
        BY <2>1, ClaimEffect, AppendAssumption DEF TypeOK, Nodes!Fence
      <3>2. call[<<n, fence[n].attempt + 1>>].pc = "none"
        BY <3>1 DEF Progress, ClaimedInOrder
      <3>3. \A c \in Calls : (call'[c].pc = "answered") <=> (call[c].pc = "answered")
        <4>1. call'[<<n, fence[n].attempt + 1>>].pc = "begun"
          BY <2>1, ClaimEffect DEF NewCall
        <4>2. QED
          BY <2>1, <3>2, <4>1, ClaimEffect
      <3>4. Derivations' = Derivations
        BY <3>3, SameAnswers
      <3>5. QED
        BY <2>1, <3>4 DEF Claim, NothingAppended, Kept
    <2>2. CASE Lose(n)
      BY <2>2, SameAnswers DEF Lose, NothingAppended, Kept
    <2>3. QED
      BY <1>1, <2>1, <2>2
  <1>2. ASSUME NEW n \in Producers, NEW a \in 1..MaxAttempt, CallStep(n, a)
        PROVE  NothingAppended \/ OthersAppended \/ DerivationAppended
    <2>1. CASE Settle(n, a)
      BY <2>1, SameAnswers DEF Settle, NothingAppended, Kept
    <2>2. CASE ReadCursor(n, a)
      <3>1. Derivations' = Derivations
        <4>1. call[<<n, a>>].pc = "begun" /\ call'[<<n, a>>].pc # "answered"
          BY <2>2, ReadCursorEffect DEF ReadCursor, At
        <4>2. QED
          BY <2>2, <4>1, ReadCursorEffect, SameAnswers
      <3>2. QED
        BY <2>2, <3>1 DEF ReadCursor, NothingAppended, Kept
    <2>3. CASE ReadIncrement(n, a)
      <3>1. Derivations' = Derivations
        <4>1. call[<<n, a>>].pc = "staged" /\ call'[<<n, a>>].pc = "prepared"
          BY <2>3, ReadIncrementEffect DEF ReadIncrement, At
        <4>2. QED
          BY <2>3, <4>1, ReadIncrementEffect, SameAnswers
      <3>2. QED
        BY <2>3, <3>1 DEF ReadIncrement, NothingAppended, Kept
    <2>4. CASE StagePublication(n, a) \/ StageDerivation(n, a)
      <3>1. /\ GetOrCreateBatch(n) /\ UNCHANGED <<rows, current, cursor>>
            /\ MoveTo(n, a, "staged")
            /\ call[<<n, a>>].pc \in {"begun", "positioned"}
        BY <2>4 DEF StagePublication, StageDerivation, At
      <3>2. Derivations' = Derivations
        BY <3>1, MoveToEffect, SameAnswers DEF CallPC
      <3>3. QED
        BY <3>1, <3>2, GetOrCreateEffect DEF NothingAppended
    <2>5. CASE ReuseBatch(n, a)
      <3>1. /\ GetOrCreateBatch(n) /\ UNCHANGED <<rows, current, cursor>>
            /\ MoveTo(n, a, "answered")
            /\ call[<<n, a>>].pc = "reusing"
        BY <2>5 DEF ReuseBatch, At
      <3>2. n \in Derivers /\ <<n, a>> \in Calls
        BY <3>1, DeriversDerive DEF Progress, Calls
      <3>3. n \in Derivations
        BY <3>1, <3>2 DEF Progress, AttemptsAgree
      <3>4. Derivations' = Derivations \cup {n}
        BY <3>1, <3>2, MoveToEffect, OneMoreAnswer DEF CallPC
      <3>5. QED
        BY <3>1, <3>3, <3>4, GetOrCreateEffect DEF NothingAppended
    <2>6. CASE CommitPublication(n, a)
      <3>1. /\ n \in Publishers /\ n \in Batches /\ n \notin Derivers
            /\ Approved[n] \in SUBSET Keys
        BY <2>6, NodeBatches, ApprovedType DEF CommitPublication
      <3>2. Derivations' = Derivations
        <4>1. MoveTo(n, a, "answered")
          BY <2>6 DEF CommitPublication
        <4>2. "answered" \in CallPC
          BY DEF CallPC
        <4>3. \A c \in Calls : c # <<n, a>> => call'[c] = call[c]
          BY <4>1, <4>2, MoveToEffect
        <4>4. \A c \in Calls : c[1] \in Derivers => c # <<n, a>>
          BY <3>1
        <4>5. \A c \in Calls : c[1] \in Derivers =>
                ((call'[c].pc = "answered") <=> (call[c].pc = "answered"))
          BY <4>3, <4>4
        <4>6. QED
          BY <4>5, SameAnswers
      <3>3. CASE AlreadyCommitted(n, Approved[n])
        BY <2>6, <3>2, <3>3 DEF CommitPublication, AlreadyCommitted, NothingAppended, Kept
      <3>4. CASE Append(n, Approved[n])
        <4>1. PICK new \in SUBSET Row : Appended(n, Approved[n], new)
          BY <3>1, <3>4, AppendAddsRows
        <4>2. UNCHANGED <<cursor, boundary>> /\ batch[n].status = "staging" /\ Approved[n] # {}
          BY <2>6, <3>4 DEF CommitPublication, Append
        <4>3. QED
          BY <3>1, <3>2, <4>1, <4>2 DEF OthersAppended
      <3>5. QED
        BY <2>6, <3>3, <3>4 DEF CommitPublication
    <2>7. CASE CommitDerivation(n, a)
      <3> DEFINE items == call[<<n, a>>].items
      <3>1. n \in Derivers /\ n \in Batches /\ <<n, a>> \in Calls /\ Target(n) = "query"
        BY <2>7, DeriversDerive, NodeBatches DEF CommitDerivation, At, Calls, Progress
      <3>2. items \in SUBSET Keys
        BY <3>1 DEF TypeOK, Call
      <3>3. At(n, a, "prepared") /\ Nodes!Live(n, a)
        BY <2>7 DEF CommitDerivation
      <3>4. CASE AlreadyCommitted(n, items) /\ cursor.through >= boundary[n]
        BY <3>1, <3>3, <3>4, NoSecondCommit
      <3>5. CASE /\ Append(n, items)
                 /\ cursor.through = call[<<n, a>>].through
                 /\ cursor' = [through |-> boundary[n], run |-> n]
        <4>1. PICK new \in SUBSET Row : Appended(n, items, new)
          BY <3>1, <3>2, <3>5, AppendAddsRows
        <4>2. UNCHANGED <<fence, boundary>> /\ batch[n].status = "staging" /\ items # {}
          BY <2>7, <3>5 DEF CommitDerivation, Append
        <4>3. /\ call'[<<n, a>>].pc = "answered"
              /\ Derivations' = Derivations \cup {n}
          <5>1. MoveTo(n, a, "answered") /\ call[<<n, a>>].pc # "answered"
            BY <2>7, <3>3 DEF CommitDerivation, At
          <5>2. QED
            BY <3>1, <5>1, MoveToEffect, OneMoreAnswer DEF CallPC
        <4>4. batch[n].dataset = "query"
          BY <3>1, <3>3 DEF Progress, OwnBatches, At
        <4>5. QED
          BY <3>1, <3>2, <3>3, <3>5, <4>1, <4>2, <4>3, <4>4
             DEF DerivationAppended, DerivationOf
      <3>6. QED
        BY <2>7, <3>4, <3>5 DEF CommitDerivation
    <2>8. QED
      BY <1>2, <2>1, <2>2, <2>3, <2>4, <2>5, <2>6, <2>7 DEF CallStep
  <1>3. ASSUME NEW b \in Batches, NEW d \in Datasets, NEW own \in BOOLEAN, OpenBatch(b, d, own)
        PROVE  NothingAppended
    BY <1>3, OpenBatchEffect, SameAnswers DEF OpenBatch, NothingAppended
  <1>4. ASSUME NEW b \in Batches, NEW items \in SUBSET Keys, PublishBatch(b, items)
        PROVE  OthersAppended
    <2>1. PICK new \in SUBSET Row : Appended(b, items, new)
      BY <1>4, AppendAddsRows DEF PublishBatch
    <2>2. UNCHANGED <<cursor, boundary>> /\ batch[b].status = "staging" /\ items # {}
      BY <1>4 DEF PublishBatch, Append
    <2>3. Derivations' = Derivations
      BY <1>4, SameAnswers DEF PublishBatch
    <2>4. QED
      BY <2>1, <2>2, <2>3 DEF OthersAppended
  <1>5. CASE UNCHANGED vars
    BY <1>5, SameAnswers DEF vars, NothingAppended, Kept
  <1>6. QED
    BY <1>1, <1>2, <1>3, <1>4, <1>5, CallPair DEF Next

-----------------------------------------------------------------------------
(* The tables.                                                             *)

\* The dataset that grows, by its name.
LEMMA GrownDataset ==
    ASSUME TypeOK, NEW b \in Batches, NEW items \in SUBSET Keys, NEW new,
           Appended(b, items, new)
    PROVE  \A d \in Datasets : d = batch[b].dataset =>
             rows'[d] = rows[d] \cup new /\ current'[d] = current[d] + Cardinality(items)
  BY AppendedRows

\* An append to the base dataset.
LEMMA AppendedToBase ==
    ASSUME TypeOK, NEW b \in Batches, NEW items \in SUBSET Keys, NEW new,
           Appended(b, items, new), batch[b].dataset = "base"
    PROVE  /\ rows'["base"] = rows["base"] \cup new
           /\ rows'["query"] = rows["query"]
           /\ current["base"] \in Nat /\ Cardinality(items) \in Nat
           /\ current'["base"] = current["base"] + Cardinality(items)
           /\ \A r \in new : r.seq \in (current["base"] + 1)..(current["base"] + Cardinality(items))
  <1>1. "query" \in Datasets /\ "query" # batch[b].dataset
    BY DEF Datasets
  <1>2. \A r \in new : r.seq \in (current["base"] + 1)..(current["base"] + Cardinality(items))
    BY DEF Appended, NewRows
  <1>3. /\ rows'[batch[b].dataset] = rows[batch[b].dataset] \cup new
        /\ current'[batch[b].dataset] = current[batch[b].dataset] + Cardinality(items)
        /\ current[batch[b].dataset] \in Nat /\ Cardinality(items) \in Nat
    BY AppendedRows
  <1>4. rows'["query"] = rows["query"]
    BY <1>1, AppendedRows
  <1>5. QED
    BY <1>2, <1>3, <1>4

\* An append to the query dataset: the items come beside those that are there.
LEMMA AppendedToQuery ==
    ASSUME TypeOK, NEW b \in Batches, NEW items \in SUBSET Keys, NEW new,
           Appended(b, items, new), batch[b].dataset = "query"
    PROVE  /\ rows'["query"] = rows["query"] \cup new
           /\ rows'["base"] = rows["base"]
           /\ current["base"] \in Nat
           /\ current'["base"] = current["base"]
           /\ {r.key : r \in new} = items
           /\ \A r \in new : r.batch = b /\ r.key \notin KeysOf("query")
           /\ \A r, q \in new : r.key = q.key => r = q
  <1>1. "base" \in Datasets /\ "base" # batch[b].dataset /\ current["base"] \in Nat
    BY DEF Datasets, TypeOK
  <1>2. /\ {r.key : r \in new} = items
        /\ \A r \in new : r.batch = b /\ r.key \notin KeysOf("query")
        /\ \A r, q \in new : r.key = q.key => r = q
    BY DEF Appended, NewRows
  <1>3. rows'["query"] = rows["query"] \cup new
    BY GrownDataset DEF Datasets
  <1>4. rows'["base"] = rows["base"] /\ current'["base"] = current["base"]
    BY <1>1, AppendedRows
  <1>5. QED
    BY <1>1, <1>2, <1>3, <1>4

\* Positions stay contiguous when a batch takes the next ones.
LEMMA AppendKeepsSeqs ==
    ASSUME TypeOK, SeqsAreContiguous, NEW b \in Batches, NEW items \in SUBSET Keys,
           NEW new, Appended(b, items, new)
    PROVE  SeqsAreContiguous'
  <1> SUFFICES ASSUME NEW d \in Datasets
               PROVE  /\ {r.seq : r \in rows'[d]} = 1..current'[d]
                      /\ \A r, q \in rows'[d] : r.seq = q.seq \/ r.key = q.key => r = q
    BY DEF SeqsAreContiguous
  <1> DEFINE n == Cardinality(items)
  <1>1. /\ {r.seq : r \in rows[d]} = 1..current[d]
        /\ \A r, q \in rows[d] : r.seq = q.seq \/ r.key = q.key => r = q
    BY DEF SeqsAreContiguous
  <1>2. CASE d # batch[b].dataset
    <2>1. rows'[d] = rows[d] /\ current'[d] = current[d]
      BY <1>2, AppendedRows
    <2>2. QED
      BY <1>1, <2>1
  <1>3. CASE d = batch[b].dataset
    <2>1. /\ rows'[d] = rows[d] \cup new /\ current'[d] = current[d] + n
          /\ current[d] \in Nat /\ n \in Nat
      BY <1>3, AppendedRows
    <2>2. /\ \A r \in new : r.seq \in (current[d] + 1)..(current[d] + n)
          /\ \A s \in (current[d] + 1)..(current[d] + n) : \E r \in new : r.seq = s
          /\ \A r \in new : \A q \in rows[d] : r.key # q.key
          /\ \A r, q \in new : r.seq = q.seq \/ r.key = q.key => r = q
      BY <1>3 DEF Appended, NewRows, KeysOf
    <2>3. \A r \in rows[d] : r.seq \in 1..current[d]
      BY <1>1
    <2>4. \A s \in 1..current[d] : \E r \in rows[d] : r.seq = s
      BY <1>1
    <2>5. \A r \in rows'[d] : r.seq \in 1..current'[d]
      BY <2>1, <2>2, <2>3
    <2>6. \A s \in 1..current'[d] : \E r \in rows'[d] : r.seq = s
      <3>1. ASSUME NEW s \in 1..current'[d], s <= current[d]
            PROVE  \E r \in rows'[d] : r.seq = s
        BY <2>1, <2>4, <3>1
      <3>2. ASSUME NEW s \in 1..current'[d], s > current[d]
            PROVE  \E r \in rows'[d] : r.seq = s
        BY <2>1, <2>2, <3>2
      <3>3. QED
        BY <2>1, <3>1, <3>2
    <2>7. \A r, q \in rows'[d] : r.seq = q.seq \/ r.key = q.key => r = q
      BY <1>1, <2>1, <2>2, <2>3
    <2>8. QED
      BY <2>5, <2>6, <2>7
  <1>4. QED
    BY <1>2, <1>3

\* What BatchOwnsItsRange and RangesAreWritten say of one batch.
InRange(b) ==
    /\ \A d \in Datasets :
         IF batch[b].status = "committed" /\ batch[b].dataset = d
         THEN /\ Owned(d, b) = {r \in rows[d] : r.seq \in batch[b].from..batch[b].to}
              /\ {r.key : r \in Owned(d, b)} = batch[b].payload
         ELSE Owned(d, b) = {}
    /\ batch[b].status = "committed" => batch[b].to <= current[batch[b].dataset]

\* A batch that is committed has the range it took.
LEMMA AppendedInRange ==
    ASSUME TypeOK, Tables, NEW b \in Batches, NEW items \in SUBSET Keys, NEW new,
           Appended(b, items, new), batch[b].status = "staging"
    PROVE  InRange(b)'
  <1>0. PICK e \in Datasets, n \in Nat : e = batch[b].dataset /\ n = Cardinality(items)
    BY BatchDataset, KeySetsAreFinite
  <1>1. /\ rows'[e] = rows[e] \cup new /\ current'[e] = current[e] + n
        /\ current[e] \in Nat /\ n \in Nat
        /\ \A d \in Datasets : d # e => rows'[d] = rows[d]
        /\ batch'[b].status = "committed" /\ batch'[b].payload = items /\ batch'[b].dataset = e
        /\ batch'[b].from = current[e] + 1 /\ batch'[b].to = current[e] + n
    BY <1>0, AppendedRows
  <1>2. /\ \A r \in new : /\ r.seq \in (current[e] + 1)..(current[e] + n)
                          /\ r.key \in items
                          /\ r.batch = b
        /\ \A k \in items : \E r \in new : r.key = k
    BY <1>0 DEF Appended, NewRows
  <1>3. \A r \in rows[e] : r.seq \in 1..current[e]
    BY DEF Tables, SeqsAreContiguous
  <1>4. \A d \in Datasets : \A r \in rows[d] : r.batch # b
    <2>1. \A d \in Datasets : Owned(d, b) = {}
      BY DEF Tables, BatchOwnsItsRange
    <2>2. QED
      BY <2>1 DEF Owned
  <1>5. Owned(e, b)' = new
    BY <1>1, <1>2, <1>4 DEF Owned
  <1>6. new = {r \in rows'[e] : r.seq \in (current[e] + 1)..(current[e] + n)}
    BY <1>1, <1>2, <1>3
  <1>7. {r.key : r \in new} = items
    BY <1>2
  <1>8. \A d \in Datasets : d # e => Owned(d, b)' = {}
    BY <1>1, <1>4 DEF Owned
  <1>9. QED
    <2>1. ASSUME NEW d \in Datasets
          PROVE  IF batch'[b].status = "committed" /\ batch'[b].dataset = d
                 THEN /\ Owned(d, b)' = {r \in rows'[d] : r.seq \in batch'[b].from..batch'[b].to}
                      /\ {r.key : r \in Owned(d, b)'} = batch'[b].payload
                 ELSE Owned(d, b)' = {}
      <3>1. CASE d = e
        BY <1>1, <1>5, <1>6, <1>7, <3>1
      <3>2. CASE d # e
        BY <1>1, <1>8, <3>2
      <3>3. QED
        BY <3>1, <3>2
    <2>2. batch'[b].to <= current'[batch'[b].dataset]
      BY <1>1
    <2>3. QED
      BY <2>1, <2>2 DEF InRange

\* The other batches keep to theirs.
LEMMA OthersInRange ==
    ASSUME TypeOK, Tables, NEW b \in Batches, NEW items \in SUBSET Keys, NEW new,
           Appended(b, items, new), NEW q \in Batches, q # b
    PROVE  InRange(q)'
  <1>0. PICK e \in Datasets, n \in Nat : e = batch[b].dataset /\ n = Cardinality(items)
    BY BatchDataset, KeySetsAreFinite
  <1> DEFINE f == batch[q].dataset
  <1>1. /\ rows'[e] = rows[e] \cup new /\ current'[e] = current[e] + n
        /\ current[e] \in Nat /\ n \in Nat
        /\ \A d \in Datasets : d # e => rows'[d] = rows[d] /\ current'[d] = current[d]
        /\ batch'[q] = batch[q]
    BY <1>0, AppendedRows
  <1>2. \A r \in new : r.seq \in (current[e] + 1)..(current[e] + n) /\ r.batch = b
    BY <1>0 DEF Appended, NewRows
  <1>3. /\ batch[q].from \in Nat /\ batch[q].to \in Nat /\ f \in Datasets /\ current[f] \in Nat
    BY BatchDataset DEF Batch
  <1>4. \A d \in Datasets : Owned(d, q)' = Owned(d, q)
    <2>1. ASSUME NEW d \in Datasets PROVE Owned(d, q)' = Owned(d, q)
      <3>1. CASE d = e
        BY <1>1, <1>2, <3>1 DEF Owned
      <3>2. CASE d # e
        BY <1>1, <3>2 DEF Owned
      <3>3. QED
        BY <3>1, <3>2
    <2>2. QED
      BY <2>1
  <1>5. /\ \A d \in Datasets :
             IF batch[q].status = "committed" /\ batch[q].dataset = d
             THEN /\ Owned(d, q) = {r \in rows[d] : r.seq \in batch[q].from..batch[q].to}
                  /\ {r.key : r \in Owned(d, q)} = batch[q].payload
             ELSE Owned(d, q) = {}
        /\ batch[q].status = "committed" => batch[q].to <= current[f]
    BY DEF Tables, BatchOwnsItsRange, RangesAreWritten
  <1>6. batch[q].status = "committed" =>
          {r \in rows'[f] : r.seq \in batch[q].from..batch[q].to} =
          {r \in rows[f] : r.seq \in batch[q].from..batch[q].to}
    <2>1. CASE f = e
      BY <1>1, <1>2, <1>3, <1>5, <2>1
    <2>2. CASE f # e
      BY <1>1, <1>3, <2>2
    <2>3. QED
      BY <2>1, <2>2
  <1>7. batch[q].status = "committed" => batch[q].to <= current'[f]
    <2>1. CASE f = e
      BY <1>1, <1>3, <1>5, <2>1
    <2>2. CASE f # e
      BY <1>1, <1>3, <1>5, <2>2
    <2>3. QED
      BY <2>1, <2>2
  <1>8. QED
    BY <1>1, <1>4, <1>5, <1>6, <1>7 DEF InRange

\* Batches keep to their ranges when another one takes the next positions.
LEMMA AppendKeepsRanges ==
    ASSUME TypeOK, Tables, NEW b \in Batches, NEW items \in SUBSET Keys, NEW new,
           Appended(b, items, new), batch[b].status = "staging"
    PROVE  BatchOwnsItsRange' /\ RangesAreWritten'
  <1>1. \A q \in Batches : InRange(q)'
    BY AppendedInRange, OthersInRange
  <1>2. QED
    BY <1>1 DEF InRange, BatchOwnsItsRange, RangesAreWritten

\* Steps without an append leave the tables as they are.
LEMMA NothingKeepsTables ==
    ASSUME Tables, NothingAppended
    PROVE  Tables'
  <1>1. SeqsAreContiguous'
    BY DEF Tables, NothingAppended, SeqsAreContiguous
  <1>2. ASSUME NEW b \in Batches PROVE InRange(b)'
    <2>1. /\ \A d \in Datasets : Owned(d, b)' = Owned(d, b)
          /\ UNCHANGED <<rows, current>>
          /\ Kept(b)
      BY DEF NothingAppended, Owned
    <2>2. InRange(b)
      BY DEF Tables, BatchOwnsItsRange, RangesAreWritten, InRange
    <2>3. CASE batch'[b] = batch[b]
      BY <2>1, <2>2, <2>3 DEF InRange
    <2>4. CASE batch[b].status = "none" /\ batch'[b].status = "staging"
      BY <2>1, <2>2, <2>4 DEF InRange
    <2>5. QED
      BY <2>1, <2>3, <2>4 DEF Kept
  <1>3. QED
    BY <1>1, <1>2 DEF Tables, InRange, BatchOwnsItsRange, RangesAreWritten

\* Every step keeps the tables.
LEMMA TablesStep ==
    ASSUME TypeOK, Tables, NothingAppended \/ OthersAppended \/ DerivationAppended
    PROVE  Tables'
  <1>1. CASE NothingAppended
    BY <1>1, NothingKeepsTables
  <1>2. CASE OthersAppended
    <2>1. PICK b \in Batches, items \in SUBSET Keys, new \in SUBSET Row :
            batch[b].status = "staging" /\ Appended(b, items, new)
      BY <1>2 DEF OthersAppended
    <2>2. QED
      BY <2>1, AppendKeepsSeqs, AppendKeepsRanges DEF Tables
  <1>3. CASE DerivationAppended
    <2>1. PICK b \in Batches, items \in SUBSET Keys, new \in SUBSET Row :
            batch[b].status = "staging" /\ Appended(b, items, new)
      BY <1>3 DEF DerivationAppended, DerivationOf
    <2>2. QED
      BY <2>1, AppendKeepsSeqs, AppendKeepsRanges DEF Tables
  <1>4. QED
    BY <1>1, <1>2, <1>3

-----------------------------------------------------------------------------
(* What derivations wrote.                                                 *)

\* A node run that answered has a committed batch, so nobody fills it again.
LEMMA DerivationsAreCommitted ==
    ASSUME AnsweredIsCommitted, NEW n \in Derivations
    PROVE  n \in Derivers /\ batch[n].status = "committed"
  <1>1. PICK a \in 1..MaxAttempt : n \in Derivers /\ call[<<n, a>>].pc = "answered"
    BY DEF Derivations, At
  <1>2. <<n, a>> \in Calls
    BY <1>1 DEF Calls, Producers
  <1>3. QED
    BY <1>1, <1>2 DEF AnsweredIsCommitted

\* What others append is not taken for derived.
LEMMA OthersDeriveNothing ==
    ASSUME TypeOK, AnsweredIsCommitted, OthersAppended
    PROVE  Derived' = Derived
  <1>1. PICK b \in Batches, items \in SUBSET Keys, new \in SUBSET Row :
          batch[b].status = "staging" /\ Appended(b, items, new)
    BY DEF OthersAppended
  <1>2. Derivations' = Derivations
    BY DEF OthersAppended
  <1>3. b \notin Derivations
    BY <1>1, DerivationsAreCommitted
  <1>4. CASE batch[b].dataset = "base"
    <2>1. rows'["query"] = rows["query"]
      BY <1>1, <1>4, AppendedToBase
    <2>2. QED
      BY <1>2, <2>1 DEF Derived
  <1>5. CASE batch[b].dataset = "query"
    <2>1. rows'["query"] = rows["query"] \cup new /\ \A r \in new : r.batch = b
      BY <1>1, <1>5, AppendedToQuery
    <2>2. QED
      BY <1>2, <1>3, <2>1 DEF Derived
  <1>6. QED
    BY <1>1, <1>4, <1>5, BatchDataset DEF Datasets

\* What a derivation appends is what it derives: its batch was empty.
LEMMA DerivationDerives ==
    ASSUME TypeOK, Tables, NEW n \in Derivers, NEW a \in 1..MaxAttempt, NEW new,
           DerivationOf(n, a, new)
    PROVE  /\ Derived' = Derived \cup new
           /\ {r.key : r \in new} = call[<<n, a>>].items
           /\ rows'["query"] = rows["query"] \cup new
           /\ rows'["base"] = rows["base"] /\ current'["base"] = current["base"]
           /\ \A r \in new : r.key \notin KeysOf("query")
  <1>1. /\ n \in Batches /\ batch[n].dataset = "query" /\ batch[n].status = "staging"
        /\ call[<<n, a>>].items \in SUBSET Keys
        /\ Appended(n, call[<<n, a>>].items, new)
        /\ Derivations' = Derivations \cup {n}
    BY DEF DerivationOf
  <1> DEFINE items == call[<<n, a>>].items
  <1> HIDE DEF items
  <1>2. /\ rows'["query"] = rows["query"] \cup new
        /\ rows'["base"] = rows["base"] /\ current'["base"] = current["base"]
        /\ {r.key : r \in new} = items
        /\ \A r \in new : r.batch = n /\ r.key \notin KeysOf("query")
    <2>1. items \in SUBSET Keys /\ Appended(n, items, new)
      BY <1>1 DEF items
    <2>2. n \in Batches /\ batch[n].dataset = "query"
      BY <1>1
    <2>3. QED
      BY <2>1, <2>2, AppendedToQuery
  <1>3. \A r \in rows["query"] : r.batch # n
    <2>1. Owned("query", n) = {}
      BY <1>1 DEF Tables, BatchOwnsItsRange, Datasets
    <2>2. QED
      BY <2>1 DEF Owned
  <1>4. Derived' = Derived \cup new
    BY <1>1, <1>2, <1>3 DEF Derived
  <1>5. QED
    BY <1>2, <1>4 DEF items

\* What is derived stays the image of the base records up to the cursor.
LEMMA DerivedStep ==
    ASSUME TypeOK, Tables, Tables', DerivedExactlyOnce, BoundariesAreBound, PositionsAreBehind,
           AnsweredIsCommitted, NothingAppended \/ OthersAppended \/ DerivationAppended
    PROVE  DerivedExactlyOnce'
  <1> DEFINE Upto(s) == {r \in rows["base"] : r.seq <= s}
  <1>0. \A r, q \in rows'["query"] : r \in Derived' /\ r.key = q.key => r = q
    BY DEF Tables, SeqsAreContiguous, Datasets
  <1>1. /\ cursor.through \in Nat /\ current["base"] \in Nat
        /\ \A r \in rows["base"] : r.seq \in 1..current["base"]
    BY DEF TypeOK, Cursor, Datasets, Tables, SeqsAreContiguous
  <1>2. /\ cursor.through <= current["base"]
        /\ {r.key : r \in Derived} = {r.key : r \in Upto(cursor.through)}
    BY DEF DerivedExactlyOnce
  <1>3. SUFFICES
          /\ cursor'.through <= current'["base"]
          /\ {r.key : r \in Derived'} =
             {r.key : r \in {q \in rows'["base"] : q.seq <= cursor'.through}}
    BY <1>0 DEF DerivedExactlyOnce
  <1>4. CASE NothingAppended
    <2>1. UNCHANGED <<rows, current, cursor>> /\ Derived' = Derived
      BY <1>4 DEF NothingAppended, Derived
    <2>2. QED
      BY <1>2, <2>1
  <1>5. CASE OthersAppended
    <2>1. Derived' = Derived /\ cursor' = cursor
      BY <1>5, OthersDeriveNothing DEF OthersAppended
    <2>2. PICK b \in Batches, items \in SUBSET Keys, new \in SUBSET Row :
            Appended(b, items, new)
      BY <1>5 DEF OthersAppended
    <2>3. CASE batch[b].dataset = "base"
      <3>1. /\ rows'["base"] = rows["base"] \cup new
            /\ current'["base"] = current["base"] + Cardinality(items)
            /\ Cardinality(items) \in Nat
            /\ \A r \in new :
                 r.seq \in (current["base"] + 1)..(current["base"] + Cardinality(items))
        BY <2>2, <2>3, AppendedToBase
      <3>2. {r \in rows'["base"] : r.seq <= cursor.through} = Upto(cursor.through)
        BY <1>1, <1>2, <3>1
      <3>3. cursor.through <= current'["base"]
        BY <1>1, <1>2, <3>1
      <3>4. QED
        BY <1>2, <2>1, <3>2, <3>3
    <2>4. CASE batch[b].dataset = "query"
      <3>1. rows'["base"] = rows["base"] /\ current'["base"] = current["base"]
        BY <2>2, <2>4, AppendedToQuery
      <3>2. QED
        BY <1>2, <2>1, <3>1
    <2>5. QED
      BY <2>3, <2>4, BatchDataset DEF Datasets
  <1>6. CASE DerivationAppended
    <2>1. PICK n \in Derivers, a \in 1..MaxAttempt, new \in SUBSET Row : DerivationOf(n, a, new)
      BY <1>6 DEF DerivationAppended
    <2> DEFINE items == call[<<n, a>>].items
    <2>2. /\ <<n, a>> \in Calls /\ At(n, a, "prepared")
          /\ cursor.through = call[<<n, a>>].through /\ cursor'.through = boundary[n]
      BY <2>1 DEF DerivationOf
    <2>3. /\ boundary[n] \in Nat /\ boundary[n] <= current["base"]
          /\ cursor.through < boundary[n]
          /\ items = {r.key : r \in Increment(n, cursor.through)}
      BY <2>2 DEF TypeOK, BoundariesAreBound, PositionsAreBehind, At
    <2>4. /\ Derived' = Derived \cup new /\ {r.key : r \in new} = items
          /\ rows'["base"] = rows["base"] /\ current'["base"] = current["base"]
      BY <2>1, DerivationDerives
    <2>5. {r.key : r \in Derived'} = {r.key : r \in Derived} \cup items
      BY <2>4
    <2>6. Upto(boundary[n]) = Upto(cursor.through) \cup Increment(n, cursor.through)
      BY <1>1, <2>3 DEF Increment
    <2>7. {r.key : r \in Derived'} = {r.key : r \in Upto(boundary[n])}
      BY <1>2, <2>3, <2>5, <2>6
    <2>8. QED
      BY <2>2, <2>3, <2>4, <2>7
  <1>7. QED
    BY <1>4, <1>5, <1>6

-----------------------------------------------------------------------------
(* What a call relies on stays true.                                       *)

\* Committed batches stay, opened ones keep their dataset and workflow run,
\* and datasets do not shrink.
LEMMA CommitsStay ==
    ASSUME TypeOK, NothingAppended \/ OthersAppended \/ DerivationAppended
    PROVE  /\ \A b \in Batches : batch[b].status = "committed" => batch'[b] = batch[b]
           /\ \A b \in Batches : batch[b].status # "none" =>
                /\ batch'[b].status # "none"
                /\ batch'[b].dataset = batch[b].dataset /\ batch'[b].own = batch[b].own
           /\ \A d \in Datasets : rows[d] \subseteq rows'[d]
           /\ current["base"] \in Nat /\ current'["base"] \in Nat
           /\ current["base"] <= current'["base"]
  <1>1. CASE NothingAppended
    <2>1. /\ UNCHANGED <<rows, current>> /\ \A b \in Batches : Kept(b)
          /\ current["base"] \in Nat
      BY <1>1 DEF NothingAppended, TypeOK, Datasets
    <2>2. QED
      BY <2>1 DEF Kept
  <1>2. ASSUME NEW b \in Batches, NEW items \in SUBSET Keys, NEW new,
               batch[b].status = "staging", Appended(b, items, new)
        PROVE  /\ \A q \in Batches : batch[q].status = "committed" => batch'[q] = batch[q]
               /\ \A q \in Batches : batch[q].status # "none" =>
                    /\ batch'[q].status # "none"
                    /\ batch'[q].dataset = batch[q].dataset /\ batch'[q].own = batch[q].own
               /\ \A d \in Datasets : rows[d] \subseteq rows'[d]
               /\ current["base"] \in Nat /\ current'["base"] \in Nat
               /\ current["base"] <= current'["base"]
    <2>1. /\ current["base"] \in Nat /\ current'["base"] \in Nat
          /\ current["base"] <= current'["base"]
      <3>1. CASE batch[b].dataset = "base"
        <4>1. /\ current["base"] \in Nat /\ Cardinality(items) \in Nat
              /\ current'["base"] = current["base"] + Cardinality(items)
          BY <1>2, <3>1, AppendedToBase
        <4>2. QED
          BY <4>1
      <3>2. CASE batch[b].dataset = "query"
        <4>1. current["base"] \in Nat /\ current'["base"] = current["base"]
          BY <1>2, <3>2, AppendedToQuery
        <4>2. QED
          BY <4>1
      <3>3. QED
        BY <3>1, <3>2, BatchDataset DEF Datasets
    <2>2. /\ \A q \in Batches : q # b => batch'[q] = batch[q]
          /\ batch'[b].status = "committed"
          /\ batch'[b].dataset = batch[b].dataset /\ batch'[b].own = batch[b].own
      BY <1>2, AppendedRows
    <2>3. \A d \in Datasets : rows[d] \subseteq rows'[d]
      BY <1>2, AppendedRows
    <2>4. QED
      BY <1>2, <2>1, <2>2, <2>3
  <1>3. CASE OthersAppended
    <2>1. PICK b \in Batches, items \in SUBSET Keys, new \in SUBSET Row :
            batch[b].status = "staging" /\ Appended(b, items, new)
      BY <1>3 DEF OthersAppended
    <2>2. QED
      BY <1>2, <2>1
  <1>4. CASE DerivationAppended
    <2>1. PICK b \in Batches, items \in SUBSET Keys, new \in SUBSET Row :
            batch[b].status = "staging" /\ Appended(b, items, new)
      BY <1>4 DEF DerivationAppended, DerivationOf
    <2>2. QED
      BY <1>2, <2>1
  <1>5. QED
    BY <1>1, <1>3, <1>4

\* An increment inside the base dataset does not change any more.
LEMMA IncrementStays ==
    ASSUME TypeOK, Tables, BoundariesAreBound, NEW n \in Derivers, NEW through,
           NothingAppended \/ OthersAppended \/ DerivationAppended, boundary'[n] = boundary[n]
    PROVE  {r \in rows'["base"] : through < r.seq /\ r.seq <= boundary'[n]} = Increment(n, through)
  <1>1. CASE NothingAppended
    BY <1>1 DEF NothingAppended, Increment
  <1>2. ASSUME NEW b \in Batches, NEW items \in SUBSET Keys, NEW new, Appended(b, items, new)
        PROVE  {r \in rows'["base"] : through < r.seq /\ r.seq <= boundary'[n]} =
               Increment(n, through)
    <2>1. CASE batch[b].dataset = "base"
      <3>1. /\ rows'["base"] = rows["base"] \cup new /\ current["base"] \in Nat
            /\ \A r \in new :
                 r.seq \in (current["base"] + 1)..(current["base"] + Cardinality(items))
        BY <1>2, <2>1, AppendedToBase
      <3>2. boundary[n] <= current["base"] /\ boundary[n] \in Nat /\ Cardinality(items) \in Nat
        BY KeySetsAreFinite DEF BoundariesAreBound, TypeOK
      <3>3. \A r \in new : ~(r.seq <= boundary[n])
        BY <3>1, <3>2
      <3>4. QED
        BY <3>1, <3>3 DEF Increment
    <2>2. CASE batch[b].dataset = "query"
      <3>1. rows'["base"] = rows["base"]
        BY <1>2, <2>2, AppendedToQuery
      <3>2. QED
        BY <3>1 DEF Increment
    <2>3. QED
      BY <2>1, <2>2, BatchDataset DEF Datasets
  <1>3. QED
    BY <1>1, <1>2 DEF OthersAppended, DerivationAppended, DerivationOf

\* A boundary changes once, when the node run is claimed for the first time.
LEMMA BoundaryStays ==
    ASSUME TypeOK, [Next]_vars, NEW m \in Derivers
    PROVE  \/ boundary'[m] = boundary[m]
           \/ boundary[m] = 0 /\ boundary'[m] \in 1..current["base"]
  <1>1. ASSUME NEW n \in Producers, Claim(n)
        PROVE  \/ boundary'[m] = boundary[m]
               \/ boundary[m] = 0 /\ boundary'[m] \in 1..current["base"]
    BY <1>1, ClaimEffect
  <1>2. CASE UNCHANGED boundary
    BY <1>2
  <1>3. QED
    BY <1>1, <1>2 DEF Next, Lose, CallStep, Settle, StagePublication, CommitPublication,
         ReadCursor, ReuseBatch, StageDerivation, ReadIncrement, CommitDerivation, OpenBatch,
         PublishBatch, vars

-----------------------------------------------------------------------------
(* The progress of the calls.                                              *)

\* Boundaries stay inside, and unbound derivers untouched.
LEMMA BoundariesStep ==
    ASSUME TypeOK, BoundariesAreBound, [Next]_vars,
           NothingAppended \/ OthersAppended \/ DerivationAppended
    PROVE  BoundariesAreBound'
  <1> SUFFICES ASSUME NEW n \in Derivers
               PROVE  /\ boundary'[n] <= current'["base"]
                      /\ boundary'[n] = 0 => \A a \in 1..MaxAttempt : At(n, a, "none")'
    BY DEF BoundariesAreBound
  <1>1. /\ boundary[n] \in Nat /\ boundary[n] <= current["base"] /\ n \in Producers
        /\ current["base"] \in Nat /\ current'["base"] \in Nat
        /\ current["base"] <= current'["base"]
    BY CommitsStay, NodeBatches DEF TypeOK, BoundariesAreBound
  <1>2. boundary'[n] <= current'["base"]
    BY <1>1, BoundaryStays
  <1>3. ASSUME boundary'[n] = 0, NEW a \in 1..MaxAttempt
        PROVE  call'[<<n, a>>].pc = "none"
    <2>1. boundary[n] = 0
      BY <1>1, <1>3, BoundaryStays
    <2>2. /\ <<n, a>> \in Calls /\ ~CallStep(n, a) /\ call[<<n, a>>].pc = "none"
      BY <1>1, <2>1, IdleCallStays DEF BoundariesAreBound, Calls, At
    <2>3. ~Claim(n)
      BY <1>1, <1>3, ClaimEffect
    <2>4. call'[<<n, a>>] = call[<<n, a>>]
      BY <2>2, <2>3, OneCallMoves
    <2>5. QED
      BY <2>2, <2>4
  <1>4. QED
    BY <1>2, <1>3 DEF At

\* A call that is on its way has its boundary already.
LEMMA BoundaryOfCallStays ==
    ASSUME TypeOK, BoundariesAreBound, [Next]_vars,
           NEW c \in Calls, c[1] \in Derivers, call[c].pc # "none"
    PROVE  boundary'[c[1]] = boundary[c[1]]
  <1>1. c[2] \in 1..MaxAttempt /\ ~At(c[1], c[2], "none")
    BY CallPair DEF At
  <1>2. boundary[c[1]] # 0
    BY <1>1 DEF BoundariesAreBound
  <1>3. QED
    BY <1>2, BoundaryStays

\* Positions stay behind the boundary, and prepared items are the increment.
LEMMA PositionsStep ==
    ASSUME TypeOK, Tables, BoundariesAreBound, PositionsAreBehind, [Next]_vars,
           NothingAppended \/ OthersAppended \/ DerivationAppended
    PROVE  PositionsAreBehind'
  <1> DEFINE Later(n, t) == {r \in rows'["base"] : t < r.seq /\ r.seq <= boundary'[n]}
  <1> SUFFICES ASSUME NEW c \in Calls, c[1] \in Derivers
               PROVE  /\ call'[c].pc \in {"positioned", "staged", "prepared"} =>
                           call'[c].through < boundary'[c[1]]
                      /\ call'[c].pc = "prepared" =>
                           call'[c].items = {r.key : r \in Later(c[1], call'[c].through)}
    BY DEF PositionsAreBehind, Increment
  <1> HIDE DEF Later
  <1> DEFINE n == c[1]
             a == c[2]
  <1>1. n \in Producers /\ a \in 1..MaxAttempt /\ c = <<n, a>>
    BY CallPair
  <1>2. /\ call[c].pc \in {"positioned", "staged", "prepared"} => call[c].through < boundary[n]
        /\ call[c].pc = "prepared" =>
             call[c].items = {r.key : r \in Increment(n, call[c].through)}
    BY DEF PositionsAreBehind
  <1>3. call[c].pc # "none" =>
          /\ boundary'[n] = boundary[n]
          /\ \A t : Later(n, t) = Increment(n, t)
    BY BoundaryOfCallStays, IncrementStays DEF Later
  <1>4. CASE call'[c] = call[c]
    BY <1>2, <1>3, <1>4
  <1>5. CASE call'[c] = NewCall("begun")
    BY <1>5 DEF NewCall
  <1>6. CASE CallStep(n, a)
    <2>1. call[c].pc # "none"
      BY <1>1, <1>6, IdleCallStays DEF At
    <2>2. boundary'[n] = boundary[n] /\ \A t : Later(n, t) = Increment(n, t)
      BY <1>3, <2>1
    <2>3. CASE ReadCursor(n, a)
      BY <1>1, <2>2, <2>3, ReadCursorEffect
    <2>4. CASE StageDerivation(n, a)
      <3>1. call[c].pc = "positioned" /\ MoveTo(n, a, "staged")
        BY <1>1, <2>4 DEF StageDerivation, At
      <3>2. call'[c].pc = "staged" /\ call'[c].through = call[c].through
        BY <1>1, <3>1, MoveToEffect DEF CallPC
      <3>3. QED
        BY <1>2, <2>2, <3>1, <3>2
    <2>5. CASE ReadIncrement(n, a)
      <3>1. call[c].pc = "staged"
        BY <1>1, <2>5 DEF ReadIncrement, At
      <3>2. /\ call'[c].through = call[c].through
            /\ call'[c].items = {r.key : r \in Increment(n, call[c].through)}
        BY <1>1, <2>5, ReadIncrementEffect
      <3>3. QED
        BY <1>2, <2>2, <3>1, <3>2
    <2>6. QED
      BY <1>1, <1>4, <1>6, <2>3, <2>4, <2>5, DeriverSteps
  <1>7. QED
    BY <1>4, <1>5, <1>6, OneCallMoves

\* What a node run accepted stays its own, and nothing else is accepted.
LEMMA OwnStep ==
    ASSUME TypeOK, OwnBatches, [Next]_vars,
           NothingAppended \/ OthersAppended \/ DerivationAppended
    PROVE  OwnBatches'
  <1>1. ASSUME NEW n \in Producers, batch'[n].own
        PROVE  batch'[n].status # "none" /\ batch'[n].dataset = Target(n)
    <2>1. n \in Batches /\ (batch[n].own => batch[n].status # "none" /\ batch[n].dataset = Target(n))
      BY NodeBatches DEF OwnBatches
    <2>2. CASE batch'[n] = batch[n]
      BY <1>1, <2>1, <2>2
    <2>3. CASE Kept(n)
      BY <1>1, <2>2, <2>3 DEF Kept
    <2>4. ASSUME NEW b \in Batches, NEW items \in SUBSET Keys, NEW new, Appended(b, items, new)
          PROVE  batch'[n].status # "none" /\ batch'[n].dataset = Target(n)
      <3>1. CASE n = b
        <4>1. /\ batch'[b].status = "committed" /\ batch'[b].dataset = batch[b].dataset
              /\ batch'[b].own = batch[b].own
          BY <2>4, AppendedRows
        <4>2. QED
          BY <1>1, <2>1, <3>1, <4>1
      <3>2. CASE n # b
        <4>1. batch'[n] = batch[n]
          BY <2>1, <2>4, <3>2, AppendedRows
        <4>2. QED
          BY <2>2, <4>1
      <3>3. QED
        BY <3>1, <3>2
    <2>5. QED
      BY <2>1, <2>3, <2>4 DEF NothingAppended, OthersAppended, DerivationAppended, DerivationOf
  <1>2. ASSUME NEW c \in Calls, call'[c].pc \in {"staged", "prepared", "answered"}
        PROVE  batch'[c[1]].own
    <2> DEFINE n == c[1]
               a == c[2]
    <2>1. n \in Producers /\ n \in Batches /\ a \in 1..MaxAttempt /\ c = <<n, a>>
      BY CallPair, NodeBatches
    <2>2. CASE call[c].pc \in {"staged", "prepared", "answered"}
      <3>1. batch[n].own /\ batch[n].status # "none"
        BY <2>1, <2>2 DEF OwnBatches
      <3>2. QED
        BY <2>1, <3>1, CommitsStay
    <2>3. CASE call'[c] = NewCall("begun")
      BY <1>2, <2>3 DEF NewCall
    <2>4. CASE CallStep(n, a) /\ call'[c] # call[c]
      <3>1. CASE StagePublication(n, a) \/ StageDerivation(n, a) \/ ReuseBatch(n, a)
        <4>1. GetOrCreateBatch(n)
          BY <3>1 DEF StagePublication, StageDerivation, ReuseBatch
        <4>2. QED
          BY <2>1, <4>1, GetOrCreateEffect
      <3>2. CASE CommitPublication(n, a) \/ ReadIncrement(n, a) \/ CommitDerivation(n, a)
        <4>1. call[c].pc \in {"staged", "prepared"}
          BY <2>1, <3>2 DEF CommitPublication, ReadIncrement, CommitDerivation, At
        <4>2. QED
          BY <2>2, <4>1
      <3>3. CASE ReadCursor(n, a)
        BY <1>2, <2>1, <3>3, ReadCursorEffect
      <3>4. CASE Settle(n, a)
        BY <2>4, <3>4 DEF Settle
      <3>5. QED
        BY <2>4, <3>1, <3>2, <3>3, <3>4 DEF CallStep
    <2>5. QED
      BY <1>2, <2>2, <2>3, <2>4, OneCallMoves
  <1>3. QED
    BY <1>1, <1>2 DEF OwnBatches

\* A derivation that answered had its boundary before it began.
LEMMA AnsweredIsBound ==
    ASSUME TypeOK, BoundariesAreBound, [Next]_vars, NEW n \in Derivations
    PROVE  n \in Derivers /\ boundary'[n] = boundary[n]
  <1>1. PICK a \in 1..MaxAttempt : n \in Derivers /\ At(n, a, "answered")
    BY DEF Derivations
  <1>2. boundary[n] # 0
    BY <1>1 DEF BoundariesAreBound, At
  <1>3. QED
    BY <1>1, <1>2, BoundaryStays

\* The cursor goes on covering what was answered.
LEMMA CoverStep ==
    ASSUME TypeOK, BoundariesAreBound, PositionsAreBehind, CursorCoversAnswers, [Next]_vars,
           NothingAppended \/ OthersAppended \/ DerivationAppended
    PROVE  CursorCoversAnswers'
  <1>1. /\ \A n \in Derivations : boundary[n] <= cursor.through /\ boundary'[n] = boundary[n]
        /\ cursor.run \in Derivers => cursor.run \in Derivations
    BY AnsweredIsBound DEF CursorCoversAnswers
  <1>2. CASE NothingAppended \/ OthersAppended
    <2>1. cursor' = cursor /\ Derivations' = Derivations
      BY <1>2 DEF NothingAppended, OthersAppended
    <2>2. QED
      BY <1>1, <2>1 DEF CursorCoversAnswers
  <1>3. CASE DerivationAppended
    <2>1. PICK n \in Derivers, a \in 1..MaxAttempt, new \in SUBSET Row : DerivationOf(n, a, new)
      BY <1>3 DEF DerivationAppended
    <2>2. /\ <<n, a>> \in Calls /\ At(n, a, "prepared")
          /\ cursor.through = call[<<n, a>>].through
          /\ cursor'.through = boundary[n] /\ cursor'.run = n
          /\ Derivations' = Derivations \cup {n}
      BY <2>1 DEF DerivationOf
    <2>3. boundary' = boundary
      BY <1>3 DEF DerivationAppended
    <2>4. /\ cursor.through < boundary[n] /\ cursor.through \in Nat
          /\ \A m \in Derivers : boundary[m] \in Nat
      BY <2>2 DEF PositionsAreBehind, At, TypeOK, Cursor
    <2>5. \A m \in Derivations : m \in Derivers
      BY DEF Derivations
    <2>6. QED
      BY <1>1, <2>2, <2>3, <2>4, <2>5 DEF CursorCoversAnswers
  <1>4. QED
    BY <1>2, <1>3

\* An attempt becomes live by its claim only.
LEMMA LiveByClaim ==
    ASSUME TypeOK, [Next]_vars, NEW c \in Calls, Nodes!Live(c[1], c[2])'
    PROVE  Nodes!Live(c[1], c[2]) \/ call'[c] = NewCall("begun")
  <1>1. c[1] \in Producers /\ c[2] \in 1..MaxAttempt /\ c = <<c[1], c[2]>>
    BY CallPair
  <1>2. ASSUME NEW n \in Producers, Claim(n)
        PROVE  Nodes!Live(c[1], c[2]) \/ call'[c] = NewCall("begun")
    <2>1. CASE c[1] = n
      <3>1. fence'[n].attempt = fence[n].attempt + 1
        BY <1>2, ClaimEffect
      <3>2. c = <<n, fence[n].attempt + 1>>
        BY <1>1, <2>1, <3>1 DEF Nodes!Live
      <3>3. QED
        BY <1>2, <3>2, ClaimEffect
    <2>2. CASE c[1] # n
      <3>1. fence'[c[1]] = fence[c[1]]
        BY <1>1, <1>2, <2>2, ClaimEffect
      <3>2. QED
        BY <3>1 DEF Nodes!Live
    <2>3. QED
      BY <2>1, <2>2
  <1>3. ASSUME NEW n \in Producers, Nodes!Lose(n) \/ Nodes!Settle(n)
        PROVE  Nodes!Live(c[1], c[2])
    BY <1>1, <1>3, FenceEffect DEF Nodes!Live
  <1>4. CASE UNCHANGED fence
    BY <1>4 DEF Nodes!Live
  <1>5. ASSUME NEW n \in Producers, NEW a \in 1..MaxAttempt, CallStep(n, a)
        PROVE  Nodes!Settle(n) \/ UNCHANGED fence
    BY <1>5 DEF CallStep, Settle, StagePublication, CommitPublication, ReadCursor, ReuseBatch,
         StageDerivation, ReadIncrement, CommitDerivation
  <1>6. QED
    BY <1>2, <1>3, <1>4, <1>5, CallPair DEF Next, Lose, OpenBatch, PublishBatch, vars

\* Attempts go on agreeing with what their node run has derived.
LEMMA AttemptsStep ==
    ASSUME TypeOK, CursorCoversAnswers, AttemptsAgree, [Next]_vars,
           NothingAppended \/ OthersAppended \/ DerivationAppended
    PROVE  AttemptsAgree'
  <1> SUFFICES ASSUME NEW c \in Calls, c[1] \in Derivers
               PROVE  /\ call'[c].pc = "reusing" => c[1] \in Derivations'
                      /\ call'[c].pc \in {"positioned", "staged", "prepared"}
                           /\ Nodes!Live(c[1], c[2])'
                           => c[1] \notin Derivations'
    BY DEF AttemptsAgree
  <1> DEFINE n == c[1]
             a == c[2]
  <1>1. n \in Producers /\ a \in 1..MaxAttempt /\ c = <<n, a>>
    BY CallPair
  <1>2. /\ call[c].pc = "reusing" => n \in Derivations
        /\ call[c].pc \in {"positioned", "staged", "prepared"} /\ Nodes!Live(n, a)
             => n \notin Derivations
    BY DEF AttemptsAgree
  <1>3. Derivations \subseteq Derivations'
    BY DEF NothingAppended, OthersAppended, DerivationAppended, DerivationOf
  <1>4. ASSUME n \notin Derivations, n \in Derivations', Nodes!Live(n, a)'
        PROVE  call'[c].pc = "answered"
    <2>1. DerivationAppended
      BY <1>4 DEF NothingAppended, OthersAppended
    <2>2. PICK m \in Derivers, k \in 1..MaxAttempt :
            /\ Nodes!Live(m, k) /\ call'[<<m, k>>].pc = "answered"
            /\ Derivations' = Derivations \cup {m}
      BY <2>1 DEF DerivationAppended, DerivationOf
    <2>3. fence' = fence
      BY <2>1 DEF DerivationAppended
    <2>4. m = n
      BY <1>4, <2>2
    <2>5. k = a
      BY <1>4, <2>2, <2>3, <2>4 DEF Nodes!Live
    <2>6. QED
      BY <1>1, <2>2, <2>4, <2>5
  <1>5. CASE call'[c] = call[c]
    <2>1. ASSUME call'[c].pc \in {"positioned", "staged", "prepared"}, Nodes!Live(n, a)'
          PROVE  n \notin Derivations'
      <3>1. Nodes!Live(n, a)
        BY <2>1, LiveByClaim DEF NewCall
      <3>2. n \notin Derivations
        BY <1>2, <1>5, <2>1, <3>1
      <3>3. QED
        BY <1>4, <2>1, <3>2
    <2>2. QED
      BY <1>2, <1>3, <1>5, <2>1
  <1>6. CASE call'[c] = NewCall("begun")
    BY <1>6 DEF NewCall
  <1>7. CASE CallStep(n, a)
    <2>1. CASE ReadCursor(n, a)
      <3>1. \/ cursor.through < boundary[n] /\ call'[c].pc = "positioned"
            \/ cursor.run = n /\ call'[c].pc = "reusing"
            \/ call'[c].pc = "stale"
        BY <1>1, <2>1, ReadCursorEffect
      <3>2. /\ n \in Derivations => boundary[n] <= cursor.through
            /\ cursor.run = n => n \in Derivations
            /\ boundary[n] \in Nat /\ cursor.through \in Nat
        BY DEF CursorCoversAnswers, TypeOK, Cursor
      <3>3. CASE call'[c].pc = "positioned"
        BY <1>4, <3>1, <3>2, <3>3
      <3>4. CASE call'[c].pc = "reusing"
        BY <1>3, <3>1, <3>2, <3>4
      <3>5. QED
        BY <3>1, <3>3, <3>4
    <2>2. CASE StageDerivation(n, a) \/ ReadIncrement(n, a)
      <3>1. call[c].pc \in {"positioned", "staged"} /\ fence' = fence
        BY <1>1, <2>2 DEF StageDerivation, ReadIncrement, At
      <3>2. call'[c].pc \in {"staged", "prepared"}
        <4>1. CASE StageDerivation(n, a)
          BY <1>1, <4>1, MoveToEffect DEF StageDerivation, CallPC
        <4>2. CASE ReadIncrement(n, a)
          BY <1>1, <4>2, ReadIncrementEffect
        <4>3. QED
          BY <2>2, <4>1, <4>2
      <3>3. Nodes!Live(n, a)' => n \notin Derivations
        BY <1>2, <3>1 DEF Nodes!Live
      <3>4. QED
        BY <1>4, <3>2, <3>3
    <2>3. QED
      BY <1>1, <1>5, <1>7, <2>1, <2>2, DeriverSteps
  <1>8. QED
    BY <1>5, <1>6, <1>7, OneCallMoves

\* Who answers has a committed batch, and keeps it.
LEMMA AnsweredStep ==
    ASSUME TypeOK, PublishersOnlyPublish, AnsweredIsCommitted, [Next]_vars,
           NothingAppended \/ OthersAppended \/ DerivationAppended
    PROVE  AnsweredIsCommitted'
  <1> SUFFICES ASSUME NEW c \in Calls, call'[c].pc = "answered"
               PROVE  /\ batch'[c[1]].status = "committed"
                      /\ c[1] \in Publishers => batch'[c[1]].payload = Approved[c[1]]
    BY DEF AnsweredIsCommitted
  <1> DEFINE n == c[1]
             a == c[2]
  <1>1. n \in Producers /\ a \in 1..MaxAttempt /\ c = <<n, a>> /\ n \in Batches
    BY CallPair, NodeBatches
  <1>2. CASE call'[c] = call[c]
    <2>1. /\ batch[n].status = "committed"
          /\ n \in Publishers => batch[n].payload = Approved[n]
      BY <1>2 DEF AnsweredIsCommitted
    <2>2. batch'[n] = batch[n]
      BY <1>1, <2>1, CommitsStay
    <2>3. QED
      BY <2>1, <2>2
  <1>3. CASE CallStep(n, a) /\ call'[c] # call[c]
    <2>1. ASSUME NEW items \in SUBSET Keys, Append(n, items) \/ AlreadyCommitted(n, items)
          PROVE  batch'[n].status = "committed" /\ batch'[n].payload = items
      <3>1. CASE Append(n, items)
        <4>1. PICK new \in SUBSET Row : Appended(n, items, new)
          BY <1>1, <3>1, AppendAddsRows
        <4>2. QED
          BY <1>1, <4>1, AppendedRows
      <3>2. CASE AlreadyCommitted(n, items)
        BY <3>2 DEF AlreadyCommitted
      <3>3. QED
        BY <2>1, <3>1, <3>2
    <2>2. CASE CommitPublication(n, a)
      <3>1. n \in Publishers /\ Approved[n] \in SUBSET Keys
        BY <2>2, ApprovedType DEF CommitPublication
      <3>2. Append(n, Approved[n]) \/ AlreadyCommitted(n, Approved[n])
        BY <2>2 DEF CommitPublication
      <3>3. QED
        BY <2>1, <3>1, <3>2
    <2>3. CASE ReuseBatch(n, a) \/ CommitDerivation(n, a)
      <3>1. n \in Derivers /\ n \notin Publishers
        BY <1>1, <2>3, DeriversDerive, NodeBatches DEF ReuseBatch, CommitDerivation, At
      <3>2. call[c].items \in SUBSET Keys
        BY DEF TypeOK, Call
      <3>3. batch'[n].status = "committed"
        BY <1>1, <2>1, <2>3, <3>2 DEF ReuseBatch, CommitDerivation
      <3>4. QED
        BY <3>1, <3>3
    <2>4. CASE ReadCursor(n, a)
      BY <1>1, <2>4, ReadCursorEffect
    <2>5. CASE StagePublication(n, a) \/ StageDerivation(n, a)
      BY <1>1, <2>5, MoveToEffect DEF StagePublication, StageDerivation, CallPC
    <2>6. CASE ReadIncrement(n, a)
      BY <1>1, <2>6, ReadIncrementEffect
    <2>7. CASE Settle(n, a)
      BY <1>3, <2>7 DEF Settle
    <2>8. QED
      BY <1>3, <2>2, <2>3, <2>4, <2>5, <2>6, <2>7 DEF CallStep
  <1>4. QED
    BY <1>2, <1>3, OneCallMoves DEF NewCall

-----------------------------------------------------------------------------
(* The invariant, and what follows from it.                                *)

\* The empty tables and calls satisfy the invariant.
LEMMA InitInvariant == Init => IInv
  <1> SUFFICES ASSUME Init PROVE IInv
    OBVIOUS
  <1>1. TypeOK
    BY InitType
  <1>2. /\ \A d \in Datasets : rows[d] = {} /\ current[d] = 0
        /\ \A b \in Batches : batch[b].status = "none" /\ ~batch[b].own
    BY DEF Init
  <1>3. Tables
    <2>1. SeqsAreContiguous
      BY <1>2 DEF SeqsAreContiguous
    <2>2. BatchOwnsItsRange
      BY <1>2 DEF BatchOwnsItsRange, Owned
    <2>3. RangesAreWritten
      BY <1>2 DEF RangesAreWritten
    <2>4. QED
      BY <2>1, <2>2, <2>3 DEF Tables
  <1>4. \A c \in Calls : call[c].pc = "none"
    BY DEF Init, NewCall
  <1>5. Derivations = {}
    <2>1. \A n \in Derivers, a \in 1..MaxAttempt : call[<<n, a>>].pc = "none"
      BY <1>4 DEF Calls, Producers
    <2>2. QED
      BY <2>1 DEF Derivations, At
  <1>6. DerivedExactlyOnce
    <2>1. cursor.through = 0 /\ current["base"] = 0 /\ rows["base"] = {} /\ rows["query"] = {}
      BY DEF Init, Datasets
    <2>2. Derived = {}
      BY <2>1 DEF Derived
    <2>3. QED
      BY <2>1, <2>2 DEF DerivedExactlyOnce
  <1>7. BoundariesAreBound
    BY <1>4 DEF Init, BoundariesAreBound, At, Datasets, Calls, Producers
  <1>8. /\ ClaimedInOrder /\ PublishersOnlyPublish /\ PositionsAreBehind
        /\ AttemptsAgree /\ AnsweredIsCommitted
    BY <1>4 DEF ClaimedInOrder, PublishersOnlyPublish, PositionsAreBehind, AttemptsAgree,
         AnsweredIsCommitted
  <1>9. OwnBatches
    BY <1>2, <1>4, NodeBatches DEF OwnBatches
  <1>10. CursorCoversAnswers
    BY <1>5, AppendAssumption DEF Init, CursorCoversAnswers
  <1>11. QED
    BY <1>1, <1>3, <1>6, <1>7, <1>8, <1>9, <1>10 DEF IInv, Progress

\* Every step keeps the invariant.
LEMMA InvariantStep == IInv /\ [Next]_vars => IInv'
  <1> SUFFICES ASSUME IInv, [Next]_vars PROVE IInv'
    OBVIOUS
  <1>1. NothingAppended \/ OthersAppended \/ DerivationAppended
    BY StepShape
  <1> USE DEF IInv, Progress
  <1>2. TypeOK' /\ PublishersOnlyPublish'
    BY TypeStep, PublisherStep
  <1>3. Tables'
    BY <1>1, TablesStep
  <1>4. DerivedExactlyOnce'
    BY <1>1, <1>3, DerivedStep
  <1>5. BoundariesAreBound' /\ PositionsAreBehind' /\ ClaimedInOrder'
    BY <1>1, <1>2, BoundariesStep, PositionsStep, ClaimOrderStep
  <1>6. OwnBatches' /\ CursorCoversAnswers' /\ AttemptsAgree' /\ AnsweredIsCommitted'
    BY <1>1, OwnStep, CoverStep, AttemptsStep, AnsweredStep
  <1>7. QED
    BY <1>2, <1>3, <1>4, <1>5, <1>6

\* Whatever is appended and derived by whichever attempts and clients, the
\* tables, the cursor and the calls satisfy the inductive invariant.
THEOREM AppendInvariant == Spec => []IInv
  <1>1. Init => IInv
    BY InitInvariant
  <1>2. IInv /\ [Next]_vars => IInv'
    BY InvariantStep
  <1>3. QED
    BY <1>1, <1>2, PTL DEF Spec

\* Every column always holds a value of its type (dataset_repo.go).
THEOREM AppendTypeCorrect == Spec => []TypeOK
  BY AppendInvariant, PTL DEF IInv

\* Positions are given out without gap and repetition and keys are unique,
\* whoever appends (dataset_append.go, pipeline_repo.go).
THEOREM SeqsStayContiguous == Spec => []SeqsAreContiguous
  BY AppendInvariant, PTL DEF IInv, Tables

\* A committed batch is its range and its payload (pipeline_repo.go).
THEOREM BatchesOwnTheirRanges == Spec => []BatchOwnsItsRange
  BY AppendInvariant, PTL DEF IInv, Tables

\* What derivations wrote is the image of the base records up to the cursor,
\* each once, whatever clients put beside it (query_dataset_service.go).
THEOREM DerivationIsExact == Spec => []DerivedExactlyOnce
  BY AppendInvariant, PTL DEF IInv

\* Derive finds the batch behind its run's cursor committed, and no attempt
\* derives once its run has answered, whoever commits the run's batch.
THEOREM CursorAgrees == Spec => []CursorAgreesWithBatch
  <1>1. IInv => CursorAgreesWithBatch
    <2> SUFFICES ASSUME IInv, NEW c \in Calls, c[1] \in Derivers, call[c].pc = "reusing"
                 PROVE  batch[c[1]].status = "committed" /\ batch[c[1]].dataset = "query"
      BY DEF CursorAgreesWithBatch, IInv, Progress, AttemptsAgree
    <2>1. c[1] \in Derivations
      BY DEF IInv, Progress, AttemptsAgree
    <2>2. PICK a \in 1..MaxAttempt : call[<<c[1], a>>].pc = "answered"
      BY <2>1 DEF Derivations, At
    <2>3. <<c[1], a>> \in Calls /\ c[1] \in Producers /\ Target(c[1]) = "query"
      BY NodeBatches DEF Calls
    <2>4. batch[c[1]].own /\ batch[c[1]].status = "committed"
      <3>1. \A e \in Calls : call[e].pc = "answered" =>
              batch[e[1]].own /\ batch[e[1]].status = "committed"
        BY DEF IInv, Progress, OwnBatches, AnsweredIsCommitted
      <3>2. QED
        BY <2>2, <2>3, <3>1
    <2>5. QED
      BY <2>3, <2>4 DEF IInv, Progress, OwnBatches
  <1>2. QED
    BY <1>1, AppendInvariant, PTL

\* An increment that was read outside of the transaction is whole, and still
\* what it was when its batch is committed (readSourceIncrement).
THEOREM IncrementsAreComplete == Spec => []IncrementIsComplete
  <1>1. IInv => IncrementIsComplete
    <2> SUFFICES ASSUME IInv, NEW c \in Calls, c[1] \in Derivers,
                        call[c].pc \in {"staged", "prepared"}
                 PROVE  {r.seq : r \in Increment(c[1], call[c].through)} =
                           (call[c].through + 1)..boundary[c[1]]
      BY DEF IInv, Progress, PositionsAreBehind, IncrementIsComplete
    <2>1. /\ {r.seq : r \in rows["base"]} = 1..current["base"]
          /\ current["base"] \in Nat
      BY DEF IInv, TypeOK, Tables, SeqsAreContiguous, Datasets
    <2>2. /\ call[c].through \in Nat /\ boundary[c[1]] \in Nat
          /\ boundary[c[1]] <= current["base"]
      BY DEF IInv, TypeOK, Call, Progress, BoundariesAreBound
    <2> DEFINE t == call[c].through
               b == boundary[c[1]]
    <2>3. \A r \in Increment(c[1], t) : r.seq \in (t + 1)..b
      BY <2>1, <2>2 DEF Increment
    <2>4. ASSUME NEW s \in (t + 1)..b PROVE \E r \in Increment(c[1], t) : r.seq = s
      <3>1. s \in 1..current["base"]
        BY <2>1, <2>2
      <3>2. PICK r \in rows["base"] : r.seq = s
        BY <2>1, <3>1
      <3>3. r \in Increment(c[1], t)
        BY <2>2, <3>2 DEF Increment
      <3>4. QED
        BY <3>2, <3>3
    <2>5. QED
      BY <2>3, <2>4
  <1>2. QED
    BY <1>1, AppendInvariant, PTL

\* Who is told that a batch is committed finds it committed with what it asked
\* for, and a derivation that was answered covers its boundary
\* (dataset_append.go, query_dataset_service.go).
THEOREM AnswersAreDurable == Spec => []AnswerIsDurable
  <1>1. IInv => AnswerIsDurable
    <2> SUFFICES ASSUME IInv, NEW c \in Calls, call[c].pc = "answered"
                 PROVE  /\ batch[c[1]].status = "committed"
                        /\ batch[c[1]].dataset = Target(c[1])
                        /\ c[1] \in Publishers => batch[c[1]].payload = Approved[c[1]]
                        /\ c[1] \in Derivers =>
                             \A r \in rows["base"] : r.seq <= boundary[c[1]] => r.key \in KeysOf("query")
      BY DEF AnswerIsDurable
    <2>1. c[1] \in Producers /\ c[2] \in 1..MaxAttempt /\ c = <<c[1], c[2]>>
      BY CallPair
    <2>2. /\ batch[c[1]].status = "committed" /\ batch[c[1]].own
          /\ c[1] \in Publishers => batch[c[1]].payload = Approved[c[1]]
      BY DEF IInv, Progress, AnsweredIsCommitted, OwnBatches
    <2>3. batch[c[1]].dataset = Target(c[1])
      BY <2>1, <2>2 DEF IInv, Progress, OwnBatches
    <2>4. ASSUME c[1] \in Derivers, NEW r \in rows["base"], r.seq <= boundary[c[1]]
          PROVE  r.key \in KeysOf("query")
      <3>1. c[1] \in Derivations
        BY <2>1, <2>4 DEF Derivations, At
      <3>2. boundary[c[1]] <= cursor.through
        BY <3>1 DEF IInv, Progress, CursorCoversAnswers
      <3>3. boundary[c[1]] \in Nat /\ cursor.through \in Nat /\ r.seq \in Nat
        BY <2>4 DEF IInv, TypeOK, Cursor, Row, Datasets
      <3>4. r.seq <= cursor.through
        BY <2>4, <3>2, <3>3
      <3>5. PICK p \in Derived : p.key = r.key
        BY <3>4 DEF IInv, DerivedExactlyOnce
      <3>6. QED
        BY <3>5 DEF Derived, KeysOf
    <2>5. QED
      BY <2>2, <2>3, <2>4
  <1>2. QED
    BY <1>1, AppendInvariant, PTL

-----------------------------------------------------------------------------
(* Action properties.                                                      *)

\* Datasets only grow, and a committed batch is never written again
\* (pipeline_repo.go).
THEOREM DatasetsOnlyGrow == Spec => AppendOnly
  <1>1. IInv /\ [Next]_vars =>
          /\ \A d \in Datasets : rows[d] \subseteq rows'[d]
          /\ \A b \in Batches : batch[b].status = "committed" => batch'[b] = batch[b]
    <2> SUFFICES ASSUME IInv, [Next]_vars
                 PROVE  /\ \A d \in Datasets : rows[d] \subseteq rows'[d]
                        /\ \A b \in Batches : batch[b].status = "committed" => batch'[b] = batch[b]
      OBVIOUS
    <2>1. NothingAppended \/ OthersAppended \/ DerivationAppended
      BY StepShape
    <2>2. QED
      BY <2>1, CommitsStay DEF IInv
  <1>2. QED
    BY <1>1, AppendInvariant, PTL DEF Spec, AppendOnly

\* The cursor moves forward, and in the transaction that commits the batch
\* (CommitQueryDatasetBatchForNode).
THEOREM CursorMovesForward == Spec => CursorMovesWithBatch
  <1>1. ASSUME IInv, [Next]_vars, cursor' # cursor
        PROVE  /\ cursor'.through > cursor.through
               /\ cursor'.run \in Derivers
               /\ batch[cursor'.run].status = "staging"
               /\ batch'[cursor'.run].status = "committed"
    <2>1. DerivationAppended
      BY <1>1, StepShape DEF NothingAppended, OthersAppended
    <2>2. PICK n \in Derivers, a \in 1..MaxAttempt, new \in SUBSET Row : DerivationOf(n, a, new)
      BY <2>1 DEF DerivationAppended
    <2> DEFINE items == call[<<n, a>>].items
    <2> HIDE DEF items
    <2>3. /\ n \in Batches /\ <<n, a>> \in Calls /\ At(n, a, "prepared")
          /\ batch[n].status = "staging"
          /\ items \in SUBSET Keys /\ Appended(n, items, new)
          /\ cursor.through = call[<<n, a>>].through
          /\ cursor'.through = boundary[n] /\ cursor'.run = n
      BY <2>2 DEF DerivationOf, items
    <2>4. cursor.through < boundary[n] /\ cursor.through \in Nat /\ boundary[n] \in Nat
      BY <1>1, <2>3 DEF IInv, Progress, PositionsAreBehind, At, TypeOK, Cursor
    <2>5. batch'[n].status = "committed"
      <3>1. TypeOK
        BY <1>1 DEF IInv
      <3>2. QED
        BY <2>3, <3>1, AppendedRows
    <2>6. QED
      BY <2>3, <2>4, <2>5
  <1>2. QED
    BY <1>1, AppendInvariant, PTL DEF Spec, CursorMovesWithBatch

-----------------------------------------------------------------------------
(* The datasets implement DerivedLog.                                      *)

\* The base dataset as a sequence, as Promise maps it.
BaseLog == [s \in 1..current["base"] |-> KeyAt(s)]

\* The records of the query dataset, as Promise maps them.
DerivedKeys == {r.key : r \in Derived}

ForeignKeys == {r.key : r \in Foreign}

\* KeyAt reads the only record at a position.
LogIsFaithful ==
    /\ \A s \in 1..current["base"] : KeyAt(s) \in Keys
    /\ \A r \in rows["base"] : r.seq \in 1..current["base"] /\ KeyAt(r.seq) = r.key
    /\ \A s \in 1..current["base"] : \E r \in rows["base"] : r.seq = s /\ r.key = KeyAt(s)
    /\ \A s, t \in 1..current["base"] : KeyAt(s) = KeyAt(t) => s = t

\* The inductive invariant makes KeyAt the inverse of the records' positions.
LEMMA LogFacts == IInv => LogIsFaithful
  <1> SUFFICES ASSUME IInv PROVE LogIsFaithful
    OBVIOUS
  <1>1. /\ {r.seq : r \in rows["base"]} = 1..current["base"]
        /\ \A r, q \in rows["base"] : r.seq = q.seq \/ r.key = q.key => r = q
        /\ \A r \in rows["base"] : r.key \in Keys
    BY DEF IInv, TypeOK, Row, Tables, SeqsAreContiguous, Datasets
  <1>2. ASSUME NEW s \in 1..current["base"]
        PROVE  /\ KeyAt(s) \in Keys
               /\ \E r \in rows["base"] : r.seq = s /\ r.key = KeyAt(s)
    <2>1. \E k \in Keys : \E r \in rows["base"] : r.seq = s /\ r.key = k
      BY <1>1
    <2>2. QED
      BY <2>1 DEF KeyAt
  <1>3. ASSUME NEW r \in rows["base"]
        PROVE  r.seq \in 1..current["base"] /\ KeyAt(r.seq) = r.key
    <2>1. r.seq \in 1..current["base"]
      BY <1>1
    <2>2. PICK q \in rows["base"] : q.seq = r.seq /\ q.key = KeyAt(r.seq)
      BY <1>2, <2>1
    <2>3. QED
      BY <1>1, <2>1, <2>2
  <1>4. ASSUME NEW s \in 1..current["base"], NEW t \in 1..current["base"], KeyAt(s) = KeyAt(t)
        PROVE  s = t
    <2>1. PICK r \in rows["base"] : r.seq = s /\ r.key = KeyAt(s)
      BY <1>2
    <2>2. PICK q \in rows["base"] : q.seq = t /\ q.key = KeyAt(t)
      BY <1>2
    <2>3. QED
      BY <1>1, <1>4, <2>1, <2>2
  <1>5. QED
    BY <1>2, <1>3, <1>4 DEF LogIsFaithful

\* The empty tables are the empty log.
LEMMA InitLog == Init => Promise!Init
  <1> SUFFICES ASSUME Init PROVE Promise!Init
    OBVIOUS
  <1>1. current["base"] = 0 /\ rows["query"] = {} /\ cursor.through = 0
    BY DEF Init, Datasets
  <1>2. BaseLog = <<>>
    BY <1>1 DEF BaseLog
  <1>3. DerivedKeys = {} /\ ForeignKeys = {}
    BY <1>1 DEF DerivedKeys, ForeignKeys, Derived, Foreign
  <1>4. QED
    BY <1>1, <1>2, <1>3 DEF Promise!Init, BaseLog, DerivedKeys, ForeignKeys

\* Positions that are taken keep their records.
LEMMA LogStays ==
    ASSUME LogIsFaithful, LogIsFaithful', rows["base"] \subseteq rows'["base"]
    PROVE  \A s \in 1..current["base"] : KeyAt(s)' = KeyAt(s)
  <1>1. SUFFICES ASSUME NEW s \in 1..current["base"] PROVE KeyAt(s)' = KeyAt(s)
    OBVIOUS
  <1>2. PICK r \in rows["base"] : r.seq = s /\ r.key = KeyAt(s)
    BY DEF LogIsFaithful
  <1> DEFINE nextKey == KeyAt(s)'
  <1>3. \A q \in rows'["base"] : q.seq = s => nextKey = q.key
    BY DEF LogIsFaithful
  <1>4. QED
    BY <1>2, <1>3

\* A sequence over an interval, and its beginning.
LEMMA IntervalSequence ==
    ASSUME NEW n \in Nat, NEW m \in 0..n, NEW S, NEW f \in [1..n -> S]
    PROVE  /\ Promise!Len(f) = n
           /\ Promise!SubSeq(f, 1, m) = [i \in 1..m |-> f[i]]
  OBVIOUS

\* An append to the base dataset appends to the log.
LEMMA BaseAppendMaps ==
    ASSUME TypeOK, AnsweredIsCommitted, LogIsFaithful, LogIsFaithful', OthersAppended,
           NEW b \in Batches, NEW items \in SUBSET Keys, NEW new,
           batch[b].dataset = "base", items # {}, Appended(b, items, new)
    PROVE  Promise!AppendBatch
  <1> DEFINE m == current["base"]
             n == current'["base"]
  <1>1. /\ rows["base"] \subseteq rows'["base"] /\ rows'["query"] = rows["query"]
        /\ m \in Nat /\ n \in Nat /\ m < n
    <2>1. Cardinality(items) \in Nat /\ Cardinality(items) > 0
      BY KeySetsAreFinite
    <2>2. QED
      BY <2>1, AppendedToBase
  <1> HIDE DEF m, n
  <1>2. \A s \in 1..m : KeyAt(s)' = KeyAt(s)
    BY <1>1, LogStays DEF m
  <1> DEFINE log == [s \in 1..m |-> KeyAt(s)]
             next == [s \in 1..n |-> KeyAt(s)']
  <1>3. log \in [1..m -> Keys] /\ next \in [1..n -> Keys]
    BY DEF LogIsFaithful, m, n
  <1>4. Promise!Len(log) = m /\ Promise!Len(next) = n
    BY <1>1, <1>3, IntervalSequence
  <1>5. Promise!SubSeq(next, 1, m) = log
    <2>1. Promise!SubSeq(next, 1, m) = [i \in 1..m |-> next[i]]
      BY <1>1, <1>3, IntervalSequence
    <2>2. \A i \in 1..m : next[i] = log[i]
      BY <1>1, <1>2
    <2>3. QED
      BY <2>1, <2>2
  <1>6. \A s, t \in 1..n : next[s] = next[t] => s = t
    BY DEF LogIsFaithful, n
  <1>7. /\ cursor' = cursor
        /\ DerivedKeys' = DerivedKeys /\ ForeignKeys' = ForeignKeys
    <2>1. cursor' = cursor
      BY DEF OthersAppended
    <2>2. Derived' = Derived
      BY OthersDeriveNothing
    <2>3. QED
      BY <1>1, <2>1, <2>2 DEF DerivedKeys, ForeignKeys, Foreign
  <1> HIDE DEF log, next
  <1>8. log = BaseLog /\ next = BaseLog'
    BY DEF log, next, BaseLog, m, n
  <1>9. /\ Promise!Len(BaseLog') > Promise!Len(BaseLog)
        /\ Promise!SubSeq(BaseLog', 1, Promise!Len(BaseLog)) = BaseLog
        /\ \A s, t \in 1..Promise!Len(BaseLog') : BaseLog'[s] = BaseLog'[t] => s = t
    BY <1>1, <1>4, <1>5, <1>6, <1>8
  <1>10. QED
    BY <1>7, <1>9
       DEF Promise!AppendBatch, Promise!Distinct, BaseLog, DerivedKeys, ForeignKeys

\* While the base table stays, so does the log.
LEMMA SameLog ==
    ASSUME rows'["base"] = rows["base"], current'["base"] = current["base"]
    PROVE  BaseLog' = BaseLog
  <1>1. \A s \in 1..current["base"] : KeyAt(s)' = KeyAt(s)
    BY DEF KeyAt
  <1>2. QED
    BY <1>1 DEF BaseLog

\* What others append to the query dataset stays apart from what is derived.
LEMMA ForeignAppendMaps ==
    ASSUME TypeOK, AnsweredIsCommitted, SeqsAreContiguous', OthersAppended,
           NEW b \in Batches, NEW items \in SUBSET Keys, NEW new,
           batch[b].dataset = "query", items # {}, Appended(b, items, new)
    PROVE  Promise!AddForeign
  <1>1. /\ rows'["query"] = rows["query"] \cup new
        /\ rows'["base"] = rows["base"] /\ current'["base"] = current["base"]
        /\ {r.key : r \in new} = items
        /\ \A r \in new : r.key \notin KeysOf("query")
    BY AppendedToQuery
  <1>2. Derived' = Derived /\ cursor' = cursor
    BY OthersDeriveNothing DEF OthersAppended
  <1>3. Derived \subseteq rows["query"] /\ Foreign \subseteq rows["query"]
    BY DEF Derived, Foreign
  <1>4. Foreign' = Foreign \cup new
    <2>1. \A r \in new : r \notin rows["query"]
      BY <1>1 DEF KeysOf
    <2>2. QED
      BY <1>1, <1>2, <1>3, <2>1 DEF Foreign
  <1>5. ForeignKeys' = ForeignKeys \cup items
    BY <1>1, <1>4 DEF ForeignKeys
  <1>6. ForeignKeys' # ForeignKeys
    <2>1. PICK r \in new : TRUE
      BY <1>1
    <2>2. r.key \in items /\ r.key \notin ForeignKeys
      BY <1>1, <1>3 DEF ForeignKeys, KeysOf
    <2>3. QED
      BY <1>5, <2>2
  <1>7. ForeignKeys' \cap DerivedKeys = {}
    <2>1. \A r, q \in rows'["query"] : r.key = q.key => r = q
      BY DEF SeqsAreContiguous, Datasets
    <2>2. \A r \in Foreign', q \in Derived : r.key # q.key
      <3>1. \A r \in Foreign' : r \in rows'["query"] /\ r \notin Derived
        BY <1>2 DEF Foreign
      <3>2. QED
        BY <1>1, <1>3, <2>1, <3>1
    <2>3. QED
      BY <2>2 DEF ForeignKeys, DerivedKeys
  <1>8. BaseLog' = BaseLog /\ DerivedKeys' = DerivedKeys
    BY <1>1, <1>2, SameLog DEF DerivedKeys
  <1>9. QED
    BY <1>2, <1>5, <1>6, <1>7, <1>8
       DEF Promise!AddForeign, BaseLog, DerivedKeys, ForeignKeys

\* A committed derivation derives the records up to its boundary.
LEMMA DerivationMaps ==
    ASSUME IInv, LogIsFaithful, DerivationAppended
    PROVE  \E to \in 1..Promise!Len(BaseLog) : Promise!Derive(to)
  <1>1. PICK n \in Derivers, a \in 1..MaxAttempt, new \in SUBSET Row : DerivationOf(n, a, new)
    BY DEF DerivationAppended
  <1> DEFINE items == call[<<n, a>>].items
             from == cursor.through
             to == boundary[n]
             m == current["base"]
  <1>2. /\ <<n, a>> \in Calls /\ At(n, a, "prepared")
        /\ from = call[<<n, a>>].through /\ cursor'.through = to
    BY <1>1 DEF DerivationOf
  <1>3. /\ to \in Nat /\ to <= m /\ from \in Nat /\ from < to /\ m \in Nat
        /\ items = {r.key : r \in Increment(n, from)}
    BY <1>2 DEF IInv, TypeOK, Progress, BoundariesAreBound, PositionsAreBehind, At, Cursor, Datasets
  <1>4. /\ Derived' = Derived \cup new /\ {r.key : r \in new} = items
        /\ rows'["query"] = rows["query"] \cup new
        /\ rows'["base"] = rows["base"] /\ current'["base"] = current["base"]
        /\ \A r \in new : r.key \notin KeysOf("query")
    BY <1>1, DerivationDerives DEF IInv
  <1>5. items \cap (DerivedKeys \cup ForeignKeys) = {}
    BY <1>4 DEF DerivedKeys, ForeignKeys, Derived, Foreign, KeysOf
  <1>6. DerivedKeys' = DerivedKeys \cup items
    BY <1>4 DEF DerivedKeys
  <1>7. ForeignKeys' = ForeignKeys
    <2>1. \A r \in new : r \notin rows["query"]
      BY <1>4 DEF KeysOf
    <2>2. Foreign' = Foreign
      BY <1>4, <2>1 DEF Foreign
    <2>3. QED
      BY <2>2 DEF ForeignKeys
  <1>8. BaseLog' = BaseLog
    BY <1>4, SameLog
  <1>9. items = {KeyAt(s) : s \in (from + 1)..to}
    <2>1. ASSUME NEW k \in items PROVE k \in {KeyAt(s) : s \in (from + 1)..to}
      <3>1. PICK r \in rows["base"] : r.seq > from /\ r.seq <= to /\ k = r.key
        BY <1>3 DEF Increment
      <3>2. r.seq \in 1..m /\ KeyAt(r.seq) = k
        BY <3>1 DEF LogIsFaithful
      <3>3. r.seq \in (from + 1)..to
        BY <1>3, <3>1, <3>2
      <3>4. QED
        BY <3>2, <3>3
    <2>2. ASSUME NEW s \in (from + 1)..to PROVE KeyAt(s) \in items
      <3>1. s \in 1..m
        BY <1>3
      <3>2. PICK r \in rows["base"] : r.seq = s /\ r.key = KeyAt(s)
        BY <3>1 DEF LogIsFaithful
      <3>3. r \in Increment(n, from)
        BY <1>3, <3>2 DEF Increment
      <3>4. QED
        BY <1>3, <3>2, <3>3
    <2>3. QED
      BY <2>1, <2>2
  <1>10. BaseLog = [s \in 1..m |-> KeyAt(s)] /\ \A s \in (from + 1)..to : BaseLog[s] = KeyAt(s)
    BY <1>3 DEF BaseLog
  <1> HIDE DEF items
  <1>11. items = {BaseLog[s] : s \in (from + 1)..to}
    BY <1>9, <1>10
  <1>12. Promise!Len(BaseLog) = m
    <2>1. BaseLog \in [1..m -> Keys]
      BY <1>10 DEF LogIsFaithful
    <2>2. QED
      BY <1>3, <2>1, IntervalSequence
  <1>13. PICK s \in 1..Promise!Len(BaseLog) : s = to
    BY <1>3, <1>12
  <1>14. Promise!Derive(s)
    BY <1>2, <1>3, <1>13, <1>5, <1>6, <1>7, <1>8, <1>11, <1>12
       DEF Promise!Derive, BaseLog, DerivedKeys, ForeignKeys
  <1>15. QED
    BY <1>14

\* Every step is a step of the promise or leaves it alone.
LEMMA AppendStepMaps ==
    ASSUME IInv, IInv', [Next]_vars
    PROVE  [Promise!Next]_<<BaseLog, cursor.through, DerivedKeys, ForeignKeys>>
  <1>1. LogIsFaithful /\ LogIsFaithful'
    <2>1. IInv' => LogIsFaithful'
      BY LogFacts, PTL
    <2>2. QED
      BY <2>1, LogFacts
  <1>2. CASE NothingAppended
    <2>1. BaseLog' = BaseLog
      BY <1>2, SameLog DEF NothingAppended
    <2>2. DerivedKeys' = DerivedKeys /\ ForeignKeys' = ForeignKeys /\ cursor' = cursor
      BY <1>2 DEF NothingAppended, DerivedKeys, ForeignKeys, Derived, Foreign
    <2>3. QED
      BY <2>1, <2>2
  <1>3. CASE OthersAppended
    <2>1. PICK b \in Batches, items \in SUBSET Keys, new \in SUBSET Row :
            items # {} /\ Appended(b, items, new)
      BY <1>3 DEF OthersAppended
    <2>2. TypeOK /\ AnsweredIsCommitted /\ SeqsAreContiguous'
      BY DEF IInv, Progress, Tables
    <2>3. CASE batch[b].dataset = "base"
      BY <1>1, <1>3, <2>1, <2>2, <2>3, BaseAppendMaps DEF Promise!Next
    <2>4. CASE batch[b].dataset = "query"
      BY <1>3, <2>1, <2>2, <2>4, ForeignAppendMaps DEF Promise!Next
    <2>5. QED
      BY <2>2, <2>3, <2>4, BatchDataset DEF Datasets
  <1>4. CASE DerivationAppended
    BY <1>1, <1>4, DerivationMaps DEF Promise!Next, BaseLog
  <1>5. QED
    BY <1>2, <1>3, <1>4, StepShape

\* Through attempts, stale positions, repeated commits and clients that open
\* and commit whichever batches, the base dataset is a log and what is derived
\* is a prefix of it, each record once.
THEOREM DatasetsImplementDerivedLog == Spec => ImplementsDerivedLog
  <1>1. IInv /\ IInv' /\ [Next]_vars => [Promise!Next]_(Promise!vars)
    BY AppendStepMaps DEF Promise!vars, BaseLog, DerivedKeys, ForeignKeys
  <1>2. QED
    BY <1>1, InitLog, AppendInvariant, PTL DEF Spec, ImplementsDerivedLog, Promise!Spec

=============================================================================
