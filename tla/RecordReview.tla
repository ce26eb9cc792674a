---------------------------- MODULE RecordReview ----------------------------
(***************************************************************************)
(* From record drafts to published records: data.transform cleans the      *)
(* drafts, data.validate classifies the records against the dataset that   *)
(* they will be appended to, a person decides about each record at the     *)
(* gate human.review_records, and data.publish appends what was approved.  *)
(* Meanwhile other runs append to the dataset.                             *)
(*                                                                         *)
(* A call is the execution of one attempt of a node run, or one request    *)
(* that completes the gate.  A call that a check rejects, whose statement  *)
(* fails or whose process dies takes no further step.  How a batch is      *)
(* committed is in DatasetAppend.                                          *)
(***************************************************************************)
EXTENDS RecordCleaning, SequencesExt

CONSTANTS
    Count,       \* number of drafts
    DraftLists,  \* the lists of field bags that agents may have drafted
    Edits,       \* field bags a reviewer may enter
    OtherKeys,   \* item keys that other runs publish
    Reviewers,   \* requests that complete the gate
    MaxAttempt,  \* bound: a node run is not claimed more often than this
    MaxOthers    \* bound: other runs do not append more items than this

ReviewAssumption ==
    /\ Count \in Nat \ {0} /\ MaxAttempt \in Nat /\ MaxOthers \in Nat
    /\ \A list \in DraftLists : DOMAIN list = 1..Count

VARIABLES
    fence,      \* workflow_node_runs, as far as the services look at it
    draft,      \* the record drafts as the agents gave them, by ordinal
    tset,       \* transformed_record_sets with the records
    vset,       \* validation_result_sets with the results
    rows,       \* the dataset's items in the order of commit_seq: the item key
                \* and the ordinal of the record it comes from (0: another run's)
    gate,       \* status of the gate's node run
    conclusion, \* approved_record_sets with the decisions, or none
    call,       \* the execution of each attempt of each node run
    request     \* the requests that complete the gate

vars == <<fence, draft, tset, vset, rows, gate, conclusion, call, request>>

Ordinals == 1..Count
Steps == {"transform", "validate", "publish"}

Nodes == INSTANCE NodeFence WITH Nodes <- Steps

Empty == [i \in {} |-> {}]
NoDecisions == Empty

\* "begun": about to begin.  "read": the dataset's position is read.
\* "planned": the set is begun.  "saving": the results are computed.
CallPC == {"none", "begun", "read", "planned", "saving", "answered"}

\* through: commit_seq read from the dataset; plan: results not saved yet.
Idle == [pc |-> "none", through |-> 0, plan |-> Empty]

NoSet == [attempt |-> 0, status |-> "none", through |-> 0, result |-> Empty]

Init ==
    /\ Nodes!Init
    /\ draft \in DraftLists
    /\ tset = NoSet /\ vset = NoSet
    /\ rows = <<>>
    /\ gate = "waiting"
    /\ conclusion = NoDecisions
    /\ call = [c \in Steps \X (1..MaxAttempt) |-> Idle]
    /\ request = [r \in Reviewers |-> [pc |-> "idle", decisions |-> NoDecisions]]

At(n, k, pc) == call[<<n, k>>].pc = pc

-----------------------------------------------------------------------------
(* The node runs and the dataset *)

Ready(n) == CASE n = "transform" -> TRUE
              [] n = "validate" -> fence["transform"].phase = "final"
              [] n = "publish" -> gate = "succeeded"

Claim(n) ==
    /\ Ready(n)
    /\ Nodes!Claim(n)
    /\ call' = [call EXCEPT ![<<n, fence[n].attempt + 1>>].pc = "begun"]
    /\ UNCHANGED <<draft, tset, vset, rows, gate, conclusion, request>>

Lose(n) ==
    /\ Nodes!Lose(n)
    /\ UNCHANGED <<draft, tset, vset, rows, gate, conclusion, call, request>>

\* The executor answered and the worker completes the node.
Settle(n, k) ==
    /\ At(n, k, "answered")
    /\ Nodes!Live(n, k)
    /\ Nodes!Settle(n)
    /\ UNCHANGED <<draft, tset, vset, rows, gate, conclusion, call, request>>

Others == SelectSeq(rows, LAMBDA row : row.of = 0)

OthersAppend(key) ==
    /\ Len(Others) < MaxOthers
    /\ \A i \in DOMAIN rows : rows[i].key # key
    /\ rows' = Append(rows, [key |-> key, of |-> 0])
    /\ UNCHANGED <<fence, draft, tset, vset, gate, conclusion, call, request>>

-----------------------------------------------------------------------------
(* Both manifests *)

\* BeginTransformedRecordSet and BeginValidationResultSet: a set that has
\* succeeded stays as it is, and every attempt keeps the first position.
Begun(set, k, through) ==
    IF set.status = "none" THEN [NoSet EXCEPT !.attempt = k, !.status = "running", !.through = through]
    ELSE IF set.status = "succeeded" THEN set
    ELSE [set EXCEPT !.attempt = k]

Beginnable(n, k, set) == Nodes!Live(n, k) /\ set.attempt <= k

\* lockWritableTransformedRecordSet and lockWritableValidationResultSet
Writable(n, k, set) ==
    Nodes!Live(n, k) /\ set.attempt = k /\ set.status = "running"

\* The first of the results that are still to be saved.
NextOrdinal(plan) == CHOOSE i \in DOMAIN plan : \A j \in DOMAIN plan : i <= j

\* The row that is there after INSERT ... ON CONFLICT DO NOTHING.
RowAfter(set, i, result) ==
    IF i \in DOMAIN set.result THEN set.result[i] ELSE [result EXCEPT !.fields = Jsonb(@)]

\* It is read back and must be this result, numeral by numeral: a result with
\* a numeral that jsonb rewrites is refused by its own first save.
Savable(set, i, result) == RowAfter(set, i, result) = result

SavedIn(set, i, result) == [set EXCEPT !.result = With(@, i, result)]

\* The next result of the call's plan is saved, and after the last the set
\* is finished when it has a result for every record.
Save(n, k, set, next) ==
    LET plan == call[<<n, k>>].plan
        i == NextOrdinal(plan)
    IN  /\ At(n, k, "saving")
        /\ plan # Empty
        /\ Writable(n, k, set)
        /\ Savable(set, i, plan[i])
        /\ next = SavedIn(set, i, plan[i])
        /\ call' = [call EXCEPT ![<<n, k>>].plan = Without(plan, {i})]

Finish(n, k, set, next) ==
    /\ At(n, k, "saving")
    /\ call[<<n, k>>].plan = Empty
    /\ Writable(n, k, set)
    /\ DOMAIN set.result = Ordinals
    /\ next = [set EXCEPT !.status = "succeeded"]
    /\ call' = [call EXCEPT ![<<n, k>>].pc = "answered"]

-----------------------------------------------------------------------------
(* data.transform *)

\* The records that earlier attempts have saved are not computed again.  The
\* drafts are read from a jsonb column.
BeginTransform(k) ==
    LET set == Begun(tset, k, 0)
    IN  /\ At("transform", k, "begun")
        /\ Beginnable("transform", k, tset)
        /\ tset' = set
        /\ call' = [call EXCEPT
             ![<<"transform", k>>].pc = IF set.status = "succeeded" THEN "answered" ELSE "saving",
             ![<<"transform", k>>].plan = [i \in Ordinals \ DOMAIN set.result |-> TransformRecord(Jsonb(draft[i]))]]
        /\ UNCHANGED <<fence, draft, vset, rows, gate, conclusion, request>>

SaveTransformed(k) ==
    /\ Save("transform", k, tset, tset') \/ Finish("transform", k, tset, tset')
    /\ UNCHANGED <<fence, draft, vset, rows, gate, conclusion, request>>

-----------------------------------------------------------------------------
(* data.validate *)

\* GetAppendDataset: current_seq is read before the set is begun.
ReadDataset(k) ==
    /\ At("validate", k, "begun")
    /\ call' = [call EXCEPT ![<<"validate", k>>].pc = "read", ![<<"validate", k>>].through = Len(rows)]
    /\ UNCHANGED <<fence, draft, tset, vset, rows, gate, conclusion, request>>

BeginValidation(k) ==
    LET set == Begun(vset, k, call[<<"validate", k>>].through)
    IN  /\ At("validate", k, "read")
        /\ Beginnable("validate", k, vset)
        /\ vset' = set
        /\ call' = [call EXCEPT ![<<"validate", k>>].pc =
                      IF set.status = "succeeded" THEN "answered" ELSE "planned"]
        /\ UNCHANGED <<fence, draft, tset, rows, gate, conclusion, request>>

\* Mutant: the keys of the dataset as it is now.
KeysOfDataset(through) == {rows[i].key : i \in DOMAIN rows}

\* FindExistingDatasetItemKeys
ExistingKeys(through) == {rows[i].key : i \in {j \in DOMAIN rows : j <= through}}

\* The stored records.
Record(i) == tset.result[i]

\* The key of a record that has no error.
KeyOf(i) == IF "error" \in Severities(Record(i)) THEN NoKey ELSE ItemKey(Record(i).fields)

\* The status of record i when these keys are in the dataset.
Status(i, existing) ==
    LET key == KeyOf(i)
    IN  IF key = NoKey THEN "invalid"
        ELSE IF \E j \in Ordinals \ {i} : KeyOf(j) = key THEN "duplicate"
        ELSE IF key \in existing THEN "conflict"
        ELSE IF "warning" \in Severities(Record(i)) THEN "warning"
        ELSE "valid"

Result(i, existing) == [fields |-> Record(i).fields, key |-> KeyOf(i), status |-> Status(i, existing)]

\* Every attempt computes and saves all results.
PlanValidation(k) ==
    /\ At("validate", k, "planned")
    /\ LET existing == ExistingKeys(vset.through)
       IN  call' = [call EXCEPT ![<<"validate", k>>].pc = "saving",
                                ![<<"validate", k>>].plan = [i \in Ordinals |-> Result(i, existing)]]
    /\ UNCHANGED <<fence, draft, tset, vset, rows, gate, conclusion, request>>

SaveValidation(k) ==
    /\ Save("validate", k, vset, vset') \/ Finish("validate", k, vset, vset')
    /\ UNCHANGED <<fence, draft, tset, rows, gate, conclusion, request>>

-----------------------------------------------------------------------------
(* human.review_records *)

Await ==
    /\ gate = "waiting"
    /\ fence["validate"].phase = "final"
    /\ gate' = "awaiting"
    /\ UNCHANGED <<fence, draft, tset, vset, rows, conclusion, call, request>>

\* The run is cancelled.
Cancel ==
    /\ gate \in {"waiting", "awaiting"}
    /\ gate' = "cancelled"
    /\ UNCHANGED <<fence, draft, tset, vset, rows, conclusion, call, request>>

\* What may be decided about record i; only what is edited is checked.
Decisions(i) ==
    LET result == vset.result[i]
        Decision(action, fields, key) == [action |-> action, fields |-> fields, key |-> key]
    IN  {Decision("approve", result.fields, result.key), Decision("exclude", result.fields, NoKey)}
        \cup {Decision("edit", e, ItemKey(e)) : e \in {b \in Edits : Conforms(b) /\ ItemKey(b) # NoKey}}

\* Complete: a decision about every result, and one that publishes.
Decide(r) ==
    /\ request[r].pc = "idle"
    /\ gate = "awaiting"
    /\ vset.status = "succeeded"
    /\ \E d \in [Ordinals -> UNION {Decisions(i) : i \in Ordinals}] :
          /\ \A i \in Ordinals : d[i] \in Decisions(i)
          /\ \E i \in Ordinals : d[i].action # "exclude"
          /\ request' = [request EXCEPT ![r] = [pc |-> "decided", decisions |-> d]]
    /\ UNCHANGED <<fence, draft, tset, vset, rows, gate, conclusion, call>>

\* Mutant: the hash of the stored conclusion is not compared.
ConcludableAnyway(r) == conclusion # NoDecisions \/ gate = "awaiting"

\* The review hash covers all decisions.
Concludable(r) ==
    IF conclusion # NoDecisions THEN conclusion = request[r].decisions ELSE gate = "awaiting"

\* CreateApprovedRecordSet: the first conclusion is kept.
Conclude(r) ==
    /\ request[r].pc = "decided"
    /\ Concludable(r)
    /\ conclusion' = IF conclusion # NoDecisions THEN conclusion ELSE request[r].decisions
    /\ request' = [request EXCEPT ![r].pc = "concluded"]
    /\ UNCHANGED <<fence, draft, tset, vset, rows, gate, call>>

\* CompleteWorkflowNodeManual, which answers the request.
CompleteGate(r) ==
    /\ request[r].pc = "concluded"
    /\ gate = "awaiting"
    /\ gate' = "succeeded"
    /\ request' = [request EXCEPT ![r].pc = "answered"]
    /\ UNCHANGED <<fence, draft, tset, vset, rows, conclusion, call>>

-----------------------------------------------------------------------------
(* data.publish *)

\* The fields as they are stored, and their identity.
Stored(i) == Jsonb(conclusion[i].fields)
StoredKey(i) == ItemKey(Stored(i))

ToPublish == {i \in Ordinals : conclusion[i].action # "exclude"}

\* Mutant: the identity is not compared.
PublishableAnyKey(i) == Conforms(Stored(i)) /\ StoredKey(i) # NoKey

\* The fields conform, and item key and fingerprint are those approved.
Publishable(i) ==
    /\ Conforms(Stored(i))
    /\ StoredKey(i) # NoKey
    /\ StoredKey(i) = conclusion[i].key
    /\ Stored(i) = conclusion[i].fields

Published == \E n \in DOMAIN rows : rows[n].of # 0

\* PublishApprovedRecords with the commit of the batch, which refuses keys
\* that are in the dataset or twice in the batch; once is enough.  The items
\* are numbered in the order of their hashes, which is left open.
Publish(k) ==
    /\ At("publish", k, "begun")
    /\ Nodes!Live("publish", k)
    /\ \A i \in ToPublish : Publishable(i)
    /\ \/ Published /\ rows' = rows
       \/ /\ ~ Published
          /\ \A i \in ToPublish : \A n \in DOMAIN rows : rows[n].key # StoredKey(i)
          /\ \A i, j \in ToPublish : StoredKey(i) = StoredKey(j) => i = j
          /\ \E order \in SetToSeqs(ToPublish) :
                rows' = rows \o [n \in DOMAIN order |-> [key |-> StoredKey(order[n]), of |-> order[n]]]
    /\ call' = [call EXCEPT ![<<"publish", k>>].pc = "answered"]
    /\ UNCHANGED <<fence, draft, tset, vset, gate, conclusion, request>>

Next ==
    \/ \E n \in Steps : Claim(n) \/ Lose(n)
    \/ \E n \in Steps, k \in 1..MaxAttempt : Settle(n, k)
    \/ \E key \in OtherKeys : OthersAppend(key)
    \/ \E k \in 1..MaxAttempt :
          \/ BeginTransform(k) \/ SaveTransformed(k)
          \/ ReadDataset(k) \/ BeginValidation(k) \/ PlanValidation(k) \/ SaveValidation(k)
          \/ Publish(k)
    \/ Await \/ Cancel
    \/ \E r \in Reviewers : Decide(r) \/ Conclude(r) \/ CompleteGate(r)

Spec == Init /\ [][Next]_vars

-----------------------------------------------------------------------------
(* Properties *)

\* However the dataset grows between the attempts of a validation, a saved
\* result is what an attempt computes now: the classification is about the
\* position that the first attempt fixed, so no later attempt is refused for
\* "changing" an immutable result and the set can always be completed.
SavedResultsAreReproducible ==
    \A i \in DOMAIN vset.result : vset.result[i] = Result(i, ExistingKeys(vset.through))

\* A record that could not be converted, breaks the schema, or breaks a rule
\* of severity "error" reaches the dataset only if the reviewer has entered
\* other fields for it: the gate accepts the approval of such a record, and
\* what stops it is the identity that publication recomputes.
UnsoundNeverPublished ==
    \A n \in DOMAIN rows : rows[n].of # 0 =>
        LET i == rows[n].of
        IN  \/ conclusion[i].action = "edit"
            \/ conclusion[i].action = "approve" /\ "error" \notin Severities(Record(i))

\* Two requests that complete the gate, with the same or with different
\* decisions, in any order and with the process dying after either
\* transaction: the one that is told it has completed the gate sees its own
\* decisions stored, and they are what is published.
AnswersAgree ==
    \A r \in Reviewers :
        request[r].pc \in {"concluded", "answered"} => conclusion = request[r].decisions

\* What the node runs before it have produced is not changed any more when
\* a later node or a person has used it.
KeepsReviewedData ==
    /\ tset.status = "succeeded" => tset' = tset
    /\ vset.status = "succeeded" => vset' = vset
    /\ conclusion # NoDecisions => conclusion' = conclusion

ReviewedDataIsFrozen == [][KeepsReviewedData]_vars

=============================================================================
