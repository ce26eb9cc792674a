------------------------- MODULE RecordReviewProofs -------------------------
(***************************************************************************)
(* Proofs about RecordReview for every schema, every list of rules, any    *)
(* number of drafts, reviewers and attempts, and however other runs append *)
(* to the dataset: what a validation has saved is what it would compute    *)
(* again, who completes the gate sees its own decisions stored, and what   *)
(* is published is what was approved, sound and new in the dataset.        *)
(*                                                                         *)
(* Field bags and keys are any values, so ShapeOK says of sets, calls and  *)
(* rows only which fields they have; what TransformRecord and Severities   *)
(* compute is not looked into.                                             *)
(***************************************************************************)
EXTENDS RecordReview, FiniteSetTheorems, SequenceTheorems, WellFoundedInduction, TLAPS

-----------------------------------------------------------------------------
(* The inductive invariant                                                 *)

\* A manifest: some records or results by their ordinals.
IsSet(set) ==
    /\ set = [attempt |-> set.attempt, status |-> set.status,
              through |-> set.through, result |-> set.result]
    /\ set.status \in {"none", "running", "succeeded"}
    /\ set.through \in Nat
    /\ set.result = [i \in DOMAIN set.result |-> set.result[i]]
    /\ DOMAIN set.result \subseteq Ordinals

IsCall(c) ==
    /\ c = [pc |-> c.pc, through |-> c.through, plan |-> c.plan]
    /\ c.pc \in CallPC
    /\ c.through \in Nat
    /\ c.plan = [i \in DOMAIN c.plan |-> c.plan[i]]
    /\ DOMAIN c.plan \subseteq Ordinals

IsRequest(q) ==
    /\ q = [pc |-> q.pc, decisions |-> q.decisions]
    /\ q.pc \in {"idle", "decided", "concluded", "answered"}

IsRow(row) == row = [key |-> row.key, of |-> row.of] /\ row.of \in 0..Count

\* s is a sequence.
IsSeq(s) == s \in Seq({s[n] : n \in DOMAIN s})

Executions == Steps \X (1..MaxAttempt)

ShapeOK ==
    /\ fence \in [Steps -> Nodes!Fence]
    /\ IsSet(tset) /\ IsSet(vset)
    /\ IsSeq(rows) /\ \A n \in DOMAIN rows : IsRow(rows[n])
    /\ gate \in {"waiting", "awaiting", "succeeded", "cancelled"}
    /\ call = [c \in Executions |-> call[c]] /\ \A c \in Executions : IsCall(call[c])
    /\ request = [r \in Reviewers |-> request[r]] /\ \A r \in Reviewers : IsRequest(request[r])

\* Nothing looks at the records before there is one of every draft.
TransformComesFirst ==
    /\ tset.status = "succeeded" => DOMAIN tset.result = Ordinals
    /\ \A k \in 1..MaxAttempt : At("transform", k, "answered") => tset.status = "succeeded"
    /\ fence["transform"].phase = "final" => tset.status = "succeeded"
    /\ \A k \in 1..MaxAttempt : ~ At("validate", k, "none") => fence["transform"].phase = "final"
    /\ vset.status # "none" => fence["transform"].phase = "final"

\* The results of a validation for the position that the set keeps.
Expected(i) == Result(i, ExistingKeys(vset.through))

\* Every execution that has seen the set computes for the set's position.
ValidationsAgree ==
    /\ vset.through <= Len(rows)
    /\ vset.status = "none" => DOMAIN vset.result = {}
    /\ \A k \in 1..MaxAttempt :
          /\ call[<<"validate", k>>].through <= Len(rows)
          /\ call[<<"validate", k>>].pc \in {"planned", "saving", "answered"} => vset.status # "none"
          /\ At("validate", k, "saving") =>
                \A i \in DOMAIN call[<<"validate", k>>].plan :
                    call[<<"validate", k>>].plan[i] = Expected(i)
    /\ SavedResultsAreReproducible

\* A person looks at a whole set of results.
ValidationComesFirst ==
    /\ vset.status = "succeeded" => DOMAIN vset.result = Ordinals
    /\ \A k \in 1..MaxAttempt : At("validate", k, "answered") => vset.status = "succeeded"
    /\ fence["validate"].phase = "final" => vset.status = "succeeded"
    /\ gate \in {"awaiting", "succeeded"} => fence["validate"].phase = "final"

\* d decides about every result.
IsReview(d) ==
    /\ vset.status = "succeeded"
    /\ d \in [Ordinals -> UNION {Decisions(i) : i \in Ordinals}]
    /\ \A i \in Ordinals : d[i] \in Decisions(i)

\* There is a conclusion before the gate is passed, and requests that are
\* told so have made it.
GateIsConcluded ==
    /\ conclusion # NoDecisions => IsReview(conclusion)
    /\ \A r \in Reviewers : request[r].pc # "idle" => IsReview(request[r].decisions)
    /\ AnswersAgree
    /\ gate = "succeeded" => conclusion # NoDecisions
    /\ \A k \in 1..MaxAttempt : ~ At("publish", k, "none") => gate = "succeeded"

\* The row of an approved or edited record, behind the validated position.
RowIsApproved(n) ==
    /\ conclusion # NoDecisions
    /\ rows[n].of \in ToPublish
    /\ Publishable(rows[n].of)
    /\ rows[n].key = StoredKey(rows[n].of)
    /\ n > vset.through

\* The keys in the dataset are unique.
KeysAreUnique == \A m, n \in DOMAIN rows : rows[m].key = rows[n].key => m = n

PublishedAsConcluded ==
    /\ \A n \in DOMAIN rows : rows[n].of # 0 => RowIsApproved(n)
    /\ Published => \A i \in ToPublish : \E n \in DOMAIN rows : rows[n].of = i
    /\ KeysAreUnique

IInv ==
    /\ ShapeOK
    /\ TransformComesFirst
    /\ ValidationsAgree
    /\ ValidationComesFirst
    /\ GateIsConcluded
    /\ PublishedAsConcluded

-----------------------------------------------------------------------------
(* Sequences of rows                                                       *)

\* A sequence over some set is one over the set of its values.
LEMMA SeqOfItsValues ==
    ASSUME NEW S, NEW s \in Seq(S)
    PROVE  IsSeq(s) /\ Len(s) \in Nat /\ DOMAIN s = 1..Len(s)
  <1> DEFINE T == {s[n] : n \in DOMAIN s}
  <1>1. Len(s) \in Nat /\ DOMAIN s = 1..Len(s) /\ s = [n \in 1..Len(s) |-> s[n]]
    OBVIOUS
  <1>2. s \in [1..Len(s) -> T]
    BY <1>1
  <1>3. s \in Seq(T)
    BY <1>1, <1>2, SeqDef
  <1>4. QED
    BY <1>1, <1>3 DEF IsSeq

\* What appending to a sequence keeps and adds.
LEMMA ConcatFacts ==
    ASSUME NEW s, NEW t, IsSeq(s), IsSeq(t)
    PROVE  /\ IsSeq(s \o t)
           /\ Len(s) \in Nat /\ DOMAIN s = 1..Len(s)
           /\ Len(t) \in Nat /\ DOMAIN t = 1..Len(t)
           /\ Len(s \o t) = Len(s) + Len(t) /\ DOMAIN (s \o t) = 1..(Len(s) + Len(t))
           /\ \A n \in 1..Len(s) : (s \o t)[n] = s[n]
           /\ \A n \in 1..Len(t) : (s \o t)[Len(s) + n] = t[n]
  <1> DEFINE S == {s[n] : n \in DOMAIN s} \cup {t[n] : n \in DOMAIN t}
  <1>1. s \in Seq(S) /\ t \in Seq(S)
    BY SeqMonotonic DEF IsSeq
  <1> HIDE DEF S
  <1>2. s \o t \in Seq(S)
    BY <1>1
  <1>3. IsSeq(s \o t) /\ DOMAIN (s \o t) = 1..Len(s \o t)
    BY <1>2, SeqOfItsValues
  <1>4. /\ Len(s \o t) = Len(s) + Len(t)
        /\ Len(s) \in Nat /\ DOMAIN s = 1..Len(s)
        /\ Len(t) \in Nat /\ DOMAIN t = 1..Len(t)
    BY <1>1
  <1>5. \A n \in 1..Len(s) : (s \o t)[n] = s[n]
    BY <1>1, <1>4
  <1>6. ASSUME NEW n \in 1..Len(t) PROVE (s \o t)[Len(s) + n] = t[n]
    BY <1>1, <1>4
  <1>7. QED
    BY <1>3, <1>4, <1>5, <1>6

\* A single row is a sequence.
LEMMA SingleFacts ==
    ASSUME NEW x, NEW s, IsSeq(s)
    PROVE  IsSeq(<<x>>) /\ Len(<<x>>) = 1 /\ <<x>>[1] = x /\ Append(s, x) = s \o <<x>>
  <1> DEFINE S == {s[n] : n \in DOMAIN s} \cup {x}
  <1>1. s \in Seq(S)
    BY SeqMonotonic DEF IsSeq
  <1>2. <<x>> \in Seq({x})
    OBVIOUS
  <1>3. IsSeq(<<x>>) /\ Len(<<x>>) = 1 /\ <<x>>[1] = x
    BY <1>2, SeqOfItsValues
  <1>4. x \in S
    OBVIOUS
  <1> HIDE DEF S
  <1>5. Append(s, x) = s \o <<x>>
    BY <1>1, <1>4, AppendIsConcat
  <1>6. QED
    BY <1>3, <1>5

\* The rows of a function on 1..m are a sequence.
LEMMA RowsOfFunction ==
    ASSUME NEW m \in Nat, NEW f, f = [n \in 1..m |-> f[n]]
    PROVE  IsSeq(f) /\ Len(f) = m /\ DOMAIN f = 1..m
  <1> DEFINE T == {f[n] : n \in 1..m}
  <1>1. f \in [1..m -> T]
    OBVIOUS
  <1>2. f \in Seq(T) /\ DOMAIN f = 1..m
    BY <1>1, SeqDef
  <1> HIDE DEF T
  <1>3. IsSeq(f) /\ Len(f) \in Nat /\ 1..Len(f) = 1..m
    BY <1>2, SeqOfItsValues
  <1>4. Len(f) = m
    BY <1>3
  <1>5. QED
    BY <1>2, <1>3, <1>4

-----------------------------------------------------------------------------
(* What stays: rows, results, decisions                                    *)

\* The step keeps every row.
RowsGrow ==
    /\ Len(rows) \in Nat /\ DOMAIN rows = 1..Len(rows)
    /\ Len(rows') \in Nat /\ DOMAIN rows' = 1..Len(rows')
    /\ Len(rows) <= Len(rows')
    /\ \A n \in DOMAIN rows : rows'[n] = rows[n]

\* Rows that do not change are kept.
LEMMA UnchangedRowsGrow ==
    ASSUME IsSeq(rows), rows' = rows
    PROVE  RowsGrow
  BY SeqOfItsValues DEF RowsGrow, IsSeq

\* Appending keeps every row.
LEMMA AppendedRowsGrow ==
    ASSUME IsSeq(rows), NEW added, IsSeq(added), rows' = rows \o added
    PROVE  RowsGrow
  BY ConcatFacts DEF RowsGrow

\* The keys at a position that the dataset has reached stay what they are.
LEMMA ExistingKeysStay ==
    ASSUME RowsGrow, NEW through \in Nat, through <= Len(rows)
    PROVE  {rows'[i].key : i \in {j \in DOMAIN rows' : j <= through}} = ExistingKeys(through)
  <1>1. {j \in DOMAIN rows' : j <= through} = {j \in DOMAIN rows : j <= through}
    BY DEF RowsGrow
  <1>2. QED
    BY <1>1 DEF RowsGrow, ExistingKeys

\* What an execution of the validation computes for one record is a function
\* of the records and of the position.
LEMMA ExpectedStays ==
    ASSUME RowsGrow, tset' = tset, vset'.through = vset.through,
           vset.through \in Nat, vset.through <= Len(rows)
    PROVE  \A i : Expected(i)' = Expected(i)
  <1>1. \A i : Record(i)' = Record(i)
    BY DEF Record
  <1>2. \A i : KeyOf(i)' = KeyOf(i)
    BY <1>1 DEF KeyOf
  <1>3. ExistingKeys(vset.through)' = ExistingKeys(vset.through)
    BY ExistingKeysStay DEF ExistingKeys
  <1> DEFINE existing == ExistingKeys(vset.through)
  <1> HIDE DEF existing
  <1>4. existing' = existing
    BY <1>3 DEF existing
  <1>5. \A i : Status(i, existing)' = Status(i, existing)
    BY <1>1, <1>2, <1>4 DEF Status
  <1>6. \A i : Result(i, existing)' = Result(i, existing)
    BY <1>1, <1>2, <1>5 DEF Result
  <1>7. QED
    BY <1>6 DEF Expected, existing

\* Decisions are about the results that a finished validation keeps.
LEMMA ReviewStays ==
    ASSUME vset.status = "succeeded" => vset' = vset, NEW d, IsReview(d)
    PROVE  IsReview(d)'
  <1>1. vset' = vset
    BY DEF IsReview
  <1>2. \A i : Decisions(i)' = Decisions(i)
    BY <1>1 DEF Decisions
  <1>3. QED
    BY <1>1, <1>2 DEF IsReview

-----------------------------------------------------------------------------
(* What the steps do to fence and call                                     *)

\* A claim begins an attempt within the bound and makes nothing final.
LEMMA ClaimFacts ==
    ASSUME ReviewAssumption, ShapeOK, NEW n \in Steps, Nodes!Claim(n)
    PROVE  /\ fence' \in [Steps -> Nodes!Fence]
           /\ fence[n].attempt + 1 \in 1..MaxAttempt
           /\ \A m \in Steps : fence'[m].phase = "final" <=> fence[m].phase = "final"
  BY DEF ReviewAssumption, ShapeOK, Nodes!Claim, Nodes!Fence

\* A lost attempt makes nothing final.
LEMMA LoseFacts ==
    ASSUME ShapeOK, NEW n \in Steps, Nodes!Lose(n)
    PROVE  /\ fence' \in [Steps -> Nodes!Fence]
           /\ \A m \in Steps : fence'[m].phase = "final" <=> fence[m].phase = "final"
  BY DEF ShapeOK, Nodes!Lose, Nodes!Fence

\* Settling makes this node final and leaves the others alone.
LEMMA SettleFacts ==
    ASSUME ShapeOK, NEW n \in Steps, Nodes!Settle(n)
    PROVE  /\ fence' \in [Steps -> Nodes!Fence]
           /\ fence'[n].phase = "final"
           /\ \A m \in Steps \ {n} : fence'[m] = fence[m]
  BY DEF ShapeOK, Nodes!Settle, Nodes!Fence

\* The execution of attempt k of n goes on to pc; the others stay.
CallMoves(n, k, pc, through, plan) ==
    /\ call' = [c \in Executions |-> call'[c]]
    /\ \A c \in Executions : IsCall(call'[c])
    /\ call'[<<n, k>>].pc = pc /\ call'[<<n, k>>].through = through
    /\ call'[<<n, k>>].plan = plan
    /\ \A m \in Steps, j \in 1..MaxAttempt :
          m # n \/ j # k => call'[<<m, j>>] = call[<<m, j>>]

\* What writing one execution does.
LEMMA SetCall ==
    ASSUME ShapeOK, NEW n \in Steps, NEW k \in 1..MaxAttempt,
           NEW pc \in CallPC, NEW through \in Nat,
           NEW plan, plan = [i \in DOMAIN plan |-> plan[i]], DOMAIN plan \subseteq Ordinals,
           call' = [call EXCEPT ![<<n, k>>] = [pc |-> pc, through |-> through, plan |-> plan]]
    PROVE  CallMoves(n, k, pc, through, plan)
  <1> DEFINE new == [pc |-> pc, through |-> through, plan |-> plan]
  <1>1. IsCall(new)
    BY DEF IsCall
  <1>2. <<n, k>> \in Executions /\ DOMAIN call = Executions
    BY DEF Executions, ShapeOK
  <1>3. /\ call' = [c \in Executions |-> call'[c]]
        /\ call'[<<n, k>>] = new
        /\ \A c \in Executions : c # <<n, k>> => call'[c] = call[c]
    BY <1>2
  <1>4. \A c \in Executions : IsCall(call'[c])
    <2> SUFFICES ASSUME NEW c \in Executions PROVE IsCall(call'[c])
      OBVIOUS
    <2>1. CASE c = <<n, k>>
      BY <1>1, <1>3, <2>1
    <2>2. CASE c # <<n, k>>
      BY <1>3, <2>2 DEF ShapeOK
    <2>3. QED
      BY <2>1, <2>2
  <1>5. \A m \in Steps, j \in 1..MaxAttempt :
           m # n \/ j # k => call'[<<m, j>>] = call[<<m, j>>]
    BY <1>3 DEF Executions
  <1>6. QED
    BY <1>3, <1>4, <1>5 DEF CallMoves

\* Only the program counter changes.
LEMMA SetPC ==
    ASSUME ShapeOK, NEW n \in Steps, NEW k \in 1..MaxAttempt, NEW pc \in CallPC,
           call' = [call EXCEPT ![<<n, k>>].pc = pc]
    PROVE  CallMoves(n, k, pc, call[<<n, k>>].through, call[<<n, k>>].plan)
  <1> DEFINE c == call[<<n, k>>]
  <1>1. IsCall(c)
    BY DEF ShapeOK, Executions
  <1>2. [c EXCEPT !.pc = pc] = [pc |-> pc, through |-> c.through, plan |-> c.plan]
    BY <1>1 DEF IsCall
  <1>3. call' = [call EXCEPT ![<<n, k>>] = [pc |-> pc, through |-> c.through, plan |-> c.plan]]
    BY <1>2
  <1>4. c.through \in Nat /\ c.plan = [i \in DOMAIN c.plan |-> c.plan[i]] /\ DOMAIN c.plan \subseteq Ordinals
    BY <1>1 DEF IsCall
  <1> HIDE DEF c
  <1>5. CallMoves(n, k, pc, c.through, c.plan)
    BY <1>3, <1>4, SetCall
  <1>6. QED
    BY <1>5 DEF c

\* The program counter and the plan change.
LEMMA SetPlan ==
    ASSUME ShapeOK, NEW n \in Steps, NEW k \in 1..MaxAttempt, NEW pc \in CallPC,
           NEW plan, plan = [i \in DOMAIN plan |-> plan[i]], DOMAIN plan \subseteq Ordinals,
           call' = [call EXCEPT ![<<n, k>>].pc = pc, ![<<n, k>>].plan = plan]
    PROVE  CallMoves(n, k, pc, call[<<n, k>>].through, plan)
  <1> DEFINE c == call[<<n, k>>]
  <1>1. IsCall(c) /\ <<n, k>> \in DOMAIN call
    BY DEF ShapeOK, Executions
  <1>2. [c EXCEPT !.pc = pc, !.plan = plan] = [pc |-> pc, through |-> c.through, plan |-> plan]
    <2> DEFINE Typed == [pc : CallPC, through : Nat, plan : {c.plan, plan}]
    <2>1. PICK new : new = [c EXCEPT !.pc = pc, !.plan = plan]
      OBVIOUS
    <2>2. c \in Typed
      BY <1>1 DEF IsCall
    <2>3. new \in Typed /\ new.pc = pc /\ new.through = c.through /\ new.plan = plan
      BY <2>1, <2>2
    <2>4. new = [pc |-> pc, through |-> c.through, plan |-> plan]
      BY <2>3
    <2>5. QED
      BY <2>1, <2>4
  <1>3. call' = [call EXCEPT ![<<n, k>>] = [c EXCEPT !.pc = pc, !.plan = plan]]
    BY <1>1
  <1>4. c.through \in Nat
    BY <1>1 DEF IsCall
  <1>5. call' = [call EXCEPT ![<<n, k>>] = [pc |-> pc, through |-> c.through, plan |-> plan]]
    BY <1>2, <1>3
  <1> HIDE DEF c
  <1>6. CallMoves(n, k, pc, c.through, plan)
    BY <1>4, <1>5, SetCall
  <1>7. QED
    BY <1>6 DEF c

-----------------------------------------------------------------------------
(* The parts of the invariant under steps that leave them alone            *)

\* Records are not needed before they are final, and final they stay.
LEMMA TransformFrame ==
    ASSUME TransformComesFirst,
           tset.status = "succeeded" => tset'.status = "succeeded",
           tset'.status = "succeeded" => DOMAIN tset'.result = Ordinals,
           fence["transform"].phase = "final" => fence'["transform"].phase = "final",
           fence'["transform"].phase = "final" => tset'.status = "succeeded",
           \A k \in 1..MaxAttempt : call'[<<"transform", k>>].pc = "answered" =>
              At("transform", k, "answered") \/ tset'.status = "succeeded",
           \A k \in 1..MaxAttempt : call'[<<"validate", k>>].pc # "none" =>
              ~ At("validate", k, "none") \/ fence["transform"].phase = "final",
           vset'.status # "none" => vset.status # "none" \/ fence["transform"].phase = "final"
    PROVE  TransformComesFirst'
  BY DEF TransformComesFirst, At

\* Validations agree whatever else is written, the records included as long
\* as they are not final.
LEMMA ValidationsFrame ==
    ASSUME ShapeOK, TransformComesFirst, ValidationsAgree, RowsGrow, vset' = vset,
           \A k \in 1..MaxAttempt : call'[<<"validate", k>>] = call[<<"validate", k>>],
           fence["transform"].phase = "final" => tset' = tset
    PROVE  ValidationsAgree'
  <1>1. vset.through \in Nat /\ vset.through <= Len(rows) /\ Len(rows) <= Len(rows')
        /\ Len(rows) \in Nat /\ Len(rows') \in Nat
    BY DEF ShapeOK, IsSet, ValidationsAgree, RowsGrow
  <1>2. \A k \in 1..MaxAttempt : call[<<"validate", k>>].through \in Nat
    BY DEF ShapeOK, IsCall, Executions, Steps
  <1>3. /\ vset'.through <= Len(rows')
        /\ vset'.status = "none" => DOMAIN vset'.result = {}
        /\ \A k \in 1..MaxAttempt :
              /\ call'[<<"validate", k>>].through <= Len(rows')
              /\ call'[<<"validate", k>>].pc \in {"planned", "saving", "answered"} => vset'.status # "none"
    BY <1>1, <1>2 DEF ValidationsAgree
  <1>4. CASE tset' = tset
    <2>1. \A i : Expected(i)' = Expected(i)
      BY <1>1, <1>4, ExpectedStays
    <2>2. ASSUME NEW k \in 1..MaxAttempt, call'[<<"validate", k>>].pc = "saving",
                 NEW i \in DOMAIN call'[<<"validate", k>>].plan
          PROVE  call'[<<"validate", k>>].plan[i] = Expected(i)'
      BY <2>1, <2>2 DEF ValidationsAgree, At
    <2>3. ASSUME NEW i \in DOMAIN vset'.result
          PROVE  vset'.result[i] = Expected(i)'
      BY <2>1 DEF ValidationsAgree, SavedResultsAreReproducible, Expected
    <2>4. QED
      BY <1>3, <2>2, <2>3 DEF ValidationsAgree, SavedResultsAreReproducible, Expected, At
  <1>5. CASE tset' # tset
    <2>1. vset.status = "none" /\ \A k \in 1..MaxAttempt : call[<<"validate", k>>].pc = "none"
      BY <1>5 DEF TransformComesFirst, At
    <2>2. DOMAIN vset.result = {}
      BY <2>1 DEF ValidationsAgree
    <2>3. \A k \in 1..MaxAttempt : call'[<<"validate", k>>].pc # "saving"
      BY <2>1
    <2>4. DOMAIN vset'.result = {}
      BY <2>2
    <2>5. QED
      BY <1>3, <2>3, <2>4 DEF ValidationsAgree, SavedResultsAreReproducible, At
  <1>6. QED
    BY <1>4, <1>5

\* Results are complete when somebody looks at them, and complete they stay.
LEMMA ValidationFirstFrame ==
    ASSUME ValidationComesFirst,
           vset.status = "succeeded" => vset'.status = "succeeded",
           vset'.status = "succeeded" => DOMAIN vset'.result = Ordinals,
           \A k \in 1..MaxAttempt : call'[<<"validate", k>>].pc = "answered" =>
              At("validate", k, "answered") \/ vset'.status = "succeeded",
           fence["validate"].phase = "final" => fence'["validate"].phase = "final",
           fence'["validate"].phase = "final" =>
              fence["validate"].phase = "final" \/ vset'.status = "succeeded",
           gate' \in {"awaiting", "succeeded"} =>
              gate \in {"awaiting", "succeeded"} \/ fence["validate"].phase = "final"
    PROVE  ValidationComesFirst'
  BY DEF ValidationComesFirst, At

\* Decisions stay good, because they are about a finished validation.
LEMMA GateFrame ==
    ASSUME GateIsConcluded, UNCHANGED <<conclusion, request>>,
           vset.status = "succeeded" => vset' = vset,
           gate' = "succeeded" => gate = "succeeded",
           gate = "succeeded" => gate' = "succeeded",
           \A k \in 1..MaxAttempt : call'[<<"publish", k>>].pc # "none" =>
              ~ At("publish", k, "none") \/ gate = "succeeded"
    PROVE  GateIsConcluded'
  <1>1. conclusion' # NoDecisions => IsReview(conclusion)'
    <2>1. ASSUME conclusion # NoDecisions PROVE IsReview(conclusion)'
      <3>1. PICK d : d = conclusion
        OBVIOUS
      <3>2. IsReview(d)
        BY <2>1, <3>1 DEF GateIsConcluded
      <3>3. IsReview(d)'
        BY <3>2, ReviewStays
      <3>4. QED
        BY <3>1, <3>3 DEF IsReview
    <2>2. QED
      BY <2>1 DEF NoDecisions, Empty
  <1>2. ASSUME NEW r \in Reviewers, request'[r].pc # "idle" PROVE IsReview(request[r].decisions)'
    <2>1. PICK d : d = request[r].decisions
      OBVIOUS
    <2>2. IsReview(d)
      BY <1>2, <2>1 DEF GateIsConcluded
    <2>3. IsReview(d)'
      BY <2>2, ReviewStays
    <2>4. QED
      BY <2>1, <2>3 DEF IsReview
  <1>3. AnswersAgree'
    BY DEF GateIsConcluded, AnswersAgree
  <1>4. QED
    BY <1>1, <1>2, <1>3 DEF GateIsConcluded, At, NoDecisions, Empty

\* Before there is a conclusion nothing has been published.
LEMMA NothingPublished ==
    ASSUME PublishedAsConcluded, conclusion = NoDecisions
    PROVE  \A n \in DOMAIN rows : rows[n].of = 0
  BY DEF PublishedAsConcluded, RowIsApproved

\* Without new rows, what is published stays as concluded, unless there is
\* no conclusion yet and so nothing published.
LEMMA PublishedFrame ==
    ASSUME PublishedAsConcluded, rows' = rows,
           conclusion = NoDecisions
              \/ (conclusion' = conclusion /\ vset'.through = vset.through)
    PROVE  PublishedAsConcluded'
  <1>1. CASE conclusion = NoDecisions
    <2>1. \A n \in DOMAIN rows' : rows'[n].of = 0
      BY <1>1, NothingPublished
    <2>2. QED
      BY <2>1 DEF PublishedAsConcluded, Published, KeysAreUnique
  <1>2. CASE conclusion' = conclusion /\ vset'.through = vset.through
    <2>1. ToPublish' = ToPublish
      BY <1>2 DEF ToPublish
    <2>2. \A i : StoredKey(i)' = StoredKey(i) /\ Stored(i)' = Stored(i)
      BY <1>2 DEF StoredKey, Stored
    <2>3. \A i : Publishable(i)' <=> Publishable(i)
      BY <1>2, <2>2 DEF Publishable
    <2>4. QED
      BY <1>2, <2>1, <2>2, <2>3
         DEF PublishedAsConcluded, RowIsApproved, Published, KeysAreUnique, NoDecisions, Empty
  <1>3. QED
    BY <1>1, <1>2

-----------------------------------------------------------------------------
(* Node runs and other runs                                                *)

\* What the parts of the invariant need to know of the rows and sets that a
\* step leaves alone.
LEMMA Unwritten ==
    ASSUME IInv, UNCHANGED <<tset, vset, rows, conclusion, request>>
    PROVE  RowsGrow /\ IsSeq(rows)' /\ PublishedAsConcluded'
  BY UnchangedRowsGrow, PublishedFrame DEF IInv, ShapeOK, IsSeq

\* A claim may start an execution again that has seen the set: it forgets
\* what it planned.
LEMMA ClaimStep ==
    ASSUME ReviewAssumption, IInv, NEW n \in Steps, Claim(n)
    PROVE  IInv'
  <1> DEFINE k == fence[n].attempt + 1
  <1>1. /\ k \in 1..MaxAttempt /\ fence' \in [Steps -> Nodes!Fence]
        /\ \A m \in Steps : fence'[m].phase = "final" <=> fence[m].phase = "final"
        /\ Ready(n) /\ call' = [call EXCEPT ![<<n, k>>].pc = "begun"]
        /\ UNCHANGED <<draft, tset, vset, rows, gate, conclusion, request>>
    BY ClaimFacts DEF IInv, Claim
  <1> HIDE DEF k
  <1>2. CallMoves(n, k, "begun", call[<<n, k>>].through, call[<<n, k>>].plan)
    BY <1>1, SetPC DEF IInv, CallPC
  <1>3. RowsGrow /\ IsSeq(rows)' /\ PublishedAsConcluded'
    BY <1>1, Unwritten
  <1>4. /\ n = "validate" => fence["transform"].phase = "final"
        /\ n = "publish" => gate = "succeeded"
    BY <1>1 DEF Ready
  <1>5. \A m \in Steps, j \in 1..MaxAttempt :
           call'[<<m, j>>] = call[<<m, j>>] \/ (m = n /\ j = k /\ call'[<<m, j>>].pc = "begun")
    BY <1>2 DEF CallMoves
  <1>6. ShapeOK'
    BY <1>1, <1>2, <1>3 DEF IInv, ShapeOK, CallMoves
  <1>7. TransformComesFirst'
    BY <1>1, <1>4, <1>5, TransformFrame DEF IInv, TransformComesFirst, Steps, At
  <1>8. ValidationsAgree'
    <2>1. CASE n # "validate"
      BY <1>1, <1>2, <1>3, <2>1, ValidationsFrame DEF IInv, CallMoves, Steps
    <2>2. CASE n = "validate"
      <3>1. vset.through \in Nat /\ vset.through <= Len(rows)
        BY DEF IInv, ShapeOK, IsSet, ValidationsAgree
      <3>2. \A i : Expected(i)' = Expected(i)
        BY <1>1, <1>3, <3>1, ExpectedStays
      <3>3. \A j \in 1..MaxAttempt : call'[<<"validate", j>>].through = call[<<"validate", j>>].through
        BY <1>2, <2>2 DEF CallMoves, Steps
      <3>4. \A j \in 1..MaxAttempt : call'[<<"validate", j>>].pc # "begun" =>
               call'[<<"validate", j>>] = call[<<"validate", j>>]
        BY <1>5, <2>2 DEF Steps
      <3>5. QED
        BY <1>1, <3>2, <3>3, <3>4
           DEF IInv, ValidationsAgree, SavedResultsAreReproducible, Expected, At
    <2>3. QED
      BY <2>1, <2>2
  <1>9. ValidationComesFirst'
    BY <1>1, <1>5, ValidationFirstFrame DEF IInv, ValidationComesFirst, Steps, At
  <1>10. GateIsConcluded'
    BY <1>1, <1>4, <1>5, GateFrame DEF IInv, Steps, At
  <1>11. QED
    BY <1>3, <1>6, <1>7, <1>8, <1>9, <1>10 DEF IInv

\* A lost attempt leaves the data alone.
LEMMA LoseStep ==
    ASSUME ReviewAssumption, IInv, NEW n \in Steps, Lose(n)
    PROVE  IInv'
  <1>1. /\ fence' \in [Steps -> Nodes!Fence]
        /\ \A m \in Steps : fence'[m].phase = "final" <=> fence[m].phase = "final"
        /\ UNCHANGED <<draft, tset, vset, rows, gate, conclusion, call, request>>
    BY LoseFacts DEF IInv, Lose
  <1>2. RowsGrow /\ IsSeq(rows)' /\ PublishedAsConcluded'
    BY <1>1, Unwritten
  <1>3. ShapeOK'
    BY <1>1, <1>2 DEF IInv, ShapeOK
  <1>4. TransformComesFirst'
    BY <1>1, TransformFrame DEF IInv, TransformComesFirst, Steps, At
  <1>5. ValidationsAgree'
    BY <1>1, <1>2, ValidationsFrame DEF IInv
  <1>6. ValidationComesFirst'
    BY <1>1, ValidationFirstFrame DEF IInv, ValidationComesFirst, Steps, At
  <1>7. GateIsConcluded'
    BY <1>1, GateFrame DEF IInv, At
  <1>8. QED
    BY <1>2, <1>3, <1>4, <1>5, <1>6, <1>7 DEF IInv

\* A node becomes final when its executor has answered, which means that its
\* set is finished.
LEMMA SettleStep ==
    ASSUME ReviewAssumption, IInv, NEW n \in Steps, NEW k \in 1..MaxAttempt, Settle(n, k)
    PROVE  IInv'
  <1>1. /\ fence' \in [Steps -> Nodes!Fence]
        /\ fence'[n].phase = "final" /\ \A m \in Steps \ {n} : fence'[m] = fence[m]
        /\ At(n, k, "answered")
        /\ UNCHANGED <<draft, tset, vset, rows, gate, conclusion, call, request>>
    BY SettleFacts DEF IInv, Settle
  <1>2. RowsGrow /\ IsSeq(rows)' /\ PublishedAsConcluded'
    BY <1>1, Unwritten
  <1>3. ShapeOK'
    BY <1>1, <1>2 DEF IInv, ShapeOK
  <1>4. /\ n = "transform" => tset.status = "succeeded"
        /\ n = "validate" => vset.status = "succeeded"
    BY <1>1 DEF IInv, TransformComesFirst, ValidationComesFirst
  <1>5. TransformComesFirst'
    BY <1>1, <1>4, TransformFrame DEF IInv, TransformComesFirst, Steps, At
  <1>6. ValidationsAgree'
    BY <1>1, <1>2, ValidationsFrame DEF IInv
  <1>7. ValidationComesFirst'
    BY <1>1, <1>4, ValidationFirstFrame DEF IInv, ValidationComesFirst, Steps, At
  <1>8. GateIsConcluded'
    BY <1>1, GateFrame DEF IInv, At
  <1>9. QED
    BY <1>2, <1>3, <1>5, <1>6, <1>7, <1>8 DEF IInv

\* Rows with new keys are appended, each another run's or that of a record
\* which may be published, and of the latter all or none.
LEMMA AppendKeepsRows ==
    ASSUME ReviewAssumption, IInv, UNCHANGED <<conclusion, vset>>,
           NEW added, IsSeq(added), rows' = rows \o added,
           \A m \in DOMAIN added :
              /\ IsRow(added[m])
              /\ added[m].of # 0 =>
                    /\ conclusion # NoDecisions /\ added[m].of \in ToPublish
                    /\ Publishable(added[m].of) /\ added[m].key = StoredKey(added[m].of)
              /\ \A n \in DOMAIN rows : rows[n].key # added[m].key
              /\ \A j \in DOMAIN added : added[j].key = added[m].key => j = m,
           (\E m \in DOMAIN added : added[m].of # 0) =>
              \A i \in ToPublish : \E m \in DOMAIN added : added[m].of = i
    PROVE  /\ RowsGrow /\ IsSeq(rows)' /\ \A n \in DOMAIN rows' : IsRow(rows'[n])
           /\ PublishedAsConcluded'
  <1>1. IsSeq(rows) /\ \A n \in DOMAIN rows : IsRow(rows[n])
    BY DEF IInv, ShapeOK
  <1>2. RowsGrow /\ IsSeq(rows)'
    <2>1. RowsGrow
      BY <1>1, AppendedRowsGrow
    <2>2. IsSeq(rows \o added)
      BY <1>1, ConcatFacts
    <2>3. QED
      BY <2>1, <2>2 DEF IsSeq
  <1> DEFINE last == Len(rows)
  <1>3. /\ last \in Nat /\ DOMAIN rows = 1..last
        /\ Len(added) \in Nat /\ DOMAIN added = 1..Len(added)
        /\ DOMAIN rows' = 1..(last + Len(added))
        /\ \A n \in 1..last : rows'[n] = rows[n]
        /\ \A m \in 1..Len(added) : rows'[last + m] = added[m]
    BY <1>1, ConcatFacts
  <1> HIDE DEF last
  <1>4. \A n \in DOMAIN rows' :
           \/ n \in DOMAIN rows /\ rows'[n] = rows[n]
           \/ \E m \in DOMAIN added : n = last + m /\ rows'[n] = added[m]
    <2> SUFFICES ASSUME NEW n \in DOMAIN rows', n \notin DOMAIN rows
                 PROVE  \E m \in DOMAIN added : n = last + m /\ rows'[n] = added[m]
      BY <1>3
    <2>1. n - last \in 1..Len(added) /\ n = last + (n - last)
      BY <1>3
    <2>2. QED
      BY <1>3, <2>1
  <1>5. /\ \A n \in DOMAIN rows : n \in DOMAIN rows' /\ rows'[n] = rows[n]
        /\ \A m \in DOMAIN added : last + m \in DOMAIN rows' /\ rows'[last + m] = added[m]
    BY <1>3
  <1>6. \A n \in DOMAIN rows' : IsRow(rows'[n])
    BY <1>1, <1>4
  <1>7. vset.through \in Nat /\ vset.through <= last
    BY DEF IInv, ShapeOK, IsSet, ValidationsAgree, last
  <1>8. ToPublish' = ToPublish
    BY DEF ToPublish
  <1>9. \A i : StoredKey(i)' = StoredKey(i) /\ Stored(i)' = Stored(i)
    BY DEF StoredKey, Stored
  <1>10. \A i : Publishable(i)' <=> Publishable(i)
    BY <1>9 DEF Publishable
  <1>11. ASSUME NEW n \in DOMAIN rows', rows'[n].of # 0 PROVE RowIsApproved(n)'
    <2>1. CASE n \in DOMAIN rows /\ rows'[n] = rows[n]
      BY <1>8, <1>9, <1>10, <1>11, <2>1 DEF IInv, PublishedAsConcluded, RowIsApproved,
         NoDecisions, Empty
    <2>2. ASSUME NEW m \in DOMAIN added, n = last + m, rows'[n] = added[m] PROVE RowIsApproved(n)'
      <3>1. n > vset.through
        BY <1>3, <1>7, <2>2
      <3>2. QED
        BY <1>8, <1>9, <1>10, <1>11, <2>2, <3>1 DEF RowIsApproved, NoDecisions, Empty
    <2>3. QED
      BY <1>4, <2>1, <2>2
  <1>12. ASSUME NEW n \in DOMAIN rows', rows'[n].of # 0, NEW i \in ToPublish
         PROVE  \E j \in DOMAIN rows' : rows'[j].of = i
    <2>1. CASE n \in DOMAIN rows /\ rows'[n] = rows[n]
      <3>1. Published
        BY <1>12, <2>1 DEF Published
      <3>2. PICK j \in DOMAIN rows : rows[j].of = i
        BY <1>12, <3>1 DEF IInv, PublishedAsConcluded
      <3>3. QED
        BY <1>5, <3>2
    <2>2. CASE \E m \in DOMAIN added : n = last + m /\ rows'[n] = added[m]
      <3>1. \E m \in DOMAIN added : added[m].of # 0
        BY <1>12, <2>2
      <3>2. PICK j \in DOMAIN added : added[j].of = i
        BY <3>1
      <3>3. last + j \in DOMAIN rows' /\ rows'[last + j].of = i
        BY <1>5, <3>2
      <3>4. QED
        BY <3>3
    <2>3. QED
      BY <1>4, <2>1, <2>2
  <1>13. ASSUME NEW m \in DOMAIN rows', NEW n \in DOMAIN rows', rows'[m].key = rows'[n].key
         PROVE  m = n
    <2>1. CASE m \in DOMAIN rows /\ n \in DOMAIN rows
      BY <1>5, <1>13, <2>1 DEF IInv, PublishedAsConcluded, KeysAreUnique
    <2>2. CASE ~ (m \in DOMAIN rows /\ n \in DOMAIN rows)
      BY <1>4, <1>13, <2>2
    <2>3. QED
      BY <2>1, <2>2
  <1>14. PublishedAsConcluded'
    BY <1>8, <1>11, <1>12, <1>13 DEF PublishedAsConcluded, Published, KeysAreUnique
  <1>15. QED
    BY <1>2, <1>6, <1>14

\* Another run appends behind every position that has been read.
LEMMA OthersAppendStep ==
    ASSUME ReviewAssumption, IInv, NEW key \in OtherKeys, OthersAppend(key)
    PROVE  IInv'
  <1> DEFINE row == [key |-> key, of |-> 0]
             added == <<row>>
  <1>1. /\ \A i \in DOMAIN rows : rows[i].key # key
        /\ rows' = Append(rows, row)
        /\ UNCHANGED <<fence, draft, tset, vset, gate, conclusion, call, request>>
    BY DEF OthersAppend
  <1>2. row.key = key /\ row.of = 0 /\ IsRow(row)
    BY DEF IsRow, ReviewAssumption
  <1>3. IsSeq(rows)
    BY DEF IInv, ShapeOK
  <1> HIDE DEF row
  <1>4. IsSeq(added) /\ Len(added) = 1 /\ added[1] = row /\ rows' = rows \o added
    BY <1>1, <1>3, SingleFacts
  <1>5. DOMAIN added = {1}
    OBVIOUS
  <1> HIDE DEF added
  <1>6. /\ RowsGrow /\ IsSeq(rows)' /\ \A n \in DOMAIN rows' : IsRow(rows'[n])
        /\ PublishedAsConcluded'
    BY <1>1, <1>2, <1>4, <1>5, AppendKeepsRows
  <1>7. ShapeOK'
    BY <1>1, <1>6 DEF IInv, ShapeOK
  <1>8. TransformComesFirst'
    BY <1>1, TransformFrame DEF IInv, TransformComesFirst, At
  <1>9. ValidationsAgree'
    BY <1>1, <1>6, ValidationsFrame DEF IInv
  <1>10. ValidationComesFirst'
    BY <1>1, ValidationFirstFrame DEF IInv, ValidationComesFirst, At
  <1>11. GateIsConcluded'
    BY <1>1, GateFrame DEF IInv, At
  <1>12. QED
    BY <1>6, <1>7, <1>8, <1>9, <1>10, <1>11 DEF IInv

-----------------------------------------------------------------------------
(* Manifests                                                               *)

\* Beginning a set keeps what is saved, and its position once it has one.
LEMMA BegunFacts ==
    ASSUME NEW set, IsSet(set), NEW k \in Nat, NEW through \in Nat
    PROVE  /\ IsSet(Begun(set, k, through))
           /\ set.status = "succeeded" => Begun(set, k, through) = set
           /\ Begun(set, k, through).status # "none"
           /\ Begun(set, k, through).status = "succeeded" <=> set.status = "succeeded"
           /\ Begun(set, k, through).through = IF set.status = "none" THEN through ELSE set.through
           /\ DOMAIN Begun(set, k, through).result
                = IF set.status = "none" THEN {} ELSE DOMAIN set.result
           /\ set.status # "none" => Begun(set, k, through).result = set.result
  <1>1. CASE set.status = "none"
    <2> DEFINE Typed == [attempt : Nat, status : {"none", "running"}, through : Nat, result : {Empty}]
    <2>1. PICK new : new = [NoSet EXCEPT !.attempt = k, !.status = "running", !.through = through]
      OBVIOUS
    <2>2. NoSet \in Typed
      BY DEF NoSet
    <2>3. /\ new \in Typed /\ new.status = "running" /\ new.through = through /\ new.result = Empty
      BY <2>1, <2>2
    <2>4. Begun(set, k, through) = new
      BY <1>1, <2>1 DEF Begun
    <2>5. DOMAIN Empty = {} /\ Empty = [i \in DOMAIN Empty |-> Empty[i]]
      BY DEF Empty
    <2>6. IsSet(new)
      BY <2>3, <2>5 DEF IsSet
    <2>7. QED
      BY <1>1, <2>3, <2>4, <2>5, <2>6
  <1>2. CASE set.status = "succeeded"
    BY <1>2 DEF Begun
  <1>3. CASE set.status = "running"
    <2>1. PICK new : new = [set EXCEPT !.attempt = k]
      OBVIOUS
    <2>2. /\ new = [attempt |-> k, status |-> set.status, through |-> set.through, result |-> set.result]
      BY <2>1 DEF IsSet
    <2>3. Begun(set, k, through) = new
      BY <1>3, <2>1 DEF Begun
    <2>4. IsSet(new)
      BY <2>2 DEF IsSet
    <2>5. QED
      BY <1>3, <2>2, <2>3, <2>4
  <1>4. QED
    BY <1>1, <1>2, <1>3 DEF IsSet

\* A set of numbers has a least one.
LEMMA LeastNumber ==
    ASSUME NEW S \in SUBSET Nat, S # {}
    PROVE  \E p \in S : \A q \in S : p <= q
  <1> DEFINE R == OpToRel(<, Nat)
  <1>1. IsWellFoundedOn(R, Nat)
    BY NatLessThanWellFounded
  <1>2. \A x, y \in Nat : <<y, x>> \in R <=> y < x
    BY DEF OpToRel
  <1> HIDE DEF R
  <1>3. PICK p \in S : \A q \in S : ~ (<<q, p>> \in R)
    BY <1>1, WFMin
  <1>4. ASSUME NEW q \in S
        PROVE  p <= q
    <2>1. p \in Nat /\ q \in Nat /\ ~ (q < p)
      BY <1>2, <1>3
    <2>2. QED
      BY <2>1
  <1>5. QED
    BY <1>4

\* The record that is saved next is one that the plan still has.
LEMMA FirstOrdinal ==
    ASSUME ReviewAssumption, NEW plan, DOMAIN plan \subseteq Ordinals, DOMAIN plan # {}
    PROVE  NextOrdinal(plan) \in DOMAIN plan
  <1> DEFINE S == DOMAIN plan
  <1>1. S \subseteq Nat /\ S # {}
    BY DEF Ordinals, ReviewAssumption
  <1> HIDE DEF S
  <1>2. \E i \in S : \A j \in S : i <= j
    BY <1>1, LeastNumber
  <1>3. NextOrdinal(plan) = CHOOSE i \in S : \A j \in S : i <= j
    BY DEF NextOrdinal, S
  <1>4. NextOrdinal(plan) \in S
    BY <1>2, <1>3, Zenon
  <1>5. QED
    BY <1>4 DEF S

\* next is the running set with one more result of the execution's plan.
Saves(n, k, set, next) ==
    /\ IsSet(next) /\ set.status = "running" /\ next.status = "running"
    /\ next.through = set.through
    /\ At(n, k, "saving")
    /\ \E i \in DOMAIN call[<<n, k>>].plan :
         /\ CallMoves(n, k, "saving", call[<<n, k>>].through, Without(call[<<n, k>>].plan, {i}))
         /\ next.result = With(set.result, i, call[<<n, k>>].plan[i])

\* A result of the plan is saved: it is in the set from now on.
LEMMA SaveFacts ==
    ASSUME ReviewAssumption, ShapeOK, NEW n \in Steps, NEW k \in 1..MaxAttempt,
           NEW set, IsSet(set), NEW next, Save(n, k, set, next)
    PROVE  Saves(n, k, set, next)
  <1> DEFINE c == call[<<n, k>>]
             i == NextOrdinal(c.plan)
             result == With(set.result, i, c.plan[i])
             plan == Without(c.plan, {i})
  <1>1. IsCall(c)
    BY DEF ShapeOK, Executions
  <1>2. /\ c.pc = "saving" /\ c.plan # Empty /\ set.status = "running"
        /\ next = SavedIn(set, i, c.plan[i])
        /\ call' = [call EXCEPT ![<<n, k>>].plan = plan]
    BY DEF Save, At, Writable
  <1>3. DOMAIN c.plan # {}
    BY <1>1, <1>2 DEF IsCall, Empty
  <1>4. i \in DOMAIN c.plan /\ i \in Ordinals
    BY <1>1, <1>3, FirstOrdinal DEF IsCall
  <1>5. [c EXCEPT !.plan = plan] = [pc |-> "saving", through |-> c.through, plan |-> plan]
    <2> HIDE DEF plan
    <2>1. QED
      BY <1>1, <1>2 DEF IsCall
  <1>6. call' = [call EXCEPT ![<<n, k>>] = [pc |-> "saving", through |-> c.through, plan |-> plan]]
    BY <1>2, <1>5
  <1>7. plan = [j \in DOMAIN plan |-> plan[j]] /\ DOMAIN plan \subseteq Ordinals
    BY <1>1 DEF Without, IsCall
  <1>8. CallMoves(n, k, "saving", c.through, plan)
    <2>1. c.through \in Nat /\ "saving" \in CallPC
      BY <1>1 DEF IsCall, CallPC
    <2> HIDE DEF plan, c
    <2>2. QED
      BY <1>6, <1>7, <2>1, SetCall
  <1>9. /\ DOMAIN result = DOMAIN set.result \cup {i}
        /\ result = [j \in DOMAIN result |-> result[j]]
    BY DEF With
  <1>10. next = [attempt |-> set.attempt, status |-> "running", through |-> set.through, result |-> result]
    <2>1. next = [set EXCEPT !.result = result]
      BY <1>2 DEF SavedIn
    <2> HIDE DEF result
    <2>2. QED
      BY <1>2, <2>1 DEF IsSet
  <1>11. IsSet(next)
    <2>1. DOMAIN result \subseteq Ordinals /\ set.through \in Nat
      BY <1>4, <1>9 DEF IsSet
    <2> HIDE DEF result
    <2>2. QED
      BY <1>9, <1>10, <2>1 DEF IsSet
  <1> HIDE DEF result, plan, c, i
  <1>12. next.status = "running" /\ next.through = set.through /\ next.result = result
    BY <1>2, <1>10
  <1>13. QED
    BY <1>2, <1>4, <1>8, <1>11, <1>12 DEF At, plan, c, result, Saves

\* A set is finished when it has everything.
LEMMA FinishFacts ==
    ASSUME ShapeOK, NEW n \in Steps, NEW k \in 1..MaxAttempt,
           NEW set, IsSet(set), NEW next, Finish(n, k, set, next)
    PROVE  /\ IsSet(next) /\ set.status = "running" /\ next.status = "succeeded"
           /\ next.through = set.through /\ next.result = set.result
           /\ DOMAIN set.result = Ordinals
           /\ At(n, k, "saving")
           /\ CallMoves(n, k, "answered", call[<<n, k>>].through, call[<<n, k>>].plan)
  <1>1. /\ At(n, k, "saving") /\ set.status = "running" /\ DOMAIN set.result = Ordinals
        /\ next = [set EXCEPT !.status = "succeeded"]
        /\ call' = [call EXCEPT ![<<n, k>>].pc = "answered"]
    BY DEF Finish, Writable
  <1>2. next = [attempt |-> set.attempt, status |-> "succeeded",
                through |-> set.through, result |-> set.result]
    BY <1>1 DEF IsSet
  <1>3. IsSet(next) /\ next.status = "succeeded" /\ next.through = set.through /\ next.result = set.result
    BY <1>2 DEF IsSet
  <1>4. CallMoves(n, k, "answered", call[<<n, k>>].through, call[<<n, k>>].plan)
    BY <1>1, SetPC DEF CallPC
  <1>5. QED
    BY <1>1, <1>3, <1>4

-----------------------------------------------------------------------------
(* data.transform and data.validate                                        *)

\* A step of data.transform that writes the records only before they are
\* final.
LEMMA TransformWrites ==
    ASSUME ReviewAssumption, IInv, NEW k \in 1..MaxAttempt, NEW pc, NEW through, NEW plan,
           CallMoves("transform", k, pc, through, plan),
           UNCHANGED <<fence, vset, rows, gate, conclusion, request>>,
           IsSet(tset'),
           tset.status = "succeeded" => tset' = tset,
           tset'.status = "succeeded" => DOMAIN tset'.result = Ordinals,
           pc = "answered" => tset'.status = "succeeded"
    PROVE  IInv'
  <1>1. /\ \A j \in 1..MaxAttempt : call'[<<"validate", j>>] = call[<<"validate", j>>]
        /\ \A j \in 1..MaxAttempt : call'[<<"publish", j>>] = call[<<"publish", j>>]
        /\ \A j \in 1..MaxAttempt : j # k => call'[<<"transform", j>>] = call[<<"transform", j>>]
        /\ call'[<<"transform", k>>].pc = pc
    BY DEF CallMoves, Steps
  <1>2. RowsGrow /\ IsSeq(rows)'
    BY UnchangedRowsGrow DEF IInv, ShapeOK, IsSeq
  <1>3. ShapeOK'
    BY <1>2 DEF IInv, ShapeOK, CallMoves
  <1>4. TransformComesFirst'
    BY <1>1, TransformFrame DEF IInv, TransformComesFirst, At
  <1>5. fence["transform"].phase = "final" => tset' = tset
    BY DEF IInv, TransformComesFirst
  <1>6. ValidationsAgree'
    BY <1>1, <1>2, <1>5, ValidationsFrame DEF IInv
  <1>7. ValidationComesFirst'
    BY <1>1, ValidationFirstFrame DEF IInv, ValidationComesFirst, At
  <1>8. GateIsConcluded'
    BY <1>1, GateFrame DEF IInv, At
  <1>9. PublishedAsConcluded'
    BY PublishedFrame DEF IInv
  <1>10. QED
    BY <1>3, <1>4, <1>6, <1>7, <1>8, <1>9 DEF IInv

\* A later attempt begins with the records that are saved.
LEMMA BeginTransformStep ==
    ASSUME ReviewAssumption, IInv, NEW k \in 1..MaxAttempt, BeginTransform(k)
    PROVE  IInv'
  <1> DEFINE pc == IF tset'.status = "succeeded" THEN "answered" ELSE "saving"
             plan == [i \in Ordinals \ DOMAIN tset'.result |-> TransformRecord(Jsonb(draft[i]))]
  <1>1. /\ tset' = Begun(tset, k, 0)
        /\ call' = [call EXCEPT ![<<"transform", k>>].pc = pc, ![<<"transform", k>>].plan = plan]
        /\ UNCHANGED <<fence, vset, rows, gate, conclusion, request>>
    BY DEF BeginTransform
  <1>2. /\ IsSet(tset) /\ k \in Nat
        /\ tset.status = "succeeded" => DOMAIN tset.result = Ordinals
    BY DEF IInv, ShapeOK, TransformComesFirst, ReviewAssumption
  <1>3. /\ IsSet(tset')
        /\ tset.status = "succeeded" => tset' = tset
        /\ tset'.status = "succeeded" <=> tset.status = "succeeded"
    BY <1>1, <1>2, BegunFacts
  <1>4. CallMoves("transform", k, pc, call[<<"transform", k>>].through, plan)
    <2>1. plan = [i \in DOMAIN plan |-> plan[i]] /\ DOMAIN plan \subseteq Ordinals
      OBVIOUS
    <2>2. pc \in CallPC /\ "transform" \in Steps
      BY DEF CallPC, Steps
    <2> HIDE DEF plan, pc
    <2>3. QED
      BY <1>1, <2>1, <2>2, SetPlan DEF IInv
  <1>5. pc = "answered" => tset'.status = "succeeded"
    OBVIOUS
  <1> HIDE DEF pc, plan
  <1>6. QED
    BY <1>1, <1>2, <1>3, <1>4, <1>5, TransformWrites

\* Only a running set gets a record or is finished.
LEMMA SaveTransformedStep ==
    ASSUME ReviewAssumption, IInv, NEW k \in 1..MaxAttempt, SaveTransformed(k)
    PROVE  IInv'
  <1>1. UNCHANGED <<fence, vset, rows, gate, conclusion, request>>
    BY DEF SaveTransformed
  <1>2. IsSet(tset) /\ ShapeOK /\ "transform" \in Steps
    BY DEF IInv, ShapeOK, Steps
  <1>3. CASE Save("transform", k, tset, tset')
    <2>1. PICK next : next = tset'
      OBVIOUS
    <2>2. Save("transform", k, tset, next)
      BY <1>3, <2>1 DEF Save
    <2>3. Saves("transform", k, tset, next)
      BY <1>2, <2>2, SaveFacts
    <2>4. PICK i \in DOMAIN call[<<"transform", k>>].plan :
            CallMoves("transform", k, "saving", call[<<"transform", k>>].through,
                      Without(call[<<"transform", k>>].plan, {i}))
      BY <2>3 DEF Saves
    <2>5. IsSet(tset') /\ tset'.status = "running" /\ tset.status = "running"
      BY <2>1, <2>3 DEF Saves
    <2>6. QED
      BY <1>1, <2>4, <2>5, TransformWrites
  <1>4. CASE Finish("transform", k, tset, tset')
    <2>1. /\ IsSet(tset') /\ tset.status = "running" /\ tset'.status = "succeeded"
          /\ DOMAIN tset'.result = Ordinals
          /\ CallMoves("transform", k, "answered", call[<<"transform", k>>].through,
                       call[<<"transform", k>>].plan)
      BY <1>2, <1>4, FinishFacts
    <2>2. QED
      BY <1>1, <2>1, TransformWrites
  <1>5. QED
    BY <1>3, <1>4 DEF SaveTransformed

\* A step of data.validate.  Before it has begun the set there are no
\* decisions, so nothing has been published.
LEMMA ValidationWrites ==
    ASSUME ReviewAssumption, IInv, NEW k \in 1..MaxAttempt, NEW pc, NEW through, NEW plan,
           CallMoves("validate", k, pc, through, plan),
           UNCHANGED <<fence, tset, rows, gate, conclusion, request>>,
           ~ At("validate", k, "none"),
           IsSet(vset'), ValidationsAgree',
           vset.status = "succeeded" => vset' = vset,
           vset'.status = "succeeded" => DOMAIN vset'.result = Ordinals,
           vset.status = "none" \/ vset'.through = vset.through,
           pc = "answered" => vset'.status = "succeeded"
    PROVE  IInv'
  <1>1. /\ \A j \in 1..MaxAttempt : call'[<<"transform", j>>] = call[<<"transform", j>>]
        /\ \A j \in 1..MaxAttempt : call'[<<"publish", j>>] = call[<<"publish", j>>]
        /\ \A j \in 1..MaxAttempt : j # k => call'[<<"validate", j>>] = call[<<"validate", j>>]
        /\ call'[<<"validate", k>>].pc = pc
    BY DEF CallMoves, Steps
  <1>2. RowsGrow /\ IsSeq(rows)'
    BY UnchangedRowsGrow DEF IInv, ShapeOK, IsSeq
  <1>3. fence["transform"].phase = "final"
    BY DEF IInv, TransformComesFirst
  <1>4. ShapeOK'
    BY <1>2 DEF IInv, ShapeOK, CallMoves
  <1>5. TransformComesFirst'
    BY <1>1, <1>3, TransformFrame DEF IInv, TransformComesFirst, At
  <1>6. ValidationComesFirst'
    BY <1>1, ValidationFirstFrame DEF IInv, ValidationComesFirst, At
  <1>7. GateIsConcluded'
    BY <1>1, GateFrame DEF IInv, At
  <1>8. vset.status = "none" => conclusion = NoDecisions
    BY DEF IInv, GateIsConcluded, IsReview
  <1>9. PublishedAsConcluded'
    BY <1>8, PublishedFrame DEF IInv
  <1>10. QED
    BY <1>4, <1>5, <1>6, <1>7, <1>9 DEF IInv

\* The results that were saved are what would be computed again.
LEMMA ReproducibleStays ==
    ASSUME SavedResultsAreReproducible, vset' = vset, \A i : Expected(i)' = Expected(i)
    PROVE  SavedResultsAreReproducible'
  BY DEF SavedResultsAreReproducible, Expected

\* The position that is read is one the dataset has reached.
LEMMA ReadDatasetStep ==
    ASSUME ReviewAssumption, IInv, NEW k \in 1..MaxAttempt, ReadDataset(k)
    PROVE  IInv'
  <1> DEFINE c == call[<<"validate", k>>]
  <1>1. /\ c.pc = "begun"
        /\ call' = [call EXCEPT ![<<"validate", k>>].pc = "read", ![<<"validate", k>>].through = Len(rows)]
        /\ UNCHANGED <<fence, draft, tset, vset, rows, gate, conclusion, request>>
    BY DEF ReadDataset, At
  <1>2. /\ IsCall(c) /\ <<"validate", k>> \in DOMAIN call /\ "validate" \in Steps
        /\ IsSet(vset) /\ vset.through <= Len(rows) /\ RowsGrow
    BY UnchangedRowsGrow, <1>1 DEF IInv, ShapeOK, Executions, Steps, ValidationsAgree
  <1>3. Len(rows) \in Nat
    BY <1>2 DEF RowsGrow
  <1>4. call' = [call EXCEPT ![<<"validate", k>>] = [pc |-> "read", through |-> Len(rows), plan |-> c.plan]]
    <2>1. PICK new : new = [c EXCEPT !.pc = "read", !.through = Len(rows)]
      OBVIOUS
    <2>2. c \in [pc : CallPC, through : Nat, plan : {c.plan}]
      BY <1>2 DEF IsCall
    <2>3. /\ new \in [pc : CallPC, through : Nat, plan : {c.plan}]
          /\ new.pc = "read" /\ new.through = Len(rows) /\ new.plan = c.plan
      BY <1>3, <2>1, <2>2 DEF CallPC
    <2>4. new = [pc |-> "read", through |-> Len(rows), plan |-> c.plan]
      BY <2>3
    <2>5. call' = [call EXCEPT ![<<"validate", k>>] = new]
      BY <1>1, <1>2, <2>1
    <2>6. QED
      BY <2>4, <2>5
  <1>5. CallMoves("validate", k, "read", Len(rows), c.plan)
    <2>1. "read" \in CallPC /\ c.plan = [i \in DOMAIN c.plan |-> c.plan[i]] /\ DOMAIN c.plan \subseteq Ordinals
      BY <1>2 DEF CallPC, IsCall
    <2> HIDE DEF c
    <2>2. QED
      BY <1>2, <1>3, <1>4, <2>1, SetCall DEF IInv
  <1>6. \A i : Expected(i)' = Expected(i)
    BY <1>1, <1>2, ExpectedStays DEF IsSet
  <1>7. /\ call'[<<"validate", k>>].pc = "read" /\ call'[<<"validate", k>>].through = Len(rows)
        /\ \A j \in 1..MaxAttempt : j # k => call'[<<"validate", j>>] = call[<<"validate", j>>]
    BY <1>2, <1>5 DEF CallMoves
  <1>8. ValidationsAgree'
    <2>1. ASSUME NEW j \in 1..MaxAttempt
          PROVE  /\ call'[<<"validate", j>>].through <= Len(rows')
                 /\ call'[<<"validate", j>>].pc \in {"planned", "saving", "answered"} =>
                       call'[<<"validate", j>>] = call[<<"validate", j>>]
      <3>1. CASE j = k
        BY <1>1, <1>3, <1>7, <3>1
      <3>2. CASE j # k
        BY <1>1, <1>7, <3>2 DEF IInv, ValidationsAgree
      <3>3. QED
        BY <3>1, <3>2
    <2>2. SavedResultsAreReproducible'
      BY <1>1, <1>6, ReproducibleStays DEF IInv, ValidationsAgree
    <2>3. /\ vset'.through <= Len(rows')
          /\ vset'.status = "none" => DOMAIN vset'.result = {}
          /\ \A j \in 1..MaxAttempt :
                /\ call[<<"validate", j>>].pc \in {"planned", "saving", "answered"} =>
                      vset'.status # "none"
                /\ call[<<"validate", j>>].pc = "saving" =>
                      \A i \in DOMAIN call[<<"validate", j>>].plan :
                          call[<<"validate", j>>].plan[i] = Expected(i)'
      BY <1>1, <1>6 DEF IInv, ValidationsAgree, At
    <2>4. QED
      BY <2>1, <2>2, <2>3 DEF ValidationsAgree, At
  <1>9. ~ At("validate", k, "none")
    BY <1>1 DEF At
  <1>10. vset.status = "succeeded" => DOMAIN vset.result = Ordinals
    BY DEF IInv, ValidationComesFirst
  <1>11. IsSet(vset')
    BY <1>1, <1>2
  <1> HIDE DEF c
  <1>12. QED
    BY <1>1, <1>5, <1>8, <1>9, <1>10, <1>11, ValidationWrites

\* The first attempt fixes the position, and the others keep it.
LEMMA BeginValidationStep ==
    ASSUME ReviewAssumption, IInv, NEW k \in 1..MaxAttempt, BeginValidation(k)
    PROVE  IInv'
  <1> DEFINE c == call[<<"validate", k>>]
             pc == IF vset'.status = "succeeded" THEN "answered" ELSE "planned"
  <1>1. /\ c.pc = "read"
        /\ vset' = Begun(vset, k, c.through)
        /\ call' = [call EXCEPT ![<<"validate", k>>].pc = pc]
        /\ UNCHANGED <<fence, tset, rows, gate, conclusion, request>>
    BY DEF BeginValidation, At
  <1>2. /\ IsCall(c) /\ "validate" \in Steps /\ pc \in CallPC /\ k \in Nat
        /\ IsSet(vset) /\ vset.through <= Len(rows) /\ c.through <= Len(rows) /\ RowsGrow
        /\ vset.status = "succeeded" => DOMAIN vset.result = Ordinals
        /\ vset.status = "none" => DOMAIN vset.result = {}
    <2>1. IsSet(vset) /\ IsCall(c) /\ "validate" \in Steps /\ k \in Nat
      <3>1. <<"validate", k>> \in Executions /\ "validate" \in Steps
        BY DEF Executions, Steps
      <3>2. IsSet(vset) /\ IsCall(c)
        BY <3>1 DEF IInv, ShapeOK
      <3>3. QED
        BY <3>1, <3>2
    <2>2. pc \in CallPC
      BY DEF CallPC
    <2>3. RowsGrow
      BY <1>1, UnchangedRowsGrow DEF IInv, ShapeOK
    <2>4. /\ vset.through <= Len(rows) /\ c.through <= Len(rows)
          /\ vset.status = "succeeded" => DOMAIN vset.result = Ordinals
          /\ vset.status = "none" => DOMAIN vset.result = {}
      BY DEF IInv, ValidationsAgree, ValidationComesFirst
    <2>5. QED
      BY <2>1, <2>2, <2>3, <2>4
  <1>3. c.through \in Nat
    BY <1>2 DEF IsCall
  <1>4. /\ IsSet(vset') /\ vset'.status # "none"
        /\ vset.status = "succeeded" => vset' = vset
        /\ vset'.status = "succeeded" <=> vset.status = "succeeded"
        /\ vset'.through = IF vset.status = "none" THEN c.through ELSE vset.through
        /\ DOMAIN vset'.result = IF vset.status = "none" THEN {} ELSE DOMAIN vset.result
        /\ vset.status # "none" => vset'.result = vset.result
    <2>1. vset' = Begun(vset, k, c.through)
      BY <1>1
    <2>2. IsSet(vset) /\ k \in Nat
      BY <1>2
    <2> HIDE DEF c, pc
    <2>3. QED
      BY <1>3, <2>1, <2>2, BegunFacts
  <1>5. CallMoves("validate", k, pc, c.through, c.plan)
    <2> HIDE DEF pc
    <2>1. QED
      BY <1>1, <1>2, SetPC DEF IInv
  <1>6. /\ call'[<<"validate", k>>].pc = pc /\ call'[<<"validate", k>>].through = c.through
        /\ \A j \in 1..MaxAttempt : j # k => call'[<<"validate", j>>] = call[<<"validate", j>>]
    BY <1>2, <1>5 DEF CallMoves
  <1>7. ~ At("validate", k, "none")
    BY <1>1 DEF At
  <1>8. pc # "saving" /\ (pc = "answered" => vset'.status = "succeeded")
    OBVIOUS
  <1> HIDE DEF pc
  <1>9. ValidationsAgree'
    <2>1. /\ vset'.through <= Len(rows')
          /\ \A j \in 1..MaxAttempt : call'[<<"validate", j>>].through <= Len(rows')
      BY <1>1, <1>2, <1>4, <1>6 DEF IInv, ValidationsAgree
    <2>2. CASE vset.status = "none"
      <3>1. \A j \in 1..MaxAttempt : call'[<<"validate", j>>].pc # "saving"
        BY <1>6, <1>8, <2>2 DEF IInv, ValidationsAgree
      <3>2. DOMAIN vset'.result = {}
        BY <1>4, <2>2
      <3>3. QED
        BY <1>4, <2>1, <3>1, <3>2 DEF ValidationsAgree, SavedResultsAreReproducible, At
    <2>3. CASE vset.status # "none"
      <3>1. \A i : Expected(i)' = Expected(i)
        BY <1>1, <1>2, <1>4, <2>3, ExpectedStays DEF IsSet
      <3>2. ASSUME NEW j \in 1..MaxAttempt, call'[<<"validate", j>>].pc = "saving",
                   NEW i \in DOMAIN call'[<<"validate", j>>].plan
            PROVE  call'[<<"validate", j>>].plan[i] = Expected(i)'
        BY <1>6, <1>8, <3>1, <3>2 DEF IInv, ValidationsAgree, At
      <3>3. ASSUME NEW i \in DOMAIN vset'.result PROVE vset'.result[i] = Expected(i)'
        BY <1>4, <2>3, <3>1 DEF IInv, ValidationsAgree, SavedResultsAreReproducible, Expected
      <3>4. QED
        BY <1>4, <2>1, <3>2, <3>3 DEF ValidationsAgree, SavedResultsAreReproducible, Expected,
           At
    <2>4. QED
      BY <2>2, <2>3
  <1> HIDE DEF c
  <1>10. QED
    BY <1>1, <1>2, <1>4, <1>5, <1>7, <1>8, <1>9, ValidationWrites

\* The plan is computed for the position that the set keeps, not for the one
\* that the execution has read.
LEMMA PlanValidationStep ==
    ASSUME ReviewAssumption, IInv, NEW k \in 1..MaxAttempt, PlanValidation(k)
    PROVE  IInv'
  <1> DEFINE c == call[<<"validate", k>>]
             plan == [i \in Ordinals |-> Expected(i)]
  <1>1. /\ c.pc = "planned"
        /\ call' = [call EXCEPT ![<<"validate", k>>].pc = "saving", ![<<"validate", k>>].plan = plan]
        /\ UNCHANGED <<fence, draft, tset, vset, rows, gate, conclusion, request>>
    BY DEF PlanValidation, At, Expected
  <1>2. /\ "validate" \in Steps /\ IsSet(vset) /\ vset.through <= Len(rows)
        /\ vset.status = "succeeded" => DOMAIN vset.result = Ordinals
    BY DEF IInv, ShapeOK, Steps, ValidationsAgree, ValidationComesFirst
  <1>3. RowsGrow
    BY <1>1, UnchangedRowsGrow DEF IInv, ShapeOK
  <1>4. plan = [i \in DOMAIN plan |-> plan[i]] /\ DOMAIN plan \subseteq Ordinals
    OBVIOUS
  <1>5. \A i \in DOMAIN plan : plan[i] = Expected(i)
    OBVIOUS
  <1> HIDE DEF plan
  <1>6. CallMoves("validate", k, "saving", c.through, plan)
    BY <1>1, <1>2, <1>4, SetPlan DEF IInv, CallPC
  <1>7. /\ call'[<<"validate", k>>].through = c.through /\ call'[<<"validate", k>>].plan = plan
        /\ \A j \in 1..MaxAttempt : j # k => call'[<<"validate", j>>] = call[<<"validate", j>>]
    BY <1>2, <1>6 DEF CallMoves
  <1>8. \A i : Expected(i)' = Expected(i)
    BY <1>1, <1>2, <1>3, ExpectedStays DEF IsSet
  <1>9. ValidationsAgree'
    <2>1. ASSUME NEW j \in 1..MaxAttempt
          PROVE  /\ call'[<<"validate", j>>].through <= Len(rows')
                 /\ call'[<<"validate", j>>].pc \in {"planned", "saving", "answered"} =>
                       vset'.status # "none"
                 /\ call'[<<"validate", j>>].pc = "saving" =>
                       \A i \in DOMAIN call'[<<"validate", j>>].plan :
                           call'[<<"validate", j>>].plan[i] = Expected(i)'
      <3>1. CASE j = k
        <4>1. c.through <= Len(rows) /\ (c.pc = "planned" => vset.status # "none")
          BY DEF IInv, ValidationsAgree
        <4>2. \A i \in DOMAIN plan : plan[i] = Expected(i)'
          BY <1>5, <1>8
        <4>3. call'[<<"validate", j>>].through = c.through /\ call'[<<"validate", j>>].plan = plan
          BY <1>7, <3>1
        <4>4. QED
          BY <1>1, <4>1, <4>2, <4>3
      <3>2. CASE j # k
        BY <1>1, <1>7, <1>8, <3>2 DEF IInv, ValidationsAgree, At
      <3>3. QED
        BY <3>1, <3>2
    <2>2. SavedResultsAreReproducible'
      BY <1>1, <1>8, ReproducibleStays DEF IInv, ValidationsAgree
    <2>3. vset'.through <= Len(rows') /\ (vset'.status = "none" => DOMAIN vset'.result = {})
      BY <1>1 DEF IInv, ValidationsAgree
    <2>4. QED
      BY <2>1, <2>2, <2>3 DEF ValidationsAgree, At
  <1>10. ~ At("validate", k, "none") /\ IsSet(vset')
    BY <1>1, <1>2 DEF At
  <1> HIDE DEF c
  <1>11. QED
    BY <1>1, <1>2, <1>6, <1>9, <1>10, ValidationWrites

\* What is saved comes from a plan, and so is what any attempt computes.
LEMMA SaveValidationStep ==
    ASSUME ReviewAssumption, IInv, NEW k \in 1..MaxAttempt, SaveValidation(k)
    PROVE  IInv'
  <1> DEFINE c == call[<<"validate", k>>]
  <1>1. UNCHANGED <<fence, tset, rows, gate, conclusion, request>>
    BY DEF SaveValidation
  <1>2. IsSet(vset) /\ ShapeOK /\ "validate" \in Steps /\ vset.through <= Len(rows)
    BY DEF IInv, ShapeOK, Steps, ValidationsAgree
  <1>3. RowsGrow
    BY <1>1, UnchangedRowsGrow DEF IInv, ShapeOK
  <1>4. CASE Save("validate", k, vset, vset')
    <2>1. PICK next : next = vset'
      OBVIOUS
    <2>2. Save("validate", k, vset, next)
      BY <1>4, <2>1 DEF Save
    <2>3. Saves("validate", k, vset, next)
      BY <1>2, <2>2, SaveFacts
    <2>4. /\ IsSet(next) /\ vset.status = "running" /\ next.status = "running"
          /\ next.through = vset.through /\ At("validate", k, "saving")
      BY <2>3 DEF Saves
    <2>5. PICK i \in DOMAIN c.plan :
            /\ CallMoves("validate", k, "saving", c.through, Without(c.plan, {i}))
            /\ next.result = With(vset.result, i, c.plan[i])
      BY <2>3 DEF Saves
    <2>6. \A j : Expected(j)' = Expected(j)
      BY <1>1, <1>2, <1>3, <2>1, <2>4, ExpectedStays DEF IsSet
    <2>7. \A j \in DOMAIN c.plan : c.plan[j] = Expected(j)
      BY <2>4 DEF IInv, ValidationsAgree
    <2>8. /\ call'[<<"validate", k>>].through = c.through
          /\ call'[<<"validate", k>>].pc = "saving"
          /\ call'[<<"validate", k>>].plan = Without(c.plan, {i})
          /\ \A j \in 1..MaxAttempt : j # k => call'[<<"validate", j>>] = call[<<"validate", j>>]
      BY <1>2, <2>5 DEF CallMoves
    <2>9. ValidationsAgree'
      <3>1. ASSUME NEW j \in 1..MaxAttempt
            PROVE  /\ call'[<<"validate", j>>].through <= Len(rows')
                   /\ call'[<<"validate", j>>].pc = "saving" =>
                         \A o \in DOMAIN call'[<<"validate", j>>].plan :
                             call'[<<"validate", j>>].plan[o] = Expected(o)'
        <4>1. CASE j = k
          BY <1>1, <2>6, <2>7, <2>8, <4>1 DEF IInv, ValidationsAgree, Without
        <4>2. CASE j # k
          BY <1>1, <2>6, <2>8, <4>2 DEF IInv, ValidationsAgree, At
        <4>3. QED
          BY <4>1, <4>2
      <3>2. ASSUME NEW o \in DOMAIN vset'.result PROVE vset'.result[o] = Expected(o)'
        <4>1. CASE o = i
          BY <2>1, <2>5, <2>6, <2>7, <4>1 DEF With
        <4>2. CASE o # i
          <5>1. o \in DOMAIN vset.result /\ vset'.result[o] = vset.result[o]
            BY <2>1, <2>5, <4>2 DEF With
          <5>2. QED
            BY <2>6, <5>1 DEF IInv, ValidationsAgree, SavedResultsAreReproducible, Expected
        <4>3. QED
          BY <4>1, <4>2
      <3>3. vset'.status = "running" /\ vset'.through <= Len(rows')
        BY <1>1, <1>2, <2>1, <2>4
      <3>4. QED
        BY <3>1, <3>2, <3>3 DEF ValidationsAgree, SavedResultsAreReproducible, Expected, At
    <2>10. ~ At("validate", k, "none")
      BY <2>4 DEF At
    <2>11. IsSet(vset') /\ vset'.status = "running" /\ vset'.through = vset.through
      BY <2>1, <2>4
    <2> HIDE DEF c
    <2>12. QED
      BY <1>1, <2>4, <2>5, <2>9, <2>10, <2>11, ValidationWrites
  <1>5. CASE Finish("validate", k, vset, vset')
    <2>1. /\ IsSet(vset') /\ vset.status = "running" /\ vset'.status = "succeeded"
          /\ vset'.through = vset.through /\ vset'.result = vset.result
          /\ DOMAIN vset.result = Ordinals /\ At("validate", k, "saving")
          /\ CallMoves("validate", k, "answered", c.through, c.plan)
      BY <1>2, <1>5, FinishFacts
    <2>2. \A j : Expected(j)' = Expected(j)
      BY <1>1, <1>2, <1>3, <2>1, ExpectedStays DEF IsSet
    <2>3. /\ call'[<<"validate", k>>].through = c.through
          /\ call'[<<"validate", k>>].pc = "answered"
          /\ \A j \in 1..MaxAttempt : j # k => call'[<<"validate", j>>] = call[<<"validate", j>>]
      BY <1>2, <2>1 DEF CallMoves
    <2>4. ValidationsAgree'
      <3>1. ASSUME NEW j \in 1..MaxAttempt
            PROVE  /\ call'[<<"validate", j>>].through <= Len(rows')
                   /\ call'[<<"validate", j>>].pc = "saving" =>
                         \A o \in DOMAIN call'[<<"validate", j>>].plan :
                             call'[<<"validate", j>>].plan[o] = Expected(o)'
        <4>1. CASE j = k
          BY <1>1, <2>3, <4>1 DEF IInv, ValidationsAgree
        <4>2. CASE j # k
          BY <1>1, <2>2, <2>3, <4>2 DEF IInv, ValidationsAgree, At
        <4>3. QED
          BY <4>1, <4>2
      <3>2. QED
        BY <1>1, <1>2, <2>1, <2>2, <3>1
           DEF IInv, ValidationsAgree, SavedResultsAreReproducible, Expected, At
    <2>5. ~ At("validate", k, "none")
      BY <2>1 DEF At
    <2> HIDE DEF c
    <2>6. QED
      BY <1>1, <2>1, <2>4, <2>5, ValidationWrites
  <1>6. QED
    BY <1>4, <1>5 DEF SaveValidation

-----------------------------------------------------------------------------
(* human.review_records                                                    *)

\* There is at least one draft, so decisions about all are not none.
LEMMA ReviewIsSome ==
    ASSUME ReviewAssumption, NEW d, IsReview(d)
    PROVE  d # NoDecisions
  <1>1. DOMAIN d = Ordinals /\ 1 \in Ordinals
    BY DEF IsReview, Ordinals, ReviewAssumption
  <1>2. DOMAIN NoDecisions = {}
    BY DEF NoDecisions, Empty
  <1>3. QED
    BY <1>1, <1>2

\* A step at the gate, which writes the gate, the requests and, when there
\* is none yet, the conclusion.
LEMMA GateWrites ==
    ASSUME ReviewAssumption, IInv, UNCHANGED <<fence, tset, vset, rows, call>>,
           gate' \in {"waiting", "awaiting", "succeeded", "cancelled"},
           gate' \in {"awaiting", "succeeded"} =>
              gate \in {"awaiting", "succeeded"} \/ fence["validate"].phase = "final",
           request' = [r \in Reviewers |-> request'[r]],
           \A r \in Reviewers : IsRequest(request'[r]),
           conclusion = NoDecisions \/ conclusion' = conclusion,
           GateIsConcluded'
    PROVE  IInv'
  <1>1. RowsGrow /\ IsSeq(rows)'
    BY UnchangedRowsGrow DEF IInv, ShapeOK, IsSeq
  <1>2. ShapeOK'
    BY <1>1 DEF IInv, ShapeOK
  <1>3. TransformComesFirst'
    BY TransformFrame DEF IInv, TransformComesFirst, At
  <1>4. ValidationsAgree'
    BY <1>1, ValidationsFrame DEF IInv
  <1>5. ValidationComesFirst'
    BY ValidationFirstFrame DEF IInv, ValidationComesFirst, At
  <1>6. PublishedAsConcluded'
    BY PublishedFrame DEF IInv
  <1>7. QED
    BY <1>2, <1>3, <1>4, <1>5, <1>6 DEF IInv

\* The gate opens or is cancelled: no decision is made.
LEMMA GateMovesStep ==
    ASSUME ReviewAssumption, IInv, Await \/ Cancel
    PROVE  IInv'
  <1>1. /\ gate # "succeeded" /\ gate' \in {"awaiting", "cancelled"}
        /\ gate' = "awaiting" => fence["validate"].phase = "final"
        /\ UNCHANGED <<fence, draft, tset, vset, rows, conclusion, call, request>>
    BY DEF Await, Cancel
  <1>2. GateIsConcluded'
    BY <1>1, GateFrame DEF IInv, At
  <1>3. request' = [r \in Reviewers |-> request'[r]] /\ \A r \in Reviewers : IsRequest(request'[r])
    BY <1>1 DEF IInv, ShapeOK
  <1>4. QED
    BY <1>1, <1>2, <1>3, GateWrites

\* Request r goes on to pc with decisions d; the others stay.
RequestMoves(r, pc, d) ==
    /\ request' = [q \in Reviewers |-> request'[q]]
    /\ \A q \in Reviewers : IsRequest(request'[q])
    /\ request'[r].pc = pc /\ request'[r].decisions = d
    /\ \A q \in Reviewers \ {r} : request'[q] = request[q]

\* What writing one request does.
LEMMA SetRequest ==
    ASSUME ShapeOK, NEW r \in Reviewers, NEW pc \in {"decided", "concluded", "answered"}, NEW d,
           request' = [request EXCEPT ![r] = [pc |-> pc, decisions |-> d]]
    PROVE  RequestMoves(r, pc, d)
  <1> DEFINE new == [pc |-> pc, decisions |-> d]
  <1>1. IsRequest(new) /\ new.pc = pc /\ new.decisions = d
    BY DEF IsRequest
  <1> HIDE DEF new
  <1>2. /\ request' = [q \in Reviewers |-> request'[q]]
        /\ request'[r] = new
        /\ \A q \in Reviewers \ {r} : request'[q] = request[q]
    BY DEF ShapeOK, new
  <1>3. \A q \in Reviewers : IsRequest(request'[q])
    <2> SUFFICES ASSUME NEW q \in Reviewers PROVE IsRequest(request'[q])
      OBVIOUS
    <2>1. CASE q = r
      BY <1>1, <1>2, <2>1
    <2>2. CASE q # r
      BY <1>2, <2>2 DEF ShapeOK
    <2>3. QED
      BY <2>1, <2>2
  <1>4. QED
    BY <1>1, <1>2, <1>3 DEF RequestMoves

\* What moving one request on does.
LEMMA SetRequestPC ==
    ASSUME ShapeOK, NEW r \in Reviewers, NEW pc \in {"decided", "concluded", "answered"},
           request' = [request EXCEPT ![r].pc = pc]
    PROVE  RequestMoves(r, pc, request[r].decisions)
  <1> DEFINE q == request[r]
  <1>1. IsRequest(q)
    BY DEF ShapeOK
  <1>2. [q EXCEPT !.pc = pc] = [pc |-> pc, decisions |-> q.decisions]
    BY <1>1 DEF IsRequest
  <1>3. request' = [request EXCEPT ![r] = [pc |-> pc, decisions |-> q.decisions]]
    BY <1>2
  <1> HIDE DEF q
  <1>4. RequestMoves(r, pc, q.decisions)
    BY <1>3, SetRequest
  <1>5. QED
    BY <1>4 DEF q

\* The part of GateIsConcluded that is about the requests, when one of them
\* moves on with decisions about every result.
LEMMA RequestsStay ==
    ASSUME GateIsConcluded, vset' = vset, NEW r \in Reviewers, NEW pc, NEW d,
           RequestMoves(r, pc, d), IsReview(d)
    PROVE  /\ IsReview(d)'
           /\ \A q \in Reviewers : request'[q].pc # "idle" => IsReview(request[q].decisions)'
  <1>1. IsReview(d)'
    BY ReviewStays
  <1>2. ASSUME NEW q \in Reviewers, request'[q].pc # "idle" PROVE IsReview(request[q].decisions)'
    <2>1. CASE q = r
      BY <1>1, <2>1 DEF RequestMoves, IsReview
    <2>2. CASE q # r
      <3>1. PICK e : e = request[q].decisions
        OBVIOUS
      <3>2. request'[q] = request[q] /\ IsReview(e)
        BY <1>2, <2>2, <3>1 DEF RequestMoves, GateIsConcluded
      <3>3. IsReview(e)'
        BY <3>2, ReviewStays
      <3>4. QED
        BY <3>1, <3>2, <3>3 DEF IsReview
    <2>3. QED
      BY <2>1, <2>2
  <1>3. QED
    BY <1>1, <1>2

\* What is decided is about every result of the finished validation.
LEMMA DecideStep ==
    ASSUME ReviewAssumption, IInv, NEW r \in Reviewers, Decide(r)
    PROVE  IInv'
  <1>1. PICK d \in [Ordinals -> UNION {Decisions(i) : i \in Ordinals}] :
           /\ \A i \in Ordinals : d[i] \in Decisions(i)
           /\ request' = [request EXCEPT ![r] = [pc |-> "decided", decisions |-> d]]
    BY DEF Decide
  <1>2. /\ vset.status = "succeeded"
        /\ UNCHANGED <<fence, draft, tset, vset, rows, gate, conclusion, call>>
    BY DEF Decide
  <1>3. IsReview(d)
    BY <1>1, <1>2 DEF IsReview
  <1>4. RequestMoves(r, "decided", d)
    BY <1>1, SetRequest DEF IInv
  <1>5. \A q \in Reviewers : request'[q].pc # "idle" => IsReview(request[q].decisions)'
    BY <1>2, <1>3, <1>4, RequestsStay DEF IInv
  <1>6. AnswersAgree'
    BY <1>2, <1>4 DEF IInv, GateIsConcluded, AnswersAgree, RequestMoves
  <1>7. conclusion' # NoDecisions => IsReview(conclusion)'
    <2>1. PICK e : e = conclusion
      OBVIOUS
    <2>2. e # NoDecisions => IsReview(e)'
      BY <1>2, <2>1, ReviewStays DEF IInv, GateIsConcluded
    <2>3. QED
      BY <1>2, <2>1, <2>2 DEF IsReview
  <1>8. GateIsConcluded'
    BY <1>2, <1>5, <1>6, <1>7 DEF IInv, GateIsConcluded, At, NoDecisions, Empty
  <1>9. QED
    BY <1>2, <1>4, <1>8, GateWrites DEF RequestMoves, IInv, ShapeOK

\* The first conclusion is kept, and who makes the same one is told so.
LEMMA ConcludeStep ==
    ASSUME ReviewAssumption, IInv, NEW r \in Reviewers, Conclude(r)
    PROVE  IInv'
  <1> DEFINE d == request[r].decisions
  <1>1. /\ request[r].pc = "decided" /\ Concludable(r)
        /\ conclusion' = IF conclusion # NoDecisions THEN conclusion ELSE d
        /\ request' = [request EXCEPT ![r].pc = "concluded"]
        /\ UNCHANGED <<fence, draft, tset, vset, rows, gate, call>>
    BY DEF Conclude
  <1>2. IsReview(d) /\ d # NoDecisions
    <2>1. IsReview(d)
      BY <1>1 DEF IInv, GateIsConcluded
    <2> HIDE DEF d
    <2>2. QED
      BY <2>1, ReviewIsSome
  <1>3. conclusion' = d
    BY <1>1 DEF Concludable
  <1>4. RequestMoves(r, "concluded", d)
    BY <1>1, SetRequestPC DEF IInv
  <1> HIDE DEF d
  <1>5. \A q \in Reviewers : request'[q].pc # "idle" => IsReview(request[q].decisions)'
    BY <1>1, <1>2, <1>4, RequestsStay DEF IInv
  <1>6. conclusion' # NoDecisions /\ IsReview(conclusion)'
    <2>1. PICK e : e = d
      OBVIOUS
    <2>2. IsReview(e)'
      BY <1>1, <1>2, <2>1, ReviewStays
    <2>3. QED
      BY <1>2, <1>3, <2>1, <2>2 DEF IsReview
  <1>7. AnswersAgree'
    <2> SUFFICES ASSUME NEW q \in Reviewers, request'[q].pc \in {"concluded", "answered"}
                 PROVE  conclusion' = request'[q].decisions
      BY DEF AnswersAgree
    <2>1. CASE q = r
      BY <1>3, <1>4, <2>1 DEF RequestMoves
    <2>2. CASE q # r
      <3>1. /\ request'[q] = request[q] /\ conclusion = request[q].decisions
            /\ IsReview(request[q].decisions)
        BY <1>4, <2>2 DEF RequestMoves, IInv, GateIsConcluded, AnswersAgree
      <3>2. PICK e : e = request[q].decisions
        OBVIOUS
      <3>3. e # NoDecisions
        BY <3>1, <3>2, ReviewIsSome
      <3>4. QED
        BY <1>1, <3>1, <3>2, <3>3
    <2>3. QED
      BY <2>1, <2>2
  <1>8. GateIsConcluded'
    BY <1>1, <1>5, <1>6, <1>7 DEF IInv, GateIsConcluded, At, NoDecisions, Empty
  <1>9. conclusion = NoDecisions \/ conclusion' = conclusion
    BY <1>1
  <1>10. QED
    BY <1>1, <1>4, <1>8, <1>9, GateWrites DEF RequestMoves, IInv, ShapeOK

\* The gate is passed with the decisions of the request that passes it.
LEMMA CompleteGateStep ==
    ASSUME ReviewAssumption, IInv, NEW r \in Reviewers, CompleteGate(r)
    PROVE  IInv'
  <1> DEFINE d == request[r].decisions
  <1>1. /\ request[r].pc = "concluded" /\ gate = "awaiting" /\ gate' = "succeeded"
        /\ request' = [request EXCEPT ![r].pc = "answered"]
        /\ UNCHANGED <<fence, draft, tset, vset, rows, conclusion, call>>
    BY DEF CompleteGate
  <1>2. IsReview(d) /\ conclusion = d
    BY <1>1 DEF IInv, GateIsConcluded, AnswersAgree
  <1>3. RequestMoves(r, "answered", d)
    BY <1>1, SetRequestPC DEF IInv
  <1> HIDE DEF d
  <1>4. d # NoDecisions
    BY <1>2, ReviewIsSome
  <1>5. \A q \in Reviewers : request'[q].pc # "idle" => IsReview(request[q].decisions)'
    BY <1>1, <1>2, <1>3, RequestsStay DEF IInv
  <1>6. IsReview(conclusion)'
    <2>1. PICK e : e = d
      OBVIOUS
    <2>2. IsReview(e)'
      BY <1>1, <1>2, <2>1, ReviewStays
    <2>3. QED
      BY <1>1, <1>2, <2>1, <2>2 DEF IsReview
  <1>7. AnswersAgree'
    BY <1>1, <1>2, <1>3 DEF IInv, GateIsConcluded, AnswersAgree, RequestMoves
  <1>8. GateIsConcluded'
    BY <1>1, <1>2, <1>4, <1>5, <1>6, <1>7 DEF IInv, GateIsConcluded, At, NoDecisions, Empty
  <1>9. QED
    BY <1>1, <1>3, <1>8, GateWrites DEF RequestMoves, IInv, ShapeOK

-----------------------------------------------------------------------------
(* data.publish                                                            *)

\* The batch has one row for each record that is to be published.
LEMMA OrderFacts ==
    ASSUME ReviewAssumption, NEW order \in SetToSeqs(ToPublish)
    PROVE  /\ \E m \in Nat : DOMAIN order = 1..m
           /\ \A n \in DOMAIN order : order[n] \in ToPublish
           /\ \A i \in ToPublish : \E n \in DOMAIN order : order[n] = i
           /\ \A m, n \in DOMAIN order : order[m] = order[n] => m = n
  <1> DEFINE S == ToPublish
             D == 1..Cardinality(S)
  <1>1. IsFiniteSet(S)
    <2>1. IsFiniteSet(Ordinals)
      BY FS_Interval DEF Ordinals, ReviewAssumption
    <2>2. ToPublish \subseteq Ordinals
      BY DEF ToPublish
    <2>3. QED
      BY <2>1, <2>2, FS_Subset
  <1> HIDE DEF S
  <1>2. Cardinality(S) \in Nat
    BY <1>1, FS_CardinalityType
  <1>3. order \in [D -> S] /\ \A i, j \in D : i # j => order[i] # order[j]
    BY DEF SetToSeqs, S
  <1>4. order \in Injection(D, S)
    BY <1>3 DEF Injection, IsInjective
  <1>5. IsFiniteSet(D) /\ Cardinality(D) = Cardinality(S)
    BY <1>2, FS_Interval
  <1>6. order \in Surjection(D, S)
    BY <1>1, <1>4, <1>5, FS_Injection
  <1>7. \A i \in S : \E n \in D : order[n] = i
    BY <1>6 DEF Surjection
  <1>8. QED
    BY <1>2, <1>3, <1>7 DEF S

\* What is appended has been approved at a gate that is passed, and its keys
\* are not in the dataset: a record that was valid when it was approved is
\* refused when another run has appended its key meanwhile.
LEMMA PublishStep ==
    ASSUME ReviewAssumption, IInv, NEW k \in 1..MaxAttempt, Publish(k)
    PROVE  IInv'
  <1> DEFINE c == call[<<"publish", k>>]
  <1>1. /\ At("publish", k, "begun")
        /\ \A i \in ToPublish : Publishable(i)
        /\ call' = [call EXCEPT ![<<"publish", k>>].pc = "answered"]
        /\ UNCHANGED <<fence, draft, tset, vset, gate, conclusion, request>>
    BY DEF Publish
  <1>2. gate = "succeeded" /\ conclusion # NoDecisions
    BY <1>1 DEF IInv, GateIsConcluded, At
  <1>3. CallMoves("publish", k, "answered", c.through, c.plan)
    BY <1>1, SetPC DEF IInv, CallPC, Steps
  <1>4. /\ \A j \in 1..MaxAttempt : call'[<<"transform", j>>] = call[<<"transform", j>>]
        /\ \A j \in 1..MaxAttempt : call'[<<"validate", j>>] = call[<<"validate", j>>]
    BY <1>3 DEF CallMoves, Steps
  <1>5. /\ RowsGrow /\ IsSeq(rows)' /\ \A n \in DOMAIN rows' : IsRow(rows'[n])
        /\ PublishedAsConcluded'
    <2>1. CASE rows' = rows
      BY <1>1, <2>1, Unwritten, PublishedFrame, UnchangedRowsGrow DEF IInv, ShapeOK, IsSeq
    <2>2. CASE /\ \A i \in ToPublish : \A n \in DOMAIN rows : rows[n].key # StoredKey(i)
               /\ \A i, j \in ToPublish : StoredKey(i) = StoredKey(j) => i = j
               /\ \E order \in SetToSeqs(ToPublish) :
                     rows' = rows \o [n \in DOMAIN order |-> [key |-> StoredKey(order[n]), of |-> order[n]]]
      <3>1. PICK order \in SetToSeqs(ToPublish) :
               rows' = rows \o [n \in DOMAIN order |-> [key |-> StoredKey(order[n]), of |-> order[n]]]
        BY <2>2
      <3> DEFINE added == [n \in DOMAIN order |-> [key |-> StoredKey(order[n]), of |-> order[n]]]
      <3>2. /\ \A n \in DOMAIN order : order[n] \in ToPublish
            /\ \A i \in ToPublish : \E n \in DOMAIN order : order[n] = i
            /\ \A m, n \in DOMAIN order : order[m] = order[n] => m = n
        BY OrderFacts
      <3>3. PICK m \in Nat : DOMAIN order = 1..m
        BY OrderFacts
      <3>4. added = [n \in 1..m |-> added[n]] /\ DOMAIN added = DOMAIN order
        BY <3>3
      <3>5. \A n \in DOMAIN order :
               /\ added[n] = [key |-> added[n].key, of |-> added[n].of]
               /\ added[n].key = StoredKey(order[n]) /\ added[n].of = order[n]
        OBVIOUS
      <3> HIDE DEF added
      <3>6. IsSeq(added)
        BY <3>3, <3>4, RowsOfFunction
      <3>7. ASSUME NEW n \in DOMAIN added
            PROVE  /\ IsRow(added[n])
                   /\ conclusion # NoDecisions /\ added[n].of \in ToPublish
                   /\ Publishable(added[n].of) /\ added[n].key = StoredKey(added[n].of)
                   /\ \A j \in DOMAIN rows : rows[j].key # added[n].key
                   /\ \A j \in DOMAIN added : added[j].key = added[n].key => j = n
        <4>1. order[n] \in ToPublish /\ order[n] \in 0..Count
          BY <3>2, <3>4 DEF ToPublish, Ordinals, ReviewAssumption
        <4>2. IsRow(added[n])
          BY <3>4, <3>5, <4>1 DEF IsRow
        <4>3. ASSUME NEW j \in DOMAIN added, added[j].key = added[n].key PROVE j = n
          <5>1. order[j] \in ToPublish /\ StoredKey(order[j]) = StoredKey(order[n])
            BY <3>2, <3>4, <3>5, <4>3
          <5>2. order[j] = order[n]
            BY <2>2, <4>1, <5>1
          <5>3. QED
            BY <3>2, <3>4, <5>2
        <4>4. \A j \in DOMAIN rows : rows[j].key # added[n].key
          <5>1. added[n].key = StoredKey(order[n])
            BY <3>4, <3>5
          <5>2. \A j \in DOMAIN rows : rows[j].key # StoredKey(order[n])
            BY <2>2, <4>1
          <5>3. QED
            BY <5>1, <5>2
        <4>5. Publishable(added[n].of) /\ added[n].of \in ToPublish /\ added[n].key = StoredKey(added[n].of)
          BY <1>1, <3>4, <3>5, <4>1
        <4>6. QED
          BY <1>2, <4>2, <4>3, <4>4, <4>5
      <3>8. ASSUME NEW i \in ToPublish PROVE \E n \in DOMAIN added : added[n].of = i
        <4>1. PICK n \in DOMAIN order : order[n] = i
          BY <3>2
        <4>2. n \in DOMAIN added /\ added[n].of = i
          BY <3>4, <3>5, <4>1
        <4>3. QED
          BY <4>2
      <3>9. rows' = rows \o added
        BY <3>1 DEF added
      <3>10. QED
        BY <1>1, <3>6, <3>7, <3>8, <3>9, AppendKeepsRows
    <2>3. QED
      BY <2>1, <2>2 DEF Publish
  <1>6. ShapeOK'
    BY <1>1, <1>3, <1>5 DEF IInv, ShapeOK, CallMoves
  <1>7. TransformComesFirst'
    BY <1>1, <1>4, TransformFrame DEF IInv, TransformComesFirst, At
  <1>8. ValidationsAgree'
    BY <1>1, <1>4, <1>5, ValidationsFrame DEF IInv
  <1>9. ValidationComesFirst'
    BY <1>1, <1>4, ValidationFirstFrame DEF IInv, ValidationComesFirst, At
  <1>10. GateIsConcluded'
    BY <1>1, <1>2, GateFrame DEF IInv, At
  <1>11. QED
    BY <1>5, <1>6, <1>7, <1>8, <1>9, <1>10 DEF IInv

-----------------------------------------------------------------------------
(* The invariant                                                           *)

\* Nothing has been claimed, computed, decided or published.
LEMMA InitHolds ==
    ASSUME ReviewAssumption, Init
    PROVE  IInv
  <1>1. /\ fence \in [Steps -> Nodes!Fence]
        /\ \A n \in Steps : fence[n].phase # "final"
    BY DEF Init, Nodes!Init, Nodes!Fence, ReviewAssumption
  <1>2. DOMAIN Empty = {} /\ Empty = [i \in DOMAIN Empty |-> Empty[i]]
    BY DEF Empty
  <1>3. /\ IsSet(NoSet) /\ NoSet.status = "none" /\ NoSet.through = 0 /\ DOMAIN NoSet.result = {}
    BY <1>2 DEF IsSet, NoSet
  <1>4. IsCall(Idle) /\ Idle.pc = "none" /\ Idle.through = 0
    BY <1>2 DEF IsCall, Idle, CallPC
  <1>5. /\ tset = NoSet /\ vset = NoSet /\ rows = <<>> /\ gate = "waiting" /\ conclusion = NoDecisions
        /\ call = [c \in Executions |-> Idle]
        /\ request = [r \in Reviewers |-> [pc |-> "idle", decisions |-> NoDecisions]]
    BY DEF Init, Executions
  <1>6. IsSeq(rows) /\ DOMAIN rows = {} /\ Len(rows) = 0
    BY <1>5 DEF IsSeq
  <1>7. \A n \in Steps, k \in 1..MaxAttempt : call[<<n, k>>] = Idle
    BY <1>5 DEF Executions
  <1>8. \A r \in Reviewers : IsRequest(request[r]) /\ request[r].pc = "idle"
    BY <1>5 DEF IsRequest
  <1>9. ShapeOK
    BY <1>1, <1>3, <1>4, <1>5, <1>6, <1>8 DEF ShapeOK
  <1>10. TransformComesFirst
    BY <1>1, <1>3, <1>4, <1>5, <1>7 DEF TransformComesFirst, At, Steps
  <1>11. ValidationsAgree
    BY <1>3, <1>4, <1>5, <1>6, <1>7 DEF ValidationsAgree, SavedResultsAreReproducible, At, Steps
  <1>12. ValidationComesFirst
    BY <1>1, <1>3, <1>4, <1>5, <1>7 DEF ValidationComesFirst, At, Steps
  <1>13. GateIsConcluded
    BY <1>4, <1>5, <1>7, <1>8 DEF GateIsConcluded, AnswersAgree, At, Steps
  <1>14. PublishedAsConcluded
    BY <1>6 DEF PublishedAsConcluded, Published, KeysAreUnique
  <1>15. QED
    BY <1>9, <1>10, <1>11, <1>12, <1>13, <1>14 DEF IInv

\* A stuttering step changes nothing that the invariant is about.
LEMMA StutterHolds ==
    ASSUME ReviewAssumption, IInv, UNCHANGED vars
    PROVE  IInv'
  <1>1. UNCHANGED <<fence, draft, tset, vset, rows, gate, conclusion, call, request>>
    BY DEF vars
  <1>2. GateIsConcluded'
    BY <1>1, GateFrame DEF IInv, At
  <1>3. request' = [r \in Reviewers |-> request'[r]] /\ \A r \in Reviewers : IsRequest(request'[r])
    BY <1>1 DEF IInv, ShapeOK
  <1>4. gate' \in {"waiting", "awaiting", "succeeded", "cancelled"}
    BY <1>1 DEF IInv, ShapeOK
  <1>5. QED
    BY <1>1, <1>2, <1>3, <1>4, GateWrites

\* Every step keeps the invariant.
LEMMA NextHolds ==
    ASSUME ReviewAssumption, IInv, [Next]_vars
    PROVE  IInv'
  <1>1. ASSUME NEW n \in Steps, Claim(n) \/ Lose(n) PROVE IInv'
    BY <1>1, ClaimStep, LoseStep
  <1>2. ASSUME NEW n \in Steps, NEW k \in 1..MaxAttempt, Settle(n, k) PROVE IInv'
    BY <1>2, SettleStep
  <1>3. ASSUME NEW key \in OtherKeys, OthersAppend(key) PROVE IInv'
    BY <1>3, OthersAppendStep
  <1>4. ASSUME NEW k \in 1..MaxAttempt, BeginTransform(k) \/ SaveTransformed(k) PROVE IInv'
    BY <1>4, BeginTransformStep, SaveTransformedStep
  <1>5. ASSUME NEW k \in 1..MaxAttempt,
               ReadDataset(k) \/ BeginValidation(k) \/ PlanValidation(k) \/ SaveValidation(k)
        PROVE  IInv'
    BY <1>5, ReadDatasetStep, BeginValidationStep, PlanValidationStep, SaveValidationStep
  <1>6. ASSUME NEW k \in 1..MaxAttempt, Publish(k) PROVE IInv'
    BY <1>6, PublishStep
  <1>7. CASE Await \/ Cancel
    BY <1>7, GateMovesStep
  <1>8. ASSUME NEW r \in Reviewers, Decide(r) \/ Conclude(r) \/ CompleteGate(r) PROVE IInv'
    BY <1>8, DecideStep, ConcludeStep, CompleteGateStep
  <1>9. CASE UNCHANGED vars
    BY <1>9, StutterHolds
  <1>10. QED
    BY <1>1, <1>2, <1>3, <1>4, <1>5, <1>6, <1>7, <1>8, <1>9 DEF Next

\* The inductive invariant holds in every reachable state.
THEOREM ReviewInvariant ==
    ASSUME ReviewAssumption
    PROVE  Spec => []IInv
  <1>1. Init => IInv
    BY InitHolds
  <1>2. IInv /\ [Next]_vars => IInv'
    BY NextHolds
  <1>3. QED
    BY <1>1, <1>2, PTL DEF Spec

-----------------------------------------------------------------------------
(* What follows                                                            *)

\* A decision about a validated record, and what publication makes of it.
LEMMA ApprovedFacts ==
    ASSUME ReviewAssumption, IInv, NEW n \in DOMAIN rows, rows[n].of # 0,
           NEW i, i = rows[n].of, conclusion[i].action # "edit"
    PROVE  /\ i \in Ordinals /\ conclusion[i].action = "approve"
           /\ rows[n].key = KeyOf(i) /\ KeyOf(i) # NoKey
           /\ vset.result[i] = Result(i, ExistingKeys(vset.through))
           /\ n > vset.through
  <1>1. RowIsApproved(n)
    BY DEF IInv, PublishedAsConcluded
  <1>2. /\ i \in Ordinals /\ conclusion[i].action # "exclude"
        /\ StoredKey(i) # NoKey /\ StoredKey(i) = conclusion[i].key
        /\ rows[n].key = StoredKey(i) /\ n > vset.through
    BY <1>1 DEF RowIsApproved, ToPublish, Publishable
  <1>3. IsReview(conclusion)
    BY <1>1 DEF IInv, GateIsConcluded, RowIsApproved
  <1>4. conclusion[i] \in Decisions(i)
    BY <1>2, <1>3 DEF IsReview
  <1>5. conclusion[i].action = "approve" /\ conclusion[i].key = vset.result[i].key
    <2>1. PICK d : d = conclusion[i]
      OBVIOUS
    <2>2. d \in Decisions(i) /\ d.action # "exclude" /\ d.action # "edit"
      BY <1>2, <1>4, <2>1
    <2>3. d.action = "approve" /\ d.key = vset.result[i].key
      <3>1. \/ d = [action |-> "approve", fields |-> vset.result[i].fields, key |-> vset.result[i].key]
            \/ d = [action |-> "exclude", fields |-> vset.result[i].fields, key |-> NoKey]
            \/ \E e \in Edits : d = [action |-> "edit", fields |-> e, key |-> ItemKey(e)]
        BY <2>2 DEF Decisions
      <3>2. QED
        BY <2>2, <3>1
    <2>4. QED
      BY <2>1, <2>3
  <1>6. vset.result[i] = Result(i, ExistingKeys(vset.through))
    BY <1>2, <1>3 DEF IsReview, IInv, ValidationComesFirst, ValidationsAgree,
       SavedResultsAreReproducible
  <1>7. vset.result[i].key = KeyOf(i)
    BY <1>6 DEF Result
  <1>8. QED
    BY <1>2, <1>5, <1>6, <1>7

\* However the dataset grows between the attempts of a validation, what one
\* attempt has saved is what another one computes, for all drafts, rules and
\* datasets: the second never meets an immutable result that differs
\* (SaveValidationResult), and the set can always be completed.
THEOREM SavedResultsReproducible ==
    ASSUME ReviewAssumption
    PROVE  Spec => []SavedResultsAreReproducible
  <1>1. IInv => SavedResultsAreReproducible
    BY DEF IInv, ValidationsAgree
  <1>2. QED
    BY <1>1, ReviewInvariant, PTL

\* What is published as it is has an identity, and what has an error has none.
LEMMA UnsoundStays ==
    ASSUME ReviewAssumption, IInv
    PROVE  UnsoundNeverPublished
  <1> SUFFICES ASSUME NEW n \in DOMAIN rows, rows[n].of # 0, NEW i, i = rows[n].of,
                      conclusion[i].action # "edit"
               PROVE  conclusion[i].action = "approve" /\ "error" \notin Severities(Record(i))
    BY DEF UnsoundNeverPublished
  <1>1. conclusion[i].action = "approve" /\ KeyOf(i) # NoKey
    BY ApprovedFacts
  <1>2. QED
    BY <1>1 DEF KeyOf

\* A record with an error is in the dataset only with the fields that the
\* reviewer has entered for it: whoever approves it as it is, with any number
\* of requests, is stopped by the identity that PublishApprovedRecords
\* recomputes.
THEOREM UnsoundStaysOut ==
    ASSUME ReviewAssumption
    PROVE  Spec => []UnsoundNeverPublished
  <1>1. IInv => UnsoundNeverPublished
    BY UnsoundStays
  <1>2. QED
    BY <1>1, ReviewInvariant, PTL

\* Whichever requests complete the gate, with whatever decisions and in any
\* order: who is told to have completed it sees its decisions stored, and
\* they are what is published (CreateApprovedRecordSet, Complete).
THEOREM GateAnswersAgree ==
    ASSUME ReviewAssumption
    PROVE  Spec => []AnswersAgree
  <1>1. IInv => AnswersAgree
    BY DEF IInv, GateIsConcluded
  <1>2. QED
    BY <1>1, ReviewInvariant, PTL

\* Finished sets are not written to, and there is one conclusion.
LEMMA NextKeepsReviewed ==
    ASSUME [Next]_vars
    PROVE  KeepsReviewedData
  <1>1. ASSUME NEW n \in Steps, Claim(n) \/ Lose(n) PROVE KeepsReviewedData
    BY <1>1 DEF Claim, Lose, KeepsReviewedData
  <1>2. ASSUME NEW n \in Steps, NEW k \in 1..MaxAttempt, Settle(n, k) PROVE KeepsReviewedData
    BY <1>2 DEF Settle, KeepsReviewedData
  <1>3. ASSUME NEW key \in OtherKeys, OthersAppend(key) PROVE KeepsReviewedData
    BY <1>3 DEF OthersAppend, KeepsReviewedData
  <1>4. ASSUME NEW k \in 1..MaxAttempt, BeginTransform(k) PROVE KeepsReviewedData
    BY <1>4 DEF BeginTransform, Begun, KeepsReviewedData
  <1>5. ASSUME NEW k \in 1..MaxAttempt, SaveTransformed(k) PROVE KeepsReviewedData
    <2>1. tset.status = "running" /\ UNCHANGED <<vset, conclusion>>
      BY <1>5 DEF SaveTransformed, Save, Finish, Writable
    <2>2. QED
      BY <2>1 DEF KeepsReviewedData
  <1>6. ASSUME NEW k \in 1..MaxAttempt, ReadDataset(k) \/ PlanValidation(k) \/ Publish(k)
        PROVE  KeepsReviewedData
    BY <1>6 DEF ReadDataset, PlanValidation, Publish, KeepsReviewedData
  <1>7. ASSUME NEW k \in 1..MaxAttempt, BeginValidation(k) PROVE KeepsReviewedData
    BY <1>7 DEF BeginValidation, Begun, KeepsReviewedData
  <1>8. ASSUME NEW k \in 1..MaxAttempt, SaveValidation(k) PROVE KeepsReviewedData
    <2>1. vset.status = "running" /\ UNCHANGED <<tset, conclusion>>
      BY <1>8 DEF SaveValidation, Save, Finish, Writable
    <2>2. QED
      BY <2>1 DEF KeepsReviewedData
  <1>9. CASE Await \/ Cancel
    BY <1>9 DEF Await, Cancel, KeepsReviewedData
  <1>10. ASSUME NEW r \in Reviewers, Decide(r) \/ Conclude(r) \/ CompleteGate(r)
         PROVE  KeepsReviewedData
    BY <1>10 DEF Decide, Conclude, CompleteGate, KeepsReviewedData
  <1>11. CASE UNCHANGED vars
    BY <1>11 DEF vars, KeepsReviewedData
  <1>12. QED
    BY <1>1, <1>2, <1>3, <1>4, <1>5, <1>6, <1>7, <1>8, <1>9, <1>10, <1>11 DEF Next

\* No step changes finished records, finished results or the conclusion.
THEOREM ReviewedDataFrozen == Spec => ReviewedDataIsFrozen
  <1>1. [Next]_vars => KeepsReviewedData
    BY NextKeepsReviewed
  <1>2. QED
    BY <1>1, PTL DEF Spec, ReviewedDataIsFrozen

\* A record that the validation found invalid, or in conflict with a row of
\* the dataset, is not published as it is.
ConflictsStayOut ==
    \A n \in DOMAIN rows : rows[n].of # 0 =>
        LET i == rows[n].of
        IN  conclusion[i].action = "edit" \/ vset.result[i].status \notin {"invalid", "conflict"}

\* The gate accepts the approval of a record in any status.  One that
\* conflicts with the dataset at the position of the validation never gets
\* in by it: its key is still there when the batch is committed.
THEOREM ConflictsNeverPublished ==
    ASSUME ReviewAssumption
    PROVE  Spec => []ConflictsStayOut
  <1>1. ASSUME IInv PROVE ConflictsStayOut
    <2> SUFFICES ASSUME NEW n \in DOMAIN rows, rows[n].of # 0, NEW i, i = rows[n].of,
                        conclusion[i].action # "edit"
                 PROVE  vset.result[i].status \notin {"invalid", "conflict"}
      BY DEF ConflictsStayOut
    <2> DEFINE existing == ExistingKeys(vset.through)
    <2>1. /\ rows[n].key = KeyOf(i) /\ KeyOf(i) # NoKey /\ n > vset.through
          /\ vset.result[i] = Result(i, existing)
      BY <1>1, ApprovedFacts
    <2>2. KeyOf(i) \notin existing
      <3> SUFFICES ASSUME KeyOf(i) \in existing PROVE FALSE
        OBVIOUS
      <3>1. PICK m \in DOMAIN rows : m <= vset.through /\ rows[m].key = KeyOf(i)
        BY DEF ExistingKeys
      <3>2. m = n
        BY <1>1, <2>1, <3>1 DEF IInv, PublishedAsConcluded, KeysAreUnique
      <3>3. vset.through \in Nat /\ n \in Nat
        BY <1>1, SeqOfItsValues DEF IInv, ShapeOK, IsSet, IsSeq
      <3>4. QED
        BY <2>1, <3>1, <3>2, <3>3
    <2> HIDE DEF existing
    <2>3. vset.result[i].status = Status(i, existing)
      BY <2>1 DEF Result
    <2>4. QED
      BY <2>1, <2>2, <2>3 DEF Status
  <1>2. QED
    BY <1>1, ReviewInvariant, PTL

\* The dataset has all records that the conclusion publishes or none, each
\* in one row, and no key twice.
PublishedOnce ==
    /\ Published => {rows[n].of : n \in DOMAIN rows} \ {0} = ToPublish
    /\ \A m, n \in DOMAIN rows : rows[m].of = rows[n].of /\ rows[m].of # 0 => m = n
    /\ KeysAreUnique

\* Every attempt of data.publish may commit, and be taken over when it has:
\* what is in the dataset is exactly what was concluded, once.
THEOREM ConclusionPublishedOnce ==
    ASSUME ReviewAssumption
    PROVE  Spec => []PublishedOnce
  <1>1. ASSUME IInv PROVE PublishedOnce
    <2>1. \A n \in DOMAIN rows : rows[n].of # 0 => rows[n].of \in ToPublish /\ rows[n].key = StoredKey(rows[n].of)
      BY <1>1 DEF IInv, PublishedAsConcluded, RowIsApproved
    <2>2. KeysAreUnique /\ (Published => \A i \in ToPublish : \E n \in DOMAIN rows : rows[n].of = i)
      BY <1>1 DEF IInv, PublishedAsConcluded
    <2>3. 0 \notin ToPublish
      BY DEF ToPublish, Ordinals, ReviewAssumption
    <2>4. ASSUME NEW m \in DOMAIN rows, NEW n \in DOMAIN rows, rows[m].of = rows[n].of, rows[m].of # 0
          PROVE  m = n
      <3>1. rows[m].key = rows[n].key
        BY <2>1, <2>4
      <3>2. QED
        BY <2>2, <3>1 DEF KeysAreUnique
    <2>5. QED
      BY <2>1, <2>2, <2>3, <2>4 DEF PublishedOnce
  <1>2. QED
    BY <1>1, ReviewInvariant, PTL

=============================================================================
