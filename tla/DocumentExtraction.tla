------------------------- MODULE DocumentExtraction -------------------------
(***************************************************************************)
(* From uploaded files to record drafts.  A node run of source.parse fills *)
(* a parsed document set, one item per file, from a cache of documents     *)
(* that all runs share; a node run of document.extract splits the          *)
(* documents of such a set into units and has an agent turn each unit into *)
(* drafts.                                                                 *)
(*                                                                         *)
(* A node run has one set.  Each attempt begins by taking the set over and *)
(* keeps what succeeded; a call is the execution of one attempt and goes   *)
(* on after its lease ended until a fence stops it.  A call that a check   *)
(* rejects, whose statement fails or whose process dies takes no further   *)
(* step.                                                                   *)
(*                                                                         *)
(* A document has one unit.  The key of a unit is a hash over the ids of   *)
(* its blocks, so it is the document and the parse that wrote its blocks.  *)
(***************************************************************************)
EXTENDS Integers, FiniteSets

CONSTANTS
    Assets,      \* the files of the asset set, by ordinal
    Parsers,     \* node runs of source.parse
    Extractors,  \* node runs of document.extract
    DocumentsOf, \* the node run that binds the documents of each extractor
    MaxAttempt,  \* bound: a node run is not claimed more often than this
    MaxParses    \* bound: a document is not saved as parsed more often than this

ExtractionAssumption ==
    /\ Assets \subseteq Nat /\ IsFiniteSet(Assets) /\ Assets # {}
    /\ Parsers \cap Extractors = {}
    /\ DocumentsOf \in [Extractors -> Parsers]
    /\ MaxAttempt \in Nat /\ MaxParses \in Nat

VARIABLES
    fence,  \* workflow_node_runs, as far as the services look at it
    doc,    \* parsed_documents with their blocks, of one parser version
    pset,   \* parsed_document_sets with their items
    dset,   \* record_draft_sets with their units and drafts
    call    \* the execution of each attempt of each node run

vars == <<fence, doc, pset, dset, call>>

Producers == Parsers \cup Extractors

Nodes == INSTANCE NodeFence WITH Nodes <- Producers

\* parse: how often its blocks were written.
Document == [status : {"none", "failed", "succeeded"}, parse : 0..MaxParses]

SetStatus == {"none", "running", "succeeded", "partial", "failed"}

ParsedSet == [attempt : 0..MaxAttempt, status : SetStatus,
              item : [Assets -> {"pending", "succeeded", "failed"}]]

Units == Assets \X (1..MaxParses)

\* count: the number of units planned when the set was created.
DraftSet == [attempt : 0..MaxAttempt, status : SetStatus, count : Nat,
             unit : [Units -> {"none", "pending", "running", "succeeded", "failed"}],
             drafts : SUBSET Units]

(* "begun": about to begin its set.  "looping": between two items or       *)
(* units.  "reading": the cache had no document.  "recording": the item's  *)
(* outcome is known.  "locked": finalisation has checked the lease and     *)
(* holds the row of the set.  "planned": the units are computed.           *)
(* "extracting": the agent works on a unit.                                *)
CallPC == {"none", "begun", "looping", "reading", "recording", "locked",
           "planned", "extracting", "answered"}

\* todo, plan: files and units not done yet; outcome: of the current file.
Call == [pc : CallPC, todo : SUBSET Assets, plan : SUBSET Units,
         outcome : {"succeeded", "failed"}]

Init ==
    /\ Nodes!Init
    /\ doc = [a \in Assets |-> [status |-> "none", parse |-> 0]]
    /\ pset = [n \in Parsers |-> [attempt |-> 0, status |-> "none",
                                  item |-> [a \in Assets |-> "pending"]]]
    /\ dset = [n \in Extractors |-> [attempt |-> 0, status |-> "none", count |-> 0,
                                     unit |-> [u \in Units |-> "none"], drafts |-> {}]]
    /\ call = [c \in Producers \X (1..MaxAttempt) |->
                 [pc |-> "none", todo |-> {}, plan |-> {}, outcome |-> "failed"]]

At(n, k, pc) == call[<<n, k>>].pc = pc
MoveTo(n, k, pc) == call' = [call EXCEPT ![<<n, k>>].pc = pc]

\* Items are worked on in the order of their ordinals.
Current(n, k) ==
    CHOOSE a \in call[<<n, k>>].todo : \A b \in call[<<n, k>>].todo : a <= b
CurrentUnit(n, k) ==
    CHOOSE u \in call[<<n, k>>].plan : \A v \in call[<<n, k>>].plan : u[1] <= v[1]

-----------------------------------------------------------------------------
(* The node runs *)

\* The extractor's input is bound when the node before it has succeeded.
Claim(n) ==
    /\ n \in Extractors => fence[DocumentsOf[n]].phase = "final"
    /\ Nodes!Claim(n)
    /\ call' = [call EXCEPT ![<<n, fence[n].attempt + 1>>].pc = "begun"]
    /\ UNCHANGED <<doc, pset, dset>>

Lose(n) ==
    /\ Nodes!Lose(n)
    /\ UNCHANGED <<doc, pset, dset, call>>

\* The executor answered and the worker completes the node.
Settle(n, k) ==
    /\ At(n, k, "answered")
    /\ Nodes!Live(n, k)
    /\ Nodes!Settle(n)
    /\ UNCHANGED <<doc, pset, dset, call>>

-----------------------------------------------------------------------------
(* source.parse *)

\* A finalisation holds the row of the set.
Locked(n) == \E k \in 1..MaxAttempt : At(n, k, "locked")

\* BeginParsedDocumentSet and the read of the items after it.
BeginParsedSet(n, k) ==
    LET old == pset[n]
        kept == {a \in Assets : old.item[a] = "succeeded"}
    IN  /\ At(n, k, "begun")
        /\ Nodes!Live(n, k)
        /\ ~ Locked(n)
        /\ old.attempt <= k
        /\ pset' = [pset EXCEPT ![n] =
             [attempt |-> k, status |-> IF old.attempt < k THEN "running" ELSE old.status,
              item |-> IF old.attempt < k
                       THEN [a \in Assets |-> IF a \in kept THEN "succeeded" ELSE "pending"]
                       ELSE old.item]]
        /\ call' = [call EXCEPT ![<<n, k>>].pc = "looping", ![<<n, k>>].todo = Assets \ kept]
        /\ UNCHANGED <<fence, doc, dset>>

\* GetParsedDocument: the cache is read.
LookUp(n, k) ==
    LET cached == doc[Current(n, k)].status = "succeeded"
    IN  /\ At(n, k, "looping")
        /\ call[<<n, k>>].todo # {}
        /\ call' = [call EXCEPT ![<<n, k>>].pc = IF cached THEN "recording" ELSE "reading",
                                ![<<n, k>>].outcome = IF cached THEN "succeeded" ELSE "failed"]
        /\ UNCHANGED <<fence, doc, pset, dset>>

\* SaveParsedDocument: success replaces the blocks, failure never a success.
Saved(old, outcome) ==
    IF outcome = "succeeded" THEN [status |-> "succeeded", parse |-> old.parse + 1]
    ELSE IF old.status = "succeeded" THEN old
    ELSE [old EXCEPT !.status = "failed"]

\* parseAsset and SaveParsedDocument, which no fence guards.
Parse(n, k, outcome) ==
    LET a == Current(n, k)
    IN  /\ At(n, k, "reading")
        /\ outcome = "succeeded" => doc[a].parse < MaxParses
        /\ doc' = [doc EXCEPT ![a] = Saved(@, outcome)]
        /\ call' = [call EXCEPT ![<<n, k>>].pc = "recording",
                                ![<<n, k>>].outcome = doc'[a].status]
        /\ UNCHANGED <<fence, pset, dset>>

\* The conditions of the UPDATE on the item.
Recordable(n, k) ==
    /\ Nodes!Live(n, k)
    /\ pset[n].attempt = k
    /\ pset[n].status = "running"

\* RecordParsedDocumentSetItem: one statement.
RecordItem(n, k) ==
    LET a == Current(n, k)
    IN  /\ At(n, k, "recording")
        /\ Recordable(n, k)
        /\ pset' = [pset EXCEPT ![n].item[a] = call[<<n, k>>].outcome]
        /\ call' = [call EXCEPT ![<<n, k>>].pc = "looping", ![<<n, k>>].todo = @ \ {a}]
        /\ UNCHANGED <<fence, doc, dset>>

NothingPending(set) == \A a \in Assets : set.item[a] # "pending"

\* FinalizeParsedDocumentSet locks the set, and reads the lease unlocked.
CheckLease(n, k) ==
    /\ At(n, k, "looping")
    /\ call[<<n, k>>].todo = {}
    /\ n \in Parsers
    /\ ~ Locked(n)
    /\ Recordable(n, k)
    /\ NothingPending(pset[n])
    /\ MoveTo(n, k, "locked")
    /\ UNCHANGED <<fence, doc, pset, dset>>

\* The status of a finished set whose members have these outcomes.
Summary(outcomes) ==
    IF "failed" \notin outcomes THEN "succeeded"
    ELSE IF "succeeded" \in outcomes THEN "partial" ELSE "failed"

FinishParsedSet(n, k) ==
    /\ At(n, k, "locked")
    /\ pset' = [pset EXCEPT ![n].status = Summary({pset[n].item[a] : a \in Assets})]
    /\ MoveTo(n, k, "answered")
    /\ UNCHANGED <<fence, doc, dset>>

\* The process dies inside the transaction.
RollBack(n, k) ==
    /\ At(n, k, "locked")
    /\ MoveTo(n, k, "none")
    /\ UNCHANGED <<fence, doc, pset, dset>>

-----------------------------------------------------------------------------
(* document.extract *)

\* planUnits: the documents as they are now.
Plan(n, k) ==
    LET set == pset[DocumentsOf[n]]
    IN  /\ At(n, k, "begun")
        /\ n \in Extractors
        /\ set.status # "running"
        /\ call' = [call EXCEPT ![<<n, k>>].pc = "planned",
             ![<<n, k>>].plan = {<<a, doc[a].parse>> : a \in {b \in Assets : set.item[b] = "succeeded"}}]
        /\ UNCHANGED <<fence, doc, pset, dset>>

\* A newer attempt takes the units back that have not succeeded.
Reset(set, k) ==
    LET kept == {u \in Units : set.unit[u] = "succeeded"}
    IN  [set EXCEPT !.attempt = k, !.status = "running",
                    !.drafts = @ \cap kept,
                    !.unit = [u \in Units |-> IF set.unit[u] = "none" \/ u \in kept THEN set.unit[u] ELSE "pending"]]

\* BeginRecordDraftSet and the read of the units after it.  The set is
\* created by the first attempt; later plans must have as many units.
BeginDraftSet(n, k) ==
    LET plan == call[<<n, k>>].plan
        old == dset[n]
        set == IF old.attempt < k THEN Reset(old, k) ELSE old
    IN  /\ At(n, k, "planned")
        /\ Nodes!Live(n, k)
        /\ old.attempt <= k
        /\ old.attempt # 0 => old.count = Cardinality(plan)
        /\ dset' = [dset EXCEPT ![n] =
             [set EXCEPT !.count = Cardinality(plan),
                         !.unit = [u \in Units |-> IF u \in plan /\ set.unit[u] = "none" THEN "pending" ELSE set.unit[u]]]]
        /\ call' = [call EXCEPT ![<<n, k>>].pc = "looping",
                                ![<<n, k>>].plan = {u \in plan : set.unit[u] # "succeeded"}]
        /\ UNCHANGED <<fence, doc, pset>>

\* lockWritableRecordDraftSet
Writable(n, k) ==
    /\ Nodes!Live(n, k)
    /\ dset[n].attempt = k
    /\ dset[n].status = "running"

StartUnit(n, k) ==
    LET u == CurrentUnit(n, k)
    IN  /\ At(n, k, "looping")
        /\ n \in Extractors
        /\ call[<<n, k>>].plan # {}
        /\ Writable(n, k)
        /\ dset' = [dset EXCEPT ![n].unit[u] = "running"]
        /\ MoveTo(n, k, "extracting")
        /\ UNCHANGED <<fence, doc, pset>>

\* CompleteExtractionUnit and FailExtractionUnit, when the agent has ended.
EndUnit(n, k, outcome) ==
    LET u == CurrentUnit(n, k)
    IN  /\ At(n, k, "extracting")
        /\ Writable(n, k)
        /\ dset' = [dset EXCEPT ![n].unit[u] = outcome,
                                ![n].drafts = IF outcome = "succeeded" THEN @ \cup {u} ELSE @]
        /\ call' = [call EXCEPT ![<<n, k>>].pc = "looping", ![<<n, k>>].plan = @ \ {u}]
        /\ UNCHANGED <<fence, doc, pset>>

Existing(set) == {u \in Units : set.unit[u] # "none"}

\* Mutant: the number of units is not compared with the plan.
WholePlanOfAnySize(set) ==
    \A u \in Existing(set) : set.unit[u] \in {"succeeded", "failed"}

\* No unit of any attempt is pending, and there are as many as were planned.
WholePlan(set) ==
    /\ \A u \in Existing(set) : set.unit[u] \in {"succeeded", "failed"}
    /\ Cardinality(Existing(set)) = set.count

\* FinalizeRecordDraftSet; a set without units has failed.
FinishDraftSet(n, k) ==
    LET set == dset[n]
    IN  /\ At(n, k, "looping")
        /\ n \in Extractors
        /\ call[<<n, k>>].plan = {}
        /\ Writable(n, k)
        /\ WholePlan(set)
        /\ dset' = [dset EXCEPT ![n].status =
             IF Existing(set) = {} THEN "failed" ELSE Summary({set.unit[u] : u \in Existing(set)})]
        /\ MoveTo(n, k, "answered")
        /\ UNCHANGED <<fence, doc, pset>>

ParseStep(n, k) ==
    \/ BeginParsedSet(n, k) \/ LookUp(n, k) \/ RecordItem(n, k)
    \/ CheckLease(n, k) \/ FinishParsedSet(n, k) \/ RollBack(n, k)
    \/ \E outcome \in {"succeeded", "failed"} : Parse(n, k, outcome)

ExtractStep(n, k) ==
    \/ Plan(n, k) \/ BeginDraftSet(n, k) \/ StartUnit(n, k) \/ FinishDraftSet(n, k)
    \/ \E outcome \in {"succeeded", "failed"} : EndUnit(n, k, outcome)

Next ==
    \/ \E n \in Producers : Claim(n) \/ Lose(n)
    \/ \E n \in Producers, k \in 1..MaxAttempt : Settle(n, k)
    \/ \E n \in Parsers, k \in 1..MaxAttempt : ParseStep(n, k)
    \/ \E n \in Extractors, k \in 1..MaxAttempt : ExtractStep(n, k)

Spec == Init /\ [][Next]_vars

-----------------------------------------------------------------------------
(* Properties *)

TypeOK ==
    /\ fence \in [Producers -> Nodes!Fence]
    /\ doc \in [Assets -> Document]
    /\ pset \in [Parsers -> ParsedSet]
    /\ dset \in [Extractors -> DraftSet]
    /\ call \in [Producers \X (1..MaxAttempt) -> Call]

\* When a node run has succeeded, whatever attempts, reparses and failures
\* were on the way, its set accounts for every file: each is a document that
\* is still readable or a failure, and each readable document of the parsed
\* set has exactly one unit, whose drafts are there if it succeeded.
FinishedSetsAreWhole ==
    /\ \A n \in Parsers : fence[n].phase = "final" =>
          \A a \in Assets :
             /\ pset[n].item[a] # "pending"
             /\ pset[n].item[a] = "succeeded" => doc[a].status = "succeeded"
    /\ \A n \in Extractors : fence[n].phase = "final" =>
          LET set == dset[n]
              source == pset[DocumentsOf[n]]
          IN  /\ \A a \in Assets :
                    Cardinality({u \in Existing(set) : u[1] = a}) =
                        IF source.item[a] = "succeeded" THEN 1 ELSE 0
              /\ set.drafts = {u \in Units : set.unit[u] = "succeeded"}

\* What a succeeded node run has produced is bound to the nodes after it and
\* never changes: no late transaction of an older attempt reaches it.
KeepsBoundSets ==
    /\ \A n \in Parsers : fence[n].phase = "final" => pset'[n] = pset[n]
    /\ \A n \in Extractors : fence[n].phase = "final" => dset'[n] = dset[n]

BoundSetsAreFrozen == [][KeepsBoundSets]_vars

=============================================================================
