------------------------------ MODULE Services ------------------------------
(***************************************************************************)
(* The components that stand beside the workflow runtime and share no      *)
(* data.  A behaviour is about the one component that focus names, with    *)
(* any values of the constants.  fence, call, request and part1 to part6   *)
(* are the variables of that component; the extraction agent and the       *)
(* platform configurations have variables of their own.                    *)
(*                                                                         *)
(* Where a component has a module of proofs, it is that module which is    *)
(* instantiated, so that its theorems speak of these instances.            *)
(***************************************************************************)
EXTENDS Integers, Sequences, FiniteSets

CONSTANTS
    None, MaxAttempt, Reviewers,
    NodeIds, NodeKinds, PortNames, Declarable, Fields,           \* DraftEditor
    Assets, Parsers, Extractors, DocumentsOf, MaxParses,         \* DocumentExtraction
    Schema, Normalizations, Validations, KeyFields,              \* RecordCleaning
    Clean, Reads, Plain, Numeric, Integral,
    DraftCount, DraftLists, Edits, OtherKeys, MaxOthers,         \* RecordReview
    Builders, Boundary, Models, PageSize,                        \* RetrievalSnapshot
    SearchItems, Chunks, Weights, Limits, Oversample, ChunkCap,  \* RetrievalSearch
    Ranks, Scores,
    Outputs, Compact,                                            \* AnalysisDelivery
    Segments, Keys, Contents, MaxRecords, MaxIterations,         \* ExtractionAgent
    MaxCalls,
    Ids, ConfigNames, Values, Requests                           \* PlatformConfig

VARIABLES
    focus, fence, call, request, part1, part2, part3, part4, part5, part6,
    unit, saved, run, \* the extraction agent
    row, holder, off  \* the platform configurations

agentVars == <<unit, saved, run>>
platformVars == <<row, holder, off>>
vars == <<focus, fence, call, request, part1, part2, part3, part4, part5, part6,
          unit, saved, run, row, holder, off>>

Editor == INSTANCE DraftEditor WITH doc <- part1, Kinds <- NodeKinds

Documents == INSTANCE DocumentExtractionProofs WITH doc <- part1, pset <- part2, dset <- part3

Records == INSTANCE RecordReviewProofs WITH
    Count <- DraftCount, draft <- part1, tset <- part2, vset <- part3, rows <- part4, gate <- part5,
    conclusion <- part6

Snapshots == INSTANCE RetrievalSnapshotProofs WITH
    platform <- part1, lexical <- part2, chunk <- part3, snap <- part4

Search == INSTANCE RetrievalSearch WITH
    Items <- SearchItems, query <- part1, candidate <- part2, answer <- part3, pc <- part4

Delivery == INSTANCE AnalysisDeliveryProofs WITH
    checkpoint <- part1, result <- part2, approved <- part3, blobs <- part4, gate <- part5,
    artifact <- part6

Agent == INSTANCE ExtractionAgent

Platform == INSTANCE PlatformConfig

ServicesAssumption ==
    /\ Editor!EditorAssumption
    /\ Documents!ExtractionAssumption
    /\ Records!CleaningAssumption /\ Records!ReviewAssumption
    /\ Snapshots!RetrievalAssumption
    /\ Search!SearchAssumption
    /\ Delivery!DeliveryAssumption
    /\ Agent!AgentAssumption
    /\ Platform!ConfigAssumption

-----------------------------------------------------------------------------
(* One component at a time *)

NoAgent == unit = None /\ saved = None /\ run = None
NoPlatform == row = None /\ holder = None /\ off = None

Init ==
    \/ /\ focus = "editor" /\ Editor!Init /\ NoAgent /\ NoPlatform
       /\ fence = None /\ call = None /\ request = None
       /\ part2 = None /\ part3 = None /\ part4 = None /\ part5 = None /\ part6 = None
    \/ /\ focus = "documents" /\ Documents!Init /\ NoAgent /\ NoPlatform
       /\ request = None /\ part4 = None /\ part5 = None /\ part6 = None
    \/ /\ focus = "records" /\ Records!Init /\ NoAgent /\ NoPlatform
    \/ /\ focus = "snapshots" /\ Snapshots!Init /\ NoAgent /\ NoPlatform
       /\ request = None /\ part5 = None /\ part6 = None
    \/ /\ focus = "search" /\ Search!Init /\ NoAgent /\ NoPlatform
       /\ fence = None /\ call = None /\ request = None
       /\ part5 = None /\ part6 = None
    \/ /\ focus = "delivery" /\ Delivery!Init /\ NoAgent /\ NoPlatform
    \/ /\ focus = "agent" /\ Agent!Init /\ NoPlatform
       /\ fence = None /\ call = None /\ request = None
       /\ part1 = None /\ part2 = None /\ part3 = None
       /\ part4 = None /\ part5 = None /\ part6 = None
    \/ /\ focus = "platform" /\ Platform!Init /\ NoAgent
       /\ fence = None /\ call = None
       /\ part1 = None /\ part2 = None /\ part3 = None
       /\ part4 = None /\ part5 = None /\ part6 = None

Next ==
    /\ UNCHANGED focus
    /\ \/ /\ focus = "editor" /\ Editor!Next
          /\ UNCHANGED <<fence, call, request, part2, part3, part4, part5, part6>>
          /\ UNCHANGED <<agentVars, platformVars>>
       \/ /\ focus = "documents" /\ Documents!Next
          /\ UNCHANGED <<request, part4, part5, part6>> /\ UNCHANGED <<agentVars, platformVars>>
       \/ /\ focus = "records" /\ Records!Next
          /\ UNCHANGED <<agentVars, platformVars>>
       \/ /\ focus = "snapshots" /\ Snapshots!Next
          /\ UNCHANGED <<request, part5, part6>> /\ UNCHANGED <<agentVars, platformVars>>
       \/ /\ focus = "search" /\ Search!Next
          /\ UNCHANGED <<fence, call, request, part5, part6>>
          /\ UNCHANGED <<agentVars, platformVars>>
       \/ /\ focus = "delivery" /\ Delivery!Next
          /\ UNCHANGED <<agentVars, platformVars>>
       \/ /\ focus = "agent" /\ Agent!Next
          /\ UNCHANGED <<fence, call, request, part1, part2, part3, part4, part5, part6>>
          /\ UNCHANGED platformVars
       \/ /\ focus = "platform" /\ Platform!Next
          /\ UNCHANGED <<fence, call, part1, part2, part3, part4, part5, part6>>
          /\ UNCHANGED agentVars

Spec == Init /\ [][Next]_vars

-----------------------------------------------------------------------------
(* Properties, each with the types of the component it is about *)

\* A draft is never half-edited (draft_editor.go).
EditsKeepTheChain == focus = "editor" => Editor!EditsKeepTheChain

\* The sets of documents and of drafts of a succeeded node run are complete
\* (asset_repo.go, extraction_repo.go).
FinishedSetsAreWhole ==
    focus = "documents" => Documents!TypeOK /\ Documents!FinishedSetsAreWhole

\* "Manifests are bound as immutable resources": what a succeeded node run, a
\* person or a sealed snapshot has handed on is not changed by anything that
\* happens later (asset_repo.go, extraction_repo.go, cleaning_repo.go,
\* review_repo.go, retrieval_repo.go, analysis_repo.go).
BoundResourcesAreFrozen ==
    [][/\ focus = "documents" => Documents!KeepsBoundSets
       /\ focus = "records" => Records!KeepsReviewedData
       /\ focus = "snapshots" => Snapshots!KeepsSealedSnapshots
       /\ focus = "delivery" => Delivery!KeepsDelivered]_vars

\* A validation that is taken over computes what is saved already
\* (cleaning_service.go, cleaning_repo.go).
SavedResultsAreReproducible == focus = "records" => Records!SavedResultsAreReproducible

\* No record with an error is published unless it was edited
\* (manual_review.go, publish_service.go).
UnsoundNeverPublished == focus = "records" => Records!UnsoundNeverPublished

\* Whoever is told that a gate, a snapshot, an analysis or an artifact is
\* complete finds stored what it asked for, and a submission survives its
\* attempt (review_repo.go, retrieval_repo.go, analysis_repo.go,
\* analysis/service.go).
AnswersAgree ==
    /\ focus = "records" => Records!AnswersAgree
    /\ focus = "snapshots" => Snapshots!TypeOK /\ Snapshots!AnsweredIsActive
    /\ focus = "delivery" => Delivery!TypeOK /\ Delivery!AnswersAgree /\ Delivery!SubmissionIsKept

\* The fused answer respects both rankings (retrieval/service.go).
AnswersAreRanked == focus = "search" => Search!AnswersAreRanked

\* A unit's records are stored only when the agent has read and ended it
\* (extraction/tools.go, extraction/service.go).
StoredUnitsAreRead == focus = "agent" => Agent!TypeOK /\ Agent!StoredUnitsAreRead

\* At most one configuration of a capability is in force, and no switch is
\* refused because of another one's active row (platform_config_repo.go).
SwitchesAreSerial ==
    focus = "platform" => Platform!TypeOK /\ Platform!SwitchesAreSerial

=============================================================================
