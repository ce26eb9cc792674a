-------------------------- MODULE DraftPublication --------------------------
(***************************************************************************)
(* The draft of a workflow: commands that edit it, acceptance runs that    *)
(* mark its cases, and its publication as a revision.                      *)
(*                                                                         *)
(* One action is one transaction or one read.  A call is one request being *)
(* served; every call that fails before it wrote anything is a call that   *)
(* is over.  A draft's document is named by the last command applied to    *)
(* it, since a command computes the next document from the one it locked;  *)
(* only its acceptance cases, which are written between two commands too,  *)
(* are kept apart.  A preview that passed is the document it executed.     *)
(***************************************************************************)
EXTENDS Integers, FiniteSets, FiniteSetsExt

CONSTANTS
    Workflows,
    CommandIds,    \* command_id: chosen by clients, and by the model for proposals
    Cases,         \* acceptance cases
    Calls,         \* requests served at a time
    MaxRevision,   \* bound: commands applied to a workflow
    MaxPublished,  \* bound: publications of a workflow
    Blank,         \* the document of a workflow just created
    NoCase

ASSUME DraftAssumption ==
    /\ Workflows # {}
    /\ MaxRevision \in Nat
    /\ MaxPublished \in Nat
    /\ Blank \notin CommandIds
    /\ NoCase \notin Cases

VARIABLES
    draft,      \* workflows.draft_revision and draft_document
    events,     \* workflow_command_events
    published,  \* workflow_revisions
    active,     \* workflows.active_revision_id, as its revision_no
    call

draftVars == <<draft, events, published, active, call>>

Documents == CommandIds \cup {Blank}

\* The commands, as far as they treat acceptance cases differently: those
\* that edit nodes, ports or rules, and upsert_acceptance_case.
\* confirm_decision is refused for every draft (see DraftEditor).
Edit == [type |-> "edit", case |-> NoCase]
Upsert(k) == [type |-> "upsert", case |-> k]
Commands == {Edit} \cup {Upsert(k) : k \in Cases}

\* LastPassed, LastPassedRevision and LastPreviewID of a case.
Stamp == [status : {"absent", "open", "passed"}, rev : 0..MaxRevision, saw : Documents]
Open == [status |-> "open", rev |-> 0, saw |-> Blank]
Absent == [Open EXCEPT !.status = "absent"]

Draft == [rev : 0..MaxRevision, doc : Documents, cases : [Cases -> Stamp]]
NewDraft == [rev |-> 0, doc |-> Blank, cases |-> [k \in Cases |-> Absent]]

Event == [id : CommandIds, wf : Workflows, base : 0..MaxRevision,
          result : 0..MaxRevision]

Revision == [no : 1..MaxPublished, rev : 0..MaxRevision, doc : Documents,
             cases : [Cases -> Stamp]]

\* "missing": the command has no event yet.  "answered" and "failed": the
\* answer of ExecuteCommand.  "testing", "publishing": the draft is read.
Call == [pc : {"idle", "missing", "answered", "failed", "testing", "publishing"},
         wf : Workflows, id : Documents, command : Commands, expected : 0..MaxRevision,
         result : 0..MaxRevision, case : Cases \cup {NoCase}, read : Draft]

IdleCall ==
    [pc |-> "idle", wf |-> CHOOSE w \in Workflows : TRUE, id |-> Blank,
     command |-> Edit, expected |-> 0, result |-> 0, case |-> NoCase, read |-> NewDraft]

DraftInit ==
    /\ draft = [w \in Workflows |-> NewDraft]
    /\ events = {}
    /\ published = [w \in Workflows |-> {}]
    /\ active = [w \in Workflows |-> 0]
    /\ call = [c \in Calls |-> IdleCall]

-----------------------------------------------------------------------------
(* Commands *)

Recorded(i) == {e \in events : e.id = i}

\* An answer that carries the stored result, or an error when the command
\* belongs to another workflow.
AnswerStored(c, w, i, e) ==
    call' = [call EXCEPT ![c] =
        [IdleCall EXCEPT !.pc = IF e.wf = w THEN "answered" ELSE "failed",
                         !.wf = w, !.id = i, !.result = IF e.wf = w THEN e.result ELSE 0]]

\* ApplyCommand looks for the command's event before it locks the draft.
LookUp(c, w, i, command, expected) ==
    /\ \/ \E e \in Recorded(i) : AnswerStored(c, w, i, e)
       \/ /\ Recorded(i) = {}
          /\ call' = [call EXCEPT ![c] = [IdleCall EXCEPT !.pc = "missing", !.wf = w,
                          !.id = i, !.command = command, !.expected = expected]]
    /\ UNCHANGED <<draft, events, published, active>>

Reset(stamp) == IF stamp.status = "absent" THEN stamp ELSE Open

\* What a command does to the acceptance cases of the draft.
CasesAfter(command, cases) ==
    IF command.type = "edit" THEN [k \in Cases |-> Reset(cases[k])]
    ELSE [cases EXCEPT ![command.case] = Open]

\* A mutant of Applicable: the revision the client saw is not compared.
ApplicableAnyRevision(w, i, expected) == Recorded(i) = {}

\* The revision the client saw is compared under the row lock; the unique
\* index on command_id rolls back a transaction that lost a race.
Applicable(w, i, expected) ==
    /\ draft[w].rev = expected
    /\ Recorded(i) = {}

\* ApplyCommand from the row lock on: the next document and the command's
\* event are written together.
Apply(c) ==
    LET w == call[c].wf
        i == call[c].id
        expected == call[c].expected
    IN  /\ call[c].pc = "missing"
        /\ Applicable(w, i, expected)
        /\ expected < MaxRevision
        /\ draft' = [draft EXCEPT ![w] = [rev |-> expected + 1, doc |-> i,
                        cases |-> CasesAfter(call[c].command, @.cases)]]
        /\ events' = events \cup {[id |-> i, wf |-> w, base |-> expected,
                        result |-> expected + 1]}
        /\ call' = [call EXCEPT ![c] = [IdleCall EXCEPT !.pc = "answered", !.wf = w,
                        !.id = i, !.result = expected + 1]]
        /\ UNCHANGED <<published, active>>

\* The transaction is rolled back: the revision moved on, the command was
\* applied meanwhile, or the editor refuses the command for this draft.
RollBack(c) ==
    /\ call[c].pc = "missing"
    /\ call' = [call EXCEPT ![c] = [IdleCall EXCEPT !.pc = "failed"]]
    /\ UNCHANGED <<draft, events, published, active>>

Return(c) ==
    /\ call[c].pc \in {"answered", "failed"}
    /\ call' = [call EXCEPT ![c] = IdleCall]
    /\ UNCHANGED <<draft, events, published, active>>

-----------------------------------------------------------------------------
(* Acceptance runs *)

\* RunAcceptance reads the draft and executes it.
ReadForTest(c, w, k) ==
    /\ call[c].pc = "idle"
    /\ draft[w].cases[k].status # "absent"
    /\ call' = [call EXCEPT ![c] = [IdleCall EXCEPT !.pc = "testing", !.wf = w,
                    !.case = k, !.read = draft[w]]]
    /\ UNCHANGED <<draft, events, published, active>>

Markable(w, read, k) ==
    /\ draft[w].rev = read.rev
    /\ draft[w].cases[k].status # "absent"

\* The preview passed: MarkAcceptancePassed writes the draft's document
\* without a new revision.
MarkPassed(c) ==
    LET w == call[c].wf
        k == call[c].case
        read == call[c].read
    IN  /\ call[c].pc = "testing"
        /\ Markable(w, read, k)
        /\ draft' = [draft EXCEPT ![w].cases[k] =
                        [status |-> "passed", rev |-> draft[w].rev, saw |-> read.doc]]
        /\ call' = [call EXCEPT ![c] = IdleCall]
        /\ UNCHANGED <<events, published, active>>

-----------------------------------------------------------------------------
(* Publication *)

\* A mutant of Publishable: a mark of an older revision counts.
PublishableOldMarks(d) ==
    /\ \E k \in Cases : d.cases[k].status # "absent"
    /\ \A k \in Cases : d.cases[k].status # "open"

\* What validation in publish mode asks of the acceptance cases.
Publishable(d) ==
    /\ \E k \in Cases : d.cases[k].status # "absent"
    /\ \A k \in Cases : \/ d.cases[k].status = "absent"
                        \/ d.cases[k].status = "passed" /\ d.cases[k].rev = d.rev

\* Publish reads the draft, validates it and builds the revision from it.
BuildRevision(c, w) ==
    /\ call[c].pc = "idle"
    /\ Publishable(draft[w])
    /\ call' = [call EXCEPT ![c] = [IdleCall EXCEPT !.pc = "publishing", !.wf = w,
                    !.read = draft[w]]]
    /\ UNCHANGED <<draft, events, published, active>>

\* A mutant of Numbers: the revision number follows the draft's revision.
NumbersOfDraft(w) == {p.rev : p \in published[w]}

Numbers(w) == {p.no : p \in published[w]}

\* PublishRevision: the number and the active revision under the row lock.
PublishRevision(c) ==
    LET w == call[c].wf
        read == call[c].read
        no == Max(Numbers(w) \cup {0}) + 1
    IN  /\ call[c].pc = "publishing"
        /\ draft[w].rev = read.rev
        /\ no <= MaxPublished
        /\ published' = [published EXCEPT ![w] = @ \cup
               {[no |-> no, rev |-> read.rev, doc |-> read.doc, cases |-> read.cases]}]
        /\ active' = [active EXCEPT ![w] = no]
        /\ call' = [call EXCEPT ![c] = IdleCall]
        /\ UNCHANGED <<draft, events>>

\* A preview that failed or a revision that moved on: nothing is written.
Refuse(c) ==
    /\ call[c].pc \in {"testing", "publishing"}
    /\ call' = [call EXCEPT ![c] = IdleCall]
    /\ UNCHANGED <<draft, events, published, active>>

ServeDraft(c) ==
    \/ Apply(c)
    \/ RollBack(c)
    \/ \E w \in Workflows, k \in Cases : ReadForTest(c, w, k)
    \/ MarkPassed(c)
    \/ \E w \in Workflows : BuildRevision(c, w)
    \/ PublishRevision(c)
    \/ Refuse(c)

\* Clients send the revision they saw, the current one or an older one.
ClientCommand(c) ==
    /\ call[c].pc = "idle"
    /\ \E w \in Workflows, i \in CommandIds, command \in Commands :
          \E expected \in 0..draft[w].rev : LookUp(c, w, i, command, expected)

DraftNext ==
    \E c \in Calls : ClientCommand(c) \/ ServeDraft(c) \/ Return(c)

DraftSpec == DraftInit /\ [][DraftNext]_draftVars

-----------------------------------------------------------------------------
(* Properties *)

TypeOK ==
    /\ draft \in [Workflows -> Draft]
    /\ events \subseteq Event
    /\ published \in [Workflows -> SUBSET Revision]
    /\ active \in [Workflows -> 0..MaxPublished]
    /\ call \in [Calls -> Call]

\* The document of revision r of w: the command that led to it.
DocumentAt(w, r) ==
    IF r = 0 THEN Blank
    ELSE CHOOSE i \in CommandIds : \E e \in events : e.id = i /\ e.wf = w /\ e.result = r

\* The document a publication freezes is the one of the revision it was
\* asked for, and every acceptance case in it was passed by an execution of
\* exactly this document: a mark outlives neither an edit nor another case
\* that was added, however the acceptance run, the commands and the
\* publication interleave.  Publish reads the draft without a lock and
\* PublishRevision compares revisions only.
PublishedWasAccepted ==
    \A w \in Workflows : \A p \in published[w] :
        /\ p.doc = DocumentAt(w, p.rev)
        /\ \E k \in Cases : p.cases[k].status # "absent"
        /\ \A k \in Cases : p.cases[k].status # "absent" =>
               p.cases[k].status = "passed" /\ p.cases[k].saw = p.doc

\* The active revision is the newest one, revision numbers have no gap, and
\* a newer revision was never built from an older draft, although the draft
\* was read before the transaction that numbers the revision.
ActiveIsNewest ==
    \A w \in Workflows :
        /\ Numbers(w) = 1..active[w]
        /\ Cardinality(published[w]) = active[w]
        /\ \A p, q \in published[w] : p.no < q.no => p.rev <= q.rev

\* A draft's revision counts the commands applied to it and each command
\* took effect once, whichever deliveries of it raced to the row lock; every
\* answer names the place where the command took effect.
Log ==
    INSTANCE CommandLog WITH
        log <- [w \in Workflows |-> [r \in 1..draft[w].rev |-> DocumentAt(w, r)]],
        answers <- [c \in Calls |->
            IF call[c].pc = "answered" THEN <<call[c].wf, call[c].id, call[c].result>>
            ELSE <<>>]

ImplementsCommandLog == Log!Spec

=============================================================================
