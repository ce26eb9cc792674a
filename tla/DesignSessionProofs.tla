------------------------ MODULE DesignSessionProofs ------------------------
(***************************************************************************)
(* Proofs about drafts and sessions for every set of workflows, commands,  *)
(* cases, calls and sessions.                                              *)
(*                                                                         *)
(* First, about DraftPublication: what a publication freezes was accepted, *)
(* revision numbers follow the drafts, and the drafts implement            *)
(* CommandLog.  DesignSession has steps that end a call in any state (a    *)
(* request that dies), so these lemmas are about DraftMove, the steps of   *)
(* DraftNext and these, and serve both specifications.                     *)
(***************************************************************************)
EXTENDS DesignSession, FiniteSetTheorems, TLAPS

-----------------------------------------------------------------------------
(* The inductive invariant.                                                *)

\* i is the document of revision r of w.
Named(w, r, i) ==
    \/ r = 0 /\ i = Blank
    \/ r > 0 /\ \E e \in events : e.id = i /\ e.wf = w /\ e.result = r

\* Each command was applied once, and the commands of a workflow are numbered
\* without gap up to its revision.
CommandsAreNumbered ==
    /\ \A e, f \in events : e.id = f.id => e = f
    /\ \A e, f \in events : e.wf = f.wf /\ e.result = f.result => e = f
    /\ \A e \in events : e.result \in 1..draft[e.wf].rev
    /\ \A w \in Workflows : \A r \in 1..draft[w].rev :
          \E e \in events : e.wf = w /\ e.result = r

\* d, a draft or a revision of w, is the document of its revision, and what a
\* passed case saw is the document of the revision it was passed for.
Faithful(w, d) ==
    /\ Named(w, d.rev, d.doc)
    /\ \A k \in Cases : d.cases[k].status = "passed" =>
          Named(w, d.cases[k].rev, d.cases[k].saw)

DraftsAreFaithful == \A w \in Workflows : Faithful(w, draft[w])

ReadsAreFaithful ==
    \A c \in Calls : call[c].pc \in {"testing", "publishing"} =>
        /\ Faithful(call[c].wf, call[c].read)
        /\ call[c].pc = "testing" => call[c].case \in Cases
        /\ call[c].pc = "publishing" => Publishable(call[c].read)

RevisionsAreFaithful ==
    \A w \in Workflows : \A p \in published[w] : Faithful(w, p) /\ Publishable(p)

\* What a call knows of its command.
CallsNameCommands ==
    \A c \in Calls :
        /\ call[c].pc = "missing" => call[c].id \in CommandIds
        /\ call[c].pc = "answered" =>
             \E e \in events : e.id = call[c].id /\ e.wf = call[c].wf /\ e.result = call[c].result

PublishedIsFinite == \A w \in Workflows : IsFiniteSet(published[w])

DraftInv ==
    /\ TypeOK
    /\ CommandsAreNumbered
    /\ DraftsAreFaithful
    /\ ReadsAreFaithful
    /\ RevisionsAreFaithful
    /\ CallsNameCommands
    /\ PublishedIsFinite
    /\ ActiveIsNewest

-----------------------------------------------------------------------------
(* What the steps do.                                                      *)

\* A call is over, whatever it was about.
Drop(c) ==
    /\ call' = [call EXCEPT ![c] = IdleCall]
    /\ UNCHANGED <<draft, events, published, active>>

DraftMove(c) ==
    \/ /\ call[c].pc = "idle"
       /\ \E w \in Workflows, i \in CommandIds, command \in Commands,
             expected \in 0..MaxRevision : LookUp(c, w, i, command, expected)
    \/ ServeDraft(c)
    \/ Drop(c)

\* The call c, and no other, may have changed.
OnlyCall(c) == call' \in [Calls -> Call] /\ \A d \in Calls : d # c => call'[d] = call[d]

NothingWritten(c) ==
    /\ UNCHANGED <<draft, events, published, active>>
    /\ \/ call'[c].pc \in {"idle", "failed"}
       \/ call'[c].pc = "missing" /\ call'[c].id \in CommandIds /\ call[c].pc = "idle"
       \/ /\ call'[c].pc = "answered" /\ call[c].pc = "idle"
          /\ \E e \in events : e.id = call'[c].id /\ e.wf = call'[c].wf /\ e.result = call'[c].result
       \/ /\ call'[c].pc \in {"testing", "publishing"}
          /\ call'[c].read = draft[call'[c].wf]
          /\ call'[c].pc = "testing" => call'[c].case \in Cases
          /\ call'[c].pc = "publishing" => Publishable(call'[c].read)

CommandApplied(c) ==
    LET w == call[c].wf
        i == call[c].id
        rev == draft[w].rev
    IN  /\ UNCHANGED <<published, active>>
        /\ call[c].pc = "missing" /\ call[c].expected = rev
        /\ \A e \in events : e.id # i
        /\ events' = events \cup {[id |-> i, wf |-> w, base |-> rev, result |-> rev + 1]}
        /\ draft' \in [Workflows -> Draft]
        /\ draft'[w].rev = rev + 1 /\ draft'[w].doc = i
        /\ \A k \in Cases : draft'[w].cases[k].status = "passed" =>
              draft'[w].cases[k] = draft[w].cases[k]
        /\ \A v \in Workflows : v # w => draft'[v] = draft[v]
        /\ call'[c].pc = "answered" /\ call'[c].wf = w /\ call'[c].id = i
        /\ call'[c].result = rev + 1

CaseMarked(c) ==
    LET w == call[c].wf
        k == call[c].case
    IN  /\ UNCHANGED <<events, published, active>>
        /\ call[c].pc = "testing" /\ draft[w].rev = call[c].read.rev
        /\ draft' \in [Workflows -> Draft]
        /\ draft'[w].rev = draft[w].rev /\ draft'[w].doc = draft[w].doc
        /\ draft'[w].cases[k].rev = draft[w].rev
        /\ draft'[w].cases[k].saw = call[c].read.doc
        /\ \A j \in Cases : j # k => draft'[w].cases[j] = draft[w].cases[j]
        /\ \A v \in Workflows : v # w => draft'[v] = draft[v]
        /\ call'[c].pc = "idle"

RevisionPublished(c) ==
    LET w == call[c].wf
        read == call[c].read
        no == Max(Numbers(w) \cup {0}) + 1
    IN  /\ UNCHANGED <<draft, events>>
        /\ call[c].pc = "publishing" /\ draft[w].rev = read.rev /\ no <= MaxPublished
        /\ published' = [published EXCEPT ![w] = @ \cup
               {[no |-> no, rev |-> read.rev, doc |-> read.doc, cases |-> read.cases]}]
        /\ active' = [active EXCEPT ![w] = no]
        /\ call'[c].pc = "idle"

Effect(c) ==
    /\ OnlyCall(c)
    /\ NothingWritten(c) \/ CommandApplied(c) \/ CaseMarked(c) \/ RevisionPublished(c)

\* The values the operations start from have their types.
LEMMA StartTypes ==
    /\ IdleCall \in Call /\ IdleCall.pc = "idle"
    /\ NewDraft \in Draft /\ Edit \in Commands
  <1>1. PICK v \in Workflows : v = CHOOSE w \in Workflows : TRUE
    BY DraftAssumption
  <1>2. Open \in Stamp /\ Absent \in Stamp
    BY DraftAssumption DEF Open, Absent, Stamp, Documents
  <1>3. NewDraft \in Draft
    BY <1>2, DraftAssumption DEF NewDraft, Draft, Documents
  <1>4. Edit \in Commands
    BY DEF Commands
  <1>5. IdleCall \in Call
    BY <1>1, <1>3, <1>4, DraftAssumption DEF IdleCall, Call, Documents
  <1>6. QED
    BY <1>3, <1>4, <1>5 DEF IdleCall

\* A lookup answers with what is stored or remembers the command.
LEMMA LookUpEffect ==
    ASSUME TypeOK, NEW c \in Calls, call[c].pc = "idle",
           NEW w \in Workflows, NEW i \in CommandIds, NEW command \in Commands,
           NEW expected \in 0..MaxRevision, LookUp(c, w, i, command, expected)
    PROVE  /\ OnlyCall(c) /\ NothingWritten(c)
           /\ call'[c].pc \in {"missing", "answered"} =>
                call'[c].id = i /\ call'[c].wf = w
           /\ call'[c].pc = "missing" => call'[c].expected = expected
  <1>1. CASE \E e \in Recorded(i) : AnswerStored(c, w, i, e)
    <2>1. PICK e \in events : e.id = i /\ AnswerStored(c, w, i, e)
      BY <1>1 DEF Recorded
    <2>2. e \in Event
      BY DEF TypeOK
    <2> DEFINE new == [IdleCall EXCEPT !.pc = IF e.wf = w THEN "answered" ELSE "failed",
                         !.wf = w, !.id = i, !.result = IF e.wf = w THEN e.result ELSE 0]
    <2>3. new \in Call
      <3>1. (IF e.wf = w THEN e.result ELSE 0) \in 0..MaxRevision
        BY <2>2, DraftAssumption DEF Event
      <3>2. (IF e.wf = w THEN "answered" ELSE "failed")
              \in {"idle", "missing", "answered", "failed", "testing", "publishing"}
        OBVIOUS
      <3>3. QED
        BY <3>1, <3>2, StartTypes DEF Call, Documents
    <2>4. /\ new.id = i /\ new.wf = w
          /\ new.pc = IF e.wf = w THEN "answered" ELSE "failed"
          /\ e.wf = w => new.result = e.result
      BY StartTypes DEF Call
    <2> HIDE DEF new
    <2>5. call' = [call EXCEPT ![c] = new] /\ UNCHANGED <<draft, events, published, active>>
      BY <2>1 DEF AnswerStored, LookUp, new
    <2>6. call'[c] = new /\ OnlyCall(c)
      BY <2>3, <2>5 DEF TypeOK, OnlyCall
    <2>7. NothingWritten(c)
      BY <2>1, <2>4, <2>5, <2>6 DEF NothingWritten
    <2>8. QED
      BY <2>4, <2>6, <2>7
  <1>2. CASE ~ \E e \in Recorded(i) : AnswerStored(c, w, i, e)
    <2> DEFINE new == [IdleCall EXCEPT !.pc = "missing", !.wf = w,
                          !.id = i, !.command = command, !.expected = expected]
    <2>1. new \in Call
      BY StartTypes DEF Call, Documents
    <2>2. new.id = i /\ new.wf = w /\ new.pc = "missing" /\ new.expected = expected
      BY StartTypes DEF Call
    <2> HIDE DEF new
    <2>3. call' = [call EXCEPT ![c] = new] /\ UNCHANGED <<draft, events, published, active>>
      BY <1>2 DEF LookUp, new
    <2>4. call'[c] = new /\ OnlyCall(c)
      BY <2>1, <2>3 DEF TypeOK, OnlyCall
    <2>5. NothingWritten(c)
      BY <2>2, <2>3, <2>4 DEF NothingWritten
    <2>6. QED
      BY <2>2, <2>4, <2>5
  <1>3. QED
    BY <1>1, <1>2

\* A command leaves no passed case but those that were passed before.
LEMMA CasesAfterEffect ==
    ASSUME NEW command \in Commands, NEW cases \in [Cases -> Stamp]
    PROVE  /\ CasesAfter(command, cases) \in [Cases -> Stamp]
           /\ \A k \in Cases : CasesAfter(command, cases)[k].status = "passed" =>
                CasesAfter(command, cases)[k] = cases[k]
  <1>1. Open \in Stamp /\ Open.status # "passed"
    BY DraftAssumption DEF Open, Stamp, Documents
  <1>2. CASE command.type = "edit"
    BY <1>1, <1>2 DEF CasesAfter, Reset, Stamp
  <1>3. CASE command.type # "edit"
    <2>1. command.case \in Cases
      BY <1>3 DEF Commands, Edit, Upsert
    <2>2. CasesAfter(command, cases) = [cases EXCEPT ![command.case] = Open]
      BY <1>3 DEF CasesAfter
    <2>3. QED
      BY <1>1, <2>1, <2>2
  <1>4. QED
    BY <1>2, <1>3

\* The row lock to the commit of ApplyCommand.
LEMMA ApplyEffect ==
    ASSUME TypeOK, CallsNameCommands, NEW c \in Calls, Apply(c)
    PROVE  OnlyCall(c) /\ CommandApplied(c)
  <1> DEFINE w == call[c].wf
             i == call[c].id
             rev == draft[w].rev
             cases == CasesAfter(call[c].command, draft[w].cases)
             next == [rev |-> rev + 1, doc |-> i, cases |-> cases]
             new == [IdleCall EXCEPT !.pc = "answered", !.wf = w, !.id = i, !.result = rev + 1]
  <1>1. /\ w \in Workflows /\ i \in CommandIds /\ rev \in 0..MaxRevision
        /\ call[c].command \in Commands /\ draft[w].cases \in [Cases -> Stamp]
        /\ draft[w] \in Draft
    BY DEF Apply, TypeOK, Call, Draft, CallsNameCommands
  <1>2. call[c].pc = "missing" /\ call[c].expected = rev /\ Recorded(i) = {} /\ rev < MaxRevision
    BY DEF Apply, Applicable
  <1>3. /\ cases \in [Cases -> Stamp]
        /\ \A k \in Cases : cases[k].status = "passed" => cases[k] = draft[w].cases[k]
    BY <1>1, CasesAfterEffect
  <1>4. /\ draft' = [draft EXCEPT ![w] = next]
        /\ events' = events \cup {[id |-> i, wf |-> w, base |-> rev, result |-> rev + 1]}
        /\ call' = [call EXCEPT ![c] = new]
        /\ UNCHANGED <<published, active>>
    BY <1>2 DEF Apply
  <1> HIDE DEF cases
  <1>5. rev + 1 \in 0..MaxRevision
    BY <1>1, <1>2, DraftAssumption
  <1>6. next \in Draft
    BY <1>1, <1>3, <1>5 DEF Draft, Documents
  <1>7. new \in Call /\ new.pc = "answered" /\ new.wf = w /\ new.id = i /\ new.result = rev + 1
    BY <1>1, <1>5, StartTypes DEF Call, Documents
  <1>8. /\ draft' \in [Workflows -> Draft] /\ draft'[w] = next
        /\ \A v \in Workflows : v # w => draft'[v] = draft[v]
    BY <1>1, <1>4, <1>6 DEF TypeOK
  <1> HIDE DEF new
  <1>9. OnlyCall(c) /\ call'[c] = new
    BY <1>4, <1>7 DEF TypeOK, OnlyCall
  <1>10. \A e \in events : e.id # i
    BY <1>2 DEF Recorded
  <1>11. QED
    BY <1>2, <1>3, <1>4, <1>7, <1>8, <1>9, <1>10 DEF CommandApplied

\* MarkAcceptancePassed marks the case that was executed.
LEMMA MarkEffect ==
    ASSUME TypeOK, NEW c \in Calls, ReadsAreFaithful, MarkPassed(c)
    PROVE  OnlyCall(c) /\ CaseMarked(c)
  <1> DEFINE w == call[c].wf
             k == call[c].case
             stamp == [status |-> "passed", rev |-> draft[w].rev, saw |-> call[c].read.doc]
  <1>1. w \in Workflows /\ k \in Cases /\ draft[w] \in Draft /\ call[c].read \in Draft
    BY DEF TypeOK, Call, ReadsAreFaithful, MarkPassed
  <1>2. stamp \in Stamp
    BY <1>1 DEF Stamp, Draft
  <1>3. /\ draft' = [draft EXCEPT ![w] = [draft[w] EXCEPT !.cases = [draft[w].cases EXCEPT ![k] = stamp]]]
        /\ call' = [call EXCEPT ![c] = IdleCall]
        /\ call[c].pc = "testing" /\ draft[w].rev = call[c].read.rev
        /\ UNCHANGED <<events, published, active>>
    BY DEF MarkPassed, Markable
  <1>4. OnlyCall(c) /\ call'[c].pc = "idle"
    BY <1>3, StartTypes DEF TypeOK, OnlyCall
  <1> DEFINE next == [draft[w] EXCEPT !.cases = [draft[w].cases EXCEPT ![k] = stamp]]
  <1>5. /\ next \in Draft /\ next.rev = draft[w].rev /\ next.doc = draft[w].doc
        /\ next.cases[k] = stamp
        /\ \A j \in Cases : j # k => next.cases[j] = draft[w].cases[j]
    BY <1>1, <1>2 DEF Draft
  <1>6. /\ draft' \in [Workflows -> Draft] /\ draft'[w] = next
        /\ \A v \in Workflows : v # w => draft'[v] = draft[v]
    BY <1>1, <1>3, <1>5 DEF TypeOK
  <1>7. draft'[w].cases[k].rev = draft[w].rev /\ draft'[w].cases[k].saw = call[c].read.doc
    BY <1>5, <1>6
  <1>8. QED
    BY <1>3, <1>4, <1>5, <1>6, <1>7 DEF CaseMarked

\* A request that reads the draft keeps what it read.
LEMMA ReadEffect ==
    ASSUME TypeOK, NEW c \in Calls, NEW w \in Workflows,
           \/ \E k \in Cases : ReadForTest(c, w, k)
           \/ BuildRevision(c, w)
    PROVE  OnlyCall(c) /\ NothingWritten(c)
  <1>1. draft[w] \in Draft
    BY DEF TypeOK
  <1>2. ASSUME NEW k \in Cases, ReadForTest(c, w, k) PROVE OnlyCall(c) /\ NothingWritten(c)
    <2> DEFINE new == [IdleCall EXCEPT !.pc = "testing", !.wf = w, !.case = k, !.read = draft[w]]
    <2>1. new \in Call /\ new.pc = "testing" /\ new.wf = w /\ new.case = k /\ new.read = draft[w]
      BY <1>1, StartTypes DEF Call
    <2> HIDE DEF new
    <2>2. call' = [call EXCEPT ![c] = new] /\ UNCHANGED <<draft, events, published, active>>
      BY <1>2 DEF ReadForTest, new
    <2>3. OnlyCall(c) /\ call'[c] = new
      BY <2>1, <2>2 DEF TypeOK, OnlyCall
    <2>4. QED
      BY <2>1, <2>2, <2>3 DEF NothingWritten
  <1>3. ASSUME BuildRevision(c, w) PROVE OnlyCall(c) /\ NothingWritten(c)
    <2> DEFINE new == [IdleCall EXCEPT !.pc = "publishing", !.wf = w, !.read = draft[w]]
    <2>1. new \in Call /\ new.pc = "publishing" /\ new.wf = w /\ new.read = draft[w]
      BY <1>1, StartTypes DEF Call
    <2> HIDE DEF new
    <2>2. /\ call' = [call EXCEPT ![c] = new] /\ UNCHANGED <<draft, events, published, active>>
          /\ Publishable(draft[w])
      BY <1>3 DEF BuildRevision, new
    <2>3. OnlyCall(c) /\ call'[c] = new
      BY <2>1, <2>2 DEF TypeOK, OnlyCall
    <2>4. QED
      BY <2>1, <2>2, <2>3 DEF NothingWritten
  <1>4. QED
    BY <1>2, <1>3

\* Every step of a call has one of the four effects.
LEMMA MoveEffect ==
    ASSUME TypeOK, CallsNameCommands, ReadsAreFaithful, NEW c \in Calls, DraftMove(c)
    PROVE  Effect(c)
  <1>1. CASE call[c].pc = "idle" /\ \E w \in Workflows, i \in CommandIds, command \in Commands,
                expected \in 0..MaxRevision : LookUp(c, w, i, command, expected)
    BY <1>1, LookUpEffect DEF Effect
  <1>2. CASE Apply(c)
    BY <1>2, ApplyEffect DEF Effect
  <1>3. CASE RollBack(c)
    <2> DEFINE new == [IdleCall EXCEPT !.pc = "failed"]
    <2>1. new \in Call /\ new.pc = "failed"
      BY StartTypes DEF Call
    <2> HIDE DEF new
    <2>2. call' = [call EXCEPT ![c] = new] /\ UNCHANGED <<draft, events, published, active>>
      BY <1>3 DEF RollBack, new
    <2>3. OnlyCall(c) /\ call'[c] = new
      BY <2>1, <2>2 DEF TypeOK, OnlyCall
    <2>4. QED
      BY <2>1, <2>2, <2>3 DEF NothingWritten, Effect
  <1>4. CASE \E w \in Workflows : BuildRevision(c, w) \/ \E k \in Cases : ReadForTest(c, w, k)
    BY <1>4, ReadEffect DEF Effect
  <1>5. CASE MarkPassed(c)
    BY <1>5, MarkEffect DEF Effect
  <1>6. CASE PublishRevision(c)
    <2>1. OnlyCall(c) /\ call'[c].pc = "idle"
      BY <1>6, StartTypes DEF PublishRevision, TypeOK, OnlyCall
    <2>2. RevisionPublished(c)
      BY <1>6, <2>1 DEF PublishRevision, RevisionPublished
    <2>3. QED
      BY <2>1, <2>2 DEF Effect
  <1>7. CASE Drop(c) \/ Refuse(c)
    <2>1. call' = [call EXCEPT ![c] = IdleCall] /\ UNCHANGED <<draft, events, published, active>>
      BY <1>7 DEF Drop, Refuse
    <2>2. OnlyCall(c) /\ call'[c].pc = "idle"
      BY <2>1, StartTypes DEF TypeOK, OnlyCall
    <2>3. QED
      BY <2>1, <2>2 DEF NothingWritten, Effect
  <1>8. QED
    BY <1>1, <1>2, <1>3, <1>4, <1>5, <1>6, <1>7 DEF DraftMove, ServeDraft

-----------------------------------------------------------------------------
(* Each part of the invariant is preserved.                                *)

\* The names of documents stay.
LEMMA NamesStay ==
    ASSUME NEW w, NEW r, NEW i, Named(w, r, i), events \subseteq events'
    PROVE  Named(w, r, i)'
  BY DEF Named

\* A faithful draft or revision stays faithful.
LEMMA FaithfulStays ==
    ASSUME NEW w, NEW d, Faithful(w, d), events \subseteq events'
    PROVE  /\ Named(w, d.rev, d.doc)'
           /\ \A k \in Cases : d.cases[k].status = "passed" =>
                Named(w, d.cases[k].rev, d.cases[k].saw)'
  BY NamesStay DEF Faithful

\* No event is ever removed.
LEMMA EventsGrow ==
    ASSUME NEW c \in Calls, Effect(c)
    PROVE  events \subseteq events'
  BY DEF Effect, NothingWritten, CommandApplied, CaseMarked, RevisionPublished

\* The next revision number, and the step that gives it.
LEMMA NextNumber ==
    ASSUME TypeOK, ActiveIsNewest, NEW w \in Workflows
    PROVE  /\ active[w] \in Nat
           /\ Max(Numbers(w) \cup {0}) = active[w]
  <1>1. active[w] \in Nat
    BY DraftAssumption DEF TypeOK
  <1>2. Numbers(w) \cup {0} = 0..active[w]
    BY <1>1 DEF ActiveIsNewest
  <1>3. /\ active[w] \in 0..active[w] /\ \A y \in 0..active[w] : active[w] >= y
        /\ \A x \in 0..active[w] : (\A y \in 0..active[w] : x >= y) => x = active[w]
    BY <1>1
  <1>4. QED
    BY <1>1, <1>2, <1>3 DEF Max

\* Every step keeps the types.
LEMMA TypeStep ==
    ASSUME TypeOK, ActiveIsNewest, CallsNameCommands, NEW c \in Calls, Effect(c)
    PROVE  TypeOK'
  <1>1. call' \in [Calls -> Call]
    BY DEF Effect, OnlyCall
  <1>2. CASE NothingWritten(c)
    BY <1>1, <1>2 DEF NothingWritten, TypeOK
  <1>3. CASE CaseMarked(c)
    BY <1>1, <1>3 DEF CaseMarked, TypeOK
  <1>4. CASE CommandApplied(c)
    <2> DEFINE w == call[c].wf
               rev == draft[w].rev
    <2>1. w \in Workflows /\ call[c].id \in CommandIds /\ rev \in 0..MaxRevision
      BY <1>4 DEF CommandApplied, CallsNameCommands, TypeOK, Call, Draft
    <2>2. rev + 1 \in 0..MaxRevision
      BY <1>4, <2>1 DEF CommandApplied, Draft
    <2>3. [id |-> call[c].id, wf |-> w, base |-> rev, result |-> rev + 1] \in Event
      BY <2>1, <2>2 DEF Event
    <2>4. events' \subseteq Event
      BY <1>4, <2>3 DEF CommandApplied, TypeOK
    <2>5. QED
      BY <1>1, <1>4, <2>4 DEF CommandApplied, TypeOK
  <1>5. CASE RevisionPublished(c)
    <2> DEFINE w == call[c].wf
               read == call[c].read
               no == Max(Numbers(w) \cup {0}) + 1
               new == [no |-> no, rev |-> read.rev, doc |-> read.doc, cases |-> read.cases]
    <2>1. w \in Workflows /\ read \in Draft
      BY DEF TypeOK, Call
    <2>2. no \in 1..MaxPublished
      BY <1>5, <2>1, NextNumber, DraftAssumption DEF RevisionPublished
    <2>3. new \in Revision
      BY <2>1, <2>2 DEF Revision, Draft
    <2>4. active' \in [Workflows -> 0..MaxPublished]
      BY <1>5, <2>1, <2>2 DEF RevisionPublished, TypeOK
    <2> HIDE DEF no
    <2> HIDE DEF new
    <2>5. published' \in [Workflows -> SUBSET Revision]
      <3>1. published' = [published EXCEPT ![w] = @ \cup {new}]
        BY <1>5 DEF RevisionPublished, no, new
      <3>2. QED
        BY <2>1, <2>3, <3>1 DEF TypeOK
    <2>6. QED
      BY <1>1, <1>5, <2>4, <2>5 DEF RevisionPublished, TypeOK
  <1>6. QED
    BY <1>2, <1>3, <1>4, <1>5 DEF Effect

\* The command gets the next number, and keeps it.
LEMMA NumbersStep ==
    ASSUME TypeOK, TypeOK', CommandsAreNumbered, NEW c \in Calls, Effect(c)
    PROVE  CommandsAreNumbered'
  <1>1. CASE events' = events /\ \A w \in Workflows : draft'[w].rev = draft[w].rev
    <2>1. \A e \in events : e.wf \in Workflows
      BY DEF TypeOK, Event
    <2>2. QED
      BY <1>1, <2>1 DEF CommandsAreNumbered
  <1>2. CASE CommandApplied(c)
    <2> DEFINE w == call[c].wf
               rev == draft[w].rev
               e0 == [id |-> call[c].id, wf |-> w, base |-> rev, result |-> rev + 1]
    <2>1. w \in Workflows /\ rev \in Nat
      BY DEF TypeOK, Call, Draft
    <2>2. /\ events' = events \cup {e0} /\ \A e \in events : e.id # call[c].id
          /\ draft'[w].rev = rev + 1
          /\ \A v \in Workflows : v # w => draft'[v] = draft[v]
      BY <1>2 DEF CommandApplied
    <2>3. e0.id = call[c].id /\ e0.wf = w /\ e0.result = rev + 1
      OBVIOUS
    <2> HIDE DEF e0
    <2>4. \A e \in events : /\ e.wf \in Workflows /\ e.result \in 1..draft[e.wf].rev
                            /\ e.wf = w => e.result # rev + 1
                            /\ e.result \in 1..draft'[e.wf].rev
      <3>1. SUFFICES ASSUME NEW e \in events
                     PROVE  /\ e.wf \in Workflows /\ e.result \in 1..draft[e.wf].rev
                            /\ e.wf = w => e.result # rev + 1
                            /\ e.result \in 1..draft'[e.wf].rev
        OBVIOUS
      <3>2. e.wf \in Workflows /\ e.result \in 1..draft[e.wf].rev
        BY DEF TypeOK, Event, CommandsAreNumbered
      <3>3. QED
        BY <2>1, <2>2, <3>2
    <2>5. \A e, f \in events' : e.id = f.id => e = f
      BY <2>2, <2>3 DEF CommandsAreNumbered
    <2>6. \A e, f \in events' : e.wf = f.wf /\ e.result = f.result => e = f
      BY <2>2, <2>3, <2>4 DEF CommandsAreNumbered
    <2>7. \A e \in events' : e.result \in 1..draft'[e.wf].rev
      BY <2>1, <2>2, <2>3, <2>4
    <2>8. ASSUME NEW v \in Workflows, NEW r \in 1..draft'[v].rev
          PROVE  \E e \in events' : e.wf = v /\ e.result = r
      <3>1. CASE v = w /\ r = rev + 1
        BY <2>2, <2>3, <3>1
      <3>2. CASE ~(v = w /\ r = rev + 1)
        <4>1. r \in 1..draft[v].rev
          BY <2>1, <2>2, <3>2
        <4>2. QED
          BY <2>2, <4>1 DEF CommandsAreNumbered
      <3>3. QED
        BY <3>1, <3>2
    <2>9. QED
      BY <2>5, <2>6, <2>7, <2>8 DEF CommandsAreNumbered
  <1>3. CASE CaseMarked(c)
    <2>1. events' = events /\ \A w \in Workflows : draft'[w].rev = draft[w].rev
      BY <1>3 DEF CaseMarked
    <2>2. QED
      BY <1>1, <2>1
  <1>4. QED
    BY <1>1, <1>2, <1>3 DEF Effect, NothingWritten, RevisionPublished

\* A draft is changed by a command, which resets its cases, or by a mark for
\* the revision that was executed.
LEMMA DraftsStep ==
    ASSUME TypeOK, DraftsAreFaithful, ReadsAreFaithful, NEW c \in Calls, Effect(c)
    PROVE  DraftsAreFaithful'
  <1> SUFFICES ASSUME NEW w \in Workflows
               PROVE  /\ Named(w, draft[w].rev, draft[w].doc)'
                      /\ \A k \in Cases : draft'[w].cases[k].status = "passed" =>
                           Named(w, draft[w].cases[k].rev, draft[w].cases[k].saw)'
    BY DEF DraftsAreFaithful, Faithful
  <1>1. /\ Named(w, draft[w].rev, draft[w].doc)
        /\ \A k \in Cases : draft[w].cases[k].status = "passed" =>
             Named(w, draft[w].cases[k].rev, draft[w].cases[k].saw)
    BY DEF DraftsAreFaithful, Faithful
  <1>2. events \subseteq events'
    BY EventsGrow
  <1>3. CASE draft'[w] = draft[w]
    BY <1>1, <1>2, <1>3 DEF Named
  <1>4. CASE CommandApplied(c) /\ w = call[c].wf
    <2> DEFINE e0 == [id |-> call[c].id, wf |-> w, base |-> draft[w].rev,
                      result |-> draft[w].rev + 1]
    <2>1. /\ e0 \in events'
          /\ draft'[w].rev = draft[w].rev + 1 /\ draft'[w].doc = call[c].id
          /\ \A k \in Cases : draft'[w].cases[k].status = "passed" =>
                draft'[w].cases[k] = draft[w].cases[k]
      BY <1>4 DEF CommandApplied
    <2>2. e0.id = draft'[w].doc /\ e0.wf = w /\ e0.result = draft'[w].rev
      BY <2>1
    <2>3. draft'[w].rev > 0
      BY <2>1 DEF TypeOK, Draft
    <2>4. Named(w, draft[w].rev, draft[w].doc)'
      BY <2>1, <2>2, <2>3 DEF Named
    <2>5. QED
      BY <1>1, <1>2, <2>1, <2>4 DEF Named
  <1>5. CASE CaseMarked(c) /\ w = call[c].wf
    <2> DEFINE k0 == call[c].case
    <2>1. /\ draft'[w].rev = draft[w].rev /\ draft'[w].doc = draft[w].doc
          /\ draft'[w].cases[k0].rev = draft[w].rev
          /\ draft'[w].cases[k0].saw = call[c].read.doc
          /\ draft[w].rev = call[c].read.rev
          /\ \A j \in Cases : j # k0 => draft'[w].cases[j] = draft[w].cases[j]
          /\ Named(w, call[c].read.rev, call[c].read.doc)
      BY <1>5 DEF CaseMarked, ReadsAreFaithful, Faithful
    <2>2. Named(w, draft'[w].rev, draft'[w].doc)
      BY <1>1, <2>1
    <2>3. ASSUME NEW k \in Cases, draft'[w].cases[k].status = "passed"
          PROVE  Named(w, draft'[w].cases[k].rev, draft'[w].cases[k].saw)
      <3>1. CASE k = k0
        BY <2>1, <3>1
      <3>2. CASE k # k0
        BY <1>1, <2>1, <2>3, <3>2
      <3>3. QED
        BY <3>1, <3>2
    <2>4. Named(w, draft[w].rev, draft[w].doc)'
      BY <1>2, <2>2 DEF Named
    <2>5. ASSUME NEW k \in Cases, draft'[w].cases[k].status = "passed"
          PROVE  Named(w, draft[w].cases[k].rev, draft[w].cases[k].saw)'
      BY <1>2, <2>3, <2>5 DEF Named
    <2>6. QED
      BY <2>4, <2>5
  <1>6. QED
    BY <1>3, <1>4, <1>5 DEF Effect, NothingWritten, CommandApplied, CaseMarked, RevisionPublished

\* What was read stays the document of the revision that was read.
LEMMA ReadsStep ==
    ASSUME TypeOK, DraftsAreFaithful, ReadsAreFaithful, NEW c \in Calls, Effect(c)
    PROVE  ReadsAreFaithful'
  <1> SUFFICES ASSUME NEW d \in Calls, call'[d].pc \in {"testing", "publishing"}
               PROVE  /\ Named(call[d].wf, call[d].read.rev, call[d].read.doc)'
                      /\ \A k \in Cases : call'[d].read.cases[k].status = "passed" =>
                           Named(call[d].wf, call[d].read.cases[k].rev, call[d].read.cases[k].saw)'
                      /\ call'[d].pc = "testing" => call'[d].case \in Cases
                      /\ call'[d].pc = "publishing" => Publishable(call'[d].read)
    BY DEF ReadsAreFaithful, Faithful, Publishable
  <1>1. events \subseteq events'
    BY EventsGrow
  <1>2. CASE call'[d] = call[d]
    <2>1. /\ Faithful(call[d].wf, call[d].read)
          /\ call[d].pc = "testing" => call[d].case \in Cases
          /\ call[d].pc = "publishing" => Publishable(call[d].read)
      BY <1>2 DEF ReadsAreFaithful
    <2>2. QED
      BY <1>1, <1>2, <2>1 DEF Faithful, Named
  <1>3. CASE d = c
    <2>1. NothingWritten(c)
      BY <1>3 DEF Effect, CommandApplied, CaseMarked, RevisionPublished
    <2>2. /\ call'[d].read = draft[call'[d].wf]
          /\ call'[d].pc = "testing" => call'[d].case \in Cases
          /\ call'[d].pc = "publishing" => Publishable(call'[d].read)
          /\ events' = events
      BY <1>3, <2>1 DEF NothingWritten
    <2>3. call'[d].wf \in Workflows
      BY DEF Effect, OnlyCall, Call
    <2>4. Faithful(call'[d].wf, draft[call'[d].wf])
      BY <2>3 DEF DraftsAreFaithful
    <2>5. QED
      BY <2>2, <2>4 DEF Faithful, Named
  <1>4. QED
    BY <1>2, <1>3 DEF Effect, OnlyCall

\* A revision is what was read and found publishable.
LEMMA RevisionsStep ==
    ASSUME TypeOK, ReadsAreFaithful, RevisionsAreFaithful, NEW c \in Calls, Effect(c)
    PROVE  RevisionsAreFaithful'
  <1> SUFFICES ASSUME NEW w \in Workflows, NEW p \in published'[w]
               PROVE  /\ Named(w, p.rev, p.doc)'
                      /\ \A k \in Cases : p.cases[k].status = "passed" =>
                           Named(w, p.cases[k].rev, p.cases[k].saw)'
                      /\ Publishable(p)
    BY DEF RevisionsAreFaithful, Faithful, Publishable
  <1>1. events \subseteq events'
    BY EventsGrow
  <1>2. CASE p \in published[w]
    <2>1. Faithful(w, p) /\ Publishable(p)
      BY <1>2 DEF RevisionsAreFaithful
    <2>2. QED
      BY <1>1, <2>1 DEF Faithful, Named
  <1>3. CASE p \notin published[w]
    <2> DEFINE read == call[c].read
    <2>1. RevisionPublished(c)
      BY <1>3 DEF Effect, NothingWritten, CommandApplied, CaseMarked
    <2>2. /\ w = call[c].wf /\ call[c].pc = "publishing"
          /\ p.rev = read.rev /\ p.doc = read.doc /\ p.cases = read.cases
      BY <1>3, <2>1 DEF RevisionPublished, TypeOK
    <2>3. Faithful(w, read) /\ Publishable(read)
      BY <2>2 DEF ReadsAreFaithful
    <2>4. QED
      BY <1>1, <2>2, <2>3 DEF Faithful, Named, Publishable
  <1>4. QED
    BY <1>2, <1>3

\* What a call knows of its command stays so.
LEMMA CallsStep ==
    ASSUME TypeOK, CallsNameCommands, NEW c \in Calls, Effect(c)
    PROVE  CallsNameCommands'
  <1> SUFFICES ASSUME NEW d \in Calls
               PROVE  /\ call'[d].pc = "missing" => call'[d].id \in CommandIds
                      /\ call'[d].pc = "answered" =>
                           \E e \in events' : e.id = call'[d].id /\ e.wf = call'[d].wf
                                              /\ e.result = call'[d].result
    BY DEF CallsNameCommands
  <1>1. events \subseteq events'
    BY EventsGrow
  <1>2. CASE d # c
    <2>1. call'[d] = call[d]
      BY <1>2 DEF Effect, OnlyCall
    <2>2. QED
      BY <1>1, <2>1 DEF CallsNameCommands
  <1>3. CASE d = c
    <2>1. CASE CommandApplied(c)
      <3> DEFINE e0 == [id |-> call[c].id, wf |-> call[c].wf, base |-> draft[call[c].wf].rev,
                        result |-> draft[call[c].wf].rev + 1]
      <3>1. /\ e0 \in events' /\ call'[c].pc = "answered" /\ call'[c].wf = e0.wf
            /\ call'[c].id = e0.id /\ call'[c].result = e0.result
        BY <2>1 DEF CommandApplied
      <3>2. QED
        BY <1>3, <3>1
    <2>2. QED
      BY <1>3, <2>1 DEF Effect, NothingWritten, CaseMarked, RevisionPublished
  <1>4. QED
    BY <1>2, <1>3

\* The number that is given is the next one, and the revision it is given to
\* is the draft's newest.
LEMMA NewestStep ==
    ASSUME TypeOK, CommandsAreNumbered, RevisionsAreFaithful, PublishedIsFinite,
           ActiveIsNewest, NEW c \in Calls, Effect(c)
    PROVE  PublishedIsFinite' /\ ActiveIsNewest'
  <1>1. CASE published' = published /\ active' = active
    BY <1>1 DEF PublishedIsFinite, ActiveIsNewest, Numbers
  <1>2. CASE RevisionPublished(c)
    <2> DEFINE w0 == call[c].wf
               no == active[w0] + 1
               new == [no |-> no, rev |-> call[c].read.rev, doc |-> call[c].read.doc,
                       cases |-> call[c].read.cases]
    <2>1. w0 \in Workflows
      BY DEF TypeOK, Call
    <2>2. active[w0] \in Nat /\ Max(Numbers(w0) \cup {0}) = active[w0]
      BY <2>1, NextNumber
    <2>3. /\ published'[w0] = published[w0] \cup {new} /\ active'[w0] = no
          /\ \A v \in Workflows : v # w0 => published'[v] = published[v] /\ active'[v] = active[v]
          /\ draft[w0].rev = call[c].read.rev
      BY <1>2, <2>1, <2>2 DEF RevisionPublished, TypeOK
    <2>4. new.no = no /\ new.rev = draft[w0].rev
      BY <2>3
    <2> HIDE DEF new
    <2>5. \A p \in published[w0] : p.no \in 1..active[w0]
      BY <2>1 DEF ActiveIsNewest, Numbers
    <2>6. new \notin published[w0]
      BY <2>2, <2>4, <2>5
    <2>7. \A p \in published[w0] : p.rev <= draft[w0].rev
      <3>1. SUFFICES ASSUME NEW p \in published[w0] PROVE p.rev <= draft[w0].rev
        OBVIOUS
      <3>2. Named(w0, p.rev, p.doc) /\ draft[w0].rev \in Nat
        BY <2>1 DEF RevisionsAreFaithful, Faithful, TypeOK, Draft
      <3>3. CASE p.rev = 0
        BY <3>2, <3>3
      <3>4. CASE p.rev # 0
        <4>1. PICK e \in events : e.wf = w0 /\ e.result = p.rev
          BY <3>2, <3>4 DEF Named
        <4>2. e.result \in 1..draft[e.wf].rev
          BY DEF CommandsAreNumbered
        <4>3. QED
          BY <4>1, <4>2
      <3>5. QED
        BY <3>3, <3>4
    <2>8. IsFiniteSet(published'[w0]) /\ Cardinality(published'[w0]) = active'[w0]
      <3>1. IsFiniteSet(published[w0]) /\ Cardinality(published[w0]) = active[w0]
        BY <2>1 DEF PublishedIsFinite, ActiveIsNewest
      <3>2. /\ IsFiniteSet(published[w0] \cup {new})
            /\ Cardinality(published[w0] \cup {new}) = Cardinality(published[w0]) + 1
        BY <2>6, <3>1, FS_AddElement
      <3>3. active'[w0] = active[w0] + 1
        BY <2>2, <2>3
      <3>4. QED
        BY <2>3, <3>1, <3>2, <3>3
    <2>9. {p.no : p \in published'[w0]} = 1..active'[w0]
      <3>1. {p.no : p \in published'[w0]} = {p.no : p \in published[w0]} \cup {no}
        BY <2>3, <2>4
      <3>2. {p.no : p \in published[w0]} = 1..active[w0]
        BY <2>1 DEF ActiveIsNewest, Numbers
      <3>3. QED
        BY <2>2, <2>3, <3>1, <3>2
    <2>10. \A p, q \in published'[w0] : p.no < q.no => p.rev <= q.rev
      <3>1. SUFFICES ASSUME NEW p \in published'[w0], NEW q \in published'[w0], p.no < q.no
                     PROVE  p.rev <= q.rev
        OBVIOUS
      <3>2. CASE p \in published[w0] /\ q \in published[w0]
        BY <2>1, <3>1, <3>2 DEF ActiveIsNewest
      <3>3. CASE q = new /\ p \in published[w0]
        BY <2>4, <2>7, <3>3
      <3>4. CASE p = new
        <4>1. q = new \/ q.no \in 1..active[w0]
          BY <2>3, <2>5
        <4>2. QED
          BY <2>2, <2>4, <3>1, <3>4, <4>1
      <3>5. QED
        BY <2>3, <3>2, <3>3, <3>4
    <2>11. PublishedIsFinite'
      BY <2>3, <2>8 DEF PublishedIsFinite
    <2>12. ActiveIsNewest'
      BY <2>3, <2>8, <2>9, <2>10 DEF ActiveIsNewest, Numbers
    <2>13. QED
      BY <2>11, <2>12
  <1>3. QED
    BY <1>1, <1>2 DEF Effect, NothingWritten, CommandApplied, CaseMarked

\* The inductive invariant survives every step of a call and holds at first.
LEMMA DraftInvStep ==
    ASSUME DraftInv, NEW c \in Calls, DraftMove(c)
    PROVE  DraftInv'
  <1>1. Effect(c)
    BY MoveEffect DEF DraftInv
  <1>2. TypeOK'
    BY <1>1, TypeStep DEF DraftInv
  <1>3. QED
    BY <1>1, <1>2, NumbersStep, DraftsStep, ReadsStep, RevisionsStep, CallsStep, NewestStep
       DEF DraftInv

\* Steps that leave the drafts alone preserve their invariant.
LEMMA DraftInvStays ==
    ASSUME DraftInv, UNCHANGED draftVars
    PROVE  DraftInv'
  BY DEF DraftInv, draftVars, TypeOK, CommandsAreNumbered, DraftsAreFaithful, ReadsAreFaithful,
         RevisionsAreFaithful, CallsNameCommands, PublishedIsFinite, ActiveIsNewest,
         Faithful, Named, Publishable, Numbers

\* The drafts' invariant holds at first.
LEMMA DraftInvInit == DraftInit => DraftInv
  <1> SUFFICES ASSUME DraftInit PROVE DraftInv
    OBVIOUS
  <1>1. TypeOK
    BY StartTypes, DraftAssumption DEF DraftInit, TypeOK
  <1>2. CommandsAreNumbered
    BY DEF DraftInit, CommandsAreNumbered, NewDraft
  <1>3. DraftsAreFaithful
    BY DEF DraftInit, DraftsAreFaithful, Faithful, Named, NewDraft, Absent, Open
  <1>4. ReadsAreFaithful /\ CallsNameCommands
    BY DEF DraftInit, ReadsAreFaithful, CallsNameCommands, IdleCall
  <1>5. RevisionsAreFaithful
    BY DEF DraftInit, RevisionsAreFaithful
  <1>6. PublishedIsFinite /\ ActiveIsNewest
    BY FS_EmptySet DEF DraftInit, PublishedIsFinite, ActiveIsNewest, Numbers
  <1>7. QED
    BY <1>1, <1>2, <1>3, <1>4, <1>5, <1>6 DEF DraftInv

\* The steps of DraftNext are steps of a call.
LEMMA DraftNextMoves ==
    ASSUME TypeOK, DraftNext
    PROVE  \E c \in Calls : DraftMove(c)
  <1>1. PICK c \in Calls : ClientCommand(c) \/ ServeDraft(c) \/ Return(c)
    BY DEF DraftNext
  <1>2. CASE ClientCommand(c)
    <2>1. \A w \in Workflows : 0..draft[w].rev \subseteq 0..MaxRevision
      BY DraftAssumption DEF TypeOK, Draft
    <2>2. QED
      BY <1>2, <2>1 DEF ClientCommand, DraftMove
  <1>3. QED
    BY <1>1, <1>2 DEF DraftMove, Return, Drop

-----------------------------------------------------------------------------
(* What the invariant says of the properties.                              *)

\* DocumentAt is the name of a revision's document.
NamesAreUnique ==
    \A w \in Workflows :
        /\ \A r, i : Named(w, r, i) => DocumentAt(w, r) = i
        /\ \A r \in 1..draft[w].rev : /\ DocumentAt(w, r) \in CommandIds
                                      /\ Named(w, r, DocumentAt(w, r))

\* Numbering the commands makes DocumentAt well defined.
LEMMA DocumentsAreNamed == DraftInv => NamesAreUnique
  <1> SUFFICES ASSUME TypeOK, CommandsAreNumbered, NEW w \in Workflows
               PROVE  /\ \A r, i : Named(w, r, i) => DocumentAt(w, r) = i
                      /\ \A r \in 1..draft[w].rev : /\ DocumentAt(w, r) \in CommandIds
                                                    /\ Named(w, r, DocumentAt(w, r))
    BY DEF NamesAreUnique, DraftInv
  <1>1. ASSUME NEW r, NEW i, Named(w, r, i) PROVE DocumentAt(w, r) = i
    <2>1. CASE r = 0
      BY <1>1, <2>1 DEF Named, DocumentAt
    <2>2. CASE r # 0
      <3>1. PICK e \in events : e.id = i /\ e.wf = w /\ e.result = r
        BY <1>1, <2>2 DEF Named
      <3>2. i \in CommandIds /\ \E x \in events : x.id = i /\ x.wf = w /\ x.result = r
        BY <3>1 DEF TypeOK, Event
      <3>3. \A j \in CommandIds : (\E x \in events : x.id = j /\ x.wf = w /\ x.result = r) => j = i
        BY <3>1 DEF CommandsAreNumbered
      <3>4. QED
        BY <2>2, <3>2, <3>3 DEF DocumentAt
    <2>3. QED
      BY <2>1, <2>2
  <1>2. ASSUME NEW r \in 1..draft[w].rev
        PROVE  DocumentAt(w, r) \in CommandIds /\ Named(w, r, DocumentAt(w, r))
    <2>1. PICK e \in events : e.wf = w /\ e.result = r
      BY DEF CommandsAreNumbered
    <2>2. e.id \in CommandIds /\ r > 0
      BY DEF TypeOK, Event, Draft
    <2>3. Named(w, r, e.id)
      BY <2>1, <2>2 DEF Named
    <2>4. QED
      BY <1>1, <2>2, <2>3
  <1>3. QED
    BY <1>1, <1>2

\* What was published is the document of its revision, and each case in it
\* was passed by an execution of this document.
LEMMA FrozenWasAccepted == DraftInv => PublishedWasAccepted
  <1> SUFFICES ASSUME DraftInv, NEW w \in Workflows, NEW p \in published[w]
               PROVE  /\ p.doc = DocumentAt(w, p.rev)
                      /\ \E k \in Cases : p.cases[k].status # "absent"
                      /\ \A k \in Cases : p.cases[k].status # "absent" =>
                             p.cases[k].status = "passed" /\ p.cases[k].saw = p.doc
    BY DEF PublishedWasAccepted
  <1>1. Faithful(w, p) /\ Publishable(p)
    BY DEF DraftInv, RevisionsAreFaithful
  <1>2. \A r, i : Named(w, r, i) => DocumentAt(w, r) = i
    BY DocumentsAreNamed DEF NamesAreUnique
  <1>3. p.doc = DocumentAt(w, p.rev)
    BY <1>1, <1>2 DEF Faithful
  <1>4. ASSUME NEW k \in Cases, p.cases[k].status # "absent"
        PROVE  p.cases[k].status = "passed" /\ p.cases[k].saw = p.doc
    <2>1. p.cases[k].status = "passed" /\ p.cases[k].rev = p.rev
      BY <1>1, <1>4 DEF Publishable
    <2>2. Named(w, p.rev, p.cases[k].saw)
      BY <1>1, <2>1 DEF Faithful
    <2>3. QED
      BY <1>2, <1>3, <2>1, <2>2
  <1>5. QED
    BY <1>1, <1>3, <1>4 DEF Publishable

-----------------------------------------------------------------------------
(* The drafts implement CommandLog.                                        *)

LogBar == [w \in Workflows |-> [r \in 1..draft[w].rev |-> DocumentAt(w, r)]]

AnswersBar == [c \in Calls |->
                 IF call[c].pc = "answered" THEN <<call[c].wf, call[c].id, call[c].result>>
                 ELSE <<>>]

LogStep == [Log!Next]_<<LogBar, AnswersBar>>

\* While no command is applied the log stays.
LEMMA LogStays ==
    ASSUME events' = events, \A w \in Workflows : draft'[w].rev = draft[w].rev
    PROVE  LogBar' = LogBar
  <1>1. \A w \in Workflows : [r \in 1..draft'[w].rev |-> DocumentAt(w, r)']
                               = [r \in 1..draft[w].rev |-> DocumentAt(w, r)]
    BY DEF DocumentAt
  <1>2. QED
    BY <1>1 DEF LogBar

\* Only the call's answer changes.
LEMMA OneAnswer ==
    ASSUME NEW c \in Calls, OnlyCall(c)
    PROVE  AnswersBar' = [AnswersBar EXCEPT ![c] =
             IF call'[c].pc = "answered" THEN <<call'[c].wf, call'[c].id, call'[c].result>>
             ELSE <<>>]
  BY DEF OnlyCall, AnswersBar

\* A call that is over, waits or reads is forgotten.
LEMMA ForgetMaps ==
    ASSUME NEW c \in Calls, OnlyCall(c), LogBar' = LogBar, call'[c].pc # "answered"
    PROVE  LogStep
  <1>1. AnswersBar' = [AnswersBar EXCEPT ![c] = <<>>]
    BY OneAnswer
  <1>2. Log!Forget(c)
    BY <1>1 DEF Log!Forget, LogBar, AnswersBar
  <1>3. QED
    BY <1>2 DEF LogStep, Log!Next

\* The stored result is where the command took effect.
LEMMA RepeatMaps ==
    ASSUME DraftInv, NEW c \in Calls, OnlyCall(c), LogBar' = LogBar,
           call'[c].pc = "answered",
           \E e \in events : e.id = call'[c].id /\ e.wf = call'[c].wf /\ e.result = call'[c].result
    PROVE  LogStep
  <1>1. PICK w, i, r : w = call'[c].wf /\ i = call'[c].id /\ r = call'[c].result
    OBVIOUS
  <1>0. PICK e \in events : e.id = i /\ e.wf = w /\ e.result = r
    BY <1>1
  <1>2. w \in Workflows /\ i \in CommandIds /\ r \in 1..draft[w].rev
    BY <1>0 DEF DraftInv, TypeOK, Event, CommandsAreNumbered
  <1>3. Named(w, r, i)
    BY <1>0, <1>2 DEF Named, DraftInv, TypeOK, Draft
  <1>4. DocumentAt(w, r) = i
    BY <1>2, <1>3, DocumentsAreNamed DEF NamesAreUnique
  <1>5. r \in DOMAIN LogBar[w] /\ LogBar[w][r] = i
    BY <1>2, <1>4 DEF LogBar
  <1>6. AnswersBar' = [AnswersBar EXCEPT ![c] = <<w, i, r>>]
    BY <1>1, OneAnswer
  <1>7. Log!Repeat(c, w, i)
    BY <1>5, <1>6 DEF Log!Repeat, LogBar, AnswersBar
  <1>8. \E v \in Workflows, j \in CommandIds : Log!Repeat(c, v, j)
    BY <1>2, <1>7
  <1>9. QED
    BY <1>8 DEF LogStep, Log!Next

\* Appending to the sequence of a workflow's commands.
LEMMA AppendInterval ==
    ASSUME NEW n \in Nat, NEW S, NEW f \in [1..n -> S], NEW i \in S,
           NEW g \in [1..(n + 1) -> S], g[n + 1] = i, \A r \in 1..n : g[r] = f[r]
    PROVE  g = Log!Append(f, i) /\ Log!Len(g) = n + 1
  <1>1. f \in Log!Seq(S) /\ Log!Len(f) = n /\ DOMAIN f = 1..n
    OBVIOUS
  <1>2. g \in Log!Seq(S) /\ Log!Len(g) = n + 1
    OBVIOUS
  <1>3. Log!Append(f, i) \in Log!Seq(S) /\ Log!Len(Log!Append(f, i)) = n + 1
    BY <1>1
  <1>4. \A r \in 1..(n + 1) : Log!Append(f, i)[r] = g[r]
    BY <1>1
  <1>5. QED
    BY <1>1, <1>2, <1>3, <1>4

\* A command that is applied becomes the last of its workflow.
LEMMA ExecuteMaps ==
    ASSUME DraftInv, NamesAreUnique, NamesAreUnique',
           NEW c \in Calls, OnlyCall(c), CommandApplied(c)
    PROVE  LogStep
  <1>0. PICK w, i, rev : w = call[c].wf /\ i = call[c].id /\ rev = draft[w].rev
    OBVIOUS
  <1> DEFINE old == [r \in 1..rev |-> DocumentAt(w, r)]
  <1>1. w \in Workflows /\ i \in CommandIds /\ rev \in Nat
    BY <1>0 DEF DraftInv, TypeOK, Call, Draft, CommandApplied, CallsNameCommands
  <1>2. /\ \A e \in events : e.id # i
        /\ events' = events \cup {[id |-> i, wf |-> w, base |-> rev, result |-> rev + 1]}
        /\ draft'[w].rev = rev + 1 /\ draft'[w].doc = i
        /\ \A v \in Workflows : v # w => draft'[v] = draft[v]
        /\ call'[c].pc = "answered" /\ call'[c].wf = w /\ call'[c].id = i
        /\ call'[c].result = rev + 1
    BY <1>0 DEF CommandApplied
  <1>3. \A v \in Workflows : \A r \in 1..draft[v].rev : DocumentAt(v, r)' = DocumentAt(v, r)
    <2>1. SUFFICES ASSUME NEW v \in Workflows, NEW r \in 1..draft[v].rev
                   PROVE  DocumentAt(v, r)' = DocumentAt(v, r)
      OBVIOUS
    <2>2. PICK j : j = DocumentAt(v, r) /\ Named(v, r, j)
      BY DEF NamesAreUnique
    <2>3. Named(v, r, j)'
      BY <1>2, <2>2 DEF Named
    <2>4. QED
      BY <2>2, <2>3 DEF NamesAreUnique
  <1>4. DocumentAt(w, rev + 1)' = i
    <2>1. PICK n : n = rev + 1
      OBVIOUS
    <2>2. Named(w, n, i)'
      <3> DEFINE e0 == [id |-> i, wf |-> w, base |-> rev, result |-> rev + 1]
      <3>1. e0 \in events' /\ e0.id = i /\ e0.wf = w /\ e0.result = n
        BY <1>2, <2>1
      <3>2. QED
        BY <1>1, <2>1, <3>1 DEF Named
    <2>3. QED
      BY <1>1, <2>1, <2>2 DEF NamesAreUnique
  <1> DEFINE new == [r \in 1..(rev + 1) |-> DocumentAt(w, r)']
  <1>5. /\ old \in [1..rev -> CommandIds] /\ new \in [1..(rev + 1) -> CommandIds]
        /\ new[rev + 1] = i /\ \A r \in 1..rev : new[r] = old[r]
    <2>1. \A r \in 1..rev : DocumentAt(w, r) \in CommandIds /\ DocumentAt(w, r)' = DocumentAt(w, r)
      BY <1>0, <1>1, <1>3 DEF NamesAreUnique
    <2>2. \A r \in 1..(rev + 1) : DocumentAt(w, r)' \in CommandIds
      BY <1>1, <1>4, <2>1
    <2>3. QED
      BY <1>1, <1>4, <2>1, <2>2
  <1>6. LogBar[w] = old /\ LogBar'[w] = new
    BY <1>0, <1>1, <1>2 DEF LogBar
  <1> HIDE DEF old, new
  <1>7. new = Log!Append(old, i) /\ Log!Len(new) = rev + 1
    BY <1>1, <1>5, AppendInterval
  <1>8. LogBar' = [LogBar EXCEPT ![w] = Log!Append(@, i)]
    <2>1. \A v \in Workflows : v # w => LogBar'[v] = LogBar[v]
      BY <1>2, <1>3 DEF LogBar
    <2>2. /\ LogBar = [v \in Workflows |-> LogBar[v]]
          /\ LogBar' = [v \in Workflows |-> LogBar'[v]]
      BY DEF LogBar
    <2> HIDE DEF LogBar
    <2>3. QED
      BY <1>6, <1>7, <2>1, <2>2
  <1>9. \A v \in Workflows : \A r \in 1..draft[v].rev : DocumentAt(v, r) # i
    BY <1>2 DEF NamesAreUnique, Named
  <1>10. i \notin Log!Applied
    BY <1>9 DEF Log!Applied, Log!ToSet
  <1>11. AnswersBar' = [AnswersBar EXCEPT ![c] = <<w, i, Log!Len(LogBar'[w])>>]
    BY <1>2, <1>6, <1>7, OneAnswer
  <1>12. Log!Execute(c, w, i)
    BY <1>8, <1>10, <1>11 DEF Log!Execute, LogBar, AnswersBar
  <1>13. \E v \in Workflows, j \in CommandIds : Log!Execute(c, v, j)
    BY <1>1, <1>12
  <1>14. QED
    BY <1>13 DEF LogStep, Log!Next

\* Every step of a call is a step of the log or leaves it alone.
LEMMA MoveMaps ==
    ASSUME DraftInv, DraftInv', NEW c \in Calls, DraftMove(c)
    PROVE  LogStep
  <1>1. Effect(c) /\ OnlyCall(c)
    BY MoveEffect DEF DraftInv, Effect
  <1>2. NamesAreUnique /\ NamesAreUnique'
    <2>1. DraftInv' => NamesAreUnique'
      BY DocumentsAreNamed, PTL
    <2>2. QED
      BY <2>1, DocumentsAreNamed
  <1>3. CASE CommandApplied(c)
    BY <1>1, <1>2, <1>3, ExecuteMaps
  <1>4. CASE ~ CommandApplied(c)
    <2>1. events' = events /\ \A w \in Workflows : draft'[w].rev = draft[w].rev
      BY <1>1, <1>4 DEF Effect, NothingWritten, CaseMarked, RevisionPublished
    <2>2. LogBar' = LogBar
      BY <2>1, LogStays
    <2>3. CASE call'[c].pc # "answered"
      BY <1>1, <2>2, <2>3, ForgetMaps
    <2>4. CASE call'[c].pc = "answered"
      <3>1. \E e \in events : e.id = call'[c].id /\ e.wf = call'[c].wf /\ e.result = call'[c].result
        BY <1>1, <1>4, <2>4 DEF Effect, NothingWritten, CaseMarked, RevisionPublished
      <3>2. QED
        BY <1>1, <2>2, <2>4, <3>1, RepeatMaps
    <2>5. QED
      BY <2>3, <2>4
  <1>5. QED
    BY <1>3, <1>4

\* The first drafts are empty logs.
LEMMA LogInitMaps == DraftInit => Log!Init
  <1> SUFFICES ASSUME DraftInit PROVE Log!Init
    OBVIOUS
  <1>1. LogBar = [w \in Workflows |-> <<>>]
    BY DEF LogBar, DraftInit, NewDraft
  <1>2. AnswersBar = [c \in Calls |-> <<>>]
    BY DEF AnswersBar, DraftInit, IdleCall
  <1>3. QED
    BY <1>1, <1>2 DEF Log!Init, LogBar, AnswersBar

-----------------------------------------------------------------------------
(* The drafts on their own.                                                *)

\* Whichever requests interleave, the drafts, the events, the revisions and
\* what the calls have read satisfy the inductive invariant.
THEOREM DraftInvariant == DraftSpec => []DraftInv
  <1>1. DraftInv /\ [DraftNext]_draftVars => DraftInv'
    BY DraftNextMoves, DraftInvStep, DraftInvStays DEF DraftInv
  <1>2. QED
    BY <1>1, DraftInvInit, PTL DEF DraftSpec

\* Only what was accepted is published, whatever interleaves with Publish's
\* reads (publication.go).
THEOREM DraftsPublishAccepted == DraftSpec => []PublishedWasAccepted
  BY DraftInvariant, FrozenWasAccepted, PTL

\* Revision numbers follow the drafts (PublishRevision).
THEOREM DraftsNumberRevisions == DraftSpec => []ActiveIsNewest
  BY DraftInvariant, PTL DEF DraftInv

\* Commands are a log with stored answers (ApplyCommand, ExecuteCommand).
THEOREM DraftsImplementCommandLog == DraftSpec => ImplementsCommandLog
  <1>1. DraftInv /\ DraftInv' /\ [DraftNext]_draftVars => LogStep
    <2>1. ASSUME DraftInv, DraftInv', UNCHANGED draftVars PROVE LogStep
      <3>1. LogBar' = LogBar /\ AnswersBar' = AnswersBar
        BY <2>1 DEF draftVars, LogBar, AnswersBar, DocumentAt
      <3>2. QED
        BY <3>1 DEF LogStep
    <2>2. QED
      BY <2>1, DraftNextMoves, MoveMaps DEF DraftInv
  <1>2. LogStep => [Log!Next]_<<LogBar, AnswersBar>>
    BY DEF LogStep
  <1>3. QED
    BY <1>1, <1>2, LogInitMaps, DraftInvariant, PTL
       DEF DraftSpec, ImplementsCommandLog, Log!Spec, LogBar, AnswersBar

(***************************************************************************)
(* Second, about DesignSession: the same with sessions at work, and what   *)
(* sessions and copies of them say.                                        *)
(***************************************************************************)
-----------------------------------------------------------------------------
(* The inductive invariant.                                                *)

\* x, the row of session s or a copy of it, says nothing that is not so.
Truthful(s, x) ==
    /\ x.rev <= draft[DraftOf[s]].rev
    /\ \A i \in Pending(x) : x.proposals[i].rev = x.rev
    /\ \A i \in CommandIds : x.proposals[i].fate = "accepted" =>
          \E e \in events : e.id = i /\ e.wf = DraftOf[s]

SessionsAreTruthful == \A s \in Sessions : Truthful(s, session[s])

\* The copies a request or an agent's run will save, however old.
CopiesAreTruthful ==
    \A c \in Calls : work[c].pc # "idle" => Truthful(work[c].of, work[c].copy)

\* The command of an acceptance is the one of its proposal.
AcceptanceExecutes ==
    \A c \in Calls : work[c].pc = "accepting" =>
        /\ work[c].id \in CommandIds
        /\ call[c].pc \in {"missing", "answered"} =>
             call[c].id = work[c].id /\ call[c].wf = DraftOf[work[c].of]
        /\ call[c].pc = "missing" => call[c].expected = ExpectedRevision(c)

IInv ==
    /\ DraftInv
    /\ SessionTypeOK
    /\ SessionsAreTruthful
    /\ CopiesAreTruthful
    /\ AcceptanceExecutes

-----------------------------------------------------------------------------
(* Sessions and their copies.                                              *)

\* The values sessions and requests start from have their types.
LEMMA StartTypesOfSessions ==
    /\ NewSession \in Session
    /\ IdleWork \in Work /\ IdleWork.pc = "idle"
    /\ \A fate \in Fates : Settled(fate) \in Proposal
  <1>1. \A fate \in Fates : Settled(fate) \in Proposal
    BY DraftAssumption DEF Settled, Proposal
  <1>2. NewSession \in Session
    BY <1>1, DraftAssumption DEF NewSession, Session, Statuses, Fates
  <1>3. PICK v \in Sessions : v = CHOOSE s \in Sessions : TRUE
    BY SessionAssumption
  <1>4. IdleWork \in Work
    BY <1>2, <1>3 DEF IdleWork, Work, Documents
  <1>5. QED
    BY <1>1, <1>2, <1>4 DEF IdleWork

\* Proposals that are closed, and nothing else, differ.
LEMMA ObsoleteFacts ==
    ASSUME NEW x \in Session, NEW ids
    PROVE  /\ Obsolete(x, ids) \in Session
           /\ Obsolete(x, ids).rev = x.rev /\ Obsolete(x, ids).status = x.status
           /\ \A i \in CommandIds : Obsolete(x, ids).proposals[i] =
                IF i \in ids THEN Settled("closed") ELSE x.proposals[i]
  <1> DEFINE y == [i \in CommandIds |-> IF i \in ids THEN Settled("closed") ELSE x.proposals[i]]
  <1>1. Settled("closed") \in Proposal
    BY StartTypesOfSessions DEF Fates
  <1>2. y \in [CommandIds -> Proposal]
    BY <1>1 DEF Session
  <1>3. Obsolete(x, ids) = [x EXCEPT !.proposals = y]
    BY DEF Obsolete
  <1> HIDE DEF y
  <1>4. /\ [x EXCEPT !.proposals = y] \in Session
        /\ [x EXCEPT !.proposals = y].proposals = y
        /\ [x EXCEPT !.proposals = y].rev = x.rev
        /\ [x EXCEPT !.proposals = y].status = x.status
    BY <1>2 DEF Session
  <1>5. QED
    BY <1>3, <1>4 DEF y

\* Changes that keep the revision and leave a pending proposal as it was.
Keeps(x, y) ==
    /\ y \in Session
    /\ y.rev = x.rev
    /\ \A i \in CommandIds :
         \/ y.proposals[i] = x.proposals[i]
         \/ y.proposals[i].fate = "closed"
         \/ y.proposals[i].fate = "pending" /\ y.proposals[i].rev = x.rev

\* Such a change keeps a truthful copy truthful.
LEMMA KeepsTruth ==
    ASSUME NEW s \in Sessions, NEW x, NEW y, Truthful(s, x), Keeps(x, y)
    PROVE  Truthful(s, y)
  BY DEF Truthful, Keeps, Pending

\* What a request or a tool does to its copy, other than an acceptance.
LEMMA CopyOperations ==
    ASSUME NEW x \in Session
    PROVE  /\ Keeps(x, x)
           /\ Keeps(x, AnswerHuman(x)) /\ Keeps(x, RequestHuman(x)) /\ Keeps(x, SwitchToManual(x))
           /\ \A i \in CommandIds : Keeps(x, Reject(x, i)) /\ Keeps(x, AddProposal(x, i))
  <1>1. Keeps(x, x)
    BY DEF Keeps
  <1>2. Keeps(x, AnswerHuman(x)) /\ Keeps(x, RequestHuman(x))
    BY DEF Keeps, AnswerHuman, RequestHuman, Session, Statuses
  <1>3. Keeps(x, SwitchToManual(x))
    <2> DEFINE y == Obsolete(x, Pending(x))
    <2>1. /\ y \in Session /\ y.rev = x.rev
          /\ \A i \in CommandIds : y.proposals[i] = x.proposals[i] \/ y.proposals[i] = Settled("closed")
      BY ObsoleteFacts
    <2>2. Settled("closed").fate = "closed"
      BY DEF Settled
    <2>3. SwitchToManual(x) = [y EXCEPT !.status = "manual_editing"]
      BY DEF SwitchToManual
    <2> HIDE DEF y
    <2>4. /\ [y EXCEPT !.status = "manual_editing"] \in Session
          /\ [y EXCEPT !.status = "manual_editing"].rev = y.rev
          /\ [y EXCEPT !.status = "manual_editing"].proposals = y.proposals
      BY <2>1 DEF Session, Statuses
    <2>5. QED
      BY <2>1, <2>2, <2>3, <2>4 DEF Keeps
  <1>4. ASSUME NEW i \in CommandIds, NEW p \in Proposal,
               p.fate = "closed" \/ (p.fate = "pending" /\ p.rev = x.rev)
        PROVE  Keeps(x, [x EXCEPT !.proposals[i] = p])
    BY <1>4 DEF Keeps, Session
  <1>5. ASSUME NEW i \in CommandIds PROVE Keeps(x, Reject(x, i)) /\ Keeps(x, AddProposal(x, i))
    <2>1. Settled("closed") \in Proposal /\ Settled("closed").fate = "closed"
      BY StartTypesOfSessions DEF Fates, Settled
    <2>2. PICK p : p = [fate |-> "pending", rev |-> x.rev]
      OBVIOUS
    <2>3. p \in Proposal /\ p.fate = "pending" /\ p.rev = x.rev
      BY <2>2 DEF Proposal, Fates, Session
    <2>4. Keeps(x, Reject(x, i))
      BY <1>4, <2>1 DEF Reject
    <2>5. Keeps(x, AddProposal(x, i))
      BY <1>4, <2>2, <2>3 DEF AddProposal
    <2>6. QED
      BY <2>4, <2>5
  <1>6. QED
    BY <1>1, <1>2, <1>3, <1>5

\* A copy that has caught up with the draft.
LEMMA RefreshKeepsTruth ==
    ASSUME NEW s \in Sessions, NEW x \in Session, Truthful(s, x), TypeOK
    PROVE  LET rev == draft[DraftOf[s]].rev
           IN  Refresh(x, rev) \in Session /\ Truthful(s, Refresh(x, rev))
  <1> DEFINE rev == draft[DraftOf[s]].rev
             y == Obsolete(x, Pending(x))
  <1>1. rev \in 0..MaxRevision
    BY SessionAssumption DEF TypeOK, Draft
  <1>2. CASE rev = x.rev
    BY <1>2 DEF Refresh
  <1>3. CASE rev # x.rev
    <2>1. /\ y \in Session
          /\ \A i \in CommandIds : y.proposals[i] =
                IF i \in Pending(x) THEN Settled("closed") ELSE x.proposals[i]
      BY ObsoleteFacts
    <2>2. Settled("closed").fate = "closed"
      BY DEF Settled
    <2> HIDE DEF y
    <2>3. /\ [y EXCEPT !.rev = rev] \in Session
          /\ [y EXCEPT !.rev = rev].rev = rev
          /\ [y EXCEPT !.rev = rev].proposals = y.proposals
      BY <1>1, <2>1 DEF Session
    <2>4. Refresh(x, rev) = [y EXCEPT !.rev = rev]
      BY <1>3 DEF Refresh, y
    <2>5. Truthful(s, [y EXCEPT !.rev = rev])
      BY <1>1, <2>1, <2>2, <2>3 DEF Truthful, Pending
    <2>6. QED
      BY <2>3, <2>4, <2>5
  <1>4. QED
    BY <1>2, <1>3

\* An accepted copy tells the truth once the command is applied.
LEMMA AcceptKeepsTruth ==
    ASSUME TypeOK, CommandsAreNumbered, NEW s \in Sessions, NEW x \in Session, Truthful(s, x),
           NEW i \in CommandIds, NEW e \in events, e.id = i, e.wf = DraftOf[s],
           e.result > x.rev
    PROVE  Accept(x, i, e.result) \in Session /\ Truthful(s, Accept(x, i, e.result))
  <1> DEFINE next == e.result
             y == [x EXCEPT !.proposals[i] = Settled("accepted"), !.rev = next]
             ids == {j \in Pending(y) : y.proposals[j].rev # next}
             z == Obsolete(y, ids)
  <1>1. next \in 0..MaxRevision /\ next <= draft[DraftOf[s]].rev
    BY DEF TypeOK, Event, CommandsAreNumbered
  <1>2. Settled("accepted") \in Proposal /\ Settled("accepted").fate = "accepted"
        /\ Settled("closed").fate = "closed"
    BY StartTypesOfSessions DEF Fates, Settled
  <1>3. /\ y \in Session /\ y.rev = next
        /\ y.proposals[i] = Settled("accepted")
        /\ \A j \in CommandIds : j # i => y.proposals[j] = x.proposals[j]
    BY <1>1, <1>2 DEF Session
  <1> HIDE DEF y
  <1>4. /\ z \in Session /\ z.rev = next
        /\ \A j \in CommandIds : z.proposals[j] =
             IF j \in ids THEN Settled("closed") ELSE y.proposals[j]
    BY <1>3, ObsoleteFacts
  <1>5. Accept(x, i, next) = z
    BY DEF Accept, y
  <1>6. \A j \in Pending(z) : z.proposals[j].rev = z.rev
    BY <1>2, <1>3, <1>4 DEF Pending
  <1>7. \A j \in CommandIds : z.proposals[j].fate = "accepted" =>
           \E f \in events : f.id = j /\ f.wf = DraftOf[s]
    BY <1>2, <1>3, <1>4 DEF Truthful
  <1>8. QED
    BY <1>1, <1>4, <1>5, <1>6, <1>7 DEF Truthful

-----------------------------------------------------------------------------
(* What the steps do.                                                      *)

\* Of the work of the calls only c's may have changed, and every row and copy
\* that is there now tells the truth about the drafts before the step.
SoundCopies(c) ==
    /\ session' \in [Sessions -> Session]
    /\ work' \in [Calls -> Work]
    /\ \A d \in Calls : d # c => work'[d] = work[d]
    /\ \A s \in Sessions : Truthful(s, session'[s])
    /\ work'[c].pc # "idle" => Truthful(work'[c].of, work'[c].copy)

\* What a step of a call does to the drafts.
OnDrafts(c) == DraftMove(c) \/ UNCHANGED draftVars

\* Rows and copies while they are left alone.
LEMMA NoCopyChanges ==
    ASSUME IInv, NEW c \in Calls, UNCHANGED <<session, work>>
    PROVE  SoundCopies(c)
  BY DEF IInv, SessionTypeOK, SessionsAreTruthful, CopiesAreTruthful, SoundCopies

\* The facts about one call that the actions need.
LEMMA OneCall ==
    ASSUME IInv, NEW c \in Calls
    PROVE  /\ work[c] \in Work /\ work[c].of \in Sessions /\ work[c].copy \in Session
           /\ session \in [Sessions -> Session] /\ work \in [Calls -> Work]
           /\ \A s \in Sessions : session[s] \in Session /\ Truthful(s, session[s])
           /\ work[c].pc # "idle" => Truthful(work[c].of, work[c].copy)
  BY DEF IInv, SessionTypeOK, Work, SessionsAreTruthful, CopiesAreTruthful

\* A request or a run begins with a copy of the row.
LEMMA BeginSound ==
    ASSUME IInv, NEW c \in Calls, NEW s \in Sessions, NEW copy, NEW i \in Documents,
           NEW pc \in {"saving", "accepting", "read"},
           Keeps(session[s], copy), Begin(c, s, pc, copy, i)
    PROVE  SoundCopies(c) /\ UNCHANGED draftVars
  <1> DEFINE new == [pc |-> pc, of |-> s, copy |-> copy, id |-> i]
  <1>1. copy \in Session /\ Truthful(s, copy)
    BY OneCall, KeepsTruth DEF Keeps
  <1>2. new \in Work /\ new.of = s /\ new.copy = copy
    BY <1>1 DEF Work
  <1> HIDE DEF new
  <1>3. work' = [work EXCEPT ![c] = new] /\ UNCHANGED <<draftVars, session>>
    BY DEF Begin, new
  <1>4. work' \in [Calls -> Work] /\ work'[c] = new /\ \A d \in Calls : d # c => work'[d] = work[d]
    BY <1>2, <1>3, OneCall
  <1>5. QED
    BY <1>1, <1>2, <1>3, <1>4, OneCall DEF SoundCopies

\* A row is written with what was made of a truthful copy.
LEMMA SaveSound ==
    ASSUME IInv, NEW c \in Calls, work[c].pc # "idle", NEW copy, Keeps(work[c].copy, copy),
           session' = [session EXCEPT ![work[c].of] = copy],
           \/ work' = [work EXCEPT ![c] = IdleWork]
           \/ work' = [work EXCEPT ![c].pc = "running"]
    PROVE  SoundCopies(c)
  <1>1. copy \in Session /\ Truthful(work[c].of, copy)
    BY OneCall, KeepsTruth DEF Keeps
  <1>2. session' \in [Sessions -> Session] /\ \A s \in Sessions : Truthful(s, session'[s])
    <2>1. \A s \in Sessions : session'[s] = session[s] \/ (s = work[c].of /\ session'[s] = copy)
      BY OneCall
    <2>2. session' \in [Sessions -> Session]
      BY <1>1, OneCall
    <2>3. QED
      BY <1>1, <2>1, <2>2, OneCall
  <1>3. CASE work' = [work EXCEPT ![c] = IdleWork]
    <2>1. /\ work' \in [Calls -> Work] /\ work'[c].pc = "idle"
          /\ \A d \in Calls : d # c => work'[d] = work[d]
      BY <1>3, OneCall, StartTypesOfSessions
    <2>2. QED
      BY <1>2, <2>1 DEF SoundCopies
  <1>4. CASE work' = [work EXCEPT ![c].pc = "running"]
    <2>1. PICK new : new = [work[c] EXCEPT !.pc = "running"]
      OBVIOUS
    <2>2. new \in Work /\ new.of = work[c].of /\ new.copy = work[c].copy
      BY <2>1, OneCall DEF Work
    <2>3. /\ work' \in [Calls -> Work] /\ work'[c] = new
          /\ \A d \in Calls : d # c => work'[d] = work[d]
      BY <1>4, <2>1, <2>2, OneCall
    <2>4. QED
      BY <1>2, <2>2, <2>3, OneCall DEF SoundCopies
  <1>5. QED
    BY <1>3, <1>4

\* A copy is replaced by a truthful one.
LEMMA CopySound ==
    ASSUME IInv, NEW c \in Calls, NEW copy \in Session, Truthful(work[c].of, copy),
           NEW pc \in {"saving", "flushing"},
           work' = [work EXCEPT ![c].copy = copy, ![c].pc = pc], session' = session
    PROVE  SoundCopies(c)
  <1>1. PICK new : new = [work[c] EXCEPT !.copy = copy, !.pc = pc]
    OBVIOUS
  <1>2. new \in Work /\ new.of = work[c].of /\ new.copy = copy
    BY <1>1, OneCall DEF Work
  <1>3. /\ work' \in [Calls -> Work] /\ work'[c] = new
        /\ \A d \in Calls : d # c => work'[d] = work[d]
    BY <1>1, <1>2, OneCall
  <1>4. QED
    BY <1>2, <1>3, OneCall DEF SoundCopies

\* ResolveProposal, AcceptProposal's last step before the save.
LEMMA ResolveSound ==
    ASSUME IInv, NEW c \in Calls, ResolveProposal(c)
    PROVE  SoundCopies(c) /\ DraftMove(c) /\ work'[c].pc # "accepting"
  <1> DEFINE s == work[c].of
             x == work[c].copy
             i == work[c].id
  <1>1. work[c].pc = "accepting" /\ call[c].pc = "answered" /\ call[c].result > x.rev
    BY DEF ResolveProposal, Resolvable
  <1>2. i \in CommandIds /\ call[c].id = i /\ call[c].wf = DraftOf[s]
    BY <1>1 DEF IInv, AcceptanceExecutes
  <1>3. PICK e \in events : e.id = i /\ e.wf = DraftOf[s] /\ e.result = call[c].result
    BY <1>1, <1>2 DEF IInv, DraftInv, CallsNameCommands
  <1>4. PICK copy : copy = Accept(x, i, call[c].result)
    OBVIOUS
  <1>5. copy \in Session /\ Truthful(s, copy)
    BY <1>1, <1>2, <1>3, <1>4, OneCall, AcceptKeepsTruth DEF IInv, DraftInv
  <1>6. /\ work' = [work EXCEPT ![c].copy = copy, ![c].pc = "saving"]
        /\ session' = session /\ call' = [call EXCEPT ![c] = IdleCall]
        /\ UNCHANGED <<draft, events, published, active>>
    BY <1>4 DEF ResolveProposal
  <1>7. SoundCopies(c)
    BY <1>5, <1>6, CopySound
  <1>8. work'[c].pc = "saving"
    BY <1>6, OneCall DEF Work
  <1>9. QED
    BY <1>6, <1>7, <1>8 DEF DraftMove, Drop

\* RefreshRun, the agent's first look at the draft.
LEMMA RefreshSound ==
    ASSUME IInv, NEW c \in Calls, RefreshRun(c)
    PROVE  SoundCopies(c) /\ UNCHANGED draftVars
  <1> DEFINE s == work[c].of
             rev == draft[DraftOf[s]].rev
  <1>1. PICK copy : copy = Refresh(work[c].copy, rev)
    OBVIOUS
  <1>2. PICK pc \in {"saving", "flushing"} :
          pc = IF copy.status = "agent_running" THEN "flushing" ELSE "saving"
    OBVIOUS
  <1>3. /\ work[c].pc = "read" /\ session' = session /\ UNCHANGED draftVars
        /\ work' = [work EXCEPT ![c].copy = copy, ![c].pc = pc]
    BY <1>1, <1>2 DEF RefreshRun
  <1>4. copy \in Session /\ Truthful(s, copy)
    BY <1>1, <1>3, OneCall, RefreshKeepsTruth DEF IInv, DraftInv
  <1>5. QED
    BY <1>3, <1>4, CopySound

\* A tool changes the copy and has it flushed.
LEMMA ToolSound ==
    ASSUME IInv, NEW c \in Calls, NEW copy, Keeps(work[c].copy, copy), Tool(c, copy)
    PROVE  SoundCopies(c) /\ UNCHANGED draftVars
  <1>1. /\ work[c].pc = "running" /\ session' = session /\ UNCHANGED draftVars
        /\ work' = [work EXCEPT ![c].copy = copy, ![c].pc = "flushing"]
    BY DEF Tool
  <1>2. copy \in Session /\ Truthful(work[c].of, copy)
    BY <1>1, OneCall, KeepsTruth DEF Keeps
  <1>3. QED
    BY <1>1, <1>2, CopySound

\* A request that is given up leaves rows and copies alone.
LEMMA AbandonSound ==
    ASSUME IInv, NEW c \in Calls, Abandon(c)
    PROVE  SoundCopies(c) /\ OnDrafts(c) /\ work'[c].pc = "idle"
  <1>1. /\ work' = [work EXCEPT ![c] = IdleWork] /\ session' = session
        /\ UNCHANGED <<draft, events, published, active>>
        /\ call' = call \/ call' = [call EXCEPT ![c] = IdleCall]
    BY DEF Abandon
  <1>2. /\ work' \in [Calls -> Work] /\ work'[c].pc = "idle"
        /\ \A d \in Calls : d # c => work'[d] = work[d]
    BY <1>1, OneCall, StartTypesOfSessions
  <1>3. QED
    BY <1>1, <1>2, OneCall DEF SoundCopies, OnDrafts, DraftMove, Drop, draftVars

\* ExecuteProposal, the lookup with the proposal's id and revision.
LEMMA ExecuteSound ==
    ASSUME IInv, NEW c \in Calls, ExecuteProposal(c)
    PROVE  /\ SoundCopies(c) /\ DraftMove(c)
           /\ call'[c].pc \in {"missing", "answered"} =>
                call'[c].id = work[c].id /\ call'[c].wf = DraftOf[work[c].of]
           /\ call'[c].pc = "missing" => call'[c].expected = ExpectedRevision(c)
           /\ \A d \in Calls : d # c => call'[d] = call[d]
  <1> DEFINE i == work[c].id
             w == DraftOf[work[c].of]
  <1>1. /\ work[c].pc = "accepting" /\ call[c].pc = "idle" /\ UNCHANGED <<session, work>>
        /\ LookUp(c, w, i, ProposalCommand[i], ExpectedRevision(c))
    BY DEF ExecuteProposal
  <1>2. i \in CommandIds /\ w \in Workflows /\ ProposalCommand[i] \in Commands
    BY <1>1, OneCall, SessionAssumption DEF IInv, AcceptanceExecutes
  <1>3. ExpectedRevision(c) \in 0..MaxRevision
    BY <1>2, OneCall DEF ExpectedRevision, Session, Proposal
  <1>4. DraftMove(c)
    BY <1>1, <1>2, <1>3 DEF DraftMove
  <1>5. /\ OnlyCall(c)
        /\ call'[c].pc \in {"missing", "answered"} => call'[c].id = i /\ call'[c].wf = w
        /\ call'[c].pc = "missing" => call'[c].expected = ExpectedRevision(c)
    BY <1>1, <1>2, <1>3, LookUpEffect DEF IInv, DraftInv
  <1>6. QED
    BY <1>1, <1>4, <1>5, NoCopyChanges DEF OnlyCall

\* Every step of a session request keeps rows and copies truthful, and is for
\* the drafts a step of a call or none.
LEMMA ServeSound ==
    ASSUME IInv, NEW c \in Calls, ServeSession(c)
    PROVE  SoundCopies(c) /\ OnDrafts(c)
  <1>0. Blank \in Documents /\ CommandIds \subseteq Documents
    BY DEF Documents
  <1>1. CASE \E s \in Sessions : \/ ReadAnswer(c, s)
                                 \/ ReadSwitch(c, s)
                                 \/ ReadRun(c, s)
                                 \/ \E i \in CommandIds : ReadReject(c, s, i) \/ ReadAccept(c, s, i)
    <2>1. PICK s \in Sessions : \/ ReadAnswer(c, s)
                                \/ ReadSwitch(c, s)
                                \/ ReadRun(c, s)
                                \/ \E i \in CommandIds : ReadReject(c, s, i) \/ ReadAccept(c, s, i)
      BY <1>1
    <2> DEFINE x == session[s]
    <2>2. x \in Session
      BY OneCall
    <2>3. /\ Keeps(x, x) /\ Keeps(x, AnswerHuman(x)) /\ Keeps(x, SwitchToManual(x))
          /\ \A i \in CommandIds : Keeps(x, Reject(x, i))
      BY <2>2, CopyOperations
    <2>4. CASE ReadAnswer(c, s) \/ ReadSwitch(c, s) \/ ReadRun(c, s)
      BY <1>0, <2>3, <2>4, BeginSound DEF ReadAnswer, ReadSwitch, ReadRun, OnDrafts
    <2>5. ASSUME NEW i \in CommandIds, ReadReject(c, s, i) \/ ReadAccept(c, s, i)
          PROVE  SoundCopies(c) /\ OnDrafts(c)
      BY <1>0, <2>3, <2>5, BeginSound DEF ReadReject, ReadAccept, OnDrafts
    <2>6. QED
      BY <2>1, <2>4, <2>5
  <1>2. CASE Save(c) \/ Flush(c) \/ EndRun(c)
    <2>1. work[c].pc # "idle" /\ UNCHANGED draftVars
      BY <1>2 DEF Save, Flush, EndRun
    <2>2. Keeps(work[c].copy, work[c].copy) /\ Keeps(work[c].copy, SwitchToManual(work[c].copy))
      BY OneCall, CopyOperations
    <2>3. \/ work' = [work EXCEPT ![c] = IdleWork]
          \/ work' = [work EXCEPT ![c].pc = "running"]
      BY <1>2 DEF Save, Flush, EndRun
    <2>4. \/ session' = [session EXCEPT ![work[c].of] = work[c].copy]
          \/ session' = [session EXCEPT ![work[c].of] = SwitchToManual(work[c].copy)]
      BY <1>2 DEF Save, Flush, EndRun
    <2>5. SoundCopies(c)
      BY <2>1, <2>2, <2>3, <2>4, SaveSound
    <2>6. QED
      BY <2>1, <2>5 DEF OnDrafts
  <1>3. CASE Abandon(c)
    BY <1>3, AbandonSound
  <1>4. CASE ExecuteProposal(c)
    BY <1>4, ExecuteSound DEF OnDrafts
  <1>5. CASE ResolveProposal(c)
    BY <1>5, ResolveSound DEF OnDrafts
  <1>6. CASE RefreshRun(c)
    BY <1>6, RefreshSound DEF OnDrafts
  <1>7. CASE AskTool(c) \/ \E i \in CommandIds : ProposeTool(c, i)
    <2>1. /\ Keeps(work[c].copy, RequestHuman(work[c].copy))
          /\ \A i \in CommandIds : Keeps(work[c].copy, AddProposal(work[c].copy, i))
      BY OneCall, CopyOperations
    <2>2. QED
      BY <1>7, <2>1, ToolSound DEF AskTool, ProposeTool, OnDrafts
  <1>8. QED
    BY <1>1, <1>2, <1>3, <1>4, <1>5, <1>6, <1>7 DEF ServeSession

\* Every step keeps rows and copies truthful and the drafts' invariant.
LEMMA StepSound ==
    ASSUME IInv, Next
    PROVE  \E c \in Calls : SoundCopies(c) /\ OnDrafts(c)
  <1>1. PICK c \in Calls :
          \/ ServeSession(c)
          \/ ServeDraft(c) /\ UNCHANGED <<session, work>>
          \/ work[c].pc = "idle" /\ (ClientCommand(c) \/ Return(c)) /\ UNCHANGED <<session, work>>
    BY DEF Next
  <1>2. CASE ServeSession(c)
    BY <1>2, ServeSound
  <1>3. CASE ServeDraft(c) /\ UNCHANGED <<session, work>>
    BY <1>3, NoCopyChanges DEF OnDrafts, DraftMove
  <1>4. CASE (ClientCommand(c) \/ Return(c)) /\ UNCHANGED <<session, work>>
    <2>1. \A w \in Workflows : 0..draft[w].rev \subseteq 0..MaxRevision
      BY DraftAssumption DEF IInv, DraftInv, TypeOK, Draft
    <2>2. DraftMove(c)
      BY <1>4, <2>1 DEF ClientCommand, Return, DraftMove, Drop
    <2>3. QED
      BY <1>4, <2>2, NoCopyChanges DEF OnDrafts
  <1>5. QED
    BY <1>1, <1>2, <1>3, <1>4

-----------------------------------------------------------------------------
(* The invariant is preserved.                                             *)

\* The drafts only move on.
LEMMA DraftsMoveOn ==
    ASSUME IInv, NEW c \in Calls, OnDrafts(c)
    PROVE  /\ DraftInv'
           /\ events \subseteq events'
           /\ \A w \in Workflows : /\ draft[w].rev \in Nat /\ draft'[w].rev \in Nat
                                   /\ draft[w].rev <= draft'[w].rev
  <1>1. CASE UNCHANGED draftVars
    BY <1>1, DraftInvStays DEF IInv, draftVars, DraftInv, TypeOK, Draft
  <1>2. CASE DraftMove(c)
    <2>1. Effect(c) /\ DraftInv'
      BY <1>2, MoveEffect, DraftInvStep DEF IInv, DraftInv
    <2>2. \A w \in Workflows : draft[w].rev \in Nat /\ draft'[w].rev \in Nat
      BY <2>1 DEF DraftInv, IInv, TypeOK, Draft
    <2>3. \A w \in Workflows : draft'[w].rev = draft[w].rev \/ draft'[w].rev = draft[w].rev + 1
      BY <2>1 DEF Effect, NothingWritten, CommandApplied, CaseMarked, RevisionPublished
    <2>4. QED
      BY <2>1, <2>2, <2>3, EventsGrow
  <1>3. QED
    BY <1>1, <1>2 DEF OnDrafts

\* What was true of the drafts stays true of them.
LEMMA TruthStays ==
    ASSUME NEW s \in Sessions, NEW x \in Session, Truthful(s, x), events \subseteq events',
           \A w \in Workflows : /\ draft[w].rev \in Nat /\ draft'[w].rev \in Nat
                                /\ draft[w].rev <= draft'[w].rev
    PROVE  Truthful(s, x)'
  <1>1. DraftOf[s] \in Workflows /\ x.rev \in Int
    BY SessionAssumption DEF Session
  <1>2. QED
    BY <1>1 DEF Truthful, Pending

\* Rows and copies after a step.
LEMMA CopiesStep ==
    ASSUME IInv, NEW c \in Calls, SoundCopies(c), OnDrafts(c)
    PROVE  SessionTypeOK' /\ SessionsAreTruthful' /\ CopiesAreTruthful'
  <1>1. /\ DraftInv' /\ events \subseteq events'
        /\ \A w \in Workflows : /\ draft[w].rev \in Nat /\ draft'[w].rev \in Nat
                                /\ draft[w].rev <= draft'[w].rev
    BY DraftsMoveOn
  <1>2. SessionTypeOK'
    BY <1>1 DEF SoundCopies, SessionTypeOK, DraftInv
  <1>3. \A s \in Sessions, x \in Session : Truthful(s, x) => Truthful(s, x)'
    BY <1>1, TruthStays
  <1>4. SessionsAreTruthful'
    <2>1. SUFFICES ASSUME NEW s \in Sessions PROVE Truthful(s, session[s])'
      BY DEF SessionsAreTruthful
    <2>2. PICK x \in Session : x = session'[s] /\ Truthful(s, x)
      BY DEF SoundCopies
    <2>3. Truthful(s, x)'
      BY <1>3, <2>2
    <2>4. QED
      BY <2>2, <2>3 DEF Truthful, Pending
  <1>5. CopiesAreTruthful'
    <2>1. SUFFICES ASSUME NEW d \in Calls, work'[d].pc # "idle"
                   PROVE  Truthful(work[d].of, work[d].copy)'
      BY DEF CopiesAreTruthful
    <2>2. /\ work'[d].of \in Sessions /\ work'[d].copy \in Session
          /\ Truthful(work'[d].of, work'[d].copy)
      BY <2>1, OneCall DEF SoundCopies, Work
    <2>3. PICK s \in Sessions, x \in Session : s = work'[d].of /\ x = work'[d].copy /\ Truthful(s, x)
      BY <2>2
    <2>4. Truthful(s, x)'
      BY <1>3, <2>3
    <2>5. QED
      BY <2>3, <2>4 DEF Truthful, Pending
  <1>6. QED
    BY <1>2, <1>4, <1>5

\* Only a command that waits for the row lock is answered by ServeDraft.
LEMMA ServeDraftAnswers ==
    ASSUME IInv, NEW c \in Calls, ServeDraft(c)
    PROVE  CommandApplied(c) \/ call'[c].pc \notin {"missing", "answered"}
  <1>0. call \in [Calls -> Call]
    BY DEF IInv, DraftInv, TypeOK
  <1>1. CASE Apply(c)
    BY <1>1, ApplyEffect DEF IInv, DraftInv
  <1>2. CASE RollBack(c)
    BY <1>0, <1>2, StartTypes DEF RollBack, Call
  <1>3. ASSUME NEW w \in Workflows, BuildRevision(c, w) \/ \E k \in Cases : ReadForTest(c, w, k)
        PROVE  call'[c].pc \notin {"missing", "answered"}
    <2>1. CASE BuildRevision(c, w)
      <3>1. call'[c] = [IdleCall EXCEPT !.pc = "publishing", !.wf = w, !.read = draft[w]]
        BY <1>0, <2>1 DEF BuildRevision
      <3>2. call'[c].pc = "publishing"
        BY <3>1, StartTypes DEF Call
      <3>3. QED
        BY <3>2
    <2>2. ASSUME NEW k \in Cases, ReadForTest(c, w, k)
          PROVE  call'[c].pc \notin {"missing", "answered"}
      <3>1. call'[c] = [IdleCall EXCEPT !.pc = "testing", !.wf = w, !.case = k, !.read = draft[w]]
        BY <1>0, <2>2 DEF ReadForTest
      <3>2. call'[c].pc = "testing"
        BY <3>1, StartTypes DEF Call
      <3>3. QED
        BY <3>2
    <2>3. QED
      BY <1>3, <2>1, <2>2
  <1>4. CASE MarkPassed(c) \/ PublishRevision(c) \/ Refuse(c)
    <2>1. call'[c] = IdleCall
      BY <1>0, <1>4 DEF MarkPassed, PublishRevision, Refuse
    <2>2. QED
      BY <2>1, StartTypes
  <1>5. QED
    BY <1>1, <1>2, <1>3, <1>4 DEF ServeDraft

\* An acceptance waits for, and is answered about, the command of its
\* proposal.
LEMMA AcceptanceStep ==
    ASSUME IInv, Next
    PROVE  AcceptanceExecutes'
  <1> DEFINE Kept(d) == work'[d].pc = "accepting" =>
               /\ work'[d].id \in CommandIds
               /\ call'[d].pc \in {"missing", "answered"} =>
                    call'[d].id = work'[d].id /\ call'[d].wf = DraftOf[work'[d].of]
               /\ call'[d].pc = "missing" =>
                    call'[d].expected = work'[d].copy.proposals[work'[d].id].rev
  <1>0. SUFFICES \A d \in Calls : Kept(d)
    BY DEF AcceptanceExecutes, ExpectedRevision
  <1>1. PICK c \in Calls :
          \/ ServeSession(c)
          \/ ServeDraft(c) /\ UNCHANGED <<session, work>>
          \/ work[c].pc = "idle" /\ (ClientCommand(c) \/ Return(c)) /\ UNCHANGED <<session, work>>
    BY DEF Next
  <1>2. \A d \in Calls : work'[d] = work[d] /\ call'[d] = call[d] => Kept(d)
    BY DEF IInv, AcceptanceExecutes, ExpectedRevision
  <1>3. CASE ServeSession(c)
    <2>1. SoundCopies(c)
      BY <1>3, ServeSound
    <2>2. CASE ExecuteProposal(c)
      <3>1. /\ UNCHANGED work /\ work[c].pc = "accepting" /\ work[c].id \in CommandIds
            /\ \A d \in Calls : d # c => call'[d] = call[d]
        BY <2>2, ExecuteSound DEF ExecuteProposal, IInv, AcceptanceExecutes
      <3>2. Kept(c)
        BY <2>2, <3>1, ExecuteSound DEF ExpectedRevision
      <3>3. QED
        BY <1>2, <3>1, <3>2
    <2>3. CASE /\ ~ ExecuteProposal(c)
               /\ call' = call \/ (call' = [call EXCEPT ![c] = IdleCall] /\ work'[c].pc # "accepting")
      <3>1. \A d \in Calls : d # c => Kept(d)
        <4>1. \A d \in Calls : d # c => call'[d] = call[d] /\ work'[d] = work[d]
          BY <2>1, <2>3 DEF SoundCopies, IInv, DraftInv, TypeOK
        <4>2. QED
          BY <1>2, <4>1
      <3>2. CASE work'[c].pc # "accepting"
        BY <3>1, <3>2
      <3>3. CASE work'[c].pc = "accepting"
        <4>1. PICK s \in Sessions, i \in CommandIds : ReadAccept(c, s, i)
          <5>1. work \in [Calls -> Work]
            BY OneCall
          <5>2. CASE \E s \in Sessions : ReadAnswer(c, s) \/ ReadSwitch(c, s) \/ ReadRun(c, s)
                       \/ \E i \in CommandIds : ReadReject(c, s, i)
            BY <3>3, <5>1, <5>2 DEF ReadAnswer, ReadSwitch, ReadRun, ReadReject, Begin
          <5>3. CASE Save(c) \/ Abandon(c) \/ EndRun(c)
            BY <3>3, <5>1, <5>3, StartTypesOfSessions DEF Save, Abandon, EndRun
          <5>4. CASE RefreshRun(c) \/ Flush(c)
            BY <3>3, <5>1, <5>4 DEF RefreshRun, Flush, Work
          <5>5. CASE AskTool(c) \/ \E i \in CommandIds : ProposeTool(c, i)
            BY <3>3, <5>1, <5>5 DEF AskTool, ProposeTool, Tool, Work
          <5>6. CASE ResolveProposal(c)
            BY <3>3, <5>6, ResolveSound
          <5>7. QED
            BY <1>3, <2>3, <5>2, <5>3, <5>4, <5>5, <5>6 DEF ServeSession
        <4>2. call'[c].pc = "idle" /\ work'[c].id = i
          BY <4>1, OneCall DEF ReadAccept, Begin, draftVars
        <4>3. QED
          BY <3>1, <4>2
      <3>4. QED
        BY <3>2, <3>3
    <2>4. CASE ~ ExecuteProposal(c)
      <3>1. CASE Abandon(c)
        <4>1. /\ call' = call \/ call' = [call EXCEPT ![c] = IdleCall]
              /\ work'[c].pc # "accepting"
          BY <3>1, AbandonSound DEF Abandon
        <4>2. QED
          BY <2>3, <2>4, <4>1
      <3>2. CASE ResolveProposal(c)
        <4>1. call' = [call EXCEPT ![c] = IdleCall] /\ work'[c].pc # "accepting"
          BY <3>2, ResolveSound DEF ResolveProposal
        <4>2. QED
          BY <2>3, <2>4, <4>1
      <3>3. CASE ~(Abandon(c) \/ ResolveProposal(c))
        <4>1. call' = call
          BY <1>3, <2>4, <3>3
             DEF ServeSession, ReadAnswer, ReadSwitch, ReadRun, ReadReject, ReadAccept, Begin, Save,
                 RefreshRun, Flush, ProposeTool, AskTool, Tool, EndRun, draftVars
        <4>2. QED
          BY <2>3, <2>4, <4>1
      <3>4. QED
        BY <3>1, <3>2, <3>3
    <2>5. QED
      BY <2>2, <2>4
  <1>4. CASE ServeDraft(c) /\ UNCHANGED <<session, work>>
    <2>1. Effect(c)
      BY <1>4, MoveEffect DEF IInv, DraftInv, DraftMove
    <2>2. Kept(c)
      <3>1. CASE CommandApplied(c)
        BY <1>4, <3>1 DEF CommandApplied, IInv, AcceptanceExecutes
      <3>2. CASE ~ CommandApplied(c)
        BY <1>4, <3>2, ServeDraftAnswers DEF IInv, AcceptanceExecutes
      <3>3. QED
        BY <3>1, <3>2
    <2>3. QED
      BY <1>2, <1>4, <2>1, <2>2 DEF Effect, OnlyCall
  <1>5. CASE work[c].pc = "idle" /\ (ClientCommand(c) \/ Return(c)) /\ UNCHANGED <<session, work>>
    <2>1. \A d \in Calls : d # c => call'[d] = call[d]
      BY <1>5 DEF ClientCommand, Return, LookUp, AnswerStored, IInv, DraftInv, TypeOK
    <2>2. QED
      BY <1>2, <1>5, <2>1
  <1>6. QED
    BY <1>1, <1>3, <1>4, <1>5

\* Every step preserves the inductive invariant.
LEMMA InvariantStep ==
    ASSUME IInv, [Next]_vars
    PROVE  IInv'
  <1>1. CASE Next
    <2>1. PICK c \in Calls : SoundCopies(c) /\ OnDrafts(c)
      BY <1>1, StepSound
    <2>2. QED
      BY <1>1, <2>1, DraftsMoveOn, CopiesStep, AcceptanceStep DEF IInv
  <1>2. CASE UNCHANGED vars
    <2>1. DraftInv'
      BY <1>2, DraftInvStays DEF IInv, vars
    <2>2. SessionTypeOK' /\ SessionsAreTruthful' /\ CopiesAreTruthful' /\ AcceptanceExecutes'
      BY <1>2, <2>1
         DEF IInv, vars, draftVars, SessionTypeOK, DraftInv, SessionsAreTruthful,
             CopiesAreTruthful, AcceptanceExecutes, Truthful, ExpectedRevision
    <2>3. QED
      BY <2>1, <2>2 DEF IInv
  <1>3. QED
    BY <1>1, <1>2

\* The inductive invariant holds at first.
LEMMA InitInvariant == Init => IInv
  <1> SUFFICES ASSUME Init PROVE IInv
    OBVIOUS
  <1>1. DraftInv
    BY DraftInvInit DEF Init
  <1>2. SessionTypeOK
    BY <1>1, StartTypesOfSessions DEF Init, SessionTypeOK, DraftInv
  <1>3. SessionsAreTruthful
    <2>1. \A w \in Workflows : draft[w].rev = 0
      BY DEF Init, DraftInit, NewDraft
    <2>2. \A i \in CommandIds : NewSession.proposals[i].fate = "none"
      BY DEF NewSession, Settled
    <2>3. NewSession.rev = 0
      BY DEF NewSession
    <2>4. QED
      BY <2>1, <2>2, <2>3, SessionAssumption DEF Init, SessionsAreTruthful, Truthful, Pending
  <1>4. CopiesAreTruthful /\ AcceptanceExecutes
    BY StartTypesOfSessions DEF Init, CopiesAreTruthful, AcceptanceExecutes
  <1>5. QED
    BY <1>1, <1>2, <1>3, <1>4 DEF IInv

-----------------------------------------------------------------------------
(* Theorems *)

\* Whatever requests, agents and clients interleave, rows, copies and calls
\* satisfy the inductive invariant.
THEOREM SessionInvariant == Spec => []IInv
  BY InitInvariant, InvariantStep, PTL DEF Spec

\* Every row, copy and answer always has a value of its type.
THEOREM SessionTypeCorrect == Spec => []SessionTypeOK
  BY SessionInvariant, PTL DEF IInv

\* Only accepted documents are published, with sessions at work too
\* (publication.go).
THEOREM PublishedAccepted == Spec => []PublishedWasAccepted
  <1>1. IInv => PublishedWasAccepted
    BY FrozenWasAccepted DEF IInv
  <1>2. QED
    BY <1>1, SessionInvariant, PTL

\* The active revision is the newest and was built from the newest draft
\* (PublishRevision).
THEOREM ActiveNewest == Spec => []ActiveIsNewest
  <1>1. IInv => ActiveIsNewest
    BY DEF IInv, DraftInv
  <1>2. QED
    BY <1>1, SessionInvariant, PTL

\* A proposal shown as accepted was applied, whichever save came last
\* (design_session.go).
THEOREM AcceptedApplied == Spec => []AcceptedWasApplied
  <1>1. IInv => AcceptedWasApplied
    BY DEF IInv, SessionsAreTruthful, Truthful, AcceptedWasApplied
  <1>2. QED
    BY <1>1, SessionInvariant, PTL

\* Pending proposals are for the revision the session stands at, which is not
\* ahead of the draft (design_session.go).
THEOREM PendingCurrent == Spec => []PendingIsCurrent
  <1>1. IInv => PendingIsCurrent
    BY DEF IInv, SessionsAreTruthful, Truthful, PendingIsCurrent
  <1>2. QED
    BY <1>1, SessionInvariant, PTL

\* A proposal is applied to the revision it was made for (AcceptProposal).
THEOREM ProposalsFitDraft == Spec => AppliedAsProposed
  <1>1. ASSUME IInv, [Next]_vars, NEW c \in Calls, work[c].pc = "accepting", draft' # draft,
               call'[c].pc = "answered", call[c].pc = "missing"
        PROVE  work[c].copy.proposals[work[c].id].rev = draft[DraftOf[work[c].of]].rev
    <2>1. PICK d \in Calls : OnDrafts(d)
      BY <1>1, StepSound DEF vars, draftVars
    <2>2. DraftMove(d)
      BY <1>1, <2>1 DEF OnDrafts, draftVars
    <2>3. Effect(d)
      BY <1>1, <2>2, MoveEffect DEF IInv, DraftInv
    <2>4. d = c
      BY <1>1, <2>3 DEF Effect, OnlyCall
    <2>5. CommandApplied(c)
      BY <1>1, <2>3, <2>4 DEF Effect, NothingWritten, CaseMarked, RevisionPublished
    <2>6. call[c].expected = draft[call[c].wf].rev
      BY <2>5 DEF CommandApplied
    <2>7. call[c].wf = DraftOf[work[c].of] /\ call[c].expected = ExpectedRevision(c)
      BY <1>1 DEF IInv, AcceptanceExecutes
    <2>8. QED
      BY <2>6, <2>7 DEF ExpectedRevision
  <1>2. IInv /\ [Next]_vars =>
          \A c \in Calls :
            work[c].pc = "accepting" /\ draft' # draft /\ call'[c].pc = "answered"
                /\ call[c].pc = "missing" =>
              work[c].copy.proposals[work[c].id].rev = draft[DraftOf[work[c].of]].rev
    BY <1>1
  <1>3. QED
    BY <1>2, SessionInvariant, PTL DEF Spec, AppliedAsProposed

\* With the sessions' acceptances, requests that die in any state, and the
\* agents' saves, the drafts still implement CommandLog.
THEOREM SessionsImplementCommandLog == Spec => ImplementsCommandLog
  <1>1. ASSUME IInv, IInv', [Next]_vars PROVE LogStep
    <2>1. CASE UNCHANGED draftVars
      <3>1. LogBar' = LogBar /\ AnswersBar' = AnswersBar
        BY <2>1 DEF draftVars, LogBar, AnswersBar, DocumentAt
      <3>2. QED
        BY <3>1 DEF LogStep
    <2>2. CASE \E c \in Calls : DraftMove(c)
      BY <1>1, <2>2, MoveMaps DEF IInv
    <2>3. QED
      BY <1>1, <2>1, <2>2, StepSound DEF OnDrafts, vars
  <1>2. LogStep => [Log!Next]_<<LogBar, AnswersBar>>
    BY DEF LogStep
  <1>3. Init => Log!Init
    BY LogInitMaps DEF Init
  <1>4. QED
    BY <1>1, <1>2, <1>3, SessionInvariant, PTL
       DEF Spec, ImplementsCommandLog, Log!Spec, LogBar, AnswersBar

=============================================================================
