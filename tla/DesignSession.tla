---------------------------- MODULE DesignSession ----------------------------
(***************************************************************************)
(* Design sessions: an agent proposes commands for a draft or asks the     *)
(* user a question; the user answers, accepts, rejects or takes over.      *)
(*                                                                         *)
(* Every request reads the session's row, changes its copy and saves the   *)
(* whole row; the last save wins.  An agent's run keeps its copy for long  *)
(* and saves it whenever the trace is flushed.  Accepting a proposal runs  *)
(* its command through DraftPublication's ExecuteCommand, in a transaction *)
(* of its own, with the proposal's id as command_id.  The ids are chosen   *)
(* by the model (the LLM) and unique within one session only.              *)
(***************************************************************************)
EXTENDS DraftPublication

CONSTANTS
    Sessions,
    DraftOf,        \* the workflow each session designs
    ProposalCommand \* the command a model proposes under an id

ASSUME SessionAssumption ==
    /\ Sessions # {}
    /\ DraftOf \in [Sessions -> Workflows]
    /\ ProposalCommand \in [CommandIds -> Commands]

VARIABLES
    session,  \* workflow_design_sessions
    work      \* of each call: the session request it serves

vars == <<draftVars, session, work>>

\* A mode is a function of the status: only manual_editing is manual.
\* Complete and StartAgent have no caller.  Nothing reads the question back.
Statuses == {"manual_editing", "agent_running", "awaiting_human"}

\* The revision of a proposal is read while it is pending only; "closed"
\* stands for rejected and for obsolete.
Fates == {"none", "pending", "accepted", "closed"}
Proposal == [fate : Fates, rev : 0..MaxRevision]
Settled(fate) == [fate |-> fate, rev |-> 0]

Session == [rev : 0..MaxRevision, status : Statuses, proposals : [CommandIds -> Proposal]]

NewSession == [rev |-> 0, status |-> "agent_running",
               proposals |-> [i \in CommandIds |-> Settled("none")]]

\* "saving": the copy is changed and about to be saved.  "accepting": the
\* command is being executed.  "read": an agent's run has read the row.
\* "flushing": its copy was changed by a tool.  "running": it is saved.
Work == [pc : {"idle", "saving", "accepting", "read", "flushing", "running"},
         of : Sessions, copy : Session, id : Documents]

IdleWork == [pc |-> "idle", of |-> CHOOSE s \in Sessions : TRUE, copy |-> NewSession,
             id |-> Blank]

Init ==
    /\ DraftInit
    /\ session = [s \in Sessions |-> NewSession]
    /\ work = [c \in Calls |-> IdleWork]

-----------------------------------------------------------------------------
(* The session's own operations, on a copy x *)

Pending(x) == {i \in CommandIds : x.proposals[i].fate = "pending"}

Obsolete(x, ids) ==
    [x EXCEPT !.proposals = [i \in CommandIds |->
        IF i \in ids THEN Settled("closed") ELSE @[i]]]

SwitchToManual(x) ==
    [Obsolete(x, Pending(x)) EXCEPT !.status = "manual_editing"]

AnswerHuman(x) == [x EXCEPT !.status = "agent_running"]

RequestHuman(x) == [x EXCEPT !.status = "awaiting_human"]

AddProposal(x, i) == [x EXCEPT !.proposals[i] = [fate |-> "pending", rev |-> x.rev]]

Reject(x, i) == [x EXCEPT !.proposals[i] = Settled("closed")]

\* A mutant of Refresh: the revision is counted once too often.
RefreshPast(x, rev) == IF rev = x.rev THEN x ELSE [Obsolete(x, Pending(x)) EXCEPT !.rev = rev + 1]

\* A mutant of Accept: the other proposals stay pending.
AcceptKeepsOthers(x, i, next) ==
    [x EXCEPT !.proposals[i] = Settled("accepted"), !.rev = next]

Accept(x, i, next) ==
    LET y == [x EXCEPT !.proposals[i] = Settled("accepted"), !.rev = next]
    IN  Obsolete(y, {j \in Pending(y) : y.proposals[j].rev # next})

\* RefreshDraftRevision; it does nothing when the draft has not moved.
Refresh(x, rev) ==
    IF rev = x.rev THEN x ELSE [Obsolete(x, Pending(x)) EXCEPT !.rev = rev]

-----------------------------------------------------------------------------
(* Requests *)

Begin(c, s, pc, copy, i) ==
    /\ call[c].pc = "idle"
    /\ work[c].pc = "idle"
    /\ work' = [work EXCEPT ![c] = [pc |-> pc, of |-> s, copy |-> copy, id |-> i]]
    /\ UNCHANGED <<draftVars, session>>

\* Answer, RejectProposal and SwitchToManual: read the row, change the copy.
ReadAnswer(c, s) ==
    /\ session[s].status = "awaiting_human"
    /\ Begin(c, s, "saving", AnswerHuman(session[s]), Blank)

ReadReject(c, s, i) ==
    /\ i \in Pending(session[s])
    /\ Begin(c, s, "saving", Reject(session[s], i), Blank)

ReadSwitch(c, s) == Begin(c, s, "saving", SwitchToManual(session[s]), Blank)

Save(c) ==
    /\ work[c].pc = "saving"
    /\ session' = [session EXCEPT ![work[c].of] = work[c].copy]
    /\ work' = [work EXCEPT ![c] = IdleWork]
    /\ UNCHANGED draftVars

\* A request that fails or whose process dies saves nothing more.
Abandon(c) ==
    /\ work[c].pc # "idle"
    /\ work' = [work EXCEPT ![c] = IdleWork]
    /\ IF call[c].pc = "idle" THEN UNCHANGED call
       ELSE call' = [call EXCEPT ![c] = IdleCall]
    /\ UNCHANGED <<draft, events, published, active, session>>

-----------------------------------------------------------------------------
(* AcceptProposal *)

ReadAccept(c, s, i) ==
    /\ i \in Pending(session[s])
    /\ Begin(c, s, "accepting", session[s], i)

\* A mutant of ExpectedRevision: the command is sent for the draft as it is.
ExpectedRevisionNow(c) == draft[DraftOf[work[c].of]].rev

\* The revision the proposal was made for.
ExpectedRevision(c) == work[c].copy.proposals[work[c].id].rev

ExecuteProposal(c) ==
    LET i == work[c].id
    IN  /\ work[c].pc = "accepting"
        /\ call[c].pc = "idle"
        /\ LookUp(c, DraftOf[work[c].of], i, ProposalCommand[i], ExpectedRevision(c))
        /\ UNCHANGED <<session, work>>

\* A mutant of Resolvable: a failed command is taken for an applied one.
ResolvableAnyway(c) == call[c].pc \in {"answered", "failed"}

\* ResolveProposal refuses a revision that is not newer than the session's.
Resolvable(c) ==
    /\ call[c].pc = "answered"
    /\ call[c].result > work[c].copy.rev

ResolveProposal(c) ==
    /\ work[c].pc = "accepting"
    /\ Resolvable(c)
    /\ work' = [work EXCEPT ![c].pc = "saving",
                            ![c].copy = Accept(@, work[c].id, call[c].result)]
    /\ call' = [call EXCEPT ![c] = IdleCall]
    /\ UNCHANGED <<draft, events, published, active, session>>

-----------------------------------------------------------------------------
(* A run of the agent *)

ReadRun(c, s) == Begin(c, s, "read", session[s], Blank)

\* Run reads the draft after the session and refreshes its copy; the agent
\* does not start unless the session is agent_running, but the copy is saved.
\* Otherwise the first flush saves it.
RefreshRun(c) ==
    LET s == work[c].of
        rev == draft[DraftOf[s]].rev
        copy == Refresh(work[c].copy, rev)
    IN  /\ work[c].pc = "read"
        /\ rev >= work[c].copy.rev
        /\ work' = [work EXCEPT ![c].copy = copy,
              ![c].pc = IF copy.status = "agent_running" THEN "flushing" ELSE "saving"]
        /\ UNCHANGED <<draftVars, session>>

\* OnFlush, forced after each tool call and when the run ends.
Flush(c) ==
    /\ work[c].pc \in {"flushing", "running"}
    /\ session' = [session EXCEPT ![work[c].of] = work[c].copy]
    /\ work' = [work EXCEPT ![c].pc = "running"]
    /\ UNCHANGED draftVars

Tool(c, copy) ==
    /\ work[c].pc = "running"
    /\ work[c].copy.status = "agent_running"
    /\ work' = [work EXCEPT ![c].pc = "flushing", ![c].copy = copy]
    /\ UNCHANGED <<draftVars, session>>

\* submit_command_proposals: the id must be new in this session.
ProposeTool(c, i) ==
    /\ work[c].copy.proposals[i].fate = "none"
    /\ Tool(c, AddProposal(work[c].copy, i))

\* request_human_decision ends the loop; what follows are saves.
AskTool(c) == Tool(c, RequestHuman(work[c].copy))

\* The last save of Run; an error of the model switches the copy to manual.
EndRun(c) ==
    /\ work[c].pc = "running"
    /\ \E copy \in {work[c].copy} \cup
             (IF work[c].copy.status = "agent_running" THEN {SwitchToManual(work[c].copy)}
              ELSE {}) :
          session' = [session EXCEPT ![work[c].of] = copy]
    /\ work' = [work EXCEPT ![c] = IdleWork]
    /\ UNCHANGED draftVars

ServeSession(c) ==
    \/ \E s \in Sessions :
          \/ ReadAnswer(c, s)
          \/ ReadSwitch(c, s)
          \/ ReadRun(c, s)
          \/ \E i \in CommandIds : ReadReject(c, s, i) \/ ReadAccept(c, s, i)
    \/ Save(c)
    \/ Abandon(c)
    \/ ExecuteProposal(c)
    \/ ResolveProposal(c)
    \/ RefreshRun(c)
    \/ Flush(c)
    \/ \E i \in CommandIds : ProposeTool(c, i)
    \/ AskTool(c)
    \/ EndRun(c)

Next ==
    \E c \in Calls :
        \/ ServeSession(c)
        \/ ServeDraft(c) /\ UNCHANGED <<session, work>>
        \/ work[c].pc = "idle" /\ (ClientCommand(c) \/ Return(c)) /\ UNCHANGED <<session, work>>

Spec == Init /\ [][Next]_vars

-----------------------------------------------------------------------------
(* Properties *)

SessionTypeOK ==
    /\ TypeOK
    /\ session \in [Sessions -> Session]
    /\ work \in [Calls -> Work]

\* A proposal that is shown as accepted has taken effect: a command with its
\* id was applied to the session's workflow, whichever request saved the row
\* last and wherever an acceptance was interrupted.
AcceptedWasApplied ==
    \A s \in Sessions, i \in CommandIds :
        session[s].proposals[i].fate = "accepted" =>
            \E e \in events : e.id = i /\ e.wf = DraftOf[s]

\* A pending proposal is one for the revision the session stands at, and the
\* session never runs ahead of the draft.  So an acceptance that applied the
\* command but died before it saved the session can be repeated: the stored
\* result is newer than the session's revision.
PendingIsCurrent ==
    \A s \in Sessions :
        /\ session[s].rev <= draft[DraftOf[s]].rev
        /\ \A i \in Pending(session[s]) : session[s].proposals[i].rev = session[s].rev

\* A command that was applied on a proposal's behalf was applied to the
\* revision the proposal was made for: a proposal is never applied to a draft
\* its author has not seen.
AppliedAsProposed ==
    [][\A c \in Calls :
          work[c].pc = "accepting" /\ draft' # draft /\ call'[c].pc = "answered"
              /\ call[c].pc = "missing" =>
            work[c].copy.proposals[work[c].id].rev = draft[DraftOf[work[c].of]].rev]_vars
=============================================================================
