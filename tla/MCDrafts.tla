------------------------------ MODULE MCDrafts ------------------------------
(* Instances of DesignSession, and of DraftPublication with it, for TLC.   *)
EXTENDS DesignSession, TLC

MCDraftOf == [s \in Sessions |-> CHOOSE w \in Workflows : TRUE]
MCProposalCommand == [i \in CommandIds |-> Edit]

\* A behaviour is about the sessions, without acceptance runs and
\* publications, or about the drafts, without sessions.
VARIABLE focus

\* The calls that run an agent: the bound leaves one for the user.
AgentCalls == {c \in Calls : work[c].pc \in {"read", "flushing", "running"}}

\* A command of a client while the sessions are looked at.
EditDraft(c) ==
    /\ call[c].pc = "idle"
    /\ \E s \in Sessions, i \in CommandIds :
          LookUp(c, DraftOf[s], i, Edit, draft[DraftOf[s]].rev)

MCInit == Init /\ focus \in {"drafts", "sessions"}

MCNext ==
    /\ UNCHANGED focus
    /\ \E c \in Calls :
        \/ focus = "drafts" /\ (ServeDraft(c) \/ ClientCommand(c) \/ Return(c))
               /\ UNCHANGED <<session, work>>
        \/ /\ focus = "sessions"
           /\ \/ ServeSession(c) /\ AgentCalls' # Calls
              \/ (Apply(c) \/ RollBack(c)) /\ UNCHANGED <<session, work>>
              \/ work[c].pc = "idle" /\ (EditDraft(c) \/ Return(c))
                    /\ UNCHANGED <<session, work>>

MCSpec == MCInit /\ [][MCNext]_<<vars, focus>>

Symmetry == Permutations(Calls) \cup Permutations(CommandIds)
=============================================================================
