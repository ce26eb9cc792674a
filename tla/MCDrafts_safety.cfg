SPECIFICATION MCSpec
CONSTANTS
  Workflows = {w1}
  CommandIds = {i1, i2}
  Cases = {k1, k2}
  Calls = {c1, c2}
  Sessions = {s1}
  DraftOf <- MCDraftOf
  ProposalCommand <- MCProposalCommand
  MaxRevision = 2
  MaxPublished = 2
  Blank = Blank
  NoCase = NoCase
INVARIANTS SessionTypeOK PublishedWasAccepted ActiveIsNewest AcceptedWasApplied PendingIsCurrent
PROPERTIES ImplementsCommandLog AppliedAsProposed
SYMMETRY Symmetry
