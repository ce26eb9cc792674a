\* One publisher, two derivers, one of them claimed twice, and clients that
\* open a draft and the first deriver's batch and commit any batch.
SPECIFICATION Spec
CONSTANTS
    Publishers = {b1}
    Derivers = {q1, q2}
    Drafts = {d1}
    k1 = k1
    k2 = k2
    Keys <- MCKeys
    Approved <- MCApproved
    Goal <- MCGoal
    MaxAttempt = 2
    Retried = {q1}
    Opened = {d1, q1}
    NoRun = NoRun
INVARIANTS
    TypeOK
    SeqsAreContiguous
    BatchOwnsItsRange
    DerivedExactlyOnce
    CursorAgreesWithBatch
    IncrementIsComplete
    AnswerIsDurable
PROPERTIES
    AppendOnly
    CursorMovesWithBatch
    ImplementsDerivedLog
CHECK_DEADLOCK FALSE
