\* A second attempt does not find the batch its run has committed.
SPECIFICATION Spec
CONSTANTS
    Publishers = {b1}
    Derivers = {q1, q2}
    Drafts = {d1}
    k1 = k1
    k2 = k2
    Keys <- MCKeys
    Approved <- MCApproved
    Goal <- MCGoal
    MaxAttempt = 2
    Retried = {q1}
    Opened = {d1, q1}
    NoRun = NoRun
INVARIANT
    TakeoverReusesBatch
CHECK_DEADLOCK FALSE
