\* A human cannot take over a node that waits for its retry.
SPECIFICATION Spec
CONSTANTS
    Runs = {r1}
    Processes = {p1}
    NodeCount = 2
    ManualCapable <- MCManualCapable
    RetryLimit = 1
    MaxAttempt = 2
    NoOwner = NoOwner
INVARIANT
    TakeoverDuringRetry
CHECK_DEADLOCK FALSE
