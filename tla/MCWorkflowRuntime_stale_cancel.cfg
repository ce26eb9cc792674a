\* A late cancellation pauses a run the user has resumed.
SPECIFICATION Spec
CONSTANTS
    Runs = {r1}
    Processes = {p1}
    NodeCount = 2
    ManualCapable <- MCManualCapable
    RetryLimit = 1
    MaxAttempt = 2
    NoOwner = NoOwner
PROPERTY
    PausedThroughPausing
CHECK_DEADLOCK FALSE
