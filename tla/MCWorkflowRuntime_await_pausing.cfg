\* A pausing run enters manual completion.
SPECIFICATION Spec
CONSTANTS
    Runs = {r1}
    Processes = {p1}
    NodeCount = 2
    ManualCapable <- MCManualCapable
    RetryLimit = 1
    MaxAttempt = 2
    NoOwner = NoOwner
PROPERTY
    AwaitOnlyFromRunning
CHECK_DEADLOCK FALSE
