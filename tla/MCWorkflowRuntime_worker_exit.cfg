\* No fault occurs, yet an expired lease is never recovered.
SPECIFICATION FaultFreeSpec
CONSTANTS
    Runs = {r1}
    Processes = {p1}
    NodeCount = 1
    ManualCapable <- MCManualCapable
    RetryLimit = 1
    MaxAttempt = 2
    NoOwner = NoOwner
PROPERTY
    OrphansAreRecovered
CHECK_DEADLOCK FALSE
