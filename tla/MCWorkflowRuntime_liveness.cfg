\* Liveness of one node with two processes that are restarted whenever they stop.
SPECIFICATION FairSpec
CONSTANTS
    Runs = {r1}
    Processes = {p1, p2}
    NodeCount = 1
    ManualCapable <- MCManualCapable
    RetryLimit = 1
    MaxAttempt = 2
    NoOwner = NoOwner
PROPERTIES
    OrphansAreRecovered
    PauseSettles
CHECK_DEADLOCK FALSE
