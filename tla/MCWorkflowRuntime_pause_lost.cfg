\* A requested pause is forgotten by RetryWorkflowNode.
SPECIFICATION Spec
CONSTANTS
    Runs = {r1}
    Processes = {p1}
    NodeCount = 1
    ManualCapable <- MCManualCapable
    RetryLimit = 1
    MaxAttempt = 2
    NoOwner = NoOwner
PROPERTY
    PauseIsKept
CHECK_DEADLOCK FALSE
