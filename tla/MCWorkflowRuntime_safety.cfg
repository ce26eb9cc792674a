\* One run of two nodes, two server processes, two claims per node.
SPECIFICATION Spec
CONSTANTS
    Runs = {r1}
    Processes = {p1, p2}
    NodeCount = 2
    ManualCapable <- MCManualCapable
    RetryLimit = 1
    MaxAttempt = 2
    NoOwner = NoOwner
SYMMETRY ProcessSymmetry
INVARIANTS
    TypeOK
    LinearFrontier
    RunAgreesWithNode
    ExclusiveToken
    OutputsOfWinner
    CheckpointLineage
    LeaseFitsStatus
PROPERTIES
    OnlyHolderDecides
    SucceededIsFinal
    PausedIsLeftAlone
    ImplementsLinearRun
    ImplementsNodeFence
CHECK_DEADLOCK FALSE
