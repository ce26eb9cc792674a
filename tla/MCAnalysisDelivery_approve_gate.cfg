\* The first approval of an output that is not empty is refused as a different one.
SPECIFICATION Spec
CONSTANTS
    empty = empty
    o1 = o1
    r1 = r1
    r2 = r2
    None = None
    Outputs = {empty, o1}
    Compact = {empty}
    Reviewers = {r1, r2}
    MaxAttempt = 2
INVARIANT
    RefusedOnlyIfDifferent
SYMMETRY ReviewerSymmetry
CHECK_DEADLOCK FALSE
