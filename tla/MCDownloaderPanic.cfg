\* Is the double close of a Jobs channel really gone?
CONSTANTS
    Worker = {w1}
    N = 1
    MaxPieceFailures = 1
    MaxAttempts = 2
    MaxRuns = 1
SPECIFICATION Spec
INVARIANT NoPanic
CHECK_DEADLOCK FALSE
