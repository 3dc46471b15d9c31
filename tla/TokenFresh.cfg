SPECIFICATION Spec
CONSTANTS
    Workers = {w1, w2}
    Requests <- MixedRequests
    MaxStarts = 2
    MaxChanges = 1
SYMMETRY WorkerSymmetry
INVARIANT AccessTokenFresh
CHECK_DEADLOCK FALSE
