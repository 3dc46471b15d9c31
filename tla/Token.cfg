SPECIFICATION Spec
CONSTANTS
    Workers = {w1, w2}
    Requests <- MixedRequests
    MaxStarts = 2
    MaxChanges = 1
SYMMETRY WorkerSymmetry
INVARIANTS TypeOK VersionNamesToken
PROPERTIES InvalidatesRejectedToken BoundExceptByProbe RegisterSpec
CHECK_DEADLOCK FALSE
