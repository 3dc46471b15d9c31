SPECIFICATION Spec
CONSTANTS
    Proxies = {1, 2}
    Workers = {w1, w2}
    Runners = {r1}
    Direct = Direct
    Required = FALSE
    AllowDirect = TRUE
    Threshold = 2
    BatchSize = 1
    MaxFailures = 2
    MaxFence = 1
    MaxAdmin = 1
SYMMETRY Symmetric
INVARIANTS TypeOK FailoverSwitches 
CHECK_DEADLOCK FALSE
