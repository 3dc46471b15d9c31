SPECIFICATION LiveSpec
CONSTANTS
    Proxies = {1, 2}
    Workers = {w1}
    Runners = {r1, r2}
    Direct = Direct
    Required = FALSE
    AllowDirect = TRUE
    Threshold = 1
    MaxFailures = 2
    BatchSize = 1
    MaxFence = 2
    MaxAdmin = 0
INVARIANT OneBatchPerToken
PROPERTIES LateReleaseHarmless 
CHECK_DEADLOCK FALSE
