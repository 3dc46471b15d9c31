SPECIFICATION LiveSpec
CONSTANTS
    Activations = {a1}
    Inboxes = {}
    Debugging = {}
    Leases = {l1, l2}
    Callers = {k1, k2}
    MaxSessions = 1
    Operators = 2
    None = None
    MaxCalls = 2
PROPERTY FinalizeSparesNewLease
CHECK_DEADLOCK FALSE
