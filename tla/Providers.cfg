SPECIFICATION LiveSpec
CONSTANTS
    Activations = {a1}
    Inboxes = {}
    Debugging = {d1, d2, d3}
    Leases = {l1, l2}
    Callers = {k1, k2}
    MaxSessions = 1
    Operators = 2
    None = None
    MaxCalls = 3
INVARIANTS TypeOK PurchasesOnRecord HolderKeepsUnlessOverlap ClaimedIsRecoverable ReleaseResumable SessionsBounded
PROPERTY ReleaseSettles
CHECK_DEADLOCK FALSE
