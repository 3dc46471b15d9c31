SPECIFICATION Spec
CONSTANTS
    m1 = m1
    m2 = m2
    a1 = a1
    a2 = a2
    a3 = a3
    Mailboxes = {m1}
    Addresses = {a1, a2}
    NoAddress = NoAddress
    PrimaryOf <- OnePrimary
    AliasesOf <- OneAlias
    Clients = {c1}
    Sites = {site}
    NoSite = NoSite
    LeaseIds = {l1, l2}
    Sessions = {s1, s2}
    Workload <- MultiWork
    Isolation = "READ COMMITTED"
    TTLs = {1}
    ChunkSize = 1
    MaxTime = 1
SYMMETRY Symmetric
CHECK_DEADLOCK FALSE
INVARIANT ExclusiveClaims
PROPERTY NoRepeatUse
