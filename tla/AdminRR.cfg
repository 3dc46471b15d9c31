SPECIFICATION Spec
CONSTANTS
    m1 = m1
    m2 = m2
    a1 = a1
    a2 = a2
    a3 = a3
    Mailboxes = {m1, m2}
    Addresses = {a1, a2, a3}
    NoAddress = NoAddress
    PrimaryOf <- SeparatePrimaries
    AliasesOf <- CrossedAlias
    Clients = {c1}
    Sites = {site}
    NoSite = NoSite
    LeaseIds = {l1, l2}
    Sessions = {s1, s2}
    Workload <- AdminWork
    Isolation = "REPEATABLE READ"
    TTLs = {1, 2}
    ChunkSize = 1
    MaxTime = 1
SYMMETRY Symmetric
CHECK_DEADLOCK FALSE
INVARIANTS ClaimMirrorsLease ClaimNamesLease
PROPERTY EndsByConsent
