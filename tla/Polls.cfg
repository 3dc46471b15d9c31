SPECIFICATION LiveSpec
CONSTANTS
    c1 = c1
    c2 = c2
    l1 = l1
    l2 = l2
    l3 = l3
    Polls = {p1, p2}
    Clients = {c1, c2}
    Leases = {l1, l2, l3}
    Owner <- ThreeOwners
    Kind <- EachKind
    Channels <- TwoForMicrosoft
    MaxPolls = 2
    MaxPerClient = 1
    MaxPerLease = 1
    Timeouts = {0, 1}
INVARIANTS TypeOK SlotsAccounted CountsNeverLeak CodeAuthorized EmptyMeansRead
PROPERTY PollEnds
