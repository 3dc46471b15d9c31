SPECIFICATION LiveSpec
CONSTANTS
    old = old
    new = new
    Instances = {old, new, another}
    Scripts <- AllScripts
    Known <- TwoReleases
    None = None
    MaxFaults = 3
INVARIANTS TypeOK RunsOnce OnTopOfOlder ServesMigrated
PROPERTY EveryInstanceServes
CHECK_DEADLOCK FALSE
