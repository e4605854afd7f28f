SPECIFICATION FairSpec
CONSTANTS
    Builders = {get, save}
    get = get
    save = save
    Registered = {get}
    Transfers = {x}
    x = x
    Size = 2
    NSessions = 3
    MaxFaults = 1
INVARIANTS NothingLeaks ConnectionsBounded
PROPERTIES TerminateEnds IdleIsReaped
CHECK_DEADLOCK FALSE
