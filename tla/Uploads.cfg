SPECIFICATION FairSpec
CONSTANTS
    Uploads = {u1, u2}
    u1 = u1
    u2 = u2
    Missing = {u2}
    Cancellable = {u1}
    Transmissions = 1
    Slots = 3
    Lent = {0, 1}
    Parts = 4
    Batch = 2
    NSessions = 2
    PerSession = 1
    Retries = 2
    MaxFaults = 1
INVARIANTS SlotsConserved FileIsComplete
PROPERTIES FreshStaysUp UploadsEnd
CHECK_DEADLOCK FALSE
