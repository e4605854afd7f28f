CONSTANTS
    Callers = {c1,c2}
    Background = bg
    Owner = owner
    MaxConn = 3
    MaxFaults = 1
    MaxRetries = 2
    AutoAttempts = 2
    Cancellable = {c1,c2}
    Events = {"badPacket", "unknownKey"}
SPECIFICATION FairSpec
PROPERTIES
    InvokeReturns
    RestartEndsForAll
    LossIsRepaired
CHECK_DEADLOCK FALSE
