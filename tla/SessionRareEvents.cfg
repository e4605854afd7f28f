CONSTANTS
    Callers = {c1}
    Background = bg
    Owner = owner
    MaxConn = 3
    MaxFaults = 2
    MaxRetries = 2
    AutoAttempts = 1
    Cancellable = {c1}
    Events = {"stop", "unknownKey", "badPacket", "earlyBadPacket"}
SPECIFICATION Spec
INVARIANTS
    TypeOK
    NoStrandedWaiter
CHECK_DEADLOCK FALSE
