CONSTANTS
    Callers = {c1,c2}
    Background = bg
    Owner = owner
    MaxConn = 4
    MaxFaults = 2
    MaxRetries = 2
    AutoAttempts = 2
    Cancellable = {c1,c2}
    Events = {"badPacket"}
SPECIFICATION Spec
SYMMETRY CallerSymmetry
INVARIANTS
    OneHandshakeCycle
    OneReader
PROPERTIES
    AnswerIsKept
    RestartIsShared
CHECK_DEADLOCK FALSE
