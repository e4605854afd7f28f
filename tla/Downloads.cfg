SPECIFICATION FairSpec
CONSTANTS
    Downloads = {file, stream}
    ToFile = {file}
    Closable = {stream}
    file = file
    stream = stream
    Slots = 2
    Chunks = 2
    Prefetch = 1
    Workers = {w1, w2}
    w1 = w1
    w2 = w2
    OtherSessions = TRUE
    MaxFaults = 1
INVARIANTS SlotsConserved MemoryIsPaid WholeFileOrError FinishedGivesBack
PROPERTY DownloadsEnd
CHECK_DEADLOCK FALSE
