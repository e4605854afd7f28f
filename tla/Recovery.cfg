SPECIFICATION FairSpec
CONSTANTS
    Common = common
    Channels = {channel}
    channel = channel
    Tasks = {t1, t2}
    t1 = t1
    t2 = t2
    Happens = 3
    ChannelHappens = 2
    More = 1
    BatchSize = 2
    MaxLives = 2
    MaxFaults = 1
INVARIANTS RecoveryKeepsUp RecoveryIsComplete RowsHideNothing
PROPERTIES RecoveryEnds
CHECK_DEADLOCK FALSE
