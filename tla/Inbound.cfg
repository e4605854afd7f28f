SPECIFICATION FairSpec
CONSTANTS
    MaxTime = 4
    Content = {1, 4}
    Bad = {3}
    Rejections = {3}
    Detailed <- MCDetailed
    Window = 2
    Threshold = 2
    MaxAhead = 1
    MaxBehind = 2
    MaxBreaches = 2
    Issuers = {a, b}
    None = None
    Budgets <- MCBudgets
INVARIANTS TypeOK HandledOnce FloorIsOld IdsAreFresh
PROPERTY EveryMessageIsAcked
CHECK_DEADLOCK FALSE
