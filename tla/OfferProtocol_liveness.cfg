SPECIFICATION FairSpec
CONSTANTS
    t1 = t1
    t2 = t2
    short = short
    long = long
    dir = dir
    Transfers <- MCTransfers
    Names <- MCOneName
    Rejected = {}
    Dirs <- MCDirs
    QueueCap = 1
    Window = 1
    NoTransfer = NoTransfer
    NoPath = NoPath
PROPERTIES
    QueuedHandlersGoOn
    SendReturns
    AnsweredHandlerEnds
