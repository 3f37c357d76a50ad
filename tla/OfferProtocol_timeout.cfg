SPECIFICATION Spec
CONSTANTS
    t1 = t1
    t2 = t2
    short = short
    long = long
    dir = dir
    Transfers <- MCOneTransfer
    Names <- MCOneName
    Rejected = {}
    Dirs <- MCDirs
    QueueCap = 1
    Window = 2
    NoTransfer = NoTransfer
    NoPath = NoPath
PROPERTIES
    TimedOutOfferNotAccepted
