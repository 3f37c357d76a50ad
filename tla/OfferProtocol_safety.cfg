SPECIFICATION Spec
CONSTANTS
    t1 = t1
    t2 = t2
    short = short
    long = long
    dir = dir
    Transfers <- MCTransfers
    Names <- MCNames
    Rejected <- MCRejected
    Dirs <- MCDirs
    QueueCap = 1
    Window = 2
    NoTransfer = NoTransfer
    NoPath = NoPath
SYMMETRY Symmetry
INVARIANTS
    TypeOK
    CompletedMeansSaved
    DeclinedMeansNotTaken
    FailedMeansNotSaved
    OkMeansReported
    NeverMisparsed
    NoOfferLost
PROPERTIES
    UserFilesSurvive
    KeepsContract
    UsesFrontEnd
