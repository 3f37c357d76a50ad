SPECIFICATION Spec
CONSTANTS
    p1 = p1
    p2 = p2
    remote = remote
    o1 = o1
    o2 = o2
    Peers = {}
    Tickets = {}
    Offers <- MCOneOffer
    OfferSize <- MCOneSize
    BlobSize <- MCOneSize
    QueueCap = 1
    MaxSends = 0
    NoId = NoId
    NoOffer = NoOffer
INVARIANTS
    ReceivedMeansSaved
