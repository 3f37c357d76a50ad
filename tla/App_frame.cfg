SPECIFICATION FairSpec
CONSTANTS
    p1 = p1
    p2 = p2
    remote = remote
    o1 = o1
    o2 = o2
    Peers <- MCOnePeer
    Tickets <- MCTickets
    Offers <- MCOneOffer
    OfferSize <- MCOneSize
    BlobSize <- MCOneSize
    QueueCap = 1
    MaxSends = 2
    NoId = NoId
    NoOffer = NoOffer
INVARIANTS
    TypeOK
    SendingHasOneSender
    ShownOutcomeIsCurrent
    ProgressIsCurrent
    PeersFollowDiscovery
PROPERTIES
    SendPanelSettles
