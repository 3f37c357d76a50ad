SPECIFICATION FairSpec
CONSTANTS
    p1 = p1
    p2 = p2
    remote = remote
    o1 = o1
    o2 = o2
    Words <- MCWords
    Tickets = {"ticket"}
    Remote = remote
    Peers <- MCPeers
    Lines <- MCLines
    Yes = {"y"}
    Garbled = {"garbled"}
    Number <- MCNumber
    TypeAhead = 2
    Offers <- MCOffers
    QueueCap = 1
    NoId = NoId
    NoOffer = NoOffer
INVARIANTS
    TypeOK
    EndsOrderly
    RecipientWasListed
PROPERTIES
    IsFrontEnd
    SearchEnds
    InterruptEndsLoop
    NoInputDeclines
