SPECIFICATION Spec
CONSTANTS
    Base = 5
    LenBytes = 1
    SizeBytes = 2
    NameMax = 3
    TicketMax = 2
    Offers <- MCOffers
    Tickets <- MCTickets
    Counts <- MCCounts
    MaxStatuses = 4
INVARIANTS
    TypeOK
    OfferIsIntact
    OnlyLongNamesRefused
    StatusesInStep
