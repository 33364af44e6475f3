\* One attachment of no, one or two chunks, two deliveries on each queue, two
\* titles, the title backfill beside them, under fairness.
SPECIFICATION FairSpec
CONSTANTS
    b1 = b1
    d1 = d1
    r1 = r1
    MaxReceive = 2
    Documents <- OneDocument
    Bids <- OneBid
    BidOf <- ItsBid
    MaxChunks = 2
    Requests <- OneRequest
    Subject <- ItsDocument
    MaxTitles = 2
INVARIANTS
    NothingLost
    TitlesRepaired
PROPERTIES
    EventuallySettled
CHECK_DEADLOCK FALSE
