\* One batch at a time, a bid that always fails and cannot be tagged, estimates of
\* 0, two faults, under fairness.
SPECIFICATION FairSpec
CONSTANTS
    b1 = b1
    b2 = b2
    e1 = e1
    e2 = e2
    Bids <- TwoBids
    Rank <- FirstIsNewer
    Batches <- OneBatch
    MaxDocs = 3
    Expectations <- NoneOrTwo
    MaxTargets = 2
    MaxTags = 1
    MaxFaults = 2
    Poisoned <- SecondBid
    Untaggable <- SecondBid
    FailedAttachment <- OneBid
INVARIANTS
    StatusBacked
PROPERTIES
    ProtectedStays
    OnlyZeroEndsBatch
    ImplementsBidRow
    CompleteRowsMerge
    EveryBidTagged
CHECK_DEADLOCK FALSE
