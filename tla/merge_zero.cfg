\* A bid that expects no documents and has one, beside another; no failures.
SPECIFICATION Spec
CONSTANTS
    b1 = b1
    b2 = b2
    e1 = e1
    e2 = e2
    Bids <- TwoBids
    Rank <- FirstIsNewer
    Batches <- OneBatch
    MaxDocs = 2
    Expectations <- NoneOrTwo
    MaxTargets = 2
    MaxTags = 1
    MaxFaults = 0
    Poisoned <- NoBid
    Untaggable <- NoBid
    FailedAttachment <- NoBid
PROPERTIES
    FailureIsolated
CHECK_DEADLOCK FALSE
