\* Three documents of two bids, of which documents and bids may fail for ever; one text
\* job and two overlapping qualification jobs.
SPECIFICATION Spec
CONSTANTS
    Documents = {1, 2, 3}
    Bids = {1, 2}
    BidOf <- BidOfEach
    ExtOf <- ExtOfEach
    Earlier = {1, 2}
    Hopeless <- Troubles
    Slots = {0, 1, 2}
    StageOf <- Stages
    BatchSize = 1
    MaxFaults = 1
    Ready = Ready
INVARIANTS
    StoredOncePerSlot
PROPERTIES
    VerifiedRowsStay
    EventuallyLoaded
CHECK_DEADLOCK FALSE
