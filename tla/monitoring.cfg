\* Hours of two windows; runs may be late, skipped and fail.  Two writes of four files
\* before and during a report, within two stall thresholds.
\* A notice of bid_table in three versions with two loads, with another one that is only
\* counted; a correction of the counts takes one notice.
SPECIFICATION MCSpec
CONSTRAINT SecondOnlyCounted
CONSTANTS
    Services <- OneService
    All = "all"
    Period = 2
    Hour = 4
    CollectMinutes = 2
    GapThreshold = 5
    Retries = 1
    Lateness = 1
    MaxTime = 8
    MaxFaults = 2
    Files <- SomeRaw
    Stall = 1
    MaxClock = 2
    MaxWrites = 2
    Bids = {1, 2}
    Versions = {1, 2, 3}
    FilesAt <- FilesOfVersions
    OldEstimate <- TooHighOrLow
    Estimate <- Exact
    KindAt <- KindsOfVersions
    NoOrder = {3}
    MaxLoads = 2
    CountLimit = 1
    SqlNull = SqlNull
    Off = Off
INVARIANTS
    NeverCountedTwice
    ServicesAgree
    QuietHourFinal
    ReportTrue
PROPERTIES
    LoadedValuesStay
    CountsRepaired
    AttachmentsFollow
CHECK_DEADLOCK FALSE
