\* Two categories, two failed attempts, runs that outlast the download window and two
\* midnights; a notice published before the first of them.
SPECIFICATION Spec
CONSTRAINT EarlyEnough
CONSTANTS
    n1 = n1
    LastPublication = 3
    LastRepair = 6
    Notices <- OneNotice
    Archives <- OneNotice
    Category <- FirstCategory
    Categories = 2
    CursorSet = TRUE
    Period = 1
    CollectMinutes = 1
    DownloadMinutes = 2
    GapThreshold = 2
    Lookback = 1
    Retries = 1
    DayLength = 4
    StartLimit = 1
    RunLimit = 2
    Deadline = 9
    MaxTime = 9
    MaxFaults = 2
INVARIANTS
    CursorsCover
    DeliveredInTime
CHECK_DEADLOCK FALSE
