\* Hangul documents of up to three paragraphs, pages of a PDF, texts of up to four items
\* for the chunker, and two or three answers that differ in the award line, a Boolean,
\* the licences or the objects.  Three days of past notices with three failures.
SPECIFICATION MCSpec
CONSTANTS
    Files <- SomeFiles
    PageChars = 1000
    Pages <- SomePages
    LandscapeRatio <- SixToFive
    MinBoxWidth = 100
    MinBoxHeight = 30
    Margin = 3
    NoCell = NoCell
    Documents <- SomeTexts
    MaxTokens = 512
    MinTokens = 30
    MaxChars = 768
    OverlapLines = 2
    NoChunk = NoChunk
    Null = Null
    Odd = Odd
    Inputs <- Some
    Width <- Widths
    Days = {1, 2, 3}
    MonthOf <- OneMonthAndAnother
    Queries = {"a", "b"}
    MaxPages = 2
    PageCount <- TwoPagesFirst
    AttachmentsOf <- OneEach
    Copy = Copy
    Skipped = {Copy}
    MAX_RETRY = 3
    CALL_BUDGET = 4
    MaxRuns = 2
    MaxFaults = 3
    Idle = Idle
INVARIANTS
    DocumentReachesChunker
    PageReachesText
    ChunksHoldDocument
    RowIsTrue
    GoneOnIsComplete
PROPERTIES
    LaterDocumentsAdd
CHECK_DEADLOCK FALSE
