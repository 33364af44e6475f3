\* Tagging: three notices, two models.  ModelSelection: four notices with codes, two
\* models saved.  TagExperiments: nine notices of which one comes and goes, two settings,
\* two language models, two lines of records.
SPECIFICATION MCSpec
CONSTANTS
    Ids = {1, 2, 3}
    CategoryOf <- CategoryOfThree
    Titles = {"desk", "pump"}
    Works = {"road", "long"}
    TooLong = {"long"}
    Codes <- SomeCodes
    Predict <- TwoModels
    Thresholds <- TwoThresholds
    UNIT = 10
    TAG_MAX_PER_RUN = 1
    BATCH = 2
    MaxCodes = 2
    MaxWrites = 2
    None = None
    Rows = {1, 2, 3, 4}
    NormOf <- FourTitles
    NoticeNumber <- FourNumbers
    Month <- FourMonths
    CodeOf <- FourCodes
    TagOfCode <- TwoTags
    MIN_TAG_COUNT = 2
    TEST_FROM = 7
    ROLL_MONTHS = {6, 7}
    MinTest = 1
    Representations = {"char"}
    TOP_N_REPR = 1
    GridOf <- TwoGrids
    C_GRID = {2, 3}
    Beyond <- BothEnds
    MaxScore = 2
    N_FOLDS = 2
    THRESHOLDS = {0, 1}
    TARGET_ACC = {50, 90}
    MaxMargin = 1
    MaxSaves = 2
    MaxLost = 1
    Nothing = Nothing
    Corpus = {1, 2, 3, 4, 5, 6, 7, 8, 9}
    TitleOf <- NineTitles
    ItemCode <- NineCodes
    TagTable <- ThreeTags
    MinTagCount = 2
    Tags <- TagOrder
    Shuffle <- Seed
    Baseline = "default"
    Winners <- BestOf
    Models = {"qwen", "nova"}
    Qwen = "qwen"
    SampleSizes = {3}
    FewShots = {3}
    Batch = 2
    Attempts = 2
    OldFiles = {1, 3}
    Overwritten = {3}
    Handwritten = {1, 3}
    Changing = {9}
    MaxRecords = 2
    Other = Other
    Unknown = Unknown
    Absent = Absent
INVARIANTS
    ExperimentsHold
    Rejudged
    TestIsFair
    EndsExplored
    InstalledTogether
PROPERTIES
    RetagSettles
CHECK_DEADLOCK FALSE
