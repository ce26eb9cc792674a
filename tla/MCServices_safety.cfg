SPECIFICATION Spec
CONSTANTS
    None = None
    m1 = m1
    m2 = m2
    r1 = r1
    r2 = r2
    MaxAttempt = 2
    Reviewers = {r1, r2}
    \* DraftEditor
    NodeIds = {"n1", "n2", "n3"}
    NodeKinds = {"validate", "analyze", "approve", "render"}
    PortNames = {"analysis", "records", "dataset", "approved", "validation"}
    Declarable <- Declarations
    Fields = {"f"}
    \* DocumentExtraction
    Assets = {1, 2}
    Parsers = {"parse", "other"}
    Extractors = {"extract"}
    DocumentsOf <- ParsedBy
    MaxParses = 2
    \* RecordCleaning, RecordReview
    Schema <- ProductSchema
    Normalizations <- ProductRules
    Validations <- ProductChecks
    KeyFields = {"sku"}
    Clean <- Trimmed
    Reads <- Parsed
    Plain <- Expanded
    Numeric <- Stored
    Integral = {"2", "-1", "100"}
    DraftCount = 2
    DraftLists <- Drafted
    Edits <- Entered
    OtherKeys <- Elsewhere
    MaxOthers = 1
    \* RetrievalSnapshot
    Builders = {"first", "second"}
    Boundary <- Positions
    Models = {m1, m2}
    PageSize = 2
    \* RetrievalSearch
    SearchItems = {1, 2, 3}
    Chunks <- ItemChunks
    Weights <- FusionWeights
    Limits = {2, 3}
    Oversample = 2
    ChunkCap = 3
    Ranks = 60
    Scores = {1, 2}
    \* AnalysisDelivery
    Outputs = {"{}", "o1"}
    Compact = {"{}"}
    \* ExtractionAgent
    Segments = {1, 2}
    Keys = {k1, k2}
    Contents = {c1, c2}
    MaxRecords = 2
    MaxIterations = 3
    MaxCalls = 3
    \* PlatformConfig
    Ids = {"i1", "i2"}
    ConfigNames = {"x", "y"}
    Values = {"v1"}
    Requests = {r1, r2}
CONSTRAINT Bounded
INVARIANTS
    EditsKeepTheChain
    FinishedSetsAreWhole
    SavedResultsAreReproducible
    UnsoundNeverPublished
    AnswersAgree
    AnswersAreRanked
    StoredUnitsAreRead
    SwitchesAreSerial
PROPERTY BoundResourcesAreFrozen
SYMMETRY Symmetry
CHECK_DEADLOCK FALSE
