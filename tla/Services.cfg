SPECIFICATION ServicesSpec
CONSTANTS
    People = {ada, bob}
    Passwords = {p1, p2}
    Calls = {one, two}
    SessionTtl = 1
    MaxCalls = 4
    MaxClock = 1
    Clients = {host}
    Emails = {m1, m2}
    Overflow = Overflow
    Doors = {door}
    Limit = 2
    Window = 2
    MaxKeys = 1
    MaxTicks = 3
    MaxCount = 4
    Transactions = {one, two}
    Top = 3
    Syncs = {one, two}
    Secrets = {k1, k2}
    MaxFlows = 2
    MaxRotations = 2
    Cases = {c1}
    Engineers = {}
    Seniors = {sen}
    Leads = {lea}
    Tabs = {one, two}
    StepLists = {steps}
    NoSteps = NoSteps
    MaxWrites = 4
    Imports = {one, two}
    Resolvers = {one, two}
    Rows = {"case", "steps", "execution", "history"}
    Flaws = {"steps"}
    ByHand = {"execution"}
    Reviewed = {"execution"}
    MaxHands = 1
    CaseRows = {tc}
    RunRows = {exe}
    BugRows = {bug}
    ReqRows = {1, 2, 3}
    CaseOf <- OneCase
    ReqOf <- FirstReq
    Linkers = {one, two}
    NoBug = NoBug
    PageRows = 1
    MaxEdits = 2
    Covered = {one, two}
    Graders = {cyd, dan}
    Windows = {window}
    Outcomes = {"PASS", "FAIL"}
    Ungraded = Ungraded
    MaxSaves = 3
    MaxAdrift = 1
    ProductRows = {1, 2, 3}
    ModuleRows = {4, 5}
    FeatureRows = {6, 7}
    RequirementRows = {8}
    ParentOf <- Parents
    Labels = {"named", "plain"}
    Score <- Scores
    ChildLimit = 1
    PanelSize = 1
    SearchLimit = 1
    Openings <- SomePages
    MaxWritten = 3
    MaxMeanwhile = 1
    MaxOpen = 1
    MaxTurns = 3
    Candidates = {1, 2, 3}
    FeatureOf <- FeatureOfCandidate
    ProductOf <- ProductOfCandidate
    RequirementOf <- RequirementOfCandidate
    NoFilter = NoFilter
    Terms = {"term"}
    Haystack <- FoundIn
    CoveredBy <- CoveredByRun
    Links = {{1, 3}}
    RenderLimit = 1
    MaxPicks = 2
    Offerable = {1, 2, 3}
    NoFeature = NoFeature
    Needles = {"up", "zz"}
    Named <- NamedFeatures
    AtMost = 2
    MaxInFlight = 2
    MaxStrokes = 6
    CheckedCases = {"k1", "k2"}
    Undeclared = "undeclared"
    ResultsFiles <- SomeFiles
    Uploads = {one, two}
    PanelLimit = 2
    ReportPage = 2
    MaxInstants = 1
    MaxTouches = 3
    Texts = {"empty", "word", "word and space"}
    NoText = "empty"
    Trimmed <- TrimmedTexts
    Params = {"state", "product"}
    Options = {"any", "this"}
    AnyOption = "any"
    PagesOf <- TwoPages
    MaxActs = 4
INVARIANTS
    ServicesTypeOK
    RevocationStands
    SessionsMatchPasswords
    ActiveLeadRemains
    AttemptsAreBounded
    AllocatorsAreSound
    StoredTokenIsLive
    LastWordStands
    ReviewedIsComplete
    ApprovedAsShown
    ReportIsTheRecord
    FiguresAddUp
    PagesMissNothing
    FinalizedAsGraded
    ExplorerAddsUp
    OpenBranchesStayOpen
    EditsAreInformed
    FilteringIsHonest
    PickerTellsTheTruth
    ChecksAddUp
PROPERTY
    NothingOverwritten
SYMMETRY Alike
VIEW Moving
CHECK_DEADLOCK FALSE
