SPECIFICATION Spec
CONSTANTS
    Defects = {d1}
    NoDefect = NoDefect
    Callers = {c1, c2}
    Workers = {w1, w2}
    Projects = {A}
    NoProject = NoProject
    MaxSyncAttempts = 2
    JiraIsLate = TRUE
    InlineDefects = {}
    ImportedDefects = {}
    MaxVersion = 5
    MaxRoutings = 0
    MaxFaults = 0
INVARIANTS
    TriagedIsRanked
    DoneMeansClosed
    ClosureIsFollowedUp
    DefectRetryBudget
PROPERTY KeyIsForGood
CHECK_DEADLOCK FALSE
SYMMETRY Alike
