SPECIFICATION FairSpec
CONSTANTS
    Defects = {d1}
    NoDefect = NoDefect
    Callers = {c1}
    Workers = {w1}
    Projects = {A, B}
    NoProject = NoProject
    MaxSyncAttempts = 2
    JiraIsLate = FALSE
    InlineDefects = {d1}
    ImportedDefects = {d1}
    MaxVersion = 5
    MaxRoutings = 2
    MaxFaults = 1
INVARIANT OneIssuePerProject
PROPERTY FailedWorkIsSettled
CHECK_DEADLOCK FALSE
