SPECIFICATION Spec
CONSTANTS
    Defects = {d1}
    NoDefect = NoDefect
    Callers = {c1}
    Workers = {w1, w2}
    Projects = {A}
    NoProject = NoProject
    MaxSyncAttempts = 2
    JiraIsLate = FALSE
    InlineDefects = {}
    ImportedDefects = {}
    MaxVersion = 1
    MaxRoutings = 0
    MaxFaults = 0
INVARIANT OneIssuePerDefect
CHECK_DEADLOCK FALSE
