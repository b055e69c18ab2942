SPECIFICATION Spec
CONSTANTS
    Defects = {d1}
    NoDefect = NoDefect
    Callers = {c1}
    Workers = {w1}
    Projects = {A}
    NoProject = NoProject
    MaxSyncAttempts = 2
    JiraIsLate = FALSE
    InlineDefects = {d1}
    ImportedDefects = {}
    MaxVersion = 1
    MaxRoutings = 1
    MaxFaults = 0
INVARIANT EveryDefectIsReported
CHECK_DEADLOCK FALSE
