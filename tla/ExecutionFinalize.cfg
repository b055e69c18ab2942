SPECIFICATION Spec
CONSTANTS
    Executions = {e1}
    Cases = {c1, c2}
    Defects = {d1, d2}
    Users = {tester}
    Testers = {tester}
    IssueKeys = {}
    NoKey = NoKey
    NoUser = NoUser
    NoExec = NoExec
    NoDefect = NoDefect
    Requests = {r1, r2}
    MaxVersion = 3
INVARIANTS
    HistoryIsTheRecord
    FailuresExplained
SYMMETRY Symmetric
