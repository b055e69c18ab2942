SPECIFICATION Spec
CONSTANTS
    Executions = {e1}
    Cases = {c1}
    Defects = {d1}
    Users = {tester}
    Testers = {tester}
    IssueKeys = {}
    NoKey = NoKey
    NoUser = NoUser
    NoExec = NoExec
    NoDefect = NoDefect
    Requests = {r1, r2}
    MaxVersion = 2
PROPERTY CreatedOverApprovedCases
