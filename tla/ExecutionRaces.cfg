SPECIFICATION Spec
CONSTANTS
    Executions = {e1}
    Cases = {c1}
    Defects = {d1}
    Users = {tester, lead}
    Testers = {tester}
    IssueKeys = {k1}
    NoKey = NoKey
    NoUser = NoUser
    NoExec = NoExec
    NoDefect = NoDefect
    Requests = {r1, r2}
    MaxVersion = 4
PROPERTIES
    NoLostUpdate
    TestersActOnTheirOwnRuns
    ImplementsRecord
SYMMETRY Symmetric
