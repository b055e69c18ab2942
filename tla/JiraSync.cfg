SPECIFICATION SyncSpec
CONSTANTS
    Executions = {1, 2}
    Users = {tester}
    IssueKeys = {k1}
    NoKey = NoKey
    NoUser = NoUser
    Workers = {w1, w2}
    MaxSyncAttempts = 2
    CommentOnFinalize = TRUE
    Leavers = {}
    MovedByHand = {k1}
    MaxFaults = 1
INVARIANTS
    DecisionStands
    OneVerdictPerRun
    RetryBudget
    NoSilentDrift
    DoneIsEarned
CHECK_DEADLOCK FALSE
SYMMETRY WorkersAlike
