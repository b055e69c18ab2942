SPECIFICATION SyncSpec
CONSTANTS
    Executions = {1, 2}
    Users = {tester}
    IssueKeys = {k1}
    NoKey = NoKey
    NoUser = NoUser
    Workers = {w1}
    MaxSyncAttempts = 2
    CommentOnFinalize = FALSE
    Leavers = {}
    MovedByHand = {}
    MaxFaults = 0
PROPERTY RetryRespectsTheRule
CHECK_DEADLOCK FALSE
