SPECIFICATION FairSyncSpec
CONSTANTS
    Executions = {1, 2}
    Users = {tester}
    IssueKeys = {k1}
    NoKey = NoKey
    NoUser = NoUser
    Workers = {w1}
    MaxSyncAttempts = 2
    CommentOnFinalize = FALSE
    Leavers = {tester}
    MovedByHand = {}
    MaxFaults = 1
PROPERTIES
    FailureIsSettled
    FinalizeEnds
CHECK_DEADLOCK FALSE
