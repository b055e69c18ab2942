---- MODULE ExecutionRecord ----
(* What a test execution promises to everything that reads it: the Jira sync,  *)
(* the dashboards, the comment on the issue.  A run is planned with a tester   *)
(* and an optional Jira issue key, may be edited while it is Planned, is       *)
(* started once, is finalized once with a derived result, and never changes    *)
(* again.  Each operation is one atomic step here; ExecutionLifecycle has the  *)
(* reads, the waiting and the races, and is shown to implement this module.    *)

CONSTANTS
    Executions,     \* identities of TestExecution rows
    Users,          \* people a run can be assigned to
    IssueKeys,      \* Jira issue keys a run can carry
    NoKey,          \* jiraIssueKey IS NULL
    NoUser          \* the tester of a run that does not exist yet

VARIABLE run        \* run[e]: the row of execution e

Outcomes == {"PASS", "FAIL", "BLOCKED"}

States == {"ABSENT", "PLANNED", "IN_PROGRESS", "FINALIZED"}

RunRow == [state  : States,
           tester : Users \cup {NoUser},
           key    : IssueKeys \cup {NoKey},
           result : Outcomes \cup {"NONE"}]

AbsentRun == [state |-> "ABSENT", tester |-> NoUser, key |-> NoKey, result |-> "NONE"]

RecordTypeOK == run \in [Executions -> RunRow]

RecordInit == run = [e \in Executions |-> AbsentRun]

\* createExecution: the row appears Planned, with its tester and key.
PlanRun(e, u, k) ==
    /\ run[e].state = "ABSENT"
    /\ run' = [run EXCEPT ![e] = [state |-> "PLANNED", tester |-> u, key |-> k, result |-> "NONE"]]

\* Mutant of EditRun: a run can be edited whatever its status.
EditInAnyState(e, u, k) ==
    /\ run[e].state # "ABSENT"
    /\ run' = [run EXCEPT ![e].tester = u, ![e].key = k]

\* updateExecution: tester and key move together, only while Planned.
EditRun(e, u, k) ==
    /\ run[e].state = "PLANNED"
    /\ run' = [run EXCEPT ![e].tester = u, ![e].key = k]

\* startExecution
StartRun(e) ==
    /\ run[e].state = "PLANNED"
    /\ run' = [run EXCEPT ![e].state = "IN_PROGRESS"]

\* finalizeExecution
FinalizeRun(e, res) ==
    /\ run[e].state = "IN_PROGRESS"
    /\ run' = [run EXCEPT ![e].state = "FINALIZED", ![e].result = res]

RecordNext ==
    \E e \in Executions :
        \/ \E u \in Users, k \in IssueKeys \cup {NoKey} : PlanRun(e, u, k) \/ EditRun(e, u, k)
        \/ StartRun(e)
        \/ \E res \in Outcomes : FinalizeRun(e, res)

RecordSpec == RecordInit /\ [][RecordNext]_run
====
