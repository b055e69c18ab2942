---- MODULE JiraSync ----
(* The Jira execution sync: what finalizing a run does to the issue it carries *)
(* (settleJiraComment and settleJiraSync in domain/executions.ts, decided by   *)
(* domain/jira-sync.ts) and the retry pass over the attempts that failed       *)
(* (domain/jira-retry.ts).  All of it happens after the finalize transaction   *)
(* has committed, in separate reads, one call to Jira and a separate record,   *)
(* so other finalizes, retries, plannings and a crash come in between.         *)

EXTENDS ExecutionRecord, Naturals, Sequences, FiniteSets

CONSTANTS
    Workers,            \* calls of POST /api/v1/jira/retry that can overlap
    MaxSyncAttempts,    \* MAX_SYNC_ATTEMPTS
    CommentOnFinalize,  \* jiraConfig().commentOnFinalize
    Leavers,            \* users who may disconnect their Jira account; {} if the deployment has a
                        \* service account, because a disconnect then leaves the queue as it is
    MovedByHand,        \* bound: issues a person moves in Jira, once each
    MaxFaults           \* bound: crashes of the server and retry passes that throw

\* Executions are numbered in the order they are created (createdAt), so that of any of them
\* one is the newest.
ASSUME SyncAssumption ==
    /\ Executions \subseteq Nat
    /\ \A S \in SUBSET Executions : S # {} => \E e \in S : \A f \in S : f <= e
    /\ NoKey \notin IssueKeys
    /\ Workers # {} /\ IsFiniteSet(Workers)
    /\ MaxSyncAttempts \in Nat \ {0}
    /\ CommentOnFinalize \in BOOLEAN
    /\ Leavers \subseteq Users
    /\ MovedByHand \subseteq IssueKeys
    /\ MaxFaults \in Nat

VARIABLES
    stamp,      \* stamp[e]: finalizedAt, as the number of attempt rows older than it
    attempts,   \* JiraSyncAttempt, append-only, in the order of attemptedAt
    commented,  \* runs with a JiraCommentAttempt row, posted or refused
    settle,     \* settle[e]: the request finalizing e, after its transaction opened
    worker,     \* worker[w]: one retry pass
    leaver,     \* leaver[u]: the failures u's disconnect is about to give up on
    issue,      \* issue[k]: whether Jira has the issue in a done status
    byHand,     \* issues a person has moved in Jira
    faults

syncVars == <<stamp, attempts, commented, settle, worker, leaver, issue, byHand, faults>>

allVars == <<run, stamp, attempts, commented, settle, worker, leaver, issue, byHand, faults>>

Attempt == [key      : IssueKeys,
            exec     : Executions,
            action   : {"ATTEMPTED", "SKIPPED", "RETRIED", "ABANDONED", "DISCONNECTED"},
            outcome  : {"SUCCEEDED", "FAILED", "SKIPPED", "ABANDONED"},
            blockers : SUBSET Executions]       \* the runs a skip names as its reason

Settling == [pc       : {"none", "finalizing", "comment", "siblings", "eligible", "call",
                         "answered", "skip", "over", "lost"},
             siblings : SUBSET Executions,      \* the sibling runs, as they were read
             answer   : {"NONE", "SUCCEEDED", "FAILED"}]

NotSettling == [pc |-> "none", siblings |-> {}, answer |-> "NONE"]

Pass == [pc      : {"idle", "working", "answered"},
         abandon : SUBSET IssueKeys,
         retry   : SUBSET IssueKeys,
         exec    : [IssueKeys -> Executions \cup {0}],  \* the run each item is attributed to
         key     : IssueKeys \cup {NoKey},
         answer  : {"NONE", "SUCCEEDED", "FAILED"}]

IdlePass == [pc |-> "idle", abandon |-> {}, retry |-> {}, exec |-> [k \in IssueKeys |-> 0],
             key |-> NoKey, answer |-> "NONE"]

Pending == [key : IssueKeys, exec : Executions]     \* an element of `pending` in a disconnect

-------------------------------------------------------------------------------
\* The decision, as jira-sync.ts states it

Carrying(k) == {e \in Executions : run[e].key = k}

Passed(e) == run[e].state = "FINALIZED" /\ run[e].result = "PASS"

\* Mutant of Blockers: a run that is Finalized holds nothing open, whatever its result.
UnfinishedOnly(S) == {e \in S : run[e].state # "FINALIZED"}

\* describeTransitionBlock: the runs that hold the issue open.
Blockers(S) == {e \in S : ~Passed(e)}

\* shouldTransitionIssue
ShouldTransition(S) == S # {} /\ Blockers(S) = {}

Rows(k, outcomes) == {i \in DOMAIN attempts : attempts[i].key = k /\ attempts[i].outcome \in outcomes}

\* Mutant of AlreadyCovers: any earlier success will do (what ADR-0005 corrected).
EverSucceeded(k, S) == Rows(k, {"SUCCEEDED"}) # {}

\* transitionAlreadyCovers: the latest success is younger than every sibling's finalizedAt.
AlreadyCovers(k, S) ==
    \E i \in Rows(k, {"SUCCEEDED"}) :
        /\ \A j \in Rows(k, {"SUCCEEDED"}) : j <= i
        /\ \A e \in S : stamp[e] < i

\* transport.transitionToDone: Jira moves the issue, or does not; an answer that is lost or
\* late is recorded FAILED whether or not the issue moved.
Jira(k, answer) ==
    \/ answer = "SUCCEEDED" /\ issue' = [issue EXCEPT ![k] = "DONE"]
    \/ answer = "FAILED" /\ (issue' = issue \/ issue' = [issue EXCEPT ![k] = "DONE"])

Record(k, e, action, outcome, blockers) ==
    attempts' = Append(attempts, [key |-> k, exec |-> e, action |-> action, outcome |-> outcome,
                                  blockers |-> blockers])

-------------------------------------------------------------------------------
\* Planning and starting, as ExecutionRecord has them

Plan(e, u, k) ==
    /\ \A f \in Executions : f < e => run[f].state # "ABSENT"
    /\ PlanRun(e, u, k)
    /\ UNCHANGED syncVars

Edit(e, u, k) == EditRun(e, u, k) /\ UNCHANGED syncVars

Start(e) == StartRun(e) /\ UNCHANGED syncVars

-------------------------------------------------------------------------------
\* One finalize request

\* The transaction opens and takes finalizedAt from the clock.
OpenFinalize(e) ==
    /\ run[e].state = "IN_PROGRESS" /\ settle[e].pc = "none"
    /\ stamp' = [stamp EXCEPT ![e] = Len(attempts)]
    /\ settle' = [settle EXCEPT ![e].pc = "finalizing"]
    /\ UNCHANGED <<run, attempts, commented, worker, leaver, issue, byHand, faults>>

\* It commits.  A run without a key has nothing to settle.
CommitFinalize(e, res) ==
    /\ settle[e].pc = "finalizing"
    /\ FinalizeRun(e, res)
    /\ settle' = [settle EXCEPT ![e].pc = IF run[e].key = NoKey THEN "over"
                                          ELSE IF CommentOnFinalize THEN "comment" ELSE "siblings"]
    /\ UNCHANGED <<stamp, attempts, commented, worker, leaver, issue, byHand, faults>>

\* settleJiraComment: Jira takes the comment or refuses it, and a row says which; or a query
\* throws and nothing is recorded.  In every case the transition goes ahead.
SettleComment(e, recorded) ==
    /\ settle[e].pc = "comment"
    /\ commented' = IF recorded THEN commented \cup {e} ELSE commented
    /\ settle' = [settle EXCEPT ![e].pc = "siblings"]
    /\ UNCHANGED <<run, stamp, attempts, worker, leaver, issue, byHand, faults>>

\* settleJiraSync reads every run carrying the key and decides.
ReadSiblings(e) ==
    LET S == Carrying(run[e].key) IN
    /\ settle[e].pc = "siblings"
    /\ settle' = [settle EXCEPT ![e] = [pc |-> IF ShouldTransition(S) THEN "eligible" ELSE "skip",
                                        siblings |-> IF ShouldTransition(S) THEN S ELSE Blockers(S),
                                        answer |-> "NONE"]]
    /\ UNCHANGED <<run, stamp, attempts, commented, worker, leaver, issue, byHand, faults>>

\* Mutant of ReadLastSuccess: a covered transition is decided over again instead of skipped.
DecideAgainWhenCovered(e) ==
    /\ settle[e].pc = "eligible"
    /\ settle' = [settle EXCEPT ![e].pc = IF AlreadyCovers(run[e].key, settle[e].siblings)
                                          THEN "siblings" ELSE "call"]
    /\ UNCHANGED <<run, stamp, attempts, commented, worker, leaver, issue, byHand, faults>>

\* It reads the latest success; a transition that covers every sibling is not repeated.
ReadLastSuccess(e) ==
    /\ settle[e].pc = "eligible"
    /\ settle' = [settle EXCEPT ![e] = IF AlreadyCovers(run[e].key, @.siblings)
                                       THEN [@ EXCEPT !.pc = "skip", !.siblings = {}]
                                       ELSE [@ EXCEPT !.pc = "call"]]
    /\ UNCHANGED <<run, stamp, attempts, commented, worker, leaver, issue, byHand, faults>>

\* Mutant of RecordSkip: the skip is recorded and the request goes on to call Jira.
SkipFallsThrough(e) ==
    /\ settle[e].pc = "skip"
    /\ Record(run[e].key, e, "SKIPPED", "SKIPPED", settle[e].siblings)
    /\ settle' = [settle EXCEPT ![e] = [NotSettling EXCEPT !.pc = "call"]]
    /\ UNCHANGED <<run, stamp, commented, worker, leaver, issue, byHand, faults>>

\* recordSyncSkip
RecordSkip(e) ==
    /\ settle[e].pc = "skip"
    /\ Record(run[e].key, e, "SKIPPED", "SKIPPED", settle[e].siblings)
    /\ settle' = [settle EXCEPT ![e] = [NotSettling EXCEPT !.pc = "over"]]
    /\ UNCHANGED <<run, stamp, commented, worker, leaver, issue, byHand, faults>>

CallJira(e, answer) ==
    /\ settle[e].pc = "call"
    /\ Jira(run[e].key, answer)
    /\ settle' = [settle EXCEPT ![e].pc = "answered", ![e].answer = answer]
    /\ UNCHANGED <<run, stamp, attempts, commented, worker, leaver, byHand, faults>>

RecordAnswer(e) ==
    /\ settle[e].pc = "answered"
    /\ Record(run[e].key, e, "ATTEMPTED", settle[e].answer, {})
    /\ settle' = [settle EXCEPT ![e] = [NotSettling EXCEPT !.pc = "over"]]
    /\ UNCHANGED <<run, stamp, commented, worker, leaver, issue, byHand, faults>>

AfterCommit == {"comment", "siblings", "eligible", "call", "answered", "skip"}

\* A query of settleJiraSync throws: logged, never rethrown, and nothing is recorded.
SwallowError(e) ==
    /\ settle[e].pc \in AfterCommit \ {"comment"}
    /\ settle' = [settle EXCEPT ![e] = [NotSettling EXCEPT !.pc = "lost"]]
    /\ UNCHANGED <<run, stamp, attempts, commented, worker, leaver, issue, byHand, faults>>

-------------------------------------------------------------------------------
\* The retry pass

Terminal == {"SUCCEEDED", "ABANDONED"}

\* loadQueue: keys with a failure, no terminal row, and a run to attribute the work to.
Queue == {k \in IssueKeys : Rows(k, {"FAILED"}) # {} /\ Rows(k, Terminal) = {} /\ Carrying(k) # {}}

\* The run a retry's row is attributed to.
Newest(k) == CHOOSE e \in Carrying(k) : \A f \in Carrying(k) : f <= e

\* Mutant of Exhausted: one failure more than the limit.
ExhaustedLate(k) == Cardinality(Rows(k, {"FAILED"})) > MaxSyncAttempts

\* planRetries: give up on a key at its MAX_SYNC_ATTEMPTS-th failure.
Exhausted(k) == Cardinality(Rows(k, {"FAILED"})) >= MaxSyncAttempts

\* runJiraSyncRetries loads and plans.
BeginPass(w) ==
    /\ worker[w].pc = "idle" /\ Queue # {}
    /\ worker' = [worker EXCEPT ![w] =
                    [pc |-> "working",
                     abandon |-> {k \in Queue : Exhausted(k)},
                     retry |-> {k \in Queue : ~Exhausted(k)},
                     exec |-> [k \in IssueKeys |-> IF k \in Queue THEN Newest(k) ELSE 0],
                     key |-> NoKey, answer |-> "NONE"]]
    /\ UNCHANGED <<run, stamp, attempts, commented, settle, leaver, issue, byHand, faults>>

\* Mutant of Abandon: the issue leaves the plan and no row says so.
AbandonUnrecorded(w, k) ==
    /\ worker[w].pc = "working" /\ k \in worker[w].abandon
    /\ worker' = [worker EXCEPT ![w].abandon = @ \ {k}]
    /\ UNCHANGED <<run, stamp, attempts, commented, settle, leaver, issue, byHand, faults>>

\* Every planned abandonment is recorded before the first retry.
Abandon(w, k) ==
    /\ worker[w].pc = "working" /\ k \in worker[w].abandon
    /\ Record(k, worker[w].exec[k], "ABANDONED", "ABANDONED", {})
    /\ worker' = [worker EXCEPT ![w].abandon = @ \ {k}]
    /\ UNCHANGED <<run, stamp, commented, settle, leaver, issue, byHand, faults>>

CallRetry(w, k, answer) ==
    /\ worker[w].pc = "working" /\ worker[w].abandon = {} /\ k \in worker[w].retry
    /\ Jira(k, answer)
    /\ worker' = [worker EXCEPT ![w].pc = "answered", ![w].retry = @ \ {k}, ![w].key = k,
                                ![w].answer = answer]
    /\ UNCHANGED <<run, stamp, attempts, commented, settle, leaver, byHand, faults>>

RecordRetry(w) ==
    LET k == worker[w].key IN
    /\ worker[w].pc = "answered"
    /\ Record(k, worker[w].exec[k], "RETRIED", worker[w].answer, {})
    /\ worker' = [worker EXCEPT ![w].pc = "working", ![w].key = NoKey, ![w].answer = "NONE"]
    /\ UNCHANGED <<run, stamp, commented, settle, leaver, issue, byHand, faults>>

EndPass(w) ==
    /\ worker[w].pc = "working" /\ worker[w].abandon = {} /\ worker[w].retry = {}
    /\ worker' = [worker EXCEPT ![w] = IdlePass]
    /\ UNCHANGED <<run, stamp, attempts, commented, settle, leaver, issue, byHand, faults>>

\* A query of the pass throws: the endpoint answers 500 and the rest of the plan is dropped.
PassThrows(w) ==
    /\ worker[w].pc # "idle" /\ faults < MaxFaults
    /\ faults' = faults + 1
    /\ worker' = [worker EXCEPT ![w] = IdlePass]
    /\ UNCHANGED <<run, stamp, attempts, commented, settle, leaver, issue, byHand>>

-------------------------------------------------------------------------------
\* disconnectJiraAccount

\* The failures of issues that are not settled.
Unsettled == {i \in DOMAIN attempts : attempts[i].outcome = "FAILED"
                                      /\ Rows(attempts[i].key, Terminal) = {}}

\* It lists them in some order: those of the runs u tests, and those that were attempted as u.
LoadPending(u, found) ==
    LET listed == {found[n] : n \in DOMAIN found} IN
    /\ leaver[u] = <<>> /\ found # <<>>
    /\ {i \in Unsettled : run[attempts[i].exec].tester = u} \subseteq listed
    /\ \A m, n \in DOMAIN found : found[m] = found[n] => m = n
    /\ leaver' = [leaver EXCEPT ![u] = [n \in DOMAIN found |->
                     [key |-> attempts[found[n]].key, exec |-> attempts[found[n]].exec]]]
    /\ UNCHANGED <<run, stamp, attempts, commented, settle, worker, issue, byHand, faults>>

\* Its transaction deletes the credential and gives up on everything listed.
Disconnect(u) ==
    /\ leaver[u] # <<>>
    /\ attempts' = attempts \o [n \in DOMAIN leaver[u] |->
                                  [key |-> leaver[u][n].key, exec |-> leaver[u][n].exec,
                                   action |-> "DISCONNECTED", outcome |-> "ABANDONED", blockers |-> {}]]
    /\ leaver' = [leaver EXCEPT ![u] = <<>>]
    /\ UNCHANGED <<run, stamp, commented, settle, worker, issue, byHand, faults>>

\* Or it throws: the credential is gone already, disconnected in another tab.
DisconnectThrows(u) ==
    /\ leaver[u] # <<>>
    /\ leaver' = [leaver EXCEPT ![u] = <<>>]
    /\ UNCHANGED <<run, stamp, attempts, commented, settle, worker, issue, byHand, faults>>

-------------------------------------------------------------------------------
\* The server stops: an open transaction rolls back, everything in memory is gone.
Crash ==
    /\ faults < MaxFaults
    /\ \/ \E w \in Workers : worker[w].pc # "idle"
       \/ \E e \in Executions : settle[e].pc \in AfterCommit \cup {"finalizing"}
       \/ \E u \in Leavers : leaver[u] # <<>>
    /\ faults' = faults + 1
    /\ settle' = [e \in Executions |->
                    IF settle[e].pc = "finalizing" THEN NotSettling
                    ELSE IF settle[e].pc \in AfterCommit THEN [NotSettling EXCEPT !.pc = "lost"]
                    ELSE settle[e]]
    /\ worker' = [w \in Workers |-> IdlePass]
    /\ leaver' = [u \in Leavers |-> <<>>]
    /\ UNCHANGED <<run, stamp, attempts, commented, issue, byHand>>

\* Somebody moves the issue in Jira; QAMS is never told.
MoveByHand(k) ==
    /\ k \in MovedByHand \ byHand
    /\ issue' = [issue EXCEPT ![k] = IF @ = "DONE" THEN "OPEN" ELSE "DONE"]
    /\ byHand' = byHand \cup {k}
    /\ UNCHANGED <<run, stamp, attempts, commented, settle, worker, leaver, faults>>

-------------------------------------------------------------------------------
SyncInit ==
    /\ RecordInit
    /\ stamp = [e \in Executions |-> 0]
    /\ attempts = <<>>
    /\ commented = {}
    /\ settle = [e \in Executions |-> NotSettling]
    /\ worker = [w \in Workers |-> IdlePass]
    /\ leaver = [u \in Leavers |-> <<>>]
    /\ issue = [k \in IssueKeys |-> "OPEN"]
    /\ byHand = {}
    /\ faults = 0

Answers == {"SUCCEEDED", "FAILED"}

PlanningStep(e) ==
    \/ \E u \in Users, k \in IssueKeys \cup {NoKey} : Plan(e, u, k) \/ Edit(e, u, k)
    \/ Start(e)
    \/ OpenFinalize(e)

SettleStep(e) ==
    \/ \E res \in Outcomes : CommitFinalize(e, res)
    \/ \E recorded \in BOOLEAN : SettleComment(e, recorded)
    \/ ReadSiblings(e)
    \/ ReadLastSuccess(e)
    \/ RecordSkip(e)
    \/ \E answer \in Answers : CallJira(e, answer)
    \/ RecordAnswer(e)

WorkStep(w) ==
    \/ BeginPass(w)
    \/ \E k \in IssueKeys : Abandon(w, k) \/ \E answer \in Answers : CallRetry(w, k, answer)
    \/ RecordRetry(w)
    \/ EndPass(w)

LeaveStep(u) ==
    \/ \E n \in 1..Len(attempts) : \E found \in [1..n -> Unsettled] : LoadPending(u, found)
    \/ Disconnect(u)
    \/ DisconnectThrows(u)

SyncNext ==
    \/ \E e \in Executions : PlanningStep(e) \/ SettleStep(e) \/ SwallowError(e)
    \/ \E w \in Workers : WorkStep(w) \/ PassThrows(w)
    \/ \E u \in Leavers : LeaveStep(u)
    \/ Crash
    \/ \E k \in IssueKeys : MoveByHand(k)

SyncSpec == SyncInit /\ [][SyncNext]_allVars

\* A request that finalizes runs to its end (the transport has a deadline), and the endpoint
\* goes on being called and works its plan off.  Nobody has to plan, start or finalize.
FairSyncSpec ==
    /\ SyncSpec
    /\ \A e \in Executions : WF_allVars(SettleStep(e))
    /\ \A w \in Workers : WF_allVars(WorkStep(w))

-------------------------------------------------------------------------------
\* Properties

SyncTypeOK ==
    /\ RecordTypeOK
    /\ stamp \in [Executions -> Nat]
    /\ attempts \in Seq(Attempt)
    /\ commented \subseteq Executions
    /\ settle \in [Executions -> Settling]
    /\ worker \in [Workers -> Pass]
    /\ leaver \in [Leavers -> Seq(Pending)]
    /\ issue \in [IssueKeys -> {"OPEN", "DONE"}]
    /\ byHand \subseteq IssueKeys
    /\ faults \in 0..MaxFaults

\* The reading a transition was decided on stays true until its outcome is recorded: the runs
\* that were Finalized and passed still are, still carry the key, and the finalizing run is
\* one of them (settleJiraSync holds no lock; it relies on runs being immutable).
DecisionStands ==
    \A e \in Executions : settle[e].pc \in {"eligible", "call", "answered"} =>
        /\ e \in settle[e].siblings
        /\ \A f \in settle[e].siblings : Passed(f) /\ run[f].key = run[e].key

\* A run is reported once: at most one attempt row is a finalize's own verdict on it, and the
\* row carries the key of that run for good.
OneVerdictPerRun ==
    \A i, j \in DOMAIN attempts :
        LET own(n) == attempts[n].action \in {"ATTEMPTED", "SKIPPED"} IN
        /\ own(i) => run[attempts[i].exec].key = attempts[i].key
                     /\ run[attempts[i].exec].state = "FINALIZED"
        /\ own(i) /\ own(j) /\ attempts[i].exec = attempts[j].exec => i = j

\* The retry budget, with overlapping passes: a key fails at most MaxSyncAttempts - 1 retries,
\* plus one for every further pass that had planned it (jira-retry.ts: a bounded number).
RetryBudget ==
    \A k \in IssueKeys :
        Cardinality({i \in Rows(k, {"FAILED"}) : attempts[i].action = "RETRIED"})
            <= MaxSyncAttempts - 1 + Cardinality(Workers) - 1

Quiet(k) == \A e \in Carrying(k) : settle[e].pc \in {"none", "over"}

\* No silent drift (ADR-0005): once every run of an issue has passed and every finalize has run
\* to its end, an attempt to move the issue was recorded after the last of them finalized.  The
\* exception is a skip whose blocker was re-pointed away afterwards, which nothing re-examines.
NoSilentDrift ==
    \A k \in IssueKeys :
        ShouldTransition(Carrying(k)) /\ Quiet(k) =>
            \/ \A e \in Carrying(k) : \E i \in Rows(k, {"SUCCEEDED", "FAILED"}) : stamp[e] < i
            \/ \E i \in Rows(k, {"SKIPPED"}) : attempts[i].blockers \ Carrying(k) # {}

\* QAMS moves an issue to done only after some run of it has passed, and never moves it back.
DoneIsEarned ==
    \A k \in IssueKeys \ byHand :
        /\ issue[k] = "DONE" => \E e \in Carrying(k) : Passed(e)
        /\ Rows(k, {"SUCCEEDED"}) # {} => issue[k] = "DONE"

\* A failed transition is followed up until it succeeds or a QA Lead is told (jira-retry.ts:
\* "after a bounded number of attempts an issue reaches the terminal ABANDONED state").
FailureIsSettled ==
    \A k \in IssueKeys : k \in Queue ~> Rows(k, Terminal) # {}

\* Whatever Jira does, a finalize request ends: every run that commits gets a verdict, unless
\* the server stopped or the record could not be written.
FinalizeEnds ==
    \A e \in Executions : settle[e].pc \in AfterCommit ~> settle[e].pc \in {"over", "lost"}

\* docs/architecture.md: an issue is transitioned "only when every execution carrying that key
\* is Finalized and every one of them derived Pass" -- as a demand on the retry pass.
RetryRespectsTheRule ==
    [][\A w \in Workers : worker[w].pc = "working" /\ worker'[w].pc = "answered"
            => ShouldTransition(Carrying(worker'[w].key))]_allVars

\* jira-retry.ts, on loadQueue: the queue is the "issue keys whose latest word is a failure".
LatestFailureIsQueued ==
    \A k \in IssueKeys :
        LET tried == Rows(k, {"SUCCEEDED", "FAILED", "ABANDONED"}) IN
        (\E i \in tried : attempts[i].outcome = "FAILED" /\ \A j \in tried : j <= i) => k \in Queue
====
