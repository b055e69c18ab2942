---- MODULE DefectSync ----
(* Defects and the bugs they raise in Jira (domain/defects.ts and              *)
(* domain/jira-defect-sync.ts), with the defect half of the retry pass         *)
(* (domain/jira-retry.ts).  A defect commits in its own transaction; raising   *)
(* its issue, commenting on it and closing it follow in separate reads, calls  *)
(* to Jira and records, which other requests, passes and crashes come between. *)

EXTENDS Naturals, Sequences, FiniteSets

CONSTANTS
    Defects, NoDefect,
    Callers,            \* server requests about defects that can be in flight at once
    Workers,            \* calls of POST /api/v1/jira/retry that can overlap
    Projects,           \* projects in Jira that a product can name
    NoProject,          \* jiraProjectKey IS NULL
    MaxSyncAttempts,    \* MAX_SYNC_ATTEMPTS
    JiraIsLate,         \* whether Jira may still create an issue after the caller's deadline
    InlineDefects,      \* defects that may instead be raised while finalizing a run
    ImportedDefects,    \* defects that may instead come from the seed import
    MaxVersion,         \* bound: no mutation begins on a defect at this version
    MaxRoutings,        \* bound: changes of the product's jiraProjectKey
    MaxFaults           \* bound: crashes of the server and queries that throw

ASSUME DefectAssumption ==
    /\ NoDefect \notin Defects
    /\ Callers \cap Workers = {}
    /\ Workers # {} /\ IsFiniteSet(Workers)
    /\ NoProject \notin Projects
    /\ InlineDefects \subseteq Defects /\ ImportedDefects \subseteq Defects
    /\ MaxSyncAttempts \in Nat \ {0}
    /\ JiraIsLate \in BOOLEAN
    /\ MaxVersion \in Nat /\ MaxRoutings \in Nat /\ MaxFaults \in Nat

VARIABLES
    defect,     \* defect[d]: the Defect row
    attempts,   \* attempts[d]: its CREATE and TRANSITION rows of JiraDefectAttempt, append-only
    project,    \* the product's jiraProjectKey
    issues,     \* issues[d]: the issues in Jira that carry d's label
    late,       \* late[d][k]: creates in k Jira may still act on although the caller gave up
    job,        \* job[p]: what a request, or the item a pass works on, holds in memory
    pass,       \* pass[w]: the plan of one retry pass
    routings, faults,
    owed        \* history: defects closed while holding a key, by a request that has not died

vars == <<defect, attempts, project, issues, late, job, pass, routings, faults, owed>>

Statuses == {"NEW", "TRIAGED", "IN_PROGRESS", "RESOLVED", "CLOSED"}

\* key is an index into issues[d], 0 for jiraIssueKey IS NULL; ranked says that priority and
\* severity are both given.
Row == [status : Statuses \cup {"ABSENT"}, version : Nat, ranked : BOOLEAN, key : Nat]

AbsentRow == [status |-> "ABSENT", version |-> 0, ranked |-> FALSE, key |-> 0]

Attempt == [action : {"CREATE", "TRANSITION"},
            outcome : {"SUCCEEDED", "FAILED", "SKIPPED", "ABANDONED"}]

Issue == [project : Projects, status : {"OPEN", "DONE"}]

Items == Defects \X {"CREATE", "TRANSITION"}

Job == [pc     : {"idle", "edit", "move", "raise", "create", "raised", "comment", "post",
                  "close", "call", "called"},
        defect : Defects \cup {NoDefect},
        seen   : Row,               \* the row as it was read before the transaction
        ranked : BOOLEAN,           \* what an edit writes
        to     : Statuses,          \* the target status of a transition
        answer : {"NONE", "SUCCEEDED", "FAILED"},
        project : Projects \cup {NoProject},    \* where the issue is to be created
        key    : Nat]               \* the issue Jira answered with, or that is to move

NoJob == [pc |-> "idle", defect |-> NoDefect, seen |-> AbsentRow, ranked |-> FALSE,
          to |-> "NEW", answer |-> "NONE", project |-> NoProject, key |-> 0]

Pass == [open : BOOLEAN, abandon : SUBSET Items, retry : SUBSET Items]

NoPass == [open |-> FALSE, abandon |-> {}, retry |-> {}]

Processes == Callers \cup Workers

-------------------------------------------------------------------------------
\* Decisions and records

\* defectTransitions: Closed is terminal.
Transitions == {<<"NEW", "TRIAGED">>, <<"TRIAGED", "IN_PROGRESS">>, <<"IN_PROGRESS", "RESOLVED">>,
                <<"RESOLVED", "CLOSED">>, <<"RESOLVED", "IN_PROGRESS">>}

\* Mutant of ShouldTransition: a resolved defect's issue is moved as well.
ResolvedWillDo(status) == status \in {"RESOLVED", "CLOSED"}

\* shouldTransitionDefectIssue
ShouldTransition(status) == status = "CLOSED"

\* Mutant of VersionHolds: a where clause without the version.
VersionIgnored(p) == TRUE

\* update({where: {id, version: expected}}) finds its row.
VersionHolds(p) == defect[job[p].defect].version = job[p].seen.version

Count(d, action, outcomes) ==
    Cardinality({i \in DOMAIN attempts[d] : attempts[d][i].action = action
                                            /\ attempts[d][i].outcome \in outcomes})

Record(d, action, outcome) ==
    attempts' = [attempts EXCEPT ![d] = Append(@, [action |-> action, outcome |-> outcome])]

Become(p, pc) == job' = [job EXCEPT ![p].pc = pc]

Done(p) == job' = [job EXCEPT ![p] = NoJob]

\* settleDefectTransition: after the comment, the issue moves if the defect closed.
AfterComment(p) == IF ShouldTransition(job[p].to) THEN Become(p, "close") ELSE Done(p)

-------------------------------------------------------------------------------
\* The defect's own transactions (defects.ts)

\* createDefect commits, and the request goes on to raise the issue.
CreateDefect(c, d, ranked) ==
    /\ job[c].pc = "idle"
    /\ defect[d].status = "ABSENT"
    /\ defect' = [defect EXCEPT ![d] = [status |-> "NEW", version |-> 1, ranked |-> ranked,
                                        key |-> 0]]
    /\ job' = [job EXCEPT ![c] = [NoJob EXCEPT !.pc = "raise", !.defect = d]]
    /\ UNCHANGED <<attempts, project, issues, late, pass, routings, faults, owed>>

\* finalizeExecution creates the defect of a failing case in its transaction; that is all.
CreateInline(d, ranked) ==
    /\ defect[d].status = "ABSENT" /\ d \in InlineDefects
    /\ defect' = [defect EXCEPT ![d] = [status |-> "NEW", version |-> 1, ranked |-> ranked,
                                        key |-> 0]]
    /\ UNCHANGED <<attempts, project, issues, late, job, pass, routings, faults, owed>>

\* importDefects inserts a row in whatever status the workbook says, without priority or severity.
ImportDefect(d, status) ==
    /\ defect[d].status = "ABSENT" /\ d \in ImportedDefects
    /\ defect' = [defect EXCEPT ![d] = [status |-> status, version |-> 1, ranked |-> FALSE,
                                        key |-> 0]]
    /\ UNCHANGED <<attempts, project, issues, late, job, pass, routings, faults, owed>>

\* updateDefectDetails reads and checks; priority and severity may be given or blanked.
BeginEdit(c, d, ranked) ==
    /\ job[c].pc = "idle"
    /\ defect[d].status = "NEW" /\ defect[d].version < MaxVersion
    /\ job' = [job EXCEPT ![c] = [NoJob EXCEPT !.pc = "edit", !.defect = d, !.seen = defect[d],
                                               !.ranked = ranked]]
    /\ UNCHANGED <<defect, attempts, project, issues, late, pass, routings, faults, owed>>

CommitEdit(c) ==
    LET d == job[c].defect IN
    /\ job[c].pc = "edit" /\ VersionHolds(c)
    /\ defect' = [defect EXCEPT ![d].ranked = job[c].ranked, ![d].version = @ + 1]
    /\ Done(c)
    /\ UNCHANGED <<attempts, project, issues, late, pass, routings, faults, owed>>

\* transitionDefect reads and checks.
BeginMove(c, d, to) ==
    /\ job[c].pc = "idle"
    /\ <<defect[d].status, to>> \in Transitions /\ defect[d].version < MaxVersion
    /\ to = "TRIAGED" => defect[d].ranked
    /\ job' = [job EXCEPT ![c] = [NoJob EXCEPT !.pc = "move", !.defect = d, !.seen = defect[d],
                                               !.to = to]]
    /\ UNCHANGED <<defect, attempts, project, issues, late, pass, routings, faults, owed>>

\* Its transaction; the request goes on to tell Jira.
CommitMove(c) ==
    LET d == job[c].defect IN
    /\ job[c].pc = "move" /\ VersionHolds(c)
    /\ defect' = [defect EXCEPT ![d].status = job[c].to, ![d].version = @ + 1]
    /\ owed' = IF job[c].to = "CLOSED" /\ defect[d].key # 0 THEN owed \cup {d} ELSE owed
    /\ Become(c, "comment")
    /\ UNCHANGED <<attempts, project, issues, late, pass, routings, faults>>

\* VERSION_CONFLICT
Conflict(c) ==
    /\ job[c].pc \in {"edit", "move"} /\ ~VersionHolds(c)
    /\ Done(c)
    /\ UNCHANGED <<defect, attempts, project, issues, late, pass, routings, faults, owed>>

-------------------------------------------------------------------------------
\* settleDefectIssueCreate

\* It reads the defect and its product's project: without a project, or with a key already
\* there, it returns null and records nothing.
NothingToRaise(p) ==
    /\ job[p].pc = "raise"
    /\ project = NoProject \/ defect[job[p].defect].key # 0
    /\ Done(p)
    /\ UNCHANGED <<defect, attempts, project, issues, late, pass, routings, faults, owed>>

Raising(p) == job[p].pc = "raise" /\ project # NoProject /\ defect[job[p].defect].key = 0

\* What createIssue searches for: the label, in the project that the product names now.
Labelled(d) == {i \in DOMAIN issues[d] : issues[d][i].project = project}

\* The create is of the project that was searched, even if the product changes in between.
ToCreate(p) == job' = [job EXCEPT ![p].pc = "create", ![p].project = project]

\* There is none, so it will create.
FindNone(p) ==
    /\ Raising(p) /\ Labelled(job[p].defect) = {}
    /\ ToCreate(p)
    /\ UNCHANGED <<defect, attempts, project, issues, late, pass, routings, faults, owed>>

\* There is one, left by an attempt whose answer was lost: it is adopted.
Adopt(p) ==
    /\ Raising(p)
    /\ \E found \in Labelled(job[p].defect) :
         job' = [job EXCEPT ![p].pc = "raised", ![p].answer = "SUCCEEDED", ![p].key = found]
    /\ UNCHANGED <<defect, attempts, project, issues, late, pass, routings, faults, owed>>

\* Mutant of SearchFails: a search that fails is taken for one that found nothing.
CreateUnsearched(p) ==
    /\ Raising(p)
    /\ ToCreate(p)
    /\ UNCHANGED <<defect, attempts, project, issues, late, pass, routings, faults, owed>>

\* The search fails, or the credential or the connection: nothing is created.
SearchFails(p) ==
    /\ Raising(p)
    /\ job' = [job EXCEPT ![p].pc = "raised", ![p].answer = "FAILED"]
    /\ UNCHANGED <<defect, attempts, project, issues, late, pass, routings, faults, owed>>

Opened(k) == [project |-> k, status |-> "OPEN"]

\* Jira creates the issue and the answer arrives.
PostIssue(p) ==
    LET d == job[p].defect IN
    /\ job[p].pc = "create"
    /\ issues' = [issues EXCEPT ![d] = Append(@, Opened(job[p].project))]
    /\ job' = [job EXCEPT ![p].pc = "raised", ![p].answer = "SUCCEEDED",
                          ![p].key = Len(issues[d]) + 1]
    /\ UNCHANGED <<defect, attempts, project, late, pass, routings, faults, owed>>

\* Or no answer arrives in time: Jira refused, or created the issue, or will.
PostFails(p) ==
    LET d == job[p].defect IN
    /\ job[p].pc = "create"
    /\ job' = [job EXCEPT ![p].pc = "raised", ![p].answer = "FAILED"]
    /\ \/ UNCHANGED <<issues, late>>
       \/ issues' = [issues EXCEPT ![d] = Append(@, Opened(job[p].project))] /\ UNCHANGED late
       \/ JiraIsLate /\ late' = [late EXCEPT ![d][job[p].project] = @ + 1] /\ UNCHANGED issues
    /\ UNCHANGED <<defect, attempts, project, pass, routings, faults, owed>>

\* Mutant of RecordRaise: the key is written whether or not one is there.
RecordRaiseAlways(p) ==
    LET d == job[p].defect IN
    /\ job[p].pc = "raised"
    /\ defect' = IF job[p].answer = "SUCCEEDED" THEN [defect EXCEPT ![d].key = job[p].key]
                                                ELSE defect
    /\ Record(d, "CREATE", job[p].answer)
    /\ Done(p)
    /\ UNCHANGED <<project, issues, late, pass, routings, faults, owed>>

\* One transaction: the key, if there still is none, and the attempt row in any case.  The
\* key write leaves the version alone.
RecordRaise(p) ==
    LET d == job[p].defect IN
    /\ job[p].pc = "raised"
    /\ defect' = IF job[p].answer = "SUCCEEDED" /\ defect[d].key = 0
                 THEN [defect EXCEPT ![d].key = job[p].key] ELSE defect
    /\ Record(d, "CREATE", job[p].answer)
    /\ Done(p)
    /\ UNCHANGED <<project, issues, late, pass, routings, faults, owed>>

-------------------------------------------------------------------------------
\* settleDefectTransition

\* settleDefectComment reads the key; without one there is nothing to say it on.
ReadForComment(p) ==
    /\ job[p].pc = "comment"
    /\ IF defect[job[p].defect].key = 0 THEN AfterComment(p) ELSE Become(p, "post")
    /\ UNCHANGED <<defect, attempts, project, issues, late, pass, routings, faults, owed>>

\* Mutant of PostComment: a comment that could not post ends the request.
PostCommentOrStop(p) ==
    /\ job[p].pc = "post"
    /\ AfterComment(p) \/ Done(p)
    /\ UNCHANGED <<defect, attempts, project, issues, late, pass, routings, faults, owed>>

\* The comment is posted or refused, or a query throws; it is never retried, and the issue
\* is dealt with next in every case.  (COMMENT rows are read by nothing but the screen.)
PostComment(p) ==
    /\ job[p].pc = "post"
    /\ AfterComment(p)
    /\ UNCHANGED <<defect, attempts, project, issues, late, pass, routings, faults, owed>>

\* settleDefectIssueTransition reads the defect again: no key, no row; not Closed, a skip.
ReadForClose(p) ==
    LET d == job[p].defect IN
    /\ job[p].pc = "close"
    /\ IF defect[d].key = 0 THEN Done(p) /\ UNCHANGED attempts
       ELSE IF ~ShouldTransition(defect[d].status) THEN Done(p) /\ Record(d, "TRANSITION", "SKIPPED")
       ELSE /\ job' = [job EXCEPT ![p].pc = "call", ![p].key = defect[d].key]
            /\ UNCHANGED attempts
    /\ UNCHANGED <<defect, project, issues, late, pass, routings, faults, owed>>

\* Jira moves the issue or does not; a lost answer counts as a failure although it moved.
CallJira(p, answer) ==
    LET d == job[p].defect
        moved == [issues EXCEPT ![d][job[p].key].status = "DONE"]
    IN
    /\ job[p].pc = "call"
    /\ issues' = moved \/ (answer = "FAILED" /\ UNCHANGED issues)
    /\ job' = [job EXCEPT ![p].pc = "called", ![p].answer = answer]
    /\ UNCHANGED <<defect, attempts, project, late, pass, routings, faults, owed>>

RecordCall(p) ==
    /\ job[p].pc = "called"
    /\ Record(job[p].defect, "TRANSITION", job[p].answer)
    /\ Done(p)
    /\ UNCHANGED <<defect, project, issues, late, pass, routings, faults, owed>>

Settling == {"raise", "create", "raised", "comment", "post", "close", "call", "called"}

\* A query of a settle function throws: logged, never rethrown, nothing recorded.  Before the
\* comment it is transitionDefect's own lookup of the owner's name that can throw, after the
\* commit and uncaught: the caller sees an error, and Jira is not told.
SwallowError(p) ==
    /\ job[p].pc \in Settling \ {"post"} /\ faults < MaxFaults
    /\ faults' = faults + 1
    /\ owed' = owed \ {job[p].defect}
    /\ Done(p)
    /\ UNCHANGED <<defect, attempts, project, issues, late, pass, routings>>

-------------------------------------------------------------------------------
\* The defect half of runJiraSyncRetries

Terminal == {"SUCCEEDED", "ABANDONED"}

\* loadDefectQueue
Queued(d, action) ==
    /\ Count(d, action, {"FAILED"}) > 0 /\ Count(d, action, Terminal) = 0
    /\ action = "CREATE" => defect[d].key = 0
    /\ action = "TRANSITION" => defect[d].status = "CLOSED"

Queue == {i \in Items : Queued(i[1], i[2])}

\* Mutant of Exhausted: one failure more than the limit.
ExhaustedLate(d, action) == Count(d, action, {"FAILED"}) > MaxSyncAttempts

\* planDefectRetries
Exhausted(d, action) == Count(d, action, {"FAILED"}) >= MaxSyncAttempts

BeginPass(w) ==
    /\ ~pass[w].open /\ Queue # {}
    /\ pass' = [pass EXCEPT ![w] = [open    |-> TRUE,
                                    abandon |-> {i \in Queue : Exhausted(i[1], i[2])},
                                    retry   |-> {i \in Queue : ~Exhausted(i[1], i[2])}]]
    /\ UNCHANGED <<defect, attempts, project, issues, late, job, routings, faults, owed>>

\* Mutant of Abandon: the item leaves the plan and no row says so.
AbandonUnrecorded(w, i) ==
    /\ i \in pass[w].abandon
    /\ pass' = [pass EXCEPT ![w].abandon = @ \ {i}]
    /\ UNCHANGED <<defect, attempts, project, issues, late, job, routings, faults, owed>>

\* Every planned abandonment is recorded before the first retry.
Abandon(w, i) ==
    /\ i \in pass[w].abandon
    /\ Record(i[1], i[2], "ABANDONED")
    /\ pass' = [pass EXCEPT ![w].abandon = @ \ {i}]
    /\ UNCHANGED <<defect, project, issues, late, job, routings, faults, owed>>

\* The next item, through the settle function a first attempt uses.
Retry(w, i) ==
    /\ i \in pass[w].retry /\ pass[w].abandon = {} /\ job[w].pc = "idle"
    /\ pass' = [pass EXCEPT ![w].retry = @ \ {i}]
    /\ job' = [job EXCEPT ![w] = [NoJob EXCEPT !.pc = IF i[2] = "CREATE" THEN "raise" ELSE "close",
                                               !.defect = i[1]]]
    /\ UNCHANGED <<defect, attempts, project, issues, late, routings, faults, owed>>

EndPass(w) ==
    /\ pass[w].open /\ pass[w].abandon = {} /\ pass[w].retry = {} /\ job[w].pc = "idle"
    /\ pass' = [pass EXCEPT ![w] = NoPass]
    /\ UNCHANGED <<defect, attempts, project, issues, late, job, routings, faults, owed>>

-------------------------------------------------------------------------------
\* The world around

\* The server stops, and a retry pass that throws is dropped with it.
Crash ==
    /\ faults < MaxFaults
    /\ (\E p \in Processes : job[p].pc # "idle") \/ (\E w \in Workers : pass[w].open)
    /\ faults' = faults + 1
    /\ owed' = owed \ {job[p].defect : p \in Processes}
    /\ job' = [p \in Processes |-> NoJob]
    /\ pass' = [w \in Workers |-> NoPass]
    /\ UNCHANGED <<defect, attempts, project, issues, late, routings>>

\* updateProduct sets, clears or changes the product's jiraProjectKey.
RouteProduct(k) ==
    /\ project # k /\ routings < MaxRoutings
    /\ project' = k
    /\ routings' = routings + 1
    /\ UNCHANGED <<defect, attempts, issues, late, job, pass, faults, owed>>

\* Jira acts on a request whose caller has gone.
CreateLate(d, k) ==
    /\ late[d][k] > 0
    /\ late' = [late EXCEPT ![d][k] = @ - 1]
    /\ issues' = [issues EXCEPT ![d] = Append(@, Opened(k))]
    /\ UNCHANGED <<defect, attempts, project, job, pass, routings, faults, owed>>

-------------------------------------------------------------------------------
Init ==
    /\ defect = [d \in Defects |-> AbsentRow]
    /\ attempts = [d \in Defects |-> <<>>]
    /\ project \in Projects \cup {NoProject}
    /\ issues = [d \in Defects |-> <<>>]
    /\ late = [d \in Defects |-> [k \in Projects |-> 0]]
    /\ job = [p \in Processes |-> NoJob]
    /\ pass = [w \in Workers |-> NoPass]
    /\ routings = 0
    /\ faults = 0
    /\ owed = {}

RequestStep(c) ==
    \/ \E d \in Defects, ranked \in BOOLEAN : CreateDefect(c, d, ranked) \/ BeginEdit(c, d, ranked)
    \/ \E d \in Defects, to \in Statuses : BeginMove(c, d, to)
    \/ CommitEdit(c)
    \/ CommitMove(c)
    \/ Conflict(c)

SettleStep(p) ==
    \/ NothingToRaise(p)
    \/ FindNone(p)
    \/ Adopt(p)
    \/ SearchFails(p)
    \/ PostIssue(p)
    \/ PostFails(p)
    \/ RecordRaise(p)
    \/ ReadForComment(p)
    \/ PostComment(p)
    \/ ReadForClose(p)
    \/ \E answer \in {"SUCCEEDED", "FAILED"} : CallJira(p, answer)
    \/ RecordCall(p)

WorkStep(w) ==
    \/ BeginPass(w)
    \/ \E i \in Items : Abandon(w, i) \/ Retry(w, i)
    \/ EndPass(w)

Environment ==
    \/ \E d \in Defects, ranked \in BOOLEAN : CreateInline(d, ranked)
    \/ \E d \in Defects, status \in Statuses : ImportDefect(d, status)
    \/ \E k \in Projects \cup {NoProject} : RouteProduct(k)
    \/ \E d \in Defects, k \in Projects : CreateLate(d, k)
    \/ Crash

Next ==
    \/ \E c \in Callers : RequestStep(c)
    \/ \E p \in Processes : SettleStep(p) \/ SwallowError(p)
    \/ \E w \in Workers : WorkStep(w)
    \/ Environment

Spec == Init /\ [][Next]_vars

\* A settle function in progress runs to its end (every call has a deadline), and the retry
\* endpoint goes on being called and works its plan off.
FairSpec ==
    /\ Spec
    /\ \A p \in Processes : WF_vars(SettleStep(p))
    /\ \A w \in Workers : WF_vars(WorkStep(w))

-------------------------------------------------------------------------------
\* Properties

\* Types, and what they cannot say: the key a defect holds is the key of an issue that exists
\* in Jira, also when the search answered with an adopted one (createIssue).
DefectTypeOK ==
    /\ defect \in [Defects -> Row]
    /\ \A d \in Defects : defect[d].key <= Len(issues[d])
    /\ attempts \in [Defects -> Seq(Attempt)]
    /\ project \in Projects \cup {NoProject}
    /\ issues \in [Defects -> Seq(Issue)]
    /\ late \in [Defects -> [Projects -> Nat]]
    /\ job \in [Processes -> Job]
    /\ pass \in [Workers -> Pass]
    /\ routings \in 0..MaxRoutings /\ faults \in 0..MaxFaults
    /\ owed \subseteq Defects

\* A defect that was triaged here has a priority and a severity: a details edit that blanks them
\* cannot slip in between the check of transitionDefect and its write.
TriagedIsRanked ==
    \A d \in Defects \ ImportedDefects : defect[d].status \notin {"ABSENT", "NEW"} => defect[d].ranked

\* The key of a defect, once written, is never overwritten, although creates race for it
\* (settleDefectIssueCreate writes it where jiraIssueKey is still null).
KeyIsForGood == [][\A d \in Defects : defect[d].key # 0 => defect'[d].key = defect[d].key]_vars

\* docs/architecture.md: QAMS moves an issue "only when the defect reaches Closed", however late
\* the retry that moves it; so an issue in Done stands for a closed defect.
DoneMeansClosed ==
    \A d \in Defects : (\E i \in DOMAIN issues[d] : issues[d][i].status = "DONE") => defect[d].status = "CLOSED"

\* A comment that could not post never costs the transition: once the request that closed a
\* defect holding a key is over, an attempt to move its issue is on record.
ClosureIsFollowedUp ==
    \A d \in owed : (\A c \in Callers : job[c].defect # d) => Count(d, "TRANSITION", {"SUCCEEDED", "FAILED"}) > 0

\* The retry budget of a create or a transition: it fails at most MaxSyncAttempts times, and
\* once more for every further pass that had planned it (planDefectRetries).
DefectRetryBudget ==
    \A i \in Items : Count(i[1], i[2], {"FAILED"}) <= MaxSyncAttempts + Cardinality(Workers) - 1

\* docs/testing-and-acceptance.md: a retry after a lost answer adopts the issue by its label and
\* "no second issue is created" (createIssue, ADR-0006).  Two passes that overlap break it, and
\* so does a product that names another project by the time of the retry.
OneIssuePerDefect == \A d \in Defects : Len(issues[d]) <= 1

\* What does hold, while no two passes overlap and Jira does not act after the deadline: whatever
\* answers are lost and however often the product is routed elsewhere and back, a defect has one
\* issue at most in each project.
OneIssuePerProject ==
    \A d \in Defects : \A i, k \in DOMAIN issues[d] :
        issues[d][i].project = issues[d][k].project => i = k

\* Failed work is retried until it succeeds or is abandoned, unless the product stops raising
\* bugs: then a failed create stays queued without an attempt (settleDefectIssueCreate).
FailedWorkIsSettled ==
    \A d \in Defects, action \in {"CREATE", "TRANSITION"} :
        Queued(d, action) ~> (~Queued(d, action) \/ (action = "CREATE" /\ project = NoProject))

\* docs/architecture.md: "Raising a defect in QAMS raises a bug in Jira" -- for a product with
\* a project key, once no request about the defect is in flight, an attempt is on record.
EveryDefectIsReported ==
    \A d \in Defects \ ImportedDefects :
        defect[d].status # "ABSENT" /\ project # NoProject /\ routings = 0 /\ faults = 0
            => Count(d, "CREATE", {"SUCCEEDED", "FAILED"}) > 0 \/ \E p \in Processes : job[p].defect = d
====
