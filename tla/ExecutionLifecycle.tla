---- MODULE ExecutionLifecycle ----
(* The execution service (domain/executions.ts) as concurrent requests over a  *)
(* READ COMMITTED database.  Every mutation is two steps: Begin reads the row  *)
(* and runs the guards OUTSIDE the transaction; Commit is the transaction,     *)
(* whose last write is guarded by the version that Begin read                  *)
(* (lib/optimistic-lock.ts).  Anything may happen between the two.             *)
(*                                                                             *)
(* The runs are those createExecution plans, and `history` holds the rows that *)
(* finalize appends.  What the seed import inserts (domain/imports.ts) is left *)
(* out: a run it inserts as Finalized is refused by every operation here, and  *)
(* nothing here reads the history rows it adds.                                *)

EXTENDS Naturals, Sequences, FiniteSets

CONSTANTS
    Executions, Cases, Defects,     \* identities of rows
    Users,                          \* accounts
    Testers,                        \* the accounts whose role is QA_TESTER
    IssueKeys, NoKey, NoUser, NoExec, NoDefect,
    Requests,                       \* server requests that can be in flight at once
    MaxVersion                      \* bound: no mutation begins on a row at this version

ASSUME LifecycleAssumption ==
    /\ Testers \subseteq Users
    /\ NoUser \notin Users
    /\ NoKey \notin IssueKeys
    /\ NoExec \notin Executions
    /\ NoDefect \notin Defects /\ "CREATE" \notin Defects /\ NoDefect # "CREATE"
    /\ MaxVersion \in Nat

VARIABLES
    row,            \* row[e]: TestExecution e with the set of cases it covers
    caseResult,     \* caseResult[e][c]: ExecutionTestCase.result
    history,        \* history[e][c]: the ExecutionHistory rows of case c in run e
    defectCase,     \* defectCase[d]: {the test case defect d was raised against}, {} if no such defect
    links,          \* DefectExecutionLink rows <<d, e>>
    approved,       \* test cases whose lifecycleState is APPROVED
    active,         \* users whose active flag is set
    req             \* req[r]: what request r holds in memory

vars == <<row, caseResult, history, defectCase, links, approved, active, req>>

Outcomes == {"PASS", "FAIL", "BLOCKED"}

Row == [state   : {"ABSENT", "PLANNED", "IN_PROGRESS", "FINALIZED"},
        version : Nat,
        tester  : Users \cup {NoUser},
        key     : IssueKeys \cup {NoKey},
        cases   : SUBSET Cases,
        result  : Outcomes \cup {"NONE"}]

AbsentRow == [state |-> "ABSENT", version |-> 0, tester |-> NoUser, key |-> NoKey,
              cases |-> {}, result |-> "NONE"]

\* One element of FinalizeInput.results: an outcome, and the defect it names or asks for.
Entry == [result : Outcomes, defect : Defects \cup {NoDefect, "CREATE"}]

NoResults == [c \in {} |-> [result |-> "PASS", defect |-> NoDefect]]

Request == [pc      : {"idle", "create", "update", "start", "finalize"},
            actor   : Users \cup {NoUser},
            exec    : Executions \cup {NoExec},
            seen    : Row,                      \* the row as it was read before the transaction
            cases   : SUBSET Cases,
            tester  : Users \cup {NoUser},
            key     : IssueKeys \cup {NoKey},
            results : UNION {[C -> Entry] : C \in SUBSET Cases}]

Idle == [pc |-> "idle", actor |-> NoUser, exec |-> NoExec, seen |-> AbsentRow, cases |-> {},
         tester |-> NoUser, key |-> NoKey, results |-> NoResults]

Keys == IssueKeys \cup {NoKey}

-------------------------------------------------------------------------------
\* Guards shared by the operations

\* ensureAssignedTester: a QA_TESTER may only act on a run assigned to them.
AssignedTester(run, a) == a \in Testers => run.tester = a

\* The per-case rules finalizeExecution validates before it writes anything.
EntryAllowed(entry) ==
    /\ entry.result = "FAIL" => entry.defect # NoDefect
    /\ entry.result = "PASS" => entry.defect # "CREATE"

\* deriveExecutionResult
Derived(results) ==
    LET found == {results[c].result : c \in DOMAIN results}
    IN  IF "FAIL" \in found THEN "FAIL" ELSE IF "BLOCKED" \in found THEN "BLOCKED" ELSE "PASS"

\* Mutant of VersionHolds: a where clause without the version.
VersionIgnored(r) == TRUE

\* update({where: {id, version: expected}}) finds its row.
VersionHolds(r) == row[req[r].exec].version = req[r].seen.version

\* The cases whose entry asks finalize to raise a defect.
Creating(r) == {c \in DOMAIN req[r].results : req[r].results[c].defect = "CREATE"}

\* The cases whose entry names an existing defect.
Naming(r) == {c \in DOMAIN req[r].results : req[r].results[c].defect \in Defects}

\* Mutant of DefectsMatch: any existing defect will do.
DefectsExist(r) == \A c \in Naming(r) : defectCase[req[r].results[c].defect] # {}

\* Every defect an entry names exists and belongs to that entry's case.
DefectsMatch(r) == \A c \in Naming(r) : c \in defectCase[req[r].results[c].defect]

Done(r) == req' = [req EXCEPT ![r] = Idle]

-------------------------------------------------------------------------------
\* Planning

\* createExecution up to the transaction: Approved cases, an active tester, a shaped key.
BeginCreate(r, C, u, k) ==
    /\ req[r].pc = "idle"
    /\ C # {} /\ C \subseteq approved
    /\ u \in active
    /\ req' = [req EXCEPT ![r] = [Idle EXCEPT !.pc = "create", !.cases = C, !.tester = u,
                                              !.key = k]]
    /\ UNCHANGED <<row, caseResult, history, defectCase, links, approved, active>>

\* Its transaction: a fresh row at version 1 with one ExecutionTestCase per case.
CommitCreate(r, e) ==
    /\ req[r].pc = "create"
    /\ row[e].state = "ABSENT"
    /\ row' = [row EXCEPT ![e] = [state |-> "PLANNED", version |-> 1, tester |-> req[r].tester,
                                  key |-> req[r].key, cases |-> req[r].cases, result |-> "NONE"]]
    /\ Done(r)
    /\ UNCHANGED <<caseResult, history, defectCase, links, approved, active>>

\* updateExecution up to the transaction.  A request that says nothing about the key does
\* not write the column; under the version guard that is the write k = row[e].key.
BeginUpdate(r, e, u, k) ==
    /\ req[r].pc = "idle"
    /\ row[e].state = "PLANNED" /\ row[e].version < MaxVersion
    /\ u \in active
    /\ req' = [req EXCEPT ![r] = [Idle EXCEPT !.pc = "update", !.exec = e, !.seen = row[e],
                                              !.tester = u, !.key = k]]
    /\ UNCHANGED <<row, caseResult, history, defectCase, links, approved, active>>

CommitUpdate(r) ==
    LET e == req[r].exec IN
    /\ req[r].pc = "update"
    /\ VersionHolds(r)
    /\ row' = [row EXCEPT ![e] = [row[e] EXCEPT !.tester = req[r].tester, !.key = req[r].key,
                                                !.version = row[e].version + 1]]
    /\ Done(r)
    /\ UNCHANGED <<caseResult, history, defectCase, links, approved, active>>

-------------------------------------------------------------------------------
\* Running

BeginStart(r, a, e) ==
    /\ req[r].pc = "idle"
    /\ row[e].state = "PLANNED" /\ row[e].version < MaxVersion
    /\ AssignedTester(row[e], a)
    /\ req' = [req EXCEPT ![r] = [Idle EXCEPT !.pc = "start", !.actor = a, !.exec = e, !.seen = row[e]]]
    /\ UNCHANGED <<row, caseResult, history, defectCase, links, approved, active>>

CommitStart(r) ==
    LET e == req[r].exec IN
    /\ req[r].pc = "start"
    /\ VersionHolds(r)
    /\ row' = [row EXCEPT ![e] = [row[e] EXCEPT !.state = "IN_PROGRESS",
                                                !.version = row[e].version + 1]]
    /\ Done(r)
    /\ UNCHANGED <<caseResult, history, defectCase, links, approved, active>>

\* finalizeExecution up to the transaction: one entry per covered case, no more, no fewer.
BeginFinalize(r, a, e, results) ==
    /\ req[r].pc = "idle"
    /\ row[e].state = "IN_PROGRESS" /\ row[e].version < MaxVersion
    /\ AssignedTester(row[e], a)
    /\ DOMAIN results = row[e].cases
    /\ \A c \in DOMAIN results : EntryAllowed(results[c])
    /\ req' = [req EXCEPT ![r] = [Idle EXCEPT !.pc = "finalize", !.actor = a, !.exec = e,
                                              !.seen = row[e], !.results = results]]
    /\ UNCHANGED <<row, caseResult, history, defectCase, links, approved, active>>

\* The finalize transaction.  Per entry: raise or look up the defect, link it, write the
\* case row, append one history row; then the versioned update of the run itself.  `raised`
\* is what allocateBusinessId hands out: distinct fresh defects.
CommitFinalize(r, raised) ==
    LET e == req[r].exec
        results == req[r].results
    IN
    /\ req[r].pc = "finalize"
    /\ VersionHolds(r)
    /\ DefectsMatch(r)
    /\ \A c \in Creating(r) : defectCase[raised[c]] = {}
    /\ \A c, d \in Creating(r) : raised[c] = raised[d] => c = d
    /\ defectCase' = [d \in Defects |-> defectCase[d] \cup {c \in Creating(r) : raised[c] = d}]
    /\ links' = links \cup {<<raised[c], e>> : c \in Creating(r)}
                      \cup {<<results[c].defect, e>> : c \in Naming(r)}
    /\ caseResult' = [caseResult EXCEPT ![e] =
                        [c \in Cases |-> IF c \in DOMAIN results THEN results[c].result ELSE @[c]]]
    /\ history' = [history EXCEPT ![e] =
                        [c \in Cases |-> IF c \in DOMAIN results THEN Append(@[c], results[c].result)
                                                                 ELSE @[c]]]
    /\ row' = [row EXCEPT ![e] = [row[e] EXCEPT !.state = "FINALIZED", !.result = Derived(results),
                                                !.version = row[e].version + 1]]
    /\ Done(r)
    /\ UNCHANGED <<approved, active>>

\* The transaction matches no row (VERSION_CONFLICT) or finds a defect of another case
\* (HIERARCHY_MISMATCH): everything it wrote is rolled back.
Reject(r) ==
    /\ req[r].pc \in {"update", "start", "finalize"}
    /\ ~VersionHolds(r) \/ (req[r].pc = "finalize" /\ ~DefectsMatch(r))
    /\ Done(r)
    /\ UNCHANGED <<row, caseResult, history, defectCase, links, approved, active>>

\* The process dies, or the transaction fails for another reason, before the commit.
Abort(r) ==
    /\ req[r].pc # "idle"
    /\ Done(r)
    /\ UNCHANGED <<row, caseResult, history, defectCase, links, approved, active>>

-------------------------------------------------------------------------------
\* What other components do to the rows this one reads

\* retireTestCase commits: an Approved case leaves the set, and Retired is final.
RetireCase(c) ==
    /\ c \in approved
    /\ approved' = approved \ {c}
    /\ UNCHANGED <<row, caseResult, history, defectCase, links, active, req>>

\* setUserActive commits, in either direction.
SetUserActive(u, flag) ==
    /\ (u \in active) # flag
    /\ active' = IF flag THEN active \cup {u} ELSE active \ {u}
    /\ UNCHANGED <<row, caseResult, history, defectCase, links, approved, req>>

\* createDefect commits.
RaiseDefect(d, c) ==
    /\ defectCase[d] = {}
    /\ defectCase' = [defectCase EXCEPT ![d] = {c}]
    /\ UNCHANGED <<row, caseResult, history, links, approved, active, req>>

-------------------------------------------------------------------------------
Init ==
    /\ row = [e \in Executions |-> AbsentRow]
    /\ caseResult = [e \in Executions |-> [c \in Cases |-> "NONE"]]
    /\ history = [e \in Executions |-> [c \in Cases |-> <<>>]]
    /\ defectCase = [d \in Defects |-> {}]
    /\ links = {}
    /\ approved = Cases
    /\ active = Users
    /\ req = [r \in Requests |-> Idle]

BeginStep(r) ==
    \/ \E C \in SUBSET Cases, u \in Users, k \in Keys : BeginCreate(r, C, u, k)
    \/ \E e \in Executions, u \in Users, k \in Keys : BeginUpdate(r, e, u, k)
    \/ \E e \in Executions, a \in Users :
         \/ BeginStart(r, a, e)
         \/ \E results \in [row[e].cases -> Entry] : BeginFinalize(r, a, e, results)

CommitStep(r) ==
    \/ \E e \in Executions : CommitCreate(r, e)
    \/ CommitUpdate(r)
    \/ CommitStart(r)
    \/ \E raised \in [Creating(r) -> Defects] : CommitFinalize(r, raised)

EnvironmentStep ==
    \/ \E c \in Cases : RetireCase(c)
    \/ \E u \in Users, flag \in BOOLEAN : SetUserActive(u, flag)
    \/ \E d \in Defects, c \in Cases : RaiseDefect(d, c)

Next ==
    \/ \E r \in Requests : BeginStep(r) \/ CommitStep(r) \/ Reject(r) \/ Abort(r)
    \/ EnvironmentStep

Spec == Init /\ [][Next]_vars

-------------------------------------------------------------------------------
\* Properties

TypeOK ==
    /\ row \in [Executions -> Row]
    /\ caseResult \in [Executions -> [Cases -> Outcomes \cup {"NONE"}]]
    /\ history \in [Executions -> [Cases -> Seq(Outcomes)]]
    /\ defectCase \in [Defects -> SUBSET Cases]
    /\ links \subseteq Defects \X Executions
    /\ approved \subseteq Cases
    /\ active \subseteq Users
    /\ req \in [Requests -> Request]

Pending(r) == req[r].pc \in {"update", "start", "finalize"}

\* What the version column promises (lib/optimistic-lock.ts): while a request waits, the row
\* it read has either moved to a higher version or has not changed in any column.
VersionIdentifiesRow ==
    \A r \in Requests : Pending(r) =>
        /\ req[r].seen.version <= row[req[r].exec].version
        /\ req[r].seen.version = row[req[r].exec].version => req[r].seen = row[req[r].exec]

\* No lost update: a request that changes a run overwrites exactly the row it read, however
\* long it waited, so the `before` its audit event carries is the truth (executions.ts).
NoLostUpdate ==
    [][\A r \in Requests :
         Pending(r) /\ row'[req[r].exec] # row[req[r].exec] /\ req'[r] # req[r]
            => req[r].seen = row[req[r].exec]]_vars

\* Finalize is all or nothing and happens once: a Finalized run has exactly one history row
\* for every case it covers, saying what the case row says; any other run has none.
HistoryIsTheRecord ==
    \A e \in Executions, c \in Cases :
        IF row[e].state = "FINALIZED" /\ c \in row[e].cases
            THEN caseResult[e][c] \in Outcomes /\ history[e][c] = <<caseResult[e][c]>>
            ELSE caseResult[e][c] = "NONE" /\ history[e][c] = <<>>

\* Every failure is explained: a failing case of a Finalized run has a linked defect raised
\* against that same case, and no run is linked to a defect of a case it does not cover.
FailuresExplained ==
    /\ \A e \in Executions, c \in Cases :
         caseResult[e][c] = "FAIL" => \E d \in Defects : <<d, e>> \in links /\ c \in defectCase[d]
    /\ \A l \in links : defectCase[l[1]] \cap row[l[2]].cases # {}

\* A tester starts and finalizes only runs that are theirs at that moment, even when the run
\* is reassigned between the check and the write (ensureAssignedTester).
TestersActOnTheirOwnRuns ==
    [][\A r \in Requests :
         req[r].pc \in {"start", "finalize"} /\ req[r].actor \in Testers
            => (row'[req[r].exec].state # row[req[r].exec].state /\ req'[r] # req[r]
                   => row[req[r].exec].tester = req[r].actor)]_vars

\* The run as its readers know it.
RunAsRead == [e \in Executions |-> [state |-> row[e].state, tester |-> row[e].tester,
                                     key |-> row[e].key, result |-> row[e].result]]

Record == INSTANCE ExecutionRecord WITH run <- RunAsRead

\* The service implements the record: whatever the requests do to each other, a run is
\* planned, edited, started and finalized in that order, once, and frozen in between.
ImplementsRecord == Record!RecordSpec

\* business-rules-and-validation.md: "An execution is created Planned for one or more Approved
\* test cases and exactly one assigned tester", who must be active (createExecution).
CreatedOverApprovedCases ==
    [][\A e \in Executions :
         row[e].state = "ABSENT" /\ row'[e].state = "PLANNED"
            => row'[e].cases \subseteq approved /\ row'[e].tester \in active]_vars
====
