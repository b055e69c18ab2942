---- MODULE Checks ----
(* What an automation suite observed (domain/checks.ts, lib/junit-xml.ts): a   *)
(* results file is read, its tests are matched with the test cases that they   *)
(* name, and the batch and its checks are written at once; a panel of a test   *)
(* case reads the checks and their number in two queries (ChecksPanel); a      *)
(* report narrows and pages the rows of a batch (BatchReport).  Files are      *)
(* ingested, and test cases created, at any time.                              *)

EXTENDS Naturals, FiniteSets, Sequences, FiniteSetsExt, SequencesExt

CONSTANTS
    CheckedCases,       \* test cases that tests can name
    Undeclared,         \* what a test has where it names none
    ResultsFiles,       \* documents: suites in the order of flattenSuites, each with its tests
    Uploads,            \* requests that ingest a file
    PanelLimit,         \* TEST_CASE_CHECK_LIMIT
    ReportPage,         \* PAGE_SIZE
    MaxInstants,        \* bound of the clock
    MaxTouches          \* bound: what the reader of a report does

\* A test: the case in its own name and in its class name, and its first failure or error.
Elements == {"none", "skipped", "error", "assertion", "untyped", "otherType"}
Test == [named : CheckedCases \cup {Undeclared}, class : CheckedCases \cup {Undeclared}, element : Elements]

\* The third conjunct is what flattening does, by induction over the suites.
ASSUME ChecksAssumption ==
    /\ Undeclared \notin CheckedCases
    /\ ResultsFiles \subseteq Seq(Seq(Test))
    /\ \A file \in ResultsFiles : FlattenSeq(file) \in Seq(Test)
    /\ {PanelLimit, ReportPage, MaxInstants, MaxTouches} \subseteq Nat /\ PanelLimit > 0 /\ ReportPage > 0

VARIABLES
    known,      \* the test cases there are
    batches,    \* CheckBatch and Check rows, in the order of their commits
    ingest,     \* the locals of the uploads
    instant,    \* the clock
    panel,      \* a reader's tab: the checks panel of a test case, with the locals of its read
    viewed      \* .. or the report of a batch

checkVars == <<known, batches, ingest, instant, panel, viewed>>

-------------------------------------------------------------------------------
\* lib/junit-xml.ts

\* readOutcome: a failure is an error only where its type says that it was no assertion.
ReadOutcome(t) ==
    CASE t.element = "none"                       -> "PASSED"
      [] t.element = "skipped"                    -> "SKIPPED"
      [] t.element \in {"error", "otherType"}     -> "ERRORED"
      [] t.element \in {"assertion", "untyped"}   -> "FAILED"

Declared(t) == IF t.named # Undeclared THEN t.named ELSE t.class

\* parseJUnitXml of a document that has a suite.
Parsed(file) ==
    LET tests == FlattenSeq(file)
    IN  [i \in DOMAIN tests |-> [case |-> Declared(tests[i]), seen |-> ReadOutcome(tests[i])]]

-------------------------------------------------------------------------------
Observed == {"PASSED", "FAILED", "ERRORED", "SKIPPED"}
Unresolved == {"REFERENCE_NOT_FOUND", "NO_TEST_CASE_DECLARED"}
Filings == Observed \cup Unresolved

\* filingKeyOf: what was observed, or why nothing was recorded.
FilingOf(row) == IF row.outcome = "CREATED" THEN row.seen ELSE row.outcome

\* One row of the report.
Resolved(test, found) ==
    [case    |-> test.case,
     seen    |-> IF test.case \in found THEN test.seen ELSE "none",
     outcome |-> CASE test.case = Undeclared -> "NO_TEST_CASE_DECLARED"
                   [] test.case \in found    -> "CREATED"
                   [] OTHER                  -> "REFERENCE_NOT_FOUND"]

\* Mutant of Tally: every check under one key.
TallyByOutcome(rows) == [f \in Filings |-> Cardinality({i \in DOMAIN rows : rows[i].outcome = f})]

Tally(rows) == [f \in Filings |-> Cardinality({i \in DOMAIN rows : FilingOf(rows[i]) = f})]

Reading == [phase |-> "none", file |-> <<>>, at |-> 0, rows |-> <<>>]
NoPanel == [of |-> Undeclared, phase |-> "none", shown |-> {}, total |-> 0, before |-> 0, after |-> 0]
NoReport == [batch |-> 0, filter |-> "all", page |-> 1, touches |-> 0]

CheckRow == [case : CheckedCases \cup {Undeclared}, seen : Observed \cup {"none"},
        outcome : {"CREATED"} \cup Unresolved]

ChecksTypeOK ==
    /\ known \subseteq CheckedCases
    /\ batches \in Seq([at : 0..MaxInstants, rows : Seq(CheckRow), counts : [Filings -> Nat]])
    /\ \A u \in Uploads :
          /\ ingest[u].phase \in {"none", "stamped", "resolved", "done", "refused"}
          /\ ingest[u].file \in ResultsFiles \cup {<<>>}
          /\ ingest[u].at \in 0..MaxInstants /\ ingest[u].rows \in Seq(CheckRow)
    /\ instant \in 0..MaxInstants
    /\ panel.of \in CheckedCases \cup {Undeclared} /\ panel.shown \subseteq Nat \X Nat
    /\ viewed.batch \in 0..Len(batches) /\ viewed.filter \in Filings \cup {"all"}

-------------------------------------------------------------------------------
\* createCheckBatch

\* The file is read, or refused whole where it has no suite; one instant for all its tests.
StampFile(u) ==
    /\ ingest[u].phase = "none"
    /\ \E file \in ResultsFiles :
          ingest' = [ingest EXCEPT ![u].phase = IF file = <<>> THEN "refused" ELSE "stamped",
                                   ![u].file = file, ![u].at = instant]
    /\ UNCHANGED <<known, batches, instant, panel, viewed>>

\* One lookup of the cases that the file names decides what becomes of every row.
ResolveTests(u) ==
    /\ ingest[u].phase = "stamped"
    /\ LET tests == Parsed(ingest[u].file)
       IN  ingest' = [ingest EXCEPT ![u].phase = "resolved",
                                    ![u].rows = [i \in DOMAIN tests |-> Resolved(tests[i], known)]]
    /\ UNCHANGED <<known, batches, instant, panel, viewed>>

\* The batch, its report and its checks commit together, in their own order.
CommitBatch(u) ==
    /\ ingest[u].phase = "resolved"
    /\ batches' = Append(batches, [at |-> ingest[u].at, rows |-> ingest[u].rows,
                                   counts |-> Tally(ingest[u].rows)])
    /\ ingest' = [ingest EXCEPT ![u].phase = "done"]
    /\ UNCHANGED <<known, instant, panel, viewed>>

\* createTestCase, and time.
CreateCase ==
    /\ \E c \in CheckedCases \ known : known' = known \cup {c}
    /\ UNCHANGED <<batches, ingest, instant, panel, viewed>>

PassInstant ==
    /\ instant < MaxInstants /\ instant' = instant + 1
    /\ UNCHANGED <<known, batches, ingest, panel, viewed>>

-------------------------------------------------------------------------------
\* listChecksForTestCase and ChecksPanel

\* The checks of case c, each by its batch and its row.
ChecksOf(c) ==
    UNION {{b} \X {i \in DOMAIN batches[b].rows : /\ batches[b].rows[i].case = c
                                                 /\ batches[b].rows[i].outcome = "CREATED"}
           : b \in DOMAIN batches}

\* checkedAt, the instant of the batch.  Where it is equal createdAt decides, which two batches of
\* one instant may share, or have in either order: any of them may come first then.
Older(x, y) == batches[x[1]].at < batches[y[1]].at

\* What the query may answer: any of the newest, where checks of one instant are cut.
NewestChecks(c) ==
    {S \in kSubset(Min({PanelLimit, Cardinality(ChecksOf(c))}), ChecksOf(c)) :
        \A x \in S, y \in ChecksOf(c) \ S : ~Older(x, y)}

\* The two queries of Promise.all, in either order.
ReadChecks ==
    /\ panel.phase \in {"none", "counted"} /\ viewed.batch = 0
    /\ \E c \in IF panel.phase = "none" THEN known ELSE {panel.of} : \E S \in NewestChecks(c) :
          panel' = [panel EXCEPT !.of = c, !.shown = S,
                                 !.phase = IF @ = "none" THEN "listed" ELSE "drawn",
                                 !.before = IF panel.phase = "none" THEN Len(batches) ELSE @,
                                 !.after = Len(batches)]
    /\ UNCHANGED <<known, batches, ingest, instant, viewed>>

CountChecks ==
    /\ panel.phase \in {"none", "listed"} /\ viewed.batch = 0
    /\ \E c \in IF panel.phase = "none" THEN known ELSE {panel.of} :
          panel' = [panel EXCEPT !.of = c, !.total = Cardinality(ChecksOf(c)),
                                 !.phase = IF @ = "none" THEN "counted" ELSE "drawn",
                                 !.before = IF panel.phase = "none" THEN Len(batches) ELSE @,
                                 !.after = Len(batches)]
    /\ UNCHANGED <<known, batches, ingest, instant, viewed>>

LeavePanel == panel.phase = "drawn" /\ panel' = NoPanel /\ UNCHANGED <<known, batches, ingest, instant, viewed>>

\* omitted: how many checks the sentence under the list says are not in it; none for the other one.
Omitted == IF panel.total > Cardinality(panel.shown) THEN panel.total - Cardinality(panel.shown) ELSE 0

\* groupByRun: the checks of one batch follow one another, the latest run first.
RunsShown == {x[1] : x \in panel.shown}

-------------------------------------------------------------------------------
\* BatchReport

OpenBatch(b) ==
    /\ viewed.batch = 0 /\ panel.phase = "none"
    /\ viewed' = [NoReport EXCEPT !.batch = b]
    /\ UNCHANGED <<known, batches, ingest, instant, panel>>

Narrowed ==
    {i \in DOMAIN batches[viewed.batch].rows :
        viewed.filter = "all" \/ FilingOf(batches[viewed.batch].rows[i]) = viewed.filter}

\* pageCount, and pageSlice of the rows in the file's order.
ReportPages(n) == Max({1, (n + ReportPage - 1) \div ReportPage})
Visible ==
    LET page == Min({viewed.page, ReportPages(Cardinality(Narrowed))})
    IN  {i \in Narrowed : Cardinality({j \in Narrowed : j < i}) \div ReportPage = page - 1}

Touch(next) ==
    /\ viewed.batch # 0 /\ viewed.touches < MaxTouches
    /\ viewed' = [next EXCEPT !.touches = @ + 1]
    /\ UNCHANGED <<known, batches, ingest, instant, panel>>

\* narrow: a slot that counts nothing is disabled; the one that is pressed lets go.
Narrow(f) ==
    /\ viewed.batch # 0 /\ batches[viewed.batch].counts[f] > 0
    /\ Touch([viewed EXCEPT !.filter = IF @ = f THEN "all" ELSE f, !.page = 1])

\* toggle: another order begins at its first page.
SortReport == Touch([viewed EXCEPT !.page = 1])

TurnReport(p) ==
    /\ viewed.batch # 0 /\ p \in 1..ReportPages(Cardinality(Narrowed)) /\ p \in {viewed.page - 1, viewed.page + 1}
    /\ Touch([viewed EXCEPT !.page = p])

CloseBatch == viewed.batch # 0 /\ viewed' = NoReport /\ UNCHANGED <<known, batches, ingest, instant, panel>>

ChecksInit ==
    /\ known \in SUBSET CheckedCases
    /\ batches = <<>> /\ instant = 0
    /\ ingest = [u \in Uploads |-> Reading]
    /\ panel = NoPanel /\ viewed = NoReport

ChecksNext ==
    \/ \E u \in Uploads : StampFile(u) \/ ResolveTests(u) \/ CommitBatch(u)
    \/ CreateCase \/ PassInstant \/ ReadChecks \/ CountChecks \/ LeavePanel
    \/ \E b \in DOMAIN batches : OpenBatch(b)
    \/ \E f \in Filings : Narrow(f)
    \/ \E p \in 1..MaxTouches : TurnReport(p)
    \/ SortReport \/ CloseBatch

ChecksSpec == ChecksInit /\ [][ChecksNext]_checkVars

-------------------------------------------------------------------------------
\* Properties

\* A run is recorded for a test case as a whole or not at all, whatever was created meanwhile: of
\* the tests of one file that name it, either every one has a check or none has.
RunIsWhole ==
    \A b \in DOMAIN batches : \A i, j \in DOMAIN batches[b].rows :
        batches[b].rows[i].case = batches[b].rows[j].case =>
            batches[b].rows[i].outcome = batches[b].rows[j].outcome

\* The tallies are the filter: they add up to the rows of the file, a slot counts the rows that it
\* narrows to, and no control leads to an empty table.
TalliesAreRows ==
    /\ \A b \in DOMAIN batches :
          LET n == batches[b].counts
          IN  n["PASSED"] + n["FAILED"] + n["ERRORED"] + n["SKIPPED"]
                + n["REFERENCE_NOT_FOUND"] + n["NO_TEST_CASE_DECLARED"] = Len(batches[b].rows)
    /\ viewed.batch # 0 /\ batches[viewed.batch].rows # <<>> =>
          /\ viewed.filter # "all" => batches[viewed.batch].counts[viewed.filter] = Cardinality(Narrowed)
          /\ Visible # {}

\* A list that is cut is never shown as the whole history: what is left out of the panel is stated,
\* is no newer than anything that is shown, so that no run is cut but those of the oldest instant
\* on screen; only a file that was ingested between the panel's two reads can be missing in what
\* it says.
OmissionIsStated ==
    panel.phase = "drawn" /\ panel.before = panel.after =>
        LET seen == {x \in ChecksOf(panel.of) : x[1] <= panel.after}
            left == seen \ panel.shown
        IN  /\ Omitted = Cardinality(left)
            /\ \A x \in left, r \in RunsShown : ~Older(<<r, 1>>, x)

\* The three together.
ChecksAddUp == RunIsWhole /\ TalliesAreRows /\ OmissionIsStated
====
