---- MODULE Imports ----
(* The workbook import and its reconciliation (domain/imports.ts,              *)
(* domain/import-decisions.ts, domain/import-parsing.ts, the upload route and  *)
(* the admin screens): one workbook with a row in some of its sheets, imported *)
(* more than once, also at the same time, while people edit.  An import        *)
(* commits a batch for a sheet or two at a time; a batch looks records up,     *)
(* decides, and writes the new ones and its part of the report together.       *)

EXTENDS Naturals, FiniteSets, Sequences

CONSTANTS
    Imports,            \* ImportRun rows
    Resolvers,          \* requests that resolve a report row
    Rows,               \* kinds of record the workbook has a row for; the others exist already
    Flaws,              \* kinds of row that are incomplete or invalid in the workbook
    ByHand,             \* bound: kinds of record that people write
    Reviewed,           \* bound: kinds of row that people resolve
    MaxHands            \* bound: what people write

\* SHEET_SPECS in the order of createImportRun; the links come from a column of Test Execution.
Sheets == << {"setting"}, {"product"}, {"module"}, {"feature"}, {"requirement"},
             {"case", "steps"}, {"execution"}, {"history"}, {"defect"}, {"bugLink"}, {"trace"} >>

Kinds == UNION {Sheets[b] : b \in DOMAIN Sheets}

\* A batch without a row to import does nothing, except for what importSettings does after it.
Batches == {b \in DOMAIN Sheets : Sheets[b] \cap Rows # {} \/ Sheets[b] = {"setting"}}

ASSUME ImportsAssumption ==
    /\ MaxHands \in Nat /\ Rows \cup ByHand \cup Reviewed \subseteq Kinds
    /\ Imports \cap {"people", "nobody"} = {}
    \* A setting that is incomplete is no row at all, and a link no row of its own.
    /\ Flaws \subseteq Kinds \ {"setting", "bugLink"}

VARIABLES
    stored,     \* stored[k]: the record of kind k that the workbook's row is about
    creator,    \* history: the import that created it, "people" or "nobody"
    historyRows, \* the imports that created the history row: no index makes it unique
    approved,   \* whether the test case, if there is one, is Approved
    testerActive,
    import,     \* import[i]: the ImportRun i and the memory of its request
    report,     \* report[i][k]: the ImportRowReport for that row
    resolution, \* resolution[i][k]: its decision
    resolver,   \* resolver[q]: a resolution under way
    hands,      \* what people wrote so far, for the bound only
    overlapped, \* history: imports that were under way together
    contested   \* history: rows that two resolutions overlapped on

importVars == <<stored, creator, historyRows, approved, testerActive, import, report, resolution,
                resolver, hands, overlapped, contested>>

\* Absent; as in the workbook; not as in the workbook; or even under another parent, or of another
\* test case, than the workbook has it.  An inactive controlled value is "other".
Values == {"none", "source", "other", "elsewhere"}

Looked == [stored : [Kinds -> Values], history : SUBSET Imports, approved : BOOLEAN,
           testerActive : BOOLEAN]

RowOutcomes == {"CREATED", "SKIPPED_UNCHANGED", "RECONCILIATION_REQUIRED", "REJECTED"}

Blind == [stored |-> [k \in Kinds |-> "none"], history |-> {}, approved |-> FALSE,
          testerActive |-> FALSE]

Pending(i) == import[i].pc \notin {"idle", "over"}

ImportsTypeOK ==
    /\ stored \in [Kinds -> Values]
    /\ creator \in [Kinds -> Imports \cup {"people", "nobody"}]
    /\ historyRows \subseteq Imports
    /\ approved \in BOOLEAN /\ testerActive \in BOOLEAN
    /\ import \in [Imports ->
          [pc     : {"idle", "look", "write", "values", "complete", "over"},
           batch  : Batches,
           looked : Looked,
           values : BOOLEAN,            \* ctx.activeValues has the workbook's values
           staged : BOOLEAN,            \* ctx.stagedBugRefs is not empty
           status : {"none", "RUNNING", "COMPLETED", "FAILED"}]]
    /\ report \in [Imports -> [Kinds -> RowOutcomes \cup {"none"}]]
    /\ resolution \in [Imports -> [Kinds -> {"none", "KEEP_CURRENT", "ACCEPT_SOURCE"}]]
    /\ resolver \in [Resolvers -> (Imports \X Kinds) \cup {<<>>}]
    /\ hands \in Nat
    /\ overlapped \subseteq SUBSET Imports
    /\ contested \subseteq Imports \X Kinds

-------------------------------------------------------------------------------
\* What is decided about a row

\* What the lookups of the batch found of the records that a row refers to: one is absent, or is
\* under another parent, or of another test case, than in the workbook.
Missing(i, K) == \E k \in K : import[i].looked.stored[k] = "none"

Misplaced(i, K) == \E k \in K : import[i].looked.stored[k] = "elsewhere"

\* An acceptable row against what is there already.
Compared(i, k) ==
    LET see   == import[i].looked
        there == IF k = "history" THEN see.history # {} ELSE see.stored[k] # "none"
    IN  CASE ~there -> "CREATED"
          [] there /\ (k = "history" \/ see.stored[k] = "source") -> "SKIPPED_UNCHANGED"
          [] OTHER -> "RECONCILIATION_REQUIRED"

\* decideCatalogueRow, and the same rule as the other functions have it.
Decided(i, k, fits) == IF k \in Flaws \/ ~fits THEN "REJECTED" ELSE Compared(i, k)

\* An inactive value is not made active again.
ImportSettings(i) == Compared(i, "setting")

ImportProducts(i) == Decided(i, "product", TRUE)

ImportModules(i) == Decided(i, "module", ~Missing(i, {"product"}))

ImportFeatures(i) == Decided(i, "feature", ~Missing(i, {"module"}))

ImportRequirements(i) == Decided(i, "requirement", ~Missing(i, {"feature"}))

ImportTestCases(i) ==
    Decided(i, "case", /\ import[i].values
                       /\ ~Missing(i, {"product", "module", "feature", "requirement"})
                       /\ ~Misplaced(i, {"module", "feature", "requirement"}))

\* The steps of a new case are written with it, or not at all; those of a case that was there
\* are only compared.
ImportTestSteps(i) ==
    CASE ImportTestCases(i) = "REJECTED" -> "REJECTED"
      [] ImportTestCases(i) = "CREATED"  -> IF "steps" \in Flaws THEN "REJECTED" ELSE "CREATED"
      [] OTHER -> IF import[i].looked.stored["steps"] = "source" THEN "SKIPPED_UNCHANGED"
                  ELSE "RECONCILIATION_REQUIRED"

\* The tester, like the test case, may have changed standing since the workbook was written.
ImportExecutions(i) ==
    Decided(i, "execution", /\ ~Missing(i, {"case"}) /\ import[i].looked.approved
                            /\ import[i].looked.testerActive /\ import[i].values)

ImportExecutionHistory(i) ==
    Decided(i, "history", /\ ~Missing(i, {"execution", "case"}) /\ ~Misplaced(i, {"execution"})
                          /\ import[i].values)

ImportDefects(i) == Decided(i, "defect", ~Missing(i, {"case"}))

ResolveBugLinks(i) == Decided(i, "bugLink", ~Missing(i, {"defect"}) /\ ~Misplaced(i, {"defect"}))

ImportRtmLinks(i) ==
    Decided(i, "trace", /\ ~Missing(i, {"requirement", "case", "defect"})
                        /\ ~Misplaced(i, {"case", "defect"}))

Decision(i, k) ==
    CASE k = "setting"     -> ImportSettings(i)
      [] k = "product"     -> ImportProducts(i)
      [] k = "module"      -> ImportModules(i)
      [] k = "feature"     -> ImportFeatures(i)
      [] k = "requirement" -> ImportRequirements(i)
      [] k = "case"        -> ImportTestCases(i)
      [] k = "steps"       -> ImportTestSteps(i)
      [] k = "execution"   -> ImportExecutions(i)
      [] k = "history"     -> ImportExecutionHistory(i)
      [] k = "defect"      -> ImportDefects(i)
      [] k = "bugLink"     -> ResolveBugLinks(i)
      [] k = "trace"       -> ImportRtmLinks(i)

-------------------------------------------------------------------------------
\* An import

\* The upload, and createImportRun up to the first batch: sheets, headers and limits are in order.
StartImport(i) ==
    /\ import[i].pc = "idle"
    /\ import' = [import EXCEPT ![i].pc = "look", ![i].status = "RUNNING"]
    /\ overlapped' = overlapped \cup {{i, j} : j \in {j \in Imports : Pending(j)}}
    /\ UNCHANGED <<stored, creator, historyRows, approved, testerActive, report,
                   resolution, resolver, hands, contested>>

\* The findMany calls at the start of a batch.
LookUp(i) ==
    /\ import[i].pc = "look"
    /\ import' = [import EXCEPT ![i].pc = "write",
                                ![i].looked = [stored |-> stored, history |-> historyRows,
                                               approved |-> approved,
                                               testerActive |-> testerActive]]
    /\ UNCHANGED <<stored, creator, historyRows, approved, testerActive, report,
                   resolution, resolver, hands, overlapped, contested>>

\* The rows of the current batch; there is none for a link that no execution row staged.
BatchRows(i) ==
    {k \in Sheets[import[i].batch] \cap Rows : k = "bugLink" => import[i].staged}

ToCreate(i) == {k \in BatchRows(i) : Decision(i, k) = "CREATED"}

\* Mutant of Vacant: an insert replaces what is there.
VacantOrNot(K) == TRUE

\* The unique indexes let the new records in.
Vacant(K) == \A k \in K \ {"history", "steps"} : stored[k] = "none"

\* The batches that come after the one under way.
Later(i) == {b \in Batches : b > import[i].batch}

\* Mutant of Advance: a sheet without a row to import has a batch as well.
AdvanceByOne(i) ==
    [import[i] EXCEPT !.pc = IF Sheets[import[i].batch] = {"setting"} THEN "values"
                             ELSE IF Later(i) = {} THEN "complete" ELSE "look",
                      !.batch = IF Later(i) = {} THEN @ ELSE @ + 1,
                      !.looked = Blind]

\* On to the next batch; the controlled values are read after the first.
Advance(i) ==
    [import[i] EXCEPT !.pc = IF Sheets[import[i].batch] = {"setting"} THEN "values"
                             ELSE IF Later(i) = {} THEN "complete" ELSE "look",
                      !.batch = IF Later(i) = {} THEN @
                                ELSE CHOOSE b \in Later(i) : \A c \in Later(i) : b <= c,
                      !.looked = Blind]

\* commitBatch of one of the import.. functions: records, and the report on every row.
WriteBatch(i) ==
    /\ import[i].pc = "write"
    /\ Vacant(ToCreate(i))
    /\ stored' = [k \in Kinds |-> IF k \in ToCreate(i) \ {"history"} THEN "source" ELSE stored[k]]
    /\ creator' = [k \in Kinds |-> IF k \in ToCreate(i) \ {"history"} THEN i ELSE creator[k]]
    /\ historyRows' = IF "history" \in ToCreate(i) THEN historyRows \cup {i} ELSE historyRows
    /\ approved' = (approved \/ "case" \in ToCreate(i))
    /\ report' = [report EXCEPT ![i] = [k \in Kinds |-> IF k \in BatchRows(i) THEN Decision(i, k)
                                                        ELSE report[i][k]]]
    /\ import' = [import EXCEPT ![i] =
          [Advance(i) EXCEPT !.staged = import[i].staged \/
              (/\ "execution" \in BatchRows(i)
               /\ Decision(i, "execution") \in {"CREATED", "SKIPPED_UNCHANGED"})]]
    /\ UNCHANGED <<testerActive, resolution, resolver, hands, overlapped, contested>>

\* createViaService: the catalogue's own service looks once more, and its refusal becomes a row.
RefuseDuplicate(i) ==
    /\ import[i].pc = "write"
    /\ Sheets[import[i].batch] \in {{"product"}, {"module"}, {"feature"}, {"requirement"}}
    /\ ~Vacant(ToCreate(i))
    /\ report' = [report EXCEPT ![i] = [k \in Kinds |-> IF k \in BatchRows(i) THEN "REJECTED"
                                                        ELSE report[i][k]]]
    /\ import' = [import EXCEPT ![i] = Advance(i)]
    /\ UNCHANGED <<stored, creator, historyRows, approved, testerActive, resolution,
                   resolver, hands, overlapped, contested>>

\* importSettings after its commit: the active values, once for the whole import.  A workbook of
\* settings alone has no other batch.
LoadValues(i) ==
    /\ import[i].pc = "values"
    /\ import' = [import EXCEPT ![i].pc = IF import[i].batch = 1 THEN "complete" ELSE "look",
                                ![i].values = stored["setting"] = "source"]
    /\ UNCHANGED <<stored, creator, historyRows, approved, testerActive, report,
                   resolution, resolver, hands, overlapped, contested>>

\* A batch fails: of a unique index, of its timeout, of the connection.  Its transaction is rolled
\* back, what was committed before stays, and the status says so if it can be written; when the
\* process stops or the completion fails it keeps saying RUNNING.
BreakOff(i) ==
    /\ Pending(i)
    /\ \E status \in IF import[i].pc = "complete" THEN {"RUNNING"} ELSE {"RUNNING", "FAILED"} :
          import' = [import EXCEPT ![i].pc = "over", ![i].status = status, ![i].looked = Blind]
    /\ UNCHANGED <<stored, creator, historyRows, approved, testerActive, report,
                   resolution, resolver, hands, overlapped, contested>>

CompleteImport(i) ==
    /\ import[i].pc = "complete"
    /\ import' = [import EXCEPT ![i].pc = "over", ![i].status = "COMPLETED"]
    /\ UNCHANGED <<stored, creator, historyRows, approved, testerActive, report,
                   resolution, resolver, hands, overlapped, contested>>

-------------------------------------------------------------------------------
\* Reconciliation

\* Mutant of Resolvable: a row that is resolved already is not refused.
ResolvableAgain(i, k) == report[i][k] = "RECONCILIATION_REQUIRED"

Resolvable(i, k) == report[i][k] = "RECONCILIATION_REQUIRED" /\ resolution[i][k] = "none"

\* resolveImportRow up to its transaction.
BeginResolve(q, i, k) ==
    /\ resolver[q] = <<>>
    /\ Resolvable(i, k)
    /\ resolver' = [resolver EXCEPT ![q] = <<i, k>>]
    /\ contested' = IF \E p \in Resolvers : resolver[p] = <<i, k>>
                    THEN contested \cup {<<i, k>>} ELSE contested
    /\ UNCHANGED <<stored, creator, historyRows, approved, testerActive, import, report,
                   resolution, hands, overlapped>>

\* Its transaction records the decision, by the row's id alone; nothing is applied to the record.
CommitResolve(q, decision) ==
    /\ resolver[q] # <<>>
    /\ resolution' = [resolution EXCEPT ![resolver[q][1]][resolver[q][2]] = decision]
    /\ resolver' = [resolver EXCEPT ![q] = <<>>]
    /\ UNCHANGED <<stored, creator, historyRows, approved, testerActive, import, report,
                   hands, overlapped, contested>>

AbandonResolve(q) ==
    /\ resolver[q] # <<>>
    /\ resolver' = [resolver EXCEPT ![q] = <<>>]
    /\ UNCHANGED <<stored, creator, historyRows, approved, testerActive, import, report,
                   resolution, hands, overlapped, contested>>

-------------------------------------------------------------------------------
\* Hands: the services of the other modules, as far as an import can tell

\* A kind of record whose parent can be another one than in the workbook.
Movable == {"module", "feature", "requirement", "case", "execution", "defect"}

WriteByHand(k, v) ==
    /\ hands < MaxHands /\ hands' = hands + 1
    /\ v # "none" /\ v # stored[k]
    /\ v = "elsewhere" => k \in Movable
    \* Only the case of a planned execution can be exchanged once the record is there.
    /\ stored[k] # "none" /\ k # "execution" => "elsewhere" \notin {v, stored[k]}
    /\ k = "steps" => stored["case"] # "none"
    /\ stored' = [stored EXCEPT ![k] = v]
    /\ creator' = IF stored[k] = "none" THEN [creator EXCEPT ![k] = "people"] ELSE creator
    /\ UNCHANGED <<historyRows, approved, testerActive, import, report, resolution,
                   resolver, overlapped, contested>>

\* approveTestCase and retireTestCase; setUserActive on the tester.
ChangeStanding ==
    /\ hands < MaxHands /\ hands' = hands + 1
    /\ \/ stored["case"] # "none" /\ approved' = ~approved /\ UNCHANGED testerActive
       \/ testerActive' = ~testerActive /\ UNCHANGED approved
    /\ UNCHANGED <<stored, creator, historyRows, import, report, resolution, resolver,
                   overlapped, contested>>

-------------------------------------------------------------------------------
ImportsInit ==
    /\ stored = [k \in Kinds |-> IF k \in Rows THEN "none" ELSE "source"]
    /\ creator = [k \in Kinds |-> IF k \in Rows THEN "nobody" ELSE "people"]
    /\ historyRows = {} /\ approved = ("case" \notin Rows) /\ testerActive = TRUE
    /\ import = [i \in Imports |-> [pc |-> "idle", batch |-> 1, looked |-> Blind,
                                    values |-> FALSE, staged |-> FALSE, status |-> "none"]]
    /\ report = [i \in Imports |-> [k \in Kinds |-> "none"]]
    /\ resolution = [i \in Imports |-> [k \in Kinds |-> "none"]]
    /\ resolver = [q \in Resolvers |-> <<>>]
    /\ hands = 0 /\ overlapped = {} /\ contested = {}

ImportStep(i) ==
    \/ StartImport(i) \/ LookUp(i) \/ WriteBatch(i) \/ RefuseDuplicate(i) \/ LoadValues(i)
    \/ BreakOff(i) \/ CompleteImport(i)

ByPeople ==
    \/ \E k \in ByHand, v \in Values : WriteByHand(k, v)
    \/ ChangeStanding

ImportsNext ==
    \/ \E i \in Imports : ImportStep(i)
    \/ \E q \in Resolvers, i \in Imports, k \in Reviewed : BeginResolve(q, i, k)
    \/ \E q \in Resolvers :
          \/ \E d \in {"KEEP_CURRENT", "ACCEPT_SOURCE"} : CommitResolve(q, d)
          \/ AbandonResolve(q)
    \/ ByPeople

ImportsSpec == ImportsInit /\ [][ImportsNext]_importVars

-------------------------------------------------------------------------------
\* Properties

\* "Re-import: no duplicate records", and the report is the record: after a failure, a crash or a
\* lost race as well, an import created exactly what its report says it created, and one that says
\* COMPLETED has accounted for every row.  Of all imports of a workbook at most one creates the
\* record of a row; the history row alone, which no index makes unique, can come twice, and only of
\* imports that were under way together.
ReportIsTheRecord ==
    /\ \A i, j \in historyRows : i = j \/ {i, j} \in overlapped
    /\ \A i \in Imports :
          /\ \A k \in Kinds \ {"history"} : (creator[k] = i) <=> (report[i][k] = "CREATED")
          /\ i \in historyRows <=> report[i]["history"] = "CREATED"
          /\ import[i].status = "COMPLETED" =>
                \A k \in Rows \ {"bugLink"} : report[i][k] # "none"

\* "Automatic overwrite is not permitted": no import changes a record that is there, however late
\* it appeared; a decision on a report row is final, unless two were being taken at once.
NothingOverwritten ==
    [][/\ \A k \in Kinds : stored[k] # "none" /\ stored'[k] # stored[k] => hands' = hands + 1
       /\ \A i \in Imports, k \in Kinds :
             resolution[i][k] # "none" /\ resolution'[i][k] # resolution[i][k]
                 => <<i, k>> \in contested]_importVars
====
