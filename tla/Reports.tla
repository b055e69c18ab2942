---- MODULE Reports ----
(* What QAMS counts and lists (domain/traceability.ts, lib/pagination.ts,      *)
(* ui/pager.tsx) while people go on working.  A figure of the dashboard or of  *)
(* a release readiness report is counted by two queries, and a list is read    *)
(* page by page, each page by a query for its rows and one for their number;   *)
(* no two of these queries see the same state of the database.                 *)

EXTENDS Naturals, FiniteSets

CONSTANTS
    CaseRows, RunRows, BugRows, \* test cases, executions and defects that may come to exist
    ReqRows,                    \* requirements: numbers, in the order of their business IDs
    CaseOf,                     \* the test case an execution or a defect is about
    ReqOf,                      \* the requirement of a test case
    Linkers,                    \* requests to link that can be in flight at once
    NoBug,
    PageRows,                   \* rows on a page
    MaxEdits                    \* bound: writes

ASSUME ReportsAssumption ==
    /\ ReqRows \subseteq Nat /\ IsFiniteSet(ReqRows) /\ PageRows \in Nat \ {0} /\ MaxEdits \in Nat
    /\ CaseOf \in [RunRows \cup BugRows -> CaseRows] /\ ReqOf \in [CaseRows -> ReqRows]
    /\ NoBug \notin BugRows

VARIABLES
    standing,   \* standing[x]: the state of record x, "none" before it exists
    links,      \* RequirementTraceLink rows
    linking,    \* linking[p]: the link that request p is about to insert
    figure,     \* a report under way
    walk,       \* a reader who goes from page to page
    edits

reportVars == <<standing, links, linking, figure, walk, edits>>

Records == CaseRows \cup RunRows \cup BugRows \cup ReqRows

Link == [req : ReqRows, case : CaseRows, bug : BugRows \cup {NoBug}, createdAt : Nat]

NoLink == [req |-> 0, case |-> "none", bug |-> NoBug]

Lists == {"rtmLinks", "requirementsWithoutTraceLinks"}

Dashboard == {"testCasesByLifecycleState", "executionsByState", "defectsByStatus",
              "requirementTraceLinkage", "executionFinalizedByResult", "openDefectsBySeverity"}

Readiness == {"scopedExecutionFinalizedByResult", "scopedOpenDefectsBySeverity"}

Queries == {"scope", "rows", "total"}

ReportsTypeOK ==
    /\ standing \in [Records -> {"none", "DRAFT", "IN_REVIEW", "APPROVED", "RETIRED", "PLANNED",
                                 "IN_PROGRESS", "FINALIZED", "OPEN", "CLOSED", "PRESENT"}]
    /\ links \subseteq Link
    /\ DOMAIN linking = Linkers
    /\ figure \in [of       : Dashboard \cup Readiness \cup {"nothing"},
                   answered : SUBSET Queries,
                   counted  : [Queries -> SUBSET Records],
                   touched  : SUBSET Records]
    /\ walk.of \in Lists \cup {"nothing"} /\ walk.answered \subseteq {"rows", "total"}
    /\ walk.page \in Nat /\ walk.total \in Nat
    /\ {walk.left, walk.torn, walk.over} \subseteq BOOLEAN
    /\ edits \in Nat

NoFigure == [of |-> "nothing", answered |-> {}, counted |-> [q \in Queries |-> {}], touched |-> {}]

NoWalk == [of |-> "nothing", answered |-> {}, page |-> 1, rows |-> {}, total |-> 0,
           shown |-> {}, lasting |-> {}, left |-> FALSE, torn |-> FALSE, over |-> FALSE]

-------------------------------------------------------------------------------
\* What a query sees

Linked(q) == \E l \in links : l.req = q

\* The rows of a list, all pages of it, where the records stand as in st and the links are L.
ListedIn(list, st, L) ==
    CASE list = "rtmLinks" -> L
      [] list = "requirementsWithoutTraceLinks" ->
            {q \in ReqRows : st[q] # "none" /\ \A l \in L : l.req # q}
      [] list = "nothing"  -> {}

Listed(list) == ListedIn(list, standing, links)

\* orderBy: the newest link first, and links of one instant in any order; the business ID.
ListedBefore(list, x, y) == IF list = "rtmLinks" THEN x.createdAt > y.createdAt ELSE x < y

LessOf(a, b) == IF a < b THEN a ELSE b

\* skip and take of pageArgs: what page n of a list may hold.
Pages(list, n) ==
    LET all == Listed(list)
        skip == LessOf((n - 1) * PageRows, Cardinality(all))
        take == LessOf(PageRows, Cardinality(all) - skip)
        Sorted(A, B) == \A x \in A, y \in B : ~ListedBefore(list, y, x)
    IN  {page \in SUBSET all :
            /\ Cardinality(page) = take
            /\ \E before \in SUBSET (all \ page) :
                  /\ Cardinality(before) = skip
                  /\ Sorted(before, all \ before)
                  /\ Sorted(page, (all \ before) \ page)}

\* The records a figure is about: the filter that both of its queries repeat.
Filtered(f) ==
    CASE f = "testCasesByLifecycleState"  -> {c \in CaseRows : standing[c] \notin {"none", "RETIRED"}}
      [] f = "executionsByState"          -> {e \in RunRows : standing[e] # "none"}
      [] f = "defectsByStatus"            -> {b \in BugRows : standing[b] # "none"}
      [] f = "requirementTraceLinkage"    -> {q \in ReqRows : standing[q] # "none"}
      [] f \in {"executionFinalizedByResult", "scopedExecutionFinalizedByResult"} ->
            {e \in RunRows : standing[e] = "FINALIZED"}
      [] f \in {"openDefectsBySeverity", "scopedOpenDefectsBySeverity"} ->
            {b \in BugRows : standing[b] \notin {"none", "CLOSED"}}

\* Mutant of Numerator: closed defects are grouped by severity too.
NumeratorAll(f) ==
    IF f = "openDefectsBySeverity" THEN {b \in BugRows : standing[b] # "none"}
    ELSE IF f = "requirementTraceLinkage" THEN {q \in Filtered(f) : Linked(q)} ELSE Filtered(f)

\* What the groupBy behind a figure counts, all its rows together.  The requirements have two
\* counts, of the linked and of the others, and no total of their own.
Numerator(f) ==
    IF f = "requirementTraceLinkage" THEN {q \in Filtered(f) : Linked(q)} ELSE Filtered(f)

Denominator(f) ==
    IF f = "requirementTraceLinkage" THEN {q \in Filtered(f) : ~Linked(q)} ELSE Filtered(f)

-------------------------------------------------------------------------------
\* A report

\* dashboardSnapshot or releaseReadinessSnapshot is called.
OpenReport(f) ==
    /\ figure.of = "nothing" /\ walk.of = "nothing"
    /\ figure' = [NoFigure EXCEPT !.of = f]
    /\ UNCHANGED <<standing, links, linking, walk, edits>>

\* A query of it.  The scope of a readiness report is read before anything is counted; the number
\* of test cases is one of the dashboard's first batch of queries, their states of its second.
Count(q) ==
    /\ figure.of # "nothing" /\ q \notin figure.answered
    /\ CASE q = "scope" -> figure.of \in Readiness
         [] q = "rows"  -> /\ figure.of \in Readiness => "scope" \in figure.answered
                           /\ figure.of = "testCasesByLifecycleState" =>
                                 "total" \in figure.answered
         [] q = "total" -> figure.of \in Readiness => "scope" \in figure.answered
    /\ figure' = [figure EXCEPT
          !.answered = figure.answered \cup {q},
          !.counted[q] =
              IF q = "scope" THEN {c \in CaseRows : standing[c] = "APPROVED"}
              ELSE LET all == IF q = "rows" THEN Numerator(figure.of) ELSE Denominator(figure.of)
                   IN  IF figure.of \in Readiness
                       THEN {x \in all : CaseOf[x] \in figure.counted["scope"]} ELSE all]
    /\ UNCHANGED <<standing, links, linking, walk, edits>>

CloseReport ==
    /\ {"rows", "total"} \subseteq figure.answered
    /\ figure' = NoFigure
    /\ UNCHANGED <<standing, links, linking, walk, edits>>

-------------------------------------------------------------------------------
\* A list, page by page

OpenList(list) ==
    /\ figure.of = "nothing" /\ walk.of = "nothing"
    /\ walk' = [NoWalk EXCEPT !.of = list, !.lasting = Listed(list)]
    /\ UNCHANGED <<standing, links, linking, figure, edits>>

\* The two queries of runPaged, in either order.
ReadPage ==
    /\ walk.of # "nothing" /\ ~walk.over /\ "rows" \notin walk.answered
    /\ \E page \in Pages(walk.of, walk.page) :
          walk' = [walk EXCEPT !.rows = page, !.answered = walk.answered \cup {"rows"}]
    /\ UNCHANGED <<standing, links, linking, figure, edits>>

ReadTotal ==
    /\ walk.of # "nothing" /\ ~walk.over /\ "total" \notin walk.answered
    /\ walk' = [walk EXCEPT !.total = Cardinality(Listed(walk.of)),
                            !.answered = walk.answered \cup {"total"}]
    /\ UNCHANGED <<standing, links, linking, figure, edits>>

\* Mutant of LastPage: there is no link to the very last page.
LastPageEarly(total) == total <= PageRows \/ (walk.page + 1) * PageRows >= total

\* Pager: there is no next page.
LastPage(total) == total <= PageRows \/ walk.page * PageRows >= total

\* The page is drawn, and the reader follows the link to the next one.
TurnPage ==
    /\ walk.of # "nothing" /\ ~walk.over /\ walk.answered = {"rows", "total"}
    /\ walk' = [walk EXCEPT !.shown = walk.shown \cup walk.rows, !.answered = {}, !.rows = {},
                            !.total = 0, !.over = LastPage(walk.total),
                            !.page = IF LastPage(walk.total) THEN walk.page ELSE walk.page + 1]
    /\ UNCHANGED <<standing, links, linking, figure, edits>>

CloseList ==
    /\ walk.over
    /\ walk' = NoWalk
    /\ UNCHANGED <<standing, links, linking, figure, edits>>

-------------------------------------------------------------------------------
\* Meanwhile

\* What a write to the records X means to whoever counts or reads.
Meanwhile(X) ==
    LET now == ListedIn(walk.of, standing', links')
    IN  /\ edits < MaxEdits /\ edits' = edits + 1
        /\ figure' = IF figure.of = "nothing" THEN figure
                     ELSE [figure EXCEPT !.touched = figure.touched \cup X]
        /\ walk' = IF walk.of = "nothing" \/ walk.over THEN walk
                   ELSE [walk EXCEPT !.lasting = walk.lasting \cap now,
                                     !.left = walk.left \/ ~(Listed(walk.of) \subseteq now),
                                     !.torn = walk.torn \/ (/\ walk.answered # {}
                                                            /\ now # Listed(walk.of))]

\* The states a record can be written to: by the services of the other modules, or by an import.
Moves(x) ==
    LET at == standing[x]
    IN  CASE x \in CaseRows -> (CASE at = "none"      -> {"DRAFT", "APPROVED"}
                                 [] at = "DRAFT"     -> {"IN_REVIEW"}
                                 [] at = "IN_REVIEW" -> {"DRAFT", "APPROVED"}
                                 [] at = "APPROVED"  -> {"RETIRED"}
                                 [] OTHER            -> {})
          [] x \in RunRows  -> (CASE at = "none"        -> {"PLANNED", "FINALIZED"}
                                 [] at = "PLANNED"     -> {"IN_PROGRESS"}
                                 [] at = "IN_PROGRESS" -> {"FINALIZED"}
                                 [] OTHER              -> {})
          [] x \in BugRows  -> (CASE at = "none"   -> {"OPEN", "CLOSED"}
                                 [] at = "OPEN" -> {"CLOSED"}
                                 [] OTHER       -> {})
          [] OTHER          -> IF at = "none" THEN {"PRESENT"} ELSE {}

WriteRecord(x) ==
    /\ \E s \in Moves(x) : standing' = [standing EXCEPT ![x] = s]
    /\ x \in CaseRows => standing[ReqOf[x]] # "none"
    /\ x \in RunRows \cup BugRows => standing[CaseOf[x]] # "none"
    /\ UNCHANGED <<links, linking>>
    /\ Meanwhile({x})

Key(l) == [req |-> l.req, case |-> l.case, bug |-> l.bug]

\* createRtmLink up to its transaction: the records fit, and no such link is there.
BeginLink(p, l) ==
    /\ linking[p] = NoLink
    /\ standing[l.req] # "none" /\ standing[l.case] # "none" /\ ReqOf[l.case] = l.req
    /\ l.bug # NoBug => standing[l.bug] # "none" /\ CaseOf[l.bug] = l.case
    /\ \A other \in links : Key(other) # l
    /\ linking' = [linking EXCEPT ![p] = l]
    /\ UNCHANGED <<standing, links, figure, walk, edits>>

\* The unique index of migration 20260731110000, NULLS NOT DISTINCT.
Unlinked(l) == \A other \in links : Key(other) # l

\* Its transaction.  Links of one transaction, and of one instant, have the same createdAt.
CommitLink(p) ==
    LET l == linking[p]
        times == {other.createdAt : other \in links}
        latest == CHOOSE t \in times \cup {0} : \A s \in times : t >= s
    IN  /\ l # NoLink /\ Unlinked(l)
        /\ \E t \in {latest, latest + 1} :
              links' = links \cup {[req |-> l.req, case |-> l.case, bug |-> l.bug, createdAt |-> t]}
        /\ linking' = [linking EXCEPT ![p] = NoLink]
        /\ UNCHANGED standing
        /\ Meanwhile({l.req})

\* 409 ID_DUPLICATE, or the connection breaks.
RefuseLink(p) ==
    /\ linking[p] # NoLink
    /\ linking' = [linking EXCEPT ![p] = NoLink]
    /\ UNCHANGED <<standing, links, figure, walk, edits>>

-------------------------------------------------------------------------------
ReportsInit ==
    /\ standing = [x \in Records |-> IF x \in ReqRows THEN "PRESENT"
                                     ELSE IF x \in CaseRows THEN "APPROVED" ELSE "none"]
    /\ links = {}
    /\ linking = [p \in Linkers |-> NoLink]
    /\ figure = NoFigure /\ walk = NoWalk /\ edits = 0

ReportsNext ==
    \/ \E f \in Dashboard \cup Readiness : OpenReport(f)
    \/ \E q \in Queries : Count(q)
    \/ CloseReport
    \/ \E list \in Lists : OpenList(list)
    \/ ReadPage \/ ReadTotal \/ TurnPage \/ CloseList
    \/ \E x \in Records : WriteRecord(x)
    \/ \E p \in Linkers :
          \/ \E q \in ReqRows, c \in CaseRows, b \in BugRows \cup {NoBug} :
                BeginLink(p, [req |-> q, case |-> c, bug |-> b])
          \/ CommitLink(p) \/ RefuseLink(p)

ReportsSpec == ReportsInit /\ [][ReportsNext]_reportVars

-------------------------------------------------------------------------------
\* Properties

\* "Numerator, denominator, and as-of time": whatever is written while a report counts, its rows
\* add up to its denominator, and each requirement is counted once, but for the records written
\* in the meantime.
FiguresAddUp ==
    LET rows == figure.counted["rows"]
        total == figure.counted["total"]
        touched == figure.touched
    IN  {"rows", "total"} \subseteq figure.answered =>
            IF figure.of = "requirementTraceLinkage"
            THEN /\ rows \cap total \subseteq touched
                 /\ {q \in ReqRows : standing[q] # "none"} \ (rows \cup total) \subseteq touched
            ELSE (rows \ total) \cup (total \ rows) \subseteq touched

\* A reader who turns page after page until there is no next one has seen whatever was on the list
\* all the time, unless something left the list (what follows moves to the page before), or it
\* changed between the two queries of a page, or two rows have no order.
PagesMissNothing ==
    walk.over =>
        \/ walk.lasting \subseteq walk.shown
        \/ walk.left \/ walk.torn
        \/ /\ walk.of = "rtmLinks"
           /\ \E l, k \in links : l # k /\ l.createdAt = k.createdAt

\* No requirement, test case and defect, or lack of one, are linked twice.
LinkedOnce == \A l, k \in links : Key(l) = Key(k) => l = k
====
