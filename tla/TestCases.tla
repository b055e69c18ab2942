---- MODULE TestCases ----
(* Test cases and their review (domain/test-cases.ts, the screen of one case   *)
(* and its server actions), with the catalogue of controlled values a case is  *)
(* filed under (domain/admin.ts).  Every request carries the version its       *)
(* screen was drawn with.  A screen is drawn from two queries, the row and     *)
(* then its steps, and the step editor on it keeps its rows when the screen is *)
(* drawn again.                                                                *)

EXTENDS Naturals, FiniteSets

CONSTANTS
    Cases,
    Engineers, Seniors, Leads,  \* people by role; a QA_TESTER has no part in this
    Tabs,                       \* browser tabs open on the screen of a case
    StepLists,                  \* step lists that differ, none of them empty
    NoSteps,
    MaxWrites                   \* bound: the version a row can reach

ASSUME TestCasesAssumption ==
    /\ MaxWrites \in Nat /\ NoSteps \notin StepLists
    /\ Cases # {} /\ Engineers \cup Seniors \cup Leads # {}

VARIABLES
    testCase,   \* testCase[c]: the TestCase row, its steps with it
    offered,    \* whether the priorities and severities in use are active ControlledValues
    tab,        \* tab[w]: the screen w and the request it has under way
    signedOff,  \* history: what was on the screen of whoever approved the case
    unseen,     \* history: cases whose steps were replaced by someone who had not seen them
    outlived    \* history: cases drawn again with other steps around a live step editor

caseVars == <<testCase, offered, tab, signedOff, unseen, outlived>>

Authors == Engineers \cup Seniors \cup Leads        \* RoleSets.canAuthor

Reviewers == Seniors \cup Leads                     \* RoleSets.canApprove

Content == [planned : BOOLEAN,      \* cycle, sprint, release and environment are not blank
            rated   : BOOLEAN,      \* priority and severity are not blank
            steps   : StepLists \cup {NoSteps}]

TestCase == [state    : {"NONE", "DRAFT", "IN_REVIEW", "APPROVED", "RETIRED"},
             version  : Nat,
             author   : Authors,
             content  : Content,
             revises  : Cases \cup {"nothing"},
             imported : BOOLEAN]    \* history: created by an import, Approved as it stands

Blank == [planned |-> FALSE, rated |-> FALSE, steps |-> NoSteps]

Tab == [pc      : {"closed", "redirected", "row", "open", "sent", "checked"},
        who     : Authors,
        case    : Cases,
        version : Nat,              \* the hidden field of every form
        state   : {"NONE", "DRAFT", "IN_REVIEW", "APPROVED", "RETIRED"},
        shown   : Content,          \* kept for a reviewer's screen only
        editor  : StepLists \cup {NoSteps, "unmounted"},   \* the list StepsEditor began with
        op      : {"update", "rate", "steps", "submit", "approve", "return", "retire"}]

AnyAuthor == CHOOSE p \in Authors : TRUE

ClosedTab == [pc |-> "closed", who |-> AnyAuthor, case |-> CHOOSE c \in Cases : TRUE,
              version |-> 0, state |-> "NONE", shown |-> Blank, editor |-> "unmounted",
              op |-> "update"]

TestCasesTypeOK ==
    /\ testCase \in [Cases -> TestCase]
    /\ offered \in BOOLEAN
    /\ tab \in [Tabs -> Tab]
    /\ signedOff \in [Cases -> Content]
    /\ unseen \subseteq Cases /\ outlived \subseteq Cases

-------------------------------------------------------------------------------
\* Rows that appear

\* createTestCase.  A revision refers to a case that is Approved, or was a moment ago: nothing
\* else it checks can change before it writes.
CreateTestCase(c, p, content, prior) ==
    /\ testCase[c].state = "NONE"
    /\ content.rated => offered
    /\ content.steps = NoSteps
    /\ prior # "nothing" => testCase[prior].state \in {"APPROVED", "RETIRED"}
    /\ testCase' = [testCase EXCEPT ![c] = [state |-> "DRAFT", version |-> 1, author |-> p,
                                            content |-> content, revises |-> prior,
                                            imported |-> FALSE]]
    /\ UNCHANGED <<offered, tab, signedOff, unseen, outlived>>

\* importTestCasesAndSteps: a row of the sheet has every field, and may have no steps.
ImportTestCase(c, p, steps) ==
    /\ testCase[c].state = "NONE" /\ offered /\ p \in Leads
    /\ testCase' = [testCase EXCEPT ![c] =
                       [state |-> "APPROVED", version |-> 1, author |-> p,
                        content |-> [planned |-> TRUE, rated |-> TRUE, steps |-> steps],
                        revises |-> "nothing", imported |-> TRUE]]
    /\ UNCHANGED <<offered, tab, signedOff, unseen, outlived>>

\* createControlledValue and updateControlledValue, as far as the values in use go.
ToggleControlledValue ==
    /\ offered' = ~offered
    /\ UNCHANGED <<testCase, tab, signedOff, unseen, outlived>>

-------------------------------------------------------------------------------
\* The screen

Shown(row) == IF row.state = "IN_REVIEW" THEN row.content ELSE Blank

\* The page's first query, of a screen that is opened or that a redirect draws again.
ReadCase(w, p, c) ==
    /\ \/ tab[w].pc = "closed"
       \/ tab[w].pc = "redirected" /\ <<p, c>> = <<tab[w].who, tab[w].case>>
    /\ testCase[c].state # "NONE"
    /\ tab' = [tab EXCEPT ![w] = [ClosedTab EXCEPT !.pc = "row", !.who = p, !.case = c,
                                                   !.version = testCase[c].version,
                                                   !.state = testCase[c].state,
                                                   !.shown = Shown(testCase[c]),
                                                   !.editor = tab[w].editor]]
    /\ UNCHANGED <<testCase, offered, signedOff, unseen, outlived>>

\* Its second: the steps as they are by now.  StepsEditor's useState starts from them when it is
\* mounted, and keeps what it holds when it already was.
DrawSteps(w) ==
    LET c == tab[w].case
        steps == testCase[c].content.steps
        kept == tab[w].editor # "unmounted" /\ tab[w].state = "DRAFT"
    IN  /\ tab[w].pc = "row"
        /\ tab' = [tab EXCEPT ![w].pc = "open",
                              ![w].shown.steps = IF tab[w].state = "IN_REVIEW" THEN steps
                                                 ELSE NoSteps,
                              ![w].editor = IF kept THEN tab[w].editor
                                            ELSE IF tab[w].state = "DRAFT" THEN steps
                                            ELSE "unmounted"]
        /\ outlived' = IF kept /\ steps # tab[w].editor THEN outlived \cup {c} ELSE outlived
        /\ UNCHANGED <<testCase, offered, signedOff, unseen>>

CloseCase(w) ==
    /\ tab[w].pc = "open"
    /\ tab' = [tab EXCEPT ![w] = ClosedTab]
    /\ UNCHANGED <<testCase, offered, signedOff, unseen, outlived>>

-------------------------------------------------------------------------------
\* The requests, up to their transactions.  Role, state and version are those of the row as it is
\* read; the page draws the form of a request for the states and people it is open to.

Read(w) == testCase[tab[w].case]

SendForm(w, op, pc) ==
    /\ tab[w].pc = "open"
    /\ tab[w].version = Read(w).version /\ tab[w].version < MaxWrites
    /\ tab' = [tab EXCEPT ![w].pc = pc, ![w].op = op]
    /\ UNCHANGED <<testCase, offered, signedOff, unseen, outlived>>

\* updateTestCaseDraft with no priority and severity, or blank ones, and with some.
PostDraft(w) ==
    /\ Read(w).state = "DRAFT"
    /\ SendForm(w, "update", "checked") \/ SendForm(w, "rate", "sent")

PostSteps(w) == Read(w).state = "DRAFT" /\ SendForm(w, "steps", "checked")

\* submitTestCase's first query, and what it asks of the row.
PostSubmit(w) ==
    /\ Read(w).state = "DRAFT"
    /\ tab[w].who \in Engineers => Read(w).author = tab[w].who
    /\ Read(w).content.planned /\ Read(w).content.rated
    /\ SendForm(w, "submit", "sent")

PostApproval(w) ==
    /\ Read(w).state = "IN_REVIEW" /\ tab[w].who \in Reviewers
    /\ tab[w].who \in Seniors => Read(w).author # tab[w].who
    /\ SendForm(w, "approve", "checked")

PostReturn(w) ==
    Read(w).state = "IN_REVIEW" /\ tab[w].who \in Reviewers /\ SendForm(w, "return", "checked")

PostRetirement(w) ==
    Read(w).state = "APPROVED" /\ tab[w].who \in Reviewers /\ SendForm(w, "retire", "checked")

\* ensureActiveControlledValue, for the priority and the severity.
CheckValues(w) ==
    /\ tab[w].pc = "sent" /\ tab[w].op = "rate" /\ offered
    /\ tab' = [tab EXCEPT ![w].pc = "checked"]
    /\ UNCHANGED <<testCase, offered, signedOff, unseen, outlived>>

\* Mutant of CheckSubmit: the steps are not looked at.
CheckSubmitWithoutSteps(w) ==
    /\ tab[w].pc = "sent" /\ tab[w].op = "submit" /\ offered
    /\ tab' = [tab EXCEPT ![w].pc = "checked"]
    /\ UNCHANGED <<testCase, offered, signedOff, unseen, outlived>>

\* submitTestCase's other queries: the steps, and the controlled values.
CheckSubmit(w) ==
    /\ tab[w].pc = "sent" /\ tab[w].op = "submit"
    /\ Read(w).content.steps # NoSteps /\ offered
    /\ tab' = [tab EXCEPT ![w].pc = "checked"]
    /\ UNCHANGED <<testCase, offered, signedOff, unseen, outlived>>

-------------------------------------------------------------------------------
\* The writes: each one update where {id, version}, and a redirect to the case's own screen

\* Mutant of CaseUnchanged: the version is compared before the transaction only.
CaseUnchangedAnyway(w) == TRUE

CaseUnchanged(w) == Read(w).version = tab[w].version

Rewrite(w, ops, row) ==
    /\ tab[w].pc = "checked" /\ tab[w].op \in ops
    /\ CaseUnchanged(w)
    /\ testCase' = [testCase EXCEPT ![tab[w].case] = [row EXCEPT !.version = row.version + 1]]
    /\ UNCHANGED offered

Redirect(w, editor) ==
    tab' = [tab EXCEPT ![w] = [ClosedTab EXCEPT !.pc = "redirected", !.who = tab[w].who,
                                                !.case = tab[w].case, !.editor = editor]]

\* updateTestCaseDraft: a planning field can be filled and never emptied, a rating can be both.
CommitDraft(w, planned, rated) ==
    LET row == Read(w)
    IN  /\ row.content.planned => planned
        /\ IF tab[w].op = "rate" THEN rated ELSE rated => row.content.rated
        /\ Rewrite(w, {"update", "rate"}, [row EXCEPT !.content.planned = planned,
                                                      !.content.rated = rated])
        /\ Redirect(w, tab[w].editor)
        /\ UNCHANGED <<signedOff, unseen, outlived>>

\* replaceSteps: all of them, by whatever the editor holds now; it began with `editor`.
CommitSteps(w, steps) ==
    LET c == tab[w].case
        row == Read(w)
    IN  /\ Rewrite(w, {"steps"}, [row EXCEPT !.content.steps = steps])
        /\ Redirect(w, IF tab[w].editor = "unmounted" THEN "unmounted" ELSE steps)
        /\ unseen' = IF row.content.steps # tab[w].editor THEN unseen \cup {c} ELSE unseen
        /\ UNCHANGED <<signedOff, outlived>>

Move(w, op, state) ==
    /\ Rewrite(w, {op}, [Read(w) EXCEPT !.state = state])
    /\ Redirect(w, "unmounted")
    /\ UNCHANGED <<unseen, outlived>>

SubmitTestCase(w) == Move(w, "submit", "IN_REVIEW") /\ UNCHANGED signedOff

ApproveTestCase(w) ==
    /\ Move(w, "approve", "APPROVED")
    /\ signedOff' = [signedOff EXCEPT ![tab[w].case] = tab[w].shown]

ReturnTestCaseToDraft(w) == Move(w, "return", "DRAFT") /\ UNCHANGED signedOff

RetireTestCase(w) == Move(w, "retire", "RETIRED") /\ UNCHANGED signedOff

\* 409, 422, or a broken connection: the notice is drawn, the screen and its version stay.
RefuseRequest(w) ==
    /\ tab[w].pc \in {"sent", "checked"}
    /\ tab' = [tab EXCEPT ![w].pc = "open", ![w].op = "update"]
    /\ UNCHANGED <<testCase, offered, signedOff, unseen, outlived>>

-------------------------------------------------------------------------------
TestCasesInit ==
    /\ testCase = [c \in Cases |-> [state |-> "NONE", version |-> 0, author |-> AnyAuthor,
                                    content |-> Blank, revises |-> "nothing",
                                    imported |-> FALSE]]
    /\ offered = TRUE
    /\ tab = [w \in Tabs |-> ClosedTab]
    /\ signedOff = [c \in Cases |-> Blank]
    /\ unseen = {} /\ outlived = {}

TestCasesNext ==
    \/ \E c \in Cases, p \in Authors :
          \/ \E content \in Content, prior \in Cases \cup {"nothing"} :
                CreateTestCase(c, p, content, prior)
          \/ \E steps \in StepLists \cup {NoSteps} : ImportTestCase(c, p, steps)
          \/ \E w \in Tabs : ReadCase(w, p, c)
    \/ ToggleControlledValue
    \/ \E w \in Tabs :
          \/ DrawSteps(w) \/ CloseCase(w) \/ RefuseRequest(w)
          \/ PostDraft(w) \/ PostSteps(w) \/ PostSubmit(w) \/ PostApproval(w) \/ PostReturn(w)
          \/ PostRetirement(w) \/ CheckValues(w) \/ CheckSubmit(w)
          \/ SubmitTestCase(w) \/ ApproveTestCase(w) \/ ReturnTestCaseToDraft(w)
          \/ RetireTestCase(w)
          \/ \E planned, rated \in BOOLEAN : CommitDraft(w, planned, rated)
          \/ \E steps \in StepLists \cup {NoSteps} : CommitSteps(w, steps)

TestCasesSpec == TestCasesInit /\ [][TestCasesNext]_caseVars

-------------------------------------------------------------------------------
\* Properties

\* Nothing is reviewed, approved or retired that has no steps, plan or rating, whatever was
\* edited while it was being submitted; only an import puts an incomplete case among the Approved.
ReviewedIsComplete ==
    \A c \in Cases :
        testCase[c].state \in {"IN_REVIEW", "APPROVED", "RETIRED"} /\ ~testCase[c].imported =>
            /\ testCase[c].content.planned /\ testCase[c].content.rated
            /\ testCase[c].content.steps # NoSteps

\* "Approved content is immutable": it is, for good, what the approver's screen showed, although
\* the screen was drawn from two queries.
ApprovedAsShown ==
    \A c \in Cases :
        testCase[c].state \in {"APPROVED", "RETIRED"} /\ ~testCase[c].imported =>
            testCase[c].content = signedOff[c]

\* Nobody's step list is replaced by somebody who was never shown it, except through an editor
\* that was drawn again around its old rows.
NoStepsLostUnseen == unseen \subseteq outlived
====
