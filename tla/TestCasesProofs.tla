---- MODULE TestCasesProofs ----
(* Proofs about TestCases, for any number of cases, people, tabs and step      *)
(* lists, and any number of writes.                                            *)
EXTENDS TestCases, TLAPS

DrawnPhases == {"row", "open", "sent", "checked"}

\* The states a request's check lets through.
OpenTo(op) == CASE op \in {"update", "rate", "steps", "submit"} -> "DRAFT"
                [] op \in {"approve", "return"}                -> "IN_REVIEW"
                [] op = "retire"                               -> "APPROVED"

\* What a tab holds of a row that nobody has written since it was drawn is what the row is; what
\* a request has checked of it still holds.
TabIsCurrent(w) ==
    /\ tab[w].state = Read(w).state
    /\ tab[w].shown = Shown(Read(w))
    /\ tab[w].pc \in {"sent", "checked"} =>
          /\ Read(w).state = OpenTo(tab[w].op)
          /\ tab[w].op = "submit" =>
                /\ Read(w).content.planned /\ Read(w).content.rated
                /\ tab[w].pc = "checked" => Read(w).content.steps # NoSteps
    /\ tab[w].pc # "row" /\ tab[w].state = "DRAFT" =>
          tab[w].editor = Read(w).content.steps \/ tab[w].case \in outlived

\* No tab is ahead of its row.
TabSound(w) ==
    /\ tab[w].pc # "closed" => Read(w).state # "NONE" /\ tab[w].version <= Read(w).version
    /\ tab[w].pc \in DrawnPhases /\ CaseUnchanged(w) => TabIsCurrent(w)

TestCasesInv ==
    /\ TestCasesTypeOK
    /\ \A w \in Tabs : TabSound(w)
    /\ ReviewedIsComplete
    /\ ApprovedAsShown
    /\ NoStepsLostUnseen

-------------------------------------------------------------------------------
\* Types

LEMMA PlainTypes ==
    /\ AnyAuthor \in Authors
    /\ Blank \in Content
    /\ ClosedTab \in Tab
    /\ ClosedTab.pc = "closed" /\ ClosedTab.version = 0
<1>1. AnyAuthor \in Authors
  BY TestCasesAssumption DEF AnyAuthor, Authors
<1>2. Blank \in Content
  BY DEF Blank, Content
<1>3. (CHOOSE c \in Cases : TRUE) \in Cases
  BY TestCasesAssumption
<1> QED
  BY <1>1, <1>2, <1>3 DEF ClosedTab, Tab

LEMMA ReadIsTyped ==
    ASSUME TestCasesTypeOK, NEW w \in Tabs
    PROVE  /\ tab[w] \in Tab /\ tab[w].case \in Cases /\ tab[w].version \in Nat
           /\ Read(w) \in TestCase /\ Read(w).version \in Nat
           /\ Read(w).content \in Content
  BY DEF TestCasesTypeOK, Tab, TestCase, Read

LEMMA ShownIsContent ==
    ASSUME NEW row \in TestCase PROVE Shown(row) \in Content
  BY PlainTypes DEF Shown, TestCase

-------------------------------------------------------------------------------
\* What a step leaves alone

\* A step that changes one tab, and no row.
LEMMA TabStep ==
    ASSUME TestCasesInv, NEW w \in Tabs,
           tab' \in [Tabs -> Tab], \A v \in Tabs \ {w} : tab'[v] = tab[v],
           UNCHANGED <<testCase, offered, signedOff, unseen>>,
           outlived \subseteq outlived', outlived' \subseteq Cases,
           TabSound(w)'
    PROVE  TestCasesInv'
<1>1. TestCasesTypeOK'
  BY DEF TestCasesInv, TestCasesTypeOK
<1>2. \A v \in Tabs \ {w} : TabSound(v)'
  BY DEF TestCasesInv, TabSound, TabIsCurrent, CaseUnchanged, Read
<1> QED
  BY <1>1, <1>2 DEF TestCasesInv, ReviewedIsComplete, ApprovedAsShown, NoStepsLostUnseen

\* A row that was not there, which no tab is open on.
LEMMA NewRow ==
    ASSUME TestCasesInv, NEW c \in Cases, NEW row \in TestCase, testCase[c].state = "NONE",
           testCase' = [testCase EXCEPT ![c] = row],
           row.state \notin {"DRAFT", "NONE"} => row.imported,
           row.state = "DRAFT" \/ row.imported,
           UNCHANGED <<offered, tab, signedOff, unseen, outlived>>
    PROVE  TestCasesInv'
<1>1. testCase' \in [Cases -> TestCase] /\ \A d \in Cases \ {c} : testCase'[d] = testCase[d]
  BY DEF TestCasesInv, TestCasesTypeOK
<1>2. testCase'[c] = row
  BY DEF TestCasesInv, TestCasesTypeOK
<1>3. TestCasesTypeOK'
  BY <1>1 DEF TestCasesInv, TestCasesTypeOK
<1>4. \A w \in Tabs : tab[w].pc # "closed" => tab[w].case # c
  BY DEF TestCasesInv, TabSound, Read
<1>5. ASSUME NEW w \in Tabs PROVE TabSound(w)'
  <2>1. CASE tab[w].pc = "closed"
    BY <2>1 DEF TabSound, DrawnPhases
  <2>2. CASE tab[w].pc # "closed"
    <3>1. tab[w].case \in Cases /\ tab[w].case # c
      BY <1>4, <2>2 DEF TestCasesInv, TestCasesTypeOK, Tab
    <3>2. Read(w)' = Read(w)
      BY <1>1, <3>1 DEF Read
    <3> QED
      BY <3>2 DEF TestCasesInv, TabSound, TabIsCurrent, CaseUnchanged
  <2> QED
    BY <2>1, <2>2
<1>6. ReviewedIsComplete'
  BY <1>1, <1>2 DEF TestCasesInv, ReviewedIsComplete
<1>7. ApprovedAsShown'
  BY <1>1, <1>2 DEF TestCasesInv, ApprovedAsShown
<1> QED
  BY <1>3, <1>5, <1>6, <1>7 DEF TestCasesInv, NoStepsLostUnseen

\* The write of a request: its row moves on, every other tab on that row falls behind.
LEMMA RowStep ==
    ASSUME TestCasesInv, NEW w \in Tabs, tab[w].pc = "checked", CaseUnchanged(w),
           NEW row \in TestCase, row.version = Read(w).version + 1, row.state # "NONE",
           testCase' = [testCase EXCEPT ![tab[w].case] = row],
           NEW e \in StepLists \cup {NoSteps, "unmounted"}, Redirect(w, e),
           UNCHANGED <<offered, outlived>>
    PROVE  /\ testCase' \in [Cases -> TestCase] /\ tab' \in [Tabs -> Tab]
           /\ testCase'[tab[w].case] = row
           /\ \A d \in Cases \ {tab[w].case} : testCase'[d] = testCase[d]
           /\ \A v \in Tabs : TabSound(v)'
<1> DEFINE c == tab[w].case
           new == [ClosedTab EXCEPT !.pc = "redirected", !.who = tab[w].who,
                                    !.case = tab[w].case, !.editor = e]
<1>1. TestCasesTypeOK /\ c \in Cases /\ tab[w].who \in Authors /\ Read(w).version \in Nat
  BY DEF TestCasesInv, TestCasesTypeOK, Tab, Read, TestCase
<1>2. new \in Tab /\ new.pc = "redirected" /\ new.case = c /\ new.version = 0
  BY <1>1, PlainTypes DEF Tab
<1>3. tab' = [tab EXCEPT ![w] = new]
  BY DEF Redirect
<1> HIDE DEF new
<1>4. tab' \in [Tabs -> Tab] /\ tab'[w] = new /\ \A v \in Tabs \ {w} : tab'[v] = tab[v]
  BY <1>1, <1>2, <1>3 DEF TestCasesTypeOK
<1>5. /\ testCase' \in [Cases -> TestCase] /\ testCase'[c] = row
      /\ \A d \in Cases \ {c} : testCase'[d] = testCase[d]
  BY <1>1 DEF TestCasesTypeOK
<1>6. Read(w) = testCase[c] /\ row.version \in Nat
  BY <1>1 DEF Read
<1>7. TabSound(w)'
  <2>1. Read(w)' = row /\ tab'[w].pc = "redirected" /\ tab'[w].version = 0
    BY <1>2, <1>4, <1>5 DEF Read
  <2> QED
    BY <1>6, <2>1 DEF TabSound, DrawnPhases
<1>8. ASSUME NEW v \in Tabs \ {w} PROVE TabSound(v)'
  <2>1. tab'[v] = tab[v] /\ TabSound(v) /\ tab[v].case \in Cases /\ tab[v].version \in Nat
    BY <1>1, <1>4 DEF TestCasesInv, TestCasesTypeOK, Tab
  <2>2. CASE tab[v].pc = "closed"
    BY <2>1, <2>2 DEF TabSound, DrawnPhases
  <2>3. CASE tab[v].pc # "closed" /\ tab[v].case # c
    <3>1. Read(v)' = Read(v)
      BY <1>5, <2>1, <2>3 DEF Read
    <3> QED
      BY <2>1, <3>1 DEF TabSound, TabIsCurrent, CaseUnchanged
  <2>4. CASE tab[v].pc # "closed" /\ tab[v].case = c
    <3>1. Read(v)' = row /\ Read(v) = testCase[c]
      BY <1>5, <2>1, <2>4 DEF Read
    <3>2. tab[v].version < row.version
      BY <1>1, <1>6, <2>1, <2>4, <3>1 DEF TabSound
    <3> QED
      BY <1>6, <2>1, <3>1, <3>2 DEF TabSound, CaseUnchanged
  <2> QED
    BY <2>2, <2>3, <2>4
<1> QED
  BY <1>4, <1>5, <1>7, <1>8

-------------------------------------------------------------------------------
\* The steps

LEMMA TestCasesInvInit == TestCasesInit => TestCasesInv
<1> SUFFICES ASSUME TestCasesInit PROVE TestCasesInv
  OBVIOUS
<1> USE DEF TestCasesInit
<1>1. TestCasesTypeOK
  BY PlainTypes DEF TestCasesTypeOK, TestCase
<1>2. \A w \in Tabs : TabSound(w)
  BY PlainTypes DEF TabSound, DrawnPhases
<1> QED
  BY <1>1, <1>2 DEF TestCasesInv, ReviewedIsComplete, ApprovedAsShown, NoStepsLostUnseen

LEMMA InvRows ==
    ASSUME TestCasesInv, NEW c \in Cases, NEW p \in Authors,
           \/ \E content \in Content, prior \in Cases \cup {"nothing"} :
                 CreateTestCase(c, p, content, prior)
           \/ \E steps \in StepLists \cup {NoSteps} : ImportTestCase(c, p, steps)
    PROVE  TestCasesInv'
<1>1. ASSUME NEW content \in Content, NEW prior \in Cases \cup {"nothing"},
             CreateTestCase(c, p, content, prior)
      PROVE  TestCasesInv'
  <2> DEFINE row == [state |-> "DRAFT", version |-> 1, author |-> p, content |-> content,
                     revises |-> prior, imported |-> FALSE]
  <2>1. row \in TestCase /\ row.state = "DRAFT"
    BY DEF TestCase
  <2>2. /\ testCase[c].state = "NONE" /\ testCase' = [testCase EXCEPT ![c] = row]
        /\ UNCHANGED <<offered, tab, signedOff, unseen, outlived>>
    BY <1>1 DEF CreateTestCase
  <2> HIDE DEF row
  <2> QED
    BY <2>1, <2>2, NewRow
<1>2. ASSUME NEW steps \in StepLists \cup {NoSteps}, ImportTestCase(c, p, steps)
      PROVE  TestCasesInv'
  <2> DEFINE row == [state |-> "APPROVED", version |-> 1, author |-> p,
                     content |-> [planned |-> TRUE, rated |-> TRUE, steps |-> steps],
                     revises |-> "nothing", imported |-> TRUE]
  <2>1. row \in TestCase /\ row.imported
    BY DEF TestCase, Content
  <2>2. /\ testCase[c].state = "NONE" /\ testCase' = [testCase EXCEPT ![c] = row]
        /\ UNCHANGED <<offered, tab, signedOff, unseen, outlived>>
    BY <1>2 DEF ImportTestCase
  <2> HIDE DEF row
  <2> QED
    BY <2>1, <2>2, NewRow
<1> QED
  BY <1>1, <1>2

LEMMA InvRead ==
    ASSUME TestCasesInv, NEW w \in Tabs, NEW p \in Authors, NEW c \in Cases, ReadCase(w, p, c)
    PROVE  TestCasesInv'
<1> DEFINE new == [ClosedTab EXCEPT !.pc = "row", !.who = p, !.case = c,
                                    !.version = testCase[c].version,
                                    !.state = testCase[c].state,
                                    !.shown = Shown(testCase[c]),
                                    !.editor = tab[w].editor]
<1>1. /\ testCase[c].state # "NONE" /\ tab' = [tab EXCEPT ![w] = new]
      /\ UNCHANGED <<testCase, offered, signedOff, unseen, outlived>>
  BY DEF ReadCase
<1>2. TestCasesTypeOK /\ testCase[c] \in TestCase /\ tab[w] \in Tab
  BY DEF TestCasesInv, TestCasesTypeOK
<1>3. testCase[c].version \in Nat
  BY <1>2 DEF TestCase
<1>4. /\ new \in Tab /\ new.pc = "row" /\ new.case = c /\ new.version = testCase[c].version
      /\ new.state = testCase[c].state /\ new.shown = Shown(testCase[c])
  BY <1>2, PlainTypes, ShownIsContent DEF Tab, TestCase
<1> HIDE DEF new
<1>5. tab' \in [Tabs -> Tab] /\ tab'[w] = new /\ \A v \in Tabs \ {w} : tab'[v] = tab[v]
  BY <1>1, <1>2, <1>4 DEF TestCasesTypeOK
<1>6. TabSound(w)'
  BY <1>1, <1>3, <1>4, <1>5 DEF TabSound, TabIsCurrent, Read
<1> QED
  BY <1>1, <1>2, <1>5, <1>6, TabStep DEF TestCasesTypeOK

LEMMA InvDraw ==
    ASSUME TestCasesInv, NEW w \in Tabs, DrawSteps(w)
    PROVE  TestCasesInv'
<1> DEFINE row == testCase[tab[w].case]
           steps == row.content.steps
           kept == tab[w].editor # "unmounted" /\ tab[w].state = "DRAFT"
           shown == IF tab[w].state = "IN_REVIEW" THEN steps ELSE NoSteps
           editor == IF kept THEN tab[w].editor
                     ELSE IF tab[w].state = "DRAFT" THEN steps ELSE "unmounted"
<1>1. /\ tab[w].pc = "row"
      /\ tab' = [tab EXCEPT ![w].pc = "open", ![w].shown.steps = shown, ![w].editor = editor]
      /\ outlived' = IF kept /\ steps # tab[w].editor THEN outlived \cup {tab[w].case} ELSE outlived
      /\ UNCHANGED <<testCase, offered, signedOff, unseen>>
  BY DEF DrawSteps
<1>2. TestCasesTypeOK /\ tab[w] \in Tab /\ tab[w].case \in Cases /\ row \in TestCase /\ TabSound(w)
  BY DEF TestCasesInv, TestCasesTypeOK, Tab
<1>3. /\ steps \in StepLists \cup {NoSteps} /\ row.content \in Content
      /\ tab[w].shown \in Content /\ tab[w].editor \in StepLists \cup {NoSteps, "unmounted"}
      /\ row.version \in Nat
  BY <1>2 DEF TestCase, Content, Tab
<1>4. editor \in StepLists \cup {NoSteps, "unmounted"} /\ shown \in StepLists \cup {NoSteps}
  BY <1>3
<1>5. outlived \subseteq outlived' /\ outlived' \subseteq Cases
  BY <1>1, <1>2 DEF TestCasesTypeOK
<1>6. /\ tab' = [tab EXCEPT ![w] = [tab[w] EXCEPT !.pc = "open",
                                                 !.shown = [tab[w].shown EXCEPT !.steps = shown],
                                                 !.editor = editor]]
  BY <1>1, <1>2 DEF TestCasesTypeOK, Tab, Content
<1> DEFINE new == [tab[w] EXCEPT !.pc = "open",
                                 !.shown = [tab[w].shown EXCEPT !.steps = shown],
                                 !.editor = editor]
<1>7. [tab[w].shown EXCEPT !.steps = shown] \in Content
  BY <1>3, <1>4 DEF Content
<1>8. /\ new \in Tab /\ new.pc = "open" /\ new.case = tab[w].case /\ new.version = tab[w].version
      /\ new.state = tab[w].state /\ new.editor = editor
      /\ new.shown = [tab[w].shown EXCEPT !.steps = shown]
  <2> HIDE DEF shown, editor, row, steps, kept
  <2> QED
    BY <1>2, <1>4, <1>7 DEF Tab
<1> HIDE DEF new
<1>9. tab' \in [Tabs -> Tab] /\ tab'[w] = new /\ \A v \in Tabs \ {w} : tab'[v] = tab[v]
  BY <1>2, <1>6, <1>8 DEF TestCasesTypeOK, new
<1>10. Read(w)' = row /\ Read(w) = row
  BY <1>1, <1>8, <1>9 DEF Read
<1>11. CaseUnchanged(w)' => CaseUnchanged(w)
  BY <1>8, <1>9, <1>10 DEF CaseUnchanged
<1>12. CaseUnchanged(w)' => TabIsCurrent(w)'
  <2> SUFFICES ASSUME CaseUnchanged(w)' PROVE TabIsCurrent(w)'
    OBVIOUS
  <2>1. tab[w].state = row.state /\ tab[w].shown = Shown(row)
    BY <1>1, <1>2, <1>10, <1>11 DEF TabSound, TabIsCurrent, DrawnPhases
  <2>2. [Shown(row) EXCEPT !.steps = shown] = Shown(row)
    <3>1. CASE row.state = "IN_REVIEW"
      BY <1>3, <2>1, <3>1 DEF Shown, Content
    <3>2. CASE row.state # "IN_REVIEW"
      <4>1. Shown(row) = Blank /\ shown = NoSteps
        BY <2>1, <3>2 DEF Shown
      <4>2. Blank \in Content /\ Blank.steps = NoSteps
        BY PlainTypes DEF Blank
      <4>3. [Blank EXCEPT !.steps = NoSteps] = Blank
        BY <4>2 DEF Content
      <4> HIDE DEF shown, row
      <4> QED
        BY <4>1, <4>3
    <3> QED
      BY <3>1, <3>2
  <2>3. new.state = "DRAFT" => editor = steps \/ tab[w].case \in outlived'
    BY <1>1, <1>8
  <2> QED
    BY <1>8, <1>9, <1>10, <2>1, <2>2, <2>3 DEF TabIsCurrent
<1>13. TabSound(w)'
  BY <1>1, <1>2, <1>8, <1>9, <1>10, <1>12 DEF TabSound
<1> QED
  BY <1>1, <1>5, <1>9, <1>13, TabStep

\* Steps of a tab after which the row it was drawn from is what it was: closing, sending a
\* request, checking a little more, or being refused.
LEMMA InvRequest ==
    ASSUME TestCasesInv, NEW w \in Tabs,
           \/ CloseCase(w) \/ RefuseRequest(w)
           \/ PostDraft(w) \/ PostSteps(w) \/ PostSubmit(w) \/ PostApproval(w) \/ PostReturn(w)
           \/ PostRetirement(w) \/ CheckValues(w) \/ CheckSubmit(w)
    PROVE  TestCasesInv'
<1>1. /\ TestCasesTypeOK /\ tab[w] \in Tab /\ TabSound(w) /\ outlived \subseteq Cases
      /\ UNCHANGED <<testCase, offered, signedOff, unseen, outlived>>
  BY DEF TestCasesInv, TestCasesTypeOK, CloseCase, RefuseRequest, PostDraft, PostSteps, PostSubmit,
     PostApproval, PostReturn, PostRetirement, CheckValues, CheckSubmit, SendForm
<1>2. CASE CloseCase(w)
  <2>1. tab' = [tab EXCEPT ![w] = ClosedTab]
    BY <1>2 DEF CloseCase
  <2>2. tab' \in [Tabs -> Tab] /\ tab'[w] = ClosedTab /\ \A v \in Tabs \ {w} : tab'[v] = tab[v]
    BY <1>1, <2>1, PlainTypes DEF TestCasesTypeOK
  <2>3. TabSound(w)'
    BY <2>2, PlainTypes DEF TabSound, DrawnPhases
  <2> QED
    BY <1>1, <2>2, <2>3, TabStep
<1>3. ASSUME NEW pc \in {"open", "sent", "checked"},
             NEW op \in {"update", "rate", "steps", "submit", "approve", "return", "retire"},
             tab[w].pc \in {"open", "sent", "checked"},
             tab' = [tab EXCEPT ![w] = [tab[w] EXCEPT !.pc = pc, !.op = op]],
             pc \in {"sent", "checked"} /\ CaseUnchanged(w) =>
                /\ Read(w).state = OpenTo(op)
                /\ op = "submit" =>
                      /\ Read(w).content.planned /\ Read(w).content.rated
                      /\ pc = "checked" => Read(w).content.steps # NoSteps
      PROVE  TestCasesInv'
  <2> DEFINE new == [tab[w] EXCEPT !.pc = pc, !.op = op]
  <2>1. /\ new \in Tab /\ new.pc = pc /\ new.op = op /\ new.case = tab[w].case
        /\ new.version = tab[w].version /\ new.state = tab[w].state /\ new.shown = tab[w].shown
        /\ new.editor = tab[w].editor
    BY <1>1 DEF Tab
  <2>2. tab' = [tab EXCEPT ![w] = new]
    BY <1>3
  <2> HIDE DEF new
  <2>3. tab' \in [Tabs -> Tab] /\ tab'[w] = new /\ \A v \in Tabs \ {w} : tab'[v] = tab[v]
    BY <1>1, <2>1, <2>2 DEF TestCasesTypeOK
  <2>4. Read(w)' = Read(w) /\ (CaseUnchanged(w)' => CaseUnchanged(w))
    BY <1>1, <2>1, <2>3 DEF Read, CaseUnchanged
  <2>5. CaseUnchanged(w) => TabIsCurrent(w)
    BY <1>1, <1>3 DEF TabSound, DrawnPhases
  <2>6. CaseUnchanged(w)' => TabIsCurrent(w)'
    BY <1>1, <1>3, <2>1, <2>3, <2>4, <2>5 DEF TabIsCurrent
  <2>7. TabSound(w)'
    BY <1>1, <1>3, <2>1, <2>3, <2>4, <2>6 DEF TabSound
  <2> QED
    BY <1>1, <2>3, <2>7, TabStep
<1>4. ASSUME NEW op \in {"update", "rate", "steps", "submit", "approve", "return", "retire"},
             NEW pc \in {"sent", "checked"}, SendForm(w, op, pc),
             Read(w).state = OpenTo(op),
             op = "submit" => Read(w).content.planned /\ Read(w).content.rated /\ pc = "sent"
      PROVE  TestCasesInv'
  <2>1. tab[w].pc = "open" /\ tab' = [tab EXCEPT ![w] = [tab[w] EXCEPT !.pc = pc, !.op = op]]
    BY <1>1, <1>4 DEF SendForm, TestCasesTypeOK, Tab
  <2> QED
    BY <1>3, <1>4, <2>1
<1>5. CASE RefuseRequest(w)
  <2>1. /\ tab[w].pc \in {"sent", "checked"}
        /\ tab' = [tab EXCEPT ![w] = [tab[w] EXCEPT !.pc = "open", !.op = "update"]]
    BY <1>1, <1>5 DEF RefuseRequest, TestCasesTypeOK, Tab
  <2> QED
    BY <1>3, <2>1
<1>6. CASE PostDraft(w)
  BY <1>4, <1>6 DEF PostDraft, OpenTo
<1>7. CASE PostSteps(w)
  BY <1>4, <1>7 DEF PostSteps, OpenTo
<1>8. CASE PostSubmit(w)
  BY <1>4, <1>8 DEF PostSubmit, OpenTo
<1>9. CASE PostApproval(w)
  BY <1>4, <1>9 DEF PostApproval, OpenTo
<1>10. CASE PostReturn(w)
  BY <1>4, <1>10 DEF PostReturn, OpenTo
<1>11. CASE PostRetirement(w)
  BY <1>4, <1>11 DEF PostRetirement, OpenTo
<1>12. CASE CheckValues(w) \/ CheckSubmit(w)
  <2>1. /\ tab[w].pc = "sent" /\ tab[w].op \in {"rate", "submit"}
        /\ tab[w].op = "submit" => Read(w).content.steps # NoSteps
        /\ tab' = [tab EXCEPT ![w].pc = "checked"]
    BY <1>12 DEF CheckValues, CheckSubmit
  <2>2. tab' = [tab EXCEPT ![w] = [tab[w] EXCEPT !.pc = "checked", !.op = tab[w].op]]
    BY <1>1, <2>1 DEF TestCasesTypeOK, Tab
  <2>3. CaseUnchanged(w) => TabIsCurrent(w)
    BY <1>1, <2>1 DEF TabSound, DrawnPhases
  <2> QED
    BY <1>3, <2>1, <2>2, <2>3 DEF TabIsCurrent
<1> QED
  BY <1>2, <1>5, <1>6, <1>7, <1>8, <1>9, <1>10, <1>11, <1>12

\* The writes.
LEMMA InvWrite ==
    ASSUME TestCasesInv, NEW w \in Tabs,
           \/ SubmitTestCase(w) \/ ApproveTestCase(w) \/ ReturnTestCaseToDraft(w) \/ RetireTestCase(w)
           \/ \E planned, rated \in BOOLEAN : CommitDraft(w, planned, rated)
           \/ \E steps \in StepLists \cup {NoSteps} : CommitSteps(w, steps)
    PROVE  TestCasesInv'
<1> DEFINE c == tab[w].case
           old == Read(w)
<1>1. /\ TestCasesTypeOK /\ tab[w] \in Tab /\ TabSound(w) /\ c \in Cases
      /\ old \in TestCase /\ old = testCase[c] /\ old.version \in Nat /\ old.content \in Content
  BY DEF TestCasesInv, TestCasesTypeOK, Tab, Read, TestCase
<1>2. tab[w].pc = "checked" /\ CaseUnchanged(w) /\ UNCHANGED <<offered, outlived>>
  BY DEF SubmitTestCase, ApproveTestCase, ReturnTestCaseToDraft, RetireTestCase, CommitDraft,
     CommitSteps, Move, Rewrite
<1>3. TabIsCurrent(w) /\ old.state = OpenTo(tab[w].op) /\ old.state # "NONE"
  <2>1. TabIsCurrent(w) /\ old.state # "NONE"
    BY <1>1, <1>2 DEF TabSound, DrawnPhases
  <2> QED
    BY <1>2, <2>1 DEF TabIsCurrent
<1>4. ASSUME NEW row \in TestCase, row.version = old.version + 1, row.state # "NONE",
             testCase' = [testCase EXCEPT ![c] = row],
             NEW e \in StepLists \cup {NoSteps, "unmounted"}, Redirect(w, e),
             signedOff' \in [Cases -> Content],
             \A d \in Cases \ {c} : signedOff'[d] = signedOff[d],
             unseen' \subseteq Cases, unseen' \subseteq outlived,
             row.state \in {"IN_REVIEW", "APPROVED", "RETIRED"} /\ ~row.imported =>
                 row.content.planned /\ row.content.rated /\ row.content.steps # NoSteps,
             row.state \in {"APPROVED", "RETIRED"} /\ ~row.imported => row.content = signedOff'[c]
      PROVE  TestCasesInv'
  <2>1. /\ testCase' \in [Cases -> TestCase] /\ tab' \in [Tabs -> Tab] /\ testCase'[c] = row
        /\ \A d \in Cases \ {c} : testCase'[d] = testCase[d]
        /\ \A v \in Tabs : TabSound(v)'
    BY <1>2, <1>4, RowStep
  <2>2. TestCasesTypeOK'
    BY <1>1, <1>2, <1>4, <2>1 DEF TestCasesTypeOK
  <2>3. ReviewedIsComplete'
    BY <1>4, <2>1 DEF TestCasesInv, ReviewedIsComplete
  <2>4. ApprovedAsShown'
    BY <1>4, <2>1 DEF TestCasesInv, ApprovedAsShown
  <2> QED
    BY <1>2, <1>4, <2>1, <2>2, <2>3, <2>4 DEF TestCasesInv, NoStepsLostUnseen
<1>5. unseen \subseteq outlived /\ unseen \subseteq Cases /\ signedOff \in [Cases -> Content]
  BY <1>1 DEF TestCasesInv, TestCasesTypeOK, NoStepsLostUnseen
<1>6. /\ tab[w].editor \in StepLists \cup {NoSteps, "unmounted"}
      /\ old.content.steps \in StepLists \cup {NoSteps} /\ old.content.planned \in BOOLEAN
      /\ old.content.rated \in BOOLEAN
      /\ old.state \in {"NONE", "DRAFT", "IN_REVIEW", "APPROVED", "RETIRED"}
      /\ tab[w].state = old.state /\ tab[w].shown = Shown(old) /\ tab[w].shown \in Content
  BY <1>1, <1>3 DEF Tab, Content, TestCase, TabIsCurrent
<1>7. ASSUME NEW op, NEW state \in {"DRAFT", "IN_REVIEW", "APPROVED", "RETIRED"}, Move(w, op, state)
      PROVE  \E row \in TestCase :
                /\ row.version = old.version + 1 /\ row.state = state /\ row.content = old.content
                /\ row.imported = old.imported
                /\ testCase' = [testCase EXCEPT ![c] = row]
                /\ Redirect(w, "unmounted") /\ UNCHANGED unseen /\ tab[w].op = op
  <2> DEFINE moved == [old EXCEPT !.state = state]
             row == [moved EXCEPT !.version = moved.version + 1]
  <2>1. /\ testCase' = [testCase EXCEPT ![c] = row] /\ tab[w].op = op
        /\ Redirect(w, "unmounted") /\ UNCHANGED unseen
    BY <1>7 DEF Move, Rewrite
  <2>2. moved \in TestCase /\ moved.version = old.version /\ moved.state = state
        /\ moved.content = old.content /\ moved.imported = old.imported
    BY <1>1 DEF TestCase
  <2>3. /\ row \in TestCase /\ row.version = old.version + 1 /\ row.state = state
        /\ row.content = old.content /\ row.imported = old.imported
    <3> HIDE DEF moved
    <3>1. moved.version + 1 \in Nat
      BY <1>1, <2>2
    <3> QED
      BY <2>2, <3>1 DEF TestCase
  <2> HIDE DEF row
  <2> QED
    BY <2>1, <2>3
<1>8. CASE SubmitTestCase(w)
  <2>1. PICK row \in TestCase :
           /\ row.version = old.version + 1 /\ row.state = "IN_REVIEW" /\ row.content = old.content
           /\ testCase' = [testCase EXCEPT ![c] = row]
           /\ Redirect(w, "unmounted") /\ UNCHANGED unseen /\ tab[w].op = "submit"
    BY <1>7, <1>8 DEF SubmitTestCase
  <2>2. old.content.planned /\ old.content.rated /\ old.content.steps # NoSteps
    BY <1>2, <1>3, <2>1 DEF TabIsCurrent
  <2>3. UNCHANGED signedOff
    BY <1>8 DEF SubmitTestCase
  <2> QED
    BY <1>4, <1>5, <2>1, <2>2, <2>3
<1>9. CASE ApproveTestCase(w)
  <2>1. PICK row \in TestCase :
           /\ row.version = old.version + 1 /\ row.state = "APPROVED" /\ row.content = old.content
           /\ row.imported = old.imported
           /\ testCase' = [testCase EXCEPT ![c] = row]
           /\ Redirect(w, "unmounted") /\ UNCHANGED unseen /\ tab[w].op = "approve"
    BY <1>7, <1>9 DEF ApproveTestCase
  <2>2. old.state = "IN_REVIEW"
    BY <1>3, <2>1 DEF OpenTo
  <2>3. signedOff' = [signedOff EXCEPT ![c] = old.content]
    BY <1>6, <1>9, <2>2 DEF ApproveTestCase, Shown
  <2>4. ~old.imported => old.content.planned /\ old.content.rated /\ old.content.steps # NoSteps
    BY <1>1, <2>2 DEF TestCasesInv, ReviewedIsComplete
  <2> QED
    BY <1>1, <1>4, <1>5, <2>1, <2>3, <2>4
<1>10. CASE ReturnTestCaseToDraft(w)
  <2>1. PICK row \in TestCase :
           /\ row.version = old.version + 1 /\ row.state = "DRAFT"
           /\ testCase' = [testCase EXCEPT ![c] = row]
           /\ Redirect(w, "unmounted") /\ UNCHANGED unseen
    BY <1>7, <1>10 DEF ReturnTestCaseToDraft
  <2>2. UNCHANGED signedOff
    BY <1>10 DEF ReturnTestCaseToDraft
  <2> QED
    BY <1>4, <1>5, <2>1, <2>2
<1>11. CASE RetireTestCase(w)
  <2>1. PICK row \in TestCase :
           /\ row.version = old.version + 1 /\ row.state = "RETIRED" /\ row.content = old.content
           /\ row.imported = old.imported
           /\ testCase' = [testCase EXCEPT ![c] = row]
           /\ Redirect(w, "unmounted") /\ UNCHANGED unseen /\ tab[w].op = "retire"
    BY <1>7, <1>11 DEF RetireTestCase
  <2>2. old.state = "APPROVED"
    BY <1>3, <2>1 DEF OpenTo
  <2>3. UNCHANGED signedOff
    BY <1>11 DEF RetireTestCase
  <2>4. ~old.imported => /\ old.content.planned /\ old.content.rated /\ old.content.steps # NoSteps
                         /\ old.content = signedOff[c]
    BY <1>1, <2>2 DEF TestCasesInv, ReviewedIsComplete, ApprovedAsShown
  <2> QED
    BY <1>4, <1>5, <2>1, <2>3, <2>4
<1>12. ASSUME NEW planned \in BOOLEAN, NEW rated \in BOOLEAN, CommitDraft(w, planned, rated)
       PROVE  TestCasesInv'
  <2> DEFINE edited == [old EXCEPT !.content.planned = planned, !.content.rated = rated]
             row == [edited EXCEPT !.version = edited.version + 1]
             content == [old.content EXCEPT !.planned = planned, !.rated = rated]
  <2>1. /\ testCase' = [testCase EXCEPT ![c] = row] /\ tab[w].op \in {"update", "rate"}
        /\ Redirect(w, tab[w].editor) /\ UNCHANGED <<signedOff, unseen>>
    BY <1>12 DEF CommitDraft, Rewrite
  <2>2. old.state = "DRAFT"
    BY <1>3, <2>1 DEF OpenTo
  <2>3. content \in Content
    BY <1>1 DEF Content
  <2>4. edited = [old EXCEPT !.content = content]
    BY <1>1 DEF TestCase, Content
  <2>5. edited \in TestCase /\ edited.version = old.version /\ edited.state = "DRAFT"
    BY <1>1, <2>2, <2>3, <2>4 DEF TestCase
  <2>6. row \in TestCase /\ row.version = old.version + 1 /\ row.state = "DRAFT"
    <3> HIDE DEF edited
    <3>1. edited.version + 1 \in Nat
      BY <1>1, <2>5
    <3> QED
      BY <2>5, <3>1 DEF TestCase
  <2> HIDE DEF row
  <2> QED
    BY <1>4, <1>5, <1>6, <2>1, <2>6
<1>13. ASSUME NEW steps \in StepLists \cup {NoSteps}, CommitSteps(w, steps)
       PROVE  TestCasesInv'
  <2> DEFINE edited == [old EXCEPT !.content.steps = steps]
             row == [edited EXCEPT !.version = edited.version + 1]
             content == [old.content EXCEPT !.steps = steps]
             e == IF tab[w].editor = "unmounted" THEN "unmounted" ELSE steps
  <2>1. /\ testCase' = [testCase EXCEPT ![c] = row] /\ tab[w].op = "steps"
        /\ Redirect(w, e) /\ UNCHANGED signedOff
        /\ unseen' = IF old.content.steps # tab[w].editor THEN unseen \cup {c} ELSE unseen
    BY <1>13 DEF CommitSteps, Rewrite
  <2>2. old.state = "DRAFT"
    BY <1>3, <2>1 DEF OpenTo
  <2>3. content \in Content
    BY <1>1 DEF Content
  <2>4. edited = [old EXCEPT !.content = content]
    BY <1>1 DEF TestCase, Content
  <2>5. edited \in TestCase /\ edited.version = old.version /\ edited.state = "DRAFT"
    BY <1>1, <2>2, <2>3, <2>4 DEF TestCase
  <2>6. row \in TestCase /\ row.version = old.version + 1 /\ row.state = "DRAFT"
    <3> HIDE DEF edited
    <3>1. edited.version + 1 \in Nat
      BY <1>1, <2>5
    <3> QED
      BY <2>5, <3>1 DEF TestCase
  <2>7. e \in StepLists \cup {NoSteps, "unmounted"}
    OBVIOUS
  <2>8. unseen' \subseteq outlived /\ unseen' \subseteq Cases
    BY <1>1, <1>2, <1>3, <1>5, <1>6, <2>1, <2>2 DEF TabIsCurrent
  <2> HIDE DEF row, e
  <2> QED
    BY <1>4, <1>5, <2>1, <2>6, <2>7, <2>8
<1> QED
  BY <1>8, <1>9, <1>10, <1>11, <1>12, <1>13

LEMMA InvToggle ==
    ASSUME TestCasesInv, ToggleControlledValue \/ UNCHANGED caseVars
    PROVE  TestCasesInv'
<1>1. UNCHANGED <<testCase, tab, signedOff, unseen, outlived>> /\ offered' \in BOOLEAN
  BY DEF ToggleControlledValue, caseVars, TestCasesInv, TestCasesTypeOK
<1> QED
  BY <1>1 DEF TestCasesInv, TestCasesTypeOK, TabSound, TabIsCurrent, CaseUnchanged, Read, ReviewedIsComplete,
     ApprovedAsShown, NoStepsLostUnseen

LEMMA TestCasesInvNext == TestCasesInv /\ [TestCasesNext]_caseVars => TestCasesInv'
<1> SUFFICES ASSUME TestCasesInv, [TestCasesNext]_caseVars PROVE TestCasesInv'
  OBVIOUS
<1>1. CASE \E c \in Cases, p \in Authors :
              \/ \E content \in Content, prior \in Cases \cup {"nothing"} :
                    CreateTestCase(c, p, content, prior)
              \/ \E steps \in StepLists \cup {NoSteps} : ImportTestCase(c, p, steps)
              \/ \E w \in Tabs : ReadCase(w, p, c)
  BY <1>1, InvRows, InvRead
<1>2. CASE ToggleControlledValue \/ UNCHANGED caseVars
  BY <1>2, InvToggle
<1>3. ASSUME NEW w \in Tabs, DrawSteps(w) PROVE TestCasesInv'
  BY <1>3, InvDraw
<1>4. ASSUME NEW w \in Tabs,
             \/ CloseCase(w) \/ RefuseRequest(w)
             \/ PostDraft(w) \/ PostSteps(w) \/ PostSubmit(w) \/ PostApproval(w) \/ PostReturn(w)
             \/ PostRetirement(w) \/ CheckValues(w) \/ CheckSubmit(w)
      PROVE  TestCasesInv'
  BY <1>4, InvRequest
<1>5. ASSUME NEW w \in Tabs,
             \/ SubmitTestCase(w) \/ ApproveTestCase(w) \/ ReturnTestCaseToDraft(w)
             \/ RetireTestCase(w)
             \/ \E planned, rated \in BOOLEAN : CommitDraft(w, planned, rated)
             \/ \E steps \in StepLists \cup {NoSteps} : CommitSteps(w, steps)
      PROVE  TestCasesInv'
  BY <1>5, InvWrite
<1> QED
  BY <1>1, <1>2, <1>3, <1>4, <1>5 DEF TestCasesNext

-------------------------------------------------------------------------------
LEMMA TestCasesAreSound == TestCasesSpec => []TestCasesInv
  BY TestCasesInvInit, TestCasesInvNext, PTL DEF TestCasesSpec

\* Every row and every tab has its type.
THEOREM TestCasesAreTyped == TestCasesSpec => []TestCasesTypeOK
<1>1. TestCasesInv => TestCasesTypeOK
  BY DEF TestCasesInv
<1> QED
  BY <1>1, TestCasesAreSound, PTL

\* Whatever is edited while a case is being submitted, nothing incomplete gets past the review
\* (submitTestCase, replaceSteps).
THEOREM ReviewedAreComplete == TestCasesSpec => []ReviewedIsComplete
<1>1. TestCasesInv => ReviewedIsComplete
  BY DEF TestCasesInv
<1> QED
  BY <1>1, TestCasesAreSound, PTL

\* An approved case is for good what its approver was shown (approveTestCase, retireTestCase).
THEOREM ApprovedAreAsShown == TestCasesSpec => []ApprovedAsShown
<1>1. TestCasesInv => ApprovedAsShown
  BY DEF TestCasesInv
<1> QED
  BY <1>1, TestCasesAreSound, PTL

\* Only an editor drawn again around its old rows replaces steps its author never saw
\* (replaceSteps, StepsEditor).
THEOREM StepsAreNotLostUnseen == TestCasesSpec => []NoStepsLostUnseen
<1>1. TestCasesInv => NoStepsLostUnseen
  BY DEF TestCasesInv
<1> QED
  BY <1>1, TestCasesAreSound, PTL
====
