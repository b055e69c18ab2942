---- MODULE CasePicker ----
(* Choosing Approved test cases for a run or for a naming contract             *)
(* (ui/case-picker.tsx over ui/plan-grouping.ts, in executions/new and in      *)
(* admin/checks/naming-contract).  The cases are those that were Approved when *)
(* the page was drawn; filters, closed groups and a cap on the rows drawn      *)
(* narrow the list, and none of them may narrow what is submitted.  Meanwhile  *)
(* cases are approved and retired.  Test cases and features are numbered in    *)
(* the order of their business IDs.                                            *)

EXTENDS Naturals, FiniteSets, FiniteSetsExt

CONSTANTS
    Candidates,         \* test cases
    FeatureOf,          \* the feature of a case
    ProductOf, RequirementOf,
    NoFilter,           \* the empty option of a filter
    Terms,              \* what can be typed
    Haystack,           \* Haystack[t]: the cases that t is found in
    CoveredBy,          \* CoveredBy[n]: the cases of the n-th of the runs offered to start from
    Links,              \* bound: the cases that links to the page ask for
    RenderLimit,        \* RENDER_LIMIT
    MaxPicks            \* bound: what the reader does

ASSUME PickerAssumption ==
    /\ Candidates \subseteq Nat /\ IsFiniteSet(Candidates)
    /\ FeatureOf \in [Candidates -> Nat]
    /\ NoFilter \notin {ProductOf[c] : c \in Candidates} \cup {RequirementOf[c] : c \in Candidates} \cup Terms
    /\ Haystack \in [Terms -> SUBSET Candidates]
    /\ Links \subseteq SUBSET Candidates
    /\ 0 \notin DOMAIN CoveredBy
    /\ \A n \in DOMAIN CoveredBy : CoveredBy[n] \subseteq Candidates
    /\ {RenderLimit, MaxPicks} \subseteq Nat

Features == {FeatureOf[c] : c \in Candidates}
Products == {ProductOf[c] : c \in Candidates}
Requirements == {RequirementOf[c] : c \in Candidates}

VARIABLES
    eligible,   \* the cases that are Approved
    pick        \* the page in the browser, with its locals and the request it made

pickVars == <<eligible, pick>>

Pick == [form     : {"none", "plan", "contract"},
         cases    : SUBSET Candidates,              \* the props
         linked   : SUBSET Candidates,              \* what the link to the page asked for
         run      : DOMAIN CoveredBy \cup {0},      \* runId, 0 for none
         selected : SUBSET Candidates,
         needle   : Terms \cup {NoFilter},
         product  : Products \cup {NoFilter},
         requirement : Requirements \cup {NoFilter},
         only     : BOOLEAN,                        \* onlySelected
         override : [Features -> {"auto", "open", "closed"}],
         sent     : SUBSET Candidates,              \* the request under way
         byHand   : BOOLEAN,                        \* history: the selection was changed by hand
         emptied  : BOOLEAN,                        \* history: .. by going back from a run to none
         putAway  : SUBSET Features,                \* history: closed by hand since the needle moved
         meant    : SUBSET Candidates,              \* history: selected when the button was pressed
         made     : SUBSET Candidates,              \* what the run or the contract covers
         picks    : 0..MaxPicks]

NoOverride == [f \in Features |-> "auto"]

NewPick == [form |-> "none", cases |-> {}, linked |-> {}, run |-> 0, selected |-> {},
          needle |-> NoFilter, product |-> NoFilter, requirement |-> NoFilter, only |-> FALSE,
          override |-> NoOverride, sent |-> {}, byHand |-> FALSE, emptied |-> FALSE, putAway |-> {},
          meant |-> {}, made |-> {}, picks |-> 0]

PickTypeOK == eligible \subseteq Candidates /\ pick \in Pick

-------------------------------------------------------------------------------
\* What is drawn: groupCandidates

Filtering == pick.needle # NoFilter \/ pick.product # NoFilter \/ pick.requirement # NoFilter \/ pick.only

Matching ==
    {c \in pick.cases :
        /\ pick.only => c \in pick.selected
        /\ pick.product # NoFilter => ProductOf[c] = pick.product
        /\ pick.requirement # NoFilter => RequirementOf[c] = pick.requirement
        /\ pick.needle # NoFilter => c \in Haystack[pick.needle]}

Group(f) == {c \in Matching : FeatureOf[c] = f}

Groups == {FeatureOf[c] : c \in Matching}

\* isOpen: an explicit choice wins; a group otherwise opens for a selection or a hit.
IsOpen(f) ==
    \/ pick.override[f] = "open"
    \/ pick.override[f] = "auto" /\ (Group(f) \cap pick.selected # {} \/ pick.needle # NoFilter)

OpenRows == {c \in Matching : IsOpen(FeatureOf[c])}

\* The cap is spent in the order of the groups, and cuts a group in the middle.
Rendered ==
    {c \in OpenRows :
        Cardinality({d \in OpenRows : \/ FeatureOf[d] < FeatureOf[c]
                                      \/ FeatureOf[d] = FeatureOf[c] /\ d < c}) < RenderLimit}

\* Mutant of HiddenSelected: what matches is taken to be on screen.
HiddenMatching == pick.selected \ Matching

\* The selected cases without a checkbox, which travel as hidden inputs.
HiddenSelected == pick.selected \ Rendered

\* The values of the form's field.
FormData == (Rendered \cap pick.selected) \cup HiddenSelected

\* The pages offer the products that have a candidate.
ProductOptions == {ProductOf[c] : c \in pick.cases}

RequirementOptions ==
    {RequirementOf[c] : c \in {d \in pick.cases : pick.product \in {NoFilter, ProductOf[d]}}}

\* What the page was to start from, and what of it could not be offered: unavailable.
StartedFrom == IF pick.run = 0 THEN pick.linked ELSE CoveredBy[pick.run]
Unavailable == StartedFrom \ pick.cases

-------------------------------------------------------------------------------
\* The page

\* Of the cases that the link asks for, those that can be offered are selected.
OpenForm(form, asked) ==
    /\ pick = NewPick
    /\ pick' = [NewPick EXCEPT !.form = form, !.cases = eligible, !.linked = asked,
                             !.selected = asked \cap eligible]
    /\ UNCHANGED eligible

\* PlanExecutionPage: no form where there is nothing to offer.
OpenPlan(asked) == eligible # {} /\ OpenForm("plan", asked)

\* NamingContractPage
OpenContract(asked) == OpenForm("contract", asked)

\* What the reader does: the box of the needle is never disabled, and neither is "Show all".
Use(next) ==
    /\ pick.form # "none" /\ pick.picks < MaxPicks
    /\ pick' = [next EXCEPT !.picks = @ + 1]
    /\ UNCHANGED eligible

\* The other controls of the plan are disabled while its request is under way.
Change(next) == (pick.form = "plan" => pick.sent = {}) /\ Use(next)

\* ContractForm: a run replaces the selection; it is offered with those of its cases that were
\* Approved when the page was drawn, if there are any.
StartFromRun(n) ==
    /\ pick.form = "contract" /\ CoveredBy[n] \cap pick.cases # {}
    /\ Change([pick EXCEPT !.run = n, !.selected = CoveredBy[n] \cap pick.cases,
                     !.byHand = FALSE, !.emptied = FALSE])

\* "Choose cases by hand": of nothing, although the notice is about the link again and says that
\* everything else from it is selected.
StartByHand ==
    /\ pick.form = "contract" /\ pick.run # 0
    /\ Change([pick EXCEPT !.run = 0, !.selected = {}, !.byHand = FALSE, !.emptied = TRUE])

Flip(S, T) == (S \ T) \cup (T \ S)

Toggle(c) == c \in Rendered /\ Change([pick EXCEPT !.selected = Flip(@, {c}), !.byHand = TRUE])

\* toggleGroupSelection: what the filters left in the group, on screen or not.
ToggleGroup(f) ==
    /\ f \in Groups
    /\ Change([pick EXCEPT !.selected = IF Group(f) \subseteq @ THEN @ \ Group(f) ELSE @ \cup Group(f),
                           !.byHand = TRUE])

ToggleGroupOpen(f) ==
    /\ f \in Groups
    /\ Change([pick EXCEPT !.override[f] = IF IsOpen(f) THEN "closed" ELSE "open",
                           !.putAway = IF IsOpen(f) THEN @ \cup {f} ELSE @ \ {f}])

\* A choice of its own for every group on screen, and none for the others.
CollapseGroups ==
    /\ \E f \in Groups : IsOpen(f)
    /\ Change([pick EXCEPT !.override = [f \in Features |-> IF f \in Groups THEN "closed" ELSE "auto"],
                           !.putAway = Groups])

\* Typing forgets what was closed by hand and keeps what was opened.
DropExplicitCloses(override) == [f \in Features |-> IF override[f] = "open" THEN "open" ELSE "auto"]

\* Escape clears the box, and counts as typing although it was empty.
ChangeNeedle(t) ==
    /\ t # pick.needle \/ t = NoFilter
    /\ Use([pick EXCEPT !.needle = t, !.putAway = {},
                        !.override = DropExplicitCloses(@)])

\* The requirements offered are those of the product.
ChooseProduct(p) ==
    /\ p \in ProductOptions \cup {NoFilter} /\ p # pick.product
    /\ Change([pick EXCEPT !.product = p, !.requirement = NoFilter])

ChooseRequirement(r) ==
    /\ r \in RequirementOptions \cup {NoFilter} /\ r # pick.requirement
    /\ Change([pick EXCEPT !.requirement = r])

ToggleOnlySelected == pick.selected # {} /\ Change([pick EXCEPT !.only = ~@])

ClearSelection == pick.selected # {} /\ Change([pick EXCEPT !.selected = {}, !.byHand = TRUE])

\* Offered where the filters leave nothing.
ShowAll ==
    /\ Filtering /\ Matching = {}
    /\ Use([pick EXCEPT !.only = FALSE, !.needle = NoFilter, !.product = NoFilter, !.requirement = NoFilter,
                        !.putAway = {}, !.override = DropExplicitCloses(@)])

\* The button counts the selection; the browser sends the form.
SubmitPick ==
    /\ pick.form # "none" /\ pick.selected # {}
    /\ pick.form = "plan" => pick.sent = {}
    /\ pick' = [pick EXCEPT !.meant = pick.selected, !.sent = FormData, !.made = {}]
    /\ UNCHANGED eligible

\* createExecutionAction: every case must be Approved, and then the screen is the run's.
CreatePlanned ==
    /\ pick.form = "plan" /\ pick.sent # {} /\ pick.sent \subseteq eligible
    /\ pick' = [NewPick EXCEPT !.meant = pick.meant, !.made = pick.sent]
    /\ UNCHANGED eligible

\* Otherwise, or for a field that is wrong, it is refused, and the form is as it was, with the
\* cases that it was drawn with.
RefusePlanned ==
    /\ pick.form = "plan" /\ pick.sent # {}
    /\ pick' = [pick EXCEPT !.sent = {}]
    /\ UNCHANGED eligible

\* The download names those of the cases that are still Approved; the page stays.
DownloadContract ==
    /\ pick.form = "contract" /\ pick.sent \cap eligible # {}
    /\ pick' = [pick EXCEPT !.sent = {}, !.made = pick.sent \cap eligible]
    /\ UNCHANGED eligible

\* With none of them left the answer is an error in the place of the page.
RefuseContract ==
    /\ pick.form = "contract" /\ pick.sent # {} /\ pick.sent \cap eligible = {}
    /\ pick' = NewPick
    /\ UNCHANGED eligible

\* approveTestCase, retireTestCase by anyone; Retired is for good, so an approval is of a case
\* that the page was not drawn with.
ApproveCandidate(c) ==
    /\ c \notin eligible \cup pick.cases
    /\ eligible' = eligible \cup {c}
    /\ UNCHANGED pick

RetireCandidate(c) ==
    /\ c \in eligible
    /\ eligible' = eligible \ {c}
    /\ UNCHANGED pick

PickInit == eligible \in SUBSET Candidates /\ pick = NewPick

PickNext ==
    \/ \E asked \in Links : OpenPlan(asked) \/ OpenContract(asked)
    \/ \E n \in DOMAIN CoveredBy : StartFromRun(n)
    \/ \E c \in Candidates : Toggle(c) \/ ApproveCandidate(c) \/ RetireCandidate(c)
    \/ \E f \in Features : ToggleGroup(f) \/ ToggleGroupOpen(f)
    \/ \E t \in Terms \cup {NoFilter} : ChangeNeedle(t)
    \/ \E p \in Products \cup {NoFilter} : ChooseProduct(p)
    \/ \E r \in Requirements \cup {NoFilter} : ChooseRequirement(r)
    \/ StartByHand \/ CollapseGroups \/ ToggleOnlySelected \/ ClearSelection \/ ShowAll \/ SubmitPick
    \/ CreatePlanned \/ RefusePlanned \/ DownloadContract \/ RefuseContract

PickSpec == PickInit /\ [][PickNext]_pickVars

-------------------------------------------------------------------------------
\* Properties

\* "Nothing that narrows the list may narrow the selection": what is sent is the selection that
\* the button counted, whatever filters, closed groups and the cap kept off the screen; a run
\* covers all of it, a contract nothing else; and until somebody selects by hand, every case that
\* the page was to start from is selected or counted as dropped, but for those of the link once a
\* run was chosen in its place and then none.
SelectionIsNotNarrowed ==
    /\ pick.sent # {} => pick.sent = pick.meant
    /\ pick.form = "none" => pick.made \in {{}, pick.meant}
    /\ pick.made \subseteq pick.meant
    /\ ~pick.byHand /\ ~pick.emptied => StartedFrom = pick.selected \cup Unavailable

\* A search shows what it found: a match is on screen, unless its group was put away since the
\* needle was typed or the list is full, even after everything had been collapsed; and no filter
\* stands at an option that is not offered, which would empty the list without a reason.
SearchShowsItsHits ==
    /\ pick.needle # NoFilter =>
          \A c \in Matching : \/ c \in Rendered
                              \/ FeatureOf[c] \in pick.putAway
                              \/ Cardinality(Rendered) = RenderLimit
    /\ pick.requirement \in RequirementOptions \cup {NoFilter}

\* Both: what narrows the list changes neither what is submitted nor what a search is seen to find.
NarrowingIsHonest == SelectionIsNotNarrowed /\ SearchShowsItsHits
====
