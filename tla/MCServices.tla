---- MODULE MCServices ----
(* The components that share no state with one another, side by side on small  *)
(* instances: `part` is the one that a behaviour is about, and the others stay *)
(* as they began.                                                              *)
EXTENDS Accounts, LoginThrottle, Identifiers, JiraConnection, TestCases, Imports, Reports,
        FinalizeDraft, CatalogueScreen, CasePicker, FeaturePicker, Checks, ListFilters, TLC

VARIABLE part

vars == <<part, accountVars, throttleVars, identifierVars, connectionVars, caseVars, importVars,
          reportVars, draftVars, catalogueVars, viewerVars, pickVars, boxVars, checkVars, filterVars>>

\* One test case for every execution and defect, of the first requirement.
OneCase == [x \in RunRows \cup BugRows |-> CHOOSE c \in CaseRows : TRUE]
FirstReq == [c \in CaseRows |-> 1]

\* Three products, two modules of the first, two features of one of those, a requirement.
Parents == (1 :> 0) @@ (2 :> 0) @@ (3 :> 0) @@ (4 :> 1) @@ (5 :> 1) @@ (6 :> 4) @@ (7 :> 4) @@ (8 :> 6)

\* The needle is the business ID of the last product.  One label has it in it, which counts for
\* more the deeper the record is; the other does not.
Scores == [x \in 1..8 |-> [t \in Labels |-> CASE x = 3 -> 0
                                              [] t = "plain" -> 5
                                              [] OTHER -> IF x < 4 THEN 4 ELSE 2]]

\* The catalogue with the records of S in it, those of H with the label that is looked for.
Shelf(S, H) == [x \in Entries |-> [version |-> IF x \in S THEN 1 ELSE 0,
                                  label |-> IF x \in H THEN "named" ELSE "plain"]]

SomePages == {<<"tree", 0, {1, 4}>>, <<"tree", 4, {}>>, <<"tree", 6, {2}>>, <<"search", 1, {}>>,
              <<"search", 8, {}>>}

\* Two candidates of one feature and product, one of another; the term that is looked for is in
\* one of each, and the run to start from and the link cover one of each.
FeatureOfCandidate == (1 :> 1) @@ (2 :> 1) @@ (3 :> 2)
ProductOfCandidate == (1 :> "store") @@ (2 :> "store") @@ (3 :> "portal")
RequirementOfCandidate == (1 :> "r1") @@ (2 :> "r2") @@ (3 :> "r3")
FoundIn == [t \in Terms |-> {2, 3}]
CoveredByRun == <<{1, 3}>>

\* One needle finds two features, the other none; the first page holds two of the three.
NamedFeatures == [n \in Needles |-> IF n = "up" THEN {2, 3} ELSE {}]

\* A document without a suite; one whose tests name two cases, one by its class, or none; one test.
TestOf(named, class, element) == [named |-> named, class |-> class, element |-> element]
SomeFiles ==
    {<<>>,
     <<<<TestOf("k1", Undeclared, "none"), TestOf(Undeclared, "k1", "otherType")>>,
       <<TestOf("k2", Undeclared, "untyped"), TestOf(Undeclared, Undeclared, "skipped")>>>>,
     <<<<TestOf("k1", "k2", "error")>>>>}

\* A word, and the word with a space after it; a narrower list has one page instead of two.
TrimmedTexts == ("empty" :> "empty") @@ ("word" :> "word") @@ ("word and space" :> "word")
TwoPages == [t \in Texts |-> [c \in Selections |->
                IF t = NoText /\ \A k \in Params : c[k] = AnyOption THEN 2 ELSE 1]]

AnyGrader == CHOOSE p \in Graders : TRUE

Parts == {"accounts", "throttle", "identifiers", "connection", "cases", "imports", "reports",
          "draft", "explorer", "screen", "picker", "box", "checks", "filters"}

ServicesInit ==
    /\ part \in Parts
    /\ entry \in CASE part = "explorer" -> {Shelf({1, 2, 4, 6}, {1, 2}), Shelf(Entries \ {7}, Entries)}
                   [] part = "screen"   -> {Shelf({1, 2, 4}, {})}
                   [] OTHER             -> {Shelf({}, {})}     \* .. and CatalogueInit
    /\ AccountsInit /\ ThrottleInit /\ IdentifiersInit /\ ConnectionInit /\ TestCasesInit
    /\ ImportsInit /\ ReportsInit /\ FinalizeDraftInit /\ CatalogueScreenInit
    /\ PickInit /\ PickerInit /\ ChecksInit /\ FiltersInit
    \* A case may come after the page was drawn; every other one is Approved at first.
    /\ eligible \in {Candidates, Candidates \ {3}}
    \* People are alike: one beginning of those that only exchange their names.
    /\ user[AnyPerson].version = 1 /\ \A w \in Windows : window[w].who = AnyGrader
    \* .. and one is enough for a component that will not move.
    /\ part # "picker" => eligible = Candidates
    /\ part # "checks" => known = {}
    /\ part # "filters" => ShownUrl.q = NoText
    /\ part # "accounts" => \A u \in People : user[u].version = 1
    /\ part # "identifiers" => \A n \in Numbers : record[n] = "free"

\* Everything but what part p moves.
Rest(p) ==
    /\ UNCHANGED part
    /\ IF p = "accounts" THEN TRUE ELSE UNCHANGED accountVars
    /\ IF p = "throttle" THEN TRUE ELSE UNCHANGED throttleVars
    /\ IF p = "identifiers" THEN TRUE ELSE UNCHANGED identifierVars
    /\ IF p = "connection" THEN TRUE ELSE UNCHANGED connectionVars
    /\ IF p = "cases" THEN TRUE ELSE UNCHANGED caseVars
    /\ IF p = "imports" THEN TRUE ELSE UNCHANGED importVars
    /\ IF p = "reports" THEN TRUE ELSE UNCHANGED reportVars
    /\ IF p = "draft" THEN TRUE ELSE UNCHANGED draftVars
    /\ IF p \in {"explorer", "screen"} THEN TRUE ELSE UNCHANGED catalogueVars
    /\ IF p = "screen" THEN TRUE ELSE UNCHANGED viewerVars
    /\ IF p = "picker" THEN TRUE ELSE UNCHANGED pickVars
    /\ IF p = "box" THEN TRUE ELSE UNCHANGED boxVars
    /\ IF p = "checks" THEN TRUE ELSE UNCHANGED checkVars
    /\ IF p = "filters" THEN TRUE ELSE UNCHANGED filterVars

ServicesNext ==
    \/ part = "accounts" /\ AccountsNext /\ Rest("accounts")
    \/ part = "throttle" /\ ThrottleNext /\ Rest("throttle")
    \/ part = "identifiers" /\ IdentifiersNext /\ Rest("identifiers")
    \/ part = "connection" /\ ConnectionNext /\ Rest("connection")
    \/ part = "cases" /\ TestCasesNext /\ Rest("cases")
    \/ part = "imports" /\ ImportsNext /\ Rest("imports")
    \/ part = "reports" /\ ReportsNext /\ Rest("reports")
    \/ part = "draft" /\ FinalizeDraftNext /\ Rest("draft")
    \/ part = "explorer" /\ CatalogueNext /\ Rest("explorer")
    \/ part = "screen" /\ CatalogueScreenNext /\ Rest("screen")
    \/ part = "picker" /\ PickNext /\ Rest("picker")
    \/ part = "box" /\ PickerNext /\ Rest("box")
    \/ part = "checks" /\ ChecksNext /\ Rest("checks")
    \/ part = "filters" /\ FiltersNext /\ Rest("filters")

ServicesSpec == ServicesInit /\ [][ServicesNext]_vars

\* The type invariant of the component that moves.
ServicesTypeOK ==
    /\ part = "accounts" => AccountsTypeOK
    /\ part = "throttle" => ThrottleTypeOK
    /\ part = "identifiers" => IdentifiersTypeOK
    /\ part = "connection" => ConnectionTypeOK
    /\ part = "cases" => TestCasesTypeOK
    /\ part = "imports" => ImportsTypeOK
    /\ part = "reports" => ReportsTypeOK
    /\ part = "draft" => FinalizeDraftTypeOK
    /\ part \in {"explorer", "screen"} => CatalogueTypeOK
    /\ part = "screen" => CatalogueScreenTypeOK
    /\ part = "picker" => PickTypeOK
    /\ part = "box" => PickerTypeOK
    /\ part = "checks" => ChecksTypeOK
    /\ part = "filters" => FiltersTypeOK

\* What a reader narrows is never what is kept from them: in the case picker, and on a list.
FilteringIsHonest == NarrowingIsHonest /\ FiltersAreHonest

\* What TLC tells states apart by: the other components never change.
Moving ==
    CASE part = "accounts"    -> <<part, accountVars>>
      [] part = "throttle"    -> <<part, throttleVars>>
      [] part = "identifiers" -> <<part, identifierVars>>
      [] part = "connection"  -> <<part, connectionVars>>
      [] part = "cases"       -> <<part, caseVars>>
      [] part = "imports"     -> <<part, importVars>>
      [] part = "reports"     -> <<part, reportVars>>
      [] part = "draft"       -> <<part, draftVars>>
      [] part = "explorer"    -> <<part, catalogueVars>>
      [] part = "screen"      -> <<part, catalogueVars, viewerVars>>
      [] part = "picker"      -> <<part, pickVars>>
      [] part = "box"         -> <<part, boxVars>>
      [] part = "checks"      -> <<part, checkVars>>
      [] part = "filters"     -> <<part, filterVars>>

\* The requests, transactions, syncs, tabs, .. of a component are two of a kind; they go by the
\* same two names in every component.
Alike == Permutations(Calls)
====
