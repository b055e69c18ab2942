---- MODULE Catalogue ----
(* The catalogue (domain/catalogue.ts) and what its explorer reads of it: one  *)
(* page load is a dozen queries, each a snapshot of its own, assembled into a  *)
(* tree that draws so many children of a branch and counts the rest            *)
(* (domain/catalogue-tree.ts), a panel on the selected record, or, instead of  *)
(* the tree, a ranked list of hits (domain/catalogue-search.ts).  Records are  *)
(* numbered in the order of level and business ID; business IDs and parents    *)
(* are immutable, and nothing is ever deleted.                                 *)

EXTENDS Naturals, FiniteSets, FiniteSetsExt

CONSTANTS
    ProductRows, ModuleRows, FeatureRows, RequirementRows,
    ParentOf,           \* ParentOf[x]: 0 for a product
    Labels,             \* names and statements
    Score,              \* Score[x][t]: scoreHit of x with label t, for one needle; 5 for no match
    ChildLimit,         \* DEFAULT_CHILD_LIMIT
    PanelSize,          \* rows on a page of the panel's child list
    SearchLimit,        \* DEFAULT_SEARCH_LIMIT
    Openings,              \* bound: the pages that are opened: mode, selection, open branches
    MaxWritten,         \* bound: the version that a record can reach
    MaxMeanwhile        \* bound: records written while a page loads

Entries == ProductRows \cup ModuleRows \cup FeatureRows \cup RequirementRows

NoEntry == 0

Branches == ProductRows \cup ModuleRows         \* the levels the tree can expand

ASSUME CatalogueAssumption ==
    /\ Entries \subseteq Nat \ {NoEntry} /\ IsFiniteSet(Entries)
    /\ \A p \in ProductRows : \A x \in ModuleRows \cup FeatureRows \cup RequirementRows : p < x
    /\ \A m \in ModuleRows : \A x \in FeatureRows \cup RequirementRows : m < x
    /\ \A f \in FeatureRows : \A r \in RequirementRows : f < r
    /\ ParentOf \in [Entries -> Entries \cup {NoEntry}]
    /\ \A x \in Entries : CASE x \in ProductRows -> ParentOf[x] = NoEntry
                            [] x \in ModuleRows  -> ParentOf[x] \in ProductRows
                            [] x \in FeatureRows -> ParentOf[x] \in ModuleRows
                            [] OTHER             -> ParentOf[x] \in FeatureRows
    /\ Score \in [Entries -> [Labels -> 0..5]]
    /\ Openings \subseteq ({"tree", "search"} \X (Entries \cup {NoEntry}) \X SUBSET Branches)
    /\ {ChildLimit, PanelSize, SearchLimit} \subseteq Nat \ {0}
    /\ {MaxWritten, MaxMeanwhile} \subseteq Nat

VARIABLES
    entry,      \* entry[x]: the row; version 0 for none
    view        \* the page load: one is enough, since CatalogueInit is any catalogue

catalogueVars == <<entry, view>>

Children(x) == {y \in Entries : ParentOf[y] = x}

Grandchildren(x) == UNION {Children(y) : y \in Children(x)}

Up(x) == IF x = NoEntry THEN NoEntry ELSE ParentOf[x]

\* CatalogueDetail.path: the branches that x is in, or is.
Path(x) == {x, Up(x), Up(Up(x)), Up(Up(Up(x)))} \cap Branches

Existing == {x \in Entries : entry[x].version > 0}

\* orderBy businessId, take n.
FirstOf(S, n) == {x \in S : Cardinality({y \in S : y < x}) < n}

-------------------------------------------------------------------------------
\* The queries of a page load

TreeQueries == {"resolve", "products", "moduleCounts", "productTotal", "modules", "featureCounts",
                "features", "requirementCounts"}

SearchQueries == {"findProducts", "findModules", "findFeatures", "findRequirements"}

\* What the panel asks for, by the level of the selected record.
ProductDetail == {"record", "rows", "childTotal", "featureTotal", "requirementTotal", "rowCounts"}
ModuleDetail == {"record", "rows", "childTotal", "requirementTotal", "rowCounts"}
FeatureDetail == {"record", "rows", "childTotal"}
RequirementDetail == {"record"}

Detail(x) == CASE x \in ProductRows     -> ProductDetail
               [] x \in ModuleRows      -> ModuleDetail
               [] x \in FeatureRows     -> FeatureDetail
               [] x \in RequirementRows -> RequirementDetail
               [] OTHER                 -> {}

PageQueries == TreeQueries \cup SearchQueries \cup ProductDetail

View == [mode     : {"none", "tree", "search"},
         sel      : Entries \cup {NoEntry},
         open     : SUBSET Branches,
         answered : SUBSET PageQueries,
         seen     : [PageQueries -> SUBSET Entries],    \* the rows a query found or counted
         hits     : SUBSET (Entries \X (0..4)),     \* with the score of the label found
         start    : SUBSET Entries,                 \* history: what there was when it began
         touched  : SUBSET Entries]                 \* history: what was written since

NoView == [mode |-> "none", sel |-> NoEntry, open |-> {}, answered |-> {},
           seen |-> [q \in PageQueries |-> {}], hits |-> {}, start |-> {}, touched |-> {}]

CatalogueTypeOK ==
    /\ entry \in [Entries -> [version : Nat, label : Labels]]
    /\ view \in View

\* loadDetail swallows a 404: there is no panel then, and nothing more to ask for it.
NotFound == "record" \in view.answered /\ view.seen["record"] = {}

Asked ==
    (IF NotFound THEN {"record"} ELSE Detail(view.sel))
        \cup CASE view.mode = "tree"   -> TreeQueries
               [] view.mode = "search" -> SearchQueries
               [] OTHER                -> {}

\* What must have been answered before q is sent.
Before(q) ==
    CASE q \in {"record", "resolve"} -> {}
      [] q \in {"rows", "childTotal", "featureTotal", "requirementTotal"} -> {"record"}
      [] q = "rowCounts" -> ProductDetail \ {"rowCounts"}
      [] q \in {"products", "moduleCounts"} \cup SearchQueries -> ProductDetail \cup {"resolve"}
      [] q = "productTotal"      -> {"products", "moduleCounts"}
      [] q = "modules"           -> {"productTotal"}
      [] q = "featureCounts"     -> {"modules"}
      [] q = "features"          -> {"featureCounts"}
      [] q = "requirementCounts" -> {"features"}

\* withAncestors: what the URL opens, and the branch that the selection is in.
Opened == view.seen["resolve"] \cup IF view.seen["record"] = {} THEN {} ELSE Path(view.sel)

\* The rows that q reads, whenever it does.
Reads(q) ==
    CASE q = "record"                    -> {view.sel}
      [] q \in {"rows", "childTotal"}    -> Children(view.sel)
      [] q = "featureTotal"              -> Grandchildren(view.sel)
      [] q = "requirementTotal"          -> IF view.sel \in ProductRows
                                            THEN UNION {Children(y) : y \in Grandchildren(view.sel)}
                                            ELSE Grandchildren(view.sel)
      [] q = "rowCounts"                 -> UNION {Children(y) : y \in view.seen["rows"]}
      [] q = "resolve"                   -> view.open
      [] q \in {"products", "productTotal", "findProducts"} -> ProductRows
      [] q \in {"moduleCounts", "findModules"} -> ModuleRows
      [] q = "modules"                   -> UNION {Children(p) : p \in Opened \cap ProductRows}
      [] q = "featureCounts"             -> UNION {Children(m) : m \in view.seen["modules"]}
      [] q = "features"                  -> UNION {Children(m) : m \in Opened \cap ModuleRows}
      [] q = "requirementCounts"         -> UNION {Children(f) : f \in view.seen["features"]}
      [] q = "findFeatures"              -> FeatureRows
      [] OTHER                           -> RequirementRows

\* containsAny
Matches(x) == Score[x][entry[x].label] < 5

\* One row past the limit tells whether there is anything past it.
Take(q, S) ==
    CASE q = "rows"             -> FirstOf(S, PanelSize)
      [] q = "products"         -> FirstOf(S, ChildLimit + 1)
      [] q \in SearchQueries    -> FirstOf({x \in S : Matches(x)}, SearchLimit + 1)
      [] OTHER                  -> S

OpenPage(mode, x, open) ==
    /\ view.mode = "none"
    /\ view' = [NoView EXCEPT !.mode = mode, !.sel = x, !.open = open, !.start = Existing]
    /\ UNCHANGED entry

AnswerQuery(q) ==
    /\ q \in Asked \ view.answered
    /\ Before(q) \cap Asked \subseteq view.answered
    /\ LET found == Take(q, Reads(q) \cap Existing)
       IN  view' = [view EXCEPT !.answered = @ \cup {q}, !.seen[q] = found,
                                !.hits = IF q \in SearchQueries
                                         THEN @ \cup {<<x, Score[x][entry[x].label]>> : x \in found}
                                         ELSE @]
    /\ UNCHANGED entry

Drawn == view.mode # "none" /\ Asked \subseteq view.answered

-------------------------------------------------------------------------------
\* Writing

Write(x, row) ==
    /\ entry' = [entry EXCEPT ![x] = row]
    /\ view' = IF view.mode = "none" THEN view ELSE [view EXCEPT !.touched = @ \cup {x}]

\* The ID is the allocator's, or the caller's.  The parent is looked up before the transaction,
\* and stays.
AddEntry(x, t) == x \notin Existing /\ Write(x, [version |-> 1, label |-> t])

CreateProduct(x, t) == x \in ProductRows /\ AddEntry(x, t)
CreateModule(x, t) == x \in ModuleRows /\ ParentOf[x] \in Existing /\ AddEntry(x, t)
CreateFeature(x, t) == x \in FeatureRows /\ ParentOf[x] \in Existing /\ AddEntry(x, t)
CreateRequirement(x, t) == x \in RequirementRows /\ ParentOf[x] \in Existing /\ AddEntry(x, t)

\* Mutant of Relabel: update where {id}.
RelabelAnyway(x, t, shown) ==
    /\ x \in Existing /\ entry[x].version < MaxWritten
    /\ Write(x, [version |-> entry[x].version + 1, label |-> t])

\* update where {id, version}, with the version that the caller was shown.
Relabel(x, t, shown) ==
    /\ x \in Existing /\ entry[x].version = shown /\ shown < MaxWritten
    /\ Write(x, [version |-> shown + 1, label |-> t])

UpdateProduct(x, t, shown) == x \in ProductRows /\ Relabel(x, t, shown)
UpdateModule(x, t, shown) == x \in ModuleRows /\ Relabel(x, t, shown)
UpdateFeature(x, t, shown) == x \in FeatureRows /\ Relabel(x, t, shown)
UpdateRequirement(x, t, shown) == x \in RequirementRows /\ Relabel(x, t, shown)

\* Any catalogue with every parent in it.
CatalogueInit ==
    /\ entry \in [Entries -> [version : {0, 1}, label : Labels]]
    /\ \A x \in Existing : ParentOf[x] \in Existing \cup {NoEntry}
    /\ view = NoView

CatalogueWrite ==
    \E x \in Entries, t \in Labels :
        \/ CreateProduct(x, t) \/ CreateModule(x, t) \/ CreateFeature(x, t)
        \/ CreateRequirement(x, t)
        \/ UpdateProduct(x, t, entry[x].version) \/ UpdateModule(x, t, entry[x].version)
        \/ UpdateFeature(x, t, entry[x].version) \/ UpdateRequirement(x, t, entry[x].version)

CatalogueNext ==
    \/ view.mode # "none" /\ Cardinality(view.touched) < MaxMeanwhile /\ CatalogueWrite
    \/ \E page \in Openings : OpenPage(page[1], page[2], page[3])
    \/ \E q \in PageQueries : AnswerQuery(q)

CatalogueSpec == CatalogueInit /\ [][CatalogueNext]_catalogueVars

-------------------------------------------------------------------------------
\* What is drawn

OnScreen(rows) == FirstOf(rows, ChildLimit)

\* Mutant of Hidden: what is hidden is measured against the rows that were fetched.
HiddenOfFetched(rows, total) == Cardinality(rows) - Cardinality(OnScreen(rows))

\* capped: what is hidden is measured against the database's count for the branch.
Hidden(rows, total) ==
    IF Cardinality(rows) <= ChildLimit THEN 0
    ELSE Max({0, total - Cardinality(OnScreen(rows))})

\* assembleTree: the rows and the count of the branches drawn open, the root first.
Fetched(b) == CASE b = NoEntry       -> view.seen["products"]
                [] b \in ProductRows -> view.seen["modules"] \cap Children(b)
                [] OTHER             -> view.seen["features"] \cap Children(b)

Counted(b) == CASE b = NoEntry       -> IF Cardinality(Fetched(b)) <= ChildLimit
                                       THEN Cardinality(Fetched(b))
                                       ELSE Cardinality(view.seen["productTotal"])
                [] b \in ProductRows -> Cardinality(view.seen["moduleCounts"] \cap Children(b))
                [] OTHER             -> Cardinality(view.seen["featureCounts"] \cap Children(b))

DrawnProducts == OnScreen(Fetched(NoEntry)) \cap Opened
DrawnModules == Opened \cap UNION {OnScreen(Fetched(p)) : p \in DrawnProducts}

\* rankHits.  Depth and business ID are the order of the numbers.
Outranks(h, k) == h[2] < k[2] \/ (h[2] = k[2] /\ h[1] < k[1])

Ranked == {h \in view.hits : Cardinality({k \in view.hits : Outranks(k, h)}) < SearchLimit}

Truncated == Cardinality(view.hits) > SearchLimit

LevelQuery(x) == CASE x \in ProductRows -> "findProducts" [] x \in ModuleRows -> "findModules"
                   [] x \in FeatureRows -> "findFeatures" [] OTHER -> "findRequirements"

\* x comes after all that were fetched of its level, and they fill a list.
BehindItsLevel(x) ==
    LET found == view.seen[LevelQuery(x)]
    IN  Cardinality(found) > SearchLimit /\ \A y \in found : y < x

-------------------------------------------------------------------------------
\* Properties

\* "+ 312 more is a fact about the catalogue": under every branch that is drawn open, the children
\* on screen and those counted as held back are at least what was there when the page began to
\* load and at most what is there now, whatever is created between the queries.
TreeAddsUp ==
    Drawn /\ view.mode = "tree" =>
        \A b \in {NoEntry} \cup DrawnProducts \cup DrawnModules :
            LET claimed == Cardinality(OnScreen(Fetched(b))) + Hidden(Fetched(b), Counted(b))
            IN  /\ Cardinality(Children(b) \cap view.start) <= claimed
                /\ claimed <= Cardinality(Children(b) \cap Existing)

\* The panel's totals and the rows beneath them tell of the same records, but for those written
\* in the meantime; the list may be cut, the totals are not.
PanelAddsUp ==
    LET seen == view.seen
        differ(S, T) == (S \ T) \cup (T \ S)
        uncut == seen["rows"] = seen["childTotal"]
        below == IF view.sel \in ProductRows THEN "featureTotal" ELSE "requirementTotal"
    IN  Drawn /\ ~NotFound /\ view.sel \in Branches =>
            /\ Cardinality(seen["rows"]) < PanelSize =>
                  differ(seen["rows"], seen["childTotal"]) \subseteq view.touched
            /\ uncut => differ(seen["rowCounts"], seen[below]) \subseteq view.touched

\* A search that does not say it was cut shows every match that was there all the time; and no
\* match that is left out is better than one that is shown ("the closest matches").  But for what
\* was never ranked: each level is cut by business ID first, so a match behind more of its own
\* level than a list can hold is not there, however close, even an exact business ID.
SearchHidesNothing ==
    Drawn /\ view.mode = "search" =>
        \A x \in view.start \ view.touched :
            LET hit == <<x, Score[x][entry[x].label]>>
            IN  Matches(x) /\ hit \notin Ranked =>
                    /\ Truncated
                    /\ \/ \A k \in Ranked : ~Outranks(hit, k)
                       \/ BehindItsLevel(x)

\* What the three modes of the explorer promise, on one screen.
ExplorerAddsUp == TreeAddsUp /\ PanelAddsUp /\ SearchHidesNothing
====
