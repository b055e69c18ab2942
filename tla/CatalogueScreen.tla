---- MODULE CatalogueScreen ----
(* One viewer of the catalogue explorer: the selection and the open branches,  *)
(* which live in the URL (selection.ts), and the dialogs that edit the         *)
(* selected record or add one beneath it (CatalogueEditForms, CatalogueForms). *)
(* A dialog keeps what was typed; the record, the version and the parent that  *)
(* it submits are those of the page, which Back and Forward can change while   *)
(* it is open.  Everybody else writes the catalogue in the meantime.           *)

EXTENDS Catalogue, SequencesExt

CONSTANTS
    MaxOpen,            \* MAX_OPEN_NODES
    MaxTurns            \* bound: navigations and writes

ASSUME CatalogueScreenAssumption == MaxOpen \in Nat \ {0} /\ MaxTurns \in Nat /\ Labels # {}

VARIABLES
    screen,     \* the page, the page before it, and the dialog
    turns,      \* navigations and writes so far, for the bound only
    squeezed,    \* history: whether a branch was to be opened beyond MaxOpen
    misfiled    \* history: of the dialogs that wrote to, or over, what they had not shown, whether
                \* Back or Forward had been used while they were open

viewerVars == <<screen, turns, squeezed, misfiled>>

Row == [version : Nat, label : Labels]

Page == [sel    : Entries \cup {NoEntry},
         open   : Seq(Branches),            \* in the order of the URL
         wanted : SUBSET Branches]          \* history: opened by hand and not shut since

AnyLabel == CHOOSE t \in Labels : TRUE

NoRow == [version |-> 0, label |-> AnyLabel]

Screen == [page    : Page,
           row     : Row,           \* the selected record as it was drawn
           behind  : Page,          \* the other entry of the browser's history
           kept    : Row,           \* and what the router has kept of it
           pc      : {"drawn", "edit", "add"},
           about   : Entries \cup {NoEntry},    \* the record or the parent that the dialog named
           shown   : Labels,        \* the label that the form was filled with
           typed   : Labels,
           carried : BOOLEAN]

FirstPage == [sel |-> NoEntry, open |-> <<>>, wanted |-> {}]

CatalogueScreenTypeOK ==
    /\ screen \in Screen
    /\ turns \in Nat
    /\ squeezed \in BOOLEAN /\ misfiled \subseteq BOOLEAN

-------------------------------------------------------------------------------
\* The URL

\* parseOpenSet: no more than MaxOpen are read.
ReadOpenSet(p) == SubSeq(p.open, 1, Min({Len(p.open), MaxOpen}))

\* What is drawn open: what the URL names and, for a record that is found, the branch it is in.
OpenOn(p, row) == Range(ReadOpenSet(p)) \cup IF row.version > 0 THEN Path(p.sel) ELSE {}

\* toggleOpenHref, of a set that names a branch once and keeps the order of its additions.
ToggleOpen(p, b) ==
    LET open == ReadOpenSet(p)
    IN  IF b \in Range(open) THEN RemoveAt(open, CHOOSE i \in DOMAIN open : open[i] = b)
        ELSE Append(open, b)

\* Mutant of SelectionHref: the open branches do not travel with a selection.
SelectionHrefAlone(p, x) == [p EXCEPT !.sel = x, !.open = <<>>]

\* selectionHref
SelectionHref(p, x) == [p EXCEPT !.sel = x]

RowOf(x) == IF x = NoEntry THEN NoRow ELSE entry[x]

GoTo(p) ==
    /\ screen.pc = "drawn" /\ turns < MaxTurns
    /\ turns' = turns + 1
    /\ screen' = [screen EXCEPT !.page = p, !.row = RowOf(p.sel),
                                !.behind = screen.page, !.kept = screen.row]
    /\ UNCHANGED <<entry, misfiled>>

\* A row of the tree, a hit, a breadcrumb, a child row; NoEntry for the overview.
SelectEntry(x) ==
    /\ x = NoEntry \/ x \in Existing
    /\ GoTo(SelectionHref(screen.page, x))
    /\ UNCHANGED squeezed

\* The chevron of a branch.
ToggleBranch(b) ==
    LET page == screen.page
        full == Len(ReadOpenSet(page)) = MaxOpen /\ b \notin Range(ReadOpenSet(page))
        shut == b \in OpenOn(page, screen.row)
    IN  /\ b \in Existing
        /\ GoTo([page EXCEPT !.open = ToggleOpen(page, b),
                              !.wanted = IF shut THEN page.wanted \ {b} ELSE page.wanted \cup {b}])
        /\ squeezed' = (squeezed \/ full)

\* collapseAllHref
CollapseAll ==
    /\ screen.page.open # <<>>
    /\ GoTo([screen.page EXCEPT !.open = <<>>, !.wanted = {}])
    /\ UNCHANGED squeezed

-------------------------------------------------------------------------------
\* The dialogs

\* ContextualCreate: what the new record goes beneath; a requirement offers its feature.
Under(x) == IF x \in RequirementRows THEN ParentOf[x] ELSE x

SameLevel(x, y) ==
    \E L \in {{NoEntry}, ProductRows, ModuleRows, FeatureRows, RequirementRows} : {x, y} \subseteq L

\* The form as the page fills it in.
Filled(pc) == [screen EXCEPT !.pc = pc,
                             !.about = IF pc = "edit" THEN screen.page.sel ELSE Under(screen.page.sel),
                             !.shown = IF pc = "edit" THEN screen.row.label ELSE AnyLabel,
                             !.typed = IF pc = "edit" THEN screen.row.label ELSE AnyLabel,
                             !.carried = FALSE]

Emptied == [screen EXCEPT !.pc = "drawn", !.about = NoEntry, !.shown = AnyLabel, !.typed = AnyLabel,
                          !.carried = FALSE]

OpenDialog(pc) ==
    /\ screen.pc = "drawn"
    /\ pc = "edit" => screen.row.version > 0
    /\ screen.page.sel # NoEntry => screen.row.version > 0      \* or there is no detail
    /\ screen' = Filled(pc)
    /\ UNCHANGED <<entry, turns, squeezed, misfiled>>

Type(t) ==
    /\ screen.pc # "drawn" /\ t # screen.typed
    /\ screen' = [screen EXCEPT !.typed = t]
    /\ UNCHANGED <<entry, turns, squeezed, misfiled>>

\* Modal takes its body down with it.
CloseDialog ==
    /\ screen.pc # "drawn"
    /\ screen' = Emptied
    /\ UNCHANGED <<entry, turns, squeezed, misfiled>>

\* Back or Forward: from the router's cache or drawn anew.  An open dialog whose control is in the
\* same place on both pages stays open, with what was typed; every other one is gone.
Traverse(fresh) ==
    LET there == screen.behind.sel
        here == screen.page.sel
        stays == CASE screen.pc = "edit" -> SameLevel(here, there)
                   [] screen.pc = "add"  -> SameLevel(Under(here), Under(there))
                   [] OTHER              -> FALSE
        base == IF stays THEN [screen EXCEPT !.carried = TRUE] ELSE Emptied
    IN  /\ turns < MaxTurns /\ turns' = turns + 1
        /\ screen' = [base EXCEPT !.page = screen.behind, !.behind = screen.page,
                                  !.row = IF fresh THEN RowOf(there) ELSE screen.kept,
                                  !.kept = screen.row]
        /\ UNCHANGED <<entry, squeezed, misfiled>>

\* A dialog that wrote to x what was meant for `about`, or replaced a label it never showed.
Judge(x, replaced) ==
    misfiled' = IF x # screen.about \/ replaced # screen.shown
                THEN misfiled \cup {screen.carried} ELSE misfiled

\* revalidatePath and refreshScreen: the same URL, drawn anew, with nothing kept of other pages.
Refreshed(x) == [Emptied EXCEPT !.row = entry'[x],
                                !.kept = IF screen.behind.sel = NoEntry THEN NoRow
                                         ELSE entry'[screen.behind.sel]]

\* "Hidden id + version travel with it."
SaveEdit ==
    LET x == screen.page.sel
        t == screen.typed
        shown == screen.row.version
    IN  /\ screen.pc = "edit" /\ turns < MaxTurns /\ turns' = turns + 1
        /\ \/ UpdateProduct(x, t, shown) \/ UpdateModule(x, t, shown)
           \/ UpdateFeature(x, t, shown) \/ UpdateRequirement(x, t, shown)
        /\ Judge(x, entry[x].label)
        /\ screen' = Refreshed(x)
        /\ UNCHANGED squeezed

SaveNew(x) ==
    /\ screen.pc = "add" /\ ParentOf[x] = Under(screen.page.sel)
    /\ turns < MaxTurns /\ turns' = turns + 1
    /\ \/ CreateProduct(x, screen.typed) \/ CreateModule(x, screen.typed)
       \/ CreateFeature(x, screen.typed) \/ CreateRequirement(x, screen.typed)
    /\ Judge(ParentOf[x], screen.shown)
    /\ screen' = [Emptied EXCEPT !.row = RowOf(screen.page.sel), !.kept = RowOf(screen.behind.sel)]
    /\ UNCHANGED squeezed

\* VERSION_CONFLICT or another failure: the notice, and the form as the page fills it in.  The
\* page, and the version it would submit, stay as they are.
RefuseSave ==
    /\ screen.pc # "drawn"
    /\ screen' = Filled(screen.pc)
    /\ UNCHANGED <<entry, turns, squeezed, misfiled>>

-------------------------------------------------------------------------------
CatalogueScreenInit ==
    /\ CatalogueInit
    /\ screen = [page |-> FirstPage, row |-> NoRow, behind |-> FirstPage, kept |-> NoRow,
                 pc |-> "drawn", about |-> NoEntry, shown |-> AnyLabel, typed |-> AnyLabel,
                 carried |-> FALSE]
    /\ turns = 0
    /\ squeezed = FALSE /\ misfiled = {}

CatalogueScreenNext ==
    \/ /\ UNCHANGED view
       /\ \/ \E x \in Entries \cup {NoEntry} : SelectEntry(x)
          \/ \E b \in Branches : ToggleBranch(b)
          \/ CollapseAll
          \/ \E pc \in {"edit", "add"} : OpenDialog(pc)
          \/ \E t \in Labels : Type(t)
          \/ \E fresh \in BOOLEAN : Traverse(fresh)
          \/ CloseDialog \/ RefuseSave
    \/ SaveEdit
    \/ \E x \in Entries : SaveNew(x)
    \/ /\ turns < MaxTurns /\ turns' = turns + 1
       /\ CatalogueWrite /\ UNCHANGED <<screen, squeezed, misfiled>>

CatalogueScreenSpec == CatalogueScreenInit /\ [][CatalogueScreenNext]_<<catalogueVars, viewerVars>>

-------------------------------------------------------------------------------
\* Properties

\* "Any number of branches stay open" and "choosing a record must not collapse it": what the viewer
\* opened and did not shut is open on every page they come to, as long as MAX_OPEN_NODES were
\* enough; one beyond them is dropped without a word.
OpenBranchesStayOpen == squeezed \/ screen.page.wanted \subseteq OpenOn(screen.page, screen.row)

\* "A concurrent edit surfaces as the VERSION_CONFLICT copy rather than a silent overwrite": what a
\* dialog writes goes to the record, or beneath the parent, that it named, and replaces the label
\* that it showed, unless Back or Forward was used while it was open.
EditsAreInformed == FALSE \notin misfiled
====
