---- MODULE MCServicesProofs ----
(* Side by side: what holds of each component holds of all of them together,   *)
(* because a step of one is a step of none of the others.                      *)
EXTENDS MCServices, AccountsProofs, TestCasesProofs, ServiceProofs, ScreenProofs

\* A step of one component is a step of none of the others.
LEMMA OneMoves ==
    ASSUME [ServicesNext]_vars
    PROVE  /\ part' = part
           /\ [AccountsNext]_accountVars /\ [ThrottleNext]_throttleVars
           /\ [IdentifiersNext]_identifierVars /\ [ConnectionNext]_connectionVars
           /\ [TestCasesNext]_caseVars /\ [ImportsNext]_importVars /\ [ReportsNext]_reportVars
           /\ [FinalizeDraftNext]_draftVars
           /\ part # "screen" => [CatalogueNext]_catalogueVars
           /\ part = "screen" => [CatalogueScreenNext]_<<catalogueVars, viewerVars>>
           /\ [PickNext]_pickVars /\ [PickerNext]_boxVars /\ [ChecksNext]_checkVars
           /\ [FiltersNext]_filterVars
<1>1. ASSUME UNCHANGED vars
      PROVE  /\ UNCHANGED part
             /\ UNCHANGED accountVars /\ UNCHANGED throttleVars /\ UNCHANGED identifierVars
             /\ UNCHANGED connectionVars /\ UNCHANGED caseVars /\ UNCHANGED importVars
             /\ UNCHANGED reportVars /\ UNCHANGED draftVars /\ UNCHANGED catalogueVars
             /\ UNCHANGED viewerVars /\ UNCHANGED pickVars /\ UNCHANGED boxVars
             /\ UNCHANGED checkVars /\ UNCHANGED filterVars
  BY <1>1 DEF vars
<1>2. ASSUME NEW p, Rest(p)
      PROVE  /\ UNCHANGED part
             /\ p # "accounts" => UNCHANGED accountVars
             /\ p # "throttle" => UNCHANGED throttleVars
             /\ p # "identifiers" => UNCHANGED identifierVars
             /\ p # "connection" => UNCHANGED connectionVars
             /\ p # "cases" => UNCHANGED caseVars
             /\ p # "imports" => UNCHANGED importVars
             /\ p # "reports" => UNCHANGED reportVars
             /\ p # "draft" => UNCHANGED draftVars
             /\ p \notin {"explorer", "screen"} => UNCHANGED catalogueVars
             /\ p # "screen" => UNCHANGED viewerVars
             /\ p # "picker" => UNCHANGED pickVars
             /\ p # "box" => UNCHANGED boxVars
             /\ p # "checks" => UNCHANGED checkVars
             /\ p # "filters" => UNCHANGED filterVars
  BY <1>2 DEF Rest
<1> QED
  BY <1>1, <1>2 DEF ServicesNext

\* With every other component beside them, for any instance: what a reader narrows is never what is
\* kept from them.
THEOREM FilteringStaysHonest == ServicesSpec => []FilteringIsHonest
<1>1. ServicesInit => PickInit /\ FiltersInit
  BY DEF ServicesInit
<1>2. [ServicesNext]_vars => [PickNext]_pickVars /\ [FiltersNext]_filterVars
  BY OneMoves
<1>3. NarrowingIsHonest /\ FiltersAreHonest => FilteringIsHonest
  BY DEF FilteringIsHonest
<1> QED
  BY <1>1, <1>2, <1>3, NarrowingStaysHonest, FiltersStayHonest, PTL DEF ServicesSpec, PickSpec, FiltersSpec

\* On the catalogue's screen nothing is read for the explorer.
ScreenSide == CatScreenInv /\ view = NoView

LEMMA ScreenSideNext == ScreenSide /\ [CatalogueScreenNext]_<<catalogueVars, viewerVars>> => ScreenSide'
<1> SUFFICES ASSUME ScreenSide, [CatalogueScreenNext]_<<catalogueVars, viewerVars>> PROVE ScreenSide'
  OBVIOUS
<1>1. CatScreenInv'
  BY CatScreenNext DEF ScreenSide
<1>2. view = NoView /\ view.mode = "none"
  BY DEF ScreenSide, NoView
<1>3. ASSUME NEW x, NEW row, Write(x, row) PROVE view' = view
  BY <1>2, <1>3 DEF Write
<1>4. ASSUME NEW x, NEW t, NEW n, AddEntry(x, t) \/ Relabel(x, t, n) PROVE view' = view
  BY <1>3, <1>4 DEF AddEntry, Relabel
<1>5. ASSUME NEW x, NEW t, NEW n,
             \/ CreateProduct(x, t) \/ CreateModule(x, t) \/ CreateFeature(x, t)
             \/ CreateRequirement(x, t)
             \/ UpdateProduct(x, t, n) \/ UpdateModule(x, t, n)
             \/ UpdateFeature(x, t, n) \/ UpdateRequirement(x, t, n)
      PROVE  view' = view
  BY <1>4, <1>5 DEF CreateProduct, CreateModule, CreateFeature, CreateRequirement,
                    UpdateProduct, UpdateModule, UpdateFeature, UpdateRequirement
<1>6. CASE SaveEdit
  BY <1>1, <1>2, <1>5, <1>6 DEF SaveEdit, ScreenSide
<1>7. ASSUME NEW x \in Entries, SaveNew(x) PROVE ScreenSide'
  BY <1>1, <1>2, <1>5, <1>7 DEF SaveNew, ScreenSide
<1>8. CASE CatalogueWrite
  BY <1>1, <1>2, <1>5, <1>8 DEF CatalogueWrite, ScreenSide
<1>9. CASE UNCHANGED view
  BY <1>1, <1>2, <1>9 DEF ScreenSide
<1>10. UNCHANGED <<catalogueVars, viewerVars>> => UNCHANGED view
  BY DEF catalogueVars
<1> QED
  BY <1>6, <1>7, <1>8, <1>9, <1>10 DEF CatalogueScreenNext

\* The explorer's pages and the catalogue's screen share the catalogue, and are not open at once.
CatalogueSide ==
    /\ part # "screen" => ExplorerInv
    /\ part = "screen" => ScreenSide

LEMMA CatalogueSideNext == CatalogueSide /\ [ServicesNext]_vars => CatalogueSide'
<1> SUFFICES ASSUME CatalogueSide, [ServicesNext]_vars PROVE CatalogueSide'
  OBVIOUS
<1>1. /\ part' = part
      /\ part # "screen" => [CatalogueNext]_catalogueVars
      /\ part = "screen" => [CatalogueScreenNext]_<<catalogueVars, viewerVars>>
  BY OneMoves
<1>2. part # "screen" => ExplorerInv'
  BY <1>1, ExplorerNext DEF CatalogueSide
<1>3. part = "screen" => ScreenSide'
  BY <1>1, ScreenSideNext DEF CatalogueSide
<1> QED
  BY <1>1, <1>2, <1>3 DEF CatalogueSide

LEMMA CatalogueSideGives ==
    ASSUME CatalogueSide
    PROVE  CatalogueTypeOK /\ (part = "screen" => CatalogueScreenTypeOK)
<1>1. CASE part # "screen"
  BY <1>1 DEF CatalogueSide, ExplorerInv
<1>2. CASE part = "screen"
  <2>1. NoView \in View
    BY DEF NoView, View
  <2>2. entry \in [Entries -> [version : Nat, label : Labels]] /\ CatalogueScreenTypeOK
    BY <1>2 DEF CatalogueSide, ScreenSide, CatScreenInv, Row
  <2> QED
    BY <1>2, <2>1, <2>2 DEF CatalogueSide, ScreenSide, CatalogueTypeOK
<1> QED
  BY <1>1, <1>2

\* Whichever component moves, and for any instance of each: it is of its type.
THEOREM ServicesAreTyped == ServicesSpec => []ServicesTypeOK
<1>1. ServicesInit => /\ AccountsInit /\ ThrottleInit /\ IdentifiersInit /\ ConnectionInit
                      /\ TestCasesInit /\ ImportsInit /\ ReportsInit /\ FinalizeDraftInit
                      /\ PickInit /\ PickerInit /\ ChecksInit /\ FiltersInit
  BY DEF ServicesInit
<1>2. ServicesInit => CatalogueSide
  <2>1. ServicesInit => CatalogueScreenInit /\ CatalogueInit /\ view = NoView
    BY DEF ServicesInit, CatalogueScreenInit, CatalogueInit
  <2> QED
    BY <2>1, CatScreenInit, ExplorerInit DEF CatalogueSide, ScreenSide
<1>3. [ServicesNext]_vars => /\ [AccountsNext]_accountVars /\ [ThrottleNext]_throttleVars
                             /\ [IdentifiersNext]_identifierVars /\ [ConnectionNext]_connectionVars
                             /\ [TestCasesNext]_caseVars /\ [ImportsNext]_importVars
                             /\ [ReportsNext]_reportVars /\ [FinalizeDraftNext]_draftVars
                             /\ [PickNext]_pickVars /\ [PickerNext]_boxVars
                             /\ [ChecksNext]_checkVars /\ [FiltersNext]_filterVars
  BY OneMoves
<1>4. ServicesSpec => []CatalogueSide
  BY <1>2, CatalogueSideNext, PTL DEF ServicesSpec
<1>5. ServicesSpec => []AccountsTypeOK /\ []ThrottleTypeOK /\ []IdentifiersTypeOK /\ []ConnectionTypeOK
  BY <1>1, <1>3, AccountsAreTyped, ThrottleTyped, IdentifiersTyped, ConnectionIsTyped, PTL
     DEF ServicesSpec, AccountsSpec, ThrottleSpec, IdentifiersSpec, ConnectionSpec
<1>6. ServicesSpec => []TestCasesTypeOK /\ []ImportsTypeOK /\ []ReportsTypeOK /\ []FinalizeDraftTypeOK
  BY <1>1, <1>3, TestCasesAreTyped, ImportsTyped, ReportsTyped, DraftTyped, PTL
     DEF ServicesSpec, TestCasesSpec, ImportsSpec, ReportsSpec, FinalizeDraftSpec
<1>7. ServicesSpec => []PickTypeOK /\ []PickerTypeOK /\ []ChecksTypeOK /\ []FiltersTypeOK
  BY <1>1, <1>3, PickTyped, BoxTyped, ChecksTyped, FilterInit, FilterNext, FilterGives, PTL
     DEF ServicesSpec, PickSpec, PickerSpec, ChecksSpec, FiltersSpec
<1>8. /\ AccountsTypeOK /\ ThrottleTypeOK /\ IdentifiersTypeOK /\ ConnectionTypeOK
      /\ TestCasesTypeOK /\ ImportsTypeOK /\ ReportsTypeOK /\ FinalizeDraftTypeOK
      /\ PickTypeOK /\ PickerTypeOK /\ ChecksTypeOK /\ FiltersTypeOK /\ CatalogueSide
      => ServicesTypeOK
  BY CatalogueSideGives DEF ServicesTypeOK
<1> QED
  BY <1>4, <1>5, <1>6, <1>7, <1>8, PTL
====
