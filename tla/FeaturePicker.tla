---- MODULE FeaturePicker ----
(* The control that a feature is chosen with when a requirement is added       *)
(* without a selection (Picker and Combo of ui/picker.tsx on the search path,  *)
(* in ChildForm of catalogue/CatalogueForms.tsx): a box that searches while    *)
(* one types, 300 ms after the last key, a list that opens and closes, and an  *)
(* answer that only taking a row moves.  Searches answer in any order.         *)
(* Features are numbered in the order of their business IDs.                   *)

EXTENDS Integers, FiniteSets

CONSTANTS
    Offerable,      \* features
    NoFeature,      \* the answer of a field that is blank
    Needles,        \* what can be typed, but for the empty needle ""
    Named,          \* Named[n]: the features that needle n is found in
    AtMost,         \* DEFAULT_SEARCH_LIMIT
    MaxInFlight,    \* bound: unanswered searches for one needle
    MaxStrokes      \* bound: what the reader does in one dialog

ASSUME FeaturePickerAssumption ==
    /\ Offerable \subseteq Nat /\ IsFiniteSet(Offerable) /\ NoFeature \notin Offerable
    /\ "" \notin Needles /\ "label" \notin Needles
    /\ Named \in [Needles -> SUBSET Offerable]
    /\ {AtMost, MaxInFlight, MaxStrokes} \subseteq Nat /\ MaxInFlight > 0

VARIABLE
    box             \* the dialog in the browser: AddModal, ChildForm, Picker and Combo

boxVars == box

Typed == Needles \cup {""}

Box == [open     : BOOLEAN,
        text     : Typed \cup {"label"},        \* needle; "label" the name of a feature taken
        timer    : Typed \cup {"none"},         \* the needle that the debounce holds back
        latest   : Typed,                       \* the needle of the newest request
        flight   : [Typed -> 0..MaxInFlight],   \* requests that are not answered
        fetched  : SUBSET Offerable,
        active   : Nat,                         \* the row that the keyboard is at, from 0
        browsing : BOOLEAN,
        value    : Offerable \cup {NoFeature},
        posted   : Offerable \cup {NoFeature},
        pending  : BOOLEAN,                     \* the form has been posted and has no result yet
        quiet    : BOOLEAN,                     \* history: a row was taken with no search left to come, and
                                                \* nobody has typed or moved since
        confirmed : Offerable \cup {NoFeature}, \* history: the row that was taken last
        filed    : Offerable \cup {NoFeature},  \* history: where the requirement went
        strokes  : 0..MaxStrokes]

NoBox == [open |-> FALSE, text |-> "", timer |-> "none", latest |-> "",
          flight |-> [n \in Typed |-> 0], fetched |-> {}, active |-> 0, browsing |-> FALSE,
          value |-> NoFeature, posted |-> NoFeature, pending |-> FALSE, quiet |-> FALSE,
          confirmed |-> NoFeature, filed |-> NoFeature, strokes |-> 0]

PickerTypeOK == box \in Box

-------------------------------------------------------------------------------
\* searchFeatures: one level, the first of them by business ID; a blank needle finds the first page.
FeaturesOf(n) ==
    LET found == IF n = "" THEN Offerable ELSE Named[n]
    IN  {f \in found : Cardinality({g \in found : g < f}) < AtMost}

\* navigable: the rows, in the order of the arrow keys.
PositionOf(f) == Cardinality({g \in box.fetched : g < f})

ListOpen == box.browsing /\ box.fetched # {} /\ ~box.pending

\* chosen: the record that the confirmation line names, or none.
Chosen == IF box.value \in box.fetched THEN box.value ELSE NoFeature

Searching == box.timer # "none" \/ \E n \in Typed : box.flight[n] > 0

-------------------------------------------------------------------------------
\* The dialog.  Its body is mounted while it is open, and asks for the first page: a prefetch.
OpenPicker ==
    /\ ~box.open /\ box.filed = NoFeature
    /\ box' = [NoBox EXCEPT !.open = TRUE, !.flight[""] = 1]

ClosePicker == box.open /\ box' = NoBox

\* A field that is being submitted is text.
Stroke(next) ==
    /\ box.open /\ ~box.pending /\ box.strokes < MaxStrokes
    /\ box' = [next EXCEPT !.strokes = @ + 1]

Focus == ~box.browsing /\ Stroke([box EXCEPT !.browsing = TRUE])

\* schedule; Escape on a box that holds anything is schedule("").
Schedule(n) ==
    /\ n # box.text
    /\ Stroke([box EXCEPT !.text = n, !.browsing = TRUE, !.timer = n, !.quiet = FALSE])

ArrowTo(step) ==
    /\ ListOpen
    /\ LET rows == Cardinality(box.fetched)
       IN  Stroke([box EXCEPT !.active = (@ + step + rows) % rows, !.quiet = FALSE])

\* take: the answer, the name in the box, and the keyboard at the row.
TakeRow(f) ==
    Stroke([box EXCEPT !.value = f, !.confirmed = f, !.browsing = FALSE, !.text = "label",
                       !.active = PositionOf(f), !.quiet = ~Searching])

Click(f) == ListOpen /\ f \in box.fetched /\ TakeRow(f)

\* Enter takes the row that the keyboard is at.
Enter == ListOpen /\ \E f \in box.fetched : PositionOf(f) = box.active /\ TakeRow(f)

\* The debounce ends: run.
Fire ==
    /\ box.open /\ box.timer # "none" /\ box.flight[box.timer] < MaxInFlight
    /\ box' = [box EXCEPT !.timer = "none", !.latest = box.timer, !.flight[box.timer] = @ + 1]

\* Mutant of AnswerSearch: whichever answer comes last is shown.
AnswerSearchAny(n) ==
    /\ box.open /\ box.flight[n] > 0
    /\ box' = [box EXCEPT !.flight[n] = @ - 1, !.fetched = FeaturesOf(n), !.active = 0]

\* searchFeaturesAction answers; an answer to anything but the newest needle is dropped.
AnswerSearch(n) ==
    /\ box.open /\ box.flight[n] > 0
    /\ box' = IF n = box.latest
              THEN [box EXCEPT !.flight[n] = @ - 1, !.fetched = FeaturesOf(n), !.active = 0]
              ELSE [box EXCEPT !.flight[n] = @ - 1]

\* The button, or Enter once the list is gone.
PostForm == box.open /\ ~box.pending /\ box' = [box EXCEPT !.pending = TRUE, !.posted = box.value]

\* createRequirementAction refuses: a blank field, or another one; the form stays.
RefusePost == box.pending /\ box' = [box EXCEPT !.pending = FALSE]

\* useSuccess: the dialog closes.
FilePost ==
    /\ box.pending /\ box.posted # NoFeature
    /\ box' = [NoBox EXCEPT !.filed = box.posted, !.confirmed = box.confirmed]

PickerInit == box = NoBox

PickerNext ==
    \/ OpenPicker \/ ClosePicker \/ Focus \/ Enter \/ Fire \/ PostForm \/ RefusePost \/ FilePost
    \/ \E n \in Typed : Schedule(n) \/ AnswerSearch(n)
    \/ \E step \in {1, -1} : ArrowTo(step)
    \/ \E f \in Offerable : Click(f)

PickerSpec == PickerInit /\ [][PickerNext]_boxVars

-------------------------------------------------------------------------------
\* Properties

\* The list is what the newest search found, however the answers came in, unless that search is
\* under way; the keyboard is at a row of a list that is open; and an answer that was taken when no
\* search was left to come stays on the confirmation line, with the keyboard at it, until
\* somebody types or moves: opening the list again and pressing Enter cannot swap it for another.
ListIsTheNewestSearch == box.open /\ box.flight[box.latest] = 0 => box.fetched = FeaturesOf(box.latest)
KeyboardIsAtARow == ListOpen => \E f \in box.fetched : PositionOf(f) = box.active
AnswerIsKept == box.quiet => Chosen = box.value /\ PositionOf(box.value) = box.active
FiledAsConfirmed == box.filed # NoFeature => box.filed = box.confirmed
PickerTellsTheTruth == ListIsTheNewestSearch /\ KeyboardIsAtARow /\ AnswerIsKept /\ FiledAsConfirmed
====
