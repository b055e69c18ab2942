---- MODULE ScreenProofs ----
(* What the screens keep, for any readers, records and bounds: the grades that *)
(* a finalize records are those that were drawn (FinalizeDraft), a requirement *)
(* is filed under the feature that was confirmed (FeaturePicker), the explorer *)
(* keeps its branches open and its edits informed (CatalogueScreen) and draws  *)
(* what adds up (Catalogue), a filter hides nothing it does not name           *)
(* (CasePicker, ListFilters), and what a suite saw is counted whole (Checks).  *)

EXTENDS FinalizeDraft, CatalogueScreen, CasePicker, FeaturePicker, Checks, ListFilters,
        FiniteSetTheorems, TLAPS

-------------------------------------------------------------------------------
\* What is finalized is what was graded

\* The grades a tab has saved are in its storage, and its page's memory holds the same or nothing.
Kept(w) ==
    /\ window[w].memory \in {NoDraft, window[w].stored}
    /\ window[w].stored = NoDraft \/ window[w].stored.version = 1
    /\ window[w].stored.recorded = lastSaved[w]

\* A run under way is drawn as it is; what is on its way is what was saved last.
Underway ==
    /\ run.version = 1 /\ finalizer = {}
    /\ \A w \in Windows :
          /\ window[w].pc # "elsewhere" => window[w].version = 1
          /\ w \notin refused => Kept(w)
          /\ (window[w].pc = "submitted" /\ w \notin refused) => window[w].posted = lastSaved[w]
          /\ w \notin handedOver => \A c \in Covered : lastSaver[w][c] = window[w].who
    /\ \A m \in adrift :
          /\ m.from \notin refused \cup overtaken => m.grades = lastSaved[m.from]
          /\ m.from \notin handedOver => m.who = window[m.from].who

DraftInv ==
    /\ FinalizeDraftTypeOK
    /\ ~run.finalized => Underway
    /\ FinalizedAsGraded

LEMMA DraftTypes == NothingGraded \in Grades /\ NoDraft \in Draft /\ NoDraft.version = 0
BY DEF NothingGraded, Grades, NoDraft, Draft

\* The row of a tab is replaced.
LEMMA WindowMoves ==
    ASSUME FinalizeDraftTypeOK, NEW w \in Windows, NEW s \in WindowState,
           window' = [window EXCEPT ![w] = s]
    PROVE  /\ window' \in [Windows -> WindowState] /\ window'[w] = s
           /\ \A v \in Windows \ {w} : window'[v] = window[v]
BY DEF FinalizeDraftTypeOK

LEMMA RecordedTyped ==
    ASSUME FinalizeDraftTypeOK, NEW w \in Windows
    PROVE  Held(w) \in Draft /\ Recorded(w) \in Grades
<1>1. window[w].memory \in Draft /\ window[w].stored \in Draft
  BY DEF FinalizeDraftTypeOK, WindowState
<1>2. Held(w) \in Draft
  BY <1>1 DEF Held
<1> QED
  BY <1>2, DraftTypes DEF Recorded, Draft

\* What the form of a run under way shows is what was saved last.
LEMMA RecordedIsSaved ==
    ASSUME DraftInv, ~run.finalized, NEW w \in Windows, w \notin refused, window[w].pc # "elsewhere"
    PROVE  Recorded(w) = lastSaved[w]
<1>1. Kept(w) /\ window[w].version = 1
  BY DEF DraftInv, Underway
<1>2. Held(w) = window[w].stored
  BY <1>1 DEF Kept, Held
<1>3. CASE window[w].stored = NoDraft
  <2>1. lastSaved[w] = NothingGraded /\ Held(w).version # window[w].version
    BY <1>1, <1>2, <1>3, DraftTypes DEF Kept, NoDraft
  <2> QED
    BY <2>1 DEF Recorded
<1>4. CASE window[w].stored.version = 1
  BY <1>1, <1>2, <1>4 DEF Kept, Recorded
<1> QED
  BY <1>1, <1>3, <1>4 DEF Kept

\* A step of one tab that saves nothing and sends nothing: s is how it leaves the tab.
LEMMA GradingTabStep ==
    ASSUME DraftInv, NEW w \in Windows, NEW s \in WindowState, window' = [window EXCEPT ![w] = s],
           UNCHANGED recordVars,
           s.who = window[w].who, s.stored = window[w].stored,
           s.memory = window[w].memory \/ s.memory = NoDraft,
           ~run.finalized /\ s.pc # "elsewhere" => s.version = 1,
           ~run.finalized /\ s.pc = "submitted" /\ w \notin refused => s.posted = lastSaved[w]
    PROVE  DraftInv'
<1>1. FinalizeDraftTypeOK /\ (~run.finalized => Underway) /\ FinalizedAsGraded
  BY DEF DraftInv
<1>2. /\ window' \in [Windows -> WindowState] /\ window'[w] = s
      /\ \A v \in Windows \ {w} : window'[v] = window[v]
  BY <1>1, WindowMoves
<1>3. FinalizeDraftTypeOK'
  BY <1>1, <1>2 DEF FinalizeDraftTypeOK, recordVars
<1>4. ASSUME ~run.finalized PROVE Underway'
  <2>1. Underway /\ \A m \in adrift : m.from \in Windows
    BY <1>1, <1>4 DEF FinalizeDraftTypeOK, Post
  <2>2. w \notin refused => Kept(w)'
    BY <1>2, <2>1 DEF Underway, Kept, recordVars
  <2>3. \A v \in Windows \ {w} : v \notin refused => Kept(v)'
    BY <1>2, <2>1 DEF Underway, Kept, recordVars
  <2>4. \A v \in Windows : window'[v].who = window[v].who
    BY <1>2
  <2> QED
    BY <1>2, <1>4, <2>1, <2>2, <2>3, <2>4 DEF Underway, recordVars
<1>5. FinalizedAsGraded'
  BY <1>1 DEF FinalizedAsGraded, recordVars
<1> QED
  BY <1>3, <1>4, <1>5 DEF DraftInv, recordVars

\* The screen is drawn: of a run under way, at its version.
LEMMA DrawnTab ==
    ASSUME DraftInv, NEW w \in Windows, NEW cleared \in BOOLEAN, Draw(w, cleared)
    PROVE  \E s \in WindowState :
              /\ window' = [window EXCEPT ![w] = s]
              /\ s.who = window[w].who /\ s.stored = window[w].stored
              /\ s.memory = window[w].memory \/ s.memory = NoDraft
              /\ s.pc \in {"working", "readonly"} /\ s.version = run.version
<1> DEFINE s == [window[w] EXCEPT !.pc = IF run.finalized THEN "readonly" ELSE "working",
                                  !.version = run.version,
                                  !.memory = IF cleared THEN NoDraft ELSE window[w].memory,
                                  !.openId = Ungraded]
<1>1. FinalizeDraftTypeOK /\ window[w] \in WindowState /\ run.version \in Nat
  BY DEF DraftInv, FinalizeDraftTypeOK
<1>2. /\ s \in WindowState /\ s.who = window[w].who /\ s.stored = window[w].stored
      /\ s.memory = window[w].memory \/ s.memory = NoDraft
      /\ s.pc \in {"working", "readonly"} /\ s.version = run.version
  BY <1>1, DraftTypes DEF WindowState
<1>3. window' = [window EXCEPT ![w] = s]
  BY <1>1 DEF Draw, FinalizeDraftTypeOK
<1> HIDE DEF s
<1> QED
  BY <1>2, <1>3

LEMMA DraftDraws ==
    ASSUME DraftInv, NEW w \in Windows, NEW cleared \in BOOLEAN, Draw(w, cleared), UNCHANGED recordVars
    PROVE  DraftInv'
<1>1. PICK s \in WindowState :
              /\ window' = [window EXCEPT ![w] = s]
              /\ s.who = window[w].who /\ s.stored = window[w].stored
              /\ s.memory = window[w].memory \/ s.memory = NoDraft
              /\ s.pc \in {"working", "readonly"} /\ s.version = run.version
  BY DrawnTab
<1>2. ~run.finalized => run.version = 1
  BY DEF DraftInv, Underway
<1> QED
  BY <1>1, <1>2, GradingTabStep

LEMMA DraftHandOver ==
    ASSUME DraftInv, NEW w \in Windows, NEW p \in Graders, HandOver(w, p) PROVE DraftInv'
<1>1. FinalizeDraftTypeOK /\ (~run.finalized => Underway) /\ FinalizedAsGraded
  BY DEF DraftInv
<1> DEFINE s == [window[w] EXCEPT !.who = p]
<1>2. /\ s \in WindowState /\ s.pc = "elsewhere" /\ s.memory = window[w].memory
      /\ s.stored = window[w].stored
  BY <1>1 DEF HandOver, WindowState, FinalizeDraftTypeOK
<1>3. window' = [window EXCEPT ![w] = s]
  BY DEF HandOver
<1> HIDE DEF s
<1>4. /\ window' \in [Windows -> WindowState] /\ window'[w] = s
      /\ \A v \in Windows \ {w} : window'[v] = window[v]
  BY <1>1, <1>2, <1>3, WindowMoves
<1>5. /\ UNCHANGED <<run, adrift, saves, lastSaved, lastSaver, refused, overtaken, finalizer>>
      /\ handedOver' = handedOver \cup {w}
  BY DEF HandOver
<1>6. FinalizeDraftTypeOK'
  BY <1>1, <1>4, <1>5 DEF FinalizeDraftTypeOK
<1>7. ASSUME ~run.finalized PROVE Underway'
  <2>1. Underway /\ \A m \in adrift : m.from \in Windows
    BY <1>1, <1>7 DEF FinalizeDraftTypeOK, Post
  <2>2. \A v \in Windows : v \notin refused => Kept(v)'
    BY <1>2, <1>4, <1>5, <2>1 DEF Underway, Kept
  <2> QED
    BY <1>2, <1>4, <1>5, <2>1, <2>2 DEF Underway
<1>8. FinalizedAsGraded'
  BY <1>1, <1>5 DEF FinalizedAsGraded
<1> QED
  BY <1>5, <1>6, <1>7, <1>8 DEF DraftInv

LEMMA DraftSave ==
    ASSUME DraftInv, NEW w \in Windows, NEW grade \in Outcomes, SaveCase(w, grade) PROVE DraftInv'
<1>1. FinalizeDraftTypeOK /\ (~run.finalized => Underway) /\ FinalizedAsGraded
  BY DEF DraftInv
<1>2. PICK c : c = window[w].openId
  OBVIOUS
<1>3. PICK r \in Grades : r = [Recorded(w) EXCEPT ![c] = grade]
  BY <1>1, RecordedTyped DEF Grades
<1>4. PICK d \in Draft : d = Saved(w, grade) /\ d.version = window[w].version /\ d.recorded = r
  <2>1. window[w].version \in Nat
    BY <1>1 DEF FinalizeDraftTypeOK, WindowState
  <2>2. Saved(w, grade) = [version |-> window[w].version, recorded |-> r]
    BY <1>2, <1>3 DEF Saved
  <2> QED
    BY <2>1, <2>2 DEF Draft
<1>5. PICK taken \in BOOLEAN :
        /\ window' = [window EXCEPT ![w].pc = "working", ![w].openId = Ungraded, ![w].memory = d,
                                    ![w].stored = IF taken THEN d ELSE window[w].stored]
        /\ refused' = IF taken THEN refused ELSE refused \cup {w}
  BY <1>4 DEF SaveCase
<1> DEFINE s == [window[w] EXCEPT !.pc = "working", !.openId = Ungraded, !.memory = d,
                                  !.stored = IF taken THEN d ELSE window[w].stored]
<1>6. /\ s \in WindowState /\ s.pc = "working" /\ s.memory = d /\ (taken => s.stored = d)
      /\ s.who = window[w].who /\ s.version = window[w].version
  BY <1>1 DEF FinalizeDraftTypeOK, WindowState
<1>7. window' = [window EXCEPT ![w] = s]
  BY <1>1, <1>5 DEF FinalizeDraftTypeOK
<1> HIDE DEF s
<1>8. /\ window' \in [Windows -> WindowState] /\ window'[w] = s
      /\ \A v \in Windows \ {w} : window'[v] = window[v]
  BY <1>1, <1>6, <1>7, WindowMoves
<1>9. /\ UNCHANGED <<run, adrift, handedOver, finalizer>> /\ window[w].pc = "dialog"
      /\ saves' = saves + 1
      /\ overtaken' = IF \E m \in adrift : m.from = w THEN overtaken \cup {w} ELSE overtaken
      /\ run.finalized => UNCHANGED <<lastSaved, lastSaver>>
      /\ ~run.finalized => /\ lastSaved' = [lastSaved EXCEPT ![w][c] = grade]
                           /\ lastSaver' = [lastSaver EXCEPT ![w][c] = window[w].who]
  BY <1>2 DEF SaveCase
<1>10. /\ lastSaved' \in [Windows -> Grades] /\ lastSaver' \in [Windows -> [Covered -> Graders]]
       /\ \A v \in Windows \ {w} : lastSaved'[v] = lastSaved[v] /\ lastSaver'[v] = lastSaver[v]
  <2>1. window[w].who \in Graders /\ lastSaved[w] \in Grades /\ lastSaver[w] \in [Covered -> Graders]
    BY <1>1 DEF FinalizeDraftTypeOK, WindowState
  <2>2. /\ [lastSaved[w] EXCEPT ![c] = grade] \in Grades
        /\ [lastSaver[w] EXCEPT ![c] = window[w].who] \in [Covered -> Graders]
    BY <2>1 DEF Grades
  <2> QED
    BY <1>1, <1>9, <2>2 DEF FinalizeDraftTypeOK
<1>11. FinalizeDraftTypeOK'
  <2>1. saves' \in Nat /\ refused' \subseteq Windows /\ overtaken' \subseteq Windows
    BY <1>1, <1>5, <1>9 DEF FinalizeDraftTypeOK
  <2> QED
    BY <1>1, <1>8, <1>9, <1>10, <2>1 DEF FinalizeDraftTypeOK
<1>12. ASSUME ~run.finalized PROVE Underway'
  <2>1. Underway /\ \A m \in adrift : m.from \in Windows
    BY <1>1, <1>12 DEF FinalizeDraftTypeOK, Post
  <2>2. w \notin refused' => Kept(w)'
    <3> SUFFICES ASSUME w \notin refused' PROVE Kept(w)'
      OBVIOUS
    <3>1. taken /\ w \notin refused
      BY <1>5
    <3>2. Recorded(w) = lastSaved[w] /\ window[w].version = 1
      BY <1>9, <1>12, <2>1, <3>1, RecordedIsSaved DEF Underway
    <3>3. lastSaved'[w] = [lastSaved[w] EXCEPT ![c] = grade]
      BY <1>1, <1>9, <1>12 DEF FinalizeDraftTypeOK
    <3>4. r = lastSaved'[w]
      BY <1>3, <3>2, <3>3
    <3> QED
      BY <1>4, <1>6, <1>8, <3>1, <3>2, <3>4 DEF Kept
  <2>3. \A v \in Windows \ {w} : v \notin refused' => Kept(v)'
    BY <1>5, <1>8, <1>10, <2>1 DEF Underway, Kept
  <2>4. \A v \in Windows : window'[v].who = window[v].who
    BY <1>6, <1>8
  <2>5. \A v \in Windows : v \notin handedOver => \A e \in Covered : lastSaver'[v][e] = window'[v].who
    <3>1. \A e \in Covered : w \notin handedOver => lastSaver'[w][e] = window[w].who
      BY <1>1, <1>9, <1>12, <2>1 DEF Underway, FinalizeDraftTypeOK
    <3>2. \A v \in Windows \ {w} : v \notin handedOver => \A e \in Covered : lastSaver'[v][e] = window[v].who
      BY <1>10, <2>1 DEF Underway
    <3> QED
      BY <2>4, <3>1, <3>2
  <2>6. ASSUME NEW m \in adrift, m.from \notin refused' \cup overtaken'
        PROVE  m.grades = lastSaved'[m.from]
    <3>1. m.from # w /\ m.from \notin refused \cup overtaken
      BY <1>5, <1>9, <2>6
    <3> QED
      BY <1>10, <2>1, <3>1 DEF Underway
  <2>7. \A v \in Windows : /\ window'[v].pc # "elsewhere" => window'[v].version = 1
                           /\ window'[v].pc = "submitted" /\ v \notin refused' => window'[v].posted = lastSaved'[v]
    <3>1. window[w].version = 1
      BY <1>9, <2>1 DEF Underway
    <3>2. \A v \in Windows \ {w} : v \notin refused' => v \notin refused
      BY <1>5
    <3> QED
      BY <1>6, <1>8, <1>10, <2>1, <3>1, <3>2 DEF Underway
  <2> QED
    BY <1>9, <2>1, <2>2, <2>3, <2>4, <2>5, <2>6, <2>7 DEF Underway
<1>13. FinalizedAsGraded'
  <2>1. CASE run.finalized
    <3>1. refused \subseteq refused' /\ overtaken \subseteq overtaken'
      BY <1>5, <1>9
    <3> QED
      BY <1>1, <1>9, <2>1, <3>1 DEF FinalizedAsGraded
  <2>2. CASE ~run.finalized
    BY <1>1, <1>9, <2>2 DEF FinalizedAsGraded, Underway
  <2> QED
    BY <2>1, <2>2
<1> QED
  BY <1>9, <1>11, <1>12, <1>13 DEF DraftInv

\* The request of a tab, or of a page that is gone, finalizes the run.
LEMMA DraftFinalizes ==
    ASSUME DraftInv, NEW m \in Post, FinalizeRun(m), FinalizeDraftTypeOK',
           m.from \notin refused \cup overtaken => m.grades = lastSaved[m.from],
           m.from \notin handedOver => \A c \in Covered : lastSaver[m.from][c] = m.who
    PROVE  DraftInv'
<1>1. /\ run'.finalized = TRUE /\ run'.results = m.grades /\ finalizer' = {<<m.from, m.who>>}
      /\ UNCHANGED <<saves, lastSaved, lastSaver, refused, handedOver, overtaken>>
  BY DEF FinalizeRun
<1>2. FinalizedAsGraded'
  BY <1>1 DEF FinalizedAsGraded
<1> QED
  BY <1>1, <1>2 DEF DraftInv

LEMMA RunTyped ==
    ASSUME FinalizeDraftTypeOK, NEW m \in Post, FinalizeRun(m)
    PROVE  /\ run' \in [version : Nat, finalized : BOOLEAN, results : Grades]
           /\ finalizer' \subseteq Windows \X Graders
           /\ UNCHANGED <<saves, lastSaved, lastSaver, refused, handedOver, overtaken>>
           /\ ~run.finalized
BY DEF FinalizeRun, FinalizeDraftTypeOK, Post

LEMMA PostedTyped == ASSUME FinalizeDraftTypeOK, NEW w \in Windows PROVE Posted(w) \in Post
<1>1. window[w] \in WindowState
  BY DEF FinalizeDraftTypeOK
<1> QED
  BY <1>1 DEF Posted, Post, WindowState

LEMMA DraftNext == DraftInv /\ [FinalizeDraftNext]_draftVars => DraftInv'
<1> SUFFICES ASSUME DraftInv, [FinalizeDraftNext]_draftVars PROVE DraftInv'
  OBVIOUS
<1>0. FinalizeDraftTypeOK /\ (~run.finalized => Underway) /\ FinalizedAsGraded
  BY DEF DraftInv
<1>1. CASE UNCHANGED draftVars
  <2>1. FinalizeDraftTypeOK'
    BY <1>0, <1>1 DEF FinalizeDraftTypeOK, draftVars
  <2>2. FinalizedAsGraded'
    BY <1>0, <1>1 DEF FinalizedAsGraded, draftVars
  <2>3. ~run.finalized => Underway'
    BY <1>0, <1>1 DEF Underway, Kept, draftVars
  <2> QED
    BY <1>1, <2>1, <2>2, <2>3 DEF DraftInv, draftVars
<1>2. ASSUME NEW w \in Windows, Visit(w) PROVE DraftInv'
  BY <1>2, DraftDraws DEF Visit
<1>3. ASSUME NEW w \in Windows, Reload(w) PROVE DraftInv'
  BY <1>3, DraftDraws DEF Reload
<1>4. ASSUME NEW w \in Windows, Redirected(w) PROVE DraftInv'
  BY <1>4, DraftDraws DEF Redirected
<1>5. ASSUME NEW w \in Windows, Leave(w) PROVE DraftInv'
  <2> DEFINE s == [window[w] EXCEPT !.pc = "elsewhere", !.openId = Ungraded]
  <2>1. /\ s \in WindowState /\ s.pc = "elsewhere" /\ s.who = window[w].who
        /\ s.stored = window[w].stored /\ s.memory = window[w].memory
    BY <1>0 DEF FinalizeDraftTypeOK, WindowState
  <2>2. window' = [window EXCEPT ![w] = s] /\ UNCHANGED recordVars
    BY <1>0, <1>5 DEF Leave, FinalizeDraftTypeOK
  <2> HIDE DEF s
  <2> QED
    BY <2>1, <2>2, GradingTabStep
\* What the form does within the page.
<1>6. ASSUME NEW w \in Windows, window[w].pc # "elsewhere", UNCHANGED recordVars,
             NEW pc \in {"working", "dialog", "done"}, NEW c \in Covered \cup {Ungraded},
             window' = [window EXCEPT ![w].pc = pc, ![w].openId = c]
      PROVE  DraftInv'
  <2> DEFINE s == [window[w] EXCEPT !.pc = pc, !.openId = c]
  <2>1. /\ s \in WindowState /\ s.pc \notin {"elsewhere", "submitted"} /\ s.who = window[w].who
        /\ s.stored = window[w].stored /\ s.memory = window[w].memory /\ s.version = window[w].version
    BY <1>0 DEF FinalizeDraftTypeOK, WindowState
  <2>2. window' = [window EXCEPT ![w] = s]
    BY <1>0, <1>6 DEF FinalizeDraftTypeOK
  <2>3. ~run.finalized => s.version = 1
    BY <1>0, <1>6, <2>1 DEF Underway
  <2> HIDE DEF s
  <2> QED
    BY <1>6, <2>1, <2>2, <2>3, GradingTabStep
<1>7. ASSUME NEW w \in Windows, NEW c \in Covered, OpenCase(w, c) PROVE DraftInv'
  BY <1>6, <1>7 DEF OpenCase
<1>8. ASSUME NEW w \in Windows, Rejected(w) PROVE DraftInv'
  <2>1. ASSUME NEW c \in Covered, window' = [window EXCEPT ![w].pc = "dialog", ![w].openId = c]
        PROVE  DraftInv'
    BY <1>6, <1>8, <2>1 DEF Rejected
  <2>2. CASE window' = [window EXCEPT ![w].pc = "working"]
    <3>1. window[w].openId \in Covered \cup {Ungraded}
      BY <1>0 DEF FinalizeDraftTypeOK, WindowState
    <3>2. window' = [window EXCEPT ![w].pc = "working", ![w].openId = window[w].openId]
      BY <1>0, <2>2 DEF FinalizeDraftTypeOK, WindowState
    <3> QED
      BY <1>6, <1>8, <3>1, <3>2 DEF Rejected
  <2> QED
    BY <1>8, <2>1, <2>2 DEF Rejected
<1>9. ASSUME NEW w \in Windows, Submit(w) PROVE DraftInv'
  <2>1. PICK r \in Grades : r = Recorded(w)
    BY <1>0, RecordedTyped
  <2> DEFINE s == [window[w] EXCEPT !.pc = "submitted", !.posted = r]
  <2>2. /\ s \in WindowState /\ s.pc = "submitted" /\ s.who = window[w].who /\ s.posted = r
        /\ s.stored = window[w].stored /\ s.memory = window[w].memory /\ s.version = window[w].version
    BY <1>0 DEF FinalizeDraftTypeOK, WindowState
  <2>3. window' = [window EXCEPT ![w] = s] /\ UNCHANGED recordVars /\ window[w].pc = "working"
    BY <1>0, <1>9, <2>1 DEF Submit, FinalizeDraftTypeOK
  <2>4. ~run.finalized => s.version = 1 /\ (w \notin refused => s.posted = lastSaved[w])
    BY <1>0, <2>1, <2>2, <2>3, RecordedIsSaved DEF Underway
  <2> HIDE DEF s
  <2> QED
    BY <2>2, <2>3, <2>4, GradingTabStep
<1>10. ASSUME NEW w \in Windows, Finalize(w) PROVE DraftInv'
  <2>1. PICK m \in Post : m = Posted(w)
    BY <1>0, PostedTyped
  <2>2. m.from = w /\ m.who = window[w].who /\ m.grades = window[w].posted
    BY <2>1 DEF Posted
  <2>3. FinalizeRun(m) /\ window[w].pc = "submitted" /\ UNCHANGED adrift
    BY <1>10, <2>1 DEF Finalize
  <2>4. ~run.finalized /\ Underway
    BY <1>0, <2>3, RunTyped
  <2>5. FinalizeDraftTypeOK'
    <3> DEFINE s == [window[w] EXCEPT !.pc = "done"]
    <3>1. s \in WindowState /\ window' = [window EXCEPT ![w] = s]
      BY <1>0, <1>10 DEF Finalize, FinalizeDraftTypeOK, WindowState
    <3>2. window' \in [Windows -> WindowState]
      BY <1>0, <3>1, WindowMoves
    <3> QED
      BY <1>0, <2>3, <3>2, RunTyped DEF FinalizeDraftTypeOK
  <2>6. /\ w \notin refused => m.grades = lastSaved[w]
        /\ w \notin handedOver => \A c \in Covered : lastSaver[w][c] = m.who
    BY <2>2, <2>3, <2>4 DEF Underway
  <2> QED
    BY <2>2, <2>3, <2>5, <2>6, DraftFinalizes
<1>11. ASSUME NEW m \in adrift, FinalizeLate(m) PROVE DraftInv'
  <2>1. m \in Post /\ m.from \in Windows
    BY <1>0 DEF FinalizeDraftTypeOK, Post
  <2>2. FinalizeRun(m) /\ UNCHANGED window /\ adrift' = adrift \ {m}
    BY <1>11 DEF FinalizeLate
  <2>3. ~run.finalized /\ Underway
    BY <1>0, <2>1, <2>2, RunTyped
  <2>4. FinalizeDraftTypeOK'
    BY <1>0, <2>1, <2>2, RunTyped DEF FinalizeDraftTypeOK
  <2>5. /\ m.from \notin refused \cup overtaken => m.grades = lastSaved[m.from]
        /\ m.from \notin handedOver => \A c \in Covered : lastSaver[m.from][c] = m.who
    BY <2>1, <2>3 DEF Underway
  <2> QED
    BY <2>1, <2>2, <2>4, <2>5, DraftFinalizes
<1>12. ASSUME NEW m \in adrift, LoseLate(m) PROVE DraftInv'
  <2>1. /\ adrift' \subseteq adrift
        /\ UNCHANGED <<run, window, saves, lastSaved, lastSaver, refused, handedOver, overtaken, finalizer>>
    BY <1>12 DEF LoseLate
  <2>2. FinalizeDraftTypeOK'
    BY <1>0, <2>1 DEF FinalizeDraftTypeOK
  <2>3. FinalizedAsGraded'
    BY <1>0, <2>1 DEF FinalizedAsGraded
  <2>4. ~run.finalized => Underway'
    BY <1>0, <2>1 DEF Underway, Kept
  <2> QED
    BY <2>1, <2>2, <2>3, <2>4 DEF DraftInv
<1>13. ASSUME NEW w \in Windows, Unanswered(w) PROVE DraftInv'
  <2>1. PICK s \in WindowState :
              /\ window' = [window EXCEPT ![w] = s]
              /\ s.who = window[w].who /\ s.stored = window[w].stored
              /\ s.memory = window[w].memory \/ s.memory = NoDraft
              /\ s.pc \in {"working", "readonly"} /\ s.version = run.version
    BY <1>13, DrawnTab DEF Unanswered
  <2>2. /\ window' \in [Windows -> WindowState] /\ window'[w] = s
        /\ \A v \in Windows \ {w} : window'[v] = window[v]
    BY <1>0, <2>1, WindowMoves
  <2>3. /\ UNCHANGED <<run, saves, lastSaved, lastSaver, refused, handedOver, overtaken, finalizer>>
        /\ \A m \in adrift' : m \in adrift \/ (window[w].pc = "submitted" /\ m = Posted(w))
    BY <1>13 DEF Unanswered
  <2>4. FinalizeDraftTypeOK'
    <3>1. adrift' \subseteq Post
      BY <1>0, <2>3, PostedTyped DEF FinalizeDraftTypeOK
    <3> QED
      BY <1>0, <2>2, <2>3, <3>1 DEF FinalizeDraftTypeOK
  <2>5. FinalizedAsGraded'
    BY <1>0, <2>3 DEF FinalizedAsGraded
  <2>6. ASSUME ~run.finalized PROVE Underway'
    <3>1. Underway /\ run.version = 1
      BY <1>0, <2>6 DEF Underway
    <3>2. \A v \in Windows : window'[v].who = window[v].who
      BY <2>1, <2>2
    <3>3. \A v \in Windows : v \notin refused => Kept(v)'
      <4>1. \A v \in Windows \ {w} : v \notin refused => Kept(v)'
        BY <2>2, <2>3, <3>1 DEF Underway, Kept
      <4>2. w \notin refused => Kept(w)'
        BY <2>1, <2>2, <2>3, <3>1 DEF Underway, Kept
      <4> QED
        BY <4>1, <4>2
    <3>4. ASSUME NEW m \in adrift'
          PROVE  /\ m.from \notin refused \cup overtaken => m.grades = lastSaved[m.from]
                 /\ m.from \notin handedOver => m.who = window[m.from].who
                 /\ m.from \in Windows
      <4>1. CASE m \in adrift
        BY <1>0, <3>1, <4>1 DEF Underway, FinalizeDraftTypeOK, Post
      <4>2. CASE window[w].pc = "submitted" /\ m = Posted(w)
        <5>1. m.from = w /\ m.who = window[w].who /\ m.grades = window[w].posted
          BY <4>2 DEF Posted
        <5>2. w \notin refused => window[w].posted = lastSaved[w]
          BY <3>1, <4>2 DEF Underway
        <5> QED
          BY <5>1, <5>2
      <4> QED
        BY <2>3, <4>1, <4>2
    <3>5. \A v \in Windows : /\ window'[v].pc # "elsewhere" => window'[v].version = 1
                             /\ window'[v].pc = "submitted" /\ v \notin refused => window'[v].posted = lastSaved[v]
                             /\ v \notin handedOver => \A c \in Covered : lastSaver[v][c] = window[v].who
      <4>1. s.version = 1 /\ s.pc # "submitted"
        BY <2>1, <3>1
      <4> QED
        BY <2>2, <3>1, <4>1 DEF Underway
    <3> QED
      BY <2>3, <3>1, <3>2, <3>3, <3>4, <3>5 DEF Underway
  <2> QED
    BY <2>3, <2>4, <2>5, <2>6 DEF DraftInv
<1> QED
  BY <1>1, <1>2, <1>3, <1>4, <1>5, <1>7, <1>8, <1>9, <1>10, <1>11, <1>12, <1>13, DraftHandOver, DraftSave
     DEF FinalizeDraftNext

LEMMA DraftInit == FinalizeDraftInit => DraftInv
<1> SUFFICES ASSUME FinalizeDraftInit PROVE DraftInv
  OBVIOUS
<1>1. PICK who \in [Windows -> Graders] :
          /\ window = [w \in Windows |-> Fresh(w, who[w])]
          /\ lastSaver = [w \in Windows |-> [c \in Covered |-> who[w]]]
  BY DEF FinalizeDraftInit
<1>2. \A w \in Windows : Fresh(w, who[w]) \in WindowState
  BY DraftTypes DEF Fresh, WindowState
<1>3. FinalizeDraftTypeOK
  BY <1>1, <1>2, DraftTypes DEF FinalizeDraftInit, FinalizeDraftTypeOK
<1>4. \A w \in Windows : /\ window[w].pc = "elsewhere" /\ Kept(w)
                         /\ \A c \in Covered : lastSaver[w][c] = window[w].who
  BY <1>1 DEF Fresh, Kept, FinalizeDraftInit, NoDraft
<1>5. Underway
  BY <1>4 DEF Underway, FinalizeDraftInit
<1>6. FinalizedAsGraded
  BY DEF FinalizedAsGraded, FinalizeDraftInit
<1> QED
  BY <1>3, <1>5, <1>6 DEF DraftInv

\* "Results you record are kept in this browser tab until you finalize": for any cases, tabs and
\* people, through reloads, rejected, unanswered and late submits, what is finalized is what was
\* saved last, by the person who finalizes.
THEOREM FinalizedIsAsGraded == FinalizeDraftSpec => []FinalizedAsGraded
<1>1. DraftInv => FinalizedAsGraded
  BY DEF DraftInv
<1> QED
  BY <1>1, DraftInit, DraftNext, PTL DEF FinalizeDraftSpec

\* The tabs and the run keep their types.
THEOREM DraftTyped == FinalizeDraftSpec => []FinalizeDraftTypeOK
<1>1. DraftInv => FinalizeDraftTypeOK
  BY DEF DraftInv
<1> QED
  BY <1>1, DraftInit, DraftNext, PTL DEF FinalizeDraftSpec

-------------------------------------------------------------------------------
\* The feature that is filed is the one that was confirmed

\* The rows of a list are at the places from the first to the last, each at one of its own.
LEMMA RowsHavePlaces ==
    ASSUME NEW S \in SUBSET Nat, IsFiniteSet(S)
    PROVE  /\ Cardinality(S) \in Nat
           /\ \A f \in S : Cardinality({g \in S : g < f}) \in 0..(Cardinality(S) - 1)
           /\ \A i \in 0..(Cardinality(S) - 1) : \E f \in S : Cardinality({g \in S : g < f}) = i
<1> DEFINE before(f) == {g \in S : g < f}
           C == Cardinality(S)
<1>1. C \in Nat /\ \A f \in S : IsFiniteSet(before(f)) /\ Cardinality(before(f)) \in Nat
  BY FS_CardinalityType, FS_Subset
<1>2. ASSUME NEW f \in S PROVE Cardinality(before(f)) < C
  <2>1. before(f) # S
    OBVIOUS
  <2>2. Cardinality(before(f)) <= C /\ Cardinality(before(f)) # C
    BY <2>1, FS_Subset
  <2> QED BY <2>2, <1>1
<1>3. ASSUME NEW f \in S, NEW g \in S, f < g PROVE Cardinality(before(f)) < Cardinality(before(g))
  <2>1. f \in before(g) /\ f \notin before(f) /\ \A h \in S : h < f => h < g
    BY <1>3
  <2>3. before(f) \in SUBSET before(g) /\ before(f) # before(g)
    BY <2>1
  <2>2. Cardinality(before(f)) <= Cardinality(before(g)) /\ Cardinality(before(f)) # Cardinality(before(g))
    BY <2>3, <1>1, FS_Subset
  <2> QED BY <2>2, <1>1
<1>4. ASSUME NEW i \in 0..(C - 1) PROVE \E f \in S : Cardinality(before(f)) = i
  <2> SUFFICES ASSUME \A f \in S : Cardinality(before(f)) # i PROVE FALSE
    OBVIOUS
  <2> DEFINE T == (0..(C - 1)) \ {i}
             place == [f \in S |-> Cardinality(before(f))]
  <2>1. IsFiniteSet(0..(C - 1)) /\ Cardinality(0..(C - 1)) = C
    <3>1. 0 \in Int /\ C - 1 \in Int /\ ~(0 > C - 1) /\ (C - 1) - 0 + 1 = C
      BY <1>1
    <3> QED BY <3>1, FS_Interval
  <2>2. IsFiniteSet(T) /\ Cardinality(T) = C - 1
    BY <2>1, FS_RemoveElement
  <2>3. place \in [S -> T]
    BY <1>1, <1>2
  <2>4. Cardinality(T) < Cardinality(S)
    BY <2>2, <1>1
  <2>5. \E f, g \in S : f # g /\ place[f] = place[g]
    <3> HIDE DEF T, place
    <3> QED BY <2>2, <2>3, <2>4, FS_PigeonHole
  <2>6. PICK f \in S, g \in S : f # g /\ Cardinality(before(f)) = Cardinality(before(g))
    BY <2>5
  <2>7. f < g \/ g < f
    BY <2>6
  <2> QED BY <1>1, <1>3, <2>6, <2>7
<1> QED BY <1>1, <1>2, <1>4

LEMMA Bounds == AtMost \in Nat /\ MaxInFlight \in Nat \ {0} /\ MaxStrokes \in Nat
<1>1. {AtMost, MaxInFlight, MaxStrokes} \subseteq Nat /\ MaxInFlight > 0
  BY Zenon, FeaturePickerAssumption DEF FeaturePickerAssumption
<1> QED BY <1>1

\* The keyboard is at a row; the list is the newest search's; an answer that nobody has touched is
\* where it was; what is posted is the answer, and the answer is the row that was taken last.
AtARow == box.fetched # {} => box.active < Cardinality(box.fetched)
Untouched == box.quiet => ~Searching /\ box.value \in box.fetched /\ PositionOf(box.value) = box.active
Carried ==
    /\ box.pending => box.open /\ box.posted = box.value
    /\ box.filed = NoFeature => box.value = box.confirmed
    /\ box.filed # NoFeature => ~box.open /\ ~box.pending /\ box.filed = box.confirmed

BoxInv == PickerTypeOK /\ AtARow /\ ListIsTheNewestSearch /\ Untouched /\ Carried

LEMMA PlaceOfRow ==
    ASSUME PickerTypeOK
    PROVE  /\ box.fetched \in SUBSET Offerable /\ Cardinality(box.fetched) \in Nat
           /\ \A f \in box.fetched : PositionOf(f) \in Nat /\ PositionOf(f) < Cardinality(box.fetched)
           /\ \A i \in 0..(Cardinality(box.fetched) - 1) : \E f \in box.fetched : PositionOf(f) = i
<1>1. box.fetched \in SUBSET Offerable
  BY DEF PickerTypeOK, Box
<1>2. box.fetched \in SUBSET Nat /\ IsFiniteSet(box.fetched)
  BY <1>1, FeaturePickerAssumption, FS_Subset
<1> DEFINE S == box.fetched
<1>3. /\ Cardinality(S) \in Nat
      /\ \A f \in S : Cardinality({g \in S : g < f}) \in 0..(Cardinality(S) - 1)
      /\ \A i \in 0..(Cardinality(S) - 1) : \E f \in S : Cardinality({g \in S : g < f}) = i
  <2> HIDE DEF S
  <2>1. S \in SUBSET Nat /\ IsFiniteSet(S)
    BY <1>2 DEF S
  <2> QED BY <2>1, RowsHavePlaces
<1>4. \A f : PositionOf(f) = Cardinality({g \in S : g < f})
  BY DEF PositionOf
<1> HIDE DEF S
<1>5. \A f \in S : PositionOf(f) \in 0..(Cardinality(S) - 1)
  BY <1>3, <1>4
<1>6. \A i \in 0..(Cardinality(S) - 1) : \E f \in S : PositionOf(f) = i
  BY <1>3, <1>4, Zenon
<1>7. \A f \in S : PositionOf(f) \in Nat /\ PositionOf(f) < Cardinality(S)
  BY <1>3, <1>5
<1> QED BY <1>1, <1>3, <1>6, <1>7 DEF S

LEMMA TruthFollows == BoxInv => PickerTellsTheTruth
<1> SUFFICES ASSUME BoxInv PROVE PickerTellsTheTruth
  OBVIOUS
<1>1. KeyboardIsAtARow
  <2> SUFFICES ASSUME ListOpen PROVE \E f \in box.fetched : PositionOf(f) = box.active
    BY DEF KeyboardIsAtARow
  <2>1. box.active \in Nat /\ Cardinality(box.fetched) \in Nat
    BY PlaceOfRow DEF BoxInv, PickerTypeOK, Box
  <2>2. box.active \in 0..(Cardinality(box.fetched) - 1)
    BY <2>1 DEF BoxInv, AtARow, ListOpen
  <2> QED BY <2>2, PlaceOfRow DEF BoxInv
<1>2. AnswerIsKept
  BY DEF BoxInv, Untouched, AnswerIsKept, Chosen
<1> QED BY <1>1, <1>2 DEF BoxInv, Carried, FiledAsConfirmed, PickerTellsTheTruth

LEMMA NoBoxTyped == NoBox \in Box
<1>1. 0 \in 0..MaxInFlight
  BY Bounds
<1>2. [n \in Typed |-> 0] \in [Typed -> 0..MaxInFlight]
  BY <1>1
<1>3. "" \in Typed /\ 0 \in 0..MaxStrokes
  BY Bounds DEF Typed
<1> QED BY <1>2, <1>3 DEF NoBox, Box

LEMMA BoxInit == PickerInit => BoxInv
<1> SUFFICES ASSUME box = NoBox PROVE BoxInv
  BY DEF PickerInit
<1>1. PickerTypeOK
  BY NoBoxTyped DEF PickerTypeOK
<1> QED BY <1>1 DEF BoxInv, AtARow, ListIsTheNewestSearch, Untouched, Carried, NoBox

\* A box that a stroke changes.
LEMMA Struck ==
    ASSUME BoxInv, NEW next, Stroke(next), next \in Box,
           next.fetched = box.fetched, next.flight = box.flight, next.latest = box.latest,
           next.open = box.open, next.pending = box.pending, next.filed = box.filed,
           next.value = next.confirmed \/ (next.value = box.value /\ next.confirmed = box.confirmed),
           box.fetched # {} => next.active < Cardinality(box.fetched),
           next.quiet => /\ next.timer = "none" /\ \A n \in Typed : ~(box.flight[n] > 0)
                         /\ next.value \in box.fetched /\ PositionOf(next.value) = next.active,
           next.strokes = box.strokes
    PROVE  BoxInv'
<1>1. box' = [next EXCEPT !.strokes = @ + 1] /\ box.strokes < MaxStrokes /\ box.open /\ ~box.pending
  BY DEF Stroke
<1>2. box.strokes + 1 \in 0..MaxStrokes
  BY <1>1, Bounds DEF BoxInv, PickerTypeOK, Box
<1>3. box' \in Box
  BY <1>1, <1>2 DEF Box
<1>4. /\ box'.fetched = box.fetched /\ box'.flight = box.flight /\ box'.latest = box.latest
      /\ box'.open = box.open /\ box'.pending = box.pending /\ box'.filed = box.filed
      /\ box'.value = next.value /\ box'.confirmed = next.confirmed /\ box'.active = next.active
      /\ box'.quiet = next.quiet /\ box'.timer = next.timer
  BY <1>1 DEF Box
<1>5. AtARow'
  BY <1>4 DEF AtARow
<1>6. ListIsTheNewestSearch'
  BY <1>4 DEF BoxInv, ListIsTheNewestSearch, FeaturesOf
<1>7. Untouched'
  BY <1>4 DEF Untouched, Searching, PositionOf
<1>8. Carried'
  BY <1>1, <1>4 DEF BoxInv, Carried
<1> QED BY <1>3, <1>5, <1>6, <1>7, <1>8 DEF BoxInv, PickerTypeOK

LEMMA FeaturesOffered == \A n \in Typed : FeaturesOf(n) \in SUBSET Offerable
BY FeaturePickerAssumption DEF FeaturesOf, Typed

\* A box that holds nothing.
LEMMA BlankBox ==
    ASSUME box'.fetched = {}, box'.quiet = FALSE, box'.pending = FALSE, box' \in Box,
           box'.open => box'.flight[box'.latest] # 0,
           (box'.filed = NoFeature) => (box'.value = box'.confirmed),
           (box'.filed # NoFeature) => (~box'.open /\ box'.filed = box'.confirmed)
    PROVE  BoxInv'
BY DEF BoxInv, PickerTypeOK, AtARow, ListIsTheNewestSearch, Untouched, Carried

\* Whatever is typed, taken, asked, answered or posted.
LEMMA BoxNext == BoxInv /\ [PickerNext]_boxVars => BoxInv'
<1> SUFFICES ASSUME BoxInv, [PickerNext]_boxVars PROVE BoxInv'
  OBVIOUS
<1> DEFINE C == Cardinality(box.fetched)
<1>0. /\ box \in Box /\ C \in Nat /\ box.active \in Nat
      /\ box.fetched \in SUBSET Offerable
      /\ \A f \in box.fetched : PositionOf(f) \in Nat /\ PositionOf(f) < C
      /\ box.flight \in [Typed -> 0..MaxInFlight] /\ box.latest \in Typed
  BY PlaceOfRow DEF BoxInv, PickerTypeOK, Box
<1>v. box.open => box.value = box.confirmed /\ box.filed = NoFeature
  BY DEF BoxInv, Carried
<1>1. CASE OpenPicker
  <2>1. "" \in Typed /\ 1 \in 0..MaxInFlight
    BY Bounds DEF Typed
  <2>2. /\ box'.open /\ box'.flight[""] = 1 /\ box'.latest = "" /\ box'.fetched = {} /\ box'.quiet = FALSE
        /\ box'.pending = FALSE /\ box'.filed = NoFeature /\ box'.value = NoFeature /\ box'.confirmed = NoFeature
    BY <1>1, <2>1 DEF OpenPicker, NoBox
  <2>3. box' \in Box
    <3> DEFINE old == NoBox
    <3>1. old \in Box /\ box' = [old EXCEPT !.open = TRUE, !.flight[""] = 1]
      BY <1>1, NoBoxTyped DEF OpenPicker
    <3> HIDE DEF old
    <3> QED BY <3>1, <2>1 DEF Box
  <2>4. box'.flight[box'.latest] # 0
    <3>1. box'.flight[box'.latest] = box'.flight[""]
      BY <2>2, Zenon
    <3>2. box'.flight[""] = 1
      BY <2>2, Zenon
    <3>3. 1 # 0
      OBVIOUS
    <3> QED BY <3>1, <3>2, <3>3, Zenon
  <2>5. box'.filed = NoFeature /\ box'.value = box'.confirmed
    BY <2>2
  <2> QED BY <2>2, <2>3, <2>4, <2>5, BlankBox
<1>2. CASE ClosePicker
  <2>1. box' = NoBox
    BY <1>2 DEF ClosePicker
  <2>2. box' \in Box
    BY <2>1, NoBoxTyped
  <2> QED BY <2>1, <2>2, BlankBox DEF NoBox
<1>3. CASE Focus
  <2>1. PICK next : next = [box EXCEPT !.browsing = TRUE]
    OBVIOUS
  <2>2. Stroke(next) /\ box.open
    BY <1>3, <2>1 DEF Focus, Stroke
  <2>3. /\ next \in Box /\ next.fetched = box.fetched /\ next.flight = box.flight /\ next.latest = box.latest
        /\ next.open = box.open /\ next.pending = box.pending /\ next.filed = box.filed
        /\ next.value = box.value /\ next.confirmed = box.confirmed /\ next.strokes = box.strokes
        /\ next.active = box.active /\ next.quiet = box.quiet /\ next.timer = box.timer
    BY <1>0, <2>1 DEF Box
  <2> QED BY <1>0, <2>2, <2>3, Struck DEF BoxInv, AtARow, Untouched, Searching
<1>4. ASSUME NEW n \in Typed, Schedule(n) PROVE BoxInv'
  <2>1. PICK next : next = [box EXCEPT !.text = n, !.browsing = TRUE, !.timer = n, !.quiet = FALSE]
    OBVIOUS
  <2>2. Stroke(next)
    BY <1>4, <2>1 DEF Schedule
  <2>3. /\ next \in Box /\ next.fetched = box.fetched /\ next.flight = box.flight /\ next.latest = box.latest
        /\ next.open = box.open /\ next.pending = box.pending /\ next.filed = box.filed
        /\ next.value = box.value /\ next.confirmed = box.confirmed /\ next.strokes = box.strokes
        /\ next.active = box.active /\ next.quiet = FALSE
    BY <1>0, <2>1 DEF Box
  <2> QED BY <2>2, <2>3, Struck DEF BoxInv, AtARow
<1>5. ASSUME NEW step \in {1, -1}, ArrowTo(step) PROVE BoxInv'
  <2>1. PICK next : next = [box EXCEPT !.active = (@ + step + C) % C, !.quiet = FALSE]
    OBVIOUS
  <2>2. Stroke(next) /\ box.fetched # {}
    BY <1>5, <2>1 DEF ArrowTo, ListOpen
  <2>3. C > 0
    <3>1. IsFiniteSet(box.fetched)
      BY <1>0, FeaturePickerAssumption, FS_Subset
    <3>2. C # 0
      BY <2>2, <3>1, FS_EmptySet
    <3> QED BY <1>0, <3>2
  <2>4. PICK a : a = (box.active + step + C) % C
    OBVIOUS
  <2>5. a \in Nat /\ a < C
    BY <1>0, <2>3, <2>4
  <2>6. /\ next \in Box /\ next.fetched = box.fetched /\ next.flight = box.flight /\ next.latest = box.latest
        /\ next.open = box.open /\ next.pending = box.pending /\ next.filed = box.filed
        /\ next.value = box.value /\ next.confirmed = box.confirmed /\ next.strokes = box.strokes
        /\ next.active = a /\ next.quiet = FALSE
    <3>1. next = [box EXCEPT !.active = a, !.quiet = FALSE]
      BY <1>0, <2>1, <2>4 DEF Box
    <3> QED BY <1>0, <2>5, <3>1 DEF Box
  <2> QED BY <2>2, <2>5, <2>6, Struck
<1>6. ASSUME NEW f \in box.fetched, TakeRow(f) PROVE BoxInv'
  <2>1. PICK next : next = [box EXCEPT !.value = f, !.confirmed = f, !.browsing = FALSE, !.text = "label",
                                       !.active = PositionOf(f), !.quiet = ~Searching]
    OBVIOUS
  <2>2. Stroke(next)
    BY <1>6, <2>1 DEF TakeRow
  <2>3. Searching \in BOOLEAN
    BY DEF Searching
  <2>4. /\ next \in Box /\ next.fetched = box.fetched /\ next.flight = box.flight /\ next.latest = box.latest
        /\ next.open = box.open /\ next.pending = box.pending /\ next.filed = box.filed
        /\ next.value = f /\ next.confirmed = f /\ next.strokes = box.strokes
        /\ next.active = PositionOf(f) /\ next.quiet = ~Searching /\ next.timer = box.timer
    BY <1>0, <2>1, <2>3 DEF Box
  <2> QED BY <1>0, <2>2, <2>4, Struck DEF Searching
<1>7. CASE Fire
  <2>1. PICK m : m = box.timer
    OBVIOUS
  <2>2. m \in Typed /\ box.flight[m] + 1 \in 0..MaxInFlight /\ box.flight[m] + 1 # 0
    BY <1>0, <1>7, <2>1, Bounds DEF Fire, Box
  <2>3. box' = [box EXCEPT !.timer = "none", !.latest = m, !.flight[m] = @ + 1] /\ box.open /\ box.timer # "none"
    BY <1>7, <2>1 DEF Fire
  <2>4. /\ box' \in Box /\ box'.flight[m] # 0 /\ box'.latest = m /\ box'.fetched = box.fetched
        /\ box'.active = box.active /\ box'.quiet = box.quiet /\ box'.pending = box.pending /\ box'.open = box.open
        /\ box'.posted = box.posted /\ box'.value = box.value /\ box'.filed = box.filed /\ box'.confirmed = box.confirmed
    BY <1>0, <2>2, <2>3 DEF Box
  <2>5. ~box'.quiet
    BY <2>3, <2>4 DEF BoxInv, Untouched, Searching
  <2> QED BY <2>4, <2>5 DEF BoxInv, PickerTypeOK, AtARow, ListIsTheNewestSearch, Untouched, Carried
<1>8. ASSUME NEW n \in Typed, AnswerSearch(n) PROVE BoxInv'
  <2>1. box.flight[n] > 0 /\ box.flight[n] - 1 \in 0..MaxInFlight /\ box.open
    BY <1>0, <1>8, Bounds DEF AnswerSearch
  <2>2. ~box.quiet
    BY <2>1 DEF BoxInv, Untouched, Searching
  <2>3. CASE n = box.latest
    <3>1. box' = [box EXCEPT !.flight[n] = @ - 1, !.fetched = FeaturesOf(n), !.active = 0]
      BY <1>8, <2>3 DEF AnswerSearch
    <3>2. /\ box' \in Box /\ box'.latest = n /\ box'.fetched = FeaturesOf(n) /\ box'.active = 0
          /\ box'.quiet = box.quiet /\ box'.pending = box.pending /\ box'.open = box.open
          /\ box'.posted = box.posted /\ box'.value = box.value /\ box'.filed = box.filed /\ box'.confirmed = box.confirmed
      BY <1>0, <2>1, <2>3, <3>1, FeaturesOffered DEF Box
    <3>3. AtARow'
      <4> SUFFICES ASSUME box'.fetched # {} PROVE 0 < Cardinality(box'.fetched)
        BY <3>2 DEF AtARow
      <4>1. IsFiniteSet(box'.fetched)
        BY <3>2, FeaturesOffered, FeaturePickerAssumption, FS_Subset
      <4> QED BY <4>1, FS_EmptySet, FS_CardinalityType
    <3>4. FeaturesOf(n)' = FeaturesOf(n)
      BY DEF FeaturesOf
    <3> QED BY <2>2, <3>2, <3>3, <3>4 DEF BoxInv, PickerTypeOK, ListIsTheNewestSearch, Untouched, Carried
  <2>4. CASE n # box.latest
    <3>1. box' = [box EXCEPT !.flight[n] = @ - 1]
      BY <1>8, <2>4 DEF AnswerSearch
    <3>2. /\ box' \in Box /\ box'.latest = box.latest /\ box'.fetched = box.fetched /\ box'.active = box.active
          /\ box'.flight[box.latest] = box.flight[box.latest]
          /\ box'.quiet = box.quiet /\ box'.pending = box.pending /\ box'.open = box.open
          /\ box'.posted = box.posted /\ box'.value = box.value /\ box'.filed = box.filed /\ box'.confirmed = box.confirmed
      BY <1>0, <2>1, <2>4, <3>1 DEF Box
    <3> QED BY <2>2, <3>2 DEF BoxInv, PickerTypeOK, AtARow, ListIsTheNewestSearch, Untouched, Carried, FeaturesOf
  <2> QED BY <2>3, <2>4
<1>9. ASSUME NEW p \in BOOLEAN, NEW q \in Offerable \cup {NoFeature}, p => (q = box.value /\ box.open),
             box' = [box EXCEPT !.pending = p, !.posted = q], box.filed # NoFeature => ~p
      PROVE  BoxInv'
  <2>1. /\ box' \in Box /\ box'.latest = box.latest /\ box'.fetched = box.fetched /\ box'.active = box.active
        /\ box'.flight = box.flight /\ box'.timer = box.timer
        /\ box'.quiet = box.quiet /\ box'.pending = p /\ box'.open = box.open
        /\ box'.posted = q /\ box'.value = box.value /\ box'.filed = box.filed /\ box'.confirmed = box.confirmed
    BY <1>0, <1>9 DEF Box
  <2> QED BY <1>9, <2>1 DEF BoxInv, PickerTypeOK, AtARow, ListIsTheNewestSearch, Untouched, Carried, FeaturesOf,
                            Searching, PositionOf
<1>10. CASE PostForm
  <2>1. /\ box' = [box EXCEPT !.pending = TRUE, !.posted = box.value] /\ box.open
        /\ box.value \in Offerable \cup {NoFeature}
    BY <1>0, <1>10 DEF PostForm, Box
  <2> QED BY <1>v, <1>9, <2>1
<1>11. CASE RefusePost
  <2>1. /\ box' = [box EXCEPT !.pending = FALSE, !.posted = box.posted]
        /\ box.posted \in Offerable \cup {NoFeature}
    BY <1>0, <1>11 DEF RefusePost, Box
  <2> QED BY <1>9, <2>1
<1>12. CASE FilePost
  <2>1. box.posted = box.confirmed /\ box.posted \in Offerable \cup {NoFeature} /\ box.posted # NoFeature
    BY <1>0, <1>v, <1>12 DEF FilePost, BoxInv, Carried, Box
  <2>2. PICK old : old = NoBox
    OBVIOUS
  <2>3. box' = [old EXCEPT !.filed = box.posted, !.confirmed = box.confirmed]
    BY <1>12, <2>2 DEF FilePost
  <2>4. old \in Box /\ old.fetched = {} /\ old.quiet = FALSE /\ old.pending = FALSE /\ old.open = FALSE
    BY <2>2, NoBoxTyped DEF NoBox
  <2>5. /\ box' \in Box /\ box'.fetched = {} /\ box'.quiet = FALSE /\ box'.pending = FALSE /\ box'.open = FALSE
        /\ box'.filed = box.posted /\ box'.confirmed = box.confirmed
    BY <2>1, <2>3, <2>4 DEF Box
  <2> QED BY <2>1, <2>5, BlankBox
<1>13. CASE UNCHANGED boxVars
  BY <1>13 DEF boxVars, BoxInv, PickerTypeOK, AtARow, ListIsTheNewestSearch, Untouched, Carried, FeaturesOf,
               Searching, PositionOf
<1>14. CASE Enter
  BY <1>6, <1>14 DEF Enter
<1>15. ASSUME NEW f \in Offerable, Click(f) PROVE BoxInv'
  BY <1>6, <1>15 DEF Click
<1> QED BY <1>1, <1>2, <1>3, <1>4, <1>5, <1>7, <1>8, <1>10, <1>11, <1>12, <1>13, <1>14, <1>15 DEF PickerNext

\* Whatever is typed, clicked, answered late or out of order, the list on screen is what the newest
\* search found, an answer taken in quiet stays, and the feature a requirement is filed under is
\* the one whose row was taken last, for any features and any needles (Picker and Combo).
THEOREM PickerStaysTrue == PickerSpec => []PickerTellsTheTruth
<1>1. PickerSpec => []BoxInv
  BY BoxInit, BoxNext, PTL DEF PickerSpec
<1> QED BY <1>1, TruthFollows, PTL

\* The box is always of its type: what is in flight and what the keyboard is at stay numbers, and
\* what is listed, taken and posted are features.
THEOREM BoxTyped == PickerSpec => []PickerTypeOK
<1>1. PickerSpec => []BoxInv
  BY BoxInit, BoxNext, PTL DEF PickerSpec
<1>2. BoxInv => PickerTypeOK
  BY DEF BoxInv
<1> QED BY <1>1, <1>2, PTL

-------------------------------------------------------------------------------
\* Branches stay open, and edits are informed

LEMMA CatalogueFacts ==
    /\ Entries \subseteq Nat \ {NoEntry} /\ ParentOf \in [Entries -> Entries \cup {NoEntry}]
    /\ MaxOpen \in Nat \ {0} /\ MaxTurns \in Nat /\ Labels # {} /\ AnyLabel \in Labels
    /\ Branches \subseteq Entries /\ NoEntry = 0
<1>1. Entries \subseteq Nat \ {NoEntry} /\ ParentOf \in [Entries -> Entries \cup {NoEntry}]
  BY Zenon, CatalogueAssumption DEF CatalogueAssumption
<1>2. AnyLabel \in Labels
  BY CatalogueScreenAssumption DEF AnyLabel
<1> QED BY <1>1, <1>2, CatalogueScreenAssumption DEF Branches, Entries, NoEntry

LEMMA ParentsTyped == \A x \in Entries \cup {NoEntry} : Under(x) \in Entries \cup {NoEntry}
BY CatalogueFacts DEF Under, Entries

\* What parseOpenSet reads of the URL.
LEMMA ReadTyped ==
    ASSUME NEW p \in Page
    PROVE  /\ ReadOpenSet(p) \in Seq(Branches) /\ Len(ReadOpenSet(p)) <= MaxOpen
           /\ Len(p.open) <= MaxOpen => ReadOpenSet(p) = p.open
<1> DEFINE n == Len(p.open)
<1>1. p.open \in Seq(Branches) /\ n \in Nat /\ MaxOpen \in Nat \ {0}
  BY CatalogueFacts DEF Page
<1>2. PICK m : m = Min({n, MaxOpen})
  OBVIOUS
<1>3. m \in {n, MaxOpen} /\ m <= n /\ m <= MaxOpen
  <2>1. CASE n <= MaxOpen
    <3>1. \E x \in {n, MaxOpen} : \A y \in {n, MaxOpen} : x <= y
      BY <1>1, <2>1
    <3> QED BY <1>1, <1>2, <3>1 DEF Min
  <2>2. CASE ~(n <= MaxOpen)
    <3>1. \E x \in {n, MaxOpen} : \A y \in {n, MaxOpen} : x <= y
      BY <1>1, <2>2
    <3> QED BY <1>1, <1>2, <3>1 DEF Min
  <2> QED BY <2>1, <2>2
<1>4. ReadOpenSet(p) = SubSeq(p.open, 1, m)
  BY <1>2 DEF ReadOpenSet
<1>5. SubSeq(p.open, 1, m) \in Seq(Branches) /\ Len(SubSeq(p.open, 1, m)) = m
  BY <1>1, <1>3
<1>6. n <= MaxOpen => SubSeq(p.open, 1, m) = p.open
  BY <1>1, <1>3
<1> QED BY <1>3, <1>4, <1>5, <1>6

\* toggleOpenHref takes no branch out of the set but the one it was asked to.
LEMMA ToggleKeeps ==
    ASSUME NEW p \in Page, NEW b \in Branches
    PROVE  /\ ToggleOpen(p, b) \in Seq(Branches)
           /\ Range(ReadOpenSet(p)) \ {b} \subseteq Range(ToggleOpen(p, b))
           /\ b \notin Range(ReadOpenSet(p)) => b \in Range(ToggleOpen(p, b))
           /\ (b \in Range(ReadOpenSet(p)) \/ Len(ReadOpenSet(p)) # MaxOpen)
                 => Len(ToggleOpen(p, b)) <= MaxOpen
<1>1. PICK s : s = ReadOpenSet(p)
  OBVIOUS
<1>2. s \in Seq(Branches) /\ Len(s) \in Nat /\ Len(s) <= MaxOpen /\ MaxOpen \in Nat
  BY <1>1, ReadTyped, CatalogueFacts
<1>3. CASE b \in Range(s)
  <2>1. PICK i : i = CHOOSE j \in DOMAIN s : s[j] = b
    OBVIOUS
  <2>2. i \in 1..Len(s) /\ s[i] = b
    BY <1>2, <1>3, <2>1 DEF Range
  <2>3. PICK t : t = SubSeq(s, 1, i - 1) \o SubSeq(s, i + 1, Len(s))
    OBVIOUS
  <2>a. PICK u : u = SubSeq(s, 1, i - 1)
    OBVIOUS
  <2>b. PICK v : v = SubSeq(s, i + 1, Len(s))
    OBVIOUS
  <2>c. u \in Seq(Branches) /\ Len(u) = i - 1 /\ \A j \in 1..(i - 1) : u[j] = s[j]
    BY <1>2, <2>2, <2>a
  <2>d. v \in Seq(Branches) /\ Len(v) = Len(s) - i /\ \A j \in 1..(Len(s) - i) : v[j] = s[i + j]
    BY <1>2, <2>2, <2>b
  <2>e. t = u \o v
    BY <2>3, <2>a, <2>b
  <2>4. ToggleOpen(p, b) = t
    BY <1>1, <1>3, <2>1, <2>3 DEF ToggleOpen, RemoveAt
  <2>5. t \in Seq(Branches) /\ Len(t) = Len(s) - 1
    <3>0. u \in Seq(Branches) /\ v \in Seq(Branches)
      BY <2>c, <2>d
    <3>1. t \in Seq(Branches) /\ Len(t) = Len(u) + Len(v)
      BY <3>0, <2>e
    <3> QED BY <1>2, <2>2, <2>c, <2>d, <3>1
  <2>6. ASSUME NEW c \in Range(s) \ {b} PROVE c \in Range(t)
    <3>1. PICK j \in 1..Len(s) : s[j] = c
      BY <1>2 DEF Range
    <3>2. CASE j < i
      <4>0. j \in 1..(i - 1) /\ j \in 1..Len(t)
        BY <1>2, <2>2, <2>5, <3>1, <3>2
      <4>1. t[j] = c
        BY <2>c, <2>d, <2>e, <3>1, <4>0
      <4> QED BY <4>0, <4>1, <2>5 DEF Range
    <3>3. CASE j > i
      <4>0. j - i \in 1..(Len(s) - i) /\ j - 1 \in 1..Len(t) /\ j - 1 = (i - 1) + (j - i) /\ i + (j - i) = j
        BY <1>2, <2>2, <2>5, <3>1, <3>3
      <4>2. v[j - i] = c
        BY <2>d, <3>1, <4>0
      <4>1. t[j - 1] = c
        BY <2>2, <2>c, <2>d, <2>e, <4>0, <4>2
      <4> QED BY <4>0, <4>1, <2>5 DEF Range
    <3>4. j # i
      BY <2>2, <2>6, <3>1
    <3> QED BY <2>2, <3>1, <3>2, <3>3, <3>4
  <2> QED BY <1>1, <1>2, <1>3, <2>4, <2>5, <2>6
<1>4. CASE b \notin Range(s)
  <2>1. ToggleOpen(p, b) = Append(s, b)
    BY <1>1, <1>4 DEF ToggleOpen
  <2>2. Append(s, b) \in Seq(Branches) /\ Len(Append(s, b)) = Len(s) + 1
    BY <1>2
  <2>3. b \in Range(Append(s, b))
    <3>1. Len(s) + 1 \in 1..(Len(s) + 1) /\ Append(s, b)[Len(s) + 1] = b
      BY <1>2
    <3> QED BY <2>2, <3>1 DEF Range
  <2>4. Range(s) \subseteq Range(Append(s, b))
    BY <1>2, <2>2 DEF Range
  <2>5. Len(s) # MaxOpen => Len(s) + 1 <= MaxOpen
    BY <1>2
  <2> QED BY <1>1, <1>4, <2>1, <2>2, <2>3, <2>4, <2>5
<1> QED BY <1>3, <1>4

\* A row that was drawn is behind the one in the database, or the same.
CurrentIn(rows, x, row) ==
    x \in Entries =>
        /\ row.version <= rows[x].version
        /\ row.version = rows[x].version /\ row.version > 0 => row.label = rows[x].label

IsCurrent(x, row) == CurrentIn(entry, x, row)

KeptOpen(p) == p.wanted \subseteq Range(ReadOpenSet(p))

\* A dialog that was not carried to another page is about what the page shows.
Informed ==
    ~screen.carried =>
        /\ screen.pc = "edit" => screen.about = screen.page.sel /\ screen.shown = screen.row.label
        /\ screen.pc = "add" => screen.about = Under(screen.page.sel)

CatScreenInv ==
    /\ entry \in [Entries -> Row] /\ CatalogueScreenTypeOK
    /\ IsCurrent(screen.page.sel, screen.row) /\ IsCurrent(screen.behind.sel, screen.kept)
    /\ squeezed \/ (KeptOpen(screen.page) /\ KeptOpen(screen.behind))
    /\ Informed /\ EditsAreInformed

LEMMA OpenFollows == CatScreenInv => OpenBranchesStayOpen
BY DEF CatScreenInv, KeptOpen, OpenBranchesStayOpen, OpenOn

LEMMA RowsTyped ==
    ASSUME entry \in [Entries -> Row], NEW x \in Entries \cup {NoEntry}
    PROVE  NoRow \in Row /\ RowOf(x) \in Row /\ IsCurrent(x, RowOf(x))
<1>1. NoRow \in Row
  BY CatalogueFacts DEF NoRow, Row
<1>2. CASE x = NoEntry
  BY <1>1, <1>2, CatalogueFacts DEF RowOf, IsCurrent, CurrentIn
<1>3. CASE x # NoEntry
  <2>1. RowOf(x) = entry[x] /\ entry[x] \in Row
    BY <1>3 DEF RowOf
  <2>2. entry[x].version \in Nat
    BY <2>1 DEF Row
  <2> QED BY <1>1, <2>1, <2>2 DEF IsCurrent, CurrentIn
<1> QED BY <1>2, <1>3

\* Whoever writes, one record is at its next version.
LEMMA OneRowWritten ==
    ASSUME entry \in [Entries -> Row], NEW x \in Entries, NEW t \in Labels, NEW v,
           \/ CreateProduct(x, t) \/ CreateModule(x, t) \/ CreateFeature(x, t) \/ CreateRequirement(x, t)
           \/ UpdateProduct(x, t, v) \/ UpdateModule(x, t, v) \/ UpdateFeature(x, t, v) \/ UpdateRequirement(x, t, v)
    PROVE  /\ entry' = [entry EXCEPT ![x] = [version |-> entry[x].version + 1, label |-> t]]
           /\ (UpdateProduct(x, t, v) \/ UpdateModule(x, t, v) \/ UpdateFeature(x, t, v) \/ UpdateRequirement(x, t, v))
                 => (entry[x].version = v /\ v > 0)
<1>1. entry[x].version \in Nat
  BY DEF Row
<1>2. ASSUME AddEntry(x, t)
      PROVE  entry' = [entry EXCEPT ![x] = [version |-> entry[x].version + 1, label |-> t]]
  <2>1. entry[x].version = 0
    BY <1>1, <1>2 DEF AddEntry, Existing
  <2> QED BY <1>2, <2>1 DEF AddEntry, Write
<1>3. ASSUME Relabel(x, t, v)
      PROVE  /\ entry' = [entry EXCEPT ![x] = [version |-> entry[x].version + 1, label |-> t]]
             /\ entry[x].version = v /\ v > 0
  BY <1>3 DEF Relabel, Write, Existing
<1> QED BY <1>2, <1>3 DEF CreateProduct, CreateModule, CreateFeature, CreateRequirement,
                          UpdateProduct, UpdateModule, UpdateFeature, UpdateRequirement

LEMMA RowMoves ==
    ASSUME entry \in [Entries -> Row], NEW x \in Entries, NEW t \in Labels,
           entry' = [entry EXCEPT ![x] = [version |-> entry[x].version + 1, label |-> t]]
    PROVE  /\ entry' \in [Entries -> Row]
           /\ \A y \in Entries : entry'[y].version \in Nat /\ (y # x => entry'[y] = entry[y])
           /\ entry'[x].version > entry[x].version
<1>1. entry[x].version \in Nat /\ [version |-> entry[x].version + 1, label |-> t] \in Row
  BY DEF Row
<1>2. entry' \in [Entries -> Row]
  BY <1>1
<1> QED BY <1>1, <1>2 DEF Row

LEMMA CurrentMoves ==
    ASSUME entry \in [Entries -> Row], NEW x \in Entries, NEW t \in Labels,
           entry' = [entry EXCEPT ![x] = [version |-> entry[x].version + 1, label |-> t]],
           NEW y, NEW row \in Row, IsCurrent(y, row)
    PROVE  CurrentIn(entry', y, row)
<1>1. row.version \in Nat /\ entry[x].version \in Nat
  BY DEF Row
<1>2. CASE y \in Entries /\ y # x
  BY <1>1, <1>2, RowMoves DEF IsCurrent, CurrentIn
<1>3. CASE y = x
  <2>1. entry'[x].version \in Nat /\ entry'[x].version > entry[x].version /\ row.version <= entry[x].version
    BY <1>3, RowMoves DEF IsCurrent, CurrentIn
  <2> QED BY <1>1, <1>3, <2>1 DEF CurrentIn
<1>4. y \notin Entries => CurrentIn(entry', y, row)
  BY DEF CurrentIn
<1> QED BY <1>1, <1>2, <1>3, <1>4

\* The screen, field by field.
LEMMA ScreenFields ==
    ASSUME screen \in Screen
    PROVE  /\ screen.page \in Page /\ screen.behind \in Page /\ screen.row \in Row /\ screen.kept \in Row
           /\ screen.page.sel \in Entries \cup {NoEntry} /\ screen.behind.sel \in Entries \cup {NoEntry}
           /\ screen.pc \in {"drawn", "edit", "add"} /\ screen.carried \in BOOLEAN
BY DEF Screen, Page

\* A navigation.
LEMMA Navigated ==
    ASSUME CatScreenInv, NEW p \in Page, GoTo(p),
           squeezed' \in BOOLEAN, squeezed' \/ KeptOpen(p), squeezed => squeezed'
    PROVE  CatScreenInv'
<1>1. /\ screen \in Screen /\ entry \in [Entries -> Row] /\ turns \in Nat /\ misfiled \subseteq BOOLEAN
      /\ p.sel \in Entries \cup {NoEntry}
  BY DEF CatScreenInv, CatalogueScreenTypeOK, Page
<1>2. RowOf(p.sel) \in Row /\ IsCurrent(p.sel, RowOf(p.sel))
  BY <1>1, RowsTyped
<1>3. /\ screen' = [screen EXCEPT !.page = p, !.row = RowOf(p.sel), !.behind = screen.page, !.kept = screen.row]
      /\ entry' = entry /\ misfiled' = misfiled /\ turns' = turns + 1 /\ screen.pc = "drawn"
  BY DEF GoTo
<1>4. /\ screen' \in Screen /\ screen'.page = p /\ screen'.row = RowOf(p.sel) /\ screen'.behind = screen.page
      /\ screen'.kept = screen.row /\ screen'.pc = "drawn"
  BY <1>1, <1>2, <1>3 DEF Screen
<1>5. (squeezed \/ (KeptOpen(screen.page) /\ KeptOpen(screen.behind)))'
  BY <1>4 DEF CatScreenInv, KeptOpen, ReadOpenSet
<1>6. IsCurrent(screen.page.sel, screen.row)' /\ IsCurrent(screen.behind.sel, screen.kept)'
  BY <1>2, <1>3, <1>4 DEF CatScreenInv, IsCurrent
<1>7. Informed' /\ EditsAreInformed'
  BY <1>3, <1>4 DEF CatScreenInv, Informed, EditsAreInformed
<1> QED BY <1>1, <1>3, <1>4, <1>5, <1>6, <1>7 DEF CatScreenInv, CatalogueScreenTypeOK

\* The rows of both pages are drawn anew, or kept; the catalogue may have been written.
LEMMA Redrawn ==
    ASSUME CatScreenInv, NEW next \in Screen, screen' = next, entry' \in [Entries -> Row], turns' \in Nat,
           {next.page, next.behind} = {screen.page, screen.behind}, squeezed' = squeezed,
           IsCurrent(next.page.sel, next.row)', IsCurrent(next.behind.sel, next.kept)',
           ~next.carried =>
              /\ next.pc = "edit" => next.about = next.page.sel /\ next.shown = next.row.label
              /\ next.pc = "add" => next.about = Under(next.page.sel),
           misfiled' \subseteq BOOLEAN, FALSE \notin misfiled'
    PROVE  CatScreenInv'
<1>1. (squeezed \/ (KeptOpen(screen.page) /\ KeptOpen(screen.behind)))'
  BY DEF CatScreenInv, KeptOpen, ReadOpenSet
<1>2. Informed'
  BY DEF Informed, Under
<1> QED BY <1>1, <1>2 DEF CatScreenInv, CatalogueScreenTypeOK, EditsAreInformed

\* A dialog opens, is typed in, is filled in anew or closes.
LEMMA DialogStep ==
    ASSUME CatScreenInv,
           \/ \E pc \in {"edit", "add"} : OpenDialog(pc)
           \/ \E t \in Labels : Type(t)
           \/ CloseDialog
           \/ RefuseSave
    PROVE  CatScreenInv'
<1>1. /\ screen \in Screen /\ entry \in [Entries -> Row] /\ turns \in Nat /\ misfiled \subseteq BOOLEAN
      /\ squeezed \in BOOLEAN
  BY DEF CatScreenInv, CatalogueScreenTypeOK
<1>2. /\ screen.page.sel \in Entries \cup {NoEntry} /\ Under(screen.page.sel) \in Entries \cup {NoEntry}
      /\ screen.row.label \in Labels /\ AnyLabel \in Labels
      /\ NoEntry \in Entries \cup {NoEntry}
  BY <1>1, ScreenFields, ParentsTyped, CatalogueFacts DEF Row
<1>3. ASSUME NEW pc \in {"edit", "add"}, screen' = Filled(pc), UNCHANGED <<entry, turns, squeezed, misfiled>>
      PROVE  CatScreenInv'
  <2>1. PICK next : next = Filled(pc)
    OBVIOUS
  <2>2. /\ next \in Screen /\ next.page = screen.page /\ next.behind = screen.behind /\ next.row = screen.row
        /\ next.kept = screen.kept /\ next.pc = pc
        /\ next.about = IF pc = "edit" THEN screen.page.sel ELSE Under(screen.page.sel)
        /\ next.shown = IF pc = "edit" THEN screen.row.label ELSE AnyLabel
    BY <1>1, <1>2, <2>1 DEF Filled, Screen
  <2>3. IsCurrent(next.page.sel, next.row)' /\ IsCurrent(next.behind.sel, next.kept)'
    BY <1>3, <2>2 DEF CatScreenInv, IsCurrent
  <2> QED BY <1>1, <1>3, <2>1, <2>2, <2>3, Redrawn DEF CatScreenInv, EditsAreInformed
<1>4. ASSUME NEW t \in Labels, Type(t) PROVE CatScreenInv'
  <2>1. PICK next : next = [screen EXCEPT !.typed = t]
    OBVIOUS
  <2>2. screen' = next /\ UNCHANGED <<entry, turns, squeezed, misfiled>>
    BY <1>4, <2>1 DEF Type
  <2>3. /\ next \in Screen /\ next.page = screen.page /\ next.behind = screen.behind /\ next.row = screen.row
        /\ next.kept = screen.kept /\ next.pc = screen.pc /\ next.carried = screen.carried
        /\ next.about = screen.about /\ next.shown = screen.shown
    BY <1>1, <2>1 DEF Screen
  <2>4. IsCurrent(next.page.sel, next.row)' /\ IsCurrent(next.behind.sel, next.kept)'
    BY <2>2, <2>3 DEF CatScreenInv, IsCurrent
  <2> QED BY <1>1, <2>2, <2>3, <2>4, Redrawn DEF CatScreenInv, EditsAreInformed, Informed
<1>5. CASE CloseDialog
  <2>1. PICK next : next = Emptied
    OBVIOUS
  <2>2. screen' = next /\ UNCHANGED <<entry, turns, squeezed, misfiled>>
    BY <1>5, <2>1 DEF CloseDialog
  <2>3. /\ next \in Screen /\ next.page = screen.page /\ next.behind = screen.behind /\ next.row = screen.row
        /\ next.kept = screen.kept /\ next.pc = "drawn"
    BY <1>1, <1>2, <2>1 DEF Emptied, Screen
  <2>4. IsCurrent(next.page.sel, next.row)' /\ IsCurrent(next.behind.sel, next.kept)'
    BY <2>2, <2>3 DEF CatScreenInv, IsCurrent
  <2> QED BY <1>1, <2>2, <2>3, <2>4, Redrawn DEF CatScreenInv, EditsAreInformed
<1>6. ASSUME NEW pc \in {"edit", "add"}, OpenDialog(pc) PROVE CatScreenInv'
  BY <1>3, <1>6 DEF OpenDialog
<1>7. CASE RefuseSave
  <2>1. screen.pc \in {"edit", "add"}
    BY <1>1, <1>7 DEF RefuseSave, Screen
  <2> QED BY <1>3, <1>7, <2>1 DEF RefuseSave
<1> QED BY <1>4, <1>5, <1>6, <1>7

\* Back and Forward.
LEMMA TraverseStep ==
    ASSUME CatScreenInv, NEW fresh \in BOOLEAN, Traverse(fresh)
    PROVE  CatScreenInv'
<1>1. /\ screen \in Screen /\ entry \in [Entries -> Row] /\ turns \in Nat /\ misfiled \subseteq BOOLEAN
      /\ squeezed \in BOOLEAN
  BY DEF CatScreenInv, CatalogueScreenTypeOK
<1>2. PICK row : row = IF fresh THEN RowOf(screen.behind.sel) ELSE screen.kept
  OBVIOUS
<1>3. row \in Row /\ IsCurrent(screen.behind.sel, row)
  BY <1>1, <1>2, ScreenFields, RowsTyped DEF CatScreenInv
<1>4. PICK base \in {[screen EXCEPT !.carried = TRUE], Emptied} :
         screen' = [base EXCEPT !.page = screen.behind, !.behind = screen.page, !.row = row, !.kept = screen.row]
  BY <1>2 DEF Traverse
<1>5. entry' = entry /\ squeezed' = squeezed /\ misfiled' = misfiled /\ turns' = turns + 1
  BY DEF Traverse
<1>6. base \in Screen /\ (base.carried \/ base.pc = "drawn")
  <2>1. CASE base = Emptied
    BY <1>1, <2>1, CatalogueFacts DEF Emptied, Screen
  <2>2. CASE base = [screen EXCEPT !.carried = TRUE]
    BY <1>1, <2>2 DEF Screen
  <2> QED BY <1>4, <2>1, <2>2
<1>7. PICK next : next = [base EXCEPT !.page = screen.behind, !.behind = screen.page, !.row = row, !.kept = screen.row]
  OBVIOUS
<1>8. /\ next \in Screen /\ next.page = screen.behind /\ next.behind = screen.page /\ next.row = row
      /\ next.kept = screen.row /\ next.pc = base.pc /\ next.carried = base.carried
  BY <1>1, <1>3, <1>6, <1>7, ScreenFields DEF Screen
<1>9. IsCurrent(next.page.sel, next.row)' /\ IsCurrent(next.behind.sel, next.kept)'
  BY <1>3, <1>5, <1>8 DEF CatScreenInv, IsCurrent
<1>10. screen' = next /\ {next.page, next.behind} = {screen.page, screen.behind}
  BY <1>4, <1>7, <1>8
<1>11. ~next.carried => next.pc = "drawn"
  BY <1>6, <1>8
<1>12. FALSE \notin misfiled' /\ misfiled' \subseteq BOOLEAN /\ turns' \in Nat /\ entry' \in [Entries -> Row]
  <2>1. FALSE \notin misfiled' /\ misfiled' \subseteq BOOLEAN
    BY <1>1, <1>5, Zenon DEF CatScreenInv, EditsAreInformed
  <2>2. turns' \in Nat
    BY <1>1, <1>5
  <2> QED BY <1>1, <1>5, <2>1, <2>2, Zenon
<1> QED BY <1>5, <1>8, <1>9, <1>10, <1>11, <1>12, Redrawn

\* What a write of the viewer's leaves: the page drawn anew, and a misfiling at most of a dialog that
\* was carried.
PageSaved(here, there) ==
    /\ screen' = [Emptied EXCEPT !.row = here, !.kept = there]
    /\ turns' = turns + 1 /\ squeezed' = squeezed /\ entry' \in [Entries -> Row]
    /\ CurrentIn(entry', screen.page.sel, here) /\ CurrentIn(entry', screen.behind.sel, there)
    /\ misfiled' \in {misfiled, misfiled \cup {screen.carried}}
    /\ ~screen.carried => misfiled' = misfiled

\* A dialog writes, in time or not.
LEMMA SaveStep ==
    ASSUME CatScreenInv, SaveEdit \/ \E x \in Entries : SaveNew(x)
    PROVE  CatScreenInv'
<1>1. /\ screen \in Screen /\ entry \in [Entries -> Row] /\ turns \in Nat /\ misfiled \subseteq BOOLEAN
      /\ squeezed \in BOOLEAN
  BY DEF CatScreenInv, CatalogueScreenTypeOK
<1>2. screen.page.sel \in Entries \cup {NoEntry} /\ screen.behind.sel \in Entries \cup {NoEntry} /\ screen.typed \in Labels
  BY <1>1, ScreenFields DEF Screen
<1>3. PICK here \in Row, there \in Row : PageSaved(here, there)
  <2>1. CASE SaveEdit
    <3>1. PICK x : x = screen.page.sel
      OBVIOUS
    <3>2. PICK v : v = screen.row.version
      OBVIOUS
    <3>3. /\ UpdateProduct(x, screen.typed, v) \/ UpdateModule(x, screen.typed, v)
             \/ UpdateFeature(x, screen.typed, v) \/ UpdateRequirement(x, screen.typed, v)
          /\ Judge(x, entry[x].label) /\ screen' = Refreshed(x) /\ squeezed' = squeezed /\ turns' = turns + 1
          /\ screen.pc = "edit"
      BY <2>1, <3>1, <3>2 DEF SaveEdit
    <3>4. x \in Entries
      BY <3>3 DEF UpdateProduct, UpdateModule, UpdateFeature, UpdateRequirement, Entries
    <3>5. /\ entry' = [entry EXCEPT ![x] = [version |-> entry[x].version + 1, label |-> screen.typed]]
          /\ entry[x].version = v /\ v > 0
      BY <1>1, <1>2, <3>3, <3>4, OneRowWritten
    <3>6. entry' \in [Entries -> Row]
      BY <1>1, <1>2, <3>4, <3>5, RowMoves
    <3>7. PICK there : there = IF screen.behind.sel = NoEntry THEN NoRow ELSE entry'[screen.behind.sel]
      OBVIOUS
    <3>8. there \in Row /\ entry'[x] \in Row /\ (screen.behind.sel \in Entries => there = entry'[screen.behind.sel])
      BY <1>1, <1>2, <3>4, <3>6, <3>7, RowsTyped, CatalogueFacts
    <3>9. screen' = [Emptied EXCEPT !.row = entry'[x], !.kept = there]
      BY <3>3, <3>7 DEF Refreshed
    <3>10. CurrentIn(entry', x, entry'[x]) /\ CurrentIn(entry', screen.behind.sel, there)
      BY <3>6, <3>8 DEF CurrentIn, Row
    <3>11. ~screen.carried => misfiled' = misfiled
      <4>1. ~screen.carried => screen.about = x /\ screen.shown = screen.row.label
        BY <3>1, <3>3 DEF CatScreenInv, Informed
      <4>2. screen.row.label = entry[x].label
        BY <3>1, <3>2, <3>4, <3>5 DEF CatScreenInv, IsCurrent, CurrentIn
      <4> QED BY <3>3, <4>1, <4>2 DEF Judge
    <3>12. misfiled' \in {misfiled, misfiled \cup {screen.carried}}
      BY <3>3 DEF Judge
    <3> QED BY <3>1, <3>3, <3>6, <3>8, <3>9, <3>10, <3>11, <3>12 DEF PageSaved
  <2>2. ASSUME NEW x \in Entries, SaveNew(x) PROVE \E here \in Row, there \in Row : PageSaved(here, there)
    <3>1. /\ CreateProduct(x, screen.typed) \/ CreateModule(x, screen.typed)
             \/ CreateFeature(x, screen.typed) \/ CreateRequirement(x, screen.typed)
          /\ Judge(ParentOf[x], screen.shown) /\ squeezed' = squeezed /\ turns' = turns + 1
          /\ screen.pc = "add" /\ ParentOf[x] = Under(screen.page.sel)
          /\ screen' = [Emptied EXCEPT !.row = RowOf(screen.page.sel), !.kept = RowOf(screen.behind.sel)]
      BY <2>2 DEF SaveNew
    <3>2. entry' = [entry EXCEPT ![x] = [version |-> entry[x].version + 1, label |-> screen.typed]]
      BY <1>1, <1>2, <3>1, OneRowWritten
    <3>3. entry' \in [Entries -> Row]
      BY <1>1, <1>2, <3>2, RowMoves
    <3>4. \A y \in Entries \cup {NoEntry} : RowOf(y) \in Row /\ CurrentIn(entry', y, RowOf(y))
      BY <1>1, <1>2, <3>2, RowsTyped, CurrentMoves
    <3>5. ~screen.carried => misfiled' = misfiled
      BY <3>1 DEF CatScreenInv, Informed, Judge
    <3>6. misfiled' \in {misfiled, misfiled \cup {screen.carried}}
      BY <3>1 DEF Judge
    <3> QED BY <1>2, <3>1, <3>3, <3>4, <3>5, <3>6 DEF PageSaved
  <2> QED BY <2>1, <2>2
<1>4. PICK base : base = Emptied
  OBVIOUS
<1>5. base \in Screen /\ base.pc = "drawn" /\ base.page = screen.page /\ base.behind = screen.behind
  BY <1>1, <1>4, CatalogueFacts DEF Emptied, Screen
<1>6. PICK next : next = [base EXCEPT !.row = here, !.kept = there]
  OBVIOUS
<1>7. /\ next \in Screen /\ next.pc = "drawn" /\ next.page = screen.page /\ next.behind = screen.behind
      /\ next.row = here /\ next.kept = there
  BY <1>5, <1>6 DEF Screen
<1>8. /\ screen' = next /\ turns' = turns + 1 /\ squeezed' = squeezed /\ entry' \in [Entries -> Row]
      /\ CurrentIn(entry', screen.page.sel, here) /\ CurrentIn(entry', screen.behind.sel, there)
      /\ misfiled' \in {misfiled, misfiled \cup {screen.carried}} /\ (~screen.carried => misfiled' = misfiled)
  BY <1>3, <1>4, <1>6 DEF PageSaved
<1>9. IsCurrent(next.page.sel, next.row)' /\ IsCurrent(next.behind.sel, next.kept)'
  BY <1>7, <1>8 DEF IsCurrent
<1>10. FALSE \notin misfiled' /\ misfiled' \subseteq BOOLEAN
  <2>1. screen.carried \in BOOLEAN
    BY <1>1, ScreenFields
  <2>2. CASE screen.carried = TRUE
    BY <1>1, <1>8, <2>2 DEF CatScreenInv, EditsAreInformed
  <2>3. CASE screen.carried = FALSE
    BY <1>1, <1>8, <2>3, Zenon DEF CatScreenInv, EditsAreInformed
  <2> QED BY <2>1, <2>2, <2>3
<1>11. turns' \in Nat /\ {next.page, next.behind} = {screen.page, screen.behind}
  BY <1>1, <1>7, <1>8
<1>12. next.pc # "edit" /\ next.pc # "add"
  BY <1>7
<1> QED BY <1>7, <1>8, <1>9, <1>10, <1>11, <1>12, Redrawn

LEMMA CatScreenInit == CatalogueScreenInit => CatScreenInv
<1> SUFFICES ASSUME CatalogueScreenInit PROVE CatScreenInv
  OBVIOUS
<1>1. /\ entry \in [Entries -> Row]
      /\ screen = [page |-> FirstPage, row |-> NoRow, behind |-> FirstPage, kept |-> NoRow,
                   pc |-> "drawn", about |-> NoEntry, shown |-> AnyLabel, typed |-> AnyLabel,
                   carried |-> FALSE]
      /\ turns = 0 /\ squeezed = FALSE /\ misfiled = {}
  BY DEF CatalogueScreenInit, CatalogueInit, Row
<1>2. NoRow \in Row /\ IsCurrent(NoEntry, NoRow)
  BY <1>1, RowsTyped, CatalogueFacts DEF IsCurrent, CurrentIn
<1>3. FirstPage \in Page /\ FirstPage.sel = NoEntry /\ FirstPage.wanted = {}
  BY DEF FirstPage, Page
<1>4. screen \in Screen
  BY <1>1, <1>2, <1>3, CatalogueFacts DEF Screen
<1> QED BY <1>1, <1>2, <1>3, <1>4 DEF CatScreenInv, CatalogueScreenTypeOK, KeptOpen, Informed, EditsAreInformed

\* Every navigation, dialog and write, the viewer's and everybody's.
LEMMA CatScreenNext == CatScreenInv /\ [CatalogueScreenNext]_<<catalogueVars, viewerVars>> => CatScreenInv'
<1> SUFFICES ASSUME CatScreenInv, [CatalogueScreenNext]_<<catalogueVars, viewerVars>> PROVE CatScreenInv'
  OBVIOUS
<1>1. /\ screen \in Screen /\ entry \in [Entries -> Row] /\ turns \in Nat /\ misfiled \subseteq BOOLEAN
      /\ squeezed \in BOOLEAN
  BY DEF CatScreenInv, CatalogueScreenTypeOK
<1>p. screen.page \in Page
  BY <1>1, ScreenFields
<1>2. ASSUME NEW x \in Entries \cup {NoEntry}, SelectEntry(x) PROVE CatScreenInv'
  <2>1. PICK p : p = SelectionHref(screen.page, x)
    OBVIOUS
  <2>2. p \in Page /\ p.open = screen.page.open /\ p.wanted = screen.page.wanted
    BY <1>p, <2>1 DEF SelectionHref, Page
  <2>3. GoTo(p) /\ squeezed' = squeezed
    BY <1>2, <2>1 DEF SelectEntry
  <2>4. squeezed \/ KeptOpen(p)
    BY <2>2 DEF CatScreenInv, KeptOpen, ReadOpenSet
  <2> QED BY <1>1, <2>2, <2>3, <2>4, Navigated
<1>3. ASSUME NEW b \in Branches, ToggleBranch(b) PROVE CatScreenInv'
  <2>1. PICK shut \in BOOLEAN : shut <=> b \in OpenOn(screen.page, screen.row)
    OBVIOUS
  <2>2. PICK p : p = [screen.page EXCEPT !.open = ToggleOpen(screen.page, b),
                         !.wanted = IF shut THEN screen.page.wanted \ {b} ELSE screen.page.wanted \cup {b}]
    OBVIOUS
  <2>3. GoTo(p)
    BY <1>3, <2>1, <2>2 DEF ToggleBranch
  <2>4. p \in Page /\ p.open = ToggleOpen(screen.page, b)
        /\ p.wanted = IF shut THEN screen.page.wanted \ {b} ELSE screen.page.wanted \cup {b}
    BY <1>p, <2>2, ToggleKeeps DEF Page
  <2>5. squeezed' = (squeezed \/ (Len(ReadOpenSet(screen.page)) = MaxOpen /\ b \notin Range(ReadOpenSet(screen.page))))
    BY <1>3 DEF ToggleBranch
  <2>6. squeezed' \/ KeptOpen(p)
    <3> SUFFICES ASSUME ~squeezed' PROVE KeptOpen(p)
      OBVIOUS
    <3>1. /\ ~squeezed
          /\ b \in Range(ReadOpenSet(screen.page)) \/ Len(ReadOpenSet(screen.page)) # MaxOpen
      BY <2>5
    <3>2. ReadOpenSet(p) = ToggleOpen(screen.page, b)
      BY <1>p, <2>4, <3>1, ToggleKeeps, ReadTyped
    <3>3. screen.page.wanted \subseteq Range(ReadOpenSet(screen.page))
      BY <3>1 DEF CatScreenInv, KeptOpen
    <3>4. b \in Range(ReadOpenSet(screen.page)) => shut
      BY <2>1 DEF OpenOn
    <3>5. p.wanted \subseteq Range(ToggleOpen(screen.page, b))
      BY <1>p, <2>4, <3>3, <3>4, ToggleKeeps
    <3> QED BY <3>2, <3>5 DEF KeptOpen
  <2> QED BY <1>1, <2>3, <2>4, <2>5, <2>6, Navigated
<1>4. CASE CollapseAll
  <2>1. PICK p : p = [screen.page EXCEPT !.open = <<>>, !.wanted = {}]
    OBVIOUS
  <2>e. <<>> \in Seq(Branches)
    OBVIOUS
  <2>2. p \in Page /\ p.wanted = {}
    BY <1>p, <2>1, <2>e DEF Page
  <2>3. GoTo(p) /\ squeezed' = squeezed
    BY <1>4, <2>1 DEF CollapseAll
  <2> QED BY <1>1, <2>2, <2>3, Navigated DEF KeptOpen
<1>5. ASSUME CatalogueWrite, turns' = turns + 1, UNCHANGED <<screen, squeezed, misfiled>> PROVE CatScreenInv'
  <2>1. PICK x \in Entries, t \in Labels :
           \/ CreateProduct(x, t) \/ CreateModule(x, t) \/ CreateFeature(x, t) \/ CreateRequirement(x, t)
           \/ UpdateProduct(x, t, entry[x].version) \/ UpdateModule(x, t, entry[x].version)
           \/ UpdateFeature(x, t, entry[x].version) \/ UpdateRequirement(x, t, entry[x].version)
    BY <1>5 DEF CatalogueWrite
  <2>2. entry' = [entry EXCEPT ![x] = [version |-> entry[x].version + 1, label |-> t]]
    BY <1>1, <2>1, OneRowWritten
  <2>3. entry' \in [Entries -> Row]
    BY <1>1, <2>2, RowMoves
  <2>4. CurrentIn(entry', screen.page.sel, screen.row) /\ CurrentIn(entry', screen.behind.sel, screen.kept)
    BY <1>1, <2>2, ScreenFields, CurrentMoves DEF CatScreenInv
  <2>5. IsCurrent(screen.page.sel, screen.row)' /\ IsCurrent(screen.behind.sel, screen.kept)'
    BY <1>5, <2>4 DEF IsCurrent
  <2>6. CatalogueScreenTypeOK' /\ Informed' /\ EditsAreInformed'
    <3>1. CatalogueScreenTypeOK'
      BY <1>1, <1>5 DEF CatScreenInv, CatalogueScreenTypeOK
    <3>2. Informed'
      BY <1>5 DEF CatScreenInv, Informed, Under
    <3>3. EditsAreInformed'
      BY <1>5, Zenon DEF CatScreenInv, EditsAreInformed
    <3> QED BY <3>1, <3>2, <3>3
  <2>7. (squeezed \/ (KeptOpen(screen.page) /\ KeptOpen(screen.behind)))'
    BY <1>5 DEF CatScreenInv, KeptOpen, ReadOpenSet
  <2> QED BY <2>3, <2>5, <2>6, <2>7 DEF CatScreenInv
<1>6. CASE UNCHANGED <<catalogueVars, viewerVars>>
  BY <1>6 DEF catalogueVars, viewerVars, CatScreenInv, CatalogueScreenTypeOK, IsCurrent, CurrentIn, KeptOpen, ReadOpenSet,
              Informed, Under, EditsAreInformed
<1> QED BY <1>2, <1>3, <1>4, <1>5, <1>6, DialogStep, TraverseStep, SaveStep DEF CatalogueScreenNext

\* A branch that the viewer opened, and did not shut, stays open wherever they go in the explorer,
\* Back and Forward included, while there are no more than MAX_OPEN_NODES of them.
THEOREM BranchesStay == CatalogueScreenSpec => []OpenBranchesStayOpen
<1>1. CatalogueScreenSpec => []CatScreenInv
  BY CatScreenInit, CatScreenNext, PTL DEF CatalogueScreenSpec
<1> QED BY <1>1, OpenFollows, PTL

\* What a dialog of the explorer writes goes to the record it named and over the label it showed,
\* whoever else writes in between: the version that travels with it sees to that, unless Back or
\* Forward moved the page beneath it.
THEOREM EditsStayInformed == CatalogueScreenSpec => []EditsAreInformed
<1>1. CatalogueScreenSpec => []CatScreenInv
  BY CatScreenInit, CatScreenNext, PTL DEF CatalogueScreenSpec
<1>2. CatScreenInv => EditsAreInformed
  BY DEF CatScreenInv
<1> QED BY <1>1, <1>2, PTL

\* The explorer's screen is always of its type.
THEOREM ExplorerTyped == CatalogueScreenSpec => []CatalogueScreenTypeOK
<1>1. CatalogueScreenSpec => []CatScreenInv
  BY CatScreenInit, CatScreenNext, PTL DEF CatalogueScreenSpec
<1>2. CatScreenInv => CatalogueScreenTypeOK
  BY DEF CatScreenInv
<1> QED BY <1>1, <1>2, PTL

-------------------------------------------------------------------------------
\* The first so many of a finite set in some order.

Orders(R, S) ==
    /\ \A x \in S : <<x, x>> \notin R
    /\ \A x, y, z \in S : <<x, y>> \in R /\ <<y, z>> \in R => <<x, z>> \in R
    /\ \A x, y \in S : x = y \/ <<x, y>> \in R \/ <<y, x>> \in R

Earlier(R, S, x) == {y \in S : <<y, x>> \in R}

FirstIn(R, S, n) == {x \in S : Cardinality(Earlier(R, S, x)) < n}

LEMMA HasLeast ==
    ASSUME NEW R, NEW S, IsFiniteSet(S), Orders(R, S), NEW T \in SUBSET S, T # {}
    PROVE  \E m \in T : \A y \in T : <<y, m>> \notin R
<1> DEFINE Below == {Earlier(R, S, x) : x \in T}
<1>1. \A x \in T : Earlier(R, S, x) \in FiniteSubsetsOf(S)
  <2>1. \A x : Earlier(R, S, x) \in SUBSET S
    BY DEF Earlier
  <2> QED
    BY <2>1, FS_Subset DEF FiniteSubsetsOf
<1>2. Below \subseteq FiniteSubsetsOf(S) /\ Below # {}
  BY <1>1
<1>3. \E X \in Below : \A Y \in Below : <<Y, X>> \notin StrictSubsetOrdering(S)
  <2> HIDE DEF Below
  <2> QED
    BY <1>2, FS_StrictSubsetOrderingWellFounded, WFMin
<1>4. PICK m \in T : \A y \in T : <<Earlier(R, S, y), Earlier(R, S, m)>> \notin StrictSubsetOrdering(S)
  BY <1>3
<1>5. ASSUME NEW y \in T, <<y, m>> \in R PROVE FALSE
  <2>1. Earlier(R, S, y) \subseteq Earlier(R, S, m)
    BY <1>5 DEF Earlier, Orders
  <2>2. y \in Earlier(R, S, m) /\ y \notin Earlier(R, S, y)
    BY <1>5 DEF Earlier, Orders
  <2> QED
    BY <1>4, <2>1, <2>2 DEF StrictSubsetOrdering, Earlier
<1> QED
  BY <1>5

\* A cut that leaves something out is full, and what it leaves out comes after all it keeps.
LEMMA CutIsFull ==
    ASSUME NEW R, NEW S, IsFiniteSet(S), Orders(R, S), NEW n \in Nat
    PROVE  LET F == FirstIn(R, S, n)
           IN  /\ IsFiniteSet(F) /\ F \subseteq S /\ Cardinality(F) \in Nat
               /\ Cardinality(F) <= n /\ Cardinality(F) <= Cardinality(S)
               /\ F # S => Cardinality(F) = n
               /\ \A x \in F, y \in S \ F : <<x, y>> \in R
<1> DEFINE F == FirstIn(R, S, n)
           E(x) == Earlier(R, S, x)
<1>1. F \in SUBSET S /\ \A x : E(x) \in SUBSET S
  BY DEF FirstIn, Earlier
<1>2. /\ IsFiniteSet(F) /\ Cardinality(F) \in Nat /\ Cardinality(F) <= Cardinality(S)
      /\ \A x : IsFiniteSet(E(x)) /\ Cardinality(E(x)) \in Nat
  BY <1>1, FS_Subset, FS_CardinalityType
<1>3. \A x \in F : Cardinality(E(x)) < n
  BY DEF FirstIn
<1>4. \A x \in S \ F : Cardinality(E(x)) >= n
  BY <1>2 DEF FirstIn
<1>5. \A x, y \in S : <<y, x>> \in R => E(y) \subseteq E(x)
  BY DEF Earlier, Orders
<1>6. \A x, y \in S : <<y, x>> \in R => Cardinality(E(y)) <= Cardinality(E(x))
  BY <1>2, <1>5, FS_Subset
<1>7. ASSUME NEW x \in F, NEW y \in S \ F PROVE <<x, y>> \in R
  <2>1. <<y, x>> \notin R
    <3>1. Cardinality(E(x)) < n /\ Cardinality(E(y)) >= n
      BY <1>3, <1>4
    <3>2. <<y, x>> \in R => Cardinality(E(y)) <= Cardinality(E(x))
      BY <1>1, <1>6
    <3> HIDE DEF E, F
    <3> QED
      BY <1>2, <3>1, <3>2
  <2>2. x \in S /\ y \in S /\ x # y
    BY <1>1
  <2> QED
    BY <2>1, <2>2 DEF Orders
<1>8. Cardinality(F) <= n
  <2>1. CASE F = {}
    <3>1. Cardinality(F) = 0
      BY <2>1, FS_EmptySet
    <3> QED
      BY <3>1
  <2>2. CASE F # {}
    <3> DEFINE U == {p \in S \X S : <<p[2], p[1]>> \in R}
    <3>1. Orders(U, S)
      BY DEF Orders
    <3>2. PICK m \in F : \A y \in F : <<y, m>> \notin U
      <4> HIDE DEF U, F
      <4> QED
        BY <1>1, <2>2, <3>1, HasLeast
    <3>3. F \subseteq E(m) \cup {m}
      BY <1>1, <3>2 DEF Earlier, Orders
    <3>4. IsFiniteSet(E(m) \cup {m}) /\ Cardinality(E(m) \cup {m}) <= Cardinality(E(m)) + 1
      <4>1. IsFiniteSet(E(m)) /\ Cardinality(E(m)) \in Nat
        BY <1>2
      <4>2. PICK X : X = E(m)
        OBVIOUS
      <4>3. IsFiniteSet(X) /\ Cardinality(X) \in Nat
        BY <4>1, <4>2
      <4>4. /\ IsFiniteSet(X \cup {m})
            /\ Cardinality(X \cup {m}) = IF m \in X THEN Cardinality(X) ELSE Cardinality(X) + 1
        BY <4>3, FS_AddElement
      <4>5. Cardinality(X \cup {m}) <= Cardinality(X) + 1
        BY <4>3, <4>4
      <4> QED
        BY <4>2, <4>4, <4>5
    <3>5. Cardinality(F) <= Cardinality(E(m) \cup {m}) /\ Cardinality(E(m) \cup {m}) \in Nat
      <4> HIDE DEF E, F
      <4> QED
        BY <3>3, <3>4, FS_Subset, FS_CardinalityType
    <3>6. Cardinality(E(m)) < n /\ Cardinality(E(m)) \in Nat
      BY <1>2, <1>3
    <3> HIDE DEF E, F
    <3> QED
      BY <1>2, <3>4, <3>5, <3>6
  <2> QED
    BY <2>1, <2>2
<1>9. ASSUME F # S PROVE Cardinality(F) = n
  <2>1. PICK m \in S \ F : \A y \in S \ F : <<y, m>> \notin R
    <3>1. S \ F \in SUBSET S /\ S \ F # {}
      BY <1>1, <1>9
    <3> HIDE DEF F
    <3> QED
      BY <3>1, HasLeast
  <2>2. E(m) \subseteq F
    BY <2>1 DEF Earlier
  <2>3. Cardinality(E(m)) <= Cardinality(F) /\ Cardinality(E(m)) >= n /\ Cardinality(E(m)) \in Nat
    <3>1. Cardinality(E(m)) >= n /\ Cardinality(E(m)) \in Nat
      BY <1>2, <1>4
    <3> HIDE DEF E, F
    <3> QED
      BY <1>2, <2>2, <3>1, FS_Subset
  <2> HIDE DEF E, F
  <2> QED
    BY <1>2, <1>8, <2>3
<1> QED
  BY <1>1, <1>2, <1>7, <1>8, <1>9

-------------------------------------------------------------------------------
\* What narrows the list of the case picker narrows nothing else

\* What is sent is what was counted, and what is made of it is all of it, or part for a contract.
Sends(p) ==
    /\ p.sent # {} => p.sent = p.meant
    /\ p.form = "none" => p.made \in {{}, p.meant}
    /\ p.made \subseteq p.meant

AskedFor(p) == IF p.run = 0 THEN p.linked ELSE CoveredBy[p.run]

\* Until somebody selects by hand or goes back from a run to none, the selection is what was asked
\* for of what is offered.
Begins(p) == ~p.byHand /\ ~p.emptied => AskedFor(p) = p.selected \cup (AskedFor(p) \ p.cases)

\* Only a group that was put away is kept closed.
Closes(p) == \A f \in Features : p.override[f] = "closed" => f \in p.putAway

\* The requirement is one of those offered.
Requires(p) ==
    \/ p.requirement = NoFilter
    \/ \E c \in p.cases : p.product \in {NoFilter, ProductOf[c]} /\ RequirementOf[c] = p.requirement

HonestPick(p) == p \in Pick /\ Sends(p) /\ Begins(p) /\ Closes(p) /\ Requires(p)

CasesInv == eligible \subseteq Candidates /\ HonestPick(pick)

LEMMA NewPickIsHonest ==
    ASSUME NEW form \in {"plan", "contract"}, NEW S \in SUBSET Candidates, NEW A \in SUBSET Candidates
    PROVE  /\ HonestPick(NewPick)
           /\ HonestPick([NewPick EXCEPT !.form = form, !.cases = S, !.linked = A, !.selected = A \cap S])
<1>1. NoOverride \in [Features -> {"auto", "open", "closed"}] /\ \A f \in Features : NoOverride[f] = "auto"
  BY DEF NoOverride
<1>2. 0 \in 0..MaxPicks
  BY PickerAssumption DEF PickerAssumption
<1>3. NewPick \in Pick
  BY <1>1, <1>2 DEF NewPick, Pick
<1> DEFINE p == [NewPick EXCEPT !.form = form, !.cases = S, !.linked = A, !.selected = A \cap S]
<1>4. p \in Pick
  BY <1>3 DEF Pick
<1>5. HonestPick(NewPick)
  BY <1>1, <1>3 DEF NewPick, HonestPick, Sends, Begins, AskedFor, Closes, Requires
<1>6. /\ p.sent = {} /\ p.made = {} /\ p.form = form /\ p.run = 0 /\ p.linked = A
      /\ p.selected = A \cap S /\ p.cases = S /\ p.override = NoOverride /\ p.requirement = NoFilter
  BY DEF NewPick
<1>7. HonestPick(p)
  <2> HIDE DEF p
  <2> QED
    BY <1>1, <1>4, <1>6 DEF HonestPick, Sends, Begins, AskedFor, Closes, Requires
<1> QED
  BY <1>5, <1>7

\* The count of what the reader did is in none of it.
LEMMA Counted_picks ==
    ASSUME NEW p, HonestPick(p), NEW n \in 0..MaxPicks
    PROVE  HonestPick([p EXCEPT !.picks = n])
<1>1. [p EXCEPT !.picks = n] \in Pick
  BY DEF Pick, HonestPick
<1> QED
  BY <1>1 DEF HonestPick, Pick, Sends, Begins, AskedFor, Closes, Requires

LEMMA UseKeeps ==
    ASSUME CasesInv, NEW p, HonestPick(p), p.picks = pick.picks, Use(p)
    PROVE  CasesInv'
<1>1. p.picks \in Nat /\ MaxPicks \in Nat /\ p.picks < MaxPicks
  BY PickerAssumption DEF PickerAssumption, HonestPick, Pick, Use, CasesInv
<1>2. p.picks + 1 \in 0..MaxPicks
  BY <1>1
<1>3. p.picks + 1 = p.picks + 1 /\ pick' = [p EXCEPT !.picks = p.picks + 1] /\ eligible' = eligible
  BY DEF Use, HonestPick, Pick
<1>4. HonestPick(pick')
  BY <1>2, <1>3, Counted_picks
<1> QED
  BY <1>3, <1>4 DEF CasesInv

\* A selection made by hand leaves nothing to be said of how it began.
LEMMA HandsAreHonest ==
    ASSUME NEW p, HonestPick(p), NEW S \in SUBSET Candidates
    PROVE  HonestPick([p EXCEPT !.selected = S, !.byHand = TRUE])
<1>1. [p EXCEPT !.selected = S, !.byHand = TRUE] \in Pick
  BY DEF Pick, HonestPick
<1> QED
  BY <1>1 DEF HonestPick, Pick, Sends, Begins, AskedFor, Closes, Requires

LEMMA GroupsTyped ==
    ASSUME CasesInv
    PROVE  /\ Matching \subseteq pick.cases /\ Groups \subseteq Features
           /\ \A f : Group(f) \subseteq Candidates
<1>1. pick.cases \subseteq Candidates
  BY DEF CasesInv, HonestPick, Pick
<1>2. Matching \subseteq pick.cases
  BY DEF Matching
<1> QED
  BY <1>1, <1>2 DEF Groups, Features, Group

LEMMA DropsTyped ==
    ASSUME NEW o \in [Features -> {"auto", "open", "closed"}]
    PROVE  /\ DropExplicitCloses(o) \in [Features -> {"auto", "open", "closed"}]
           /\ \A f \in Features : DropExplicitCloses(o)[f] # "closed"
BY DEF DropExplicitCloses

LEMMA OverridesAreHonest ==
    ASSUME NEW p, HonestPick(p), NEW o \in [Features -> {"auto", "open", "closed"}],
           NEW S \in SUBSET Features, \A f \in Features : o[f] = "closed" => f \in S
    PROVE  HonestPick([p EXCEPT !.override = o, !.putAway = S])
<1>1. [p EXCEPT !.override = o, !.putAway = S] \in Pick
  BY DEF Pick, HonestPick
<1> QED
  BY <1>1 DEF HonestPick, Pick, Sends, Begins, AskedFor, Closes, Requires

LEMMA OpenFormHonest ==
    ASSUME CasesInv, NEW asked \in Links,
           OpenForm("plan", asked) \/ OpenForm("contract", asked)
    PROVE  CasesInv'
<1>1. asked \in SUBSET Candidates /\ eligible \in SUBSET Candidates
  BY PickerAssumption DEF PickerAssumption, CasesInv
<1>2. HonestPick(pick')
  BY <1>1, NewPickIsHonest DEF OpenForm
<1> QED
  BY <1>1, <1>2 DEF OpenForm, CasesInv

LEMMA StartsHonest ==
    ASSUME CasesInv,
           (\E n \in DOMAIN CoveredBy : StartFromRun(n)) \/ StartByHand
    PROVE  CasesInv'
<1>1. PICK p : p = pick
  OBVIOUS
<1>2. HonestPick(p) /\ p \in Pick
  BY <1>1 DEF CasesInv, HonestPick
<1>3. ASSUME NEW n \in DOMAIN CoveredBy, StartFromRun(n) PROVE CasesInv'
  <2>1. n # 0 /\ CoveredBy[n] \in SUBSET Candidates
    BY PickerAssumption DEF PickerAssumption
  <2> DEFINE q == [p EXCEPT !.run = n, !.selected = CoveredBy[n] \cap p.cases, !.byHand = FALSE,
                       !.emptied = FALSE]
  <2>2. q \in Pick
    BY <1>2, <2>1 DEF Pick
  <2>3. /\ q.run = n /\ q.selected = CoveredBy[n] \cap p.cases /\ q.cases = p.cases
        /\ q.sent = p.sent /\ q.meant = p.meant /\ q.form = p.form /\ q.made = p.made
        /\ q.override = p.override /\ q.putAway = p.putAway /\ q.requirement = p.requirement
        /\ q.product = p.product /\ q.picks = p.picks
    BY <1>2 DEF Pick
  <2>4. Use(q)
    BY <1>1, <1>3 DEF StartFromRun, Change
  <2> HIDE DEF q
  <2>5. Begins(q)
    BY <2>1, <2>3 DEF Begins, AskedFor
  <2>6. HonestPick(q)
    BY <1>2, <2>2, <2>3, <2>5 DEF HonestPick, Sends, Closes, Requires
  <2> QED
    BY <1>1, <2>3, <2>4, <2>6, UseKeeps
<1>4. CASE StartByHand
  <2> DEFINE q == [p EXCEPT !.run = 0, !.selected = {}, !.byHand = FALSE, !.emptied = TRUE]
  <2>1. HonestPick(q) /\ q.picks = p.picks
    BY <1>2 DEF HonestPick, Pick, Sends, Begins, AskedFor, Closes, Requires
  <2>2. Use(q)
    BY <1>1, <1>4 DEF StartByHand, Change
  <2> HIDE DEF q
  <2> QED
    BY <1>1, <2>1, <2>2, UseKeeps
<1> QED
  BY <1>3, <1>4

LEMMA SelectsHonest ==
    ASSUME CasesInv,
           \/ \E c \in Candidates : Toggle(c)
           \/ \E f \in Features : ToggleGroup(f)
           \/ ClearSelection
    PROVE  CasesInv'
<1>1. PICK p : p = pick
  OBVIOUS
<1>2. HonestPick(p) /\ p \in Pick /\ p.selected \in SUBSET Candidates
  BY <1>1 DEF CasesInv, HonestPick, Pick
<1>3. ASSUME NEW S \in SUBSET Candidates, Use([p EXCEPT !.selected = S, !.byHand = TRUE]) PROVE CasesInv'
  <2> DEFINE q == [p EXCEPT !.selected = S, !.byHand = TRUE]
  <2>1. HonestPick(q)
    BY <1>2, HandsAreHonest
  <2>2. q.picks = p.picks
    BY <1>2 DEF Pick
  <2>3. Use(q)
    BY <1>3
  <2> HIDE DEF q
  <2> QED
    BY <1>1, <2>1, <2>2, <2>3, UseKeeps
<1>4. ASSUME NEW c \in Candidates, Toggle(c) PROVE CasesInv'
  <2>1. Flip(p.selected, {c}) \in SUBSET Candidates
    BY <1>2 DEF Flip
  <2>2. Use([p EXCEPT !.selected = Flip(p.selected, {c}), !.byHand = TRUE])
    BY <1>1, <1>4 DEF Toggle, Change
  <2> QED
    BY <1>3, <2>1, <2>2
<1>5. ASSUME NEW f \in Features, ToggleGroup(f) PROVE CasesInv'
  <2>1. PICK G : G = Group(f)
    OBVIOUS
  <2> DEFINE S == IF G \subseteq p.selected THEN p.selected \ G ELSE p.selected \cup G
  <2>2. S \in SUBSET Candidates
    BY <1>2, <2>1, GroupsTyped
  <2>3. Use([p EXCEPT !.selected = S, !.byHand = TRUE])
    BY <1>1, <1>5, <2>1 DEF ToggleGroup, Change
  <2> HIDE DEF S
  <2> QED
    BY <1>3, <2>2, <2>3
<1>6. CASE ClearSelection
  <2>1. PICK S : S = {}
    OBVIOUS
  <2>2. Use([p EXCEPT !.selected = S, !.byHand = TRUE])
    BY <1>1, <1>6, <2>1 DEF ClearSelection, Change
  <2>3. S \in SUBSET Candidates
    BY <2>1
  <2> QED
    BY <1>3, <2>2, <2>3
<1> QED
  BY <1>4, <1>5, <1>6

LEMMA GroupsOpenHonest ==
    ASSUME CasesInv, (\E f \in Features : ToggleGroupOpen(f)) \/ CollapseGroups
    PROVE  CasesInv'
<1>1. PICK p : p = pick
  OBVIOUS
<1>2. /\ HonestPick(p) /\ p \in Pick /\ p.putAway \in SUBSET Features
      /\ p.override \in [Features -> {"auto", "open", "closed"}]
      /\ \A f \in Features : p.override[f] = "closed" => f \in p.putAway
  BY <1>1 DEF CasesInv, HonestPick, Pick, Closes
<1>3. ASSUME NEW o \in [Features -> {"auto", "open", "closed"}], NEW S \in SUBSET Features,
             \A f \in Features : o[f] = "closed" => f \in S,
             Use([p EXCEPT !.override = o, !.putAway = S])
      PROVE  CasesInv'
  <2> DEFINE q == [p EXCEPT !.override = o, !.putAway = S]
  <2>1. HonestPick(q)
    BY <1>2, <1>3, OverridesAreHonest
  <2>2. q.picks = p.picks
    BY <1>2 DEF Pick
  <2>3. Use(q)
    BY <1>3
  <2> HIDE DEF q
  <2> QED
    BY <1>1, <2>1, <2>2, <2>3, UseKeeps
<1>4. ASSUME NEW f \in Features, ToggleGroupOpen(f) PROVE CasesInv'
  <2>1. PICK b : b = IsOpen(f)
    OBVIOUS
  <2> DEFINE o == [p.override EXCEPT ![f] = IF IsOpen(f) THEN "closed" ELSE "open"]
             S == IF IsOpen(f) THEN p.putAway \cup {f} ELSE p.putAway \ {f}
  <2>2. Use([p EXCEPT !.override = o, !.putAway = S])
    <3>1. Use([p EXCEPT !.override[f] = IF IsOpen(f) THEN "closed" ELSE "open", !.putAway = S])
      BY <1>1, <1>4 DEF ToggleGroupOpen, Change
    <3>2. [p EXCEPT !.override[f] = IF IsOpen(f) THEN "closed" ELSE "open", !.putAway = S]
            = [p EXCEPT !.override = o, !.putAway = S]
      BY <1>2
    <3> QED
      BY <3>1, <3>2
  <2>3. CASE IsOpen(f)
    <3>1. o = [p.override EXCEPT ![f] = "closed"] /\ S = p.putAway \cup {f}
      BY <2>3
    <3> HIDE DEF o, S
    <3>2. o \in [Features -> {"auto", "open", "closed"}] /\ S \in SUBSET Features
      BY <1>2, <3>1
    <3>3. \A g \in Features : o[g] = "closed" => g \in S
      BY <1>2, <3>1
    <3> QED
      BY <1>3, <2>2, <3>2, <3>3
  <2>4. CASE ~IsOpen(f)
    <3>1. o = [p.override EXCEPT ![f] = "open"] /\ S = p.putAway \ {f}
      BY <2>4
    <3> HIDE DEF o, S
    <3>2. o \in [Features -> {"auto", "open", "closed"}] /\ S \in SUBSET Features
      BY <1>2, <3>1
    <3>3. \A g \in Features : o[g] = "closed" => g \in S
      BY <1>2, <3>1
    <3> QED
      BY <1>3, <2>2, <3>2, <3>3
  <2> QED
    BY <2>3, <2>4
<1>5. CASE CollapseGroups
  <2>1. PICK G : G = Groups
    OBVIOUS
  <2> DEFINE o == [f \in Features |-> IF f \in G THEN "closed" ELSE "auto"]
  <2>2. G \in SUBSET Features
    BY <2>1, GroupsTyped
  <2>3. Use([p EXCEPT !.override = o, !.putAway = G])
    BY <1>1, <1>5, <2>1 DEF CollapseGroups, Change
  <2>4. /\ o \in [Features -> {"auto", "open", "closed"}]
        /\ \A f \in Features : o[f] = "closed" => f \in G
    OBVIOUS
  <2> HIDE DEF o
  <2> QED
    BY <1>3, <2>2, <2>3, <2>4
<1> QED
  BY <1>4, <1>5

LEMMA FiltersHonest ==
    ASSUME CasesInv,
           \/ \E t \in Terms \cup {NoFilter} : ChangeNeedle(t)
           \/ \E x \in Products \cup {NoFilter} : ChooseProduct(x)
           \/ \E r \in Requirements \cup {NoFilter} : ChooseRequirement(r)
           \/ ToggleOnlySelected \/ ShowAll
    PROVE  CasesInv'
<1>1. PICK p : p = pick
  OBVIOUS
<1>2. HonestPick(p) /\ p \in Pick
  BY <1>1 DEF CasesInv, HonestPick
<1>o. PICK o : o = DropExplicitCloses(p.override)
  OBVIOUS
<1>d. /\ o \in [Features -> {"auto", "open", "closed"}]
      /\ \A f \in Features : o[f] # "closed"
  <2>1. p.override \in [Features -> {"auto", "open", "closed"}]
    BY <1>2 DEF Pick
  <2> QED
    BY <1>o, <2>1, DropsTyped
<1>3. ASSUME NEW t \in Terms \cup {NoFilter}, ChangeNeedle(t) PROVE CasesInv'
  <2> DEFINE q == [p EXCEPT !.needle = t, !.putAway = {}, !.override = o]
  <2>1. q \in Pick
    BY <1>2, <1>d DEF Pick
  <2>3. /\ q.run = p.run /\ q.selected = p.selected /\ q.cases = p.cases /\ q.linked = p.linked
        /\ q.sent = p.sent /\ q.meant = p.meant /\ q.form = p.form /\ q.made = p.made
        /\ q.picks = p.picks /\ q.byHand = p.byHand /\ q.emptied = p.emptied
        /\ q.override = o /\ q.requirement = p.requirement /\ q.product = p.product
    BY <1>2 DEF Pick
  <2>2. Use(q)
    BY <1>1, <1>o, <1>3 DEF ChangeNeedle
  <2> HIDE DEF q
  <2>4. HonestPick(q)
    BY <1>2, <1>d, <2>1, <2>3 DEF HonestPick, Sends, Begins, AskedFor, Closes, Requires
  <2> QED
    BY <1>1, <2>2, <2>3, <2>4, UseKeeps
<1>4. ASSUME NEW x \in Products \cup {NoFilter}, ChooseProduct(x) PROVE CasesInv'
  <2> DEFINE q == [p EXCEPT !.product = x, !.requirement = NoFilter]
  <2>1. q \in Pick
    BY <1>2 DEF Pick
  <2>3. /\ q.run = p.run /\ q.selected = p.selected /\ q.cases = p.cases /\ q.linked = p.linked
        /\ q.sent = p.sent /\ q.meant = p.meant /\ q.form = p.form /\ q.made = p.made
        /\ q.picks = p.picks /\ q.byHand = p.byHand /\ q.emptied = p.emptied
        /\ q.override = p.override /\ q.putAway = p.putAway /\ q.requirement = NoFilter
    BY <1>2 DEF Pick
  <2>2. Use(q)
    BY <1>1, <1>4 DEF ChooseProduct, Change
  <2> HIDE DEF q
  <2>4. HonestPick(q)
    BY <1>2, <2>1, <2>3 DEF HonestPick, Sends, Begins, AskedFor, Closes, Requires
  <2> QED
    BY <1>1, <2>2, <2>3, <2>4, UseKeeps
<1>5. ASSUME NEW r \in Requirements \cup {NoFilter}, ChooseRequirement(r) PROVE CasesInv'
  <2> DEFINE q == [p EXCEPT !.requirement = r]
  <2>1. q \in Pick /\ q.picks = p.picks
    BY <1>2 DEF Pick
  <2>2. Sends(q) /\ Begins(q) /\ Closes(q)
    BY <1>2 DEF HonestPick, Pick, Sends, Begins, AskedFor, Closes
  <2>3. r = NoFilter \/ \E c \in p.cases : p.product \in {NoFilter, ProductOf[c]} /\ RequirementOf[c] = r
    BY <1>1, <1>5 DEF ChooseRequirement, RequirementOptions
  <2>4. q.requirement = r /\ q.cases = p.cases /\ q.product = p.product
    BY <1>2 DEF Pick
  <2>5. Use(q)
    BY <1>1, <1>5 DEF ChooseRequirement, Change
  <2> HIDE DEF q
  <2>6. HonestPick(q)
    BY <2>1, <2>2, <2>3, <2>4 DEF HonestPick, Requires
  <2> QED
    BY <1>1, <2>1, <2>5, <2>6, UseKeeps
<1>6. CASE ToggleOnlySelected
  <2> DEFINE q == [p EXCEPT !.only = ~p.only]
  <2>1. q \in Pick
    BY <1>2 DEF Pick
  <2>3. /\ q.run = p.run /\ q.selected = p.selected /\ q.cases = p.cases /\ q.linked = p.linked
        /\ q.sent = p.sent /\ q.meant = p.meant /\ q.form = p.form /\ q.made = p.made
        /\ q.picks = p.picks /\ q.byHand = p.byHand /\ q.emptied = p.emptied
        /\ q.override = p.override /\ q.putAway = p.putAway
        /\ q.requirement = p.requirement /\ q.product = p.product
    BY <1>2 DEF Pick
  <2>2. Use(q)
    BY <1>1, <1>6 DEF ToggleOnlySelected, Change
  <2> HIDE DEF q
  <2>4. HonestPick(q)
    BY <1>2, <2>1, <2>3 DEF HonestPick, Sends, Begins, AskedFor, Closes, Requires
  <2> QED
    BY <1>1, <2>2, <2>3, <2>4, UseKeeps
<1>7. CASE ShowAll
  <2> DEFINE q == [p EXCEPT !.only = FALSE, !.needle = NoFilter, !.product = NoFilter,
                            !.requirement = NoFilter, !.putAway = {}, !.override = o]
  <2>1. q \in Pick
    BY <1>2, <1>d DEF Pick
  <2>2. /\ q.run = p.run /\ q.selected = p.selected /\ q.cases = p.cases /\ q.linked = p.linked
        /\ q.sent = p.sent /\ q.meant = p.meant /\ q.form = p.form /\ q.made = p.made
        /\ q.override = o /\ q.requirement = NoFilter /\ q.picks = p.picks /\ q.byHand = p.byHand /\ q.emptied = p.emptied
    BY <1>2 DEF Pick
  <2>3. Use(q)
    BY <1>1, <1>o, <1>7 DEF ShowAll
  <2> HIDE DEF q
  <2>4. HonestPick(q)
    BY <1>2, <1>d, <2>1, <2>2 DEF HonestPick, Sends, Begins, AskedFor, Closes, Requires
  <2> QED
    BY <1>1, <2>2, <2>3, <2>4, UseKeeps
<1> QED
  BY <1>3, <1>4, <1>5, <1>6, <1>7

\* What the browser sends is the selection, whatever of it is on screen.
LEMMA FormIsSelection == FormData = pick.selected
BY DEF FormData, HiddenSelected

LEMMA RequestsHonest ==
    ASSUME CasesInv, SubmitPick \/ CreatePlanned \/ RefusePlanned \/ DownloadContract \/ RefuseContract
    PROVE  CasesInv'
<1>1. PICK p : p = pick
  OBVIOUS
<1>2. HonestPick(p) /\ p \in Pick
  BY <1>1 DEF CasesInv, HonestPick
<1>3. CASE SubmitPick
  <2>1. pick' = [p EXCEPT !.meant = p.selected, !.sent = p.selected, !.made = {}]
    BY <1>1, <1>3, FormIsSelection DEF SubmitPick
  <2>2. HonestPick([p EXCEPT !.meant = p.selected, !.sent = p.selected, !.made = {}])
    BY <1>2 DEF HonestPick, Pick, Sends, Begins, AskedFor, Closes, Requires
  <2> QED
    BY <1>3, <2>1, <2>2 DEF SubmitPick, CasesInv
<1>4. CASE CreatePlanned
  <2>1. p.sent # {} /\ pick' = [NewPick EXCEPT !.meant = p.meant, !.made = p.sent] /\ UNCHANGED eligible
    BY <1>1, <1>4 DEF CreatePlanned
  <2> DEFINE q == [NewPick EXCEPT !.meant = p.meant, !.made = p.sent]
  <2>2. HonestPick(NewPick) /\ NewPick \in Pick
    BY NewPickIsHonest DEF HonestPick
  <2>3. p.sent = p.meant /\ p.meant \in SUBSET Candidates
    BY <1>2, <2>1 DEF HonestPick, Sends, Pick
  <2>4. q \in Pick
    BY <2>2, <2>3 DEF Pick
  <2>5. /\ q.run = 0 /\ q.selected = {} /\ q.linked = {} /\ q.sent = {} /\ q.meant = p.meant
        /\ q.form = "none" /\ q.made = p.meant /\ q.override = NoOverride /\ q.requirement = NoFilter
    BY <2>3 DEF NewPick
  <2>6. \A f \in Features : NoOverride[f] = "auto"
    BY DEF NoOverride
  <2> HIDE DEF q
  <2>7. HonestPick(q)
    BY <2>4, <2>5, <2>6 DEF HonestPick, Sends, Begins, AskedFor, Closes, Requires
  <2> QED
    BY <2>1, <2>7 DEF CasesInv, q
<1>5. CASE RefusePlanned
  <2>1. pick' = [p EXCEPT !.sent = {}]
    BY <1>1, <1>5 DEF RefusePlanned
  <2>2. HonestPick([p EXCEPT !.sent = {}])
    BY <1>2 DEF HonestPick, Pick, Sends, Begins, AskedFor, Closes, Requires
  <2> QED
    BY <1>5, <2>1, <2>2 DEF RefusePlanned, CasesInv
<1>6. CASE DownloadContract
  <2>1. PICK S : S = p.sent \cap eligible
    OBVIOUS
  <2>2. p.form = "contract" /\ S # {} /\ S \subseteq p.sent /\ pick' = [p EXCEPT !.sent = {}, !.made = S]
    BY <1>1, <1>6, <2>1 DEF DownloadContract
  <2>3. S \subseteq p.meant /\ p.meant \in SUBSET Candidates
    BY <1>2, <2>2 DEF HonestPick, Sends, Pick
  <2>4. HonestPick([p EXCEPT !.sent = {}, !.made = S])
    BY <1>2, <2>2, <2>3 DEF HonestPick, Pick, Sends, Begins, AskedFor, Closes, Requires
  <2> QED
    BY <1>6, <2>2, <2>4 DEF DownloadContract, CasesInv
<1>7. CASE RefuseContract
  BY <1>7, NewPickIsHonest DEF RefuseContract, CasesInv
<1> QED
  BY <1>3, <1>4, <1>5, <1>6, <1>7

\* The inductive invariant of the picker: what is sent is what the button counted, what was asked
\* for is selected, and only a group that was put away is closed (ui/case-picker.tsx).
THEOREM CasesStayHonest == PickSpec => []CasesInv
<1>1. PickInit => CasesInv
  BY NewPickIsHonest DEF PickInit, CasesInv
<1>2. CasesInv /\ [PickNext]_pickVars => CasesInv'
  <2> SUFFICES ASSUME CasesInv, PickNext PROVE CasesInv'
    BY DEF pickVars, CasesInv
  <2>1. ASSUME NEW asked \in Links, OpenPlan(asked) \/ OpenContract(asked) PROVE CasesInv'
    BY <2>1, OpenFormHonest DEF OpenPlan, OpenContract
  <2>2. ASSUME NEW c \in Candidates, ApproveCandidate(c) \/ RetireCandidate(c) PROVE CasesInv'
    BY <2>2 DEF ApproveCandidate, RetireCandidate, CasesInv
  <2> QED
    BY <2>1, <2>2, StartsHonest, SelectsHonest, GroupsOpenHonest, FiltersHonest, RequestsHonest
       DEF PickNext
<1> QED
  BY <1>1, <1>2, PTL DEF PickSpec

\* The rows of open groups in the order of their features and numbers.
RowOrder ==
    {r \in Candidates \X Candidates :
        FeatureOf[r[1]] < FeatureOf[r[2]] \/ (FeatureOf[r[1]] = FeatureOf[r[2]] /\ r[1] < r[2])}

LEMMA RowsAreOrdered ==
    ASSUME NEW S \in SUBSET Candidates
    PROVE  Orders(RowOrder, S)
<1>1. \A c \in S : c \in Candidates /\ c \in Nat /\ FeatureOf[c] \in Nat
  BY PickerAssumption DEF PickerAssumption
<1>2. \A x, y \in S : <<x, y>> \in RowOrder
                        <=> FeatureOf[x] < FeatureOf[y] \/ (FeatureOf[x] = FeatureOf[y] /\ x < y)
  BY <1>1 DEF RowOrder
<1> HIDE DEF RowOrder
<1> QED
  BY <1>1, <1>2 DEF Orders

LEMMA ListIsFull ==
    ASSUME CasesInv
    PROVE  Rendered \subseteq OpenRows /\ (Rendered # OpenRows => Cardinality(Rendered) = RenderLimit)
<1>1. OpenRows \in SUBSET Candidates /\ IsFiniteSet(OpenRows) /\ RenderLimit \in Nat
  <2>1. Matching \subseteq Candidates
    BY GroupsTyped DEF CasesInv, HonestPick, Pick
  <2>2. OpenRows \subseteq Candidates
    BY <2>1 DEF OpenRows
  <2>3. IsFiniteSet(Candidates) /\ RenderLimit \in Nat
    BY PickerAssumption DEF PickerAssumption
  <2> QED
    BY <2>2, <2>3, FS_Subset
<1>2. \A c \in OpenRows : {d \in OpenRows : \/ FeatureOf[d] < FeatureOf[c]
                                            \/ FeatureOf[d] = FeatureOf[c] /\ d < c}
                            = Earlier(RowOrder, OpenRows, c)
  <2>1. \A c, d \in OpenRows : <<d, c>> \in RowOrder
                                 <=> FeatureOf[d] < FeatureOf[c] \/ (FeatureOf[d] = FeatureOf[c] /\ d < c)
    BY <1>1 DEF RowOrder
  <2> QED
    BY <2>1 DEF Earlier
<1>3. Rendered = FirstIn(RowOrder, OpenRows, RenderLimit)
  BY <1>2 DEF Rendered, FirstIn
<1>4. Orders(RowOrder, OpenRows)
  BY <1>1, RowsAreOrdered
<1> QED
  BY <1>1, <1>3, <1>4, CutIsFull

\* What narrows the list of the case picker, for any candidates, filters and links and whatever cap
\* on the rows drawn: all that was selected is sent, all that was asked for is selected or counted
\* as dropped, and a search shows what it found until the list is full.
THEOREM NarrowingStaysHonest == PickSpec => []NarrowingIsHonest
<1>1. CasesInv => NarrowingIsHonest
  <2> SUFFICES ASSUME CasesInv PROVE NarrowingIsHonest
    OBVIOUS
  <2>1. SelectionIsNotNarrowed
    BY DEF CasesInv, HonestPick, Sends, Begins, AskedFor, SelectionIsNotNarrowed, StartedFrom, Unavailable
  <2>2. ASSUME pick.needle # NoFilter, NEW c \in Matching, c \notin Rendered, FeatureOf[c] \notin pick.putAway
        PROVE  Cardinality(Rendered) = RenderLimit
    <3>1. FeatureOf[c] \in Features
      BY <2>2, GroupsTyped DEF Groups
    <3>2. pick.override[FeatureOf[c]] \in {"auto", "open", "closed"} \ {"closed"}
      BY <2>2, <3>1 DEF CasesInv, HonestPick, Pick, Closes
    <3>3. c \in OpenRows
      BY <2>2, <3>2 DEF OpenRows, IsOpen
    <3> QED
      BY <2>2, <3>3, ListIsFull
  <2>3. pick.requirement \in RequirementOptions \cup {NoFilter}
    BY DEF CasesInv, HonestPick, Requires, RequirementOptions
  <2> QED
    BY <2>1, <2>2, <2>3 DEF NarrowingIsHonest, SearchShowsItsHits
<1> QED
  BY <1>1, CasesStayHonest, PTL

\* Types of the picker of cases (ui/case-picker.tsx).
THEOREM PickTyped == PickSpec => []PickTypeOK
<1>1. CasesInv => PickTypeOK
  BY DEF CasesInv, HonestPick, PickTypeOK
<1> QED
  BY <1>1, CasesStayHonest, PTL

-------------------------------------------------------------------------------
\* A list is filtered as the box and the selects say

FilterList ==
    [trail : Seq(Url), at : Nat \ {0},
     going : [by : {"none", "box", "link"}, push : BOOLEAN, to : Url],
     pages : Nat \ {0},
     text : Texts, synced : Texts, committed : Texts,
     timer : [set : BOOLEAN, text : Texts, params : Url],
     shrunk : BOOLEAN, acts : 0..MaxActs,
     typed : Texts, chosen : Selections, crossed : BOOLEAN, revisited : BOOLEAN]

UrlShown(l) == l.trail[l.at]

Reached(u) == u.page <= PagesOf[u.q][u.choice]

\* Every URL has a trimmed needle and, as long as no row left the list, a page that there is.
UrlsInv(l) ==
    /\ l.at \in DOMAIN l.trail
    /\ \A i \in DOMAIN l.trail : Trimmed[l.trail[i].q] = l.trail[i].q
    /\ Trimmed[l.going.to.q] = l.going.to.q
    /\ ~l.shrunk =>
          /\ \A i \in DOMAIN l.trail : Reached(l.trail[i])
          /\ Reached(l.going.to)
          /\ l.pages = PagesOf[UrlShown(l).q][UrlShown(l).choice]

\* The box follows the URL; what it commits it knows of, and a link keeps the needle.
BoxFollows(l) ==
    /\ l.synced = UrlShown(l).q /\ l.text = l.typed
    /\ l.going.by = "box" => l.going.to.q = l.committed
    /\ l.going.by = "link" => l.going.to.q = UrlShown(l).q

\* Where no two controls overlapped, what is under way leads to what was said; a needle that the
\* box committed does so even over one that was revisited.
Heading(l) ==
    ~l.crossed =>
        /\ l.going.by = "none" /\ ~l.timer.set /\ ~l.revisited => UrlShown(l).q = Trimmed[l.text]
        /\ l.going.by = "link" /\ ~l.timer.set /\ ~l.revisited => l.going.to.q = Trimmed[l.text]
        /\ l.going.by = "box" /\ ~l.timer.set => l.going.to.q = Trimmed[l.text] /\ ~l.revisited
        /\ l.going.by # "none" => l.going.to.choice = l.chosen
        /\ l.going.by # "link" => UrlShown(l).choice = l.chosen
        /\ l.timer.set => /\ l.going.by # "link" /\ l.timer.text = l.text
                          /\ l.timer.params.choice = l.chosen

FilterInv == list \in FilterList /\ UrlsInv(list) /\ BoxFollows(list) /\ Heading(list)

LEMMA FilterConstants ==
    /\ NoText \in Texts /\ AnyOption \in Options /\ MaxActs \in Nat
    /\ \A t \in Texts : Trimmed[t] \in Texts /\ Trimmed[Trimmed[t]] = Trimmed[t]
    /\ Trimmed[NoText] = NoText
    /\ \A q \in Texts, c \in Selections : PagesOf[q][c] \in Nat \ {0}
    /\ Unfiltered \in Url /\ Reached(Unfiltered)
<1>1. /\ NoText \in Texts /\ AnyOption \in Options /\ MaxActs \in Nat
      /\ Trimmed \in [Texts -> Texts] /\ \A t \in Texts : Trimmed[Trimmed[t]] = Trimmed[t]
      /\ Trimmed[NoText] = NoText
      /\ PagesOf \in [Texts -> [Selections -> Nat \ {0}]]
  BY Zenon, FiltersAssumption DEF FiltersAssumption
<1>2. \A q \in Texts, c \in Selections : PagesOf[q][c] \in Nat \ {0}
  BY <1>1
<1>3. [k \in Params |-> AnyOption] \in Selections
  BY <1>1 DEF Selections
<1>4. Unfiltered \in Url
  BY <1>1, <1>3 DEF Unfiltered, Url
<1>5. Reached(Unfiltered)
  BY <1>1, <1>2, <1>3 DEF Unfiltered, Reached
<1> QED
  BY <1>1, <1>2, <1>4, <1>5

LEMMA FirstPageOf ==
    ASSUME NEW u \in Url, NEW q \in Texts, NEW v, v = [u EXCEPT !.q = q, !.page = 1]
    PROVE  v \in Url /\ v.q = q /\ v.page = 1 /\ v.choice = u.choice
<1>1. u = [q |-> u.q, choice |-> u.choice, page |-> u.page] /\ u.choice \in Selections
  BY DEF Url
<1>2. v = [q |-> q, choice |-> u.choice, page |-> 1]
  BY <1>1
<1>3. v.q = q /\ v.page = 1 /\ v.choice = u.choice
  BY <1>2
<1>4. v \in Url
  BY <1>1, <1>2 DEF Url
<1> QED
  BY <1>3, <1>4

LEMMA FilterListCounted ==
    ASSUME list \in FilterList, list.acts < MaxActs
    PROVE  list.acts + 1 \in 0..MaxActs
BY FilterConstants DEF FilterList

LEMMA NoTimerTyped == NoTimer \in [set : BOOLEAN, text : Texts, params : Url] /\ ~NoTimer.set
<1>1. NoText \in Texts /\ Unfiltered \in Url
  BY FilterConstants
<1> QED
  BY <1>1 DEF NoTimer

\* A control that commits a needle, whatever else it does: it writes no URL.
LEMMA CommitKeeps ==
    ASSUME FilterInv, NEW t \in Texts, NEW params \in Url, NEW l \in FilterList,
           l.trail = list.trail, l.at = list.at, l.pages = list.pages, l.shrunk = list.shrunk,
           l.synced = list.synced, l.text = l.typed, l.chosen = list.chosen,
           l.committed = Trimmed[t], ~l.timer.set, ~l.revisited,
           l.going.by = "box", l.going.to = [params EXCEPT !.q = Trimmed[t], !.page = 1],
           ~l.crossed => /\ ~list.crossed /\ list.going.by # "link"
                         /\ params.choice = list.chosen /\ l.text = t
    PROVE  UrlsInv(l) /\ BoxFollows(l) /\ Heading(l)
<1>1. /\ l.going.to \in Url /\ l.going.to.q = Trimmed[t] /\ l.going.to.page = 1
      /\ l.going.to.choice = params.choice
  <2>1. Trimmed[t] \in Texts
    BY FilterConstants
  <2>2. PICK q \in Texts : q = Trimmed[t]
    BY <2>1
  <2>3. PICK v : v = [params EXCEPT !.q = q, !.page = 1]
    OBVIOUS
  <2>4. v \in Url /\ v.q = q /\ v.page = 1 /\ v.choice = params.choice
    <3>1. params = [q |-> params.q, choice |-> params.choice, page |-> params.page]
          /\ params.choice \in Selections
      BY DEF Url
    <3>2. v = [q |-> q, choice |-> params.choice, page |-> 1]
      BY <2>3, <3>1
    <3> QED
      BY <3>1, <3>2 DEF Url
  <2>5. l.going.to = v
    BY <2>2, <2>3, Zenon
  <2> QED
    BY <2>2, <2>4, <2>5, Zenon
<1>2. Reached(l.going.to)
  BY <1>1, FilterConstants DEF Reached, Url
<1>3. UrlShown(l) = UrlShown(list)
  BY DEF UrlShown
<1>4. UrlsInv(l)
  BY <1>1, <1>2, <1>3, FilterConstants DEF FilterInv, UrlsInv
<1>5. BoxFollows(l)
  BY <1>1, <1>3 DEF FilterInv, BoxFollows
<1>6. Heading(l)
  BY <1>1, <1>3 DEF FilterInv, Heading
<1> QED
  BY <1>4, <1>5, <1>6

LEMMA NeedleKeeps ==
    ASSUME FilterInv, NEW t \in Texts, TypeNeedle(t) \/ Flush(t) \/ Debounce
    PROVE  FilterInv'
<1>1. list \in FilterList /\ ShownUrl \in Url /\ ShownUrl = UrlShown(list)
  <2>1. list \in FilterList /\ list.at \in DOMAIN list.trail
    BY DEF FilterInv, UrlsInv
  <2> QED
    BY <2>1 DEF FilterList, ShownUrl, UrlShown
<1>2. CASE TypeNeedle(t)
  <2>1. list' = [list EXCEPT !.text = t, !.typed = t,
                             !.timer = [set |-> TRUE, text |-> t, params |-> ShownUrl],
                             !.crossed = @ \/ list.going.by = "link", !.acts = @ + 1]
    BY <1>1, <1>2 DEF TypeNeedle, Act, FilterList
  <2>2. list.acts < MaxActs
    BY <1>2 DEF TypeNeedle, Act
  <2>3. /\ list' \in FilterList
        /\ list'.text = t /\ list'.typed = t /\ list'.timer = [set |-> TRUE, text |-> t, params |-> ShownUrl]
        /\ list'.crossed = (list.crossed \/ list.going.by = "link")
        /\ list'.trail = list.trail /\ list'.at = list.at /\ list'.going = list.going
        /\ list'.pages = list.pages /\ list'.synced = list.synced /\ list'.committed = list.committed
        /\ list'.shrunk = list.shrunk /\ list'.chosen = list.chosen
        /\ list'.revisited = list.revisited
    <3>1. [set |-> TRUE, text |-> t, params |-> ShownUrl] \in [set : BOOLEAN, text : Texts, params : Url]
      BY <1>1
    <3>2. list.acts + 1 \in 0..MaxActs /\ list.crossed \in BOOLEAN
      BY <1>1, <2>2, FilterListCounted DEF FilterList
    <3> QED
      BY <1>1, <2>1, <3>1, <3>2 DEF FilterList
  <2>4. UrlShown(list') = UrlShown(list)
    BY <2>3 DEF UrlShown
  <2>5. UrlsInv(list')
    BY <2>3, <2>4 DEF FilterInv, UrlsInv
  <2>6. BoxFollows(list')
    BY <2>3, <2>4 DEF FilterInv, BoxFollows
  <2>7. Heading(list')
    <3>1. /\ list'.timer.set /\ list'.timer.text = list'.text /\ list'.timer.params.choice = UrlShown(list).choice
      BY <1>1, <2>3
    <3> QED
      BY <2>3, <2>4, <3>1 DEF FilterInv, Heading
  <2> QED
    BY <2>3, <2>5, <2>6, <2>7 DEF FilterInv
<1>3. CASE Flush(t)
  <2>1. list' = [list EXCEPT !.committed = Trimmed[t], !.revisited = FALSE,
                             !.going = [by |-> "box", push |-> FALSE,
                                        to |-> [ShownUrl EXCEPT !.q = Trimmed[t], !.page = 1]],
                             !.text = t, !.typed = t, !.timer = NoTimer,
                             !.crossed = @ \/ list.going.by = "link", !.acts = @ + 1]
    BY <1>1, <1>3 DEF Flush, Act, CommitNeedle, FilterList
  <2>2. list.acts < MaxActs
    BY <1>3 DEF Flush, Act
  <2>3. [ShownUrl EXCEPT !.q = Trimmed[t], !.page = 1] \in Url /\ Trimmed[t] \in Texts
    BY <1>1, FilterConstants, FirstPageOf
  <2>4. /\ list' \in FilterList
        /\ list'.text = t /\ list'.typed = t /\ list'.timer = NoTimer
        /\ list'.crossed = (list.crossed \/ list.going.by = "link")
        /\ list'.trail = list.trail /\ list'.at = list.at
        /\ list'.going.by = "box" /\ list'.going.to = [ShownUrl EXCEPT !.q = Trimmed[t], !.page = 1]
        /\ list'.pages = list.pages /\ list'.synced = list.synced /\ list'.committed = Trimmed[t]
        /\ list'.shrunk = list.shrunk /\ list'.chosen = list.chosen /\ ~list'.revisited
    <3>1. list.acts + 1 \in 0..MaxActs /\ list.crossed \in BOOLEAN
      BY <1>1, <2>2, FilterListCounted DEF FilterList
    <3> QED
      BY <1>1, <2>1, <2>3, <3>1, NoTimerTyped DEF FilterList
  <2>5. ~list'.timer.set
    BY <2>4, NoTimerTyped
  <2>6. ~list'.crossed => ShownUrl.choice = list.chosen /\ list.going.by # "link" /\ ~list.crossed
    BY <1>1, <2>4 DEF FilterInv, Heading
  <2>7. UrlsInv(list') /\ BoxFollows(list') /\ Heading(list')
    <3>1. PICK l : l = list'
      OBVIOUS
    <3>2. UrlsInv(l) /\ BoxFollows(l) /\ Heading(l)
      <4> HIDE <3>1
      <4>1. /\ l \in FilterList
            /\ l.trail = list.trail /\ l.at = list.at /\ l.pages = list.pages /\ l.shrunk = list.shrunk
            /\ l.synced = list.synced /\ l.text = l.typed /\ l.chosen = list.chosen
            /\ l.committed = Trimmed[t] /\ ~l.timer.set /\ ~l.revisited
            /\ l.going.by = "box" /\ l.going.to = [ShownUrl EXCEPT !.q = Trimmed[t], !.page = 1]
            /\ ~l.crossed => /\ ~list.crossed /\ list.going.by # "link"
                             /\ ShownUrl.choice = list.chosen /\ l.text = t
        BY <2>4, <2>5, <2>6, <3>1
      <4> QED
        BY <1>1, <4>1, CommitKeeps
    <3> QED
      BY <3>1, <3>2
  <2> QED
    BY <2>4, <2>7 DEF FilterInv
<1>4. CASE Debounce
  <2>1. PICK s, params : s = list.timer.text /\ params = list.timer.params
    OBVIOUS
  <2>2. s \in Texts /\ params \in Url /\ list.timer.set
    BY <1>1, <1>4, <2>1 DEF FilterList, Debounce
  <2>3. list' = [list EXCEPT !.committed = Trimmed[s], !.revisited = FALSE,
                             !.going = [by |-> "box", push |-> FALSE,
                                        to |-> [params EXCEPT !.q = Trimmed[s], !.page = 1]],
                             !.timer = NoTimer]
    BY <1>1, <1>4, <2>1 DEF Debounce, CommitNeedle, FilterList
  <2>4. [params EXCEPT !.q = Trimmed[s], !.page = 1] \in Url /\ Trimmed[s] \in Texts
    BY <2>2, FilterConstants, FirstPageOf
  <2>5. /\ list' \in FilterList
        /\ list'.text = list.text /\ list'.typed = list.typed /\ list'.timer = NoTimer
        /\ list'.crossed = list.crossed
        /\ list'.trail = list.trail /\ list'.at = list.at
        /\ list'.going.by = "box" /\ list'.going.to = [params EXCEPT !.q = Trimmed[s], !.page = 1]
        /\ list'.pages = list.pages /\ list'.synced = list.synced /\ list'.committed = Trimmed[s]
        /\ list'.shrunk = list.shrunk /\ list'.chosen = list.chosen /\ ~list'.revisited
    BY <1>1, <2>2, <2>3, <2>4, NoTimerTyped DEF FilterList
  <2>6. ~list'.timer.set
    BY <2>5, NoTimerTyped
  <2>7. ~list.crossed => /\ list.going.by # "link" /\ s = list.text /\ params.choice = list.chosen
    BY <2>1, <2>2 DEF FilterInv, Heading
  <2>8. list.text = list.typed
    BY DEF FilterInv, BoxFollows
  <2>9. UrlsInv(list') /\ BoxFollows(list') /\ Heading(list')
    <3>1. PICK l : l = list'
      OBVIOUS
    <3>2. UrlsInv(l) /\ BoxFollows(l) /\ Heading(l)
      <4>1. /\ l \in FilterList
            /\ l.trail = list.trail /\ l.at = list.at /\ l.pages = list.pages /\ l.shrunk = list.shrunk
            /\ l.synced = list.synced /\ l.text = l.typed /\ l.chosen = list.chosen
            /\ l.committed = Trimmed[s] /\ ~l.timer.set /\ ~l.revisited
            /\ l.going.by = "box" /\ l.going.to = [params EXCEPT !.q = Trimmed[s], !.page = 1]
            /\ ~l.crossed => /\ ~list.crossed /\ list.going.by # "link"
                             /\ params.choice = list.chosen /\ l.text = s
        BY <2>5, <2>6, <2>7, <2>8, <3>1
      <4> QED
        BY <2>2, <4>1, CommitKeeps
    <3> QED
      BY <3>1, <3>2
  <2> QED
    BY <2>5, <2>9 DEF FilterInv
<1> QED
  BY <1>2, <1>3, <1>4

LEMMA GoKeeps ==
    ASSUME FilterInv, NEW to \in Url, NEW push \in BOOLEAN, to.q = ShownUrl.q,
           ~list.shrunk => Reached(to), Act(Go(to, push))
    PROVE  FilterInv'
<1>1. list \in FilterList /\ ShownUrl \in Url /\ ShownUrl = UrlShown(list) /\ list.acts < MaxActs
  <2>1. list \in FilterList /\ list.at \in DOMAIN list.trail /\ list.acts < MaxActs
    BY DEF FilterInv, UrlsInv, Act
  <2> QED
    BY <2>1 DEF FilterList, ShownUrl, UrlShown
<1>2. PICK p \in BOOLEAN : p = (push /\ to # ShownUrl)
  OBVIOUS
<1>3. Busy \in BOOLEAN /\ list.crossed \in BOOLEAN /\ list.acts + 1 \in 0..MaxActs
  BY <1>1, FilterListCounted DEF Busy, FilterList
<1>4. list' = [list EXCEPT !.going = [by |-> "link", push |-> p, to |-> to],
                           !.chosen = to.choice, !.crossed = @ \/ Busy, !.acts = @ + 1]
  BY <1>1, <1>2 DEF Act, Go, FilterList
<1>5. /\ list' \in FilterList
      /\ list'.text = list.text /\ list'.typed = list.typed /\ list'.timer = list.timer
      /\ list'.crossed = (list.crossed \/ Busy)
      /\ list'.trail = list.trail /\ list'.at = list.at
      /\ list'.going.by = "link" /\ list'.going.to = to
      /\ list'.pages = list.pages /\ list'.synced = list.synced /\ list'.committed = list.committed
      /\ list'.shrunk = list.shrunk /\ list'.chosen = to.choice /\ list'.revisited = list.revisited
  <2>1. [by |-> "link", push |-> p, to |-> to] \in [by : {"none", "box", "link"}, push : BOOLEAN, to : Url]
    BY <1>2
  <2>2. to.choice \in Selections
    BY DEF Url
  <2> QED
    BY <1>1, <1>3, <1>4, <2>1, <2>2 DEF FilterList
<1>6. UrlShown(list') = UrlShown(list)
  BY <1>5 DEF UrlShown
<1>7. UrlsInv(list')
  <2>1. Trimmed[to.q] = to.q
    BY <1>1 DEF FilterInv, UrlsInv, UrlShown
  <2> QED
    BY <1>5, <1>6, <2>1 DEF FilterInv, UrlsInv
<1>8. BoxFollows(list')
  BY <1>1, <1>5, <1>6 DEF FilterInv, BoxFollows
<1>9. Heading(list')
  <2>1. ~list'.crossed => list.going.by = "none" /\ ~list.timer.set /\ ~list.crossed
    BY <1>5 DEF Busy
  <2> QED
    BY <1>1, <1>5, <1>6, <2>1 DEF FilterInv, Heading
<1> QED
  BY <1>5, <1>7, <1>8, <1>9 DEF FilterInv

LEMMA ControlsKeep ==
    ASSUME FilterInv, \/ \E k \in Params, v \in Options : Select(k, v) \/ FollowState(k, v)
                      \/ \E n \in 1..list.pages : FollowPage(n)
                      \/ ToFirstPage
    PROVE  FilterInv'
<1>1. list \in FilterList /\ ShownUrl \in Url /\ ShownUrl = UrlShown(list)
  <2>1. list \in FilterList /\ list.at \in DOMAIN list.trail
    BY DEF FilterInv, UrlsInv
  <2> QED
    BY <2>1 DEF FilterList, ShownUrl, UrlShown
<1>2. PICK u : u = ShownUrl
  OBVIOUS
<1>3. u \in Url /\ u.q \in Texts /\ u.choice \in Selections /\ u = [q |-> u.q, choice |-> u.choice, page |-> u.page]
  BY <1>1, <1>2 DEF Url
\* The first page of any choice can be reached, and any page that the pager offers.
<1>4. ASSUME NEW n \in Nat \ {0}, NEW c \in Selections, NEW push \in BOOLEAN,
             NEW to, to = [q |-> u.q, choice |-> c, page |-> n],
             n = 1 \/ (c = u.choice /\ n <= list.pages), Act(Go(to, push))
      PROVE  FilterInv'
  <2>1. to \in Url /\ to.q = u.q /\ to.choice = c /\ to.page = n
    BY <1>3, <1>4 DEF Url
  <2>2. PagesOf[u.q][c] \in Nat \ {0}
    BY <1>3, FilterConstants
  <2>3. ~list.shrunk => list.pages = PagesOf[u.q][u.choice]
    BY <1>1, <1>2 DEF FilterInv, UrlsInv
  <2>4. ~list.shrunk => Reached(to)
    BY <1>4, <2>1, <2>2, <2>3 DEF Reached
  <2> QED
    BY <1>2, <1>4, <2>1, <2>4, GoKeeps, Zenon
<1>5. ASSUME NEW k \in Params, NEW v \in Options, Select(k, v) \/ FollowState(k, v) PROVE FilterInv'
  <2>1. PICK c : c = [u.choice EXCEPT ![k] = v]
    OBVIOUS
  <2>2. c \in Selections
    BY <1>3, <2>1 DEF Selections
  <2>3. Choose(k, v) = [q |-> u.q, choice |-> c, page |-> 1]
    <3>1. Choose(k, v) = [u EXCEPT !.choice[k] = v, !.page = 1]
      BY <1>2 DEF Choose
    <3> QED
      BY <1>3, <2>1, <3>1
  <2>4. PICK push \in BOOLEAN : Act(Go(Choose(k, v), push))
    BY <1>5, Zenon DEF Select, FollowState
  <2> QED
    BY <1>4, <2>2, <2>3, <2>4
<1>6. ASSUME NEW n \in 1..list.pages, FollowPage(n) PROVE FilterInv'
  <2>1. [ShownUrl EXCEPT !.page = n] = [q |-> u.q, choice |-> u.choice, page |-> n]
    BY <1>2, <1>3
  <2>2. n \in Nat \ {0} /\ n <= list.pages
    BY <1>1 DEF FilterList
  <2>3. Act(Go([ShownUrl EXCEPT !.page = n], TRUE))
    BY <1>6, Zenon DEF FollowPage
  <2> QED
    BY <1>3, <1>4, <2>1, <2>2, <2>3
<1>7. ASSUME ToFirstPage PROVE FilterInv'
  <2>1. [ShownUrl EXCEPT !.page = 1] = [q |-> u.q, choice |-> u.choice, page |-> 1]
    BY <1>2, <1>3
  <2>2. Act(Go([ShownUrl EXCEPT !.page = 1], TRUE))
    BY <1>7, Zenon DEF ToFirstPage
  <2>3. 1 \in Nat \ {0} /\ TRUE \in BOOLEAN
    OBVIOUS
  <2> QED
    BY <1>3, <1>4, <2>1, <2>2, <2>3, Zenon
<1> QED
  BY <1>5, <1>6, <1>7

\* The entry that the tab is at, redrawn: what was under way is over, and the box follows.
LEMMA MovedIs ==
    ASSUME NEW l \in FilterList, l.at \in DOMAIN l.trail
    PROVE  LET q == UrlShown(l).q IN
           /\ Moved(l) \in FilterList
           /\ Moved(l).going = Still /\ Moved(l).synced = q
           /\ Moved(l).text = IF q \in {l.synced, l.committed} THEN l.text ELSE q
           /\ Moved(l).trail = l.trail /\ Moved(l).at = l.at /\ Moved(l).pages = l.pages
           /\ Moved(l).committed = l.committed /\ Moved(l).timer = l.timer
           /\ Moved(l).shrunk = l.shrunk /\ Moved(l).typed = l.typed /\ Moved(l).chosen = l.chosen
           /\ Moved(l).crossed = l.crossed /\ Moved(l).revisited = l.revisited
           /\ Moved(l).acts = l.acts
<1>1. Still \in [by : {"none", "box", "link"}, push : BOOLEAN, to : Url]
  BY FilterConstants DEF Still
<1>2. PICK m : m = [l EXCEPT !.going = Still]
  OBVIOUS
<1>3. /\ m \in FilterList /\ m.going = Still
      /\ m.trail = l.trail /\ m.at = l.at /\ m.pages = l.pages
      /\ m.text = l.text /\ m.synced = l.synced
      /\ m.committed = l.committed /\ m.timer = l.timer
      /\ m.shrunk = l.shrunk /\ m.typed = l.typed /\ m.chosen = l.chosen
      /\ m.crossed = l.crossed /\ m.revisited = l.revisited /\ m.acts = l.acts
  BY <1>1, <1>2 DEF FilterList
<1>4. PICK q : q = m.trail[m.at].q
  OBVIOUS
<1>5. q = UrlShown(l).q /\ q \in Texts
  <2>1. q = UrlShown(l).q
    BY <1>3, <1>4 DEF UrlShown
  <2>2. l.trail[l.at] \in Url
    BY DEF FilterList
  <2> QED
    BY <2>1, <2>2 DEF UrlShown, Url
<1>6. Moved(l) = FollowUrl(m)
  BY <1>2 DEF Moved
<1>7. CASE q = m.synced
  <2>1. FollowUrl(m) = m
    BY <1>4, <1>7 DEF FollowUrl
  <2> QED
    BY <1>3, <1>5, <1>6, <1>7, <2>1
<1>8. CASE q # m.synced
  <2>1. FollowUrl(m) = [m EXCEPT !.synced = q, !.text = IF q = m.committed THEN @ ELSE q]
    BY <1>4, <1>8 DEF FollowUrl
  <2>2. PICK t : t = IF q = m.committed THEN m.text ELSE q
    OBVIOUS
  <2>3. FollowUrl(m) = [m EXCEPT !.synced = q, !.text = t] /\ t \in Texts
    BY <1>3, <1>5, <2>1, <2>2 DEF FilterList
  <2>4. PICK f : f = [m EXCEPT !.synced = q, !.text = t]
    OBVIOUS
  <2>5. /\ f \in FilterList /\ f.going = m.going /\ f.synced = q /\ f.text = t
        /\ f.trail = m.trail /\ f.at = m.at /\ f.pages = m.pages
        /\ f.committed = m.committed /\ f.timer = m.timer
        /\ f.shrunk = m.shrunk /\ f.typed = m.typed /\ f.chosen = m.chosen
        /\ f.crossed = m.crossed /\ f.revisited = m.revisited /\ f.acts = m.acts
    BY <1>3, <1>5, <2>3, <2>4 DEF FilterList
  <2>6. Moved(l) = f
    BY <1>6, <2>3, <2>4
  <2>7. t = IF q \in {l.synced, l.committed} THEN l.text ELSE q
    BY <1>3, <1>8, <2>2
  <2> QED
    BY <1>3, <1>5, <2>5, <2>6, <2>7
<1> QED
  BY <1>7, <1>8

\* What an answer makes of the history of the tab: a URL on top of it, or in the place of one.
LEMMA TrailHolds ==
    ASSUME NEW trail \in Seq(Url), NEW at \in DOMAIN trail, NEW to \in Url, NEW push \in BOOLEAN
    PROVE  LET next == IF push THEN Append(SubSeq(trail, 1, at), to) ELSE [trail EXCEPT ![at] = to]
               here == IF push THEN at + 1 ELSE at
           IN  /\ next \in Seq(Url) /\ here \in DOMAIN next /\ here \in Nat \ {0} /\ next[here] = to
               /\ \A i \in DOMAIN next : next[i] = to \/ \E j \in DOMAIN trail : next[i] = trail[j]
<1>1. at \in Nat \ {0} /\ at <= Len(trail) /\ Len(trail) \in Nat /\ DOMAIN trail = 1..Len(trail)
  OBVIOUS
<1>2. CASE push
  <2>1. PICK s : s = SubSeq(trail, 1, at)
    OBVIOUS
  <2>2. s \in Seq(Url) /\ Len(s) = at /\ \A i \in 1..at : s[i] = trail[i]
    BY <1>1, <2>1
  <2>3. PICK n : n = Append(s, to)
    OBVIOUS
  <2>4. /\ n \in Seq(Url) /\ Len(n) = at + 1 /\ n[at + 1] = to
        /\ \A i \in 1..at : n[i] = s[i]
    BY <1>1, <2>2, <2>3
  <2>5. DOMAIN n = 1..(at + 1)
    BY <2>4
  <2>6. \A i \in DOMAIN n : n[i] = to \/ \E j \in DOMAIN trail : n[i] = trail[j]
    BY <1>1, <2>2, <2>4, <2>5
  <2> QED
    BY <1>1, <1>2, <2>1, <2>3, <2>4, <2>5, <2>6
<1>3. CASE ~push
  <2>1. PICK n : n = [trail EXCEPT ![at] = to]
    OBVIOUS
  <2>2. n \in Seq(Url) /\ DOMAIN n = DOMAIN trail /\ n[at] = to
        /\ \A i \in DOMAIN trail : i # at => n[i] = trail[i]
    BY <2>1
  <2> QED
    BY <1>1, <1>3, <2>1, <2>2
<1> QED
  BY <1>2, <1>3

LEMMA LandKeeps == ASSUME FilterInv, Land PROVE FilterInv'
<1>1. /\ list \in FilterList /\ list.going.by # "none" /\ list.at \in DOMAIN list.trail
      /\ list.going.by \in {"box", "link"} /\ list.going.push \in BOOLEAN
      /\ list.trail \in Seq(Url)
  BY DEF FilterInv, UrlsInv, Land, FilterList
<1>2. PICK to : to = list.going.to
  OBVIOUS
<1>3. to \in Url
  BY <1>1, <1>2 DEF FilterList
<1>4. PICK next : next = IF list.going.push THEN Append(SubSeq(list.trail, 1, list.at), to)
                         ELSE [list.trail EXCEPT ![list.at] = to]
  OBVIOUS
<1>5. PICK here : here = IF list.going.push THEN list.at + 1 ELSE list.at
  OBVIOUS
<1>6. /\ next \in Seq(Url) /\ here \in DOMAIN next /\ here \in Nat \ {0} /\ next[here] = to
      /\ \A i \in DOMAIN next : next[i] = to \/ \E j \in DOMAIN list.trail : next[i] = list.trail[j]
  <2>1. PICK trail \in Seq(Url), push \in BOOLEAN : trail = list.trail /\ push = list.going.push
    BY <1>1
  <2>2. PICK at \in DOMAIN trail : at = list.at
    BY <1>1, <2>1
  <2>3. /\ next = IF push THEN Append(SubSeq(trail, 1, at), to) ELSE [trail EXCEPT ![at] = to]
        /\ here = IF push THEN at + 1 ELSE at
    BY <1>4, <1>5, <2>1, <2>2
  <2>4. /\ next \in Seq(Url) /\ here \in DOMAIN next /\ here \in Nat \ {0} /\ next[here] = to
        /\ \A i \in DOMAIN next : next[i] = to \/ \E j \in DOMAIN trail : next[i] = trail[j]
    BY <1>3, <2>3, TrailHolds
  <2> QED
    BY <2>1, <2>4
<1>7. PICK n : n = PagesNow(to)
  OBVIOUS
<1>8. n \in Nat \ {0} /\ (~list.shrunk => n = PagesOf[to.q][to.choice])
  <2>1. PagesOf[to.q][to.choice] \in Nat \ {0}
    BY <1>3, FilterConstants DEF Url
  <2> QED
    BY <1>7, <2>1 DEF PagesNow
<1>9. PICK l : l = [list EXCEPT !.trail = next, !.at = here, !.pages = n]
  OBVIOUS
<1>10. list' = Moved(l)
  BY <1>1, <1>2, <1>4, <1>5, <1>7, <1>9 DEF Land, FilterList
<1>11. /\ l \in FilterList /\ l.trail = next /\ l.at = here /\ l.pages = n
       /\ l.text = list.text /\ l.synced = list.synced
       /\ l.committed = list.committed /\ l.timer = list.timer
       /\ l.shrunk = list.shrunk /\ l.typed = list.typed /\ l.chosen = list.chosen
       /\ l.crossed = list.crossed /\ l.revisited = list.revisited
  BY <1>1, <1>6, <1>8, <1>9 DEF FilterList
<1>12. UrlShown(l) = to
  BY <1>6, <1>11 DEF UrlShown
\* The needle is the one that the box committed, or the one that it showed all along.
<1>13. to.q \in {list.synced, list.committed}
  BY <1>1, <1>2 DEF FilterInv, BoxFollows
<1>14. /\ list' \in FilterList /\ list'.going = Still /\ list'.synced = to.q
       /\ list'.text = list.text
       /\ list'.trail = next /\ list'.at = here /\ list'.pages = n
       /\ list'.committed = list.committed /\ list'.timer = list.timer
       /\ list'.shrunk = list.shrunk /\ list'.typed = list.typed /\ list'.chosen = list.chosen
       /\ list'.crossed = list.crossed /\ list'.revisited = list.revisited
  BY <1>6, <1>10, <1>11, <1>12, <1>13, MovedIs
<1>15. UrlShown(list') = to
  BY <1>6, <1>14 DEF UrlShown
<1>16. Still.by = "none" /\ Still.to = Unfiltered /\ Unfiltered.q = NoText
  BY DEF Still, Unfiltered
<1>17. UrlsInv(list')
  <2>1. \A i \in DOMAIN next : Trimmed[next[i].q] = next[i].q
    BY <1>2, <1>6 DEF FilterInv, UrlsInv
  <2>2. ~list.shrunk => \A i \in DOMAIN next : Reached(next[i])
    BY <1>2, <1>6 DEF FilterInv, UrlsInv
  <2>3. Trimmed[list'.going.to.q] = list'.going.to.q /\ Reached(list'.going.to)
    BY <1>14, <1>16, FilterConstants
  <2>4. list'.at \in DOMAIN list'.trail
    BY <1>6, <1>14
  <2> QED
    BY <1>8, <1>14, <1>15, <2>1, <2>2, <2>3, <2>4 DEF UrlsInv
<1>18. BoxFollows(list')
  BY <1>14, <1>15, <1>16 DEF FilterInv, BoxFollows
<1>19. Heading(list')
  BY <1>1, <1>2, <1>14, <1>15, <1>16 DEF FilterInv, Heading
<1> QED
  BY <1>14, <1>17, <1>18, <1>19 DEF FilterInv

LEMMA TravelKeeps == ASSUME FilterInv, NEW n, Travel(n) PROVE FilterInv'
<1>1. /\ list \in FilterList /\ list.at \in DOMAIN list.trail /\ list.acts < MaxActs
      /\ n \in DOMAIN list.trail /\ list.trail \in Seq(Url)
  BY DEF FilterInv, UrlsInv, Travel, Act, FilterList
<1>2. PICK u : u = list.trail[n]
  OBVIOUS
<1>3. n \in Nat \ {0} /\ u \in Url
  BY <1>1, <1>2
<1>4. PICK drawn : drawn = Moved([list EXCEPT !.at = n])
  OBVIOUS
<1>5. PICK p \in {PagesOf[u.q][u.choice], PagesNow(u)} :
         Act([drawn EXCEPT !.pages = p, !.typed = drawn.text, !.chosen = u.choice,
                           !.crossed = @ \/ Busy,
                           !.revisited = IF u.q = list.synced THEN @ ELSE u.q = list.committed])
  BY <1>2, <1>4 DEF Travel
<1>6. p \in Nat \ {0} /\ (~list.shrunk => p = PagesOf[u.q][u.choice])
  <2>1. PagesOf[u.q][u.choice] \in Nat \ {0}
    BY <1>3, FilterConstants DEF Url
  <2> QED
    BY <1>5, <2>1 DEF PagesNow
<1>7. PICK l : l = [list EXCEPT !.at = n]
  OBVIOUS
<1>8. /\ l \in FilterList /\ l.trail = list.trail /\ l.at = n
      /\ l.text = list.text /\ l.synced = list.synced
      /\ l.committed = list.committed /\ l.timer = list.timer
      /\ l.shrunk = list.shrunk /\ l.acts = list.acts /\ l.crossed = list.crossed
      /\ l.revisited = list.revisited
  BY <1>1, <1>3, <1>7 DEF FilterList
<1>9. UrlShown(l) = u
  BY <1>2, <1>8 DEF UrlShown
<1>10. /\ drawn \in FilterList /\ drawn.going = Still /\ drawn.synced = u.q
       /\ drawn.text = IF u.q \in {list.synced, list.committed} THEN list.text ELSE u.q
       /\ drawn.trail = list.trail /\ drawn.at = n
       /\ drawn.committed = list.committed /\ drawn.timer = list.timer
       /\ drawn.shrunk = list.shrunk /\ drawn.acts = list.acts /\ drawn.crossed = list.crossed
       /\ drawn.revisited = list.revisited
  <2>1. drawn = Moved(l) /\ l.at \in DOMAIN l.trail
    BY <1>1, <1>4, <1>7, <1>8
  <2> QED
    BY <1>8, <1>9, <2>1, MovedIs
<1>11. PICK c \in BOOLEAN : c = (list.crossed \/ Busy)
  BY <1>1 DEF Busy, FilterList
<1>a. PICK r \in BOOLEAN : r = IF u.q = list.synced THEN list.revisited ELSE u.q = list.committed
  BY <1>1 DEF FilterList
<1>12. list' = [drawn EXCEPT !.pages = p, !.typed = drawn.text, !.chosen = u.choice, !.crossed = c,
                             !.revisited = r, !.acts = @ + 1]
  BY <1>5, <1>10, <1>11, <1>a DEF Act, FilterList
<1>13. /\ list' \in FilterList /\ list'.going = Still /\ list'.synced = u.q
       /\ list'.text = drawn.text /\ list'.typed = drawn.text
       /\ list'.trail = list.trail /\ list'.at = n /\ list'.pages = p
       /\ list'.committed = list.committed /\ list'.timer = list.timer
       /\ list'.shrunk = list.shrunk /\ list'.chosen = u.choice /\ list'.crossed = c
       /\ list'.revisited = r
  <2>1. drawn.acts + 1 \in 0..MaxActs /\ u.choice \in Selections /\ drawn.text \in Texts
    BY <1>1, <1>3, <1>10, FilterListCounted DEF FilterList, Url
  <2> QED
    BY <1>6, <1>10, <1>12, <2>1 DEF FilterList
<1>14. UrlShown(list') = u
  BY <1>2, <1>13 DEF UrlShown
<1>15. Still.by = "none" /\ Still.to = Unfiltered /\ Unfiltered.q = NoText
  BY DEF Still, Unfiltered
<1>16. UrlsInv(list')
  <2>1. Trimmed[list'.going.to.q] = list'.going.to.q /\ Reached(list'.going.to)
    BY <1>13, <1>15, FilterConstants
  <2> QED
    BY <1>1, <1>6, <1>13, <1>14, <2>1 DEF FilterInv, UrlsInv
<1>17. BoxFollows(list')
  BY <1>13, <1>14, <1>15 DEF BoxFollows
\* A needle of the history is as the box would show it; one that the box put there itself it keeps.
<1>18. Heading(list')
  <2>1. ASSUME ~c
        PROVE  ~list.timer.set /\ list.going.by = "none" /\ ~list.crossed
    BY <1>11, <2>1 DEF Busy
  <2>2. ASSUME ~c, ~r
        PROVE  u.q = Trimmed[drawn.text]
    <3>1. Trimmed[u.q] = u.q
      BY <1>1, <1>2 DEF FilterInv, UrlsInv
    <3>2. CASE u.q = list.synced
      <4>1. list.synced = Trimmed[list.text]
        BY <1>a, <2>1, <2>2, <3>2 DEF FilterInv, Heading, BoxFollows
      <4> QED
        BY <1>10, <3>2, <4>1
    <3>3. CASE u.q # list.synced
      BY <1>10, <1>a, <2>2, <3>1, <3>3
    <3> QED
      BY <3>2, <3>3
  <2> QED
    BY <1>13, <1>14, <1>15, <2>1, <2>2 DEF Heading
<1> QED
  BY <1>13, <1>16, <1>17, <1>18 DEF FilterInv

LEMMA FilterNext == FilterInv /\ [FiltersNext]_filterVars => FilterInv'
<1> SUFFICES ASSUME FilterInv, [FiltersNext]_filterVars PROVE FilterInv'
  OBVIOUS
<1>1. CASE \E t \in Texts : TypeNeedle(t) \/ Flush(t)
  BY <1>1, NeedleKeeps, Zenon
<1>2. CASE Debounce
  BY <1>2, NeedleKeeps, FilterConstants, Zenon
<1>3. CASE Shrink
  <2>1. list \in FilterList /\ list' = [list EXCEPT !.shrunk = TRUE]
    BY <1>3 DEF Shrink, FilterInv
  <2>2. /\ list' \in FilterList /\ list'.shrunk /\ list'.trail = list.trail /\ list'.at = list.at
        /\ list'.going = list.going /\ list'.pages = list.pages /\ list'.text = list.text
        /\ list'.synced = list.synced /\ list'.committed = list.committed /\ list'.timer = list.timer
        /\ list'.typed = list.typed /\ list'.chosen = list.chosen /\ list'.crossed = list.crossed
        /\ list'.revisited = list.revisited
    BY <2>1 DEF FilterList
  <2>3. UrlsInv(list')
    BY <2>2 DEF FilterInv, UrlsInv
  <2>4. BoxFollows(list') /\ Heading(list')
    BY <2>2 DEF FilterInv, BoxFollows, Heading, UrlShown
  <2> QED
    BY <2>2, <2>3, <2>4 DEF FilterInv
<1>4. CASE UNCHANGED filterVars
  BY <1>4 DEF filterVars, FilterInv
<1> QED
  BY <1>1, <1>2, <1>3, <1>4, ControlsKeep, LandKeeps, TravelKeeps, Zenon DEF FiltersNext

LEMMA FilterInit == FiltersInit => FilterInv
<1> SUFFICES ASSUME FiltersInit PROVE FilterInv
  OBVIOUS
<1>1. PICK q \in {Trimmed[t] : t \in Texts} :
         list = [trail |-> <<[Unfiltered EXCEPT !.q = q]>>, at |-> 1, going |-> Still,
                 pages |-> PagesOf[q][[Unfiltered EXCEPT !.q = q].choice],
                 text |-> q, synced |-> q, committed |-> q, timer |-> NoTimer,
                 shrunk |-> FALSE, acts |-> 0, typed |-> q,
                 chosen |-> [Unfiltered EXCEPT !.q = q].choice,
                 crossed |-> FALSE, revisited |-> FALSE]
  BY Zenon DEF FiltersInit
<1>2. q \in Texts /\ Trimmed[q] = q
  BY FilterConstants
<1>3. PICK u : u = [Unfiltered EXCEPT !.q = q]
  OBVIOUS
<1>4. u \in Url /\ u.q = q /\ u.page = 1 /\ u.choice \in Selections
  <2>1. Unfiltered = [q |-> NoText, choice |-> Unfiltered.choice, page |-> 1] /\ Unfiltered \in Url
    BY FilterConstants DEF Unfiltered
  <2> QED
    BY <1>2, <1>3, <2>1 DEF Url
<1>5. PagesOf[q][u.choice] \in Nat \ {0}
  BY <1>2, <1>4, FilterConstants
<1>6. Still \in [by : {"none", "box", "link"}, push : BOOLEAN, to : Url]
  BY FilterConstants DEF Still
<1>7. <<u>> \in Seq(Url) /\ DOMAIN <<u>> = {1} /\ <<u>>[1] = u
  BY <1>4
<1>8. list = [trail |-> <<u>>, at |-> 1, going |-> Still, pages |-> PagesOf[q][u.choice],
              text |-> q, synced |-> q, committed |-> q, timer |-> NoTimer,
              shrunk |-> FALSE, acts |-> 0, typed |-> q, chosen |-> u.choice,
              crossed |-> FALSE, revisited |-> FALSE]
  BY <1>1, <1>3, Zenon
<1>9. list \in FilterList
  <2>1. 0 \in 0..MaxActs
    BY FilterConstants
  <2> QED
    BY <1>2, <1>4, <1>5, <1>6, <1>7, <1>8, <2>1, NoTimerTyped DEF FilterList
<1>10. UrlShown(list) = u
  BY <1>7, <1>8 DEF UrlShown
<1>11. Still.by = "none" /\ Still.to = Unfiltered /\ Unfiltered.q = NoText
  BY DEF Still, Unfiltered
<1>12. Reached(u)
  BY <1>4, <1>5 DEF Reached
<1>13. UrlsInv(list)
  BY <1>2, <1>4, <1>7, <1>8, <1>10, <1>11, <1>12, FilterConstants DEF UrlsInv
<1>14. BoxFollows(list) /\ Heading(list)
  BY <1>2, <1>4, <1>8, <1>10, <1>11, NoTimerTyped DEF BoxFollows, Heading
<1> QED
  BY <1>9, <1>13, <1>14 DEF FilterInv

LEMMA FilterGives == FilterInv => FiltersAreHonest /\ FiltersTypeOK
<1> SUFFICES ASSUME FilterInv PROVE FiltersAreHonest /\ FiltersTypeOK
  OBVIOUS
<1>1. ShownUrl = UrlShown(list)
  BY DEF ShownUrl, UrlShown
<1>2. PageIsReached
  BY DEF PageIsReached, FilterInv, UrlsInv, Reached
<1>3. TypingStands
  BY DEF TypingStands, FilterInv, BoxFollows
<1>4. FilteredAsSaid
  BY <1>1 DEF FilteredAsSaid, FilterInv, Heading, Busy
<1>5. FiltersTypeOK
  BY DEF FiltersTypeOK, FilterInv, FilterList
<1> QED
  BY <1>2, <1>3, <1>4, <1>5 DEF FiltersAreHonest

\* For any texts, selects, pages and history of the tab: no control strands the reader past the last
\* page, what is typed is not overwritten, and a list at rest is filtered as its selects and its
\* box say.  Two exceptions of the last, each with a flag of its own: controls that overlapped, and
\* a box over the needle it committed last itself, come back to by Back or Forward (toolbar.tsx).
THEOREM FiltersStayHonest == FiltersSpec => []FiltersAreHonest
<1>1. FiltersSpec => []FilterInv
  BY FilterInit, FilterNext, PTL DEF FiltersSpec
<1> QED
  BY <1>1, FilterGives, PTL

-------------------------------------------------------------------------------
\* What a suite observed is recorded whole, counted as it is listed, and cut in the open

BatchRow == [at : 0..MaxInstants, rows : Seq(CheckRow), counts : [Filings -> Nat]]

IngestRow == [phase : {"none", "stamped", "resolved", "done", "refused"}, file : ResultsFiles \cup {<<>>},
              at : 0..MaxInstants, rows : Seq(CheckRow)]

PanelRow == [of : CheckedCases \cup {Undeclared}, phase : {"none", "listed", "counted", "drawn"},
             shown : SUBSET (Nat \X Nat), total : Nat, before : Nat, after : Nat]

ReportRow == [batch : Nat, filter : Filings \cup {"all"}, page : Nat \ {0}, touches : 0..MaxTouches]

\* What became of a row is settled by its case, and it is filed under one of the slots.
WholeRows(rows) ==
    /\ \A i, j \in DOMAIN rows : rows[i].case = rows[j].case => rows[i].outcome = rows[j].outcome
    /\ \A i \in DOMAIN rows : FilingOf(rows[i]) \in Filings

IngestInv(g) == WholeRows(g.rows) /\ (g.phase = "stamped" => g.file \in ResultsFiles)

\* The checks of a case in the first n of some batches, and which of two is older.
ChecksIn(bs, c, n) ==
    UNION {{b} \X {i \in DOMAIN bs[b].rows : bs[b].rows[i].case = c /\ bs[b].rows[i].outcome = "CREATED"}
           : b \in 1..n}

OlderIn(bs, x, y) == bs[x[1]].at < bs[y[1]].at

\* S is what the list may show of the checks in the first n batches.
ListedOf(bs, c, n, S) ==
    LET all == ChecksIn(bs, c, n)
    IN  /\ S \subseteq all
        /\ \A x \in S, y \in all \ S : ~OlderIn(bs, x, y)

\* What the panel has read is of the batches there were; unless one came between its reads, both
\* are of the same.
PanelInv(p, bs) ==
    /\ p.after <= Len(bs)
    /\ p.phase \in {"listed", "counted"} => p.before = p.after
    /\ (p.phase \in {"listed", "drawn"} /\ p.before = p.after) => ListedOf(bs, p.of, p.after, p.shown)
    /\ (p.phase \in {"counted", "drawn"} /\ p.before = p.after)
          => p.total = Cardinality(ChecksIn(bs, p.of, p.after))

\* A report is of a batch there is, narrowed to a slot that counts something.
ReportInv(v, bs) ==
    /\ v.batch <= Len(bs)
    /\ v.batch # 0 => v.filter = "all" \/ bs[v.batch].counts[v.filter] > 0

BatchesInv(bs) ==
    /\ bs \in Seq(BatchRow)
    /\ \A b \in DOMAIN bs : WholeRows(bs[b].rows) /\ bs[b].counts = Tally(bs[b].rows)

ChecksInv ==
    /\ known \subseteq CheckedCases /\ instant \in 0..MaxInstants
    /\ BatchesInv(batches)
    /\ ingest \in [Uploads -> IngestRow] /\ \A u \in Uploads : IngestInv(ingest[u])
    /\ panel \in PanelRow /\ PanelInv(panel, batches)
    /\ viewed \in ReportRow /\ ReportInv(viewed, batches)

LEMMA ChecksNumbers ==
    /\ PanelLimit \in Nat /\ PanelLimit > 0 /\ ReportPage \in Nat /\ ReportPage > 0
    /\ MaxInstants \in Nat /\ MaxTouches \in Nat /\ 0 \in 0..MaxInstants /\ 0 \in 0..MaxTouches
BY ChecksAssumption DEF ChecksAssumption

LEMMA ResolvedTyped ==
    ASSUME NEW found \in SUBSET CheckedCases, NEW file \in ResultsFiles, NEW rows,
           rows = [i \in DOMAIN Parsed(file) |-> Resolved(Parsed(file)[i], found)]
    PROVE  rows \in Seq(CheckRow) /\ WholeRows(rows)
<1>1. PICK tests : tests = FlattenSeq(file)
  OBVIOUS
<1>2. tests \in Seq(Test)
  BY <1>1, ChecksAssumption DEF ChecksAssumption
<1>3. PICK read : read = Parsed(file)
  OBVIOUS
<1>4. read = [i \in DOMAIN tests |-> [case |-> Declared(tests[i]), seen |-> ReadOutcome(tests[i])]]
  BY <1>1, <1>3 DEF Parsed
<1>5. DOMAIN read = 1..Len(tests) /\ Len(tests) \in Nat
  BY <1>2, <1>4
<1>6. \A i \in 1..Len(tests) : read[i].case \in CheckedCases \cup {Undeclared} /\ read[i].seen \in Observed
  <2> SUFFICES ASSUME NEW i \in 1..Len(tests)
               PROVE  Declared(tests[i]) \in CheckedCases \cup {Undeclared} /\ ReadOutcome(tests[i]) \in Observed
    BY <1>2, <1>4
  <2>1. tests[i] \in Test
    BY <1>2
  <2>2. Declared(tests[i]) \in CheckedCases \cup {Undeclared}
    BY <2>1 DEF Declared, Test
  <2>3. ReadOutcome(tests[i]) \in Observed
    BY <2>1 DEF ReadOutcome, Test, Elements, Observed
  <2> QED
    BY <2>2, <2>3
<1>7. ASSUME NEW i \in 1..Len(tests)
      PROVE  /\ rows[i] \in CheckRow /\ rows[i].case = read[i].case
             /\ rows[i].outcome = IF read[i].case = Undeclared THEN "NO_TEST_CASE_DECLARED"
                                  ELSE IF read[i].case \in found THEN "CREATED" ELSE "REFERENCE_NOT_FOUND"
             /\ FilingOf(rows[i]) \in Filings
  <2>1. PICK t : t = read[i]
    OBVIOUS
  <2>2. t.case \in CheckedCases \cup {Undeclared} /\ t.seen \in Observed
    BY <1>6, <2>1
  <2>3. rows[i] = Resolved(t, found)
    BY <1>3, <1>5, <2>1
  <2>4. Undeclared \notin found
    BY ChecksAssumption DEF ChecksAssumption
  <2>5. Resolved(t, found).outcome = IF t.case = Undeclared THEN "NO_TEST_CASE_DECLARED"
                                     ELSE IF t.case \in found THEN "CREATED" ELSE "REFERENCE_NOT_FOUND"
    BY <2>4 DEF Resolved
  <2>6. Resolved(t, found) = [case |-> t.case, seen |-> Resolved(t, found).seen,
                              outcome |-> Resolved(t, found).outcome]
    BY DEF Resolved
  <2>7. Resolved(t, found).seen \in Observed \cup {"none"}
    BY <2>2 DEF Resolved
  <2>8. Resolved(t, found).outcome \in {"CREATED"} \cup Unresolved
    BY <2>5 DEF Unresolved
  <2>9. Resolved(t, found) \in CheckRow
    BY <2>2, <2>6, <2>7, <2>8 DEF CheckRow
  <2>10. Resolved(t, found).outcome = "CREATED" => Resolved(t, found).seen = t.seen
    BY <2>4, <2>5 DEF Resolved
  <2>11. FilingOf(Resolved(t, found)) \in Filings
    BY <2>2, <2>5, <2>10 DEF FilingOf, Filings, Unresolved
  <2> QED
    BY <2>1, <2>3, <2>5, <2>6, <2>9, <2>11
<1>8. DOMAIN rows = 1..Len(tests)
  BY <1>3, <1>5
<1>9. rows \in Seq(CheckRow)
  BY <1>3, <1>5, <1>7, <1>8
<1> QED
  BY <1>7, <1>8, <1>9 DEF WholeRows

LEMMA TallyTyped ==
    ASSUME NEW rows \in Seq(CheckRow)
    PROVE  Tally(rows) \in [Filings -> Nat]
<1>1. \A f : {i \in DOMAIN rows : FilingOf(rows[i]) = f} \in SUBSET (1..Len(rows))
  OBVIOUS
<1>2. IsFiniteSet(1..Len(rows))
  BY FS_Interval
<1>3. \A f : Cardinality({i \in DOMAIN rows : FilingOf(rows[i]) = f}) \in Nat
  BY <1>1, <1>2, FS_Subset, FS_CardinalityType
<1> QED
  BY <1>3 DEF Tally

\* What there is, is not changed by a batch that is added.
LEMMA ChecksStand ==
    ASSUME NEW bs \in Seq(BatchRow), NEW b \in BatchRow, NEW n \in Nat, n <= Len(bs), NEW c
    PROVE  /\ Append(bs, b) \in Seq(BatchRow) /\ Len(Append(bs, b)) = Len(bs) + 1
           /\ \A k \in 1..n : Append(bs, b)[k] = bs[k]
           /\ ChecksIn(Append(bs, b), c, n) = ChecksIn(bs, c, n)
<1>1. /\ Append(bs, b) \in Seq(BatchRow) /\ Len(Append(bs, b)) = Len(bs) + 1
      /\ \A k \in 1..n : Append(bs, b)[k] = bs[k]
  OBVIOUS
<1>2. PICK cs : cs = Append(bs, b)
  OBVIOUS
<1>3. \A k \in 1..n : cs[k] = bs[k]
  BY <1>1, <1>2
<1>4. ChecksIn(cs, c, n) = ChecksIn(bs, c, n)
  BY <1>3 DEF ChecksIn
<1> QED
  BY <1>1, <1>2, <1>4

LEMMA ChecksAre ==
    ASSUME NEW bs, NEW c, NEW n \in Nat
    PROVE  /\ \A x \in ChecksIn(bs, c, n) :
                 /\ x = <<x[1], x[2]>> /\ x[1] \in 1..n /\ x[2] \in DOMAIN bs[x[1]].rows
           /\ \A m \in Nat : m <= n => ChecksIn(bs, c, m) = {x \in ChecksIn(bs, c, n) : x[1] <= m}
BY DEF ChecksIn

LEMMA ChecksFinite ==
    ASSUME NEW bs \in Seq(BatchRow), NEW c, NEW n \in Nat, n <= Len(bs)
    PROVE  /\ IsFiniteSet(ChecksIn(bs, c, n)) /\ Cardinality(ChecksIn(bs, c, n)) \in Nat
           /\ ChecksIn(bs, c, n) \subseteq Nat \X Nat
<1> DEFINE Of(b) == {i \in DOMAIN bs[b].rows : bs[b].rows[i].case = c /\ bs[b].rows[i].outcome = "CREATED"}
           f == [b \in 1..n |-> {b} \X Of(b)]
           T == {{b} \X Of(b) : b \in 1..n}
<1>1. \A b \in 1..n : bs[b] \in BatchRow /\ bs[b].rows \in Seq(CheckRow)
  <2>1. \A b \in 1..n : bs[b] \in BatchRow
    OBVIOUS
  <2> QED
    BY <2>1 DEF BatchRow
<1>2. \A b \in 1..n : Of(b) \in SUBSET (1..Len(bs[b].rows)) /\ Len(bs[b].rows) \in Nat
  BY <1>1
<1>3. \A b \in 1..n : IsFiniteSet(Of(b))
  <2> SUFFICES ASSUME NEW b \in 1..n PROVE IsFiniteSet(Of(b))
    OBVIOUS
  <2>1. IsFiniteSet(1..Len(bs[b].rows))
    <3>1. PICK m : m = Len(bs[b].rows)
      OBVIOUS
    <3>2. m \in Int
      BY <1>2, <3>1
    <3>3. IsFiniteSet(1..m)
      BY <3>2, FS_Interval
    <3> QED
      BY <3>1, <3>3
  <2> HIDE DEF Of
  <2> QED
    BY <1>2, <2>1, FS_Subset
<1>4. \A b \in 1..n : IsFiniteSet({b} \X Of(b))
  <2> SUFFICES ASSUME NEW b \in 1..n PROVE IsFiniteSet({b} \X Of(b))
    OBVIOUS
  <2>1. IsFiniteSet({b})
    BY FS_Singleton
  <2> HIDE DEF Of
  <2> QED
    BY <1>3, <2>1, FS_Product
<1>5. IsFiniteSet(T)
  <2>1. f \in Surjection(1..n, T)
    <3> HIDE DEF Of
    <3> QED
      BY DEF Surjection
  <2>2. IsFiniteSet(1..n)
    BY FS_Interval
  <2> HIDE DEF f, T
  <2> QED
    BY <2>1, <2>2, FS_Surjection
<1>6. \A X \in T : IsFiniteSet(X)
  <2> HIDE DEF Of
  <2> QED
    BY <1>4
<1>7. ChecksIn(bs, c, n) = UNION T
  BY DEF ChecksIn
<1>8. IsFiniteSet(ChecksIn(bs, c, n))
  <2> HIDE DEF T
  <2> QED
    BY <1>5, <1>6, <1>7, FS_UNION
<1>9. ChecksIn(bs, c, n) \subseteq Nat \X Nat
  <2>1. \A x \in ChecksIn(bs, c, n) : x = <<x[1], x[2]>> /\ x[1] \in 1..n /\ x[2] \in DOMAIN bs[x[1]].rows
    BY ChecksAre
  <2>2. \A x \in ChecksIn(bs, c, n) : x[1] \in Nat /\ x[2] \in Nat
    BY <1>1, <2>1
  <2> QED
    BY <2>1, <2>2
<1> QED
  BY <1>8, <1>9, FS_CardinalityType

\* The batches before are as they were, and what the panel and the report say of them.
LEMMA ReadsStand ==
    ASSUME NEW bs \in Seq(BatchRow), NEW b \in BatchRow, NEW p \in PanelRow, NEW v \in ReportRow,
           PanelInv(p, bs), ReportInv(v, bs)
    PROVE  PanelInv(p, Append(bs, b)) /\ ReportInv(v, Append(bs, b))
<1>1. PICK cs : cs = Append(bs, b)
  OBVIOUS
<1>2. p.after \in Nat /\ p.after <= Len(bs) /\ v.batch \in Nat /\ v.batch <= Len(bs) /\ Len(bs) \in Nat
  BY DEF PanelRow, ReportRow, PanelInv, ReportInv
<1>3. /\ Len(cs) = Len(bs) + 1 /\ \A k \in 1..Len(bs) : cs[k] = bs[k]
      /\ ChecksIn(cs, p.of, p.after) = ChecksIn(bs, p.of, p.after)
  BY <1>1, <1>2, ChecksStand
<1>4. ASSUME ListedOf(bs, p.of, p.after, p.shown) PROVE ListedOf(cs, p.of, p.after, p.shown)
  <2>1. PICK A : A = ChecksIn(bs, p.of, p.after)
    OBVIOUS
  <2>2. \A x \in A : x[1] \in 1..Len(bs)
    BY <1>2, <2>1, ChecksAre
  <2>3. \A x, y \in A : OlderIn(cs, x, y) <=> OlderIn(bs, x, y)
    BY <1>3, <2>2 DEF OlderIn
  <2>4. p.shown \subseteq A /\ \A x \in p.shown, y \in A \ p.shown : ~OlderIn(bs, x, y)
    BY <1>4, <2>1 DEF ListedOf
  <2>5. \A x \in p.shown, y \in A \ p.shown : ~OlderIn(cs, x, y)
    BY <2>3, <2>4
  <2> QED
    BY <1>3, <2>1, <2>4, <2>5 DEF ListedOf
<1>5. PanelInv(p, cs)
  BY <1>2, <1>3, <1>4 DEF PanelInv
<1>6. ReportInv(v, cs)
  <2>1. v.batch # 0 => cs[v.batch] = bs[v.batch]
    BY <1>2, <1>3
  <2> QED
    BY <1>2, <1>3, <2>1 DEF ReportInv
<1> QED
  BY <1>1, <1>5, <1>6

LEMMA IngestStep ==
    ASSUME ChecksInv, NEW u \in Uploads, StampFile(u) \/ ResolveTests(u) \/ CommitBatch(u)
    PROVE  ChecksInv'
<1>1. PICK g : g = ingest[u]
  OBVIOUS
<1>2. g \in IngestRow /\ IngestInv(g) /\ WholeRows(g.rows) /\ ingest \in [Uploads -> IngestRow]
  BY <1>1 DEF ChecksInv, IngestInv
<1>3. ASSUME NEW h \in IngestRow, IngestInv(h), ingest' = [ingest EXCEPT ![u] = h]
      PROVE  ingest' \in [Uploads -> IngestRow] /\ \A w \in Uploads : IngestInv(ingest'[w])
  <2>1. \A w \in Uploads : ingest'[w] = IF w = u THEN h ELSE ingest[w]
    BY <1>2, <1>3
  <2> QED
    BY <1>2, <1>3, <2>1 DEF ChecksInv
<1>4. CASE StampFile(u)
  <2>1. PICK file \in ResultsFiles :
            ingest' = [ingest EXCEPT ![u].phase = IF file = <<>> THEN "refused" ELSE "stamped",
                                     ![u].file = file, ![u].at = instant]
    BY <1>4 DEF StampFile
  <2> DEFINE h == [g EXCEPT !.phase = IF file = <<>> THEN "refused" ELSE "stamped", !.file = file, !.at = instant]
  <2>2. ingest' = [ingest EXCEPT ![u] = h]
    BY <1>1, <1>2, <2>1
  <2>3. h \in IngestRow /\ IngestInv(h)
    BY <1>2 DEF IngestRow, ChecksInv, IngestInv
  <2> HIDE DEF h
  <2>4. ingest' \in [Uploads -> IngestRow] /\ \A w \in Uploads : IngestInv(ingest'[w])
    BY <1>2, <1>3, <2>2, <2>3
  <2> QED
    BY <1>4, <2>4 DEF StampFile, ChecksInv
<1>5. CASE ResolveTests(u)
  <2>1. g.phase = "stamped"
    BY <1>1, <1>5 DEF ResolveTests
  <2>2. PICK file : file = g.file
    OBVIOUS
  <2>3. PICK rows : rows = [i \in DOMAIN Parsed(file) |-> Resolved(Parsed(file)[i], known)]
    OBVIOUS
  <2> DEFINE h == [g EXCEPT !.phase = "resolved", !.rows = rows]
  <2>4. ingest' = [ingest EXCEPT ![u].phase = "resolved", ![u].rows = rows]
    BY <1>1, <1>5, <2>2, <2>3 DEF ResolveTests
  <2>5. ingest' = [ingest EXCEPT ![u] = h]
    BY <1>1, <1>2, <2>4
  <2>6. file \in ResultsFiles
    BY <1>2, <2>1, <2>2 DEF IngestInv
  <2>7. rows \in Seq(CheckRow) /\ WholeRows(rows)
    BY <2>3, <2>6, ResolvedTyped DEF ChecksInv
  <2>8. h \in IngestRow /\ IngestInv(h)
    BY <1>2, <2>7 DEF IngestRow, IngestInv
  <2> HIDE DEF h
  <2>9. ingest' \in [Uploads -> IngestRow] /\ \A w \in Uploads : IngestInv(ingest'[w])
    BY <1>3, <2>5, <2>7, <2>8
  <2> QED
    BY <1>5, <2>9 DEF ResolveTests, ChecksInv
<1>6. CASE CommitBatch(u)
  <2> DEFINE h == [g EXCEPT !.phase = "done"]
             b == [at |-> g.at, rows |-> g.rows, counts |-> Tally(g.rows)]
  <2>1. ingest' = [ingest EXCEPT ![u] = h]
    BY <1>1, <1>2, <1>6 DEF CommitBatch
  <2>2. h \in IngestRow /\ IngestInv(h)
    BY <1>2 DEF IngestRow, IngestInv
  <2>3. b \in BatchRow
    BY <1>2, TallyTyped DEF BatchRow, IngestRow
  <2>4. batches' = Append(batches, b) /\ UNCHANGED <<known, instant, panel, viewed>>
    BY <1>1, <1>6 DEF CommitBatch
  <2>5. WholeRows(b.rows) /\ b.counts = Tally(b.rows)
    BY <1>2
  <2> HIDE DEF h, b
  <2>6. ingest' \in [Uploads -> IngestRow] /\ \A w \in Uploads : IngestInv(ingest'[w])
    BY <1>2, <1>3, <2>1, <2>2
  <2>7. batches \in Seq(BatchRow) /\ panel \in PanelRow /\ viewed \in ReportRow
        /\ PanelInv(panel, batches) /\ ReportInv(viewed, batches)
    BY DEF ChecksInv, BatchesInv
  <2>8. PanelInv(panel, Append(batches, b)) /\ ReportInv(viewed, Append(batches, b))
    BY <2>3, <2>7, ReadsStand
  <2>9. BatchesInv(Append(batches, b))
    <3>1. PICK bs : bs = batches
      OBVIOUS
    <3>2. \A k \in DOMAIN Append(bs, b) : Append(bs, b)[k] = IF k = Len(bs) + 1 THEN b ELSE bs[k]
      BY <2>3, <2>7, <3>1
    <3>3. DOMAIN Append(bs, b) = 1..(Len(bs) + 1) /\ Len(bs) \in Nat /\ Append(bs, b) \in Seq(BatchRow)
          /\ DOMAIN bs = 1..Len(bs)
      BY <2>3, <2>7, <3>1
    <3>4. \A k \in DOMAIN bs : WholeRows(bs[k].rows) /\ bs[k].counts = Tally(bs[k].rows)
      BY <3>1 DEF ChecksInv, BatchesInv
    <3>5. \A k \in DOMAIN Append(bs, b) : k = Len(bs) + 1 \/ k \in DOMAIN bs
      BY <3>3
    <3> QED
      BY <2>5, <3>1, <3>2, <3>3, <3>4, <3>5 DEF BatchesInv
  <2> QED
    BY <2>4, <2>6, <2>7, <2>8, <2>9 DEF ChecksInv
<1> QED
  BY <1>4, <1>5, <1>6

LEMMA ChecksOfAll ==
    ASSUME batches \in Seq(BatchRow)
    PROVE  \A c : ChecksOf(c) = ChecksIn(batches, c, Len(batches))
<1>1. DOMAIN batches = 1..Len(batches)
  OBVIOUS
<1> QED
  BY <1>1 DEF ChecksOf, ChecksIn

\* The record of the panel is replaced by one that has read what there is.
LEMMA ReadsStep ==
    ASSUME ChecksInv, ReadChecks \/ CountChecks \/ LeavePanel
    PROVE  ChecksInv'
<1>1. PICK p, bs : p = panel /\ bs = batches
  OBVIOUS
<1>2. p \in PanelRow /\ PanelInv(p, bs) /\ bs \in Seq(BatchRow)
  BY <1>1 DEF ChecksInv, BatchesInv
<1>3. Len(bs) \in Nat
  BY <1>2
<1>4. \A c : ChecksOf(c) = ChecksIn(bs, c, Len(bs))
  BY <1>1, <1>2, ChecksOfAll
<1>5. \A c \in known : c \in CheckedCases \cup {Undeclared}
  BY DEF ChecksInv
<1>6. UNCHANGED <<known, batches, ingest, instant, viewed>>
  BY DEF ReadChecks, CountChecks, LeavePanel
<1>7. ASSUME NEW q \in PanelRow, PanelInv(q, bs), panel' = q PROVE ChecksInv'
  BY <1>1, <1>6, <1>7 DEF ChecksInv
<1>8. CASE ReadChecks
  <2>1. PICK c \in IF p.phase = "none" THEN known ELSE {p.of} : \E S \in NewestChecks(c) :
            panel' = [p EXCEPT !.of = c, !.shown = S,
                               !.phase = IF p.phase = "none" THEN "listed" ELSE "drawn",
                               !.before = IF p.phase = "none" THEN Len(bs) ELSE p.before,
                               !.after = Len(bs)]
    BY <1>1, <1>2, <1>8 DEF ReadChecks, PanelRow
  <2>2. PICK S \in NewestChecks(c) :
            panel' = [p EXCEPT !.of = c, !.shown = S,
                               !.phase = IF p.phase = "none" THEN "listed" ELSE "drawn",
                               !.before = IF p.phase = "none" THEN Len(bs) ELSE p.before,
                               !.after = Len(bs)]
    BY <2>1
  <2>3. c \in CheckedCases \cup {Undeclared} /\ (p.phase # "none" => c = p.of) /\ p.phase \in {"none", "counted"}
    BY <1>1, <1>2, <1>5, <1>8, <2>1 DEF PanelRow, ReadChecks
  <2>4. ListedOf(bs, c, Len(bs), S)
    <3>1. S \subseteq ChecksOf(c) /\ \A x \in S, y \in ChecksOf(c) \ S : ~Older(x, y)
      BY <2>2 DEF NewestChecks, kSubset
    <3>2. \A x, y : Older(x, y) <=> OlderIn(bs, x, y)
      BY <1>1 DEF Older, OlderIn
    <3> QED
      BY <1>4, <3>1, <3>2 DEF ListedOf
  <2>5. S \subseteq Nat \X Nat
    BY <1>2, <1>3, <2>4, ChecksFinite DEF ListedOf
  <2> DEFINE q == [p EXCEPT !.of = c, !.shown = S,
                            !.phase = IF p.phase = "none" THEN "listed" ELSE "drawn",
                            !.before = IF p.phase = "none" THEN Len(bs) ELSE p.before,
                            !.after = Len(bs)]
  <2>6. /\ q \in PanelRow /\ q.of = c /\ q.shown = S /\ q.after = Len(bs) /\ q.total = p.total
        /\ q.phase = IF p.phase = "none" THEN "listed" ELSE "drawn"
        /\ q.before = IF p.phase = "none" THEN Len(bs) ELSE p.before
    BY <1>2, <1>3, <2>3, <2>5 DEF PanelRow
  <2>7. panel' = q
    BY <2>2
  <2> HIDE DEF q
  <2>8. PanelInv(q, bs)
    <3>1. p.phase = "counted" => p.before = p.after /\ p.total = Cardinality(ChecksIn(bs, p.of, p.after))
      BY <1>2 DEF PanelInv
    <3>2. q.phase = "drawn" /\ q.before = q.after => q.total = Cardinality(ChecksIn(bs, q.of, q.after))
      BY <2>3, <2>6, <3>1
    <3> QED
      BY <1>3, <2>4, <2>6, <3>2 DEF PanelInv
  <2> QED
    BY <1>7, <2>6, <2>7, <2>8
<1>9. CASE CountChecks
  <2>1. PICK c \in IF p.phase = "none" THEN known ELSE {p.of} :
            panel' = [p EXCEPT !.of = c, !.total = Cardinality(ChecksOf(c)),
                               !.phase = IF p.phase = "none" THEN "counted" ELSE "drawn",
                               !.before = IF p.phase = "none" THEN Len(bs) ELSE p.before,
                               !.after = Len(bs)]
    BY <1>1, <1>2, <1>9 DEF CountChecks, PanelRow
  <2>2. c \in CheckedCases \cup {Undeclared} /\ (p.phase # "none" => c = p.of) /\ p.phase \in {"none", "listed"}
    BY <1>1, <1>2, <1>5, <1>9, <2>1 DEF PanelRow, CountChecks
  <2>3. PICK n : n = Cardinality(ChecksIn(bs, c, Len(bs)))
    OBVIOUS
  <2>4. n \in Nat
    BY <1>2, <1>3, <2>3, ChecksFinite
  <2> DEFINE q == [p EXCEPT !.of = c, !.total = n,
                            !.phase = IF p.phase = "none" THEN "counted" ELSE "drawn",
                            !.before = IF p.phase = "none" THEN Len(bs) ELSE p.before,
                            !.after = Len(bs)]
  <2>6. /\ q \in PanelRow /\ q.of = c /\ q.shown = p.shown /\ q.after = Len(bs) /\ q.total = n
        /\ q.phase = IF p.phase = "none" THEN "counted" ELSE "drawn"
        /\ q.before = IF p.phase = "none" THEN Len(bs) ELSE p.before
    BY <1>2, <1>3, <2>2, <2>4 DEF PanelRow
  <2>7. panel' = q
    BY <1>4, <2>1, <2>3
  <2> HIDE DEF q
  <2>8. PanelInv(q, bs)
    <3>1. p.phase = "listed" => p.before = p.after /\ ListedOf(bs, p.of, p.after, p.shown)
      BY <1>2 DEF PanelInv
    <3>2. q.phase = "drawn" /\ q.before = q.after => ListedOf(bs, q.of, q.after, q.shown)
      BY <2>2, <2>6, <3>1
    <3> QED
      BY <1>3, <2>3, <2>6, <3>2 DEF PanelInv
  <2> QED
    BY <1>7, <2>6, <2>7, <2>8
<1>10. CASE LeavePanel
  <2>1. NoPanel \in PanelRow /\ PanelInv(NoPanel, bs)
    BY <1>3 DEF NoPanel, PanelRow, PanelInv
  <2> QED
    BY <1>7, <1>10, <2>1 DEF LeavePanel
<1> QED
  BY <1>8, <1>9, <1>10

LEMMA PagesTyped ==
    ASSUME NEW n \in Nat
    PROVE  ReportPages(n) \in Nat \ {0}
           /\ (n > 0 => (ReportPages(n) - 1) * ReportPage < n)
<1>1. PICK k : k = (n + ReportPage - 1) \div ReportPage
  OBVIOUS
<1>2. k \in Nat /\ k * ReportPage <= n + ReportPage - 1
  BY <1>1, ChecksNumbers
<1>3. ReportPages(n) = Max({1, k})
  BY <1>1 DEF ReportPages
<1>4. Max({1, k}) = IF k >= 1 THEN k ELSE 1
  BY <1>2 DEF Max
<1>5. CASE k >= 1
  <2>1. (k - 1) * ReportPage = k * ReportPage - ReportPage
    BY <1>2, ChecksNumbers
  <2> QED
    BY <1>2, <1>3, <1>4, <1>5, <2>1, ChecksNumbers
<1>6. CASE k < 1
  <2>1. ReportPages(n) = 1
    BY <1>2, <1>3, <1>4, <1>6
  <2>2. (1 - 1) * ReportPage = 0
    BY ChecksNumbers
  <2> QED
    BY <2>1, <2>2
<1> QED
  BY <1>2, <1>5, <1>6

LEMMA ViewsStep ==
    ASSUME ChecksInv,
           \/ \E b \in DOMAIN batches : OpenBatch(b)
           \/ \E f \in Filings : Narrow(f)
           \/ \E p \in 1..MaxTouches : TurnReport(p)
           \/ SortReport \/ CloseBatch
    PROVE  ChecksInv'
<1>1. PICK v, bs : v = viewed /\ bs = batches
  OBVIOUS
<1>2. v \in ReportRow /\ ReportInv(v, bs) /\ bs \in Seq(BatchRow)
  BY <1>1 DEF ChecksInv, BatchesInv
<1>3. UNCHANGED <<known, batches, ingest, instant, panel>>
  BY DEF OpenBatch, Narrow, TurnReport, SortReport, CloseBatch, Touch
<1>4. ASSUME NEW w \in ReportRow, ReportInv(w, bs), viewed' = w PROVE ChecksInv'
  BY <1>1, <1>3, <1>4 DEF ChecksInv
<1>5. ASSUME NEW f \in Filings \cup {"all"}, NEW n \in Nat \ {0},
             f = v.filter \/ f = "all" \/ bs[v.batch].counts[f] > 0,
             Touch([v EXCEPT !.filter = f, !.page = n])
      PROVE  ChecksInv'
  <2>1. viewed' = [v EXCEPT !.filter = f, !.page = n, !.touches = v.touches + 1] /\ v.touches < MaxTouches
    BY <1>1, <1>2, <1>5 DEF Touch, ReportRow
  <2> DEFINE w == [v EXCEPT !.filter = f, !.page = n, !.touches = v.touches + 1]
  <2>2. w \in ReportRow /\ w.batch = v.batch /\ w.filter = f
    <3>1. v.touches + 1 \in 0..MaxTouches
      BY <1>2, <2>1, ChecksNumbers DEF ReportRow
    <3> QED
      BY <1>2, <3>1 DEF ReportRow
  <2> HIDE DEF w
  <2>3. ReportInv(w, bs)
    BY <1>2, <1>5, <2>2 DEF ReportInv
  <2> QED
    BY <1>4, <2>1, <2>2, <2>3 DEF w
<1>6. ASSUME NEW f \in Filings, Narrow(f) PROVE ChecksInv'
  <2>1. PICK g : g = IF v.filter = f THEN "all" ELSE f
    OBVIOUS
  <2>2. g \in Filings \cup {"all"} /\ (g = "all" \/ bs[v.batch].counts[g] > 0)
    BY <1>1, <1>6, <2>1 DEF Narrow
  <2>3. Touch([v EXCEPT !.filter = g, !.page = 1])
    BY <1>1, <1>2, <1>6, <2>1 DEF Narrow, ReportRow
  <2>4. 1 \in Nat \ {0}
    OBVIOUS
  <2> QED
    BY <1>5, <2>2, <2>3, <2>4
<1>7. ASSUME NEW n \in Nat \ {0}, Touch([v EXCEPT !.page = n]) PROVE ChecksInv'
  <2>1. v.filter \in Filings \cup {"all"} /\ [v EXCEPT !.page = n] = [v EXCEPT !.filter = v.filter, !.page = n]
    BY <1>2 DEF ReportRow
  <2> QED
    BY <1>5, <1>7, <2>1
<1>8. ASSUME NEW p \in 1..MaxTouches, TurnReport(p) PROVE ChecksInv'
  <2>1. p \in Nat \ {0}
    BY ChecksNumbers
  <2> QED
    BY <1>1, <1>7, <1>8, <2>1 DEF TurnReport
<1>9. CASE SortReport
  BY <1>1, <1>7, <1>9 DEF SortReport
<1>10. NoReport \in ReportRow /\ ReportInv(NoReport, bs)
  BY <1>2, ChecksNumbers DEF NoReport, ReportRow, ReportInv
<1>11. CASE CloseBatch
  BY <1>4, <1>10, <1>11 DEF CloseBatch
<1>12. ASSUME NEW b \in DOMAIN batches, OpenBatch(b) PROVE ChecksInv'
  <2> DEFINE w == [NoReport EXCEPT !.batch = b]
  <2>1. b \in Nat /\ b <= Len(bs)
    BY <1>1, <1>2
  <2>2. w \in ReportRow /\ w.batch = b /\ w.filter = "all"
    BY <1>10, <2>1 DEF ReportRow, NoReport
  <2>3. viewed' = w
    BY <1>12 DEF OpenBatch
  <2> HIDE DEF w
  <2>4. ReportInv(w, bs)
    BY <2>1, <2>2 DEF ReportInv
  <2> QED
    BY <1>4, <2>2, <2>3, <2>4
<1> QED
  BY <1>6, <1>8, <1>9, <1>11, <1>12

\* The inductive invariant of the checks: a batch is whole and counted as it is listed, and a panel
\* lists the newest of what it read (domain/checks.ts).
THEOREM ChecksStayTrue == ChecksSpec => []ChecksInv
<1>1. ChecksInit => ChecksInv
  <2> SUFFICES ASSUME ChecksInit PROVE ChecksInv
    OBVIOUS
  <2>1. BatchesInv(<<>>) /\ Len(<<>>) = 0
    BY DEF BatchesInv
  <2>2. Reading \in IngestRow /\ IngestInv(Reading)
    BY ChecksNumbers DEF Reading, IngestRow, IngestInv, WholeRows
  <2>3. NoPanel \in PanelRow /\ PanelInv(NoPanel, <<>>)
    BY <2>1 DEF NoPanel, PanelRow, PanelInv
  <2>4. NoReport \in ReportRow /\ ReportInv(NoReport, <<>>)
    BY <2>1, ChecksNumbers DEF NoReport, ReportRow, ReportInv
  <2> QED
    BY <2>1, <2>2, <2>3, <2>4, ChecksNumbers DEF ChecksInit, ChecksInv
<1>2. ChecksInv /\ [ChecksNext]_checkVars => ChecksInv'
  <2> SUFFICES ASSUME ChecksInv, [ChecksNext]_checkVars PROVE ChecksInv'
    OBVIOUS
  <2>1. CASE UNCHANGED checkVars
    BY <2>1 DEF checkVars, ChecksInv
  <2>2. CASE CreateCase
    BY <2>2 DEF CreateCase, ChecksInv
  <2>3. CASE PassInstant
    BY <2>3, ChecksNumbers DEF PassInstant, ChecksInv
  <2> QED
    BY <2>1, <2>2, <2>3, IngestStep, ReadsStep, ViewsStep DEF ChecksNext
<1> QED
  BY <1>1, <1>2, PTL DEF ChecksSpec

\* Six slots that are apart make the whole.
SixSlots(p, S) ==
    /\ S = p["PASSED"] \cup p["FAILED"] \cup p["ERRORED"] \cup p["SKIPPED"]
             \cup p["REFERENCE_NOT_FOUND"] \cup p["NO_TEST_CASE_DECLARED"]
    /\ \A f, g \in Filings : f # g => p[f] \cap p[g] = {}

LEMMA SixParts ==
    ASSUME NEW S, IsFiniteSet(S), NEW p, SixSlots(p, S)
    PROVE  Cardinality(p["PASSED"]) + Cardinality(p["FAILED"]) + Cardinality(p["ERRORED"])
             + Cardinality(p["SKIPPED"]) + Cardinality(p["REFERENCE_NOT_FOUND"])
             + Cardinality(p["NO_TEST_CASE_DECLARED"]) = Cardinality(S)
<1> DEFINE A == p["PASSED"]
           B == p["FAILED"]
           C == p["ERRORED"]
           D == p["SKIPPED"]
           E == p["REFERENCE_NOT_FOUND"]
           F == p["NO_TEST_CASE_DECLARED"]
<1>a. Filings = {"PASSED", "FAILED", "ERRORED", "SKIPPED", "REFERENCE_NOT_FOUND", "NO_TEST_CASE_DECLARED"}
  BY DEF Filings, Observed, Unresolved
<1>b. S = A \cup B \cup C \cup D \cup E \cup F
  BY DEF SixSlots
<1>c. /\ A \cap B = {} /\ A \cap C = {} /\ A \cap D = {} /\ A \cap E = {} /\ A \cap F = {}
      /\ B \cap C = {} /\ B \cap D = {} /\ B \cap E = {} /\ B \cap F = {} /\ C \cap D = {}
      /\ C \cap E = {} /\ C \cap F = {} /\ D \cap E = {} /\ D \cap F = {} /\ E \cap F = {}
  BY <1>a DEF SixSlots
<1> HIDE DEF A, B, C, D, E, F
<1>d. /\ A \cap B = {} /\ (A \cup B) \cap C = {} /\ (A \cup B \cup C) \cap D = {}
      /\ (A \cup B \cup C \cup D) \cap E = {} /\ (A \cup B \cup C \cup D \cup E) \cap F = {}
  BY <1>c
<1>1. \A X \in SUBSET S : IsFiniteSet(X) /\ Cardinality(X) \in Nat
  BY FS_Subset, FS_CardinalityType
<1>2. ASSUME NEW X \in SUBSET S, NEW Y \in SUBSET S, X \cap Y = {}
      PROVE  Cardinality(X \cup Y) = Cardinality(X) + Cardinality(Y)
  <2>1. IsFiniteSet(X) /\ IsFiniteSet(Y) /\ Cardinality(X) \in Nat /\ Cardinality(Y) \in Nat
    BY <1>1
  <2>2. Cardinality(X \cup Y) = Cardinality(X) + Cardinality(Y) - Cardinality(X \cap Y)
    BY <2>1, FS_Union
  <2>3. Cardinality(X \cap Y) = 0
    BY <1>2, FS_EmptySet
  <2> QED
    BY <2>1, <2>2, <2>3
<1>3. /\ A \in SUBSET S /\ B \in SUBSET S /\ C \in SUBSET S /\ D \in SUBSET S /\ E \in SUBSET S /\ F \in SUBSET S
      /\ A \cup B \in SUBSET S /\ A \cup B \cup C \in SUBSET S /\ A \cup B \cup C \cup D \in SUBSET S
      /\ A \cup B \cup C \cup D \cup E \in SUBSET S
  BY <1>b
<1>4. Cardinality(A \cup B) = Cardinality(A) + Cardinality(B)
  BY <1>2, <1>3, <1>d
<1>5. Cardinality(A \cup B \cup C) = Cardinality(A \cup B) + Cardinality(C)
  BY <1>2, <1>3, <1>d
<1>6. Cardinality(A \cup B \cup C \cup D) = Cardinality(A \cup B \cup C) + Cardinality(D)
  BY <1>2, <1>3, <1>d
<1>7. Cardinality(A \cup B \cup C \cup D \cup E) = Cardinality(A \cup B \cup C \cup D) + Cardinality(E)
  BY <1>2, <1>3, <1>d
<1>8. Cardinality(S) = Cardinality(A \cup B \cup C \cup D \cup E) + Cardinality(F)
  BY <1>2, <1>3, <1>b, <1>d
<1> QED
  <2>1. Cardinality(A) + Cardinality(B) + Cardinality(C) + Cardinality(D) + Cardinality(E) + Cardinality(F)
          = Cardinality(S)
    BY <1>1, <1>3, <1>4, <1>5, <1>6, <1>7, <1>8
  <2> QED
    BY <2>1 DEF A, B, C, D, E, F

LEMMA TallyAddsUp ==
    ASSUME NEW rows \in Seq(CheckRow), WholeRows(rows), NEW n, n = Tally(rows)
    PROVE  n["PASSED"] + n["FAILED"] + n["ERRORED"] + n["SKIPPED"]
             + n["REFERENCE_NOT_FOUND"] + n["NO_TEST_CASE_DECLARED"] = Len(rows)
<1> DEFINE P(f) == {i \in DOMAIN rows : FilingOf(rows[i]) = f}
<1>1. \A f \in Filings : n[f] = Cardinality(P(f))
  BY DEF Tally
<1>2. Filings = {"PASSED", "FAILED", "ERRORED", "SKIPPED", "REFERENCE_NOT_FOUND", "NO_TEST_CASE_DECLARED"}
  BY DEF Filings, Observed, Unresolved
<1>3. DOMAIN rows = 1..Len(rows) /\ Len(rows) \in Nat
  OBVIOUS
<1>4. IsFiniteSet(DOMAIN rows) /\ Cardinality(DOMAIN rows) = Len(rows)
  <2>1. PICK m : m = Len(rows)
    OBVIOUS
  <2>2. m \in Nat
    BY <1>3, <2>1
  <2>3. IsFiniteSet(1..m) /\ Cardinality(1..m) = m
    BY <2>2, FS_Interval
  <2> QED
    BY <1>3, <2>1, <2>3
<1>5. \A i \in DOMAIN rows : FilingOf(rows[i]) \in Filings
  BY DEF WholeRows
<1>6. PICK p : p = [f \in Filings |-> P(f)]
  OBVIOUS
<1>7. SixSlots(p, DOMAIN rows)
  BY <1>2, <1>5, <1>6 DEF SixSlots
<1>8. Cardinality(p["PASSED"]) + Cardinality(p["FAILED"]) + Cardinality(p["ERRORED"])
        + Cardinality(p["SKIPPED"]) + Cardinality(p["REFERENCE_NOT_FOUND"])
        + Cardinality(p["NO_TEST_CASE_DECLARED"]) = Cardinality(DOMAIN rows)
  BY <1>4, <1>7, SixParts
<1>9. \A f \in Filings : n[f] = Cardinality(p[f])
  BY <1>1, <1>6
<1>10. /\ n["PASSED"] = Cardinality(p["PASSED"]) /\ n["FAILED"] = Cardinality(p["FAILED"])
       /\ n["ERRORED"] = Cardinality(p["ERRORED"]) /\ n["SKIPPED"] = Cardinality(p["SKIPPED"])
       /\ n["REFERENCE_NOT_FOUND"] = Cardinality(p["REFERENCE_NOT_FOUND"])
       /\ n["NO_TEST_CASE_DECLARED"] = Cardinality(p["NO_TEST_CASE_DECLARED"])
  BY <1>2, <1>9
<1> QED
  BY <1>4, <1>8, <1>10

\* Every place in the order of a finite set of numbers is somebody's.
Below == {r \in Nat \X Nat : r[1] < r[2]}

LEMMA HasPlace ==
    ASSUME NEW T \in SUBSET Nat, IsFiniteSet(T), NEW k \in Nat, k < Cardinality(T)
    PROVE  \E m \in T : Cardinality({j \in T : j < m}) = k
<1>1. \A x, y \in Nat : <<x, y>> \in Below <=> x < y
  BY DEF Below
<1>2. Orders(Below, T)
  <2> HIDE DEF Below
  <2>1. \A x \in T : x \in Nat
    OBVIOUS
  <2> QED
    BY <1>1, <2>1 DEF Orders
<1>3. PICK F : F = FirstIn(Below, T, k)
  OBVIOUS
<1>4. /\ F \subseteq T /\ Cardinality(F) \in Nat /\ Cardinality(F) <= k
      /\ F # T => Cardinality(F) = k
      /\ \A x \in F, y \in T \ F : <<x, y>> \in Below
  BY <1>2, <1>3, CutIsFull
<1>5. F # T /\ Cardinality(T) \in Nat
  <2>1. Cardinality(T) \in Nat
    BY FS_CardinalityType
  <2> QED
    BY <1>4, <2>1
<1>6. PICK m \in T \ F : \A y \in T \ F : <<y, m>> \notin Below
  <2>1. T \ F \in SUBSET T /\ T \ F # {}
    BY <1>4, <1>5
  <2> QED
    BY <1>2, <2>1, HasLeast
<1>7. {j \in T : j < m} = F
  <2>1. \A j \in T : j \in Nat /\ (<<j, m>> \in Below <=> j < m)
    BY <1>1
  <2> QED
    BY <1>4, <1>6, <2>1
<1> QED
  BY <1>4, <1>5, <1>6, <1>7

\* A page that is not past the last one holds a row.
LEMMA PageHolds ==
    ASSUME NEW T \in SUBSET Nat, IsFiniteSet(T), T # {}, NEW g \in Nat \ {0},
           NEW page, page = Min({g, ReportPages(Cardinality(T))})
    PROVE  \E i \in T : Cardinality({j \in T : j < i}) \div ReportPage = page - 1
<1>1. PICK n, r : n = Cardinality(T) /\ r = ReportPages(n)
  OBVIOUS
<1>2. n \in Nat /\ n > 0
  <2>1. Cardinality(T) \in Nat /\ Cardinality(T) # 0
    BY FS_CardinalityType, FS_EmptySet
  <2> QED
    BY <1>1, <2>1
<1>3. r \in Nat \ {0} /\ (r - 1) * ReportPage < n
  BY <1>1, <1>2, PagesTyped
<1>4. page = IF g <= r THEN g ELSE r
  BY <1>1, <1>3 DEF Min
<1>5. page \in Nat \ {0} /\ page <= r
  BY <1>3, <1>4
<1>6. PICK k : k = (page - 1) * ReportPage
  OBVIOUS
<1>7. k \in Nat /\ k < n /\ k \div ReportPage = page - 1
  <2>1. PICK a, b : a = page - 1 /\ b = r - 1
    OBVIOUS
  <2>2. a \in Nat /\ b \in Nat /\ a <= b
    BY <1>3, <1>5, <2>1
  <2>3. a * ReportPage \in Nat /\ a * ReportPage <= b * ReportPage
    BY <2>2, ChecksNumbers
  <2>4. (a * ReportPage) \div ReportPage = a
    BY <2>2, ChecksNumbers
  <2> QED
    BY <1>2, <1>3, <1>6, <2>1, <2>3, <2>4, ChecksNumbers
<1>8. PICK m \in T : Cardinality({j \in T : j < m}) = k
  BY <1>1, <1>7, HasPlace
<1> QED
  BY <1>7, <1>8

LEMMA TalliesAre ==
    ASSUME ChecksInv
    PROVE  TalliesAreRows
<1>1. batches \in Seq(BatchRow) /\ viewed \in ReportRow /\ DOMAIN batches = 1..Len(batches) /\ Len(batches) \in Nat
  BY DEF ChecksInv, BatchesInv
<1>2. \A b \in DOMAIN batches :
          batches[b].rows \in Seq(CheckRow) /\ WholeRows(batches[b].rows) /\ batches[b].counts = Tally(batches[b].rows)
  <2>1. \A b \in DOMAIN batches : batches[b] \in BatchRow
    BY <1>1
  <2> QED
    BY <2>1 DEF ChecksInv, BatchesInv, BatchRow
<1>3. ASSUME NEW b \in DOMAIN batches
      PROVE  LET n == batches[b].counts
             IN  n["PASSED"] + n["FAILED"] + n["ERRORED"] + n["SKIPPED"]
                   + n["REFERENCE_NOT_FOUND"] + n["NO_TEST_CASE_DECLARED"] = Len(batches[b].rows)
  <2>1. PICK rows, n : rows = batches[b].rows /\ n = batches[b].counts
    OBVIOUS
  <2>2. rows \in Seq(CheckRow) /\ WholeRows(rows) /\ n = Tally(rows)
    BY <1>2, <2>1
  <2>3. n["PASSED"] + n["FAILED"] + n["ERRORED"] + n["SKIPPED"]
          + n["REFERENCE_NOT_FOUND"] + n["NO_TEST_CASE_DECLARED"] = Len(rows)
    BY <2>2, TallyAddsUp
  <2> QED
    BY <2>1, <2>3
<1>4. ASSUME viewed.batch # 0, batches[viewed.batch].rows # <<>>
      PROVE  /\ viewed.filter # "all" => batches[viewed.batch].counts[viewed.filter] = Cardinality(Narrowed)
             /\ Visible # {}
  <2>1. PICK v, rows, n : v = viewed /\ rows = batches[viewed.batch].rows /\ n = batches[viewed.batch].counts
    OBVIOUS
  <2>2. viewed.batch \in DOMAIN batches /\ v \in ReportRow /\ (v.filter = "all" \/ n[v.filter] > 0)
    BY <1>1, <1>4, <2>1 DEF ChecksInv, ReportInv, ReportRow
  <2>3. rows \in Seq(CheckRow) /\ n = Tally(rows) /\ rows # <<>>
    BY <1>2, <1>4, <2>1, <2>2
  <2>4. PICK T : T = {i \in DOMAIN rows : v.filter = "all" \/ FilingOf(rows[i]) = v.filter}
    OBVIOUS
  <2>5. Narrowed = T
    BY <2>1, <2>4 DEF Narrowed
  <2>6. T \in SUBSET (1..Len(rows)) /\ Len(rows) \in Nat /\ Len(rows) # 0 /\ DOMAIN rows = 1..Len(rows)
    BY <2>3, <2>4
  <2>7. IsFiniteSet(T)
    <3>1. PICK m : m = Len(rows)
      OBVIOUS
    <3>2. IsFiniteSet(1..m)
      BY <2>6, <3>1, FS_Interval
    <3> QED
      BY <2>6, <3>1, <3>2, FS_Subset
  <2>8. v.filter # "all" => n[v.filter] = Cardinality(T)
    <3>1. v.filter # "all" => v.filter \in Filings /\ T = {i \in DOMAIN rows : FilingOf(rows[i]) = v.filter}
      BY <2>2, <2>4 DEF ReportRow
    <3> QED
      BY <2>3, <3>1 DEF Tally
  <2>9. T # {}
    <3>1. v.filter = "all" => T = DOMAIN rows
      BY <2>4
    <3>2. v.filter # "all" => Cardinality(T) # 0
      BY <2>2, <2>8
    <3>3. 1 \in DOMAIN rows
      BY <2>6
    <3>4. T = {} => Cardinality(T) = 0
      BY FS_EmptySet
    <3> QED
      BY <3>1, <3>2, <3>3, <3>4
  <2>10. PICK page : page = Min({v.page, ReportPages(Cardinality(T))})
    OBVIOUS
  <2>11. \E i \in T : Cardinality({j \in T : j < i}) \div ReportPage = page - 1
    <3>1. T \in SUBSET Nat /\ v.page \in Nat \ {0}
      BY <2>2, <2>6 DEF ReportRow
    <3> QED
      BY <2>7, <2>9, <2>10, <3>1, PageHolds
  <2>12. Visible = {i \in T : Cardinality({j \in T : j < i}) \div ReportPage = page - 1}
    BY <2>1, <2>5, <2>10 DEF Visible
  <2> QED
    BY <2>1, <2>5, <2>8, <2>11, <2>12
<1> QED
  BY <1>3, <1>4 DEF TalliesAreRows

LEMMA OmissionStated ==
    ASSUME ChecksInv
    PROVE  OmissionIsStated
<1> SUFFICES ASSUME panel.phase = "drawn", panel.before = panel.after
             PROVE  LET seen == {x \in ChecksOf(panel.of) : x[1] <= panel.after}
                        left == seen \ panel.shown
                    IN  /\ Omitted = Cardinality(left)
                        /\ \A x \in left, r \in RunsShown : ~Older(<<r, 1>>, x)
  BY DEF OmissionIsStated
<1>1. PICK p, bs : p = panel /\ bs = batches
  OBVIOUS
<1>2. p \in PanelRow /\ PanelInv(p, bs) /\ bs \in Seq(BatchRow) /\ p.phase = "drawn" /\ p.before = p.after
  BY <1>1 DEF ChecksInv, BatchesInv
<1>3. PICK A, S, n, k : A = ChecksIn(bs, p.of, p.after) /\ S = p.shown /\ n = Len(bs) /\ k = p.after
  OBVIOUS
<1>4. n \in Nat /\ k \in Nat /\ k <= n /\ p.total = Cardinality(A) /\ ListedOf(bs, p.of, k, S)
  BY <1>2, <1>3 DEF PanelRow, PanelInv
<1>5. S \subseteq A /\ \A x \in S, y \in A \ S : ~OlderIn(bs, x, y)
  BY <1>3, <1>4 DEF ListedOf
<1>6. IsFiniteSet(A) /\ Cardinality(A) \in Nat
  BY <1>2, <1>3, <1>4, ChecksFinite
<1>7. {x \in ChecksOf(panel.of) : x[1] <= panel.after} = A
  <2>1. ChecksOf(panel.of) = ChecksIn(bs, p.of, n)
    BY <1>1, <1>2, <1>3, ChecksOfAll
  <2>2. A = {x \in ChecksIn(bs, p.of, n) : x[1] <= k}
    BY <1>3, <1>4, ChecksAre
  <2> QED
    BY <1>1, <1>3, <2>1, <2>2
<1>8. Omitted = Cardinality(A \ S)
  <2>1. IsFiniteSet(S) /\ Cardinality(S) \in Nat /\ Cardinality(S) <= Cardinality(A)
    BY <1>5, <1>6, FS_Subset, FS_CardinalityType
  <2>2. Cardinality(A \ S) = Cardinality(A) - Cardinality(A \cap S)
    BY <1>6, FS_Difference
  <2>3. A \cap S = S
    BY <1>5
  <2>4. Omitted = IF Cardinality(A) > Cardinality(S) THEN Cardinality(A) - Cardinality(S) ELSE 0
    BY <1>1, <1>3, <1>4 DEF Omitted
  <2> QED
    BY <1>6, <2>1, <2>2, <2>3, <2>4
<1>9. ASSUME NEW x \in A \ S, NEW r \in RunsShown PROVE ~Older(<<r, 1>>, x)
  <2>1. PICK y \in S : r = y[1]
    BY <1>1, <1>3, <1>9 DEF RunsShown
  <2>2. ~OlderIn(bs, y, x)
    BY <1>5, <2>1
  <2>3. <<r, 1>>[1] = y[1]
    BY <2>1
  <2> QED
    BY <1>1, <2>2, <2>3 DEF Older, OlderIn
<1> QED
  BY <1>1, <1>3, <1>7, <1>8, <1>9

\* What the checks of an automation suite are shown as, for any files, uploads and bounds: a run is
\* recorded whole for a test case, the tallies of its report are the rows that they narrow to, and
\* no page of it is empty; what a panel leaves out it counts, and it is no newer than what it shows.
THEOREM ChecksDoAddUp == ChecksSpec => []ChecksAddUp
<1>1. ChecksInv => ChecksAddUp
  <2> SUFFICES ASSUME ChecksInv PROVE ChecksAddUp
    OBVIOUS
  <2>1. RunIsWhole
    BY DEF ChecksInv, BatchesInv, WholeRows, RunIsWhole
  <2> QED
    BY <2>1, TalliesAre, OmissionStated DEF ChecksAddUp
<1> QED
  BY <1>1, ChecksStayTrue, PTL

\* Types of the ingestion and of its screens (domain/checks.ts).
THEOREM ChecksTyped == ChecksSpec => []ChecksTypeOK
<1>1. ChecksInv => ChecksTypeOK
  BY DEF ChecksInv, BatchesInv, ChecksTypeOK, BatchRow, IngestRow, PanelRow, ReportRow, ReportInv
<1> QED
  BY <1>1, ChecksStayTrue, PTL

-------------------------------------------------------------------------------
\* What the explorer draws adds up

LEMMA LevelFacts ==
    /\ Entries \subseteq Nat \ {NoEntry} /\ IsFiniteSet(Entries) /\ NoEntry = 0
    /\ ParentOf \in [Entries -> Entries \cup {NoEntry}]
    /\ ChildLimit \in Nat \ {0} /\ PanelSize \in Nat \ {0} /\ SearchLimit \in Nat \ {0}
    /\ Branches \subseteq Entries
<1>1. /\ Entries \subseteq Nat \ {NoEntry} /\ IsFiniteSet(Entries)
      /\ ParentOf \in [Entries -> Entries \cup {NoEntry}]
      /\ {ChildLimit, PanelSize, SearchLimit} \subseteq Nat \ {0}
  BY Zenon, CatalogueAssumption DEF CatalogueAssumption
<1> QED
  BY <1>1 DEF Branches, Entries, NoEntry

LEMMA LevelsApart ==
    /\ ProductRows \cap ModuleRows = {} /\ ProductRows \cap FeatureRows = {}
    /\ ProductRows \cap RequirementRows = {} /\ ModuleRows \cap FeatureRows = {}
    /\ ModuleRows \cap RequirementRows = {} /\ FeatureRows \cap RequirementRows = {}
<1>1. /\ \A p \in ProductRows : \A x \in ModuleRows \cup FeatureRows \cup RequirementRows : p < x
      /\ \A m \in ModuleRows : \A x \in FeatureRows \cup RequirementRows : m < x
      /\ \A f \in FeatureRows : \A r \in RequirementRows : f < r
  BY Zenon, CatalogueAssumption DEF CatalogueAssumption
<1>2. \A x \in Entries : x \in Nat /\ ~(x < x)
  BY LevelFacts
<1> QED
  BY <1>1, <1>2 DEF Entries

LEMMA Generations ==
    /\ Children(NoEntry) = ProductRows
    /\ \A p \in ProductRows : Children(p) \subseteq ModuleRows
    /\ \A m \in ModuleRows : Children(m) \subseteq FeatureRows
    /\ \A f \in FeatureRows : Children(f) \subseteq RequirementRows
    /\ \A x \in RequirementRows : Children(x) = {}
<1>1. \A x \in Entries : CASE x \in ProductRows -> ParentOf[x] = NoEntry
                           [] x \in ModuleRows  -> ParentOf[x] \in ProductRows
                           [] x \in FeatureRows -> ParentOf[x] \in ModuleRows
                           [] OTHER             -> ParentOf[x] \in FeatureRows
  BY Zenon, CatalogueAssumption DEF CatalogueAssumption
<1>2. /\ \A x \in ProductRows : ParentOf[x] = NoEntry
      /\ \A x \in ModuleRows : ParentOf[x] \in ProductRows
      /\ \A x \in FeatureRows : ParentOf[x] \in ModuleRows
      /\ \A x \in RequirementRows : ParentOf[x] \in FeatureRows
  BY <1>1, LevelsApart DEF Entries
<1>3. NoEntry \notin Entries
  BY LevelFacts
<1> QED
  BY <1>2, <1>3, LevelsApart DEF Children, Entries

-------------------------------------------------------------------------------
\* A record comes after its parent, and stays.
ParentsIn(S) == \A x \in S : ParentOf[x] \in S \cup {NoEntry}

\* What was read for a query, at some time since the page began to load.
SnapshotOf(q) ==
    \E E \in SUBSET Existing : view.start \subseteq E /\ view.seen[q] = Take(q, Reads(q) \cap E)

\* What has been answered before what.
InTurn ==
    LET done == view.answered
    IN  /\ "rowCounts" \in done => "rows" \in done
        /\ "requirementCounts" \in done => "features" \in done
        /\ "features" \in done => "featureCounts" \in done
        /\ "featureCounts" \in done => "modules" \in done
        /\ "modules" \in done => "productTotal" \in done
        /\ "productTotal" \in done => "products" \in done
        /\ "products" \in done => "resolve" \in done /\ ("record" \in done \/ view.sel = NoEntry)

\* What a search found of what matched all the time, and that it is a hit.
Finds(q) ==
    /\ \A x \in view.seen[q] : \E s \in 0..4 : <<x, s>> \in view.hits
    /\ \A x \in view.start \ view.touched :
          (LevelQuery(x) = q /\ Matches(x)) =>
              IF x \in view.seen[q] THEN <<x, Score[x][entry[x].label]>> \in view.hits
              ELSE Cardinality(view.seen[q]) > SearchLimit /\ \A y \in view.seen[q] : y < x

Loading ==
    /\ view.start \subseteq Existing /\ Existing \subseteq view.start \cup view.touched
    /\ ParentsIn(view.start)
    /\ InTurn
    /\ \A q \in view.answered \ SearchQueries : SnapshotOf(q)
    /\ \A q \in view.answered \cap SearchQueries : Finds(q)

ExplorerInv ==
    /\ CatalogueTypeOK /\ ParentsIn(Existing)
    /\ view.mode # "none" => Loading

LEMMA ExplorerInit == CatalogueInit => ExplorerInv
<1> SUFFICES ASSUME CatalogueInit PROVE ExplorerInv
  OBVIOUS
<1>1. CatalogueTypeOK
  <2>1. NoView \in View
    BY DEF NoView, View
  <2>2. \A x \in Entries : entry[x].version \in Nat /\ entry[x] \in [version : Nat, label : Labels]
    BY DEF CatalogueInit
  <2> QED
    BY <2>1, <2>2 DEF CatalogueInit, CatalogueTypeOK
<1>2. view.mode = "none"
  BY DEF CatalogueInit, NoView
<1> QED
  BY <1>1, <1>2 DEF CatalogueInit, ExplorerInv, ParentsIn

\* Nothing leaves the catalogue.
LEMMA RowWritten ==
    ASSUME CatalogueTypeOK, NEW x \in Entries, NEW n \in Nat \ {0}, NEW t \in Labels,
           entry' = [entry EXCEPT ![x] = [version |-> n, label |-> t]]
    PROVE  /\ entry' \in [Entries -> [version : Nat, label : Labels]]
           /\ Existing' = Existing \cup {x}
           /\ \A y \in Entries \ {x} : entry'[y] = entry[y]
<1>1. entry \in [Entries -> [version : Nat, label : Labels]]
  BY DEF CatalogueTypeOK
<1>2. /\ entry' \in [Entries -> [version : Nat, label : Labels]]
      /\ \A y \in Entries \ {x} : entry'[y] = entry[y]
      /\ entry'[x].version = n
  BY <1>1
<1>3. Existing' = Existing \cup {x}
  BY <1>2 DEF Existing
<1> QED
  BY <1>2, <1>3

LEMMA WriteKeeps ==
    ASSUME ExplorerInv, view.mode # "none", NEW x \in Entries, NEW n \in Nat \ {0}, NEW t \in Labels,
           Write(x, [version |-> n, label |-> t]), ParentOf[x] \in Existing \cup {NoEntry}
    PROVE  ExplorerInv'
<1>1. /\ entry' = [entry EXCEPT ![x] = [version |-> n, label |-> t]]
      /\ view' = [view EXCEPT !.touched = view.touched \cup {x}]
      /\ view \in View /\ CatalogueTypeOK
  BY DEF Write, ExplorerInv, CatalogueTypeOK, View
<1>2. /\ entry' \in [Entries -> [version : Nat, label : Labels]]
      /\ Existing' = Existing \cup {x}
      /\ \A y \in Entries \ {x} : entry'[y] = entry[y]
  BY <1>1, RowWritten
<1>3. /\ view' \in View /\ view'.touched = view.touched \cup {x} /\ view'.mode = view.mode
      /\ view'.sel = view.sel /\ view'.open = view.open /\ view'.answered = view.answered
      /\ view'.seen = view.seen /\ view'.hits = view.hits /\ view'.start = view.start
  BY <1>1 DEF View
<1>4. ParentsIn(Existing)'
  BY <1>2 DEF ExplorerInv, ParentsIn
<1>5. ASSUME NEW q \in view.answered \ SearchQueries PROVE SnapshotOf(q)'
  <2>1. PICK E \in SUBSET Existing : view.start \subseteq E /\ view.seen[q] = Take(q, Reads(q) \cap E)
    BY <1>5 DEF ExplorerInv, Loading, SnapshotOf
  <2>2. Reads(q)' = Reads(q)
    BY <1>3 DEF Reads, Opened
  <2>3. \A S : Take(q, S)' = Take(q, S)
    BY <1>5 DEF Take
  <2>4. E \in SUBSET Existing' /\ view'.start \subseteq E /\ view'.seen[q] = Take(q, Reads(q)' \cap E)
    BY <1>2, <1>3, <2>1, <2>2
  <2> QED
    BY <2>3, <2>4 DEF SnapshotOf
<1>6. ASSUME NEW q \in view.answered \cap SearchQueries PROVE Finds(q)'
  <2>1. Finds(q)
    BY <1>6 DEF ExplorerInv, Loading
  <2>2. view.start \subseteq Entries
    BY <1>1 DEF View
  <2>3. \A y \in Entries \ {x} : (Matches(y)' <=> Matches(y)) /\ entry'[y] = entry[y]
    BY <1>2 DEF Matches
  <2> QED
    BY <1>3, <2>1, <2>2, <2>3 DEF Finds, LevelQuery
<1>7. Loading'
  BY <1>2, <1>3, <1>5, <1>6 DEF ExplorerInv, Loading, InTurn, ParentsIn
<1> QED
  BY <1>2, <1>3, <1>4, <1>7 DEF ExplorerInv, CatalogueTypeOK

LEMMA WritesKeep ==
    ASSUME ExplorerInv, view.mode # "none", CatalogueWrite
    PROVE  ExplorerInv'
<1>1. PICK x \in Entries, t \in Labels :
          \/ CreateProduct(x, t) \/ CreateModule(x, t) \/ CreateFeature(x, t)
          \/ CreateRequirement(x, t)
          \/ UpdateProduct(x, t, entry[x].version) \/ UpdateModule(x, t, entry[x].version)
          \/ UpdateFeature(x, t, entry[x].version) \/ UpdateRequirement(x, t, entry[x].version)
  BY DEF CatalogueWrite
<1>2. CASE AddEntry(x, t) /\ ParentOf[x] \in Existing \cup {NoEntry}
  <2>1. Write(x, [version |-> 1, label |-> t]) /\ 1 \in Nat \ {0}
    BY <1>2 DEF AddEntry
  <2> QED
    BY <1>2, <2>1, WriteKeeps
<1>3. CASE Relabel(x, t, entry[x].version)
  <2>1. PICK n : n = entry[x].version
    OBVIOUS
  <2>2. n \in Nat /\ x \in Existing
    BY <1>3, <2>1 DEF Relabel, ExplorerInv, CatalogueTypeOK
  <2>3. Write(x, [version |-> n + 1, label |-> t]) /\ n + 1 \in Nat \ {0}
    BY <1>3, <2>1, <2>2 DEF Relabel
  <2>4. ParentOf[x] \in Existing \cup {NoEntry}
    BY <2>2 DEF ExplorerInv, ParentsIn
  <2> QED
    BY <2>3, <2>4, WriteKeeps
<1>4. x \in ProductRows => ParentOf[x] = NoEntry
  <2>1. x \in ProductRows => x \in Children(NoEntry)
    BY Generations
  <2> QED
    BY <2>1 DEF Children
<1> QED
  BY <1>1, <1>2, <1>3, <1>4
     DEF CreateProduct, CreateModule, CreateFeature, CreateRequirement,
         UpdateProduct, UpdateModule, UpdateFeature, UpdateRequirement

LEMMA OpenKeeps ==
    ASSUME ExplorerInv, NEW page \in Openings, OpenPage(page[1], page[2], page[3])
    PROVE  ExplorerInv'
<1>1. page \in {"tree", "search"} \X (Entries \cup {NoEntry}) \X SUBSET Branches
  <2>1. Openings \subseteq ({"tree", "search"} \X (Entries \cup {NoEntry}) \X SUBSET Branches)
    BY Zenon, CatalogueAssumption DEF CatalogueAssumption
  <2> QED
    BY <2>1
<1>2. PICK m, x, o : m = page[1] /\ x = page[2] /\ o = page[3]
  OBVIOUS
<1>3. m \in {"tree", "search"} /\ x \in Entries \cup {NoEntry} /\ o \in SUBSET Branches
  BY <1>1, <1>2
<1>4. PICK S : S = Existing
  OBVIOUS
<1>5. view' = [NoView EXCEPT !.mode = m, !.sel = x, !.open = o, !.start = S] /\ entry' = entry
  BY <1>2, <1>4 DEF OpenPage
<1>6. S \in SUBSET Entries
  BY <1>4 DEF Existing
<1>7. /\ view' \in View /\ view'.answered = {} /\ view'.start = S /\ view'.seen = NoView.seen
  <2>1. NoView \in View /\ NoView.answered = {}
    BY DEF NoView, View
  <2> QED
    BY <1>3, <1>5, <1>6, <2>1 DEF View
<1>8. Existing' = S
  BY <1>4, <1>5 DEF Existing
<1>9. Loading'
  BY <1>4, <1>7, <1>8 DEF ExplorerInv, Loading, InTurn, ParentsIn
<1> QED
  BY <1>4, <1>5, <1>7, <1>8, <1>9 DEF ExplorerInv, CatalogueTypeOK, ParentsIn

LEMMA QueriesApart ==
    /\ TreeQueries \cap SearchQueries = {} /\ TreeQueries \cap ProductDetail = {}
    /\ SearchQueries \cap ProductDetail = {}
    /\ \A x : Detail(x) \subseteq ProductDetail
    /\ \A x \in Entries : "record" \in Detail(x)
    /\ Detail(NoEntry) = {}
<1>1. NoEntry \notin Entries
  BY LevelFacts
<1>2. \A x : Detail(x) \subseteq ProductDetail
  BY DEF Detail, ProductDetail, ModuleDetail, FeatureDetail, RequirementDetail
<1>3. \A x \in Entries : "record" \in Detail(x)
  BY LevelsApart DEF Entries, Detail, ProductDetail, ModuleDetail, FeatureDetail, RequirementDetail
<1>4. Detail(NoEntry) = {}
  BY <1>1 DEF Entries, Detail
<1> QED
  BY <1>2, <1>3, <1>4 DEF TreeQueries, SearchQueries, ProductDetail

\* What was answered stays the answer to what was asked.
LEMMA AnswerInTurn ==
    ASSUME ExplorerInv, Loading, NEW q \in PageQueries, AnswerQuery(q),
           view'.answered = view.answered \cup {q}, view'.sel = view.sel
    PROVE  InTurn'
<1>1. q \in Asked \ view.answered /\ Before(q) \cap Asked \subseteq view.answered
  BY DEF AnswerQuery
<1>2. view.sel \in Entries \cup {NoEntry}
  BY DEF ExplorerInv, CatalogueTypeOK, View
<1>3. q = "rowCounts" => "rows" \in view.answered
  <2> SUFFICES ASSUME q = "rowCounts" PROVE "rows" \in view.answered
    OBVIOUS
  <2>1. "rowCounts" \in Detail(view.sel) /\ ~NotFound
    BY <1>1 DEF Asked, TreeQueries, SearchQueries
  <2>2. "rows" \in Detail(view.sel)
    BY <2>1 DEF Detail, ProductDetail, ModuleDetail, FeatureDetail, RequirementDetail
  <2>3. "rows" \in Asked /\ "rows" \in Before(q)
    BY <2>1, <2>2 DEF Asked, Before, ProductDetail
  <2> QED
    BY <1>1, <2>3
<1>4. q \in TreeQueries => TreeQueries \subseteq Asked
  BY <1>1, QueriesApart DEF Asked, TreeQueries, ProductDetail
<1>5. q = "requirementCounts" => "features" \in view.answered
  BY <1>1, <1>4 DEF TreeQueries, Before
<1>6. q = "features" => "featureCounts" \in view.answered
  BY <1>1, <1>4 DEF TreeQueries, Before
<1>7. q = "featureCounts" => "modules" \in view.answered
  BY <1>1, <1>4 DEF TreeQueries, Before
<1>8. q = "modules" => "productTotal" \in view.answered
  BY <1>1, <1>4 DEF TreeQueries, Before
<1>9. q = "productTotal" => "products" \in view.answered
  BY <1>1, <1>4 DEF TreeQueries, Before
<1>10. q = "products" => "resolve" \in view.answered /\ ("record" \in view.answered \/ view.sel = NoEntry)
  <2>1. q = "products" => Before(q) = ProductDetail \cup {"resolve"} /\ "resolve" \in Asked
    BY <1>4 DEF TreeQueries, Before
  <2>2. view.sel # NoEntry => "record" \in Asked
    BY <1>2, QueriesApart DEF Asked
  <2> QED
    BY <1>1, <2>1, <2>2 DEF ProductDetail
<1> QED
  BY <1>3, <1>5, <1>6, <1>7, <1>8, <1>9, <1>10 DEF Loading, InTurn

LEMMA ReadsStandStill ==
    ASSUME ExplorerInv, Loading, NEW q \in PageQueries, AnswerQuery(q), InTurn', NEW S,
           view'.answered = view.answered \cup {q}, view'.sel = view.sel, view'.open = view.open,
           view'.seen = [view.seen EXCEPT ![q] = S]
    PROVE  \A r \in view.answered \cup {q} : Reads(r)' = Reads(r)
<1>1. q \notin view.answered /\ q \in Asked
  BY DEF AnswerQuery
<1>2. \A r \in PageQueries \ {q} : view'.seen[r] = view.seen[r]
  BY DEF ExplorerInv, CatalogueTypeOK, View
<1>3. view.sel = NoEntry => q # "record"
  BY <1>1, QueriesApart DEF Asked, TreeQueries, SearchQueries, NotFound
<1>4. TAKE r \in view.answered \cup {q}
<1>5. r = "rowCounts" => q # "rows"
  BY <1>1 DEF Loading, InTurn
<1>6. r = "featureCounts" => q # "modules"
  BY <1>1 DEF Loading, InTurn
<1>7. r = "requirementCounts" => q # "features"
  BY <1>1 DEF Loading, InTurn
<1>8. r \in {"modules", "features"} => q # "resolve" /\ q # "record"
  BY <1>1, <1>3 DEF Loading, InTurn
<1>9. {"rows", "modules", "features", "resolve", "record"} \subseteq PageQueries
  BY DEF PageQueries, TreeQueries, ProductDetail
<1>10. r \in {"modules", "features"} => Opened' = Opened
  BY <1>2, <1>8, <1>9 DEF Opened
<1> QED
  BY <1>2, <1>5, <1>6, <1>7, <1>9, <1>10 DEF Reads

\* The order of the business IDs.
NumberOrder == {r \in Nat \X Nat : r[1] < r[2]}

LEMMA FirstOfIsFull ==
    ASSUME NEW S \in SUBSET Entries, NEW n \in Nat
    PROVE  /\ FirstOf(S, n) \subseteq S /\ IsFiniteSet(S) /\ Cardinality(S) \in Nat
           /\ Cardinality(FirstOf(S, n)) \in Nat /\ Cardinality(FirstOf(S, n)) <= n
           /\ Cardinality(FirstOf(S, n)) <= Cardinality(S)
           /\ FirstOf(S, n) # S => Cardinality(FirstOf(S, n)) = n
           /\ \A y \in FirstOf(S, n), x \in S \ FirstOf(S, n) : y < x
<1>1. IsFiniteSet(S) /\ Cardinality(S) \in Nat /\ \A x \in S : x \in Nat
  BY LevelFacts, FS_Subset, FS_CardinalityType
<1>2. \A x, y \in S : <<x, y>> \in NumberOrder <=> x < y
  BY <1>1 DEF NumberOrder
<1>3. Orders(NumberOrder, S)
  <2> HIDE DEF NumberOrder
  <2> QED
    BY <1>1, <1>2 DEF Orders
<1>4. \A x \in S : {y \in S : y < x} = Earlier(NumberOrder, S, x)
  BY <1>2 DEF Earlier
<1>5. FirstOf(S, n) = FirstIn(NumberOrder, S, n)
  BY <1>4 DEF FirstOf, FirstIn
<1>6. /\ FirstOf(S, n) \subseteq S
      /\ Cardinality(FirstOf(S, n)) \in Nat /\ Cardinality(FirstOf(S, n)) <= n
      /\ Cardinality(FirstOf(S, n)) <= Cardinality(S)
      /\ FirstOf(S, n) # S => Cardinality(FirstOf(S, n)) = n
      /\ \A y \in FirstOf(S, n), x \in S \ FirstOf(S, n) : <<y, x>> \in NumberOrder
  <2> HIDE DEF NumberOrder
  <2> QED
    BY <1>1, <1>3, <1>5, CutIsFull
<1> QED
  BY <1>1, <1>6 DEF NumberOrder

\* A search finds all that matched, or as many as it looks for.
LEMMA SearchFinds ==
    ASSUME ExplorerInv, Loading, NEW q \in SearchQueries, NEW found,
           found = Take(q, Reads(q) \cap Existing),
           view'.seen[q] = found, view'.start = view.start, view'.touched = view.touched,
           view'.hits = view.hits \cup {<<x, Score[x][entry[x].label]>> : x \in found},
           entry' = entry
    PROVE  Finds(q)'
<1>1. PICK S : S = {x \in Reads(q) \cap Existing : Matches(x)}
  OBVIOUS
<1>2. q \notin {"rows", "products"}
  BY DEF SearchQueries
<1>3. found = FirstOf(S, SearchLimit + 1)
  BY <1>1, <1>2 DEF Take
<1>4. S \in SUBSET Entries
  BY <1>1 DEF Existing
<1>5. /\ found \subseteq S /\ (found # S => Cardinality(found) > SearchLimit)
      /\ \A y \in found, x \in S \ found : y < x
  <2>1. PICK n : n = SearchLimit + 1
    OBVIOUS
  <2>2. n \in Nat /\ n > SearchLimit
    BY <2>1, LevelFacts
  <2>3. found = FirstOf(S, n)
    BY <1>3, <2>1
  <2>4. /\ found \subseteq S /\ (found # S => Cardinality(found) = n)
        /\ \A y \in found, x \in S \ found : y < x
    BY <1>4, <2>2, <2>3, FirstOfIsFull
  <2> QED
    BY <2>2, <2>4
<1>6. \A x \in found : Score[x][entry[x].label] \in 0..4
  <2>1. \A x \in Entries : Score[x][entry[x].label] \in 0..5
    <3>1. Score \in [Entries -> [Labels -> 0..5]]
      BY Zenon, CatalogueAssumption DEF CatalogueAssumption
    <3>2. \A x \in Entries : entry[x].label \in Labels
      BY DEF ExplorerInv, CatalogueTypeOK
    <3> QED
      BY <3>1, <3>2
  <2>2. \A x \in found : x \in Entries /\ Matches(x)
    BY <1>1, <1>4, <1>5
  <2>3. \A x \in found : Score[x][entry[x].label] \in 0..5 /\ Score[x][entry[x].label] < 5
    BY <2>1, <2>2 DEF Matches
  <2>4. \A s \in 0..5 : s < 5 => s \in 0..4
    OBVIOUS
  <2> QED
    BY ONLY <2>3, <2>4
<1>7. \A x \in found : \E s \in 0..4 : <<x, s>> \in view'.hits
  BY <1>6
<1>8. ASSUME NEW x \in view'.start \ view'.touched, LevelQuery(x) = q, Matches(x), x \notin found
      PROVE  Cardinality(found) > SearchLimit /\ \A y \in found : y < x
  <2>1. x \in Existing /\ x \in Entries
    BY <1>8 DEF Loading, Existing
  <2>2. x \in Reads(q)
    BY <1>8, <2>1, LevelsApart DEF LevelQuery, Reads, Entries
  <2>3. found # S /\ x \in S \ found
    BY <1>1, <1>8, <2>1, <2>2
  <2> QED
    BY <1>5, <2>3
<1>9. \A x : Matches(x)' <=> Matches(x)
  BY DEF Matches
<1> QED
  BY <1>7, <1>8, <1>9 DEF Finds, LevelQuery

LEMMA AnswerKeeps ==
    ASSUME ExplorerInv, NEW q \in PageQueries, AnswerQuery(q)
    PROVE  ExplorerInv'
<1>1. PICK found : found = Take(q, Reads(q) \cap Existing)
  OBVIOUS
<1>2. PICK H : H = IF q \in SearchQueries THEN view.hits \cup {<<x, Score[x][entry[x].label]>> : x \in found}
                   ELSE view.hits
  OBVIOUS
<1>3. /\ view' = [view EXCEPT !.answered = view.answered \cup {q}, !.seen[q] = found, !.hits = H]
      /\ entry' = entry /\ q \in Asked \ view.answered
  BY <1>1, <1>2 DEF AnswerQuery, ExplorerInv, CatalogueTypeOK, View
<1>4. view \in View /\ Existing \in SUBSET Entries
  BY DEF ExplorerInv, CatalogueTypeOK, Existing
<1>5. found \in SUBSET Existing
  <2>1. PICK S : S = Reads(q) \cap Existing
    OBVIOUS
  <2>2. \A T, n : FirstOf(T, n) \subseteq T
    BY DEF FirstOf
  <2>3. Take(q, S) \subseteq S
    BY <2>2 DEF Take
  <2> QED
    BY <1>1, <2>1, <2>3
<1>6. H \in SUBSET (Entries \X (0..4)) /\ view.hits \subseteq H
  <2>1. CASE q \in SearchQueries
    <3>1. \A x \in found : x \in Entries /\ Score[x][entry[x].label] \in 0..4
      <4>1. Score \in [Entries -> [Labels -> 0..5]]
        BY Zenon, CatalogueAssumption DEF CatalogueAssumption
      <4>2. \A x \in Entries : entry[x].label \in Labels
        BY DEF ExplorerInv, CatalogueTypeOK
      <4>3. \A x \in found : x \in Entries /\ Matches(x)
        <5>1. q \notin {"rows", "products"}
          BY <2>1 DEF SearchQueries
        <5>2. found \subseteq {x \in Reads(q) \cap Existing : Matches(x)}
          BY <1>1, <2>1, <5>1 DEF Take, FirstOf
        <5> QED
          BY <1>4, <5>2
      <4>4. \A x \in found : Score[x][entry[x].label] \in 0..5 /\ Score[x][entry[x].label] < 5
        BY <4>1, <4>2, <4>3 DEF Matches
      <4> QED
        BY <4>3, <4>4
    <3> QED
      BY <1>2, <1>4, <2>1, <3>1 DEF View
  <2> QED
    BY <1>2, <1>4, <2>1 DEF View
<1>7. /\ view' \in View /\ view'.answered = view.answered \cup {q} /\ view'.hits = H
      /\ view'.seen = [view.seen EXCEPT ![q] = found] /\ view'.mode = view.mode
      /\ view'.sel = view.sel /\ view'.open = view.open /\ view'.start = view.start
      /\ view'.touched = view.touched
  BY <1>3, <1>4, <1>5, <1>6 DEF View
<1>8. Existing' = Existing
  BY <1>3 DEF Existing
<1>9. view.mode # "none" => Loading'
  <2> SUFFICES ASSUME view.mode # "none" PROVE Loading'
    OBVIOUS
  <2>1. Loading
    BY DEF ExplorerInv
  <2>2. InTurn'
    BY <1>7, <2>1, AnswerInTurn
  <2>3. \A r \in view.answered \cup {q} : Reads(r)' = Reads(r)
    BY <1>7, <2>1, <2>2, ReadsStandStill
  <2>4. view'.seen[q] = found /\ \A r \in PageQueries \ {q} : view'.seen[r] = view.seen[r]
    BY <1>4, <1>7 DEF View
  <2>5. ASSUME NEW r \in view'.answered \ SearchQueries PROVE SnapshotOf(r)'
    <3>1. \A S : Take(r, S)' = Take(r, S)
      BY <2>5 DEF Take
    <3>2. r \in view.answered \cup {q} /\ r \in PageQueries
      BY <1>7 DEF View
    <3>3. \E E \in SUBSET Existing : view.start \subseteq E /\ view'.seen[r] = Take(r, Reads(r) \cap E)
      <4>1. CASE r = q
        <5>1. view.start \subseteq Existing
          BY <2>1 DEF Loading
        <5> QED
          BY <1>1, <2>4, <4>1, <5>1
      <4>2. CASE r # q
        BY <2>1, <2>4, <2>5, <3>2, <4>2 DEF Loading, SnapshotOf
      <4> QED
        BY <4>1, <4>2
    <3>4. PICK E \in SUBSET Existing : view.start \subseteq E /\ view'.seen[r] = Take(r, Reads(r) \cap E)
      BY <3>3
    <3>5. E \in SUBSET Existing' /\ view'.start \subseteq E /\ view'.seen[r] = Take(r, Reads(r)' \cap E)
      BY <1>7, <1>8, <2>3, <3>2, <3>4
    <3> QED
      BY <3>1, <3>5 DEF SnapshotOf
  <2>6. ASSUME NEW r \in view'.answered \cap SearchQueries PROVE Finds(r)'
    <3>1. CASE r = q
      <4>1. q \in SearchQueries /\ H = view.hits \cup {<<x, Score[x][entry[x].label]>> : x \in found}
        BY <1>2, <2>6, <3>1
      <4> QED
        BY <1>1, <1>3, <1>7, <2>1, <2>4, <3>1, <4>1, SearchFinds
    <3>2. CASE r # q
      <4>1. Finds(r) /\ view'.seen[r] = view.seen[r]
        BY <1>7, <2>1, <2>4, <2>6, <3>2 DEF Loading, View
      <4>2. \A x : (Matches(x)' <=> Matches(x)) /\ entry'[x] = entry[x]
        BY <1>3 DEF Matches
      <4> QED
        BY <1>6, <1>7, <4>1, <4>2 DEF Finds, LevelQuery
    <3> QED
      BY <3>1, <3>2
  <2> QED
    BY <1>7, <1>8, <2>1, <2>2, <2>5, <2>6 DEF Loading, ParentsIn
<1> QED
  BY <1>3, <1>7, <1>8, <1>9 DEF ExplorerInv, CatalogueTypeOK, ParentsIn

LEMMA ExplorerNext == ExplorerInv /\ [CatalogueNext]_catalogueVars => ExplorerInv'
<1> SUFFICES ASSUME ExplorerInv, [CatalogueNext]_catalogueVars PROVE ExplorerInv'
  OBVIOUS
<1>1. CASE UNCHANGED catalogueVars
  <2>1. entry' = entry /\ view' = view
    BY <1>1 DEF catalogueVars
  <2>2. Existing' = Existing /\ (InTurn' <=> InTurn) /\ \A x : (Matches(x)' <=> Matches(x))
    BY <2>1 DEF Existing, InTurn, Matches
  <2>3. \A q : Reads(q)' = Reads(q)
    BY <2>1 DEF Reads, Opened
  <2>4. \A q \in PageQueries \ SearchQueries : \A S : Take(q, S)' = Take(q, S)
    BY DEF Take
  <2>5. \A q \in PageQueries \ SearchQueries : SnapshotOf(q) => SnapshotOf(q)'
    BY <2>1, <2>2, <2>3, <2>4 DEF SnapshotOf
  <2>6. \A q : Finds(q) => Finds(q)'
    BY <2>1, <2>2 DEF Finds, LevelQuery
  <2>7. view.answered \subseteq PageQueries
    BY DEF ExplorerInv, CatalogueTypeOK, View
  <2>8. view.mode # "none" => Loading'
    BY <2>1, <2>2, <2>5, <2>6, <2>7 DEF ExplorerInv, Loading, ParentsIn
  <2> QED
    BY <2>1, <2>2, <2>8 DEF ExplorerInv, CatalogueTypeOK, ParentsIn
<1> QED
  BY <1>1, WritesKeep, OpenKeeps, AnswerKeeps DEF CatalogueNext

-------------------------------------------------------------------------------
\* The children of a branch that were seen are no fewer than were there, and no more than are.
Between(S, b) == Children(b) \cap view.start \subseteq S /\ S \subseteq Children(b) \cap Existing

LEMMA SeenInTime ==
    ASSUME ExplorerInv, view.mode # "none", NEW q \in view.answered \ (SearchQueries \cup {"rows", "products"})
    PROVE  /\ view.seen[q] \subseteq Reads(q) \cap Existing
           /\ Reads(q) \cap view.start \subseteq view.seen[q]
<1>1. PICK E \in SUBSET Existing : view.start \subseteq E /\ view.seen[q] = Take(q, Reads(q) \cap E)
  BY DEF ExplorerInv, Loading, SnapshotOf
<1>2. \A S : Take(q, S) = S
  BY DEF Take
<1> QED
  BY <1>1, <1>2

LEMMA Unfolds ==
    ASSUME ExplorerInv, Drawn, view.mode = "tree"
    PROVE  /\ \A p \in ProductRows \cap Opened : Between(view.seen["modules"] \cap Children(p), p)
           /\ \A p \in ProductRows : Between(view.seen["moduleCounts"] \cap Children(p), p)
           /\ \A m \in ModuleRows \cap Opened : Between(view.seen["features"] \cap Children(m), m)
           /\ \A m \in view.seen["modules"] : Between(view.seen["featureCounts"] \cap Children(m), m)
           /\ Between(view.seen["productTotal"], NoEntry)
<1>1. TreeQueries \subseteq view.answered
  BY DEF Drawn, Asked
<1>2. {"modules", "moduleCounts", "features", "featureCounts", "productTotal"}
        \subseteq view.answered \ (SearchQueries \cup {"rows", "products"})
  BY <1>1 DEF TreeQueries, SearchQueries
<1>3. \A q \in {"modules", "moduleCounts", "features", "featureCounts", "productTotal"} :
          view.seen[q] \subseteq Reads(q) \cap Existing /\ Reads(q) \cap view.start \subseteq view.seen[q]
  BY <1>2, SeenInTime
<1>4. /\ Reads("modules") = UNION {Children(p) : p \in Opened \cap ProductRows}
      /\ Reads("moduleCounts") = ModuleRows
      /\ Reads("features") = UNION {Children(m) : m \in Opened \cap ModuleRows}
      /\ Reads("featureCounts") = UNION {Children(m) : m \in view.seen["modules"]}
      /\ Reads("productTotal") = ProductRows
  BY DEF Reads
<1>5. \A p \in ProductRows \cap Opened : Between(view.seen["modules"] \cap Children(p), p)
  BY <1>3, <1>4 DEF Between
<1>6. \A p \in ProductRows : Between(view.seen["moduleCounts"] \cap Children(p), p)
  BY <1>3, <1>4, Generations DEF Between
<1>7. \A m \in ModuleRows \cap Opened : Between(view.seen["features"] \cap Children(m), m)
  BY <1>3, <1>4 DEF Between
<1>8. \A m \in view.seen["modules"] : Between(view.seen["featureCounts"] \cap Children(m), m)
  BY <1>3, <1>4 DEF Between
<1>9. Between(view.seen["productTotal"], NoEntry)
  BY <1>3, <1>4, Generations DEF Between
<1> QED
  BY <1>5, <1>6, <1>7, <1>8, <1>9

\* A branch adds up: its rows are all that was seen of it or more than are drawn, and the count
\* of it is between what was there and what is.
LEMMA BranchAddsUp ==
    ASSUME ExplorerInv, NEW b, NEW rows \in SUBSET Existing, NEW total \in SUBSET Existing,
           Cardinality(rows) <= ChildLimit => Between(rows, b),
           rows \subseteq Children(b) \cap Existing,
           Cardinality(rows) > ChildLimit => Between(total, b),
           NEW n, n = IF Cardinality(rows) <= ChildLimit THEN Cardinality(rows) ELSE Cardinality(total)
    PROVE  LET claimed == Cardinality(OnScreen(rows)) + Hidden(rows, n)
           IN  /\ Cardinality(Children(b) \cap view.start) <= claimed
               /\ claimed <= Cardinality(Children(b) \cap Existing)
<1>1. Existing \in SUBSET Entries /\ IsFiniteSet(Entries) /\ ChildLimit \in Nat
  BY LevelFacts DEF Existing
<1>2. PICK A, B, R, T : A = Children(b) \cap view.start /\ B = Children(b) \cap Existing
                        /\ R = Cardinality(rows) /\ T = Cardinality(total)
  OBVIOUS
<1>3. A \in SUBSET Entries /\ B \in SUBSET Entries
  BY <1>1, <1>2 DEF Children
<1>4. /\ IsFiniteSet(A) /\ IsFiniteSet(B) /\ IsFiniteSet(rows) /\ IsFiniteSet(total)
      /\ Cardinality(A) \in Nat /\ Cardinality(B) \in Nat /\ R \in Nat /\ T \in Nat
  BY <1>1, <1>2, <1>3, FS_Subset, FS_CardinalityType
<1>5. R <= Cardinality(B)
  BY <1>2, <1>4, FS_Subset
<1>6. PICK d : d = Cardinality(OnScreen(rows))
  OBVIOUS
<1>7. d \in Nat /\ d <= ChildLimit /\ d <= R /\ (OnScreen(rows) # rows => d = ChildLimit)
  BY <1>1, <1>2, <1>6, FirstOfIsFull DEF OnScreen
<1>8. CASE R <= ChildLimit
  <2>1. Hidden(rows, n) = 0
    BY <1>2, <1>8 DEF Hidden
  <2>2. d = R
    BY <1>1, <1>2, <1>4, <1>6, <1>7, <1>8
  <2>3. Cardinality(A) <= R
    BY <1>2, <1>4, <1>8, FS_Subset DEF Between
  <2> QED
    BY <1>2, <1>4, <1>5, <1>6, <2>1, <2>2, <2>3
<1>9. CASE R > ChildLimit
  <2>1. n = T
    BY <1>1, <1>2, <1>4, <1>9
  <2>2. A \subseteq total /\ total \subseteq B
    BY <1>2, <1>9 DEF Between
  <2>3. Cardinality(A) <= T /\ T <= Cardinality(B)
    BY <1>2, <1>4, <2>2, FS_Subset
  <2>4. d = ChildLimit
    BY <1>1, <1>2, <1>4, <1>6, <1>7, <1>9
  <2>5. Hidden(rows, n) = Max({0, T - d})
    BY <1>1, <1>2, <1>4, <1>6, <1>9, <2>1 DEF Hidden
  <2>6. Max({0, T - d}) = IF T >= d THEN T - d ELSE 0
    BY <1>4, <1>7 DEF Max
  <2> QED
    BY <1>1, <1>2, <1>4, <1>5, <1>6, <1>7, <1>9, <2>3, <2>4, <2>5, <2>6
<1> QED
  BY <1>1, <1>4, <1>8, <1>9

LEMMA TreeAdds == ExplorerInv => TreeAddsUp
<1> SUFFICES ASSUME ExplorerInv, Drawn, view.mode = "tree",
                    NEW b \in {NoEntry} \cup DrawnProducts \cup DrawnModules
             PROVE  LET claimed == Cardinality(OnScreen(Fetched(b))) + Hidden(Fetched(b), Counted(b))
                    IN  /\ Cardinality(Children(b) \cap view.start) <= claimed
                        /\ claimed <= Cardinality(Children(b) \cap Existing)
  BY DEF TreeAddsUp
<1>1. PICK rows : rows = Fetched(b)
  OBVIOUS
<1>2. PICK n : n = Counted(b)
  OBVIOUS
<1>a. \A S : OnScreen(S) \subseteq S
  BY DEF OnScreen, FirstOf
<1>b. ChildLimit \in Nat /\ view.mode # "none"
  BY LevelFacts
<1>c. ASSUME NEW S, Between(S, b) PROVE S \in SUBSET Existing
  BY <1>c DEF Between
<1>e. NoEntry \notin Entries /\ ProductRows \cap ModuleRows = {} /\ ProductRows \subseteq Entries
      /\ ModuleRows \subseteq Entries
  BY LevelFacts, LevelsApart DEF Entries
<1>z. Fetched(NoEntry) = view.seen["products"]
  BY <1>e DEF Fetched
<1>3. CASE b = NoEntry
  <2>1. rows = view.seen["products"]
    BY <1>1, <1>3, <1>z
  <2>2. PICK total : total = view.seen["productTotal"]
    OBVIOUS
  <2>3. Between(total, b)
    BY <1>3, <2>2, Unfolds
  <2>4. "products" \in view.answered \ SearchQueries
    BY DEF Drawn, Asked, TreeQueries, SearchQueries
  <2>5. PICK E \in SUBSET Existing : view.start \subseteq E /\ rows = FirstOf(ProductRows \cap E, ChildLimit + 1)
    <3>1. SnapshotOf("products")
      BY <1>b, <2>4 DEF ExplorerInv, Loading
    <3> QED
      BY <2>1, <3>1 DEF SnapshotOf, Take, Reads, SearchQueries
  <2>6. PICK S, m : S = ProductRows \cap E /\ m = ChildLimit + 1
    OBVIOUS
  <2>7. S \in SUBSET Entries /\ m \in Nat /\ m > ChildLimit
    BY <1>b, <2>6 DEF Entries
  <2>8. rows \subseteq S /\ (rows # S => Cardinality(rows) = m)
    BY <2>5, <2>6, <2>7, FirstOfIsFull
  <2>9. Children(b) = ProductRows
    BY <1>3, Generations
  <2>10. rows \subseteq Children(b) \cap Existing
    BY <2>5, <2>6, <2>8, <2>9
  <2>11. Cardinality(rows) <= ChildLimit => Between(rows, b)
    <3>1. Cardinality(rows) <= ChildLimit => rows = S
      BY <1>b, <2>7, <2>8
    <3> QED
      BY <2>5, <2>6, <2>9, <2>10, <3>1 DEF Between
  <2>12. n = IF Cardinality(rows) <= ChildLimit THEN Cardinality(rows) ELSE Cardinality(total)
    BY <1>1, <1>2, <1>3, <1>e, <2>2 DEF Counted
  <2> QED
    BY <1>1, <1>2, <1>c, <2>3, <2>10, <2>11, <2>12, BranchAddsUp
<1>d. ASSUME NEW total, Between(rows, b), Between(total, b), n = Cardinality(total)
      PROVE  LET claimed == Cardinality(OnScreen(Fetched(b))) + Hidden(Fetched(b), Counted(b))
             IN  /\ Cardinality(Children(b) \cap view.start) <= claimed
                 /\ claimed <= Cardinality(Children(b) \cap Existing)
  <2>1. PICK k : k = IF Cardinality(rows) <= ChildLimit THEN Cardinality(rows) ELSE Cardinality(total)
    OBVIOUS
  <2>2. Hidden(rows, n) = Hidden(rows, k)
    BY <1>d, <2>1 DEF Hidden
  <2>3. rows \subseteq Children(b) \cap Existing /\ rows \in SUBSET Existing /\ total \in SUBSET Existing
    BY <1>d DEF Between
  <2>4. LET claimed == Cardinality(OnScreen(rows)) + Hidden(rows, k)
        IN  /\ Cardinality(Children(b) \cap view.start) <= claimed
            /\ claimed <= Cardinality(Children(b) \cap Existing)
    BY <1>d, <2>1, <2>3, BranchAddsUp
  <2> QED
    BY <1>1, <1>2, <2>2, <2>4
<1>f. view.seen["products"] \subseteq ProductRows
  <2>1. "products" \in view.answered \ SearchQueries
    BY DEF Drawn, Asked, TreeQueries, SearchQueries
  <2>2. SnapshotOf("products")
    BY <1>b, <2>1 DEF ExplorerInv, Loading
  <2> QED
    BY <2>2 DEF SnapshotOf, Take, Reads, FirstOf, SearchQueries
<1>g. \A p \in DrawnProducts : p \in ProductRows /\ p \in Opened
  BY <1>a, <1>f, <1>z DEF DrawnProducts
<1>4. CASE b \in DrawnProducts
  <2>1. b \in ProductRows /\ b \in Opened /\ b # NoEntry
    BY <1>4, <1>e, <1>g
  <2>2. rows = view.seen["modules"] \cap Children(b)
    BY <1>1, <2>1 DEF Fetched
  <2>3. n = Cardinality(view.seen["moduleCounts"] \cap Children(b))
    BY <1>2, <2>1 DEF Counted
  <2> QED
    BY <1>d, <2>1, <2>2, <2>3, Unfolds
<1>5. CASE b \in DrawnModules
  <2>1. PICK p \in DrawnProducts : b \in Fetched(p) /\ b \in Opened
    BY <1>5, <1>a DEF DrawnModules
  <2>2. p \in ProductRows /\ p # NoEntry
    BY <1>e, <1>g
  <2>3. b \in view.seen["modules"] /\ b \in Children(p)
    BY <2>1, <2>2 DEF Fetched
  <2>4. b \in ModuleRows /\ b \notin ProductRows /\ b # NoEntry
    BY <1>e, <2>2, <2>3, Generations
  <2>5. rows = view.seen["features"] \cap Children(b)
    BY <1>1, <2>4 DEF Fetched
  <2>6. n = Cardinality(view.seen["featureCounts"] \cap Children(b))
    BY <1>2, <2>4 DEF Counted
  <2> QED
    BY <1>d, <2>1, <2>3, <2>4, <2>5, <2>6, Unfolds
<1> QED
  BY <1>3, <1>4, <1>5

LEMMA PanelAdds == ExplorerInv => PanelAddsUp
<1> DEFINE rows == view.seen["rows"]
           all == view.seen["childTotal"]
           below == IF view.sel \in ProductRows THEN "featureTotal" ELSE "requirementTotal"
           counts == view.seen["rowCounts"]
<1> SUFFICES ASSUME ExplorerInv, Drawn, ~NotFound, view.sel \in Branches
             PROVE  /\ Cardinality(rows) < PanelSize => (rows \ all) \cup (all \ rows) \subseteq view.touched
                    /\ rows = all =>
                          (counts \ view.seen[below]) \cup (view.seen[below] \ counts) \subseteq view.touched
  BY DEF PanelAddsUp
<1>1. /\ view.mode # "none" /\ view.sel \in ProductRows \cup ModuleRows
      /\ view.start \subseteq Existing /\ Existing \subseteq view.start \cup view.touched
      /\ ParentsIn(view.start) /\ NoEntry \notin Entries
  BY LevelFacts DEF Drawn, Branches, ExplorerInv, Loading
<1>2. {"rows", "childTotal", "rowCounts", below} \subseteq view.answered \ SearchQueries
  <2>1. Detail(view.sel) \subseteq view.answered
    BY DEF Drawn, Asked
  <2>2. {"rows", "childTotal", "rowCounts", below} \subseteq Detail(view.sel)
    BY <1>1, LevelsApart DEF Detail, ProductDetail, ModuleDetail
  <2>3. {"rows", "childTotal", "rowCounts", "featureTotal", "requirementTotal"} \cap SearchQueries = {}
    BY DEF SearchQueries
  <2> QED
    BY <2>1, <2>2, <2>3
<1>3. PICK C : C = Children(view.sel)
  OBVIOUS
<1>4. PICK n : n = PanelSize
  OBVIOUS
<1>5. PICK E1 \in SUBSET Existing : view.start \subseteq E1 /\ rows = FirstOf(C \cap E1, n)
  <2>1. SnapshotOf("rows")
    BY <1>1, <1>2 DEF ExplorerInv, Loading
  <2> QED
    BY <1>3, <1>4, <2>1 DEF SnapshotOf, Take, Reads, SearchQueries
<1>6. all \subseteq C \cap Existing /\ C \cap view.start \subseteq all
  <2>1. "childTotal" \in view.answered \ (SearchQueries \cup {"rows", "products"})
    BY <1>2
  <2>2. Reads("childTotal") = C
    BY <1>3 DEF Reads
  <2> QED
    BY <1>1, <2>1, <2>2, SeenInTime
<1>7. ASSUME Cardinality(rows) < PanelSize PROVE (rows \ all) \cup (all \ rows) \subseteq view.touched
  <2>1. PICK S : S = C \cap E1
    OBVIOUS
  <2>2. S \in SUBSET Entries /\ n \in Nat /\ rows = FirstOf(S, n)
    BY <1>3, <1>4, <1>5, <2>1, LevelFacts DEF Children
  <2>3. rows # S => Cardinality(rows) = n
    BY <2>2, FirstOfIsFull
  <2>4. rows = S
    BY <1>4, <1>7, <2>2, <2>3
  <2>5. \A x \in (S \ all) \cup (all \ S) : x \in Existing /\ x \notin view.start
    BY <1>3, <1>5, <1>6, <2>1
  <2> QED
    BY <1>1, <2>4, <2>5
<1>8. ASSUME rows = all
      PROVE  (counts \ view.seen[below]) \cup (view.seen[below] \ counts) \subseteq view.touched
  <2>1. PICK G : G = Grandchildren(view.sel)
    OBVIOUS
  <2>2. Reads("rowCounts") = UNION {Children(y) : y \in rows}
    BY DEF Reads
  <2>3. Reads(below) = G
    BY <1>1, <2>1, LevelsApart DEF Reads
  <2>4. /\ counts \subseteq Reads("rowCounts") \cap Existing
        /\ Reads("rowCounts") \cap view.start \subseteq counts
    <3>1. "rowCounts" \in view.answered \ (SearchQueries \cup {"rows", "products"})
      BY <1>2
    <3> QED
      BY <1>1, <3>1, SeenInTime
  <2>5. view.seen[below] \subseteq G \cap Existing /\ G \cap view.start \subseteq view.seen[below]
    <3>1. below \in view.answered \ (SearchQueries \cup {"rows", "products"})
      BY <1>2
    <3> HIDE DEF below
    <3> QED
      BY <1>1, <2>3, <3>1, SeenInTime
  <2>6. G = UNION {Children(y) : y \in C}
    BY <1>3, <2>1 DEF Grandchildren
  <2>7. rows \subseteq C
    BY <1>6, <1>8
  <2>8. ASSUME NEW z \in view.seen[below] \ counts PROVE z \in view.touched
    <3>1. z \in Existing /\ z \in G
      BY <2>5, <2>8
    <3>2. PICK y \in C : z \in Children(y)
      BY <2>6, <3>1
    <3>3. CASE z \in view.start
      <4>1. y \in view.start
        <5>1. ParentOf[z] = y /\ y \in Entries
          BY <1>3, <3>2 DEF Children
        <5> QED
          BY <1>1, <3>3, <5>1 DEF ParentsIn
      <4>2. y \in rows
        BY <1>6, <1>8, <4>1
      <4> QED
        BY <2>2, <2>4, <2>8, <3>2, <3>3, <4>2
    <3> QED
      BY <1>1, <3>1, <3>3
  <2>9. ASSUME NEW z \in counts \ view.seen[below] PROVE z \in view.touched
    <3>1. z \in Existing /\ z \in G
      BY <2>2, <2>4, <2>6, <2>7, <2>9
    <3> QED
      BY <1>1, <2>5, <2>9, <3>1
  <2> QED
    BY <2>8, <2>9
<1> QED
  BY <1>7, <1>8

\* The order of the hits.
HitOrder == {r \in (Entries \X (0..4)) \X (Entries \X (0..4)) : Outranks(r[1], r[2])}

LEMMA HitsAreOrdered ==
    ASSUME NEW H \in SUBSET (Entries \X (0..4))
    PROVE  /\ IsFiniteSet(H) /\ Orders(HitOrder, H)
           /\ \A h, k \in H : <<h, k>> \in HitOrder <=> Outranks(h, k)
<1>1. \A h \in H : h = <<h[1], h[2]>> /\ h[1] \in Nat /\ h[2] \in Nat
  <2>1. \A h \in H : h = <<h[1], h[2]>> /\ h[1] \in Entries /\ h[2] \in 0..4
    OBVIOUS
  <2>2. 0..4 \subseteq Nat /\ Entries \subseteq Nat
    BY LevelFacts
  <2> QED
    BY ONLY <2>1, <2>2
<1>2. \A h, k \in H : <<h, k>> \in HitOrder <=> Outranks(h, k)
  BY DEF HitOrder
<1>3. /\ \A h \in H : ~Outranks(h, h)
      /\ \A h, k, l \in H : Outranks(h, k) /\ Outranks(k, l) => Outranks(h, l)
      /\ \A h, k \in H : h = k \/ Outranks(h, k) \/ Outranks(k, h)
  BY <1>1 DEF Outranks
<1>4. Orders(HitOrder, H)
  BY <1>2, <1>3 DEF Orders
<1>5. IsFiniteSet(H)
  <2>1. IsFiniteSet(0..4)
    <3>1. 0 \in Int /\ 4 \in Int
      OBVIOUS
    <3> QED
      BY <3>1, FS_Interval
  <2>2. IsFiniteSet(Entries \X (0..4))
    BY <2>1, LevelFacts, FS_Product
  <2> QED
    BY <2>2, FS_Subset
<1> QED
  BY <1>2, <1>4, <1>5

\* There are at least as many hits as records that are hit.
LEMMA HitsCount ==
    ASSUME NEW H \in SUBSET (Entries \X (0..4)), NEW S, \A x \in S : \E s \in 0..4 : <<x, s>> \in H
    PROVE  IsFiniteSet(S) /\ Cardinality(S) <= Cardinality(H)
<1> DEFINE T == {h[1] : h \in H}
           f == [h \in H |-> h[1]]
<1>1. IsFiniteSet(H) /\ Cardinality(H) \in Nat
  BY HitsAreOrdered, FS_CardinalityType
<1>2. f \in Surjection(H, T)
  BY DEF Surjection
<1>3. S \in SUBSET T
  <2>1. ASSUME NEW x \in S PROVE x \in T
    <3>1. PICK s \in 0..4 : <<x, s>> \in H
      OBVIOUS
    <3>2. <<x, s>>[1] = x
      OBVIOUS
    <3> QED
      BY <3>1, <3>2
  <2> QED
    BY <2>1
<1>4. IsFiniteSet(T) /\ Cardinality(T) <= Cardinality(H) /\ Cardinality(T) \in Nat
  <2> HIDE DEF T, f
  <2> QED
    BY <1>1, <1>2, FS_Surjection, FS_CardinalityType
<1>5. IsFiniteSet(S) /\ Cardinality(S) <= Cardinality(T) /\ Cardinality(S) \in Nat
  <2> HIDE DEF T
  <2> QED
    BY <1>3, <1>4, FS_Subset, FS_CardinalityType
<1> HIDE DEF T
<1> QED
  BY <1>1, <1>4, <1>5

LEMMA SearchHides == ExplorerInv => SearchHidesNothing
<1> SUFFICES ASSUME ExplorerInv, Drawn, view.mode = "search",
                    NEW x \in view.start \ view.touched, Matches(x),
                    <<x, Score[x][entry[x].label]>> \notin Ranked
             PROVE  /\ Truncated
                    /\ \/ \A k \in Ranked : ~Outranks(<<x, Score[x][entry[x].label]>>, k)
                       \/ BehindItsLevel(x)
  BY DEF SearchHidesNothing
<1>1. PICK hit, H, q, n : /\ hit = <<x, Score[x][entry[x].label]>> /\ H = view.hits /\ q = LevelQuery(x)
                          /\ n = SearchLimit
  OBVIOUS
<1>2. H \in SUBSET (Entries \X (0..4)) /\ n \in Nat
  BY <1>1, LevelFacts DEF ExplorerInv, CatalogueTypeOK, View
<1>3. IsFiniteSet(H) /\ Cardinality(H) \in Nat /\ Orders(HitOrder, H)
      /\ \A h, k \in H : <<h, k>> \in HitOrder <=> Outranks(h, k)
  BY <1>2, HitsAreOrdered, FS_CardinalityType
<1>4. Ranked = FirstIn(HitOrder, H, n)
  <2>1. \A h \in H : {k \in H : Outranks(k, h)} = Earlier(HitOrder, H, h)
    BY <1>3 DEF Earlier
  <2> QED
    BY <1>1, <2>1 DEF Ranked, FirstIn
<1>5. /\ Ranked \subseteq H /\ Cardinality(Ranked) \in Nat /\ Cardinality(Ranked) <= Cardinality(H)
      /\ (Ranked # H => Cardinality(Ranked) = n)
      /\ \A k \in Ranked, h \in H \ Ranked : <<k, h>> \in HitOrder
  BY <1>2, <1>3, <1>4, CutIsFull
<1>6. q \in SearchQueries /\ q \in view.answered
  BY <1>1 DEF LevelQuery, SearchQueries, Drawn, Asked
<1>7. Finds(q)
  BY <1>6 DEF ExplorerInv, Loading, Drawn
<1>8. CASE x \in view.seen[q]
  <2>1. hit \in H \ Ranked
    BY <1>1, <1>7, <1>8 DEF Finds
  <2>2. \A k \in Ranked : ~Outranks(hit, k)
    <3> SUFFICES ASSUME NEW k \in Ranked, Outranks(hit, k) PROVE FALSE
      OBVIOUS
    <3>1. <<k, hit>> \in HitOrder /\ <<hit, k>> \in HitOrder /\ k \in H /\ hit \in H
      BY <1>3, <1>5, <2>1
    <3> QED
      BY <1>3, <3>1 DEF Orders
  <2>3. Cardinality(H) > n
    <3>1. Cardinality(Ranked) = n /\ Cardinality(H) # Cardinality(Ranked)
      BY <1>3, <1>5, <2>1, FS_Subset
    <3> QED
      BY <1>2, <1>3, <1>5, <3>1
  <2> QED
    BY <1>1, <2>2, <2>3 DEF Truncated
<1>9. CASE x \notin view.seen[q]
  <2>1. Cardinality(view.seen[q]) > n /\ BehindItsLevel(x)
    BY <1>1, <1>7, <1>9 DEF Finds, BehindItsLevel
  <2>2. IsFiniteSet(view.seen[q]) /\ Cardinality(view.seen[q]) <= Cardinality(H)
    BY <1>1, <1>2, <1>7, HitsCount DEF Finds
  <2>3. Cardinality(view.seen[q]) \in Nat
    BY <2>2, FS_CardinalityType
  <2> QED
    BY <1>1, <1>2, <1>3, <2>1, <2>2, <2>3 DEF Truncated
<1> QED
  BY <1>8, <1>9

\* What a page of the explorer draws, for any catalogue, any limits and any writes between its queries:
\* the children on screen and those counted as held back are the branch's, the panel's totals and
\* its rows are of the same records, and a search says that it was cut whenever it was.
THEOREM ExplorerDoesAddUp == CatalogueSpec => []ExplorerAddsUp
<1>1. ExplorerInv => ExplorerAddsUp
  BY TreeAdds, PanelAdds, SearchHides DEF ExplorerAddsUp
<1> QED
  BY <1>1, ExplorerInit, ExplorerNext, PTL DEF CatalogueSpec

\* Types of the catalogue and of a page that loads (domain/catalogue.ts).
THEOREM CatalogueTyped == CatalogueSpec => []CatalogueTypeOK
<1>1. ExplorerInv => CatalogueTypeOK
  BY DEF ExplorerInv
<1> QED
  BY <1>1, ExplorerInit, ExplorerNext, PTL DEF CatalogueSpec
====
