---- MODULE FinalizeDraft ----
(* Grading a run before it is finalized (the screen of one execution,          *)
(* FinalizeForm, finalize-draft.ts and finalizeExecutionAction).  There is no  *)
(* partial finalize, so the grades of a run under way are held by each browser *)
(* tab: in the memory of the page, and in its sessionStorage, which survives   *)
(* the page but may refuse to be written.                                      *)

EXTENDS Naturals, FiniteSets

CONSTANTS
    Covered,            \* test cases of the run
    Graders,            \* people who may act on it: its tester, and whoever is no QA_TESTER
    Windows,            \* browser tabs
    Outcomes,           \* PASS, FAIL, BLOCKED, each with what it rests on
    Ungraded,
    MaxSaves,           \* bound: grades saved
    MaxAdrift           \* bound: submits under way whose page is gone

ASSUME FinalizeDraftAssumption == {MaxSaves, MaxAdrift} \subseteq Nat /\ Ungraded \notin Outcomes \cup Covered

VARIABLES
    run,        \* the TestExecution row, its per-case results with it
    window,     \* window[w]: the tab w
    adrift,     \* submits under way whose page is gone
    saves,
    lastSaved,  \* history: lastSaved[w][c], the grade last saved for case c in tab w before the run
                \* was finalized
    lastSaver,  \* history: lastSaver[w][c], who saved it
    refused,    \* history: tabs whose storage refused a write
    handedOver, \* history: tabs in which one person followed another
    overtaken,  \* history: tabs in which a grade was saved while an earlier submit was under way
    finalizer   \* history: the tab and the person that finalized the run, as a set

draftVars == <<run, window, adrift, saves, lastSaved, lastSaver, refused, handedOver, overtaken,
               finalizer>>

\* Everything but the tabs.
recordVars == <<run, adrift, saves, lastSaved, lastSaver, refused, handedOver, overtaken, finalizer>>

Grades == [Covered -> Outcomes \cup {Ungraded}]

NothingGraded == [c \in Covered |-> Ungraded]

\* StoredDraft; version 0 for none.
Draft == [version : Nat, recorded : Grades]

NoDraft == [version |-> 0, recorded |-> NothingGraded]

WindowState ==
    [pc      : {"elsewhere", "working", "dialog", "submitted", "done", "readonly"},
     who     : Graders,
     version : Nat,                 \* of the run, as the screen was drawn
     memory  : Draft,               \* draftMemory: of this page, until it is loaded anew
     stored  : Draft,               \* sessionStorage: of this tab
     openId  : Covered \cup {Ungraded},
     posted  : Grades]

Post == [from : Windows, who : Graders, version : Nat, grades : Grades]

FinalizeDraftTypeOK ==
    /\ run \in [version : Nat, finalized : BOOLEAN, results : Grades]
    /\ window \in [Windows -> WindowState]
    /\ saves \in Nat
    /\ lastSaved \in [Windows -> Grades]
    /\ lastSaver \in [Windows -> [Covered -> Graders]]
    /\ adrift \subseteq Post
    /\ refused \subseteq Windows /\ handedOver \subseteq Windows /\ overtaken \subseteq Windows
    /\ finalizer \subseteq Windows \X Graders

Fresh(w, p) == [pc |-> "elsewhere", who |-> p, version |-> 0, memory |-> NoDraft,
                stored |-> NoDraft, openId |-> Ungraded, posted |-> NothingGraded]

-------------------------------------------------------------------------------
\* The draft

\* readDraftRaw
Held(w) == IF window[w].memory # NoDraft THEN window[w].memory ELSE window[w].stored

\* draftResults
Recorded(w) ==
    IF Held(w).version = window[w].version THEN Held(w).recorded ELSE NothingGraded

AllRecorded(w) == \A c \in Covered : Recorded(w)[c] # Ungraded

-------------------------------------------------------------------------------
\* The screen

\* executionDetail, and the form for a run In Progress.
Draw(w, cleared) ==
    window' = [window EXCEPT ![w].pc = IF run.finalized THEN "readonly" ELSE "working",
                             ![w].version = run.version,
                             ![w].memory = IF cleared THEN NoDraft ELSE window[w].memory,
                             ![w].openId = Ungraded]

\* The viewer comes to the run from another screen of the application, or goes back.
Visit(w) ==
    /\ window[w].pc = "elsewhere"
    /\ Draw(w, FALSE)
    /\ UNCHANGED recordVars

Leave(w) ==
    /\ window[w].pc \in {"working", "dialog", "readonly"}
    /\ window' = [window EXCEPT ![w].pc = "elsewhere", ![w].openId = Ungraded]
    /\ UNCHANGED recordVars

\* A reload: the page's memory is gone, with what was typed into an open dialog.
Reload(w) ==
    /\ window[w].pc \in {"working", "dialog", "readonly"}
    /\ Draw(w, TRUE)
    /\ UNCHANGED recordVars

\* Somebody signs out and another signs in, in the same tab.  Neither touches the draft.
HandOver(w, p) ==
    /\ window[w].pc = "elsewhere" /\ p # window[w].who
    /\ window' = [window EXCEPT ![w].who = p]
    /\ handedOver' = handedOver \cup {w}
    /\ UNCHANGED <<run, adrift, saves, lastSaved, lastSaver, refused, overtaken, finalizer>>

\* openForCase
OpenCase(w, c) ==
    /\ window[w].pc \in {"working", "dialog"}
    /\ window' = [window EXCEPT ![w].pc = "dialog", ![w].openId = c]
    /\ UNCHANGED recordVars

\* Mutant of Saved: the two halves of { ...recorded, [id]: draft } are exchanged.
SavedUnder(w, grade) ==
    [version |-> window[w].version,
     recorded |-> [Recorded(w) EXCEPT ![window[w].openId] =
                      IF Recorded(w)[window[w].openId] = Ungraded THEN grade
                      ELSE Recorded(w)[window[w].openId]]]

\* The draft that saveDraft writes.
Saved(w, grade) ==
    [version |-> window[w].version,
     recorded |-> [Recorded(w) EXCEPT ![window[w].openId] = grade]]

\* saveDraft and writeDraft: into memory always, into the storage if it can be written.  The
\* dialog lets no Fail through without a defect, and setOutcome no Pass with one.
SaveCase(w, grade) ==
    LET c == window[w].openId
    IN  /\ window[w].pc = "dialog"
        /\ saves < MaxSaves /\ saves' = saves + 1
        /\ \E taken \in BOOLEAN :
              /\ window' = [window EXCEPT ![w].pc = "working", ![w].openId = Ungraded,
                                          ![w].memory = Saved(w, grade),
                                          ![w].stored = IF taken THEN Saved(w, grade)
                                                        ELSE window[w].stored]
              /\ refused' = IF taken THEN refused ELSE refused \cup {w}
        /\ IF run.finalized THEN UNCHANGED <<lastSaved, lastSaver>>
           ELSE /\ lastSaved' = [lastSaved EXCEPT ![w][c] = grade]
                /\ lastSaver' = [lastSaver EXCEPT ![w][c] = window[w].who]
        /\ overtaken' = IF \E m \in adrift : m.from = w THEN overtaken \cup {w} ELSE overtaken
        /\ UNCHANGED <<run, adrift, handedOver, finalizer>>

-------------------------------------------------------------------------------
\* Finalizing

\* Submit is enabled once every case is recorded; every case is posted.
Submit(w) ==
    /\ window[w].pc = "working" /\ AllRecorded(w)
    /\ window' = [window EXCEPT ![w].pc = "submitted", ![w].posted = Recorded(w)]
    /\ UNCHANGED recordVars

Posted(w) == [from |-> w, who |-> window[w].who, version |-> window[w].version,
              grades |-> window[w].posted]

\* finalizeExecution, as far as its form can tell: the version holds, the run is In Progress, and
\* every case has a grade that may stand.
FinalizeRun(m) ==
    /\ ~run.finalized /\ run.version = m.version
    /\ \A c \in Covered : m.grades[c] # Ungraded
    /\ run' = [version |-> run.version + 1, finalized |-> TRUE, results |-> m.grades]
    /\ finalizer' = {<<m.from, m.who>>}
    /\ UNCHANGED <<saves, lastSaved, lastSaver, refused, handedOver, overtaken>>

Finalize(w) ==
    /\ window[w].pc = "submitted"
    /\ FinalizeRun(Posted(w))
    /\ window' = [window EXCEPT ![w].pc = "done"]
    /\ UNCHANGED adrift

\* The redirect after it: the screen is drawn anew.  The draft stays where it is.
Redirected(w) ==
    /\ window[w].pc = "done"
    /\ Draw(w, FALSE)
    /\ UNCHANGED recordVars

\* failState: somebody else was faster, or a rule refuses one case, whose dialog is opened.
\* Nothing is drawn anew.
Rejected(w) ==
    /\ window[w].pc = "submitted"
    /\ \/ window' = [window EXCEPT ![w].pc = "working"]
       \/ \E c \in Covered :
             window' = [window EXCEPT ![w].pc = "dialog", ![w].openId = c]
    /\ UNCHANGED recordVars

\* The answer is not waited for: the page is loaded anew, whatever becomes of the request.
Unanswered(w) ==
    /\ window[w].pc \in {"submitted", "done"} /\ Cardinality(adrift) < MaxAdrift
    /\ adrift' = IF window[w].pc = "submitted" THEN adrift \cup {Posted(w)} ELSE adrift
    /\ Draw(w, TRUE)
    /\ UNCHANGED <<run, saves, lastSaved, lastSaver, refused, handedOver, overtaken, finalizer>>

\* A request nobody waits for is carried out all the same, or not.
FinalizeLate(m) ==
    /\ m \in adrift
    /\ adrift' = adrift \ {m}
    /\ FinalizeRun(m)
    /\ UNCHANGED window

LoseLate(m) ==
    /\ m \in adrift
    /\ adrift' = adrift \ {m}
    /\ UNCHANGED <<run, window, saves, lastSaved, lastSaver, refused, handedOver, overtaken,
                   finalizer>>

-------------------------------------------------------------------------------
FinalizeDraftInit ==
    /\ run = [version |-> 1, finalized |-> FALSE, results |-> NothingGraded]
    /\ \E who \in [Windows -> Graders] :
          /\ window = [w \in Windows |-> Fresh(w, who[w])]
          /\ lastSaver = [w \in Windows |-> [c \in Covered |-> who[w]]]
    /\ saves = 0
    /\ lastSaved = [w \in Windows |-> NothingGraded]
    /\ adrift = {} /\ refused = {} /\ handedOver = {} /\ overtaken = {} /\ finalizer = {}

FinalizeDraftNext ==
    \/ \E m \in adrift : FinalizeLate(m) \/ LoseLate(m)
    \/ \E w \in Windows :
          \/ Visit(w) \/ Leave(w) \/ Reload(w) \/ Submit(w) \/ Finalize(w)
          \/ Redirected(w) \/ Rejected(w) \/ Unanswered(w)
          \/ \E p \in Graders : HandOver(w, p)
          \/ \E c \in Covered : OpenCase(w, c)
          \/ \E grade \in Outcomes : SaveCase(w, grade)

FinalizeDraftSpec == FinalizeDraftInit /\ [][FinalizeDraftNext]_draftVars

-------------------------------------------------------------------------------
\* Properties

\* "Results you record are kept in this browser tab until you finalize": what is finalized for a
\* case is what was last saved for it in that tab, through reloads, rejected and unanswered
\* submits and other tabs, and by the very person who finalizes; unless the storage refused a
\* write (what it held before comes back), an earlier submit was still under way, or the tab was
\* handed over.
FinalizedAsGraded ==
    \A w \in Windows, p \in Graders : <<w, p>> \in finalizer =>
        \A c \in Covered :
            /\ w \notin refused \cup overtaken => run.results[c] = lastSaved[w][c]
            /\ w \notin handedOver => lastSaver[w][c] = p
====
