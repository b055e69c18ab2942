---- MODULE DefectSyncProofs ----
(* Proofs about DefectSync, for any number of defects, requests and            *)
(* overlapping retry passes, any retry budget and any number of faults.        *)
EXTENDS DefectSync, FiniteSetTheorems, TLAPS

-------------------------------------------------------------------------------
\* The inductive invariant: what a process holds in memory, against the row r of its defect
\* and the number n of issues Jira has for it; and what every row and every plan keep.

Answered == {"SUCCEEDED", "FAILED"}

Sound(j, r, n) ==
    /\ r.status # "ABSENT"
    /\ j.pc \in {"edit", "move"} =>
         /\ j.seen.version <= r.version
         /\ j.seen.version = r.version => j.seen.status = r.status /\ j.seen.ranked = r.ranked
    /\ j.pc = "edit" => j.seen.status = "NEW"
    /\ j.pc = "move" =>
         /\ <<j.seen.status, j.to>> \in Transitions
         /\ (j.to = "TRIAGED" => j.seen.ranked)
    /\ j.pc \in {"raised", "called"} => j.answer \in Answered
    /\ (j.pc = "raised" /\ j.answer = "SUCCEEDED") => j.key \in 1..n
    /\ j.pc = "create" => j.project \in Projects
    /\ j.pc = "call" => r.status = "CLOSED" /\ j.key \in 1..n

JobSound(p) ==
    job[p].pc # "idle" =>
        /\ job[p].defect \in Defects
        /\ Sound(job[p], defect[job[p].defect], Len(issues[job[p].defect]))

RowSound(d) ==
    /\ defect[d].status = "ABSENT" => defect[d].version = 0 /\ defect[d].key = 0 /\ attempts[d] = <<>>
    /\ (d \notin ImportedDefects /\ defect[d].status \notin {"ABSENT", "NEW"}) => defect[d].ranked
    /\ \A i \in DOMAIN issues[d] : issues[d][i].status = "DONE" => defect[d].status = "CLOSED"

PassSound(w) == \A i \in pass[w].abandon \cup pass[w].retry : defect[i[1]].status # "ABSENT"

Core ==
    /\ DefectTypeOK
    /\ \A d \in Defects : RowSound(d)
    /\ \A p \in Processes : JobSound(p)
    /\ \A w \in Workers : PassSound(w)

\* What any step may do to a row r and to the number m of its issues.
Advances(r, s, m, n) ==
    /\ r.status # "ABSENT" => s.status # "ABSENT"
    /\ r.status = "CLOSED" => s.status = "CLOSED"
    /\ r.version <= s.version
    /\ (r.status # "ABSENT" /\ r.version = s.version) => r.status = s.status /\ r.ranked = s.ranked
    /\ m <= n

AllAdvance == \A d \in Defects : Advances(defect[d], defect'[d], Len(issues[d]), Len(issues'[d]))

LEMMA SoundKept ==
    ASSUME NEW j \in Job, NEW r \in Row, NEW s \in Row, NEW m \in Nat, NEW n \in Nat,
           Advances(r, s, m, n), Sound(j, r, m)
    PROVE  Sound(j, s, n)
<1>1. /\ r.version \in Nat /\ s.version \in Nat /\ j.seen \in Row /\ j.seen.version \in Nat
      /\ j.key \in Nat
  BY DEF Job, Row
<1> QED
  BY <1>1 DEF Sound, Advances

LEMMA StandingStill ==
    ASSUME DefectTypeOK, NEW d \in Defects, defect'[d] = defect[d], issues'[d] = issues[d]
    PROVE  Advances(defect[d], defect'[d], Len(issues[d]), Len(issues'[d]))
<1>1. defect[d].version \in Nat /\ Len(issues[d]) \in Nat
  BY DEF DefectTypeOK, Row
<1> QED
  BY <1>1 DEF Advances

LEMMA StepKeeps ==
    ASSUME Core, DefectTypeOK', AllAdvance, \A d \in Defects : RowSound(d)',
           \A p \in Processes : job'[p] = job[p] \/ JobSound(p)',
           \A w \in Workers : pass'[w] = pass[w] \/ PassSound(w)'
    PROVE  Core'
<1>1. ASSUME NEW p \in Processes, job'[p] = job[p] PROVE JobSound(p)'
  <2>1. SUFFICES ASSUME job[p].pc # "idle"
                 PROVE  /\ job[p].defect \in Defects
                        /\ Sound(job[p], defect'[job[p].defect], Len(issues'[job[p].defect]))
    BY <1>1 DEF JobSound
  <2> DEFINE d == job[p].defect
  <2>2. d \in Defects /\ Sound(job[p], defect[d], Len(issues[d]))
    BY <2>1 DEF Core, JobSound
  <2>3. /\ job[p] \in Job /\ defect[d] \in Row /\ defect'[d] \in Row
        /\ Len(issues[d]) \in Nat /\ Len(issues'[d]) \in Nat
    BY <2>2 DEF Core, DefectTypeOK
  <2>4. Advances(defect[d], defect'[d], Len(issues[d]), Len(issues'[d]))
    BY <2>2 DEF AllAdvance
  <2> QED
    BY <2>2, <2>3, <2>4, SoundKept
<1>2. ASSUME NEW w \in Workers, pass'[w] = pass[w] PROVE PassSound(w)'
  <2>1. SUFFICES ASSUME NEW i \in pass[w].abandon \cup pass[w].retry
                 PROVE  defect'[i[1]].status # "ABSENT"
    BY <1>2 DEF PassSound
  <2>2. i[1] \in Defects
    BY DEF Core, DefectTypeOK, Pass, Items
  <2>3. defect[i[1]].status # "ABSENT"
    BY DEF Core, PassSound
  <2> QED
    BY <2>2, <2>3 DEF AllAdvance, Advances
<1> QED
  BY <1>1, <1>2 DEF Core

LEMMA JobMoves ==
    ASSUME DefectTypeOK, NEW p \in Processes, NEW j \in Job, job' = [job EXCEPT ![p] = j]
    PROVE  /\ job' \in [Processes -> Job] /\ job'[p] = j
           /\ \A q \in Processes : q # p => job'[q] = job[q]
BY DEF DefectTypeOK

LEMMA NoJobType == NoJob \in Job
BY DEF NoJob, Job, AbsentRow, Row, Statuses

LEMMA NotIdle == ASSUME NEW p \in Processes, job'[p] = NoJob PROVE JobSound(p)'
BY DEF JobSound, NoJob

\* A step that only moves one process.
LEMMA OneJobMoves ==
    ASSUME Core, NEW p \in Processes, NEW j \in Job, job' = [job EXCEPT ![p] = j],
           UNCHANGED <<defect, attempts, project, issues, late, pass, routings, faults, owed>>,
           j.pc # "idle" => /\ j.defect \in Defects
                            /\ Sound(j, defect[j.defect], Len(issues[j.defect]))
    PROVE  Core'
<1>1. /\ job' \in [Processes -> Job] /\ job'[p] = j
      /\ \A q \in Processes : q # p => job'[q] = job[q]
  BY JobMoves DEF Core
<1>2. DefectTypeOK'
  BY <1>1 DEF Core, DefectTypeOK
<1>3. AllAdvance
  BY StandingStill DEF Core, AllAdvance
<1>4. JobSound(p)'
  BY <1>1 DEF JobSound
<1>5. \A d \in Defects : RowSound(d)'
  BY DEF Core, RowSound
<1> QED
  BY <1>1, <1>2, <1>3, <1>4, <1>5, StepKeeps

LEMMA CoreInit == Init => Core
<1> SUFFICES ASSUME Init PROVE Core
  OBVIOUS
<1> USE DEF Init
<1>1. AbsentRow \in Row
  BY DEF AbsentRow, Row
<1>2. NoPass \in Pass
  BY DEF NoPass, Pass
<1>3. DefectTypeOK
  BY <1>1, <1>2, NoJobType, DefectAssumption DEF DefectTypeOK, AbsentRow
<1>4. \A d \in Defects : RowSound(d)
  BY DEF RowSound, AbsentRow
<1>5. \A p \in Processes : JobSound(p)
  BY DEF JobSound, NoJob
<1>6. \A w \in Workers : PassSound(w)
  BY DEF PassSound, NoPass
<1> QED
  BY <1>3, <1>4, <1>5, <1>6 DEF Core

-------------------------------------------------------------------------------
\* A step that writes one defect's row, as the service's own transactions and the record of
\* a raise do.

LEMMA RowWritten ==
    ASSUME Core, NEW d \in Defects, NEW s \in Row, defect' = [defect EXCEPT ![d] = s],
           UNCHANGED issues, s.key <= Len(issues[d]),
           Advances(defect[d], s, Len(issues[d]), Len(issues[d]))
    PROVE  /\ defect' \in [Defects -> Row]
           /\ defect'[d] = s
           /\ \A f \in Defects : f # d => defect'[f] = defect[f]
           /\ \A f \in Defects : defect'[f].key <= Len(issues'[f])
           /\ AllAdvance
<1>1. /\ defect' \in [Defects -> Row] /\ defect'[d] = s
      /\ \A f \in Defects : f # d => defect'[f] = defect[f]
  BY DEF Core, DefectTypeOK
<1>2. \A f \in Defects : defect'[f].key <= Len(issues'[f])
  BY <1>1 DEF Core, DefectTypeOK
<1>3. ASSUME NEW f \in Defects PROVE Advances(defect[f], defect'[f], Len(issues[f]), Len(issues'[f]))
  <2>1. CASE f = d
    BY <1>1, <2>1
  <2>2. CASE f # d
    BY <1>1, <2>2, StandingStill DEF Core
  <2> QED
    BY <2>1, <2>2
<1> QED
  BY <1>1, <1>2, <1>3 DEF AllAdvance

LEMMA CoreBirth ==
    ASSUME Core, NEW d \in Defects, NEW status \in Statuses, NEW ranked \in BOOLEAN,
           defect[d].status = "ABSENT",
           d \in ImportedDefects \/ status = "NEW",
           defect' = [defect EXCEPT ![d] = [status |-> status, version |-> 1, ranked |-> ranked,
                                            key |-> 0]],
           job' \in [Processes -> Job],
           \A p \in Processes : job'[p] = job[p] \/ JobSound(p)',
           UNCHANGED <<attempts, project, issues, late, pass, routings, faults, owed>>
    PROVE  Core'
<1> DEFINE s == [status |-> status, version |-> 1, ranked |-> ranked, key |-> 0]
<1>1. s \in Row /\ s.key = 0 /\ s.version = 1 /\ s.status = status /\ s.status # "ABSENT"
  BY DEF Row, Statuses
<1>2. defect[d] \in Row /\ Len(issues[d]) \in Nat /\ defect[d].version = 0
  BY DEF Core, DefectTypeOK, RowSound
<1>3. Advances(defect[d], s, Len(issues[d]), Len(issues[d])) /\ s.key <= Len(issues[d])
  BY <1>1, <1>2 DEF Advances
<1>4. defect' = [defect EXCEPT ![d] = s]
  OBVIOUS
<1> HIDE DEF s
<1>5. /\ defect' \in [Defects -> Row] /\ defect'[d] = s
      /\ \A f \in Defects : f # d => defect'[f] = defect[f]
      /\ \A f \in Defects : defect'[f].key <= Len(issues'[f])
      /\ AllAdvance
  BY <1>1, <1>3, <1>4, RowWritten
<1>6. DefectTypeOK'
  BY <1>5 DEF Core, DefectTypeOK
<1>7. ASSUME NEW f \in Defects PROVE RowSound(f)'
  <2>1. CASE f # d
    BY <1>5, <2>1 DEF Core, RowSound
  <2>2. CASE f = d
    BY <1>1, <1>5, <2>2 DEF Core, RowSound
  <2> QED
    BY <2>1, <2>2
<1> QED
  BY <1>5, <1>6, <1>7, StepKeeps

LEMMA CoreCreate ==
    ASSUME Core, NEW c \in Callers, NEW d \in Defects, NEW ranked \in BOOLEAN,
           CreateDefect(c, d, ranked)
    PROVE  Core'
<1> DEFINE j == [NoJob EXCEPT !.pc = "raise", !.defect = d]
<1>1. c \in Processes
  BY DEF Processes
<1>2. j \in Job /\ j.pc = "raise" /\ j.defect = d
  BY NoJobType DEF Job
<1>3. job' = [job EXCEPT ![c] = j]
  BY DEF CreateDefect
<1> HIDE DEF j
<1>4. /\ job' \in [Processes -> Job] /\ job'[c] = j
      /\ \A q \in Processes : q # c => job'[q] = job[q]
  BY <1>1, <1>2, <1>3, JobMoves DEF Core
<1>5. defect'[d].status = "NEW"
  BY DEF CreateDefect, Core, DefectTypeOK
<1>6. JobSound(c)'
  BY <1>2, <1>4, <1>5 DEF JobSound, Sound
<1> QED
  BY <1>4, <1>6, CoreBirth DEF CreateDefect, Statuses

LEMMA CoreInlineOrImport ==
    ASSUME Core, NEW d \in Defects,
           \/ \E ranked \in BOOLEAN : CreateInline(d, ranked)
           \/ \E status \in Statuses : ImportDefect(d, status)
    PROVE  Core'
<1>0. job \in [Processes -> Job]
  BY DEF Core, DefectTypeOK
<1>1. ASSUME NEW ranked \in BOOLEAN, CreateInline(d, ranked) PROVE Core'
  BY <1>0, <1>1, CoreBirth DEF CreateInline, Statuses
<1>2. ASSUME NEW status \in Statuses, ImportDefect(d, status) PROVE Core'
  BY <1>0, <1>2, CoreBirth DEF ImportDefect
<1> QED
  BY <1>1, <1>2

\* The row a request read is the row its commit finds, up to the key.
LEMMA CommitFinds ==
    ASSUME Core, NEW c \in Callers, job[c].pc \in {"edit", "move"}, VersionHolds(c)
    PROVE  LET d == job[c].defect IN
           /\ c \in Processes /\ d \in Defects /\ job[c] \in Job
           /\ defect[d] \in Row /\ defect[d].status # "ABSENT"
           /\ job[c].seen.status = defect[d].status /\ job[c].seen.ranked = defect[d].ranked
           /\ Sound(job[c], defect[d], Len(issues[d]))
<1>1. c \in Processes
  BY DEF Processes
<1>2. job[c].defect \in Defects /\ Sound(job[c], defect[job[c].defect], Len(issues[job[c].defect]))
  BY <1>1 DEF Core, JobSound
<1> QED
  BY <1>1, <1>2 DEF Sound, VersionHolds, Core, DefectTypeOK

LEMMA CoreCommitEdit == ASSUME Core, NEW c \in Callers, CommitEdit(c) PROVE Core'
<1> DEFINE d == job[c].defect
           s == [defect[d] EXCEPT !.ranked = job[c].ranked, !.version = defect[d].version + 1]
<1>1. /\ c \in Processes /\ d \in Defects /\ job[c] \in Job
      /\ defect[d] \in Row /\ defect[d].status = "NEW"
  BY CommitFinds DEF CommitEdit, Sound
<1>0. job[c].ranked \in BOOLEAN /\ defect[d].version + 1 \in Nat
  BY <1>1 DEF Row, Job
<1>2. s \in Row /\ s.status = "NEW" /\ s.key = defect[d].key /\ s.version = defect[d].version + 1
  BY <1>0, <1>1 DEF Row
<1>3. /\ Advances(defect[d], s, Len(issues[d]), Len(issues[d])) /\ s.key <= Len(issues[d])
  BY <1>1, <1>2 DEF Advances, Row, Core, DefectTypeOK
<1>4. defect' = [defect EXCEPT ![d] = s]
  BY DEF CommitEdit
<1>5. job' = [job EXCEPT ![c] = NoJob] /\ UNCHANGED <<attempts, project, issues, late, pass, routings, faults, owed>>
  BY DEF CommitEdit, Done
<1> HIDE DEF s
<1>6. /\ defect' \in [Defects -> Row] /\ defect'[d] = s
      /\ \A f \in Defects : f # d => defect'[f] = defect[f]
      /\ \A f \in Defects : defect'[f].key <= Len(issues'[f])
      /\ AllAdvance
  BY <1>1, <1>2, <1>3, <1>4, <1>5, RowWritten
<1>7. /\ job' \in [Processes -> Job] /\ job'[c] = NoJob
      /\ \A q \in Processes : q # c => job'[q] = job[q]
  BY <1>1, <1>5, NoJobType, JobMoves DEF Core
<1>8. DefectTypeOK'
  BY <1>5, <1>6, <1>7 DEF Core, DefectTypeOK
<1>9. ASSUME NEW f \in Defects PROVE RowSound(f)'
  <2>1. CASE f # d
    BY <1>5, <1>6, <2>1 DEF Core, RowSound
  <2>2. CASE f = d
    BY <1>1, <1>2, <1>5, <1>6, <2>2 DEF Core, RowSound
  <2> QED
    BY <2>1, <2>2
<1> QED
  BY <1>1, <1>5, <1>6, <1>7, <1>8, <1>9, NotIdle, StepKeeps

LEMMA CoreCommitMove == ASSUME Core, NEW c \in Callers, CommitMove(c) PROVE Core'
<1> DEFINE d == job[c].defect
           s == [defect[d] EXCEPT !.status = job[c].to, !.version = defect[d].version + 1]
           j == [job[c] EXCEPT !.pc = "comment"]
<1>1. /\ c \in Processes /\ d \in Defects /\ job[c] \in Job
      /\ defect[d] \in Row
      /\ <<defect[d].status, job[c].to>> \in Transitions
      /\ job[c].to = "TRIAGED" => defect[d].ranked
  BY CommitFinds DEF CommitMove, Sound
<1>0. /\ job[c].to \in Statuses \cup {"ABSENT"} /\ defect[d].version + 1 \in Nat
  BY <1>1 DEF Row, Job
<1>2. /\ s \in Row /\ s.status = job[c].to /\ s.key = defect[d].key /\ s.ranked = defect[d].ranked
      /\ s.version = defect[d].version + 1
  BY <1>0, <1>1 DEF Row
<1>a. defect[d].status # "CLOSED" /\ job[c].to \notin {"ABSENT", "NEW"}
  BY <1>1 DEF Transitions
<1>b. job[c].to # "TRIAGED" => defect[d].status \notin {"ABSENT", "NEW"}
  BY <1>1 DEF Transitions
<1>3. /\ Advances(defect[d], s, Len(issues[d]), Len(issues[d])) /\ s.key <= Len(issues[d])
  BY <1>1, <1>2, <1>a DEF Advances, Row, Core, DefectTypeOK
<1>4. defect' = [defect EXCEPT ![d] = s]
  BY DEF CommitMove
<1>5. job' = [job EXCEPT ![c] = j] /\ UNCHANGED <<attempts, project, issues, late, pass, routings, faults>>
  BY <1>1 DEF CommitMove, Become, Core, DefectTypeOK
<1>c. j \in Job /\ j.pc = "comment" /\ j.defect = d
  BY <1>1 DEF Job
<1>d. owed' \subseteq Defects
  BY <1>1 DEF CommitMove, Core, DefectTypeOK
<1> HIDE DEF s, j
<1>6. /\ defect' \in [Defects -> Row] /\ defect'[d] = s
      /\ \A f \in Defects : f # d => defect'[f] = defect[f]
      /\ \A f \in Defects : defect'[f].key <= Len(issues'[f])
      /\ AllAdvance
  BY <1>1, <1>2, <1>3, <1>4, <1>5, RowWritten
<1>7. /\ job' \in [Processes -> Job] /\ job'[c] = j
      /\ \A q \in Processes : q # c => job'[q] = job[q]
  BY <1>1, <1>5, <1>c, JobMoves DEF Core
<1>8. DefectTypeOK'
  BY <1>5, <1>6, <1>7, <1>d DEF Core, DefectTypeOK
<1>9. ASSUME NEW f \in Defects PROVE RowSound(f)'
  <2>1. CASE f # d
    BY <1>5, <1>6, <2>1 DEF Core, RowSound
  <2>2. CASE f = d
    <3>1. \A i \in DOMAIN issues[d] : issues[d][i].status # "DONE"
      BY <1>1, <1>a DEF Core, RowSound
    <3>2. d \notin ImportedDefects => s.ranked
      BY <1>1, <1>2, <1>a, <1>b DEF Core, RowSound
    <3> QED
      BY <1>2, <1>5, <1>6, <1>a, <2>2, <3>1, <3>2 DEF RowSound
  <2> QED
    BY <2>1, <2>2
<1>10. JobSound(c)'
  BY <1>1, <1>2, <1>6, <1>7, <1>a, <1>c DEF JobSound, Sound
<1> QED
  BY <1>1, <1>5, <1>6, <1>7, <1>8, <1>9, <1>10, StepKeeps

LEMMA CoreRead ==
    ASSUME Core, NEW c \in Callers,
           \/ \E d \in Defects, ranked \in BOOLEAN : BeginEdit(c, d, ranked)
           \/ \E d \in Defects, to \in Statuses : BeginMove(c, d, to)
           \/ Conflict(c)
    PROVE  Core'
<1>0. c \in Processes
  BY DEF Processes
<1>1. ASSUME NEW d \in Defects, NEW ranked \in BOOLEAN, BeginEdit(c, d, ranked) PROVE Core'
  <2> DEFINE j == [NoJob EXCEPT !.pc = "edit", !.defect = d, !.seen = defect[d], !.ranked = ranked]
  <2>1. defect[d] \in Row
    BY DEF Core, DefectTypeOK
  <2>2. j \in Job /\ j.pc = "edit" /\ j.defect = d /\ j.seen = defect[d]
    BY <2>1, NoJobType DEF Job
  <2>3. job' = [job EXCEPT ![c] = j] /\ defect[d].status = "NEW"
    BY <1>1 DEF BeginEdit
  <2> HIDE DEF j
  <2>4. Sound(j, defect[d], Len(issues[d]))
    BY <2>1, <2>2, <2>3 DEF Sound, Row
  <2> QED
    BY <1>0, <1>1, <2>2, <2>3, <2>4, OneJobMoves DEF BeginEdit
<1>2. ASSUME NEW d \in Defects, NEW to \in Statuses, BeginMove(c, d, to) PROVE Core'
  <2> DEFINE j == [NoJob EXCEPT !.pc = "move", !.defect = d, !.seen = defect[d], !.to = to]
  <2>1. defect[d] \in Row
    BY DEF Core, DefectTypeOK
  <2>2. j \in Job /\ j.pc = "move" /\ j.defect = d /\ j.seen = defect[d] /\ j.to = to
    BY <2>1, NoJobType DEF Job
  <2>3. /\ job' = [job EXCEPT ![c] = j] /\ <<defect[d].status, to>> \in Transitions
        /\ (to = "TRIAGED" => defect[d].ranked)
    BY <1>2 DEF BeginMove
  <2>4. defect[d].status # "ABSENT"
    BY <2>3 DEF Transitions
  <2> HIDE DEF j
  <2>5. Sound(j, defect[d], Len(issues[d]))
    BY <2>1, <2>2, <2>3, <2>4 DEF Sound, Row
  <2> QED
    BY <1>0, <1>2, <2>2, <2>3, <2>5, OneJobMoves DEF BeginMove
<1>3. ASSUME Conflict(c) PROVE Core'
  BY <1>0, <1>3, NoJobType, OneJobMoves DEF Conflict, Done, NoJob
<1> QED
  BY <1>1, <1>2, <1>3

-------------------------------------------------------------------------------
\* The settle functions

\* What a process at work holds.
LEMMA AtWork ==
    ASSUME Core, NEW p \in Processes, job[p].pc # "idle"
    PROVE  LET d == job[p].defect IN
           /\ d \in Defects /\ job[p] \in Job /\ defect[d] \in Row /\ defect[d].status # "ABSENT"
           /\ issues[d] \in Seq(Issue) /\ defect[d].key <= Len(issues[d])
           /\ attempts[d] \in Seq(Attempt)
           /\ Sound(job[p], defect[d], Len(issues[d]))
BY DEF Core, JobSound, Sound, DefectTypeOK

\* The process moves on to a step at which it holds nothing but its defect.
LEMMA JobGoesOn ==
    ASSUME Core, NEW p \in Processes, job[p].pc # "idle",
           NEW pc \in {"post", "close"}, Become(p, pc)
    PROVE  \E j \in Job : /\ job' = [job EXCEPT ![p] = j]
                          /\ j.pc = pc /\ j.defect = job[p].defect /\ j.to = job[p].to
                          /\ Sound(j, defect[j.defect], Len(issues[j.defect]))
<1> DEFINE j == [job[p] EXCEPT !.pc = pc]
<1>1. j \in Job /\ j.pc = pc /\ j.defect = job[p].defect /\ j.to = job[p].to
  BY AtWork DEF Job
<1>2. job' = [job EXCEPT ![p] = j]
  BY DEF Become, Core, DefectTypeOK
<1>3. Sound(j, defect[j.defect], Len(issues[j.defect]))
  BY <1>1, AtWork DEF Sound
<1> QED
  BY <1>1, <1>2, <1>3

LEMMA JobReturns ==
    ASSUME Core, NEW p \in Processes, Done(p),
           UNCHANGED <<defect, attempts, project, issues, late, pass, routings, faults, owed>>
    PROVE  Core'
BY NoJobType, OneJobMoves DEF Done, NoJob

LEMMA CoreBecome ==
    ASSUME Core, NEW p \in Processes, job[p].pc # "idle",
           NEW pc \in {"post", "close"}, Become(p, pc),
           UNCHANGED <<defect, attempts, project, issues, late, pass, routings, faults, owed>>
    PROVE  Core'
BY JobGoesOn, AtWork, OneJobMoves

LEMMA CoreRaising ==
    ASSUME Core, NEW p \in Processes,
           NothingToRaise(p) \/ FindNone(p) \/ Adopt(p) \/ SearchFails(p)
    PROVE  Core'
<1>1. CASE NothingToRaise(p)
  BY <1>1, JobReturns DEF NothingToRaise
<1> DEFINE d == job[p].defect
<1>2. CASE FindNone(p)
  <2> DEFINE j == [job[p] EXCEPT !.pc = "create", !.project = project]
  <2>1. job[p].pc # "idle" /\ project \in Projects
    BY <1>2 DEF FindNone, Raising, Core, DefectTypeOK
  <2>2. j \in Job /\ j.pc = "create" /\ j.project = project /\ j.defect = d
    BY <2>1, AtWork DEF Job
  <2>3. job' = [job EXCEPT ![p] = j]
    BY <1>2 DEF FindNone, ToCreate, Core, DefectTypeOK
  <2>4. Sound(j, defect[d], Len(issues[d]))
    BY <2>1, <2>2, AtWork DEF Sound
  <2> HIDE DEF j
  <2> QED
    BY <1>2, <2>1, <2>2, <2>3, <2>4, AtWork, OneJobMoves DEF FindNone
<1>3. CASE Adopt(p)
  <2>1. PICK found \in DOMAIN issues[d] :
          job' = [job EXCEPT ![p].pc = "raised", ![p].answer = "SUCCEEDED", ![p].key = found]
    BY <1>3 DEF Adopt, Labelled
  <2> DEFINE j == [job[p] EXCEPT !.pc = "raised", !.answer = "SUCCEEDED", !.key = found]
  <2>2. job[p].pc # "idle"
    BY <1>3 DEF Adopt, Raising
  <2>3. found \in 1..Len(issues[d]) /\ found \in Nat
    BY <2>2, AtWork
  <2>4. j \in Job /\ j.pc = "raised" /\ j.answer = "SUCCEEDED" /\ j.key = found /\ j.defect = d
    BY <2>2, <2>3, AtWork DEF Job
  <2>5. job' = [job EXCEPT ![p] = j]
    BY <2>1 DEF Core, DefectTypeOK
  <2>6. Sound(j, defect[d], Len(issues[d]))
    BY <2>2, <2>3, <2>4, AtWork DEF Sound, Answered
  <2> HIDE DEF j
  <2> QED
    BY <1>3, <2>2, <2>4, <2>5, <2>6, AtWork, OneJobMoves DEF Adopt
<1>4. CASE SearchFails(p)
  <2> DEFINE j == [job[p] EXCEPT !.pc = "raised", !.answer = "FAILED"]
  <2>2. job[p].pc # "idle"
    BY <1>4 DEF SearchFails, Raising
  <2>4. j \in Job /\ j.pc = "raised" /\ j.answer = "FAILED" /\ j.defect = d
    BY <2>2, AtWork DEF Job
  <2>5. job' = [job EXCEPT ![p] = j]
    BY <1>4 DEF SearchFails, Core, DefectTypeOK
  <2>6. Sound(j, defect[d], Len(issues[d]))
    BY <2>2, <2>4, AtWork DEF Sound, Answered
  <2> HIDE DEF j
  <2> QED
    BY <1>4, <2>2, <2>4, <2>5, <2>6, AtWork, OneJobMoves DEF SearchFails
<1> QED
  BY <1>1, <1>2, <1>3, <1>4

LEMMA CoreComment ==
    ASSUME Core, NEW p \in Processes, ReadForComment(p) \/ PostComment(p)
    PROVE  Core'
<1>0. job[p].pc # "idle"
  BY DEF ReadForComment, PostComment
<1>1. ASSUME AfterComment(p),
             UNCHANGED <<defect, attempts, project, issues, late, pass, routings, faults, owed>>
      PROVE  Core'
  BY <1>0, <1>1, CoreBecome, JobReturns DEF AfterComment
<1> QED
  BY <1>0, <1>1, CoreBecome DEF ReadForComment, PostComment

-------------------------------------------------------------------------------
\* Jira

\* A step that writes the issues of one defect: s is what Jira has afterwards.
LEMMA IssuesWritten ==
    ASSUME Core, NEW d \in Defects, NEW s \in Seq(Issue),
           issues' = [issues EXCEPT ![d] = s], UNCHANGED <<defect, attempts>>,
           Len(issues[d]) <= Len(s),
           \A i \in DOMAIN s : s[i].status = "DONE" => defect[d].status = "CLOSED"
    PROVE  /\ issues' \in [Defects -> Seq(Issue)] /\ issues'[d] = s
           /\ \A f \in Defects : f # d => issues'[f] = issues[f]
           /\ \A f \in Defects : defect'[f].key <= Len(issues'[f])
           /\ AllAdvance
           /\ \A f \in Defects : RowSound(f)'
<1>1. /\ issues' \in [Defects -> Seq(Issue)] /\ issues'[d] = s
      /\ \A f \in Defects : f # d => issues'[f] = issues[f]
  BY DEF Core, DefectTypeOK
<1>2. ASSUME NEW f \in Defects
      PROVE  /\ defect'[f].key <= Len(issues'[f])
             /\ Advances(defect[f], defect'[f], Len(issues[f]), Len(issues'[f]))
             /\ RowSound(f)'
  <2>0. /\ defect[f] \in Row /\ defect[f].version \in Nat /\ defect[f].key \in Nat
        /\ Len(issues[f]) \in Nat /\ Len(s) \in Nat /\ defect[f].key <= Len(issues[f])
    BY DEF Core, DefectTypeOK, Row
  <2>1. CASE f # d
    BY <1>1, <2>0, <2>1 DEF Core, RowSound, Advances
  <2>2. CASE f = d
    BY <1>1, <2>0, <2>2 DEF Core, RowSound, Advances
  <2> QED
    BY <2>1, <2>2
<1> QED
  BY <1>1, <1>2 DEF AllAdvance

LEMMA OneMoreIssue ==
    ASSUME Core, NEW d \in Defects, NEW k \in Projects
    PROVE  LET grown == Append(issues[d], Opened(k)) IN
           /\ grown \in Seq(Issue)
           /\ Len(grown) = Len(issues[d]) + 1 /\ Len(issues[d]) \in Nat
           /\ \A i \in 1..Len(issues[d]) : grown[i] = issues[d][i]
           /\ grown[Len(issues[d]) + 1] = Opened(k)
           /\ \A i \in DOMAIN grown : grown[i].status = "DONE" => defect[d].status = "CLOSED"
<1>1. issues[d] \in Seq(Issue)
  BY DEF Core, DefectTypeOK
<1>2. \A i \in DOMAIN issues[d] : issues[d][i].status = "DONE" => defect[d].status = "CLOSED"
  BY DEF Core, RowSound
<1>3. Opened(k) \in Issue /\ Opened(k).status # "DONE"
  BY DEF Opened, Issue
<1> QED
  BY <1>1, <1>2, <1>3

LEMMA CorePost ==
    ASSUME Core, NEW p \in Processes, PostIssue(p) \/ PostFails(p)
    PROVE  Core'
<1> DEFINE d == job[p].defect
           k == job[p].project
           grown == Append(issues[d], Opened(k))
<1>0. /\ job[p].pc = "create" /\ d \in Defects /\ k \in Projects
  BY AtWork DEF PostIssue, PostFails, Sound
<1>a. Len(issues[d]) <= Len(grown)
  BY <1>0, OneMoreIssue
<1>1. /\ grown \in Seq(Issue) /\ Len(grown) = Len(issues[d]) + 1 /\ Len(issues[d]) \in Nat
      /\ \A i \in DOMAIN grown : grown[i].status = "DONE" => defect[d].status = "CLOSED"
  BY <1>0, OneMoreIssue
<1> HIDE DEF grown
<1>2. ASSUME NEW j \in Job, job' = [job EXCEPT ![p] = j], j.pc = "raised", j.defect = d,
             j.answer \in Answered, j.answer = "SUCCEEDED" => j.key \in 1..Len(issues'[d]),
             UNCHANGED <<defect, attempts, project, pass, routings, faults, owed>>,
             late' \in [Defects -> [Projects -> Nat]],
             issues' = [issues EXCEPT ![d] = grown] \/ UNCHANGED issues
      PROVE  Core'
  <2>1. /\ job' \in [Processes -> Job] /\ job'[p] = j
        /\ \A q \in Processes : q # p => job'[q] = job[q]
    BY <1>2, JobMoves DEF Core
  <2>2. JobSound(p)'
    BY <1>0, <1>2, <2>1, AtWork DEF JobSound, Sound
  <2>3. CASE issues' = [issues EXCEPT ![d] = grown]
    <3>1. /\ issues' \in [Defects -> Seq(Issue)]
          /\ \A f \in Defects : defect'[f].key <= Len(issues'[f])
          /\ AllAdvance /\ \A f \in Defects : RowSound(f)'
      BY <1>0, <1>1, <1>2, <1>a, <2>3, IssuesWritten
    <3>2. DefectTypeOK'
      BY <1>2, <2>1, <3>1 DEF Core, DefectTypeOK
    <3> QED
      BY <1>2, <2>1, <2>2, <3>1, <3>2, StepKeeps
  <2>4. CASE UNCHANGED issues
    <3>1. DefectTypeOK'
      BY <1>2, <2>1, <2>4 DEF Core, DefectTypeOK
    <3>2. AllAdvance
      BY <1>2, <2>4, StandingStill DEF Core, AllAdvance
    <3>3. \A f \in Defects : RowSound(f)'
      BY <1>2, <2>4 DEF Core, RowSound
    <3> QED
      BY <1>2, <2>1, <2>2, <3>1, <3>2, <3>3, StepKeeps
  <2> QED
    BY <1>2, <2>3, <2>4
<1>3. CASE PostIssue(p)
  <2> DEFINE j == [job[p] EXCEPT !.pc = "raised", !.answer = "SUCCEEDED", !.key = Len(issues[d]) + 1]
  <2>1. job[p] \in Job /\ Len(issues[d]) + 1 \in Nat
    BY <1>0, <1>1, AtWork
  <2>2. /\ j \in Job /\ j.pc = "raised" /\ j.answer = "SUCCEEDED" /\ j.key = Len(issues[d]) + 1
        /\ j.defect = d
    BY <2>1 DEF Job
  <2>3. job' = [job EXCEPT ![p] = j]
    BY <1>3 DEF PostIssue, Core, DefectTypeOK
  <2>4. /\ issues' = [issues EXCEPT ![d] = grown]
        /\ UNCHANGED <<defect, attempts, project, late, pass, routings, faults, owed>>
    BY <1>3 DEF PostIssue, grown
  <2>5. issues'[d] = grown /\ late' \in [Defects -> [Projects -> Nat]]
    BY <1>0, <2>4 DEF Core, DefectTypeOK
  <2>6. j.key \in 1..Len(issues'[d])
    BY <1>1, <2>2, <2>5
  <2> HIDE DEF j
  <2> QED
    BY <1>2, <2>2, <2>3, <2>4, <2>5, <2>6 DEF Answered
<1>4. CASE PostFails(p)
  <2> DEFINE j == [job[p] EXCEPT !.pc = "raised", !.answer = "FAILED"]
  <2>2. j \in Job /\ j.pc = "raised" /\ j.answer = "FAILED" /\ j.defect = d
    BY <1>0, AtWork DEF Job
  <2>3. job' = [job EXCEPT ![p] = j]
    BY <1>4 DEF PostFails, Core, DefectTypeOK
  <2>4. /\ issues' = [issues EXCEPT ![d] = grown] \/ UNCHANGED issues
        /\ UNCHANGED <<defect, attempts, project, pass, routings, faults, owed>>
        /\ late' = [late EXCEPT ![d][k] = late[d][k] + 1] \/ UNCHANGED late
    BY <1>4 DEF PostFails, grown
  <2>5. late' \in [Defects -> [Projects -> Nat]]
    <3>1. late \in [Defects -> [Projects -> Nat]] /\ late[d][k] + 1 \in Nat
      BY <1>0 DEF Core, DefectTypeOK
    <3> QED
      BY <1>0, <2>4, <3>1
  <2> HIDE DEF j
  <2> QED
    BY <1>2, <2>2, <2>3, <2>4, <2>5 DEF Answered
<1> QED
  BY <1>3, <1>4

LEMMA CoreLate ==
    ASSUME Core, NEW d \in Defects, NEW k \in Projects, CreateLate(d, k)
    PROVE  Core'
<1> DEFINE grown == Append(issues[d], Opened(k))
<1>1. /\ grown \in Seq(Issue) /\ Len(issues[d]) <= Len(grown)
      /\ \A i \in DOMAIN grown : grown[i].status = "DONE" => defect[d].status = "CLOSED"
  BY OneMoreIssue
<1>2. /\ issues' = [issues EXCEPT ![d] = grown] /\ late[d][k] > 0
      /\ late' = [late EXCEPT ![d][k] = late[d][k] - 1]
      /\ UNCHANGED <<defect, attempts, project, job, pass, routings, faults, owed>>
  BY DEF CreateLate
<1> HIDE DEF grown
<1>3. /\ issues' \in [Defects -> Seq(Issue)]
      /\ \A f \in Defects : defect'[f].key <= Len(issues'[f])
      /\ AllAdvance /\ \A f \in Defects : RowSound(f)'
  BY <1>1, <1>2, IssuesWritten
<1>4. late' \in [Defects -> [Projects -> Nat]]
  <2>1. late[d][k] - 1 \in Nat /\ late \in [Defects -> [Projects -> Nat]]
    BY <1>2 DEF Core, DefectTypeOK
  <2> QED
    BY <1>2, <2>1
<1>5. DefectTypeOK'
  BY <1>2, <1>3, <1>4 DEF Core, DefectTypeOK
<1> QED
  BY <1>2, <1>3, <1>5, StepKeeps

LEMMA OneDone ==
    ASSUME NEW i \in Issue
    PROVE  [i EXCEPT !.status = "DONE"] \in Issue
BY DEF Issue

LEMMA CoreCall ==
    ASSUME Core, NEW p \in Processes, NEW answer \in Answered, CallJira(p, answer)
    PROVE  Core'
<1> DEFINE d == job[p].defect
           k == job[p].key
           moved == [issues[d] EXCEPT ![k].status = "DONE"]
           j == [job[p] EXCEPT !.pc = "called", !.answer = answer]
<1>0. /\ job[p].pc = "call" /\ d \in Defects /\ job[p] \in Job /\ defect[d].status = "CLOSED"
      /\ issues[d] \in Seq(Issue) /\ k \in 1..Len(issues[d])
  BY AtWork DEF CallJira, Sound
<1>a. [issues[d][k] EXCEPT !.status = "DONE"] \in Issue
  <2>1. issues[d][k] \in Issue
    BY <1>0
  <2> QED
    BY <2>1, OneDone
<1>1. /\ moved \in Seq(Issue) /\ Len(moved) = Len(issues[d])
  BY <1>0, <1>a
<1>2. /\ issues' = [issues EXCEPT ![d] = moved] \/ UNCHANGED issues
      /\ UNCHANGED <<defect, attempts, project, late, pass, routings, faults, owed>>
  BY DEF CallJira
<1>3. j \in Job /\ j.pc = "called" /\ j.answer = answer /\ j.defect = d
  BY <1>0 DEF Job, Answered
<1>4. job' = [job EXCEPT ![p] = j]
  BY DEF CallJira, Core, DefectTypeOK
<1>5. /\ Len(issues[d]) \in Nat /\ Len(issues[d]) <= Len(moved)
      /\ \A i \in DOMAIN moved : moved[i].status = "DONE" => defect[d].status = "CLOSED"
  BY <1>0, <1>1
<1> HIDE DEF j, moved
<1>6. /\ job' \in [Processes -> Job] /\ job'[p] = j
      /\ \A q \in Processes : q # p => job'[q] = job[q]
  BY <1>3, <1>4, JobMoves DEF Core
<1>7. JobSound(p)'
  BY <1>0, <1>2, <1>3, <1>6 DEF JobSound, Sound
<1>8. CASE issues' = [issues EXCEPT ![d] = moved]
  <2>1. /\ issues' \in [Defects -> Seq(Issue)]
        /\ \A f \in Defects : defect'[f].key <= Len(issues'[f])
        /\ AllAdvance /\ \A f \in Defects : RowSound(f)'
    BY <1>0, <1>1, <1>2, <1>5, <1>8, IssuesWritten
  <2>2. DefectTypeOK'
    BY <1>2, <1>6, <2>1 DEF Core, DefectTypeOK
  <2> QED
    BY <1>2, <1>6, <1>7, <2>1, <2>2, StepKeeps
<1>9. CASE UNCHANGED issues
  <2>1. DefectTypeOK'
    BY <1>2, <1>6, <1>9 DEF Core, DefectTypeOK
  <2>2. AllAdvance
    BY <1>2, <1>9, StandingStill DEF Core, AllAdvance
  <2>3. \A f \in Defects : RowSound(f)'
    BY <1>2, <1>9 DEF Core, RowSound
  <2> QED
    BY <1>2, <1>6, <1>7, <2>1, <2>2, <2>3, StepKeeps
<1> QED
  BY <1>2, <1>8, <1>9

-------------------------------------------------------------------------------
\* Records of attempts

LEMMA RecordType ==
    ASSUME Core, NEW d \in Defects, NEW action \in {"CREATE", "TRANSITION"},
           NEW outcome \in {"SUCCEEDED", "FAILED", "SKIPPED", "ABANDONED"},
           Record(d, action, outcome)
    PROVE  /\ attempts' \in [Defects -> Seq(Attempt)]
           /\ attempts'[d] = Append(attempts[d], [action |-> action, outcome |-> outcome])
           /\ \A f \in Defects : f # d => attempts'[f] = attempts[f]
<1>1. [action |-> action, outcome |-> outcome] \in Attempt
  BY DEF Attempt
<1>2. attempts \in [Defects -> Seq(Attempt)]
  BY DEF Core, DefectTypeOK
<1>3. Append(attempts[d], [action |-> action, outcome |-> outcome]) \in Seq(Attempt)
  BY <1>1, <1>2
<1> QED
  BY <1>2, <1>3 DEF Record

\* A step that records an attempt on a defect that exists, and leaves its row and Jira alone.
LEMMA CoreRecord ==
    ASSUME Core, NEW d \in Defects, NEW action \in {"CREATE", "TRANSITION"},
           NEW outcome \in {"SUCCEEDED", "FAILED", "SKIPPED", "ABANDONED"},
           Record(d, action, outcome), defect[d].status # "ABSENT",
           job' \in [Processes -> Job], pass' \in [Workers -> Pass],
           \A p \in Processes : job'[p] = job[p] \/ JobSound(p)',
           \A w \in Workers : pass'[w] = pass[w] \/ PassSound(w)',
           UNCHANGED <<defect, project, issues, late, routings, faults, owed>>
    PROVE  Core'
<1>1. /\ attempts' \in [Defects -> Seq(Attempt)]
      /\ \A f \in Defects : f # d => attempts'[f] = attempts[f]
  BY RecordType
<1>2. DefectTypeOK'
  BY <1>1 DEF Core, DefectTypeOK
<1>3. AllAdvance
  BY StandingStill DEF Core, AllAdvance
<1>4. ASSUME NEW f \in Defects PROVE RowSound(f)'
  <2>1. CASE f = d
    BY <2>1 DEF Core, RowSound
  <2>2. CASE f # d
    BY <1>1, <2>2 DEF Core, RowSound
  <2> QED
    BY <2>1, <2>2
<1> QED
  BY <1>2, <1>3, <1>4, StepKeeps

LEMMA JobDone ==
    ASSUME Core, NEW p \in Processes, Done(p)
    PROVE  /\ job' \in [Processes -> Job] /\ JobSound(p)'
           /\ \A q \in Processes : q # p => job'[q] = job[q]
BY NoJobType, JobMoves, NotIdle DEF Done, Core

LEMMA CoreRecordCall == ASSUME Core, NEW p \in Processes, RecordCall(p) PROVE Core'
<1>1. /\ job[p].defect \in Defects /\ job[p].answer \in Answered
      /\ defect[job[p].defect].status # "ABSENT"
  BY AtWork DEF RecordCall, Sound
<1>2. pass' \in [Workers -> Pass]
  BY DEF RecordCall, Core, DefectTypeOK
<1> QED
  BY <1>1, <1>2, JobDone, CoreRecord DEF RecordCall, Answered

LEMMA CoreReadForClose == ASSUME Core, NEW p \in Processes, ReadForClose(p) PROVE Core'
<1> DEFINE d == job[p].defect
<1>0. /\ job[p].pc = "close" /\ d \in Defects /\ job[p] \in Job /\ defect[d] \in Row
      /\ defect[d].status # "ABSENT" /\ defect[d].key <= Len(issues[d])
      /\ Len(issues[d]) \in Nat
  BY AtWork DEF ReadForClose
<1>1. CASE defect[d].key = 0
  BY <1>1, JobReturns DEF ReadForClose
<1>2. CASE defect[d].key # 0 /\ ~ShouldTransition(defect[d].status)
  <2>1. pass' \in [Workers -> Pass]
    BY DEF ReadForClose, Core, DefectTypeOK
  <2> QED
    BY <1>0, <1>2, <2>1, JobDone, CoreRecord DEF ReadForClose
<1>3. CASE defect[d].key # 0 /\ ShouldTransition(defect[d].status)
  <2> DEFINE j == [job[p] EXCEPT !.pc = "call", !.key = defect[d].key]
  <2>1. j \in Job /\ j.pc = "call" /\ j.key = defect[d].key /\ j.defect = d
    BY <1>0 DEF Job, Row
  <2>2. job' = [job EXCEPT ![p] = j]
    BY <1>3 DEF ReadForClose, Core, DefectTypeOK
  <2> HIDE DEF j
  <2>3. Sound(j, defect[d], Len(issues[d]))
    BY <1>0, <1>3, <2>1 DEF Sound, ShouldTransition, Row
  <2> QED
    BY <1>0, <1>3, <2>1, <2>2, <2>3, OneJobMoves DEF ReadForClose
<1> QED
  BY <1>1, <1>2, <1>3

LEMMA CoreRecordRaise == ASSUME Core, NEW p \in Processes, RecordRaise(p) PROVE Core'
<1> DEFINE d == job[p].defect
<1>0. /\ job[p].pc = "raised" /\ d \in Defects /\ job[p] \in Job /\ defect[d] \in Row
      /\ defect[d].status # "ABSENT" /\ Sound(job[p], defect[d], Len(issues[d]))
      /\ Len(issues[d]) \in Nat
  BY AtWork DEF RecordRaise
<1>a. job[p].answer \in Answered /\ (job[p].answer = "SUCCEEDED" => job[p].key \in 1..Len(issues[d]))
  BY <1>0 DEF Sound
<1>1. /\ Record(d, "CREATE", job[p].answer) /\ Done(p)
      /\ UNCHANGED <<project, issues, late, pass, routings, faults, owed>>
  BY DEF RecordRaise
<1>2. pass' \in [Workers -> Pass]
  BY DEF RecordRaise, Core, DefectTypeOK
<1>3. CASE UNCHANGED defect
  BY <1>0, <1>1, <1>2, <1>3, <1>a, JobDone, CoreRecord DEF Answered
<1>4. CASE job[p].answer = "SUCCEEDED" /\ defect' = [defect EXCEPT ![d].key = job[p].key]
  <2> DEFINE s == [defect[d] EXCEPT !.key = job[p].key]
  <2>1. defect' = [defect EXCEPT ![d] = s]
    BY <1>4
  <2>2. /\ s \in Row /\ s.key = job[p].key /\ s.status = defect[d].status
        /\ s.version = defect[d].version /\ s.ranked = defect[d].ranked
    BY <1>0 DEF Row, Job
  <2>3. Advances(defect[d], s, Len(issues[d]), Len(issues[d])) /\ s.key <= Len(issues[d])
    BY <1>0, <1>4, <1>a, <2>2 DEF Advances, Row
  <2> HIDE DEF s
  <2>4. /\ defect' \in [Defects -> Row] /\ defect'[d] = s
        /\ \A f \in Defects : f # d => defect'[f] = defect[f]
        /\ \A f \in Defects : defect'[f].key <= Len(issues'[f])
        /\ AllAdvance
    BY <1>0, <1>1, <2>1, <2>2, <2>3, RowWritten
  <2>5. /\ attempts' \in [Defects -> Seq(Attempt)]
        /\ \A f \in Defects : f # d => attempts'[f] = attempts[f]
    BY <1>0, <1>1, <1>a, RecordType DEF Answered
  <2>6. DefectTypeOK'
    BY <1>1, <2>4, <2>5, JobDone DEF Core, DefectTypeOK
  <2>7. ASSUME NEW f \in Defects PROVE RowSound(f)'
    <3>1. CASE f = d
      BY <1>0, <1>1, <2>2, <2>4, <3>1 DEF Core, RowSound
    <3>2. CASE f # d
      BY <1>1, <2>4, <2>5, <3>2 DEF Core, RowSound
    <3> QED
      BY <3>1, <3>2
  <2> QED
    BY <1>1, <2>4, <2>6, <2>7, JobDone, StepKeeps
<1> QED
  BY <1>3, <1>4 DEF RecordRaise

-------------------------------------------------------------------------------
\* The retry pass and the world around

\* A step that leaves the rows, the attempts and Jira alone.
LEMMA CoreAside ==
    ASSUME Core, UNCHANGED <<defect, attempts, issues, late>>,
           project' \in Projects \cup {NoProject}, routings' \in 0..MaxRoutings, faults' \in 0..MaxFaults,
           owed' \subseteq Defects,
           job' \in [Processes -> Job], pass' \in [Workers -> Pass],
           \A p \in Processes : job'[p] = job[p] \/ JobSound(p)',
           \A w \in Workers : pass'[w] = pass[w] \/ PassSound(w)'
    PROVE  Core'
<1>1. DefectTypeOK'
  BY DEF Core, DefectTypeOK
<1>2. AllAdvance
  BY StandingStill DEF Core, AllAdvance
<1>3. \A f \in Defects : RowSound(f)'
  BY DEF Core, RowSound
<1> QED
  BY <1>1, <1>2, <1>3, StepKeeps

LEMMA CountedIsThere ==
    ASSUME NEW d \in Defects, NEW action, NEW outcomes, attempts[d] = <<>>
    PROVE  Count(d, action, outcomes) = 0
<1>1. {i \in DOMAIN attempts[d] : attempts[d][i].action = action
                                   /\ attempts[d][i].outcome \in outcomes} = {}
  OBVIOUS
<1> QED
  BY <1>1, FS_EmptySet DEF Count

LEMMA QueuedExists ==
    ASSUME Core, NEW i \in Queue
    PROVE  i \in Items /\ i[1] \in Defects /\ defect[i[1]].status # "ABSENT"
<1>1. i \in Items /\ i[1] \in Defects /\ Count(i[1], i[2], {"FAILED"}) > 0
  BY DEF Queue, Queued, Items
<1>2. attempts[i[1]] # <<>>
  BY <1>1, CountedIsThere
<1> QED
  BY <1>1, <1>2 DEF Core, RowSound

LEMMA PassMoves ==
    ASSUME Core, NEW w \in Workers, NEW q \in Pass, pass' = [pass EXCEPT ![w] = q],
           UNCHANGED defect,
           \A i \in q.abandon \cup q.retry : defect[i[1]].status # "ABSENT"
    PROVE  /\ pass' \in [Workers -> Pass]
           /\ \A v \in Workers : pass'[v] = pass[v] \/ PassSound(v)'
<1>1. /\ pass' \in [Workers -> Pass] /\ pass'[w] = q
      /\ \A v \in Workers : v # w => pass'[v] = pass[v]
  BY DEF Core, DefectTypeOK
<1> QED
  BY <1>1 DEF PassSound

LEMMA NoPassType == NoPass \in Pass /\ NoPass.abandon = {} /\ NoPass.retry = {}
BY DEF NoPass, Pass

LEMMA Planned ==
    ASSUME Core, NEW w \in Workers, NEW i \in pass[w].abandon \cup pass[w].retry
    PROVE  /\ pass[w] \in Pass /\ i \in Items /\ i[1] \in Defects
           /\ i[2] \in {"CREATE", "TRANSITION"} /\ defect[i[1]].status # "ABSENT"
BY DEF Core, DefectTypeOK, PassSound, Pass, Items

LEMMA CoreWork == ASSUME Core, NEW w \in Workers, WorkStep(w) PROVE Core'
<1>0. /\ w \in Processes /\ job \in [Processes -> Job] /\ pass[w] \in Pass
      /\ project \in Projects \cup {NoProject} /\ routings \in 0..MaxRoutings /\ faults \in 0..MaxFaults
      /\ owed \subseteq Defects
  BY DEF Processes, Core, DefectTypeOK
<1>1. CASE BeginPass(w)
  <2> DEFINE q == [open |-> TRUE, abandon |-> {i \in Queue : Exhausted(i[1], i[2])},
                   retry |-> {i \in Queue : ~Exhausted(i[1], i[2])}]
  <2>1. q \in Pass /\ \A i \in q.abandon \cup q.retry : defect[i[1]].status # "ABSENT"
    BY QueuedExists DEF Pass
  <2>2. pass' = [pass EXCEPT ![w] = q]
        /\ UNCHANGED <<defect, attempts, project, issues, late, job, routings, faults, owed>>
    BY <1>1 DEF BeginPass
  <2> HIDE DEF q
  <2> QED
    BY <1>0, <2>1, <2>2, PassMoves, CoreAside
<1>2. ASSUME NEW i \in Items, Abandon(w, i) PROVE Core'
  <2> DEFINE q == [pass[w] EXCEPT !.abandon = pass[w].abandon \ {i}]
  <2>1. /\ i \in pass[w].abandon /\ Record(i[1], i[2], "ABANDONED")
        /\ pass' = [pass EXCEPT ![w] = q]
        /\ UNCHANGED <<defect, project, issues, late, job, routings, faults, owed>>
    BY <1>2 DEF Abandon
  <2>2. /\ q \in Pass /\ q.abandon \subseteq pass[w].abandon /\ q.retry = pass[w].retry
    BY <1>0 DEF Pass
  <2>3. \A k \in q.abandon \cup q.retry : defect[k[1]].status # "ABSENT"
    BY <2>2, Planned
  <2> HIDE DEF q
  <2>4. /\ pass' \in [Workers -> Pass]
        /\ \A v \in Workers : pass'[v] = pass[v] \/ PassSound(v)'
    BY <2>1, <2>2, <2>3, PassMoves
  <2>5. i[1] \in Defects /\ i[2] \in {"CREATE", "TRANSITION"} /\ defect[i[1]].status # "ABSENT"
    BY <2>1, Planned
  <2> QED
    BY <1>0, <2>1, <2>4, <2>5, CoreRecord
<1>3. ASSUME NEW i \in Items, Retry(w, i) PROVE Core'
  <2> DEFINE q == [pass[w] EXCEPT !.retry = pass[w].retry \ {i}]
             pc == IF i[2] = "CREATE" THEN "raise" ELSE "close"
             j == [NoJob EXCEPT !.pc = pc, !.defect = i[1]]
  <2>1. /\ i \in pass[w].retry /\ pass' = [pass EXCEPT ![w] = q] /\ job' = [job EXCEPT ![w] = j]
        /\ UNCHANGED <<defect, attempts, project, issues, late, routings, faults, owed>>
    BY <1>3 DEF Retry
  <2>2. /\ q \in Pass /\ q.retry \subseteq pass[w].retry /\ q.abandon = pass[w].abandon
    BY <1>0 DEF Pass
  <2>3. \A k \in q.abandon \cup q.retry : defect[k[1]].status # "ABSENT"
    BY <2>2, Planned
  <2>4. i[1] \in Defects /\ defect[i[1]].status # "ABSENT"
    BY <2>1, Planned
  <2>5. j \in Job /\ j.pc \in {"raise", "close"} /\ j.defect = i[1]
    BY <2>4, NoJobType DEF Job
  <2> HIDE DEF q, j
  <2>6. /\ pass' \in [Workers -> Pass]
        /\ \A v \in Workers : pass'[v] = pass[v] \/ PassSound(v)'
    BY <2>1, <2>2, <2>3, PassMoves
  <2>7. /\ job' \in [Processes -> Job] /\ job'[w] = j
        /\ \A p \in Processes : p # w => job'[p] = job[p]
    BY <1>0, <2>1, <2>5, JobMoves DEF Core
  <2>8. JobSound(w)'
    BY <2>1, <2>4, <2>5, <2>7 DEF JobSound, Sound
  <2> QED
    BY <1>0, <2>1, <2>6, <2>7, <2>8, CoreAside
<1>4. CASE EndPass(w)
  BY <1>0, <1>4, NoPassType, PassMoves, CoreAside DEF EndPass
<1> QED
  BY <1>1, <1>2, <1>3, <1>4 DEF WorkStep

LEMMA CoreFault ==
    ASSUME Core, (\E p \in Processes : SwallowError(p)) \/ Crash \/ \E k \in Projects \cup {NoProject} : RouteProduct(k)
    PROVE  Core'
<1>0. /\ job \in [Processes -> Job] /\ pass \in [Workers -> Pass] /\ project \in Projects \cup {NoProject}
      /\ routings \in 0..MaxRoutings /\ faults \in 0..MaxFaults /\ owed \subseteq Defects
      /\ MaxRoutings \in Nat /\ MaxFaults \in Nat
  BY DefectAssumption DEF Core, DefectTypeOK
<1>1. ASSUME NEW p \in Processes, SwallowError(p) PROVE Core'
  <2>1. /\ job' \in [Processes -> Job] /\ JobSound(p)'
        /\ \A q \in Processes : q # p => job'[q] = job[q]
    BY <1>1, JobDone DEF SwallowError
  <2>2. faults' \in 0..MaxFaults /\ owed' \subseteq Defects
    BY <1>0, <1>1 DEF SwallowError
  <2> QED
    BY <1>0, <1>1, <2>1, <2>2, CoreAside DEF SwallowError
<1>2. CASE Crash
  <2>1. job' \in [Processes -> Job] /\ \A p \in Processes : JobSound(p)'
    BY <1>2, NoJobType, NotIdle DEF Crash
  <2>2. pass' \in [Workers -> Pass] /\ \A w \in Workers : PassSound(w)'
    BY <1>2, NoPassType DEF Crash, PassSound
  <2>3. faults' \in 0..MaxFaults /\ owed' \subseteq Defects
    BY <1>0, <1>2 DEF Crash
  <2> QED
    BY <1>0, <1>2, <2>1, <2>2, <2>3, CoreAside DEF Crash
<1>3. ASSUME NEW k \in Projects \cup {NoProject}, RouteProduct(k) PROVE Core'
  <2>1. routings' \in 0..MaxRoutings
    BY <1>0, <1>3 DEF RouteProduct
  <2> QED
    BY <1>0, <1>3, <2>1, CoreAside DEF RouteProduct
<1> QED
  BY <1>1, <1>2, <1>3

LEMMA CoreNext == Core /\ [Next]_vars => Core'
<1> SUFFICES ASSUME Core, [Next]_vars PROVE Core'
  OBVIOUS
<1>1. ASSUME NEW c \in Callers, RequestStep(c) PROVE Core'
  BY <1>1, CoreCreate, CoreRead, CoreCommitEdit, CoreCommitMove DEF RequestStep
<1>2. ASSUME NEW p \in Processes, SettleStep(p) PROVE Core'
  BY <1>2, CoreRaising, CorePost, CoreRecordRaise, CoreComment, CoreReadForClose, CoreCall,
     CoreRecordCall DEF SettleStep, Answered
<1>3. ASSUME NEW w \in Workers, WorkStep(w) PROVE Core'
  BY <1>3, CoreWork
<1>4. CASE Environment
  BY <1>4, CoreInlineOrImport, CoreFault, CoreLate DEF Environment
<1>5. CASE UNCHANGED vars
  <2>1. DefectTypeOK'
    BY <1>5 DEF vars, Core, DefectTypeOK
  <2>2. AllAdvance
    BY <1>5, StandingStill DEF vars, Core, AllAdvance
  <2>3. \A f \in Defects : RowSound(f)'
    BY <1>5 DEF vars, Core, RowSound
  <2> QED
    BY <1>5, <2>1, <2>2, <2>3, StepKeeps DEF vars
<1> QED
  BY <1>1, <1>2, <1>3, <1>4, <1>5, CoreFault DEF Next

\* The inductive invariant: types; an absent row is blank; what a process holds still fits its
\* defect and Jira's issues; a plan names defects that exist.
THEOREM CoreInvariant == Spec => []Core
BY CoreInit, CoreNext, PTL DEF Spec

\* Types, and that the key a defect holds is the key of an issue that exists in Jira, whether
\* it was created or adopted (createIssue, settleDefectIssueCreate).
THEOREM DefectTypeCorrect == Spec => []DefectTypeOK
<1>1. Core => DefectTypeOK
  BY DEF Core
<1> QED
  BY <1>1, CoreInvariant, PTL

\* A defect triaged here has its priority and severity, whatever edits ran beside the
\* transition (transitionDefect, updateDefectDetails).
THEOREM TriagedAreRanked == Spec => []TriagedIsRanked
<1>1. Core => TriagedIsRanked
  BY DEF Core, RowSound, TriagedIsRanked
<1> QED
  BY <1>1, CoreInvariant, PTL

\* An issue in Done stands for a defect that is Closed, however late the retry that moved it
\* (settleDefectIssueTransition).
THEOREM DoneStandsForClosed == Spec => []DoneMeansClosed
<1>1. Core => DoneMeansClosed
  BY DEF Core, RowSound, DoneMeansClosed
<1> QED
  BY <1>1, CoreInvariant, PTL

-------------------------------------------------------------------------------
\* What never changes again: a key, and the status of a closed defect

LEMMA FinalFields ==
    ASSUME Core, [Next]_vars, NEW d \in Defects
    PROVE  /\ defect[d].key # 0 => defect'[d].key = defect[d].key
           /\ defect[d].status = "CLOSED" => defect'[d].status = "CLOSED"
<1> USE DEF Core, DefectTypeOK
<1>1. ASSUME NEW c \in Callers, RequestStep(c)
      PROVE  /\ defect[d].key # 0 => defect'[d].key = defect[d].key
             /\ defect[d].status = "CLOSED" => defect'[d].status = "CLOSED"
  <2>1. ASSUME NEW f \in Defects, NEW ranked \in BOOLEAN, CreateDefect(c, f, ranked)
        PROVE  /\ defect[d].key # 0 => defect'[d].key = defect[d].key
               /\ defect[d].status = "CLOSED" => defect'[d].status = "CLOSED"
    BY <2>1 DEF CreateDefect, RowSound
  <2>2. CASE CommitEdit(c)
    BY <2>2, CommitFinds DEF CommitEdit, Row
  <2>3. CASE CommitMove(c)
    <3>1. /\ job[c].defect \in Defects
          /\ <<defect[job[c].defect].status, job[c].to>> \in Transitions
      BY <2>3, CommitFinds DEF CommitMove, Sound
    <3>2. defect[job[c].defect].status # "CLOSED"
      BY <3>1 DEF Transitions
    <3> QED
      BY <2>3, <3>1, <3>2 DEF CommitMove, Row
  <2> QED
    BY <1>1, <2>1, <2>2, <2>3 DEF RequestStep, BeginEdit, BeginMove, Conflict
<1>2. ASSUME NEW p \in Processes, SettleStep(p) \/ SwallowError(p)
      PROVE  /\ defect[d].key # 0 => defect'[d].key = defect[d].key
             /\ defect[d].status = "CLOSED" => defect'[d].status = "CLOSED"
  <2>1. CASE RecordRaise(p)
    BY <2>1, AtWork DEF RecordRaise, Row
  <2> QED
    BY <1>2, <2>1 DEF SettleStep, SwallowError, NothingToRaise, FindNone, ToCreate, Adopt, SearchFails,
       PostIssue, PostFails, ReadForComment, PostComment, ReadForClose, CallJira, RecordCall
<1>3. CASE (\E w \in Workers : WorkStep(w)) \/ UNCHANGED vars
  BY <1>3 DEF WorkStep, BeginPass, Abandon, Retry, EndPass, vars
<1>4. CASE Environment
  BY <1>4 DEF Environment, CreateInline, ImportDefect, RouteProduct, CreateLate, Crash, RowSound
<1> QED
  BY <1>1, <1>2, <1>3, <1>4 DEF Next

\* The key of a defect is for good, although creates race for it (settleDefectIssueCreate).
THEOREM KeysAreForGood == Spec => KeyIsForGood
<1>1. Core /\ [Next]_vars => [\A d \in Defects : defect[d].key # 0 => defect'[d].key = defect[d].key]_vars
  BY FinalFields
<1> QED
  BY <1>1, CoreInvariant, PTL DEF Spec, KeyIsForGood

-------------------------------------------------------------------------------
\* Every closure is followed up: while the request that closed the defect lives, it is on its
\* way to the attempt; when it is over, the attempt is on record.

Moved(d) == \E i \in DOMAIN attempts[d] : /\ attempts[d][i].action = "TRANSITION"
                                          /\ attempts[d][i].outcome \in Answered

Following(d, c) == /\ job[c].defect = d /\ job[c].to = "CLOSED"
                   /\ job[c].pc \in {"comment", "post", "close", "call", "called"}

FollowUp ==
    \A d \in owed : /\ defect[d].status = "CLOSED" /\ defect[d].key # 0
                    /\ Moved(d) \/ \E c \in Callers : Following(d, c)

\* Attempts are only ever appended.
LEMMA MovedStays ==
    ASSUME Core, [Next]_vars, NEW d \in Defects, Moved(d)
    PROVE  Moved(d)'
<1>1. ASSUME NEW f \in Defects, NEW a, NEW o, Record(f, a, o) PROVE Moved(d)'
  <2>1. attempts[d] \in Seq(Attempt) /\ attempts \in [Defects -> Seq(Attempt)]
    BY DEF Core, DefectTypeOK
  <2>2. PICK i \in DOMAIN attempts[d] : /\ attempts[d][i].action = "TRANSITION"
                                        /\ attempts[d][i].outcome \in Answered
    BY DEF Moved
  <2>3. attempts'[d] = attempts[d] \/ attempts'[d] = Append(attempts[d], [action |-> a, outcome |-> o])
    BY <1>1, <2>1 DEF Record
  <2>4. i \in DOMAIN attempts'[d] /\ attempts'[d][i] = attempts[d][i]
    BY <2>1, <2>2, <2>3
  <2> QED
    BY <2>2, <2>4 DEF Moved
<1>2. ASSUME UNCHANGED attempts PROVE Moved(d)'
  BY <1>2 DEF Moved
<1>3. ASSUME NEW c \in Callers, RequestStep(c) PROVE Moved(d)'
  BY <1>2, <1>3 DEF RequestStep, CreateDefect, BeginEdit, BeginMove, CommitEdit, CommitMove, Conflict
<1>4. ASSUME NEW p \in Processes, SettleStep(p) \/ SwallowError(p) PROVE Moved(d)'
  <2>1. CASE RecordRaise(p) \/ ReadForClose(p) \/ RecordCall(p)
    <3>1. job[p].defect \in Defects
      BY <2>1, AtWork DEF RecordRaise, ReadForClose, RecordCall
    <3> QED
      BY <1>1, <1>2, <2>1, <3>1 DEF RecordRaise, ReadForClose, RecordCall
  <2> QED
    BY <1>2, <1>4, <2>1 DEF SettleStep, SwallowError, NothingToRaise, FindNone, ToCreate, Adopt, SearchFails,
       PostIssue, PostFails, ReadForComment, PostComment, CallJira
<1>5. ASSUME NEW w \in Workers, WorkStep(w) PROVE Moved(d)'
  <2>1. ASSUME NEW i \in Items, Abandon(w, i) PROVE Moved(d)'
    BY <1>1, <2>1 DEF Abandon, Items
  <2> QED
    BY <1>2, <1>5, <2>1 DEF WorkStep, BeginPass, Retry, EndPass
<1>6. CASE Environment \/ UNCHANGED vars
  BY <1>2, <1>6 DEF Environment, CreateInline, ImportDefect, RouteProduct, CreateLate, Crash, vars
<1> QED
  BY <1>3, <1>4, <1>5, <1>6 DEF Next

\* The step of a request on its way to the attempt takes it further, or records the attempt.
LEMMA FollowsOn ==
    ASSUME Core, NEW c \in Callers, SettleStep(c), NEW d \in Defects, Following(d, c),
           defect[d].status = "CLOSED", defect[d].key # 0
    PROVE  Following(d, c)' \/ Moved(d)'
<1>0. c \in Processes /\ job \in [Processes -> Job] /\ attempts \in [Defects -> Seq(Attempt)]
  BY DEF Processes, Core, DefectTypeOK
<1>1. CASE ReadForComment(c) \/ PostComment(c)
  <2>1. \E pc \in {"post", "close"} : Become(c, pc)
    BY <1>1 DEF ReadForComment, PostComment, AfterComment, ShouldTransition, Following
  <2>2. PICK pc \in {"post", "close"} : Become(c, pc)
    BY <2>1
  <2>3. job[c].pc # "idle"
    BY <1>1 DEF ReadForComment, PostComment
  <2>4. PICK j \in Job : /\ job' = [job EXCEPT ![c] = j]
                         /\ j.pc = pc /\ j.defect = job[c].defect /\ j.to = job[c].to
    BY <1>0, <2>2, <2>3, JobGoesOn
  <2>5. job'[c] = j
    BY <1>0, <2>4
  <2> QED
    BY <2>4, <2>5 DEF Following
<1>2. CASE ReadForClose(c)
  <2>1. job' = [job EXCEPT ![c].pc = "call", ![c].key = defect[d].key]
    BY <1>2 DEF ReadForClose, ShouldTransition, Following
  <2>2. job[c] \in Job
    BY <1>0 DEF Core, DefectTypeOK
  <2>3. job'[c].pc = "call" /\ job'[c].defect = d /\ job'[c].to = "CLOSED"
    BY <1>0, <2>1, <2>2 DEF Job, Following
  <2> QED
    BY <2>3 DEF Following
<1>3. ASSUME NEW answer \in Answered, CallJira(c, answer) PROVE Following(d, c)'
  BY <1>0, <1>3 DEF CallJira, Following
<1>4. CASE RecordCall(c)
  <2>1. job[c].answer \in Answered /\ job[c].defect = d
    BY <1>0, <1>4, AtWork DEF RecordCall, Sound, Following
  <2> DEFINE a == [action |-> "TRANSITION", outcome |-> job[c].answer]
  <2>2. attempts'[d] = Append(attempts[d], a)
    BY <1>0, <1>4, <2>1 DEF RecordCall, Record
  <2>3. attempts[d] \in Seq(Attempt) /\ Len(attempts[d]) \in Nat
    BY <1>0
  <2>4. a \in Attempt /\ a.action = "TRANSITION" /\ a.outcome \in Answered
    BY <2>1 DEF Attempt, Answered
  <2> HIDE DEF a
  <2>5. Len(attempts[d]) + 1 \in DOMAIN attempts'[d] /\ attempts'[d][Len(attempts[d]) + 1] = a
    BY <2>2, <2>3, <2>4
  <2> QED
    BY <2>4, <2>5 DEF Moved
<1> QED
  BY <1>1, <1>2, <1>3, <1>4 DEF SettleStep, Following, NothingToRaise, FindNone, ToCreate, Adopt, SearchFails,
     Raising, PostIssue, PostFails, RecordRaise, Answered

LEMMA FollowUpNext == Core /\ FollowUp /\ [Next]_vars => FollowUp'
<1> SUFFICES ASSUME Core, FollowUp, [Next]_vars, NEW d \in owed'
             PROVE  /\ defect'[d].status = "CLOSED" /\ defect'[d].key # 0
                    /\ Moved(d)' \/ \E c \in Callers : Following(d, c)'
  BY DEF FollowUp
<1>0. owed \subseteq Defects /\ job \in [Processes -> Job] /\ Callers \subseteq Processes
      /\ Workers \subseteq Processes
  BY DEF Core, DefectTypeOK, Processes
<1>1. ASSUME d \in owed, \A c \in Callers : Following(d, c) => Following(d, c)' \/ Moved(d)'
      PROVE  /\ defect'[d].status = "CLOSED" /\ defect'[d].key # 0
             /\ Moved(d)' \/ \E c \in Callers : Following(d, c)'
  BY <1>0, <1>1, FinalFields, MovedStays DEF FollowUp
<1>2. ASSUME NEW p \in Processes, NEW c \in Callers, job'[c] = job[c], Following(d, c)
      PROVE  Following(d, c)'
  BY <1>2 DEF Following
<1>3. ASSUME NEW p \in Callers, RequestStep(p)
      PROVE  /\ defect'[d].status = "CLOSED" /\ defect'[d].key # 0
             /\ Moved(d)' \/ \E c \in Callers : Following(d, c)'
  <2>1. \A c \in Callers : c # p => job'[c] = job[c]
    BY <1>0, <1>3 DEF RequestStep, CreateDefect, BeginEdit, BeginMove, CommitEdit, CommitMove,
       Conflict, Done, Become
  <2>2. ~Following(d, p)
    BY <1>3 DEF Following, RequestStep, CreateDefect, BeginEdit, BeginMove, CommitEdit, CommitMove,
       Conflict
  <2>3. CASE d \in owed
    BY <1>0, <1>1, <1>2, <2>1, <2>2, <2>3
  <2>4. CASE d \notin owed
    <3>1. CommitMove(p) /\ d = job[p].defect /\ job[p].to = "CLOSED" /\ defect[d].key # 0
      BY <1>3, <2>4 DEF RequestStep, CreateDefect, BeginEdit, BeginMove, CommitEdit, CommitMove,
         Conflict
    <3>2. d \in Defects /\ p \in Processes /\ job[p] \in Job /\ defect[d] \in Row
      BY <3>1, CommitFinds DEF CommitMove
    <3>3. defect'[d].status = "CLOSED"
      BY <3>1, <3>2 DEF CommitMove, Core, DefectTypeOK, Row
    <3>4. defect'[d].key # 0
      BY <3>1, <3>2, FinalFields
    <3>5. Following(d, p)'
      BY <1>0, <3>1, <3>2 DEF CommitMove, Become, Following
    <3> QED
      BY <3>3, <3>4, <3>5
  <2> QED
    BY <2>3, <2>4
<1>4. ASSUME NEW p \in Processes, SettleStep(p)
      PROVE  /\ defect'[d].status = "CLOSED" /\ defect'[d].key # 0
             /\ Moved(d)' \/ \E c \in Callers : Following(d, c)'
  <2>1. \A c \in Callers : c # p => job'[c] = job[c]
    BY <1>0, <1>4 DEF SettleStep, NothingToRaise, FindNone, ToCreate, Adopt, SearchFails, PostIssue, PostFails,
       RecordRaise, ReadForComment, PostComment, AfterComment, ReadForClose, CallJira, RecordCall,
       Done, Become
  <2>2. d \in owed
    BY <1>4 DEF SettleStep, NothingToRaise, FindNone, ToCreate, Adopt, SearchFails, PostIssue, PostFails,
       RecordRaise, ReadForComment, PostComment, ReadForClose, CallJira, RecordCall
  <2>3. p \in Callers /\ Following(d, p) => Following(d, p)' \/ Moved(d)'
    BY <1>0, <1>4, <2>2, FollowsOn DEF FollowUp
  <2> QED
    BY <1>1, <1>2, <2>1, <2>2, <2>3
<1>5. ASSUME NEW p \in Processes, SwallowError(p)
      PROVE  /\ defect'[d].status = "CLOSED" /\ defect'[d].key # 0
             /\ Moved(d)' \/ \E c \in Callers : Following(d, c)'
  <2>1. d \in owed /\ d # job[p].defect
    BY <1>5 DEF SwallowError
  <2>2. \A c \in Callers : c # p => job'[c] = job[c]
    BY <1>0, <1>5 DEF SwallowError, Done
  <2>3. ~Following(d, p)
    BY <2>1 DEF Following
  <2> QED
    BY <1>1, <1>2, <2>1, <2>2, <2>3
<1>6. ASSUME NEW w \in Workers, WorkStep(w)
      PROVE  /\ defect'[d].status = "CLOSED" /\ defect'[d].key # 0
             /\ Moved(d)' \/ \E c \in Callers : Following(d, c)'
  <2>1. d \in owed
    BY <1>6 DEF WorkStep, BeginPass, Abandon, Retry, EndPass
  <2>2. \A c \in Callers : c # w
    BY DefectAssumption
  <2>3. \A c \in Callers : job'[c] = job[c]
    BY <1>0, <1>6, <2>2 DEF WorkStep, BeginPass, Abandon, Retry, EndPass
  <2> QED
    BY <1>0, <1>1, <1>2, <2>1, <2>3
<1>7. CASE Crash
  <2>1. d \in owed /\ \A p \in Processes : d # job[p].defect
    BY <1>7 DEF Crash
  <2>2. \A c \in Callers : ~Following(d, c)
    BY <1>0, <2>1 DEF Following
  <2> QED
    BY <1>1, <2>1, <2>2
<1>8. CASE (Environment /\ ~Crash) \/ UNCHANGED vars
  <2>1. d \in owed /\ job' = job
    BY <1>8 DEF Environment, CreateInline, ImportDefect, RouteProduct, CreateLate, vars
  <2> QED
    BY <1>0, <1>1, <2>1 DEF Following
<1> QED
  BY <1>3, <1>4, <1>5, <1>6, <1>7, <1>8 DEF Next

LEMMA MovedIsCounted ==
    ASSUME Core, NEW d \in Defects, Moved(d)
    PROVE  Count(d, "TRANSITION", Answered) > 0
<1> DEFINE S == {i \in DOMAIN attempts[d] : attempts[d][i].action = "TRANSITION"
                                            /\ attempts[d][i].outcome \in Answered}
<1>1. attempts[d] \in Seq(Attempt)
  BY DEF Core, DefectTypeOK
<1>2. DOMAIN attempts[d] = 1..Len(attempts[d]) /\ Len(attempts[d]) \in Nat
  BY <1>1
<1>3. IsFiniteSet(DOMAIN attempts[d])
  BY <1>2, FS_Interval
<1>4. IsFiniteSet(S)
  BY <1>3, FS_Subset
<1>5. S # {}
  BY DEF Moved
<1>6. Cardinality(S) \in Nat /\ Cardinality(S) # 0
  BY <1>4, <1>5, FS_EmptySet, FS_CardinalityType
<1> QED
  BY <1>6 DEF Count

\* A comment that could not post never costs the transition: once the request that closed a
\* defect holding a key is over, an attempt to move its issue is on record
\* (settleDefectTransition).
THEOREM ClosuresAreFollowedUp == Spec => []ClosureIsFollowedUp
<1>1. Init => FollowUp
  BY DEF Init, FollowUp
<1>2. Core /\ FollowUp => ClosureIsFollowedUp
  BY MovedIsCounted DEF Core, DefectTypeOK, FollowUp, Following, ClosureIsFollowedUp, Answered
<1> QED
  BY <1>1, <1>2, FollowUpNext, CoreInvariant, PTL DEF Spec

-------------------------------------------------------------------------------
\* The retry budget: who is at work on an item, and who will be

Works(p, i) ==
    /\ job[p].defect = i[1]
    /\ \/ i[2] = "CREATE" /\ job[p].pc \in {"raise", "create", "raised"}
       \/ i[2] = "TRANSITION" /\ job[p].pc \in {"close", "call", "called"}
       \/ i[2] = "TRANSITION" /\ job[p].pc \in {"comment", "post"} /\ job[p].to = "CLOSED"

Fails(i) == Count(i[1], i[2], {"FAILED"})

\* Nobody has asked for it so far, and nobody can ask for it twice.
NotYet(i) == IF i[2] = "CREATE" THEN defect[i[1]].status = "ABSENT" ELSE defect[i[1]].status # "CLOSED"

Asked(i) == {c \in Callers : Works(c, i)}

Held(i) == {w \in Workers : i \in pass[w].retry \/ Works(w, i)}

PlanSound(w) ==
    /\ ~pass[w].open => pass[w].retry = {} /\ job[w].pc = "idle"
    /\ \A i \in Items : Works(w, i) => i \notin pass[w].retry

\* One request makes the first attempt, before any failure; passes take it from there.
ItemSound(i) ==
    /\ NotYet(i) => Fails(i) = 0 /\ Asked(i) = {}
    /\ Asked(i) # {} => Fails(i) = 0
    /\ \A b, c \in Asked(i) : b = c
    /\ Held(i) # {} => Fails(i) > 0
    /\ Fails(i) + Cardinality(Held(i)) <= MaxSyncAttempts - 1 + Cardinality(Workers)

BudgetInv ==
    /\ \A w \in Workers : PlanSound(w)
    /\ \A i \in Items : ItemSound(i)

LEMMA BudgetNumbers ==
    ASSUME attempts \in [Defects -> Seq(Attempt)], NEW i \in Items
    PROVE  /\ Fails(i) \in Nat
           /\ IsFiniteSet(Held(i)) /\ Cardinality(Held(i)) \in Nat
           /\ Cardinality(Held(i)) <= Cardinality(Workers)
           /\ Cardinality(Workers) \in Nat /\ Cardinality(Workers) >= 1
           /\ MaxSyncAttempts \in Nat /\ MaxSyncAttempts >= 1
<1>1. attempts[i[1]] \in Seq(Attempt)
  BY DEF Items
<1>2. DOMAIN attempts[i[1]] = 1..Len(attempts[i[1]]) /\ Len(attempts[i[1]]) \in Nat
  BY <1>1
<1>3. IsFiniteSet(DOMAIN attempts[i[1]])
  BY <1>2, FS_Interval
<1>4. Fails(i) \in Nat
  BY <1>3, FS_Subset, FS_CardinalityType DEF Fails, Count
<1>5. Held(i) \subseteq Workers /\ IsFiniteSet(Workers)
  BY DefectAssumption DEF Held
<1>6. IsFiniteSet(Held(i)) /\ Cardinality(Held(i)) <= Cardinality(Workers)
  BY <1>5, FS_Subset
<1>7. Cardinality(Workers) \in Nat /\ Cardinality(Workers) # 0
  BY <1>5, FS_CardinalityType, FS_EmptySet, DefectAssumption
<1> QED
  BY <1>4, <1>6, <1>7, FS_CardinalityType, DefectAssumption

\* What a recorded attempt adds to the failures.
LEMMA FailsRecorded ==
    ASSUME Core, NEW d \in Defects, NEW action \in {"CREATE", "TRANSITION"},
           NEW outcome \in {"SUCCEEDED", "FAILED", "SKIPPED", "ABANDONED"},
           Record(d, action, outcome), NEW i \in Items
    PROVE  /\ (outcome # "FAILED" \/ i # <<d, action>>) => Fails(i)' = Fails(i)
           /\ (outcome = "FAILED" /\ i = <<d, action>>) => Fails(i)' = Fails(i) + 1
<1>0. i[1] \in Defects /\ i = <<i[1], i[2]>>
  BY DEF Items
<1>1. /\ attempts'[d] = Append(attempts[d], [action |-> action, outcome |-> outcome])
      /\ \A f \in Defects : f # d => attempts'[f] = attempts[f]
  BY RecordType
<1> DEFINE S(s) == {n \in DOMAIN s : s[n].action = i[2] /\ s[n].outcome \in {"FAILED"}}
<1>2. Fails(i) = Cardinality(S(attempts[i[1]])) /\ Fails(i)' = Cardinality(S(attempts'[i[1]]))
  BY DEF Fails, Count
<1>3. CASE i[1] # d
  <2>1. attempts'[i[1]] = attempts[i[1]]
    BY <1>0, <1>1, <1>3
  <2> QED
    BY <1>2, <1>3, <2>1
<1>4. CASE i[1] = d
  <2>1. PICK s \in Seq(Attempt) : s = attempts[d]
    BY DEF Core, DefectTypeOK
  <2>2. PICK r \in Attempt : r = [action |-> action, outcome |-> outcome]
    BY DEF Attempt
  <2>3. attempts'[d] = Append(s, r)
    BY <1>1, <2>1, <2>2
  <2>4. /\ DOMAIN s = 1..Len(s) /\ Len(s) \in Nat
        /\ DOMAIN Append(s, r) = DOMAIN s \cup {Len(s) + 1}
        /\ Append(s, r)[Len(s) + 1] = r /\ \A n \in DOMAIN s : Append(s, r)[n] = s[n]
    BY <2>1
  <2>5. IsFiniteSet(S(s)) /\ Len(s) + 1 \notin S(s)
    <3>1. IsFiniteSet(DOMAIN s)
      BY <2>4, FS_Interval
    <3> QED
      BY <2>4, <3>1, FS_Subset
  <2>6. CASE outcome = "FAILED" /\ i[2] = action
    <3>1. S(Append(s, r)) = S(s) \cup {Len(s) + 1}
      BY <2>2, <2>4, <2>6
    <3>2. Cardinality(S(Append(s, r))) = Cardinality(S(s)) + 1
      BY <2>5, <3>1, FS_AddElement
    <3> QED
      BY <1>0, <1>2, <1>4, <2>1, <2>3, <2>6, <3>2
  <2>7. CASE ~(outcome = "FAILED" /\ i[2] = action)
    <3>1. S(Append(s, r)) = S(s)
      BY <2>2, <2>4, <2>7
    <3> HIDE DEF S
    <3> QED
      BY <1>0, <1>2, <1>4, <2>1, <2>3, <2>7, <3>1
  <2> QED
    BY <2>6, <2>7
<1> QED
  BY <1>3, <1>4

\* A defect is created once and closed once.
LEMMA NotYetKept ==
    ASSUME Core, [Next]_vars, NEW i \in Items, NotYet(i)' PROVE NotYet(i)
<1> USE DEF Core, DefectTypeOK
<1>0. i[1] \in Defects
  BY DEF Items
<1>1. defect[i[1]].status = "CLOSED" => defect'[i[1]].status = "CLOSED"
  BY <1>0, FinalFields
<1>2. defect'[i[1]].status = "ABSENT" => defect[i[1]].status = "ABSENT"
  <2>1. ASSUME NEW c \in Callers, RequestStep(c)
        PROVE  defect'[i[1]].status = "ABSENT" => defect[i[1]].status = "ABSENT"
    <3>1. CASE CommitMove(c)
      <4>1. job[c].to \in Statuses
        BY <3>1, CommitFinds DEF CommitMove, Job
      <4> QED
        BY <1>0, <3>1, <4>1 DEF CommitMove, Statuses, Row
    <3>2. CASE CommitEdit(c)
      BY <1>0, <3>2 DEF CommitEdit, Row
    <3>3. CASE \E d \in Defects, ranked \in BOOLEAN : CreateDefect(c, d, ranked)
      BY <1>0, <3>3 DEF CreateDefect
    <3> QED
      BY <2>1, <3>1, <3>2, <3>3 DEF RequestStep, BeginEdit, BeginMove, Conflict
  <2>2. ASSUME NEW p \in Processes, SettleStep(p) \/ SwallowError(p)
        PROVE  defect'[i[1]].status = defect[i[1]].status
    <3>1. CASE RecordRaise(p)
      BY <1>0, <3>1, AtWork DEF RecordRaise, Row
    <3> QED
      BY <2>2, <3>1 DEF SettleStep, SwallowError, NothingToRaise, FindNone, ToCreate, Adopt, SearchFails,
         PostIssue, PostFails, ReadForComment, PostComment, ReadForClose, CallJira, RecordCall
  <2>3. CASE (\E w \in Workers : WorkStep(w)) \/ UNCHANGED vars
    BY <2>3 DEF WorkStep, BeginPass, Abandon, Retry, EndPass, vars
  <2>4. CASE Environment
    <3>1. ASSUME NEW d \in Defects, NEW r, r.status # "ABSENT", defect' = [defect EXCEPT ![d] = r]
          PROVE  defect'[i[1]].status = "ABSENT" => defect[i[1]].status = "ABSENT"
      BY <1>0, <3>1
    <3>2. ASSUME NEW d \in Defects, NEW ranked \in BOOLEAN, CreateInline(d, ranked)
          PROVE  defect'[i[1]].status = "ABSENT" => defect[i[1]].status = "ABSENT"
      BY <3>1, <3>2 DEF CreateInline
    <3>3. ASSUME NEW d \in Defects, NEW status \in Statuses, ImportDefect(d, status)
          PROVE  defect'[i[1]].status = "ABSENT" => defect[i[1]].status = "ABSENT"
      BY <3>1, <3>3 DEF ImportDefect, Statuses
    <3> QED
      BY <2>4, <3>2, <3>3 DEF Environment, RouteProduct, CreateLate, Crash
  <2> QED
    BY <2>1, <2>2, <2>3, <2>4 DEF Next
<1> QED
  BY <1>1, <1>2 DEF NotYet

\* An item that nobody comes to and that does not fail.
LEMMA ItemStays ==
    ASSUME Core, Core', [Next]_vars, NEW i \in Items, ItemSound(i), Fails(i)' = Fails(i),
           Asked(i)' \subseteq Asked(i), Held(i)' \subseteq Held(i)
    PROVE  ItemSound(i)'
<1>1. attempts \in [Defects -> Seq(Attempt)] /\ attempts' \in [Defects -> Seq(Attempt)]
  BY DEF Core, DefectTypeOK
<1>2. /\ Fails(i) \in Nat /\ IsFiniteSet(Held(i)) /\ Cardinality(Held(i)) \in Nat
      /\ Cardinality(Workers) \in Nat /\ MaxSyncAttempts \in Nat
  BY <1>1, BudgetNumbers
<1>3. Cardinality(Held(i)') <= Cardinality(Held(i)) /\ Cardinality(Held(i)') \in Nat
  BY <1>2, FS_Subset, FS_CardinalityType
<1>4. NotYet(i)' => NotYet(i)
  BY NotYetKept
<1>5. Fails(i)' + Cardinality(Held(i)') <= MaxSyncAttempts - 1 + Cardinality(Workers)
  BY <1>2, <1>3 DEF ItemSound
<1> QED
  BY <1>4, <1>5 DEF ItemSound

\* A settle function takes up no item but the one it was called for.
LEMMA SettleWorks ==
    ASSUME Core, NEW p \in Processes, SettleStep(p) \/ SwallowError(p)
    PROVE  /\ job[p].pc # "idle" /\ UNCHANGED pass
           /\ \A q \in Processes \ {p} : job'[q] = job[q]
           /\ \A i \in Items : Works(p, i)' => Works(p, i)
<1>0. job \in [Processes -> Job] /\ job[p] \in Job
  BY DEF Core, DefectTypeOK
<1>1. job[p].pc # "idle" /\ UNCHANGED pass
  BY DEF SettleStep, SwallowError, NothingToRaise, FindNone, ToCreate, Adopt, SearchFails, Raising, PostIssue,
     PostFails, RecordRaise, ReadForComment, PostComment, ReadForClose, CallJira, RecordCall, Settling
<1>2. ASSUME NEW j \in Job, job' = [job EXCEPT ![p] = j],
             \A i \in Items : Works(p, i)' => Works(p, i)
      PROVE  /\ \A q \in Processes \ {p} : job'[q] = job[q]
             /\ \A i \in Items : Works(p, i)' => Works(p, i)
  BY <1>0, <1>2
<1>3. ASSUME Done(p)
      PROVE  /\ \A q \in Processes \ {p} : job'[q] = job[q]
             /\ \A i \in Items : Works(p, i)' => Works(p, i)
  <2>1. job' = [job EXCEPT ![p] = NoJob] /\ NoJob.pc = "idle"
    BY <1>3 DEF Done, NoJob
  <2>2. job'[p].pc = "idle" /\ \A q \in Processes \ {p} : job'[q] = job[q]
    BY <1>0, <2>1
  <2> QED
    BY <2>2 DEF Works
<1>4. CASE NothingToRaise(p) \/ RecordRaise(p) \/ RecordCall(p) \/ SwallowError(p)
  BY <1>1, <1>3, <1>4 DEF NothingToRaise, RecordRaise, RecordCall, SwallowError
<1>5. CASE FindNone(p) \/ Adopt(p) \/ SearchFails(p) \/ PostIssue(p) \/ PostFails(p)
  <2>1. /\ job[p].pc \in {"raise", "create"} /\ job'[p].pc \in {"create", "raised"}
        /\ job'[p].defect = job[p].defect /\ \A q \in Processes \ {p} : job'[q] = job[q]
    BY <1>0, <1>5 DEF FindNone, ToCreate, Adopt, SearchFails, Raising, PostIssue, PostFails, Become, Job
  <2> QED
    BY <1>1, <2>1 DEF Works
<1>6. CASE ReadForComment(p) \/ PostComment(p)
  <2>1. CASE Done(p)
    BY <1>1, <1>3, <2>1
  <2>2. ASSUME NEW pc \in {"post", "close"}, Become(p, pc), pc = "close" => job[p].to = "CLOSED"
        PROVE  /\ \A q \in Processes \ {p} : job'[q] = job[q]
               /\ \A i \in Items : Works(p, i)' => Works(p, i)
    <3>1. /\ job'[p].pc = pc /\ job'[p].defect = job[p].defect /\ job'[p].to = job[p].to
          /\ \A q \in Processes \ {p} : job'[q] = job[q]
      BY <1>0, <2>2 DEF Become, Job
    <3>2. job[p].pc \in {"comment", "post"}
      BY <1>6 DEF ReadForComment, PostComment
    <3> QED
      BY <2>2, <3>1, <3>2 DEF Works
  <2>3. Done(p) \/ Become(p, "post") \/ (Become(p, "close") /\ job[p].to = "CLOSED")
    BY <1>6 DEF ReadForComment, PostComment, AfterComment, ShouldTransition
  <2> QED
    BY <1>1, <2>1, <2>2, <2>3
<1>7. CASE ReadForClose(p)
  <2>1. CASE Done(p)
    BY <1>1, <1>3, <2>1
  <2>2. CASE job' = [job EXCEPT ![p].pc = "call", ![p].key = defect[job[p].defect].key]
    <3>1. /\ job'[p].pc = "call" /\ job'[p].defect = job[p].defect
          /\ \A q \in Processes \ {p} : job'[q] = job[q]
      BY <1>0, <2>2 DEF Job
    <3>2. job[p].pc = "close"
      BY <1>7 DEF ReadForClose
    <3> QED
      BY <1>1, <3>1, <3>2 DEF Works
  <2> QED
    BY <1>7, <2>1, <2>2 DEF ReadForClose
<1>8. ASSUME NEW answer \in {"SUCCEEDED", "FAILED"}, CallJira(p, answer)
      PROVE  /\ \A q \in Processes \ {p} : job'[q] = job[q]
             /\ \A i \in Items : Works(p, i)' => Works(p, i)
  <2>1. /\ job[p].pc = "call" /\ job'[p].pc = "called" /\ job'[p].defect = job[p].defect
        /\ \A q \in Processes \ {p} : job'[q] = job[q]
    BY <1>0, <1>8 DEF CallJira, Job
  <2> QED
    BY <2>1 DEF Works
<1> QED
  BY <1>1, <1>4, <1>5, <1>6, <1>7, <1>8 DEF SettleStep

\* It adds one failure at most, of that item, and is over then.
LEMMA SettleFails ==
    ASSUME Core, NEW p \in Processes, SettleStep(p) \/ SwallowError(p), NEW i \in Items
    PROVE  \/ Fails(i)' = Fails(i)
           \/ Fails(i)' = Fails(i) + 1 /\ Works(p, i) /\ ~Works(p, i)'
<1>0. job \in [Processes -> Job]
  BY DEF Core, DefectTypeOK
<1>1. CASE UNCHANGED attempts
  BY <1>1 DEF Fails, Count
<1>2. ASSUME NEW action \in {"CREATE", "TRANSITION"}, Done(p), job[p].answer \in Answered,
             Record(job[p].defect, action, job[p].answer), job[p].pc # "idle",
             Works(p, <<job[p].defect, action>>)
      PROVE  \/ Fails(i)' = Fails(i)
             \/ Fails(i)' = Fails(i) + 1 /\ Works(p, i) /\ ~Works(p, i)'
  <2>1. job[p].defect \in Defects
    BY <1>2, AtWork
  <2>2. ~Works(p, i)'
    BY <1>0, <1>2 DEF Done, Works, NoJob
  <2>3. \/ Fails(i)' = Fails(i)
        \/ Fails(i)' = Fails(i) + 1 /\ i = <<job[p].defect, action>>
    BY <1>2, <2>1, FailsRecorded DEF Answered
  <2> QED
    BY <1>2, <2>2, <2>3
<1>3. CASE RecordRaise(p)
  BY <1>2, <1>3, AtWork DEF RecordRaise, Sound, Works
<1>4. CASE RecordCall(p)
  BY <1>2, <1>4, AtWork DEF RecordCall, Sound, Works
<1>5. CASE ReadForClose(p)
  <2>1. UNCHANGED attempts \/ Record(job[p].defect, "TRANSITION", "SKIPPED")
    BY <1>5 DEF ReadForClose
  <2>2. job[p].defect \in Defects
    BY <1>5, AtWork DEF ReadForClose
  <2> QED
    BY <1>1, <2>1, <2>2, FailsRecorded
<1> QED
  BY <1>1, <1>3, <1>4, <1>5 DEF SettleStep, SwallowError, NothingToRaise, FindNone, ToCreate, Adopt, SearchFails,
     PostIssue, PostFails, ReadForComment, PostComment, CallJira

LEMMA BudgetSettle ==
    ASSUME Core, Core', BudgetInv, NEW p \in Processes, SettleStep(p) \/ SwallowError(p)
    PROVE  BudgetInv'
<1>0. [Next]_vars
  BY DEF Next
<1>1. /\ job[p].pc # "idle" /\ UNCHANGED pass
      /\ \A q \in Processes \ {p} : job'[q] = job[q]
      /\ \A i \in Items : Works(p, i)' => Works(p, i)
  BY SettleWorks
<1>2. ASSUME NEW q \in Processes, NEW i \in Items, Works(q, i)' PROVE Works(q, i)
  BY <1>1, <1>2 DEF Works
<1>3. ASSUME NEW w \in Workers PROVE PlanSound(w)'
  <2>1. w \in Processes /\ PlanSound(w)
    BY DEF Processes, BudgetInv
  <2>2. ~pass'[w].open => job'[w].pc = "idle"
    BY <1>1, <2>1 DEF PlanSound
  <2> QED
    BY <1>1, <1>2, <2>1, <2>2 DEF PlanSound
<1>4. ASSUME NEW i \in Items PROVE ItemSound(i)'
  <2>0. ItemSound(i)
    BY DEF BudgetInv
  <2>1. Asked(i)' \subseteq Asked(i) /\ Held(i)' \subseteq Held(i)
    BY <1>1, <1>2 DEF Asked, Held, Processes
  <2>2. CASE Fails(i)' = Fails(i)
    BY <1>0, <2>0, <2>1, <2>2, ItemStays
  <2>3. CASE Fails(i)' = Fails(i) + 1 /\ Works(p, i) /\ ~Works(p, i)'
    <3>1. attempts \in [Defects -> Seq(Attempt)]
      BY DEF Core, DefectTypeOK
    <3>2. /\ Fails(i) \in Nat /\ IsFiniteSet(Held(i)) /\ Cardinality(Held(i)) \in Nat
          /\ Cardinality(Workers) \in Nat /\ Cardinality(Workers) >= 1
          /\ MaxSyncAttempts \in Nat /\ MaxSyncAttempts >= 1
      BY <3>1, BudgetNumbers
    <3>3. NotYet(i)' => NotYet(i)
      BY <1>0, NotYetKept
    <3>4. CASE p \in Callers
      <4>1. p \in Asked(i) /\ p \notin Asked(i)'
        BY <2>3, <3>4 DEF Asked
      <4>2. Fails(i) = 0 /\ Asked(i)' = {} /\ ~NotYet(i) /\ Held(i) = {}
        BY <2>0, <2>1, <4>1 DEF ItemSound
      <4>3. Held(i)' = {} /\ Cardinality(Held(i)') = 0 /\ Fails(i)' = 1
        BY <2>1, <2>3, <4>2, FS_EmptySet
      <4> QED
        BY <3>2, <3>3, <4>2, <4>3 DEF ItemSound
    <3>5. CASE p \in Workers
      <4>1. p \in Held(i) /\ i \notin pass[p].retry
        BY <2>3, <3>5 DEF Held, BudgetInv, PlanSound
      <4>2. Held(i)' \subseteq Held(i) \ {p}
        BY <1>1, <2>1, <2>3, <4>1 DEF Held
      <4>3. /\ IsFiniteSet(Held(i) \ {p})
            /\ Cardinality(Held(i) \ {p}) = Cardinality(Held(i)) - 1
        BY <3>2, <4>1, FS_RemoveElement
      <4>4. Cardinality(Held(i)') <= Cardinality(Held(i)) - 1 /\ Cardinality(Held(i)') \in Nat
        BY <4>2, <4>3, FS_Subset, FS_CardinalityType
      <4>5. Fails(i) > 0 /\ Asked(i) = {} /\ ~NotYet(i)
        BY <2>0, <3>2, <4>1 DEF ItemSound
      <4>6. /\ Asked(i)' = {} /\ ~NotYet(i)' /\ Fails(i)' > 0
            /\ Fails(i)' + Cardinality(Held(i)') <= MaxSyncAttempts - 1 + Cardinality(Workers)
        BY <2>0, <2>1, <2>3, <3>2, <3>3, <4>4, <4>5 DEF ItemSound
      <4> QED
        BY <4>6 DEF ItemSound
    <3> QED
      BY <3>4, <3>5 DEF Processes
  <2> QED
    BY <2>2, <2>3, SettleFails
<1> QED
  BY <1>3, <1>4 DEF BudgetInv

\* A request asks for an item that nobody has asked for.
LEMMA BudgetAsk ==
    ASSUME Core, Core', BudgetInv, [Next]_vars, NEW c \in Callers, NEW i \in Items,
           NotYet(i), ~NotYet(i)', UNCHANGED <<attempts, pass>>,
           \A q \in Processes \ {c} : job'[q] = job[q],
           \A j \in Items \ {i} : Works(c, j)' => Works(c, j)
    PROVE  BudgetInv'
<1>1. c \in Processes /\ c \notin Workers /\ Workers \subseteq Processes
  BY DefectAssumption DEF Processes
<1>2. \A w \in Workers : PlanSound(w)' /\ \A j \in Items : Works(w, j)' <=> Works(w, j)
  BY <1>1 DEF BudgetInv, PlanSound, Works
<1>3. \A j \in Items : Held(j)' = Held(j) /\ Fails(j)' = Fails(j)
  BY <1>2 DEF Held, Fails, Count
<1>4. \A q \in Callers \ {c} : \A j \in Items : Works(q, j)' => Works(q, j)
  BY DEF Works, Processes
<1>5. ASSUME NEW j \in Items PROVE ItemSound(j)'
  <2>1. ItemSound(j)
    BY DEF BudgetInv
  <2>2. CASE j # i
    <3>1. Asked(j)' \subseteq Asked(j)
      BY <1>4, <2>2 DEF Asked
    <3> QED
      BY <1>3, <2>1, <3>1, ItemStays
  <2>3. CASE j = i
    <3>1. Fails(j) = 0 /\ Asked(j) = {}
      BY <2>1, <2>3 DEF ItemSound
    <3>2. Asked(j)' \subseteq {c}
      BY <1>4, <3>1 DEF Asked
    <3> QED
      BY <1>3, <2>1, <2>3, <3>1, <3>2 DEF ItemSound
  <2> QED
    BY <2>2, <2>3
<1> QED
  BY <1>2, <1>5 DEF BudgetInv

\* A step that asks for nothing and plans nothing.
LEMMA BudgetIdle ==
    ASSUME Core, Core', BudgetInv, [Next]_vars, UNCHANGED pass,
           \A i \in Items : Fails(i)' = Fails(i),
           \A w \in Workers : job'[w] = job[w],
           \A c \in Callers : \A i \in Items : Works(c, i)' => Works(c, i)
    PROVE  BudgetInv'
<1>1. \A w \in Workers : PlanSound(w)' /\ \A i \in Items : Works(w, i)' <=> Works(w, i)
  BY DEF BudgetInv, PlanSound, Works
<1>2. \A i \in Items : Held(i)' \subseteq Held(i) /\ Asked(i)' \subseteq Asked(i)
  BY <1>1 DEF Held, Asked
<1>3. \A i \in Items : ItemSound(i)'
  BY <1>2, ItemStays DEF BudgetInv
<1> QED
  BY <1>1, <1>3 DEF BudgetInv

LEMMA BudgetRequest ==
    ASSUME Core, Core', BudgetInv, NEW c \in Callers, RequestStep(c) PROVE BudgetInv'
<1>0. /\ [Next]_vars /\ c \in Processes /\ job \in [Processes -> Job] /\ c \notin Workers
      /\ Workers \subseteq Processes /\ Callers \subseteq Processes /\ job[c] \in Job
  BY DefectAssumption DEF Next, Processes, Core, DefectTypeOK
<1>1. UNCHANGED <<attempts, pass>> /\ \A i \in Items : Fails(i)' = Fails(i)
  BY DEF RequestStep, CreateDefect, BeginEdit, BeginMove, CommitEdit, CommitMove, Conflict, Fails, Count
<1>2. ASSUME NEW d \in Defects, NEW ranked \in BOOLEAN, CreateDefect(c, d, ranked) PROVE BudgetInv'
  <2>1. PICK j : j = [NoJob EXCEPT !.pc = "raise", !.defect = d]
    OBVIOUS
  <2>2. j.pc = "raise" /\ j.defect = d
    BY <2>1 DEF NoJob
  <2>3. job'[c] = j /\ \A q \in Processes \ {c} : job'[q] = job[q]
    BY <1>0, <1>2, <2>1 DEF CreateDefect
  <2>4. PICK i \in Items : i = <<d, "CREATE">>
    BY DEF Items
  <2>5. NotYet(i) /\ ~NotYet(i)'
    BY <1>2, <2>4 DEF CreateDefect, NotYet, Core, DefectTypeOK
  <2>6. \A k \in Items \ {i} : Works(c, k)' => Works(c, k)
    BY <2>2, <2>3, <2>4 DEF Works, Items
  <2> QED
    BY <1>0, <1>1, <2>3, <2>5, <2>6, BudgetAsk
<1>3. CASE CommitMove(c)
  <2> DEFINE d == job[c].defect
  <2>1. job'[c].pc = "comment" /\ job'[c].defect = d /\ job'[c].to = job[c].to
        /\ \A q \in Processes \ {c} : job'[q] = job[q]
    BY <1>0, <1>3 DEF CommitMove, Become, Job
  <2>2. CASE job[c].to = "CLOSED"
    <3>1. PICK i \in Items : i = <<d, "TRANSITION">>
      BY <1>3, CommitFinds DEF CommitMove, Items
    <3>2. NotYet(i) /\ ~NotYet(i)'
      <4>1. d \in Defects /\ <<defect[d].status, job[c].to>> \in Transitions /\ defect \in [Defects -> Row]
        BY <1>3, CommitFinds DEF CommitMove, Sound, Core, DefectTypeOK
      <4>2. defect[d].status # "CLOSED" /\ defect'[d].status = "CLOSED"
        BY <1>3, <2>2, <4>1 DEF CommitMove, Transitions, Row
      <4> QED
        BY <3>1, <4>2 DEF NotYet
    <3>3. \A k \in Items \ {i} : Works(c, k)' => Works(c, k)
      BY <2>1, <3>1 DEF Works, Items
    <3> QED
      BY <1>0, <1>1, <2>1, <3>2, <3>3, BudgetAsk
  <2>3. CASE job[c].to # "CLOSED"
    <3>1. \A i \in Items : ~Works(c, i)'
      BY <2>1, <2>3 DEF Works
    <3>2. \A q \in Callers : \A i \in Items : Works(q, i)' => Works(q, i)
      BY <1>0, <2>1, <3>1 DEF Works
    <3> QED
      BY <1>0, <1>1, <2>1, <3>2, BudgetIdle
  <2> QED
    BY <2>2, <2>3
<1>4. ASSUME job' \in [Processes -> Job], job'[c].pc \in {"idle", "edit", "move"},
             \A q \in Processes \ {c} : job'[q] = job[q]
      PROVE  BudgetInv'
  <2>1. \A i \in Items : ~Works(c, i)'
    BY <1>4 DEF Works
  <2>2. \A q \in Callers : \A i \in Items : Works(q, i)' => Works(q, i)
    BY <1>0, <1>4, <2>1 DEF Works
  <2> QED
    BY <1>0, <1>1, <1>4, <2>2, BudgetIdle
<1>5. ASSUME NEW d \in Defects, NEW ranked \in BOOLEAN, BeginEdit(c, d, ranked) PROVE BudgetInv'
  <2>1. PICK j : j = [NoJob EXCEPT !.pc = "edit", !.defect = d, !.seen = defect[d], !.ranked = ranked]
    OBVIOUS
  <2>2. j.pc = "edit"
    BY <2>1 DEF NoJob
  <2>3. job'[c] = j /\ \A q \in Processes \ {c} : job'[q] = job[q]
    BY <1>0, <1>5, <2>1 DEF BeginEdit
  <2> QED
    BY <1>4, <2>2, <2>3 DEF Core, DefectTypeOK
<1>6. ASSUME NEW d \in Defects, NEW to \in Statuses, BeginMove(c, d, to) PROVE BudgetInv'
  <2>1. PICK j : j = [NoJob EXCEPT !.pc = "move", !.defect = d, !.seen = defect[d], !.to = to]
    OBVIOUS
  <2>2. j.pc = "move"
    BY <2>1 DEF NoJob
  <2>3. job'[c] = j /\ \A q \in Processes \ {c} : job'[q] = job[q]
    BY <1>0, <1>6, <2>1 DEF BeginMove
  <2> QED
    BY <1>4, <2>2, <2>3 DEF Core, DefectTypeOK
<1>7. CASE CommitEdit(c) \/ Conflict(c)
  <2>1. job' = [job EXCEPT ![c] = NoJob] /\ NoJob.pc = "idle"
    BY <1>7 DEF CommitEdit, Conflict, Done, NoJob
  <2>2. job'[c].pc = "idle" /\ \A q \in Processes \ {c} : job'[q] = job[q]
    BY <1>0, <2>1
  <2> QED
    BY <1>4, <2>2 DEF Core, DefectTypeOK
<1> QED
  BY <1>2, <1>3, <1>5, <1>6, <1>7 DEF RequestStep

LEMMA BudgetWork ==
    ASSUME Core, Core', BudgetInv, NEW w \in Workers, WorkStep(w) PROVE BudgetInv'
<1>0. /\ [Next]_vars /\ w \in Processes /\ job \in [Processes -> Job] /\ w \notin Callers
      /\ Workers \subseteq Processes /\ Callers \subseteq Processes
      /\ pass \in [Workers -> Pass] /\ pass[w] \in Pass /\ attempts \in [Defects -> Seq(Attempt)]
  BY DefectAssumption DEF Next, Processes, Core, DefectTypeOK
<1>1. ASSUME \A v \in Workers \ {w} : pass'[v] = pass[v] /\ job'[v] = job[v], PlanSound(w)',
             \A c \in Callers : job'[c] = job[c],
             \A i \in Items : Fails(i)' = Fails(i) /\ (w \in Held(i)' => w \in Held(i))
      PROVE  BudgetInv'
  <2>1. \A v \in Workers : PlanSound(v)'
    <3>1. \A v \in Workers \ {w} : PlanSound(v)'
      BY <1>1 DEF BudgetInv, PlanSound, Works
    <3> QED
      BY <1>1, <3>1
  <2>2. \A i \in Items : Held(i)' \subseteq Held(i) /\ Asked(i)' \subseteq Asked(i)
    BY <1>1 DEF Held, Asked, Works
  <2>3. \A i \in Items : ItemSound(i)'
    BY <1>0, <1>1, <2>2, ItemStays DEF BudgetInv
  <2> QED
    BY <2>1, <2>3 DEF BudgetInv
<1>2. CASE BeginPass(w)
  <2>1. PICK q : /\ q.open = TRUE /\ q.retry = {i \in Queue : ~Exhausted(i[1], i[2])}
                 /\ pass' = [pass EXCEPT ![w] = q]
    BY <1>2 DEF BeginPass
  <2>2. /\ pass'[w] = q /\ (\A v \in Workers \ {w} : pass'[v] = pass[v])
        /\ UNCHANGED <<job, attempts>> /\ job[w].pc = "idle" /\ pass[w].retry = {}
    BY <1>0, <1>2, <2>1 DEF BeginPass, BudgetInv, PlanSound
  <2>3. \A i \in Items : ~Works(w, i) /\ ~Works(w, i)'
    BY <2>2 DEF Works
  <2>4. \A v \in Workers : PlanSound(v)'
    <3>1. \A v \in Workers \ {w} : PlanSound(v)'
      BY <2>2 DEF BudgetInv, PlanSound, Works
    <3>2. PlanSound(w)'
      BY <2>1, <2>2, <2>3 DEF PlanSound
    <3> QED
      BY <3>1, <3>2
  <2>5. ASSUME NEW i \in Items PROVE ItemSound(i)'
    <3>0. ItemSound(i) /\ Fails(i)' = Fails(i) /\ Asked(i)' = Asked(i) /\ (NotYet(i)' => NotYet(i))
      BY <1>0, <2>2, NotYetKept DEF BudgetInv, Fails, Count, Asked, Works
    <3>1. CASE i \notin q.retry
      <4>1. Held(i)' \subseteq Held(i)
        BY <2>2, <2>3, <3>1 DEF Held, Works
      <4> QED
        BY <1>0, <3>0, <4>1, ItemStays
    <3>2. CASE i \in q.retry
      <4>1. Fails(i) > 0 /\ ~(Fails(i) >= MaxSyncAttempts)
        BY <2>1, <3>2 DEF Queue, Queued, Exhausted, Fails
      <4>2. /\ Fails(i) \in Nat /\ Cardinality(Workers) \in Nat /\ MaxSyncAttempts \in Nat
        BY <1>0, BudgetNumbers
      <4>3. Held(i)' \subseteq Workers /\ IsFiniteSet(Workers)
        BY DefectAssumption DEF Held
      <4>4. Cardinality(Held(i)') <= Cardinality(Workers) /\ Cardinality(Held(i)') \in Nat
        BY <4>3, FS_Subset, FS_CardinalityType
      <4>5. Fails(i) + Cardinality(Held(i)') <= MaxSyncAttempts - 1 + Cardinality(Workers)
        BY <4>1, <4>2, <4>4
      <4>6. Asked(i) = {} /\ ~NotYet(i)
        BY <3>0, <4>1 DEF ItemSound
      <4> QED
        BY <3>0, <4>1, <4>5, <4>6 DEF ItemSound
    <3> QED
      BY <3>1, <3>2
  <2> QED
    BY <2>4, <2>5 DEF BudgetInv
<1>3. ASSUME NEW i \in Items, Abandon(w, i) PROVE BudgetInv'
  <2>1. i[1] \in Defects /\ i[2] \in {"CREATE", "TRANSITION"} /\ Record(i[1], i[2], "ABANDONED")
    BY <1>3 DEF Abandon, Items
  <2>2. \A k \in Items : Fails(k)' = Fails(k)
    BY <2>1, FailsRecorded
  <2>3. /\ pass'[w].retry = pass[w].retry /\ pass'[w].open = pass[w].open
        /\ \A v \in Workers \ {w} : pass'[v] = pass[v]
    BY <1>0, <1>3 DEF Abandon, Pass
  <2>4. UNCHANGED job
    BY <1>3 DEF Abandon
  <2>5. PlanSound(w)' /\ \A k \in Items : w \in Held(k)' => w \in Held(k)
    BY <2>3, <2>4 DEF BudgetInv, PlanSound, Works, Held
  <2> QED
    BY <1>1, <2>2, <2>3, <2>4, <2>5
<1>4. ASSUME NEW i \in Items, Retry(w, i) PROVE BudgetInv'
  <2>1. i = <<i[1], i[2]>> /\ i[2] \in {"CREATE", "TRANSITION"}
    BY DEF Items
  <2>2. PICK j : j = [NoJob EXCEPT !.pc = IF i[2] = "CREATE" THEN "raise" ELSE "close", !.defect = i[1]]
    OBVIOUS
  <2>3. j.pc = (IF i[2] = "CREATE" THEN "raise" ELSE "close") /\ j.defect = i[1]
    BY <2>2 DEF NoJob
  <2>4. job'[w] = j /\ \A q \in Processes \ {w} : job'[q] = job[q]
    BY <1>0, <1>4, <2>2 DEF Retry
  <2>5. /\ pass'[w].retry = pass[w].retry \ {i} /\ pass'[w].open = pass[w].open
        /\ i \in pass[w].retry /\ \A v \in Workers \ {w} : pass'[v] = pass[v]
    BY <1>0, <1>4 DEF Retry, Pass
  <2>6. \A k \in Items : Works(w, k)' => k = i
    BY <2>1, <2>3, <2>4 DEF Works, Items
  <2>7. pass[w].open = TRUE
    <3>1. pass[w].open # FALSE
      BY <2>5 DEF BudgetInv, PlanSound
    <3> QED
      BY <1>0, <3>1 DEF Pass
  <2>8. PlanSound(w)'
    BY <2>5, <2>6, <2>7 DEF PlanSound
  <2>9. \A k \in Items : w \in Held(k)' => w \in Held(k)
    BY <2>5, <2>6 DEF Held
  <2>10. \A k \in Items : Fails(k)' = Fails(k)
    BY <1>4 DEF Retry, Fails, Count
  <2> QED
    BY <1>0, <1>1, <2>4, <2>5, <2>8, <2>9, <2>10
<1>5. CASE EndPass(w)
  <2>1. pass'[w] = NoPass /\ (\A v \in Workers \ {w} : pass'[v] = pass[v]) /\ UNCHANGED <<job, attempts>>
        /\ job[w].pc = "idle"
    BY <1>0, <1>5 DEF EndPass
  <2>2. NoPass.retry = {}
    BY DEF NoPass
  <2>3. \A k \in Items : ~Works(w, k)'
    BY <2>1 DEF Works
  <2>4. PlanSound(w)' /\ \A k \in Items : w \notin Held(k)'
    BY <2>1, <2>2, <2>3 DEF PlanSound, Held
  <2>5. \A k \in Items : Fails(k)' = Fails(k)
    BY <2>1 DEF Fails, Count
  <2> QED
    BY <1>1, <2>1, <2>4, <2>5
<1> QED
  BY <1>2, <1>3, <1>4, <1>5 DEF WorkStep

LEMMA BudgetNext == Core /\ BudgetInv /\ [Next]_vars => BudgetInv'
<1> SUFFICES ASSUME Core, BudgetInv, [Next]_vars PROVE BudgetInv'
  OBVIOUS
<1>0. Core'
  BY CoreNext
<1>1. CASE Crash
  <2>1. /\ \A p \in Processes : job'[p] = NoJob
        /\ \A w \in Workers : pass'[w] = NoPass
        /\ UNCHANGED attempts /\ Workers \subseteq Processes /\ Callers \subseteq Processes
    BY <1>1 DEF Crash, Processes
  <2>2. NoJob.pc = "idle" /\ NoPass.retry = {}
    BY DEF NoJob, NoPass
  <2>3. \A p \in Processes : \A i \in Items : ~Works(p, i)'
    BY <2>1, <2>2 DEF Works
  <2>4. \A w \in Workers : PlanSound(w)'
    BY <2>1, <2>2, <2>3 DEF PlanSound
  <2>5. \A i \in Items : Fails(i)' = Fails(i) /\ Asked(i)' = {} /\ Held(i)' = {}
    BY <2>1, <2>2, <2>3 DEF Fails, Count, Asked, Held
  <2>6. \A i \in Items : ItemSound(i)'
    BY <1>0, <2>5, ItemStays DEF BudgetInv
  <2> QED
    BY <2>4, <2>6 DEF BudgetInv
<1>2. CASE (Environment /\ ~Crash) \/ UNCHANGED vars
  <2>1. UNCHANGED <<job, pass, attempts>>
    BY <1>2 DEF Environment, CreateInline, ImportDefect, RouteProduct, CreateLate, vars
  <2> QED
    BY <1>0, <2>1, BudgetIdle DEF Works, Fails, Count
<1> QED
  BY <1>0, <1>1, <1>2, BudgetSettle, BudgetRequest, BudgetWork DEF Next

LEMMA BudgetInit == Init => BudgetInv
<1> SUFFICES ASSUME Init PROVE BudgetInv
  OBVIOUS
<1>1. /\ \A p \in Processes : job[p] = NoJob
      /\ \A w \in Workers : pass[w] = NoPass
      /\ \A d \in Defects : attempts[d] = <<>>
      /\ Workers \subseteq Processes /\ Callers \subseteq Processes
      /\ attempts \in [Defects -> Seq(Attempt)]
  BY CoreInit DEF Init, Processes, Core, DefectTypeOK
<1>2. NoJob.pc = "idle" /\ NoPass.retry = {}
  BY DEF NoJob, NoPass
<1>3. \A p \in Processes : \A i \in Items : ~Works(p, i)
  BY <1>1, <1>2 DEF Works
<1>4. \A w \in Workers : PlanSound(w)
  BY <1>1, <1>2, <1>3 DEF PlanSound
<1>5. ASSUME NEW i \in Items PROVE ItemSound(i)
  <2>1. Fails(i) = 0
    BY <1>1, CountedIsThere DEF Fails, Items
  <2>2. Asked(i) = {} /\ Held(i) = {}
    BY <1>1, <1>2, <1>3 DEF Asked, Held
  <2>3. Cardinality(Held(i)) = 0
    BY <2>2, FS_EmptySet
  <2>4. MaxSyncAttempts \in Nat /\ MaxSyncAttempts >= 1 /\ Cardinality(Workers) \in Nat
    BY <1>1, BudgetNumbers
  <2> QED
    BY <2>1, <2>2, <2>3, <2>4 DEF ItemSound
<1> QED
  BY <1>4, <1>5 DEF BudgetInv

\* planDefectRetries: for any number of overlapping passes, what Jira is to be told of a defect
\* fails at most MaxSyncAttempts times, and once more for every pass beyond the first.
THEOREM DefectRetriesAreBounded == Spec => []DefectRetryBudget
<1>1. Core /\ BudgetInv => DefectRetryBudget
  <2> SUFFICES ASSUME Core, BudgetInv, NEW i \in Items
               PROVE  Count(i[1], i[2], {"FAILED"}) <= MaxSyncAttempts + Cardinality(Workers) - 1
    BY DEF DefectRetryBudget
  <2>1. /\ Fails(i) \in Nat /\ Cardinality(Held(i)) \in Nat
        /\ Cardinality(Workers) \in Nat /\ MaxSyncAttempts \in Nat
    BY BudgetNumbers DEF Core, DefectTypeOK
  <2>2. Fails(i) + Cardinality(Held(i)) <= MaxSyncAttempts - 1 + Cardinality(Workers)
    BY DEF BudgetInv, ItemSound
  <2>3. Fails(i) <= MaxSyncAttempts + Cardinality(Workers) - 1
    BY <2>1, <2>2
  <2> QED
    BY <2>3 DEF Fails
<1> QED
  BY <1>1, BudgetInit, BudgetNext, CoreInvariant, PTL DEF Spec

-------------------------------------------------------------------------------
\* One issue for each defect in a project, while passes do not overlap and Jira does not act late

\* d has no issue in k.
None(d, k) == \A i \in DOMAIN issues[d] : issues[d][i].project # k

\* A process about to create has found nothing where it creates, and that stays so.
OneIssueInv ==
    /\ OneIssuePerProject
    /\ \A d \in Defects, k \in Projects : late[d][k] = 0
    /\ \A p \in Processes : job[p].pc = "create" => None(job[p].defect, job[p].project)

SameProjects(d) ==
    /\ DOMAIN issues'[d] = DOMAIN issues[d]
    /\ \A i \in DOMAIN issues[d] : issues'[d][i].project = issues[d][i].project

\* The first attempt and a retry exclude each other.
LEMMA LoneCreate ==
    ASSUME Core, BudgetInv, \A v, w \in Workers : v = w,
           NEW p \in Processes, NEW q \in Processes, job[p].pc = "create", job[q].pc = "create",
           job[p].defect = job[q].defect
    PROVE  p = q
<1>1. PICK i \in Items : i = <<job[p].defect, "CREATE">>
  BY AtWork DEF Items
<1>2. Works(p, i) /\ Works(q, i) /\ ItemSound(i)
  BY <1>1 DEF Works, BudgetInv
<1>3. \A c \in Callers, w \in Workers : ~(Works(c, i) /\ Works(w, i))
  <2> SUFFICES ASSUME NEW c \in Callers, NEW w \in Workers, Works(c, i), Works(w, i) PROVE FALSE
    OBVIOUS
  <2>1. Asked(i) # {} /\ Held(i) # {}
    BY DEF Asked, Held
  <2> QED
    BY <1>2, <2>1 DEF ItemSound
<1>4. \A b, c \in Callers : Works(b, i) /\ Works(c, i) => b = c
  BY <1>2 DEF ItemSound, Asked
<1> QED
  BY <1>2, <1>3, <1>4 DEF Processes

\* A step that creates nothing, and brings nobody to.
LEMMA OneIssueStays ==
    ASSUME Core, OneIssueInv, UNCHANGED late, \A d \in Defects : SameProjects(d),
           \A p \in Processes : job'[p].pc = "create" => job'[p] = job[p]
    PROVE  OneIssueInv'
<1>1. \A p \in Processes : job'[p].pc = "create" => None(job[p].defect, job[p].project)'
  <2> SUFFICES ASSUME NEW p \in Processes, job'[p].pc = "create"
               PROVE  None(job[p].defect, job[p].project)'
    OBVIOUS
  <2>1. job'[p] = job[p] /\ job[p].pc = "create"
    OBVIOUS
  <2>2. job[p].defect \in Defects /\ None(job[p].defect, job[p].project)
    BY <2>1, AtWork DEF OneIssueInv
  <2> QED
    BY <2>1, <2>2 DEF None, SameProjects
<1>2. OneIssuePerProject'
  BY DEF OneIssueInv, OneIssuePerProject, SameProjects
<1> QED
  BY <1>1, <1>2 DEF OneIssueInv

LEMMA OneIssueNext ==
    ASSUME ~JiraIsLate, \A v, w \in Workers : v = w, Core, BudgetInv, OneIssueInv, [Next]_vars
    PROVE  OneIssueInv'
<1>0. /\ job \in [Processes -> Job] /\ issues \in [Defects -> Seq(Issue)]
      /\ late \in [Defects -> [Projects -> Nat]] /\ Workers \subseteq Processes /\ Callers \subseteq Processes
  BY DEF Core, DefectTypeOK, Processes
<1>1. ASSUME NEW p \in Processes, PostIssue(p) \/ PostFails(p) PROVE OneIssueInv'
  <2> DEFINE k == job[p].project
  <2>1. PICK d \in Defects : d = job[p].defect
    BY <1>1, AtWork DEF PostIssue, PostFails
  <2>2. job[p].pc = "create" /\ None(d, k) /\ k \in Projects /\ UNCHANGED late
    BY <1>1, <2>1, AtWork DEF PostIssue, PostFails, OneIssueInv, Sound
  <2>3. job'[p].pc = "raised" /\ \A q \in Processes \ {p} : job'[q] = job[q]
    BY <1>0, <1>1 DEF PostIssue, PostFails, Job
  <2>4. /\ UNCHANGED issues \/ issues'[d] = Append(issues[d], Opened(k))
        /\ \A f \in Defects \ {d} : issues'[f] = issues[f]
    BY <1>0, <1>1, <2>1 DEF PostIssue, PostFails
  <2>5. ASSUME NEW q \in Processes, job'[q].pc = "create" PROVE None(job[q].defect, job[q].project)'
    <3>1. q # p /\ job'[q] = job[q] /\ job[q].pc = "create"
      BY <2>3, <2>5
    <3>2. job[q].defect # d
      BY <2>1, <2>2, <3>1, LoneCreate
    <3>3. job[q].defect \in Defects /\ None(job[q].defect, job[q].project)
      BY <3>1, AtWork DEF OneIssueInv
    <3> QED
      BY <2>4, <3>1, <3>2, <3>3 DEF None
  <2>6. ASSUME NEW f \in Defects, NEW i \in DOMAIN issues'[f], NEW l \in DOMAIN issues'[f],
               issues'[f][i].project = issues'[f][l].project
        PROVE  i = l
    <3>1. CASE issues'[f] = issues[f]
      BY <2>6, <3>1 DEF OneIssueInv, OneIssuePerProject
    <3>2. CASE f = d /\ issues'[d] = Append(issues[d], Opened(k))
      <4> DEFINE n == Len(issues[d])
      <4>1. /\ n \in Nat /\ DOMAIN issues'[d] = 1..(n + 1) /\ DOMAIN issues[d] = 1..n
            /\ \A m \in 1..n : issues'[d][m] = issues[d][m]
            /\ issues'[d][n + 1].project = k
        BY <1>0, <2>2, <3>2, OneMoreIssue DEF Opened
      <4>2. \A m \in 1..n : issues'[d][m].project # k
        BY <2>2, <4>1 DEF None
      <4>3. \A m, o \in 1..n : issues'[d][m].project = issues'[d][o].project => m = o
        BY <4>1 DEF OneIssueInv, OneIssuePerProject
      <4>4. i \in 1..(n + 1) /\ l \in 1..(n + 1) /\ issues'[d][i].project = issues'[d][l].project
        BY <2>6, <3>2, <4>1
      <4> HIDE DEF n, k
      <4> QED
        BY <4>1, <4>2, <4>3, <4>4
    <3> QED
      BY <2>4, <3>1, <3>2
  <2>7. \A f \in Defects, l \in Projects : late'[f][l] = 0
    BY <2>2 DEF OneIssueInv
  <2> QED
    BY <2>5, <2>6, <2>7 DEF OneIssueInv, OneIssuePerProject
<1>2. ASSUME NEW p \in Processes, FindNone(p) PROVE OneIssueInv'
  <2>1. job[p].defect \in Defects /\ None(job[p].defect, project)
    BY <1>2, AtWork DEF FindNone, Raising, Labelled, None
  <2>2. /\ job'[p].defect = job[p].defect /\ job'[p].project = project
        /\ UNCHANGED <<issues, late>> /\ \A q \in Processes \ {p} : job'[q] = job[q]
    BY <1>0, <1>2 DEF FindNone, ToCreate, Job
  <2> QED
    BY <2>1, <2>2 DEF OneIssueInv, OneIssuePerProject, None
<1>3. ASSUME NEW p \in Processes, NEW answer \in Answered, CallJira(p, answer) PROVE OneIssueInv'
  <2>1. job'[p].pc = "called" /\ UNCHANGED late /\ \A q \in Processes \ {p} : job'[q] = job[q]
    BY <1>0, <1>3 DEF CallJira, Job
  <2>2. ASSUME NEW d \in Defects PROVE SameProjects(d)
    <3> DEFINE m == job[p].key
    <3>1. \/ issues'[d] = issues[d]
          \/ issues'[d] = [issues[d] EXCEPT ![m].status = "DONE"]
      BY <1>0, <1>3 DEF CallJira
    <3>2. issues[d] \in Seq(Issue)
      BY <1>0
    <3>3. ASSUME issues'[d] = [issues[d] EXCEPT ![m].status = "DONE"] PROVE SameProjects(d)
      <4>1. \A i \in DOMAIN issues[d] : issues[d][i] \in Issue
        BY <3>2
      <4>2. \A i \in DOMAIN issues[d] : [issues[d][i] EXCEPT !.status = "DONE"].project = issues[d][i].project
        BY <4>1 DEF Issue
      <4>3. DOMAIN issues'[d] = DOMAIN issues[d]
        BY <3>3
      <4> QED
        BY <3>3, <4>2, <4>3 DEF SameProjects
    <3> QED
      BY <3>1, <3>3 DEF SameProjects
  <2> QED
    BY <2>1, <2>2, OneIssueStays
\* The other steps leave Jira alone and take nobody to a create.
<1>4. ASSUME UNCHANGED <<issues, late>>, NEW p \in Processes, job'[p].pc # "create",
             \A q \in Processes \ {p} : job'[q] = job[q]
      PROVE  OneIssueInv'
  BY <1>4, OneIssueStays DEF SameProjects
<1>5. ASSUME NEW p \in Processes, SettleStep(p) \/ SwallowError(p) PROVE OneIssueInv'
  <2>1. CASE \/ NothingToRaise(p) \/ Adopt(p) \/ SearchFails(p) \/ RecordRaise(p) \/ ReadForComment(p)
             \/ PostComment(p) \/ ReadForClose(p) \/ RecordCall(p) \/ SwallowError(p)
    <3>1. UNCHANGED <<issues, late>> /\ \A q \in Processes \ {p} : job'[q] = job[q]
      BY <1>5, <2>1, SettleWorks DEF NothingToRaise, Adopt, SearchFails, RecordRaise, ReadForComment,
         PostComment, ReadForClose, RecordCall, SwallowError
    <3>2. CASE Done(p)
      <4>1. job'[p] = NoJob /\ NoJob.pc # "create"
        BY <1>0, <3>2 DEF Done, NoJob
      <4> QED
        BY <1>4, <3>1, <4>1
    <3>3. CASE \E pc \in {"post", "close"} : Become(p, pc)
      <4>1. job'[p].pc # "create"
        BY <1>0, <3>3 DEF Become, Job
      <4> QED
        BY <1>4, <3>1, <4>1
    <3>4. CASE Adopt(p) \/ SearchFails(p)
      <4>1. job'[p].pc # "create"
        BY <1>0, <3>4 DEF Adopt, SearchFails, Job
      <4> QED
        BY <1>4, <3>1, <4>1
    <3>5. CASE ReadForClose(p) /\ ~Done(p)
      <4>1. job'[p].pc # "create"
        BY <1>0, <3>5 DEF ReadForClose, Job
      <4> QED
        BY <1>4, <3>1, <4>1
    <3> QED
      BY <2>1, <3>2, <3>3, <3>4, <3>5 DEF NothingToRaise, RecordRaise, ReadForComment, PostComment,
         AfterComment, RecordCall, SwallowError
  <2> QED
    BY <1>1, <1>2, <1>3, <1>5, <2>1 DEF SettleStep, Answered
<1>6. ASSUME NEW c \in Callers, RequestStep(c) PROVE OneIssueInv'
  <2>1. UNCHANGED <<issues, late>> /\ c \in Processes
    BY <1>0, <1>6 DEF RequestStep, CreateDefect, BeginEdit, BeginMove, CommitEdit, CommitMove, Conflict
  <2>2. ASSUME NEW j, j.pc # "create", job' = [job EXCEPT ![c] = j] PROVE OneIssueInv'
    BY <1>0, <1>4, <2>1, <2>2
  <2>3. ASSUME NEW d \in Defects, NEW ranked \in BOOLEAN, CreateDefect(c, d, ranked) PROVE OneIssueInv'
    BY <2>2, <2>3 DEF CreateDefect, NoJob
  <2>4. ASSUME NEW d \in Defects, NEW ranked \in BOOLEAN, BeginEdit(c, d, ranked) PROVE OneIssueInv'
    BY <2>2, <2>4 DEF BeginEdit, NoJob
  <2>5. ASSUME NEW d \in Defects, NEW to \in Statuses, BeginMove(c, d, to) PROVE OneIssueInv'
    BY <2>2, <2>5 DEF BeginMove, NoJob
  <2>6. CASE CommitEdit(c) \/ Conflict(c)
    BY <2>2, <2>6 DEF CommitEdit, Conflict, Done, NoJob
  <2>7. CASE CommitMove(c)
    <3>1. job'[c].pc = "comment" /\ \A q \in Processes \ {c} : job'[q] = job[q]
      BY <1>0, <2>1, <2>7 DEF CommitMove, Become, Job
    <3> QED
      BY <1>4, <2>1, <3>1
  <2> QED
    BY <1>6, <2>3, <2>4, <2>5, <2>6, <2>7 DEF RequestStep
<1>7. ASSUME NEW w \in Workers, WorkStep(w) PROVE OneIssueInv'
  <2>1. UNCHANGED <<issues, late>> /\ w \in Processes
    BY <1>0, <1>7 DEF WorkStep, BeginPass, Abandon, Retry, EndPass
  <2>2. UNCHANGED job \/ (job'[w].pc # "create" /\ \A q \in Processes \ {w} : job'[q] = job[q])
    <3>1. ASSUME NEW i \in Items, Retry(w, i)
          PROVE  job'[w].pc # "create" /\ \A q \in Processes \ {w} : job'[q] = job[q]
      BY <1>0, <2>1, <3>1 DEF Retry, NoJob
    <3> QED
      BY <1>7, <3>1 DEF WorkStep, BeginPass, Abandon, EndPass
  <2> QED
    BY <1>4, <2>1, <2>2, OneIssueStays DEF SameProjects
<1>8. CASE Environment \/ UNCHANGED vars
  <2>1. ASSUME NEW d \in Defects, NEW k \in Projects, CreateLate(d, k) PROVE FALSE
    BY <1>0, <2>1 DEF CreateLate, OneIssueInv
  <2>2. UNCHANGED <<issues, late>> /\ (UNCHANGED job \/ \A p \in Processes : job'[p] = NoJob)
    BY <1>8, <2>1 DEF Environment, CreateInline, ImportDefect, RouteProduct, Crash, vars
  <2>3. NoJob.pc # "create"
    BY DEF NoJob
  <2> QED
    BY <2>2, <2>3, OneIssueStays DEF SameProjects
<1> QED
  BY <1>5, <1>6, <1>7, <1>8 DEF Next

\* ADR-0006, "no second issue is created": for any number of requests, lost answers, retries and
\* crashes, a defect has one issue at most in each project, however often the product is routed
\* elsewhere and back, as long as one pass runs at a time and Jira does not act on a request whose
\* caller has given up.  (A product that names another project by the time of the retry has its
\* defect raised there again; the run DefectSyncDuplicates shows two passes that overlap.)
THEOREM NoSecondIssue ==
    ASSUME ~JiraIsLate, \A v, w \in Workers : v = w
    PROVE  Spec => []OneIssuePerProject
<1>1. Init => OneIssueInv
  BY DEF Init, OneIssueInv, OneIssuePerProject, NoJob
<1>2. OneIssueInv => OneIssuePerProject
  BY DEF OneIssueInv
<1>3. Core /\ BudgetInv /\ OneIssueInv /\ [Next]_vars => OneIssueInv'
  BY OneIssueNext
<1> QED
  BY <1>1, <1>2, <1>3, BudgetInit, BudgetNext, CoreInvariant, PTL DEF Spec

\* The promise of the documentation itself, of a product that is never given another project
\* than the one it began with: one issue for each defect.
COROLLARY NoSecondIssueInOneProject ==
    ASSUME ~JiraIsLate, \A v, w \in Workers : v = w, \A k, l \in Projects : k = l
    PROVE  Spec => []OneIssuePerDefect
<1>1. DefectTypeOK /\ OneIssuePerProject => OneIssuePerDefect
  <2> SUFFICES ASSUME DefectTypeOK, OneIssuePerProject, NEW d \in Defects
               PROVE  Len(issues[d]) <= 1
    BY DEF OneIssuePerDefect
  <2>1. issues[d] \in Seq(Issue) /\ Len(issues[d]) \in Nat /\ DOMAIN issues[d] = 1..Len(issues[d])
    BY DEF DefectTypeOK
  <2>2. \A i \in DOMAIN issues[d] : issues[d][i].project \in Projects
    <3>1. \A i \in DOMAIN issues[d] : issues[d][i] \in Issue
      BY <2>1
    <3> QED
      BY <3>1 DEF Issue
  <2>3. \A i, l \in 1..Len(issues[d]) : i = l
    BY <2>1, <2>2 DEF OneIssuePerProject
  <2>4. ASSUME Len(issues[d]) > 1 PROVE FALSE
    <3>1. 1 \in 1..Len(issues[d]) /\ 2 \in 1..Len(issues[d])
      BY <2>1, <2>4
    <3> QED
      BY <2>3, <3>1
  <2> QED
    BY <2>1, <2>4
<1> QED
  BY <1>1, NoSecondIssue, DefectTypeCorrect, PTL
====
