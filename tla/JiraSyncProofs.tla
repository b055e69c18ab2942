---- MODULE JiraSyncProofs ----
(* Proofs about JiraSync, for any number of runs, issues and overlapping retry *)
(* passes, and any retry budget.                                               *)
EXTENDS JiraSync, FiniteSetTheorems, TLAPS

-------------------------------------------------------------------------------
\* Type correctness, with what the requests in flight hold

SettleSound(e) ==
    /\ settle[e].pc = "none" => run[e].state # "FINALIZED"
    /\ settle[e].pc = "finalizing" => run[e].state = "IN_PROGRESS"
    /\ settle[e].pc \in AfterCommit => run[e].state = "FINALIZED" /\ run[e].key \in IssueKeys
    /\ settle[e].pc = "answered" => settle[e].answer \in Answers
    /\ settle[e].pc \in {"over", "lost"} => run[e].state = "FINALIZED"

PassSound(w) ==
    /\ \A k \in worker[w].abandon \cup worker[w].retry : worker[w].exec[k] \in Executions
    /\ worker[w].pc = "answered" => /\ worker[w].key \in IssueKeys
                                    /\ worker[w].exec[worker[w].key] \in Executions
                                    /\ worker[w].answer \in Answers

Base ==
    /\ SyncTypeOK
    /\ \A e \in Executions : SettleSound(e)
    /\ \A w \in Workers : PassSound(w)

LEMMA NewestCarries ==
    ASSUME NEW k, Carrying(k) # {} PROVE Newest(k) \in Carrying(k)
<1>1. Carrying(k) \in SUBSET Executions
  BY DEF Carrying
<1>2. \E e \in Carrying(k) : \A f \in Carrying(k) : f <= e
  BY <1>1, SyncAssumption
<1> QED
  BY <1>2 DEF Newest

\* A Finalized run never changes again.
LEMMA FinalizedIsFinal ==
    ASSUME RecordTypeOK, [SyncNext]_allVars, NEW e \in Executions, run[e].state = "FINALIZED"
    PROVE  run'[e] = run[e]
<1>1. CASE \E f \in Executions : PlanningStep(f)
  BY <1>1 DEF RecordTypeOK, PlanningStep, Plan, Edit, Start, OpenFinalize, PlanRun, EditRun, StartRun
<1>2. CASE \E f \in Executions : SettleStep(f) \/ SwallowError(f)
  BY <1>2 DEF RecordTypeOK, SettleStep, SwallowError, CommitFinalize, FinalizeRun, SettleComment,
     ReadSiblings, ReadLastSuccess, RecordSkip, CallJira, RecordAnswer
<1>3. CASE \E w \in Workers : WorkStep(w) \/ PassThrows(w)
  BY <1>3 DEF WorkStep, PassThrows, BeginPass, Abandon, CallRetry, RecordRetry, EndPass
<1>4. CASE Crash \/ (\E k \in IssueKeys : MoveByHand(k)) \/ UNCHANGED allVars
  BY <1>4 DEF Crash, MoveByHand, allVars
<1>5. CASE \E u \in Leavers : LeaveStep(u)
  BY <1>5 DEF LeaveStep, LoadPending, Disconnect, DisconnectThrows
<1> QED
  BY <1>1, <1>2, <1>3, <1>4, <1>5 DEF SyncNext

LEMMA BaseInit == SyncInit => Base
<1> SUFFICES ASSUME SyncInit PROVE Base
  OBVIOUS
<1> USE DEF SyncInit
<1>1. RecordTypeOK
  BY DEF RecordInit, RecordTypeOK, AbsentRun, RunRow, States
<1>2. NotSettling \in Settling
  BY DEF NotSettling, Settling
<1>3. IdlePass \in Pass
  BY DEF IdlePass, Pass
<1>4. SyncTypeOK
  BY <1>1, <1>2, <1>3, SyncAssumption DEF SyncTypeOK
<1>5. \A e \in Executions : SettleSound(e)
  BY DEF SettleSound, NotSettling, AfterCommit, RecordInit, AbsentRun
<1>6. \A w \in Workers : PassSound(w)
  BY DEF PassSound, IdlePass
<1> QED
  BY <1>4, <1>5, <1>6 DEF Base

\* Steps that change no request in flight keep both families of them sound.
LEMMA PassesKept ==
    ASSUME Base, UNCHANGED worker PROVE \A w \in Workers : PassSound(w)'
BY DEF Base, PassSound

\* Planning and starting: only runs that are not being finalized change.
LEMMA BasePlanning ==
    ASSUME Base, NEW e \in Executions, PlanningStep(e) PROVE Base'
<1>0. SyncTypeOK /\ RecordTypeOK
  BY DEF Base, SyncTypeOK
<1>1. ASSUME NEW u \in Users, NEW k \in IssueKeys \cup {NoKey}, Plan(e, u, k) \/ Edit(e, u, k)
      PROVE  Base'
  <2>1. UNCHANGED syncVars /\ run[e].state \in {"ABSENT", "PLANNED"}
    BY <1>1 DEF Plan, Edit, PlanRun, EditRun
  <2>2. RecordTypeOK' /\ (run'[e].state = "PLANNED") /\ \A f \in Executions \ {e} : run'[f] = run[f]
    BY <1>0, <1>1 DEF RecordTypeOK, RunRow, States, Plan, Edit, PlanRun, EditRun
  <2>3. SyncTypeOK'
    BY <1>0, <2>1, <2>2 DEF SyncTypeOK, syncVars
  <2>4. \A f \in Executions : SettleSound(f)'
    BY <2>1, <2>2 DEF Base, SettleSound, syncVars
  <2> QED
    BY <2>1, <2>3, <2>4, PassesKept DEF Base, syncVars
<1>2. ASSUME Start(e) PROVE Base'
  <2>1. UNCHANGED syncVars /\ run[e].state = "PLANNED"
    BY <1>2 DEF Start, StartRun
  <2>2. RecordTypeOK' /\ run'[e].state = "IN_PROGRESS" /\ \A f \in Executions \ {e} : run'[f] = run[f]
    BY <1>0, <1>2 DEF RecordTypeOK, RunRow, States, Start, StartRun
  <2>3. SyncTypeOK'
    BY <1>0, <2>1, <2>2 DEF SyncTypeOK, syncVars
  <2>4. \A f \in Executions : SettleSound(f)'
    BY <2>1, <2>2 DEF Base, SettleSound, syncVars
  <2> QED
    BY <2>1, <2>3, <2>4, PassesKept DEF Base, syncVars
<1>3. ASSUME OpenFinalize(e) PROVE Base'
  <2>1. UNCHANGED <<run, worker>> /\ run[e].state = "IN_PROGRESS"
    BY <1>3 DEF OpenFinalize
  <2>2. settle' = [settle EXCEPT ![e] = [settle[e] EXCEPT !.pc = "finalizing"]]
    BY <1>3 DEF OpenFinalize
  <2>3. [settle[e] EXCEPT !.pc = "finalizing"] \in Settling
    <3>1. settle[e] \in Settling
      BY <1>0 DEF SyncTypeOK
    <3> QED
      BY <3>1 DEF Settling
  <2>4. settle' \in [Executions -> Settling] /\ settle'[e].pc = "finalizing"
        /\ \A f \in Executions \ {e} : settle'[f] = settle[f]
    BY <1>0, <2>2, <2>3 DEF SyncTypeOK, Settling
  <2>5. stamp' \in [Executions -> Nat]
    BY <1>0, <1>3 DEF OpenFinalize, SyncTypeOK
  <2>6. SyncTypeOK'
    BY <1>0, <1>3, <2>4, <2>5 DEF SyncTypeOK, OpenFinalize, RecordTypeOK
  <2>7. SettleSound(e)'
    BY <2>1, <2>4 DEF SettleSound, AfterCommit
  <2>8. \A f \in Executions : SettleSound(f)'
    BY <2>1, <2>4, <2>7 DEF Base, SettleSound
  <2> QED
    BY <2>1, <2>6, <2>8, PassesKept DEF Base
<1> QED
  BY <1>1, <1>2, <1>3 DEF PlanningStep

\* A step of e's request that moves it from q to a sound place and changes no run.
LEMMA SettleMoves ==
    ASSUME Base, NEW e \in Executions, NEW q \in Settling, settle' = [settle EXCEPT ![e] = q],
           settle[e].pc \in AfterCommit, q.pc \in AfterCommit \cup {"over", "lost"},
           q.pc = "answered" => q.answer \in Answers, UNCHANGED <<run, worker>>
    PROVE  /\ settle' \in [Executions -> Settling]
           /\ \A f \in Executions : SettleSound(f)'
           /\ \A w \in Workers : PassSound(w)'
<1>1. SyncTypeOK
  BY DEF Base
<1>2. settle' \in [Executions -> Settling] /\ settle'[e] = q
      /\ \A f \in Executions \ {e} : settle'[f] = settle[f]
  BY <1>1 DEF SyncTypeOK
<1>3. SettleSound(e)'
  BY <1>2 DEF Base, SettleSound, AfterCommit
<1>4. \A f \in Executions : SettleSound(f)'
  BY <1>2, <1>3 DEF Base, SettleSound
<1> QED
  BY <1>2, <1>4, PassesKept

LEMMA RecordType ==
    ASSUME SyncTypeOK, NEW k \in IssueKeys, NEW e \in Executions,
           NEW a \in {"ATTEMPTED", "SKIPPED", "RETRIED", "ABANDONED"},
           NEW o \in {"SUCCEEDED", "FAILED", "SKIPPED", "ABANDONED"},
           NEW b \in SUBSET Executions, Record(k, e, a, o, b)
    PROVE  attempts' \in Seq(Attempt)
<1>1. [key |-> k, exec |-> e, action |-> a, outcome |-> o, blockers |-> b] \in Attempt
  BY DEF Attempt
<1> QED
  BY <1>1 DEF Record, SyncTypeOK

LEMMA JiraType ==
    ASSUME SyncTypeOK, NEW k \in IssueKeys, NEW answer, Jira(k, answer)
    PROVE  issue' \in [IssueKeys -> {"OPEN", "DONE"}]
BY DEF SyncTypeOK, Jira

LEMMA BaseSettle ==
    ASSUME Base, NEW e \in Executions, SettleStep(e) \/ SwallowError(e) PROVE Base'
<1>0. SyncTypeOK /\ RecordTypeOK /\ SettleSound(e) /\ settle[e] \in Settling /\ run[e] \in RunRow
  BY DEF Base, SyncTypeOK, RecordTypeOK
<1> USE DEF AfterCommit
<1>1. ASSUME NEW res \in Outcomes, CommitFinalize(e, res) PROVE Base'
  <2> DEFINE pc == IF run[e].key = NoKey THEN "over" ELSE IF CommentOnFinalize THEN "comment" ELSE "siblings"
             q == [settle[e] EXCEPT !.pc = pc]
  <2>1. q \in Settling /\ q.pc = pc
    BY <1>0 DEF Settling
  <2>2. settle' = [settle EXCEPT ![e] = q]
    BY <1>1 DEF CommitFinalize
  <2>3. settle' \in [Executions -> Settling] /\ settle'[e].pc = pc
        /\ \A f \in Executions \ {e} : settle'[f] = settle[f]
    BY <1>0, <2>1, <2>2 DEF SyncTypeOK
  <2>4. RecordTypeOK' /\ run'[e].state = "FINALIZED" /\ run'[e].key = run[e].key
        /\ \A f \in Executions \ {e} : run'[f] = run[f]
    BY <1>0, <1>1 DEF CommitFinalize, FinalizeRun, RecordTypeOK, RunRow, States
  <2>5. SyncTypeOK'
    BY <1>0, <1>1, <2>3, <2>4 DEF SyncTypeOK, CommitFinalize
  <2>6. SettleSound(e)'
    BY <1>0, <2>3, <2>4 DEF SettleSound, RunRow
  <2>7. \A f \in Executions : SettleSound(f)'
    BY <2>3, <2>4, <2>6 DEF Base, SettleSound
  <2>8. UNCHANGED worker
    BY <1>1 DEF CommitFinalize
  <2> QED
    BY <2>5, <2>7, <2>8, PassesKept DEF Base
<1>2. ASSUME NEW recorded \in BOOLEAN, SettleComment(e, recorded) PROVE Base'
  <2> DEFINE q == [settle[e] EXCEPT !.pc = "siblings"]
  <2>1. q \in Settling /\ q.pc = "siblings" /\ settle' = [settle EXCEPT ![e] = q]
    BY <1>0, <1>2 DEF Settling, SettleComment
  <2>2. settle[e].pc \in AfterCommit /\ UNCHANGED <<run, worker>>
    BY <1>2 DEF SettleComment
  <2>3. /\ settle' \in [Executions -> Settling] /\ \A f \in Executions : SettleSound(f)'
        /\ \A w \in Workers : PassSound(w)'
    BY <2>1, <2>2, SettleMoves
  <2>4. SyncTypeOK'
    BY <1>0, <1>2, <2>3 DEF SettleComment, SyncTypeOK, RecordTypeOK
  <2> QED
    BY <2>3, <2>4 DEF Base
<1>3. ASSUME ReadSiblings(e) PROVE Base'
  <2> DEFINE S == Carrying(run[e].key)
             q == [pc |-> IF ShouldTransition(S) THEN "eligible" ELSE "skip",
                   siblings |-> IF ShouldTransition(S) THEN S ELSE Blockers(S), answer |-> "NONE"]
  <2>1. q \in Settling
    BY DEF Settling, Carrying, Blockers
  <2>2. q.pc \in {"eligible", "skip"} /\ settle' = [settle EXCEPT ![e] = q]
    BY <1>3 DEF ReadSiblings
  <2>3. settle[e].pc \in AfterCommit /\ UNCHANGED <<run, worker>>
    BY <1>3 DEF ReadSiblings
  <2> HIDE DEF q
  <2>4. /\ settle' \in [Executions -> Settling] /\ \A f \in Executions : SettleSound(f)'
        /\ \A w \in Workers : PassSound(w)'
    BY <2>1, <2>2, <2>3, SettleMoves
  <2>5. SyncTypeOK'
    BY <1>0, <1>3, <2>4 DEF ReadSiblings, SyncTypeOK, RecordTypeOK
  <2> QED
    BY <2>4, <2>5 DEF Base
<1>4. ASSUME ReadLastSuccess(e) PROVE Base'
  <2>1. PICK q \in Settling : q.pc \in {"skip", "call"} /\ settle' = [settle EXCEPT ![e] = q]
    <3>1. CASE AlreadyCovers(run[e].key, settle[e].siblings)
      <4>1. [settle[e] EXCEPT !.pc = "skip", !.siblings = {}] \in Settling
        BY <1>0 DEF Settling
      <4>2. settle' = [settle EXCEPT ![e] = [settle[e] EXCEPT !.pc = "skip", !.siblings = {}]]
        BY <1>4, <3>1 DEF ReadLastSuccess
      <4> QED
        BY <1>0, <4>1, <4>2 DEF Settling
    <3>2. CASE ~AlreadyCovers(run[e].key, settle[e].siblings)
      <4>1. [settle[e] EXCEPT !.pc = "call"] \in Settling
        BY <1>0 DEF Settling
      <4>2. settle' = [settle EXCEPT ![e] = [settle[e] EXCEPT !.pc = "call"]]
        BY <1>4, <3>2 DEF ReadLastSuccess
      <4> QED
        BY <1>0, <4>1, <4>2 DEF Settling
    <3> QED
      BY <3>1, <3>2
  <2>2. settle[e].pc \in AfterCommit /\ UNCHANGED <<run, worker>>
    BY <1>4 DEF ReadLastSuccess
  <2>3. /\ settle' \in [Executions -> Settling] /\ \A f \in Executions : SettleSound(f)'
        /\ \A w \in Workers : PassSound(w)'
    BY <2>1, <2>2, SettleMoves
  <2>4. SyncTypeOK'
    BY <1>0, <1>4, <2>3 DEF ReadLastSuccess, SyncTypeOK, RecordTypeOK
  <2> QED
    BY <2>3, <2>4 DEF Base
<1>5. ASSUME RecordSkip(e) \/ RecordAnswer(e) PROVE Base'
  <2> DEFINE q == [NotSettling EXCEPT !.pc = "over"]
  <2>1. q \in Settling /\ q.pc = "over" /\ settle' = [settle EXCEPT ![e] = q]
    BY <1>5 DEF Settling, NotSettling, RecordSkip, RecordAnswer
  <2>2. settle[e].pc \in AfterCommit /\ UNCHANGED <<run, worker>>
    BY <1>5 DEF RecordSkip, RecordAnswer
  <2>3. /\ settle' \in [Executions -> Settling] /\ \A f \in Executions : SettleSound(f)'
        /\ \A w \in Workers : PassSound(w)'
    BY <2>1, <2>2, SettleMoves
  <2>4. run[e].key \in IssueKeys /\ settle[e].siblings \in SUBSET Executions
    BY <1>0, <2>2 DEF SettleSound, Settling
  <2>5. attempts' \in Seq(Attempt)
    <3>1. CASE RecordSkip(e)
      BY <1>0, <2>4, <3>1, RecordType DEF RecordSkip
    <3>2. CASE RecordAnswer(e)
      <4>1. settle[e].answer \in {"SUCCEEDED", "FAILED"}
        BY <1>0, <3>2 DEF RecordAnswer, SettleSound, Answers
      <4> QED
        BY <1>0, <2>4, <3>2, <4>1, RecordType DEF RecordAnswer
    <3> QED
      BY <1>5, <3>1, <3>2
  <2>6. SyncTypeOK'
    BY <1>0, <1>5, <2>3, <2>5 DEF RecordSkip, RecordAnswer, SyncTypeOK, RecordTypeOK
  <2> QED
    BY <2>3, <2>6 DEF Base
<1>6. ASSUME NEW answer \in Answers, CallJira(e, answer) PROVE Base'
  <2> DEFINE q == [settle[e] EXCEPT !.pc = "answered", !.answer = answer]
  <2>1. q \in Settling /\ q.pc = "answered" /\ q.answer = answer
    BY <1>0 DEF Settling, Answers
  <2>2. settle' = [settle EXCEPT ![e] = q]
    BY <1>0, <1>6 DEF CallJira, SyncTypeOK
  <2>3. settle[e].pc \in AfterCommit /\ UNCHANGED <<run, worker>>
    BY <1>6 DEF CallJira
  <2>4. /\ settle' \in [Executions -> Settling] /\ \A f \in Executions : SettleSound(f)'
        /\ \A w \in Workers : PassSound(w)'
    BY <2>1, <2>2, <2>3, SettleMoves
  <2>5. issue' \in [IssueKeys -> {"OPEN", "DONE"}]
    BY <1>0, <1>6, <2>3, JiraType DEF CallJira, SettleSound
  <2>6. SyncTypeOK'
    BY <1>0, <1>6, <2>4, <2>5 DEF CallJira, SyncTypeOK, RecordTypeOK
  <2> QED
    BY <2>4, <2>6 DEF Base
<1>7. ASSUME SwallowError(e) PROVE Base'
  <2> DEFINE q == [NotSettling EXCEPT !.pc = "lost"]
  <2>1. q \in Settling /\ q.pc = "lost" /\ settle' = [settle EXCEPT ![e] = q]
    BY <1>7 DEF Settling, NotSettling, SwallowError
  <2>2. settle[e].pc \in AfterCommit /\ UNCHANGED <<run, worker>>
    BY <1>7 DEF SwallowError
  <2>3. /\ settle' \in [Executions -> Settling] /\ \A f \in Executions : SettleSound(f)'
        /\ \A w \in Workers : PassSound(w)'
    BY <2>1, <2>2, SettleMoves
  <2>4. SyncTypeOK'
    BY <1>0, <1>7, <2>3 DEF SwallowError, SyncTypeOK, RecordTypeOK
  <2> QED
    BY <2>3, <2>4 DEF Base
<1> QED
  BY <1>1, <1>2, <1>3, <1>4, <1>5, <1>6, <1>7 DEF SettleStep

LEMMA SettlesKept ==
    ASSUME Base, UNCHANGED <<run, settle>> PROVE \A e \in Executions : SettleSound(e)'
BY DEF Base, SettleSound

\* A pass that is replaced by a sound one.
LEMMA PassMoves ==
    ASSUME Base, NEW w \in Workers, NEW q \in Pass, worker' = [worker EXCEPT ![w] = q],
           \A k \in q.abandon \cup q.retry : q.exec[k] \in Executions,
           q.pc = "answered" => /\ q.key \in IssueKeys /\ q.exec[q.key] \in Executions
                                /\ q.answer \in Answers
    PROVE  worker' \in [Workers -> Pass] /\ \A v \in Workers : PassSound(v)'
<1>1. SyncTypeOK
  BY DEF Base
<1>2. worker' \in [Workers -> Pass] /\ worker'[w] = q /\ \A v \in Workers \ {w} : worker'[v] = worker[v]
  BY <1>1 DEF SyncTypeOK
<1>3. PassSound(w)'
  BY <1>2 DEF PassSound
<1>4. \A v \in Workers : PassSound(v)'
  BY <1>2, <1>3 DEF Base, PassSound
<1> QED
  BY <1>2, <1>4

LEMMA BaseWork ==
    ASSUME Base, NEW w \in Workers, WorkStep(w) \/ PassThrows(w) PROVE Base'
<1>0. SyncTypeOK /\ RecordTypeOK /\ PassSound(w) /\ worker[w] \in Pass
  BY DEF Base, SyncTypeOK
<1>1. IdlePass \in Pass /\ IdlePass.abandon = {} /\ IdlePass.retry = {} /\ IdlePass.pc = "idle"
  BY DEF IdlePass, Pass
<1>2. ASSUME BeginPass(w) PROVE Base'
  <2> DEFINE att == [k \in IssueKeys |-> IF k \in Queue THEN Newest(k) ELSE 0]
             q == [pc |-> "working", abandon |-> {k \in Queue : Exhausted(k)},
                   retry |-> {k \in Queue : ~Exhausted(k)}, exec |-> att, key |-> NoKey, answer |-> "NONE"]
  <2>1. \A k \in Queue : k \in IssueKeys /\ Newest(k) \in Executions
    BY NewestCarries DEF Queue, Carrying
  <2>2. att \in [IssueKeys -> Executions \cup {0}] /\ \A k \in Queue : att[k] \in Executions
    BY <2>1
  <2>3. Queue \subseteq IssueKeys
    BY DEF Queue
  <2> HIDE DEF att
  <2>4. q \in Pass
    BY <2>2, <2>3 DEF Pass
  <2>5. q.pc = "working" /\ \A k \in q.abandon \cup q.retry : q.exec[k] \in Executions
    BY <2>2
  <2>6. worker' = [worker EXCEPT ![w] = q]
    BY <1>2 DEF BeginPass, att
  <2> HIDE DEF q
  <2>7. worker' \in [Workers -> Pass] /\ \A v \in Workers : PassSound(v)'
    BY <2>4, <2>5, <2>6, PassMoves
  <2>8. SyncTypeOK' /\ UNCHANGED <<run, settle>>
    BY <1>0, <1>2, <2>7 DEF BeginPass, SyncTypeOK, RecordTypeOK
  <2> QED
    BY <2>7, <2>8, SettlesKept DEF Base
<1>3. ASSUME NEW k \in IssueKeys, Abandon(w, k) PROVE Base'
  <2> DEFINE q == [worker[w] EXCEPT !.abandon = worker[w].abandon \ {k}]
  <2>1. /\ q \in Pass /\ q.pc = "working" /\ q.exec = worker[w].exec
        /\ q.abandon \subseteq worker[w].abandon /\ q.retry = worker[w].retry
    BY <1>0, <1>3 DEF Pass, Abandon
  <2>2. worker' = [worker EXCEPT ![w] = q]
    BY <1>3 DEF Abandon
  <2> HIDE DEF q
  <2>3. worker' \in [Workers -> Pass] /\ \A v \in Workers : PassSound(v)'
    BY <1>0, <2>1, <2>2, PassMoves DEF PassSound
  <2>4. worker[w].exec[k] \in Executions
    BY <1>0, <1>3 DEF PassSound, Abandon
  <2>5. attempts' \in Seq(Attempt)
    BY <1>0, <1>3, <2>4, RecordType DEF Abandon
  <2>6. SyncTypeOK' /\ UNCHANGED <<run, settle>>
    BY <1>0, <1>3, <2>3, <2>5 DEF Abandon, SyncTypeOK, RecordTypeOK
  <2> QED
    BY <2>3, <2>6, SettlesKept DEF Base
<1>4. ASSUME NEW k \in IssueKeys, NEW answer \in Answers, CallRetry(w, k, answer) PROVE Base'
  <2> DEFINE q == [worker[w] EXCEPT !.pc = "answered", !.retry = worker[w].retry \ {k}, !.key = k,
                                    !.answer = answer]
  <2>1. /\ q \in Pass /\ q.pc = "answered" /\ q.exec = worker[w].exec /\ q.key = k /\ q.answer = answer
        /\ q.abandon = worker[w].abandon /\ q.retry \subseteq worker[w].retry
    BY <1>0 DEF Pass, Answers
  <2>2. worker' = [worker EXCEPT ![w] = q]
    BY <1>0, <1>4 DEF CallRetry, SyncTypeOK
  <2>3. worker[w].exec[k] \in Executions
    BY <1>0, <1>4 DEF PassSound, CallRetry
  <2> HIDE DEF q
  <2>4. worker' \in [Workers -> Pass] /\ \A v \in Workers : PassSound(v)'
    BY <1>0, <2>1, <2>2, <2>3, PassMoves DEF PassSound
  <2>5. issue' \in [IssueKeys -> {"OPEN", "DONE"}]
    BY <1>0, <1>4, JiraType DEF CallRetry
  <2>6. SyncTypeOK' /\ UNCHANGED <<run, settle>>
    BY <1>0, <1>4, <2>4, <2>5 DEF CallRetry, SyncTypeOK, RecordTypeOK
  <2> QED
    BY <2>4, <2>6, SettlesKept DEF Base
<1>5. ASSUME RecordRetry(w) PROVE Base'
  <2> DEFINE q == [worker[w] EXCEPT !.pc = "working", !.key = NoKey, !.answer = "NONE"]
  <2>1. /\ q \in Pass /\ q.pc = "working" /\ q.exec = worker[w].exec
        /\ q.abandon = worker[w].abandon /\ q.retry = worker[w].retry
    BY <1>0 DEF Pass
  <2>2. worker' = [worker EXCEPT ![w] = q]
    BY <1>0, <1>5 DEF RecordRetry, SyncTypeOK
  <2> HIDE DEF q
  <2>3. worker' \in [Workers -> Pass] /\ \A v \in Workers : PassSound(v)'
    BY <1>0, <2>1, <2>2, PassMoves DEF PassSound
  <2>4. /\ worker[w].key \in IssueKeys /\ worker[w].exec[worker[w].key] \in Executions
        /\ worker[w].answer \in {"SUCCEEDED", "FAILED"}
    BY <1>0, <1>5 DEF PassSound, RecordRetry, Answers
  <2>5. attempts' \in Seq(Attempt)
    BY <1>0, <1>5, <2>4, RecordType DEF RecordRetry
  <2>6. SyncTypeOK' /\ UNCHANGED <<run, settle>>
    BY <1>0, <1>5, <2>3, <2>5 DEF RecordRetry, SyncTypeOK, RecordTypeOK
  <2> QED
    BY <2>3, <2>6, SettlesKept DEF Base
<1>6. ASSUME EndPass(w) \/ PassThrows(w) PROVE Base'
  <2>1. worker' = [worker EXCEPT ![w] = IdlePass] /\ UNCHANGED <<run, settle>>
    BY <1>6 DEF EndPass, PassThrows
  <2>2. worker' \in [Workers -> Pass] /\ \A v \in Workers : PassSound(v)'
    BY <1>1, <2>1, PassMoves
  <2>3. faults' \in 0..MaxFaults
    BY <1>0, <1>6, SyncAssumption DEF EndPass, PassThrows, SyncTypeOK
  <2>4. SyncTypeOK'
    BY <1>0, <1>6, <2>2, <2>3 DEF EndPass, PassThrows, SyncTypeOK, RecordTypeOK
  <2> QED
    BY <2>1, <2>2, <2>4, SettlesKept DEF Base
<1> QED
  BY <1>2, <1>3, <1>4, <1>5, <1>6 DEF WorkStep

\* What a disconnect holds and writes.
LEMMA BaseLeave ==
    ASSUME Base, NEW u \in Leavers, LeaveStep(u) PROVE Base'
<1>0. SyncTypeOK /\ RecordTypeOK
  BY DEF Base, SyncTypeOK
<1>1. UNCHANGED <<run, settle, worker>>
  BY DEF LeaveStep, LoadPending, Disconnect, DisconnectThrows
<1>2. ASSUME NEW n \in 1..Len(attempts), NEW found \in [1..n -> Unsettled], LoadPending(u, found)
      PROVE  SyncTypeOK'
  <2> DEFINE list == [m \in DOMAIN found |-> [key |-> attempts[found[m]].key,
                                              exec |-> attempts[found[m]].exec]]
  <2>1. n \in Nat
    BY <1>0 DEF SyncTypeOK
  <2>2. \A i \in Unsettled : attempts[i] \in Attempt
    BY <1>0 DEF Unsettled, SyncTypeOK
  <2>3. \A m \in 1..n : attempts[found[m]].key \in IssueKeys /\ attempts[found[m]].exec \in Executions
    BY <2>2 DEF Attempt
  <2>4. list \in [1..n -> Pending]
    BY <2>3 DEF Pending
  <2>5. list \in Seq(Pending)
    BY <2>1, <2>4
  <2>6. leaver' = [leaver EXCEPT ![u] = list]
    BY <1>2 DEF LoadPending
  <2> HIDE DEF list
  <2>7. leaver' \in [Leavers -> Seq(Pending)]
    BY <1>0, <2>5, <2>6 DEF SyncTypeOK
  <2> QED
    BY <1>0, <1>2, <2>7 DEF LoadPending, SyncTypeOK, RecordTypeOK
<1>3. ASSUME Disconnect(u) PROVE SyncTypeOK'
  <2> DEFINE rows == [n \in DOMAIN leaver[u] |->
                        [key |-> leaver[u][n].key, exec |-> leaver[u][n].exec,
                         action |-> "DISCONNECTED", outcome |-> "ABANDONED", blockers |-> {}]]
  <2>1. leaver[u] \in Seq(Pending)
    BY <1>0 DEF SyncTypeOK
  <2>2. DOMAIN leaver[u] = 1..Len(leaver[u]) /\ Len(leaver[u]) \in Nat
        /\ \A n \in 1..Len(leaver[u]) : leaver[u][n] \in Pending
    BY <2>1
  <2>3. ASSUME NEW n \in 1..Len(leaver[u]) PROVE rows[n] \in Attempt
    <3>1. leaver[u][n] \in Pending
      BY <2>2
    <3>2. leaver[u][n].key \in IssueKeys /\ leaver[u][n].exec \in Executions
      BY <3>1 DEF Pending
    <3> QED
      BY <2>2, <3>2 DEF Attempt
  <2>4. rows \in Seq(Attempt)
    <3>1. rows = [n \in 1..Len(leaver[u]) |-> rows[n]]
      BY <2>2
    <3> HIDE DEF rows
    <3> QED
      BY <2>2, <2>3, <3>1
  <2>5. attempts' = attempts \o rows
    BY <1>3 DEF Disconnect
  <2> HIDE DEF rows
  <2>6. attempts' \in Seq(Attempt)
    BY <1>0, <2>4, <2>5 DEF SyncTypeOK
  <2>7. leaver' \in [Leavers -> Seq(Pending)]
    BY <1>0, <1>3 DEF Disconnect, SyncTypeOK
  <2> QED
    BY <1>0, <1>3, <2>6, <2>7 DEF Disconnect, SyncTypeOK, RecordTypeOK
<1>4. ASSUME DisconnectThrows(u) PROVE SyncTypeOK'
  <2>1. leaver' \in [Leavers -> Seq(Pending)]
    BY <1>0, <1>4 DEF DisconnectThrows, SyncTypeOK
  <2> QED
    BY <1>0, <1>4, <2>1 DEF DisconnectThrows, SyncTypeOK, RecordTypeOK
<1>5. SyncTypeOK'
  BY <1>2, <1>3, <1>4 DEF LeaveStep
<1> QED
  BY <1>1, <1>5, SettlesKept, PassesKept DEF Base

LEMMA BaseCrash ==
    ASSUME Base, Crash PROVE Base'
<1>0. SyncTypeOK /\ RecordTypeOK
  BY DEF Base, SyncTypeOK
<1>1. /\ NotSettling \in Settling /\ [NotSettling EXCEPT !.pc = "lost"] \in Settling
      /\ NotSettling.pc = "none" /\ [NotSettling EXCEPT !.pc = "lost"].pc = "lost"
  BY DEF NotSettling, Settling
<1>2. \A e \in Executions : settle'[e] = IF settle[e].pc = "finalizing" THEN NotSettling
                                         ELSE IF settle[e].pc \in AfterCommit
                                              THEN [NotSettling EXCEPT !.pc = "lost"] ELSE settle[e]
  BY DEF Crash
<1>3. settle' \in [Executions -> Settling]
  BY <1>0, <1>1 DEF Crash, SyncTypeOK
<1>4. UNCHANGED run
  BY DEF Crash
<1>5. ASSUME NEW e \in Executions PROVE SettleSound(e)'
  <2>1. SettleSound(e)
    BY DEF Base
  <2> QED
    BY <1>1, <1>2, <1>4, <2>1 DEF SettleSound, AfterCommit
<1>6. worker' \in [Workers -> Pass] /\ \A w \in Workers : PassSound(w)'
  <2>1. IdlePass \in Pass /\ IdlePass.abandon = {} /\ IdlePass.retry = {} /\ IdlePass.pc = "idle"
    BY DEF IdlePass, Pass
  <2> QED
    BY <2>1 DEF Crash, PassSound
<1>7. leaver' \in [Leavers -> Seq(Pending)]
  BY DEF Crash
<1>8. faults' \in 0..MaxFaults
  BY <1>0, SyncAssumption DEF Crash, SyncTypeOK
<1>9. SyncTypeOK'
  BY <1>0, <1>3, <1>6, <1>8, <1>7 DEF Crash, SyncTypeOK, RecordTypeOK
<1> QED
  BY <1>5, <1>6, <1>9 DEF Base

LEMMA BaseNext == Base /\ [SyncNext]_allVars => Base'
<1> SUFFICES ASSUME Base, [SyncNext]_allVars PROVE Base'
  OBVIOUS
<1>1. CASE \E e \in Executions : PlanningStep(e)
  BY <1>1, BasePlanning
<1>2. CASE \E e \in Executions : SettleStep(e) \/ SwallowError(e)
  BY <1>2, BaseSettle
<1>3. CASE \E w \in Workers : WorkStep(w) \/ PassThrows(w)
  BY <1>3, BaseWork
<1>4. CASE Crash
  BY <1>4, BaseCrash
<1>5. CASE (\E k \in IssueKeys : MoveByHand(k)) \/ UNCHANGED allVars
  <2>1. UNCHANGED <<run, settle, worker>>
    BY <1>5 DEF MoveByHand, allVars
  <2>2. SyncTypeOK'
    BY <1>5 DEF Base, MoveByHand, allVars, SyncTypeOK, RecordTypeOK
  <2> QED
    BY <2>1, <2>2, SettlesKept, PassesKept DEF Base
<1>6. CASE \E u \in Leavers : LeaveStep(u)
  BY <1>6, BaseLeave
<1> QED
  BY <1>1, <1>2, <1>3, <1>4, <1>5, <1>6 DEF SyncNext

\* For any number of runs, issues and passes: what the requests in flight hold stays true.
THEOREM BaseInvariant == SyncSpec => []Base
BY BaseInit, BaseNext, PTL DEF SyncSpec

\* Type correctness of the sync.
THEOREM SyncTypeCorrect == SyncSpec => []SyncTypeOK
<1>1. Base => SyncTypeOK
  BY DEF Base
<1> QED
  BY <1>1, BaseInvariant, PTL

-------------------------------------------------------------------------------
\* The decision a transition rests on

DecisionOf(e) ==
    settle[e].pc \in {"eligible", "call", "answered"} =>
        /\ e \in settle[e].siblings
        /\ \A f \in settle[e].siblings : Passed(f) /\ run[f].key = run[e].key

LEMMA DecisionNext == Base /\ DecisionStands /\ [SyncNext]_allVars => DecisionStands'
<1> SUFFICES ASSUME Base, DecisionStands, [SyncNext]_allVars, NEW e \in Executions
             PROVE  DecisionOf(e)'
  BY DEF DecisionStands, DecisionOf
<1>0. /\ SyncTypeOK /\ RecordTypeOK /\ SettleSound(e) /\ DecisionOf(e)
      /\ settle[e].siblings \in SUBSET Executions
  BY DEF Base, DecisionStands, DecisionOf, SyncTypeOK, Settling
\* What has passed has passed for good, with its key.
<1>1. ASSUME NEW f \in Executions, Passed(f) PROVE Passed(f)' /\ run'[f] = run[f]
  BY <1>0, <1>1, FinalizedIsFinal DEF Passed
\* A request that is deciding and does not take a step keeps its decision.
<1>2. ASSUME settle'[e] = settle[e] \/ settle'[e].pc \notin {"eligible", "call", "answered"}
      PROVE  DecisionOf(e)'
  <2>1. CASE settle[e].pc \in {"eligible", "call", "answered"} /\ settle'[e] = settle[e]
    <3>1. run'[e] = run[e]
      BY <1>0, <2>1, FinalizedIsFinal DEF SettleSound, AfterCommit
    <3> QED
      BY <1>0, <1>1, <2>1, <3>1 DEF DecisionOf
  <2>2. CASE settle'[e].pc \notin {"eligible", "call", "answered"}
    BY <2>2 DEF DecisionOf
  <2> QED
    BY <1>2, <2>1, <2>2
<1>3. ASSUME SettleStep(e) PROVE DecisionOf(e)'
  <2>1. CASE ReadSiblings(e)
    <3> DEFINE S == Carrying(run[e].key)
    <3>1. settle'[e] = [pc |-> IF ShouldTransition(S) THEN "eligible" ELSE "skip",
                        siblings |-> IF ShouldTransition(S) THEN S ELSE Blockers(S), answer |-> "NONE"]
      BY <1>0, <2>1 DEF ReadSiblings, SyncTypeOK
    <3>2. CASE ShouldTransition(S)
      <4>1. settle'[e].siblings = S
        BY <3>1, <3>2
      <4>2. UNCHANGED run
        BY <2>1 DEF ReadSiblings
      <4>3. e \in S /\ \A f \in S : Passed(f) /\ run[f].key = run[e].key
        BY <3>2 DEF ShouldTransition, Blockers, Carrying
      <4> QED
        BY <4>1, <4>2, <4>3 DEF DecisionOf, Passed
    <3>3. CASE ~ShouldTransition(S)
      BY <1>2, <3>1, <3>3
    <3> QED
      BY <3>2, <3>3
  <2>2. CASE ReadLastSuccess(e) \/ \E answer \in Answers : CallJira(e, answer)
    <3>1. settle[e].pc \in {"eligible", "call"} /\ UNCHANGED run
      BY <2>2 DEF ReadLastSuccess, CallJira
    <3>2. ASSUME ReadLastSuccess(e)
          PROVE  settle'[e].siblings = settle[e].siblings \/ settle'[e].pc = "skip"
      <4>1. settle'[e] = IF AlreadyCovers(run[e].key, settle[e].siblings)
                         THEN [settle[e] EXCEPT !.pc = "skip", !.siblings = {}]
                         ELSE [settle[e] EXCEPT !.pc = "call"]
        BY <1>0, <3>2 DEF ReadLastSuccess, SyncTypeOK
      <4>2. settle[e] \in Settling
        BY <1>0 DEF SyncTypeOK
      <4> QED
        BY <4>1, <4>2 DEF Settling
    <3>3. ASSUME \E answer \in Answers : CallJira(e, answer)
          PROVE  settle'[e].siblings = settle[e].siblings \/ settle'[e].pc = "skip"
      <4>1. PICK answer \in Answers : CallJira(e, answer)
        BY <3>3
      <4>2. settle'[e] = [settle[e] EXCEPT !.pc = "answered", !.answer = answer]
        BY <1>0, <4>1 DEF CallJira, SyncTypeOK
      <4>3. settle[e] \in Settling
        BY <1>0 DEF SyncTypeOK
      <4> QED
        BY <4>2, <4>3 DEF Settling
    <3>4. CASE settle'[e].pc = "skip"
      BY <1>2, <3>4
    <3>5. CASE settle'[e].siblings = settle[e].siblings
      BY <1>0, <3>1, <3>5 DEF DecisionOf, Passed
    <3>6. settle'[e].siblings = settle[e].siblings \/ settle'[e].pc = "skip"
      BY <2>2, <3>2, <3>3
    <3> QED
      BY <3>4, <3>5, <3>6
  <2>3. CASE ~ReadSiblings(e) /\ ~ReadLastSuccess(e) /\ ~ \E answer \in Answers : CallJira(e, answer)
    <3>1. settle'[e].pc \in {"over", "comment", "siblings"}
      BY <1>0, <1>3, <2>3 DEF SettleStep, CommitFinalize, SettleComment, RecordSkip, RecordAnswer,
         NotSettling, SyncTypeOK, Settling
    <3> QED
      BY <1>2, <3>1
  <2> QED
    BY <2>1, <2>2, <2>3
<1>4. ASSUME ~SettleStep(e)
      PROVE  settle'[e] = settle[e] \/ settle'[e].pc \notin {"eligible", "call", "answered"}
  <2>1. CASE \E f \in Executions : PlanningStep(f) \/ SwallowError(f)
    BY <1>0, <2>1 DEF PlanningStep, SwallowError, Plan, Edit, Start, OpenFinalize, syncVars, SyncTypeOK,
       Settling, NotSettling
  <2>2. CASE \E f \in Executions : SettleStep(f)
    <3>1. PICK f \in Executions : SettleStep(f)
      BY <2>2
    <3>2. f # e
      BY <1>4, <3>1
    <3> QED
      BY <1>0, <3>1, <3>2 DEF SettleStep, CommitFinalize, SettleComment, ReadSiblings, ReadLastSuccess,
         RecordSkip, CallJira, RecordAnswer, SyncTypeOK
  <2>3. CASE Crash
    BY <2>3 DEF Crash, NotSettling, AfterCommit
  <2>4. CASE (\E w \in Workers : WorkStep(w) \/ PassThrows(w)) \/ (\E k \in IssueKeys : MoveByHand(k))
             \/ UNCHANGED allVars
    BY <2>4 DEF WorkStep, PassThrows, BeginPass, Abandon, CallRetry, RecordRetry, EndPass, MoveByHand,
       allVars
  <2>5. CASE \E u \in Leavers : LeaveStep(u)
    BY <2>5 DEF LeaveStep, LoadPending, Disconnect, DisconnectThrows
  <2> QED
    BY <2>1, <2>2, <2>3, <2>4, <2>5 DEF SyncNext
<1> QED
  BY <1>2, <1>3, <1>4

\* For any number of concurrent finalizes, edits, retries and crashes: the reading a transition
\* was decided on is still true when its outcome is recorded.
THEOREM DecisionsStand == SyncSpec => []DecisionStands
<1>1. SyncInit => DecisionStands
  BY DEF SyncInit, DecisionStands, NotSettling
<1> QED
  BY <1>1, DecisionNext, BaseInvariant, PTL DEF SyncSpec
-------------------------------------------------------------------------------
\* What a step adds to the attempts

AttemptRow(k, e, action, outcome, blockers) ==
    [key |-> k, exec |-> e, action |-> action, outcome |-> outcome, blockers |-> blockers]

\* The step that wrote row i, and what it wrote.
SkipRow(i) ==
    \E e \in Executions :
        RecordSkip(e) /\ attempts'[i] = AttemptRow(run[e].key, e, "SKIPPED", "SKIPPED", settle[e].siblings)

AnswerRow(i) ==
    \E e \in Executions :
        RecordAnswer(e) /\ attempts'[i] = AttemptRow(run[e].key, e, "ATTEMPTED", settle[e].answer, {})

RetryRow(i) ==
    \E w \in Workers :
        /\ RecordRetry(w)
        /\ attempts'[i] = AttemptRow(worker[w].key, worker[w].exec[worker[w].key], "RETRIED",
                                     worker[w].answer, {})

GivenUpRow(i) ==
    attempts'[i].action \in {"ABANDONED", "DISCONNECTED"} /\ attempts'[i].outcome = "ABANDONED"

NewRow(i) == SkipRow(i) \/ AnswerRow(i) \/ RetryRow(i) \/ GivenUpRow(i)

\* The attempts as a step leaves them: the rows of before, and new ones of the four kinds.
Grown ==
    /\ DOMAIN attempts = 1..Len(attempts) /\ Len(attempts) \in Nat
    /\ DOMAIN attempts' = 1..Len(attempts') /\ Len(attempts') \in Nat
    /\ Len(attempts) <= Len(attempts')
    /\ \A i \in 1..Len(attempts) : attempts'[i] = attempts[i]
    /\ \A i \in DOMAIN attempts' : i \in DOMAIN attempts \/ (i > Len(attempts) /\ NewRow(i))

\* One row at the end.
LEMMA Appended ==
    ASSUME NEW s \in Seq(Attempt), NEW r \in Attempt, NEW t, t = Append(s, r)
    PROVE  /\ DOMAIN s = 1..Len(s) /\ Len(s) \in Nat
           /\ DOMAIN t = 1..Len(t) /\ Len(t) \in Nat
           /\ Len(t) = Len(s) + 1
           /\ \A i \in 1..Len(s) : t[i] = s[i]
           /\ t[Len(t)] = r
           /\ \A i \in DOMAIN t : i \in DOMAIN s \/ i = Len(t)
<1>1. DOMAIN s = 1..Len(s) /\ Len(s) \in Nat
  OBVIOUS
<1>2. t \in Seq(Attempt) /\ Len(t) = Len(s) + 1
  OBVIOUS
<1>3. DOMAIN t = 1..Len(t) /\ Len(t) \in Nat
  BY <1>2
<1>4. (\A i \in 1..Len(s) : t[i] = s[i]) /\ t[Len(t)] = r
  BY <1>2
<1> QED
  BY <1>1, <1>2, <1>3, <1>4

\* A recorded row is typed, and it is the one row that is new.
LEMMA OneRowGrows ==
    ASSUME Base, NEW k \in IssueKeys, NEW e \in Executions,
           NEW a \in {"ATTEMPTED", "SKIPPED", "RETRIED", "ABANDONED"},
           NEW o \in {"SUCCEEDED", "FAILED", "SKIPPED", "ABANDONED"},
           NEW b \in SUBSET Executions, Record(k, e, a, o, b),
           attempts'[Len(attempts')] = AttemptRow(k, e, a, o, b) => NewRow(Len(attempts'))
    PROVE  Grown
<1>1. attempts \in Seq(Attempt)
  BY DEF Base, SyncTypeOK
<1>2. AttemptRow(k, e, a, o, b) \in Attempt
  BY DEF AttemptRow, Attempt
<1>3. attempts' = Append(attempts, AttemptRow(k, e, a, o, b))
  BY DEF Record, AttemptRow
<1>4. /\ DOMAIN attempts = 1..Len(attempts) /\ Len(attempts) \in Nat
      /\ DOMAIN attempts' = 1..Len(attempts') /\ Len(attempts') \in Nat
      /\ Len(attempts') = Len(attempts) + 1
      /\ \A i \in 1..Len(attempts) : attempts'[i] = attempts[i]
      /\ attempts'[Len(attempts')] = AttemptRow(k, e, a, o, b)
      /\ \A i \in DOMAIN attempts' : i \in DOMAIN attempts \/ i = Len(attempts')
  BY <1>1, <1>2, <1>3, Appended
<1>5. NewRow(Len(attempts'))
  BY <1>4
<1> HIDE DEF NewRow
<1> QED
  BY <1>4, <1>5 DEF Grown

LEMMA AttemptsGrow ==
    ASSUME Base, [SyncNext]_allVars PROVE Grown
<1>0. SyncTypeOK /\ attempts \in Seq(Attempt)
  BY DEF Base, SyncTypeOK
<1>1. CASE UNCHANGED attempts
  BY <1>0, <1>1 DEF Grown
<1>2. ASSUME NEW e \in Executions, RecordSkip(e) PROVE Grown
  <2>1. run[e].key \in IssueKeys /\ settle[e].siblings \in SUBSET Executions
    BY <1>0, <1>2 DEF Base, SettleSound, RecordSkip, AfterCommit, SyncTypeOK, Settling
  <2>2. Record(run[e].key, e, "SKIPPED", "SKIPPED", settle[e].siblings)
    BY <1>2 DEF RecordSkip
  <2>3. attempts'[Len(attempts')] = AttemptRow(run[e].key, e, "SKIPPED", "SKIPPED", settle[e].siblings)
           => NewRow(Len(attempts'))
    BY <1>2 DEF NewRow, SkipRow
  <2> QED
    BY <2>1, <2>2, <2>3, OneRowGrows
<1>3. ASSUME NEW e \in Executions, RecordAnswer(e) PROVE Grown
  <2>1. run[e].key \in IssueKeys /\ settle[e].answer \in {"SUCCEEDED", "FAILED"}
    BY <1>3 DEF Base, SettleSound, RecordAnswer, AfterCommit, Answers
  <2>2. Record(run[e].key, e, "ATTEMPTED", settle[e].answer, {})
    BY <1>3 DEF RecordAnswer
  <2>3. attempts'[Len(attempts')] = AttemptRow(run[e].key, e, "ATTEMPTED", settle[e].answer, {})
           => NewRow(Len(attempts'))
    BY <1>3 DEF NewRow, AnswerRow
  <2> QED
    BY <2>1, <2>2, <2>3, OneRowGrows
<1>4. ASSUME NEW w \in Workers, NEW k \in IssueKeys, Abandon(w, k) PROVE Grown
  <2>1. worker[w].exec[k] \in Executions
    BY <1>4 DEF Base, PassSound, Abandon
  <2>2. Record(k, worker[w].exec[k], "ABANDONED", "ABANDONED", {})
    BY <1>4 DEF Abandon
  <2>3. attempts'[Len(attempts')] = AttemptRow(k, worker[w].exec[k], "ABANDONED", "ABANDONED", {})
           => NewRow(Len(attempts'))
    BY DEF NewRow, GivenUpRow, AttemptRow
  <2> QED
    BY <2>1, <2>2, <2>3, OneRowGrows
<1>5. ASSUME NEW w \in Workers, RecordRetry(w) PROVE Grown
  <2> DEFINE k == worker[w].key
  <2>1. /\ k \in IssueKeys /\ worker[w].exec[k] \in Executions
        /\ worker[w].answer \in {"SUCCEEDED", "FAILED"}
    BY <1>5 DEF Base, PassSound, RecordRetry, Answers
  <2>2. Record(k, worker[w].exec[k], "RETRIED", worker[w].answer, {})
    BY <1>5 DEF RecordRetry
  <2>3. attempts'[Len(attempts')] = AttemptRow(k, worker[w].exec[k], "RETRIED", worker[w].answer, {})
           => NewRow(Len(attempts'))
    BY <1>5 DEF NewRow, RetryRow
  <2> HIDE DEF k
  <2> QED
    BY <2>1, <2>2, <2>3, OneRowGrows
<1>6. ASSUME NEW u \in Leavers, Disconnect(u) PROVE Grown
  <2> DEFINE rows == [n \in DOMAIN leaver[u] |->
                        [key |-> leaver[u][n].key, exec |-> leaver[u][n].exec,
                         action |-> "DISCONNECTED", outcome |-> "ABANDONED", blockers |-> {}]]
  <2>1. leaver[u] \in Seq(Pending)
    BY <1>0 DEF SyncTypeOK
  <2>2. /\ DOMAIN leaver[u] = 1..Len(leaver[u]) /\ Len(leaver[u]) \in Nat
        /\ \A n \in 1..Len(leaver[u]) : leaver[u][n] \in Pending
    BY <2>1
  <2>3. attempts' = attempts \o rows
    BY <1>6 DEF Disconnect
  <2>4. \A n \in 1..Len(leaver[u]) :
           rows[n] \in Attempt /\ rows[n].action = "DISCONNECTED" /\ rows[n].outcome = "ABANDONED"
    BY <2>2 DEF Attempt, Pending
  <2>5. rows = [n \in 1..Len(leaver[u]) |-> rows[n]]
    BY <2>2
  <2> HIDE DEF rows
  <2>6. rows \in Seq(Attempt) /\ Len(rows) = Len(leaver[u])
    BY <2>2, <2>4, <2>5
  <2>7. /\ DOMAIN attempts = 1..Len(attempts) /\ Len(attempts) \in Nat
        /\ attempts' \in Seq(Attempt) /\ Len(attempts') = Len(attempts) + Len(rows)
    <3>1. DOMAIN attempts = 1..Len(attempts) /\ Len(attempts) \in Nat
      BY <1>0
    <3>2. attempts \o rows \in Seq(Attempt)
      BY <1>0, <2>6
    <3>3. Len(attempts \o rows) = Len(attempts) + Len(rows)
      BY <1>0, <2>6
    <3> QED
      BY <2>3, <3>1, <3>2, <3>3
  <2>8. DOMAIN attempts' = 1..Len(attempts') /\ Len(attempts') \in Nat
    BY <2>7
  <2>9. \A i \in 1..Len(attempts) : attempts'[i] = attempts[i]
    BY <1>0, <2>3, <2>6
  <2>10. ASSUME NEW i \in DOMAIN attempts', i \notin DOMAIN attempts
         PROVE  i > Len(attempts) /\ NewRow(i)
    <3>1. i > Len(attempts) /\ i - Len(attempts) \in 1..Len(rows)
      BY <2>2, <2>6, <2>7, <2>8, <2>10
    <3>2. attempts'[i] = rows[i - Len(attempts)]
      BY <1>0, <2>3, <2>6, <2>7, <2>8, <3>1
    <3>3. GivenUpRow(i)
      BY <2>4, <2>6, <3>1, <3>2 DEF GivenUpRow
    <3> QED
      BY <3>1, <3>3 DEF NewRow
  <2>11. Len(attempts) <= Len(attempts')
    BY <2>2, <2>6, <2>7
  <2> QED
    BY <2>7, <2>8, <2>9, <2>10, <2>11 DEF Grown
<1>7. CASE UNCHANGED allVars
  BY <1>1, <1>7 DEF allVars
<1>8. CASE \E e \in Executions : PlanningStep(e) \/ SwallowError(e)
  BY <1>1, <1>8 DEF PlanningStep, SwallowError, Plan, Edit, Start, OpenFinalize, syncVars
<1>9. CASE \E e \in Executions : SettleStep(e)
  BY <1>1, <1>2, <1>3, <1>9 DEF SettleStep, CommitFinalize, SettleComment, ReadSiblings, ReadLastSuccess,
     CallJira
<1>10. CASE \E w \in Workers : WorkStep(w) \/ PassThrows(w)
  BY <1>1, <1>4, <1>5, <1>10 DEF WorkStep, PassThrows, BeginPass, CallRetry, EndPass
<1>11. CASE \E u \in Leavers : LeaveStep(u)
  BY <1>1, <1>6, <1>11 DEF LeaveStep, LoadPending, DisconnectThrows
<1>12. CASE Crash \/ \E k \in IssueKeys : MoveByHand(k)
  BY <1>1, <1>12 DEF Crash, MoveByHand
<1> QED
  BY <1>7, <1>8, <1>9, <1>10, <1>11, <1>12 DEF SyncNext
-------------------------------------------------------------------------------
\* One verdict per run

OwnVerdict(i) == attempts[i].action \in {"ATTEMPTED", "SKIPPED"}

\* A request that has recorded its verdict is over, for good.
VerdictInv ==
    /\ OneVerdictPerRun
    /\ \A i \in DOMAIN attempts : OwnVerdict(i) => settle[attempts[i].exec].pc = "over"

\* What is over, or lost, stays so.
LEMMA EndedIsEnded ==
    ASSUME Base, [SyncNext]_allVars, NEW e \in Executions, settle[e].pc \in {"over", "lost"}
    PROVE  settle'[e] = settle[e]
<1>0. SyncTypeOK /\ RecordTypeOK /\ run[e].state = "FINALIZED"
  BY DEF Base, SettleSound, SyncTypeOK
<1>1. CASE \E f \in Executions : PlanningStep(f) \/ SwallowError(f)
  BY <1>0, <1>1 DEF PlanningStep, SwallowError, Plan, Edit, Start, OpenFinalize, syncVars, AfterCommit,
     SyncTypeOK
<1>2. CASE \E f \in Executions : SettleStep(f)
  BY <1>0, <1>2 DEF SettleStep, CommitFinalize, SettleComment, ReadSiblings, ReadLastSuccess,
     RecordSkip, CallJira, RecordAnswer, SyncTypeOK
<1>3. CASE Crash
  BY <1>3 DEF Crash, AfterCommit
<1>4. CASE (\E w \in Workers : WorkStep(w) \/ PassThrows(w)) \/ (\E k \in IssueKeys : MoveByHand(k))
           \/ UNCHANGED allVars
  BY <1>4 DEF WorkStep, PassThrows, BeginPass, Abandon, CallRetry, RecordRetry, EndPass, MoveByHand,
     allVars
<1>5. CASE \E u \in Leavers : LeaveStep(u)
  BY <1>5 DEF LeaveStep, LoadPending, Disconnect, DisconnectThrows
<1> QED
  BY <1>1, <1>2, <1>3, <1>4, <1>5 DEF SyncNext

\* The request that writes a verdict had not written one, and has now.
LEMMA VerdictRow ==
    ASSUME Base, NEW i \in DOMAIN attempts', SkipRow(i) \/ AnswerRow(i)
    PROVE  \E e \in Executions :
              /\ attempts'[i].exec = e /\ attempts'[i].key = run[e].key
              /\ settle[e].pc \in {"skip", "answered"} /\ settle'[e].pc = "over"
              /\ run[e].state = "FINALIZED" /\ UNCHANGED run
              /\ Len(attempts') = Len(attempts) + 1
<1>0. SyncTypeOK
  BY DEF Base
<1>1. PICK e \in Executions : /\ RecordSkip(e) \/ RecordAnswer(e)
                              /\ attempts'[i].exec = e /\ attempts'[i].key = run[e].key
  BY DEF SkipRow, AnswerRow, AttemptRow
<1>2. settle[e].pc \in {"skip", "answered"} /\ settle'[e].pc = "over" /\ UNCHANGED run
  BY <1>0, <1>1 DEF RecordSkip, RecordAnswer, NotSettling, SyncTypeOK
<1>3. run[e].state = "FINALIZED"
  BY <1>2 DEF Base, SettleSound, AfterCommit
<1>4. Len(attempts') = Len(attempts) + 1
  <2>1. attempts \in Seq(Attempt)
    BY <1>0 DEF SyncTypeOK
  <2>2. \E r : attempts' = Append(attempts, r)
    BY <1>1 DEF RecordSkip, RecordAnswer, Record
  <2> QED
    BY <2>1, <2>2
<1> QED
  BY <1>1, <1>2, <1>3, <1>4

LEMMA VerdictNext == Base /\ VerdictInv /\ [SyncNext]_allVars => VerdictInv'
<1> SUFFICES ASSUME Base, VerdictInv, [SyncNext]_allVars PROVE VerdictInv'
  OBVIOUS
<1>0. Grown /\ RecordTypeOK /\ attempts \in Seq(Attempt)
  BY AttemptsGrow DEF Base, SyncTypeOK
\* A row of before keeps what it says, and the run it speaks of what it is.
<1>1. ASSUME NEW i \in DOMAIN attempts, OwnVerdict(i)
      PROVE  /\ attempts'[i] = attempts[i] /\ attempts[i].exec \in Executions
             /\ run'[attempts[i].exec] = run[attempts[i].exec]
             /\ run[attempts[i].exec].key = attempts[i].key
             /\ run[attempts[i].exec].state = "FINALIZED"
             /\ settle[attempts[i].exec].pc = "over"
             /\ settle'[attempts[i].exec].pc = "over"
  <2>1. attempts'[i] = attempts[i]
    BY <1>0 DEF Grown
  <2>2. attempts[i].exec \in Executions
    <3>1. attempts[i] \in Attempt
      BY <1>0
    <3> QED
      BY <3>1 DEF Attempt
  <2>3. /\ run[attempts[i].exec].key = attempts[i].key
        /\ run[attempts[i].exec].state = "FINALIZED"
        /\ settle[attempts[i].exec].pc = "over"
    BY <1>1 DEF VerdictInv, OneVerdictPerRun, OwnVerdict
  <2>4. run'[attempts[i].exec] = run[attempts[i].exec]
    BY <1>0, <2>2, <2>3, FinalizedIsFinal
  <2>5. settle'[attempts[i].exec] = settle[attempts[i].exec]
    BY <2>2, <2>3, EndedIsEnded
  <2> QED
    BY <2>1, <2>2, <2>3, <2>4, <2>5
\* A new one is its request's first.
<1>2. ASSUME NEW i \in DOMAIN attempts', i \notin DOMAIN attempts, OwnVerdict(i)'
      PROVE  /\ attempts'[i].exec \in Executions /\ i = Len(attempts) + 1
             /\ run'[attempts'[i].exec].key = attempts'[i].key
             /\ run'[attempts'[i].exec].state = "FINALIZED"
             /\ settle[attempts'[i].exec].pc # "over"
             /\ settle'[attempts'[i].exec].pc = "over"
  <2>1. NewRow(i) /\ i > Len(attempts) /\ i \in 1..Len(attempts') /\ Len(attempts) \in Nat
    BY <1>0, <1>2 DEF Grown
  <2>2. ~RetryRow(i) /\ ~GivenUpRow(i)
    BY <1>2 DEF RetryRow, GivenUpRow, OwnVerdict, AttemptRow
  <2>3. SkipRow(i) \/ AnswerRow(i)
    BY <2>1, <2>2 DEF NewRow
  <2>4. PICK e \in Executions :
              /\ attempts'[i].exec = e /\ attempts'[i].key = run[e].key
              /\ settle[e].pc \in {"skip", "answered"} /\ settle'[e].pc = "over"
              /\ run[e].state = "FINALIZED" /\ UNCHANGED run
              /\ Len(attempts') = Len(attempts) + 1
    BY <2>3, VerdictRow
  <2>5. i = Len(attempts) + 1
    BY <2>1, <2>4
  <2> QED
    BY <2>4, <2>5
<1>3. \A i \in DOMAIN attempts' : i \in DOMAIN attempts => (OwnVerdict(i)' => OwnVerdict(i))
  BY <1>0 DEF Grown, OwnVerdict
<1>4. ASSUME NEW i \in DOMAIN attempts', OwnVerdict(i)'
      PROVE  /\ run'[attempts'[i].exec].key = attempts'[i].key
             /\ run'[attempts'[i].exec].state = "FINALIZED"
             /\ settle'[attempts'[i].exec].pc = "over"
  <2>1. CASE i \in DOMAIN attempts
    BY <1>1, <1>3, <1>4, <2>1
  <2>2. CASE i \notin DOMAIN attempts
    BY <1>2, <1>4, <2>2
  <2> QED
    BY <2>1, <2>2
<1>5. ASSUME NEW i \in DOMAIN attempts', NEW j \in DOMAIN attempts', OwnVerdict(i)', OwnVerdict(j)',
             attempts'[i].exec = attempts'[j].exec
      PROVE  i = j
  <2>1. CASE i \in DOMAIN attempts /\ j \in DOMAIN attempts
    <3>1. OwnVerdict(i) /\ OwnVerdict(j) /\ attempts[i].exec = attempts[j].exec
      BY <1>1, <1>3, <1>5, <2>1
    <3> QED
      BY <2>1, <3>1 DEF VerdictInv, OneVerdictPerRun, OwnVerdict
  <2>2. CASE i \notin DOMAIN attempts /\ j \notin DOMAIN attempts
    BY <1>2, <1>5, <2>2
  <2>3. CASE i \in DOMAIN attempts /\ j \notin DOMAIN attempts
    BY <1>1, <1>2, <1>3, <1>5, <2>3
  <2>4. CASE i \notin DOMAIN attempts /\ j \in DOMAIN attempts
    BY <1>1, <1>2, <1>3, <1>5, <2>4
  <2> QED
    BY <2>1, <2>2, <2>3, <2>4
<1> QED
  BY <1>4, <1>5 DEF VerdictInv, OneVerdictPerRun, OwnVerdict

\* For any number of finalizes, passes, disconnects and crashes: a run is reported once, under the
\* key it has for good.
THEOREM VerdictsAreSingle == SyncSpec => []OneVerdictPerRun
<1>1. SyncInit => VerdictInv
  BY DEF SyncInit, VerdictInv, OneVerdictPerRun
<1>2. VerdictInv => OneVerdictPerRun
  BY DEF VerdictInv
<1> QED
  BY <1>1, <1>2, VerdictNext, BaseInvariant, PTL DEF SyncSpec
-------------------------------------------------------------------------------
\* Done is earned

Earned(k) == \E e \in Carrying(k) : Passed(e)

\* What a pass is about to try again had been earned, and what it just tried, too; a success that
\* it is about to record is still to be seen on the issue.
PassEarned(w) ==
    /\ \A k \in worker[w].retry : Earned(k)
    /\ worker[w].pc = "answered" => Earned(worker[w].key)
    /\ worker[w].pc = "answered" /\ worker[w].answer = "SUCCEEDED" /\ worker[w].key \notin byHand
          => issue[worker[w].key] = "DONE"

AnswerIsSeen(e) ==
    settle[e].pc = "answered" /\ settle[e].answer = "SUCCEEDED" /\ run[e].key \notin byHand
        => issue[run[e].key] = "DONE"

EarnedInv ==
    /\ \A i \in DOMAIN attempts : attempts[i].outcome \in Answers => Earned(attempts[i].key)
    /\ \A w \in Workers : PassEarned(w)
    /\ \A e \in Executions : AnswerIsSeen(e)
    /\ DoneIsEarned

LEMMA EarnedForGood ==
    ASSUME RecordTypeOK, [SyncNext]_allVars, NEW k, Earned(k) PROVE Earned(k)'
<1>1. PICK e \in Executions : run[e].key = k /\ Passed(e)
  BY DEF Earned, Carrying
<1>2. run'[e] = run[e]
  BY <1>1, FinalizedIsFinal DEF Passed
<1> QED
  BY <1>1, <1>2 DEF Earned, Carrying, Passed

\* What a request calls Jira for has been earned, by its own run.
LEMMA CalledIsEarned ==
    ASSUME DecisionStands, NEW e \in Executions, settle[e].pc \in {"call", "answered"}
    PROVE  Earned(run[e].key)
BY DEF DecisionStands, Earned, Carrying

\* Only a call, or a person, changes an issue, and a call never takes it out of done.
LEMMA IssueMoves ==
    ASSUME Base, [SyncNext]_allVars, NEW k \in IssueKeys, k \notin byHand'
    PROVE  /\ k \notin byHand
           /\ issue[k] = "DONE" => issue'[k] = "DONE"
           /\ \/ issue'[k] = issue[k]
              \/ \E e \in Executions : settle[e].pc = "call" /\ run[e].key = k
              \/ \E w \in Workers : k \in worker[w].retry
<1>0. SyncTypeOK
  BY DEF Base
<1>1. CASE UNCHANGED <<issue, byHand>>
  BY <1>1
<1>2. ASSUME NEW e \in Executions, NEW a \in Answers, CallJira(e, a)
      PROVE  /\ k \notin byHand /\ (issue[k] = "DONE" => issue'[k] = "DONE")
             /\ issue'[k] = issue[k] \/ (settle[e].pc = "call" /\ run[e].key = k)
  BY <1>0, <1>2 DEF CallJira, Jira, SyncTypeOK
<1>3. ASSUME NEW w \in Workers, NEW q \in IssueKeys, NEW a \in Answers, CallRetry(w, q, a)
      PROVE  /\ k \notin byHand /\ (issue[k] = "DONE" => issue'[k] = "DONE")
             /\ issue'[k] = issue[k] \/ k \in worker[w].retry
  BY <1>0, <1>3 DEF CallRetry, Jira, SyncTypeOK
<1>4. ASSUME NEW q \in IssueKeys, MoveByHand(q)
      PROVE  k \notin byHand /\ issue'[k] = issue[k]
  BY <1>0, <1>4 DEF MoveByHand, SyncTypeOK
<1>5. CASE UNCHANGED allVars
  BY <1>1, <1>5 DEF allVars
<1>6. CASE \E e \in Executions : PlanningStep(e) \/ SwallowError(e)
  BY <1>1, <1>6 DEF PlanningStep, SwallowError, Plan, Edit, Start, OpenFinalize, syncVars
<1>7. CASE \E e \in Executions : SettleStep(e)
  BY <1>1, <1>2, <1>7 DEF SettleStep, CommitFinalize, SettleComment, ReadSiblings, ReadLastSuccess,
     RecordSkip, RecordAnswer
<1>8. CASE \E w \in Workers : WorkStep(w) \/ PassThrows(w)
  BY <1>1, <1>3, <1>8 DEF WorkStep, PassThrows, BeginPass, Abandon, RecordRetry, EndPass
<1>9. CASE \E u \in Leavers : LeaveStep(u)
  BY <1>1, <1>9 DEF LeaveStep, LoadPending, Disconnect, DisconnectThrows
<1>10. CASE Crash
  BY <1>1, <1>10 DEF Crash
<1>11. CASE \E q \in IssueKeys : MoveByHand(q)
  BY <1>4, <1>11
<1> QED
  BY <1>5, <1>6, <1>7, <1>8, <1>9, <1>10, <1>11 DEF SyncNext

\* What a step makes of a pass: it rests, plans, calls Jira for something it planned, or neither
\* plans nor calls anything new.
LEMMA PassBecomes ==
    ASSUME Base, [SyncNext]_allVars, NEW w \in Workers
    PROVE  \/ worker'[w].retry = {} /\ worker'[w].pc = "idle"
           \/ worker'[w].retry \subseteq Queue /\ worker'[w].pc = "working"
           \/ \E k \in IssueKeys : \E a \in Answers :
                 /\ k \in worker[w].retry /\ worker'[w].retry \subseteq worker[w].retry
                 /\ worker'[w].key = k /\ worker'[w].answer = a /\ UNCHANGED byHand
                 /\ a = "SUCCEEDED" => issue'[k] = "DONE"
           \/ /\ worker'[w].retry = worker[w].retry
              /\ worker'[w].pc = "answered" => /\ worker[w].pc = "answered"
                                               /\ worker'[w].key = worker[w].key
                                               /\ worker'[w].answer = worker[w].answer
<1>0. SyncTypeOK /\ worker[w] \in Pass
  BY DEF Base, SyncTypeOK
<1>1. CASE worker'[w] = worker[w]
  BY <1>1
<1>2. CASE worker'[w] = IdlePass
  BY <1>2 DEF IdlePass
<1>3. ASSUME BeginPass(w)
      PROVE  worker'[w].retry \subseteq Queue /\ worker'[w].pc = "working"
  BY <1>0, <1>3 DEF BeginPass, SyncTypeOK
<1>4. ASSUME NEW k \in IssueKeys, Abandon(w, k)
      PROVE  worker'[w].retry = worker[w].retry /\ worker'[w].pc = "working"
  <2>1. worker'[w] = [worker[w] EXCEPT !.abandon = worker[w].abandon \ {k}]
    BY <1>0, <1>4 DEF Abandon, SyncTypeOK
  <2> QED
    BY <1>0, <1>4, <2>1 DEF Pass, Abandon
<1>5. ASSUME NEW k \in IssueKeys, NEW a \in Answers, CallRetry(w, k, a)
      PROVE  /\ k \in worker[w].retry /\ worker'[w].retry \subseteq worker[w].retry
             /\ worker'[w].key = k /\ worker'[w].answer = a /\ UNCHANGED byHand
             /\ a = "SUCCEEDED" => issue'[k] = "DONE"
  <2>1. worker'[w] = [worker[w] EXCEPT !.pc = "answered", !.retry = worker[w].retry \ {k}, !.key = k,
                                       !.answer = a]
    BY <1>0, <1>5 DEF CallRetry, SyncTypeOK
  <2>2. k \in worker[w].retry /\ UNCHANGED byHand /\ Jira(k, a)
    BY <1>5 DEF CallRetry
  <2>3. a = "SUCCEEDED" => issue'[k] = "DONE"
    BY <1>0, <2>2 DEF Jira, SyncTypeOK
  <2> QED
    BY <1>0, <2>1, <2>2, <2>3 DEF Pass
<1>6. ASSUME RecordRetry(w)
      PROVE  worker'[w].retry = worker[w].retry /\ worker'[w].pc = "working"
  <2>1. worker'[w] = [worker[w] EXCEPT !.pc = "working", !.key = NoKey, !.answer = "NONE"]
    BY <1>0, <1>6 DEF RecordRetry, SyncTypeOK
  <2> QED
    BY <1>0, <2>1 DEF Pass
<1>7. CASE EndPass(w) \/ PassThrows(w)
  BY <1>0, <1>2, <1>7 DEF EndPass, PassThrows, SyncTypeOK
<1>8. CASE WorkStep(w)
  <2>1. CASE BeginPass(w)
    BY <1>3, <2>1
  <2>2. CASE \E k \in IssueKeys : Abandon(w, k)
    BY <1>4, <2>2
  <2>3. CASE \E k \in IssueKeys : \E a \in Answers : CallRetry(w, k, a)
    BY <1>5, <2>3
  <2>4. CASE RecordRetry(w)
    BY <1>6, <2>4
  <2>5. CASE EndPass(w)
    BY <1>7, <2>5
  <2> QED
    BY <1>8, <2>1, <2>2, <2>3, <2>4, <2>5 DEF WorkStep
<1>9. CASE \E v \in Workers \ {w} : WorkStep(v) \/ PassThrows(v)
  <2>1. PICK v \in Workers \ {w} : WorkStep(v) \/ PassThrows(v)
    BY <1>9
  <2>2. \E p : worker' = [worker EXCEPT ![v] = p]
    <3>1. CASE BeginPass(v)
      BY <3>1 DEF BeginPass
    <3>2. CASE \E k \in IssueKeys : Abandon(v, k)
      BY <3>2 DEF Abandon
    <3>3. CASE \E k \in IssueKeys : \E a \in Answers : CallRetry(v, k, a)
      BY <3>3 DEF CallRetry
    <3>4. CASE RecordRetry(v)
      BY <3>4 DEF RecordRetry
    <3>5. CASE EndPass(v)
      BY <3>5 DEF EndPass
    <3>6. CASE PassThrows(v)
      BY <3>6 DEF PassThrows
    <3> QED
      BY <2>1, <3>1, <3>2, <3>3, <3>4, <3>5, <3>6 DEF WorkStep
  <2>3. worker'[w] = worker[w]
    BY <1>0, <2>2 DEF SyncTypeOK
  <2> QED
    BY <1>1, <2>3
<1>10. CASE Crash
  BY <1>2, <1>10 DEF Crash
<1>11. CASE \E e \in Executions : PlanningStep(e) \/ SettleStep(e) \/ SwallowError(e)
  BY <1>1, <1>11 DEF PlanningStep, SettleStep, SwallowError, Plan, Edit, Start, OpenFinalize, syncVars,
     CommitFinalize, SettleComment, ReadSiblings, ReadLastSuccess, RecordSkip, CallJira, RecordAnswer
<1>12. CASE (\E k \in IssueKeys : MoveByHand(k)) \/ UNCHANGED allVars
  BY <1>1, <1>12 DEF MoveByHand, allVars
<1>13. CASE \E u \in Leavers : LeaveStep(u)
  BY <1>1, <1>13 DEF LeaveStep, LoadPending, Disconnect, DisconnectThrows
<1> QED
  BY <1>7, <1>8, <1>9, <1>10, <1>11, <1>12, <1>13 DEF SyncNext

\* A request that has its answer has just got it, or had it before.
LEMMA AnswerBecomes ==
    ASSUME Base, [SyncNext]_allVars, NEW e \in Executions, settle'[e].pc = "answered",
           settle'[e].answer = "SUCCEEDED"
    PROVE  /\ run'[e].key = run[e].key /\ run[e].key \in IssueKeys
           /\ \/ settle[e].pc = "answered" /\ settle[e].answer = "SUCCEEDED"
              \/ issue'[run[e].key] = "DONE"
<1>0. SyncTypeOK /\ RecordTypeOK /\ settle[e] \in Settling /\ SettleSound(e)
  BY DEF Base, SyncTypeOK
<1>1. settle'[e] = settle[e] \/ SettleStep(e)
  <2>1. CASE \E f \in Executions : PlanningStep(f) \/ SwallowError(f)
    BY <1>0, <2>1 DEF PlanningStep, SwallowError, Plan, Edit, Start, OpenFinalize, syncVars, SyncTypeOK,
       Settling, NotSettling
  <2>2. CASE \E f \in Executions \ {e} : SettleStep(f)
    BY <1>0, <2>2 DEF SettleStep, CommitFinalize, SettleComment, ReadSiblings, ReadLastSuccess,
       RecordSkip, CallJira, RecordAnswer, SyncTypeOK
  <2>3. CASE Crash
    BY <2>3 DEF Crash, NotSettling, AfterCommit
  <2>4. CASE (\E w \in Workers : WorkStep(w) \/ PassThrows(w)) \/ (\E k \in IssueKeys : MoveByHand(k))
             \/ UNCHANGED allVars
    BY <2>4 DEF WorkStep, PassThrows, BeginPass, Abandon, CallRetry, RecordRetry, EndPass, MoveByHand,
       allVars
  <2>5. CASE \E u \in Leavers : LeaveStep(u)
    BY <2>5 DEF LeaveStep, LoadPending, Disconnect, DisconnectThrows
  <2> QED
    BY <2>1, <2>2, <2>3, <2>4, <2>5 DEF SyncNext
<1>2. CASE settle'[e] = settle[e]
  <2>1. run'[e] = run[e] /\ run[e].key \in IssueKeys
    BY <1>0, <1>2, FinalizedIsFinal DEF SettleSound, AfterCommit
  <2> QED
    BY <1>2, <2>1
<1>3. CASE \E a \in Answers : CallJira(e, a)
  <2>1. PICK a \in Answers : CallJira(e, a)
    BY <1>3
  <2>2. settle'[e] = [settle[e] EXCEPT !.pc = "answered", !.answer = a]
    BY <1>0, <2>1 DEF CallJira, SyncTypeOK
  <2>3. a = "SUCCEEDED"
    BY <1>0, <2>2 DEF Settling
  <2>4. run' = run /\ run[e].key \in IssueKeys
    BY <1>0, <2>1 DEF CallJira, SettleSound, AfterCommit
  <2>5. issue'[run[e].key] = "DONE"
    BY <1>0, <2>1, <2>3, <2>4 DEF CallJira, Jira, SyncTypeOK
  <2> QED
    BY <2>4, <2>5
<1>4. CASE SettleStep(e) /\ ~ \E a \in Answers : CallJira(e, a)
  <2>1. CASE \E res \in Outcomes : CommitFinalize(e, res)
    <3>1. settle'[e] = [settle[e] EXCEPT !.pc = IF run[e].key = NoKey THEN "over"
                                               ELSE IF CommentOnFinalize THEN "comment" ELSE "siblings"]
      BY <1>0, <2>1 DEF CommitFinalize, SyncTypeOK
    <3> QED
      BY <1>0, <3>1 DEF Settling
  <2>2. CASE \E r \in BOOLEAN : SettleComment(e, r)
    <3>1. settle'[e] = [settle[e] EXCEPT !.pc = "siblings"]
      BY <1>0, <2>2 DEF SettleComment, SyncTypeOK
    <3> QED
      BY <1>0, <3>1 DEF Settling
  <2>3. CASE ReadSiblings(e)
    <3>1. settle'[e].pc = IF ShouldTransition(Carrying(run[e].key)) THEN "eligible" ELSE "skip"
      BY <1>0, <2>3 DEF ReadSiblings, SyncTypeOK
    <3> QED
      BY <3>1
  <2>4. CASE ReadLastSuccess(e)
    <3>1. settle'[e] = IF AlreadyCovers(run[e].key, settle[e].siblings)
                       THEN [settle[e] EXCEPT !.pc = "skip", !.siblings = {}]
                       ELSE [settle[e] EXCEPT !.pc = "call"]
      BY <1>0, <2>4 DEF ReadLastSuccess, SyncTypeOK
    <3> QED
      BY <1>0, <3>1 DEF Settling
  <2>5. CASE RecordSkip(e) \/ RecordAnswer(e)
    <3>1. settle'[e] = [NotSettling EXCEPT !.pc = "over"]
      BY <1>0, <2>5 DEF RecordSkip, RecordAnswer, SyncTypeOK
    <3> QED
      BY <3>1 DEF NotSettling
  <2> QED
    BY <1>4, <2>1, <2>2, <2>3, <2>4, <2>5 DEF SettleStep
<1> QED
  BY <1>1, <1>2, <1>3, <1>4

LEMMA EarnedNext == Base /\ DecisionStands /\ EarnedInv /\ [SyncNext]_allVars => EarnedInv'
<1> SUFFICES ASSUME Base, DecisionStands, EarnedInv, [SyncNext]_allVars PROVE EarnedInv'
  OBVIOUS
<1>0. /\ Grown /\ Base' /\ SyncTypeOK /\ RecordTypeOK /\ attempts \in Seq(Attempt)
  BY AttemptsGrow, BaseNext DEF Base, SyncTypeOK
<1>1. ASSUME NEW k, Earned(k) PROVE Earned(k)'
  BY <1>0, <1>1, EarnedForGood
\* What a new row says of Jira.
<1>2. ASSUME NEW i \in DOMAIN attempts', i \notin DOMAIN attempts, attempts'[i].outcome \in Answers
      PROVE  /\ attempts'[i].key \in IssueKeys /\ Earned(attempts'[i].key)
             /\ attempts'[i].outcome = "SUCCEEDED" /\ attempts'[i].key \notin byHand
                   => issue[attempts'[i].key] = "DONE"
  <2>1. AnswerRow(i) \/ RetryRow(i)
    BY <1>0, <1>2 DEF Grown, NewRow, SkipRow, GivenUpRow, AttemptRow, Answers
  <2>2. ASSUME NEW e \in Executions, RecordAnswer(e),
               attempts'[i] = AttemptRow(run[e].key, e, "ATTEMPTED", settle[e].answer, {})
        PROVE  /\ attempts'[i].key \in IssueKeys /\ Earned(attempts'[i].key)
               /\ attempts'[i].outcome = "SUCCEEDED" /\ attempts'[i].key \notin byHand
                     => issue[attempts'[i].key] = "DONE"
    <3>1. settle[e].pc = "answered"
      BY <2>2 DEF RecordAnswer
    <3>2. run[e].key \in IssueKeys
      BY <3>1 DEF Base, SettleSound, AfterCommit
    <3>3. Earned(run[e].key)
      BY <3>1, CalledIsEarned
    <3>4. attempts'[i].key = run[e].key /\ attempts'[i].outcome = settle[e].answer
      BY <2>2 DEF AttemptRow
    <3>5. AnswerIsSeen(e)
      BY DEF EarnedInv
    <3> QED
      BY <3>1, <3>2, <3>3, <3>4, <3>5 DEF AnswerIsSeen
  <2>3. ASSUME NEW w \in Workers, RecordRetry(w),
               attempts'[i] = AttemptRow(worker[w].key, worker[w].exec[worker[w].key], "RETRIED",
                                         worker[w].answer, {})
        PROVE  /\ attempts'[i].key \in IssueKeys /\ Earned(attempts'[i].key)
               /\ attempts'[i].outcome = "SUCCEEDED" /\ attempts'[i].key \notin byHand
                     => issue[attempts'[i].key] = "DONE"
    <3>1. worker[w].pc = "answered"
      BY <2>3 DEF RecordRetry
    <3>2. worker[w].key \in IssueKeys
      BY <3>1 DEF Base, PassSound
    <3>3. PassEarned(w)
      BY DEF EarnedInv
    <3>4. attempts'[i].key = worker[w].key /\ attempts'[i].outcome = worker[w].answer
      BY <2>3 DEF AttemptRow
    <3> QED
      BY <3>1, <3>2, <3>3, <3>4 DEF PassEarned
  <2> QED
    BY <2>1, <2>2, <2>3 DEF AnswerRow, RetryRow
<1>3. ASSUME NEW i \in DOMAIN attempts', attempts'[i].outcome \in Answers,
             NEW k, k = attempts'[i].key
      PROVE  Earned(k)'
  <2>1. Earned(k)
    <3>1. CASE i \in DOMAIN attempts
      BY <1>0, <1>3, <3>1 DEF Grown, EarnedInv
    <3>2. CASE i \notin DOMAIN attempts
      BY <1>2, <1>3, <3>2
    <3> QED
      BY <3>1, <3>2
  <2> QED
    BY <1>1, <2>1
\* The plan, the answer in hand and the call of a pass.
<1>4. ASSUME NEW w \in Workers PROVE PassEarned(w)'
  <2>1. PassEarned(w)
    BY DEF EarnedInv
  <2>2. ASSUME NEW k \in Queue PROVE Earned(k)
    <3>1. PICK i \in DOMAIN attempts : attempts[i].key = k /\ attempts[i].outcome \in Answers
      BY <2>2 DEF Queue, Rows, Answers
    <3> QED
      BY <3>1 DEF EarnedInv
  <2>3. CASE worker'[w].retry = {} /\ worker'[w].pc = "idle"
    BY <2>3 DEF PassEarned
  <2>4. CASE worker'[w].retry \subseteq Queue /\ worker'[w].pc = "working"
    <3>1. ASSUME NEW k \in worker'[w].retry PROVE Earned(k)'
      BY <1>1, <2>2, <2>4, <3>1
    <3> QED
      BY <2>4, <3>1 DEF PassEarned
  <2>5. ASSUME NEW k \in IssueKeys, NEW a \in Answers, k \in worker[w].retry,
               worker'[w].retry \subseteq worker[w].retry, worker'[w].key = k, worker'[w].answer = a,
               UNCHANGED byHand, a = "SUCCEEDED" => issue'[k] = "DONE"
        PROVE  PassEarned(w)'
    <3>1. ASSUME NEW q \in worker'[w].retry PROVE Earned(q)'
      BY <1>1, <2>1, <2>5, <3>1 DEF PassEarned
    <3>2. Earned(k)'
      BY <1>1, <2>1, <2>5 DEF PassEarned
    <3>3. Earned(worker[w].key)'
      BY <2>5, <3>2 DEF Earned
    <3> QED
      BY <2>5, <3>1, <3>3 DEF PassEarned
  <2>6. CASE /\ worker'[w].retry = worker[w].retry
             /\ worker'[w].pc = "answered" => /\ worker[w].pc = "answered"
                                              /\ worker'[w].key = worker[w].key
                                              /\ worker'[w].answer = worker[w].answer
    <3>1. ASSUME NEW q \in worker'[w].retry PROVE Earned(q)'
      BY <1>1, <2>1, <2>6, <3>1 DEF PassEarned
    <3>2. ASSUME worker'[w].pc = "answered", NEW k, k = worker'[w].key
          PROVE  /\ Earned(k)'
                 /\ worker'[w].answer = "SUCCEEDED" /\ k \notin byHand' => issue'[k] = "DONE"
      <4>1. Earned(k) /\ (worker[w].answer = "SUCCEEDED" /\ k \notin byHand => issue[k] = "DONE")
        BY <2>1, <2>6, <3>2 DEF PassEarned
      <4>2. k \in IssueKeys
        BY <2>6, <3>2 DEF Base, PassSound
      <4> QED
        BY <1>1, <2>6, <3>2, <4>1, <4>2, IssueMoves
    <3>3. worker'[w].pc = "answered" => Earned(worker[w].key)'
      BY <3>2 DEF Earned
    <3> QED
      BY <3>1, <3>2, <3>3 DEF PassEarned
  <2> QED
    BY <2>3, <2>4, <2>5, <2>6, PassBecomes
<1>5. ASSUME NEW e \in Executions PROVE AnswerIsSeen(e)'
  <2> SUFFICES ASSUME settle'[e].pc = "answered", settle'[e].answer = "SUCCEEDED",
                      run'[e].key \notin byHand'
               PROVE  issue'[run'[e].key] = "DONE"
    BY DEF AnswerIsSeen
  <2>1. /\ run'[e].key = run[e].key /\ run[e].key \in IssueKeys
        /\ \/ settle[e].pc = "answered" /\ settle[e].answer = "SUCCEEDED"
           \/ issue'[run[e].key] = "DONE"
    BY AnswerBecomes
  <2>2. AnswerIsSeen(e)
    BY DEF EarnedInv
  <2>3. run[e].key \notin byHand /\ (issue[run[e].key] = "DONE" => issue'[run[e].key] = "DONE")
    BY <2>1, IssueMoves
  <2> QED
    BY <2>1, <2>2, <2>3 DEF AnswerIsSeen
\* The issues themselves.
<1>6. ASSUME NEW k \in IssueKeys, k \notin byHand', issue'[k] = "DONE" PROVE Earned(k)'
  <2>1. /\ k \notin byHand
        /\ \/ issue'[k] = issue[k]
           \/ \E e \in Executions : settle[e].pc = "call" /\ run[e].key = k
           \/ \E w \in Workers : k \in worker[w].retry
    BY <1>6, IssueMoves
  <2>2. CASE issue'[k] = issue[k]
    BY <1>1, <1>6, <2>1, <2>2 DEF EarnedInv, DoneIsEarned, Earned
  <2>3. CASE \E e \in Executions : settle[e].pc = "call" /\ run[e].key = k
    BY <1>1, <2>3, CalledIsEarned
  <2>4. CASE \E w \in Workers : k \in worker[w].retry
    BY <1>1, <2>4 DEF EarnedInv, PassEarned
  <2> QED
    BY <2>1, <2>2, <2>3, <2>4
<1>7. ASSUME NEW k \in IssueKeys, k \notin byHand', NEW i \in DOMAIN attempts',
             attempts'[i].key = k, attempts'[i].outcome = "SUCCEEDED"
      PROVE  issue'[k] = "DONE"
  <2>1. k \notin byHand /\ (issue[k] = "DONE" => issue'[k] = "DONE")
    BY <1>7, IssueMoves
  <2>2. CASE i \in DOMAIN attempts
    <3>1. attempts[i].key = k /\ attempts[i].outcome = "SUCCEEDED"
      BY <1>0, <1>7, <2>2 DEF Grown
    <3>2. i \in Rows(k, {"SUCCEEDED"})
      BY <2>2, <3>1 DEF Rows
    <3> QED
      BY <2>1, <3>2 DEF EarnedInv, DoneIsEarned
  <2>3. CASE i \notin DOMAIN attempts
    BY <1>2, <1>7, <2>1, <2>3 DEF Answers
  <2> QED
    BY <2>2, <2>3
<1>8. DoneIsEarned'
  <2>1. ASSUME NEW k \in IssueKeys, k \notin byHand'
        PROVE  /\ issue'[k] = "DONE" => (\E e \in Carrying(k) : Passed(e))'
               /\ Rows(k, {"SUCCEEDED"})' # {} => issue'[k] = "DONE"
    <3>1. issue'[k] = "DONE" => Earned(k)'
      BY <1>6, <2>1
    <3>2. Rows(k, {"SUCCEEDED"})' # {} => issue'[k] = "DONE"
      BY <1>7, <2>1 DEF Rows
    <3> QED
      BY <3>1, <3>2 DEF Earned
  <2> QED
    BY <2>1 DEF DoneIsEarned
<1>9. (\A i \in DOMAIN attempts : attempts[i].outcome \in Answers => Earned(attempts[i].key))'
  BY <1>3 DEF Earned
<1> QED
  BY <1>4, <1>5, <1>8, <1>9 DEF EarnedInv

\* For any number of finalizes, passes, disconnects and crashes: QAMS moves an issue to done only
\* for a run that passed, and what it recorded as done is done, unless a person moved it.
THEOREM DonesAreEarned == SyncSpec => []DoneIsEarned
<1>1. SyncInit => EarnedInv
  BY DEF SyncInit, EarnedInv, PassEarned, AnswerIsSeen, DoneIsEarned, Rows, IdlePass, NotSettling
<1>2. EarnedInv => DoneIsEarned
  BY DEF EarnedInv
<1> QED
  BY <1>1, <1>2, EarnedNext, BaseInvariant, DecisionsStand, PTL DEF SyncSpec
-------------------------------------------------------------------------------
\* No silent drift

\* Whether b still holds issue k open, or has yet to look at the runs of k itself.
HoldsOpen(k, b) == b \notin Carrying(k) \/ ~Passed(b) \/ settle[b].pc \in {"comment", "siblings"}

Deciding == {"eligible", "call", "answered"}

Lost(k) == \E f \in Carrying(k) : settle[f].pc = "lost"

\* An attempt younger than e; a request that is about to make one for e's sake; a recorded skip,
\* or one about to be, for a reason that still holds; or a request that died.
Followed(k, e) ==
    \/ \E i \in Rows(k, Answers) : stamp[e] < i
    \/ \E f \in Carrying(k) : settle[f].pc \in Deciding /\ e \in settle[f].siblings
    \/ \E i \in Rows(k, {"SKIPPED"}) : \E b \in attempts[i].blockers : HoldsOpen(k, b)
    \/ \E f \in Carrying(k) : settle[f].pc = "skip" /\ \E b \in settle[f].siblings : HoldsOpen(k, b)
    \/ Lost(k)

\* A request that has looked at the runs of its issue, and was not lost.
HasLooked(e) == settle[e].pc \in Deciding \cup {"skip", "over"}

DriftInv ==
    /\ \A e \in Executions : stamp[e] <= Len(attempts)
    /\ \A k \in IssueKeys : \A e \in Carrying(k) : HasLooked(e) => Followed(k, e)

\* What a step makes of a request that has committed and is not over.
LEMMA SettleBecomes ==
    ASSUME Base, [SyncNext]_allVars, NEW f \in Executions, settle[f].pc \in AfterCommit
    PROVE  \/ settle'[f] = settle[f]
           \/ settle'[f].pc = "lost"
           \/ settle[f].pc = "comment" /\ settle'[f].pc = "siblings"
           \/ ReadSiblings(f)
           \/ settle[f].pc = "eligible" /\ AlreadyCovers(run[f].key, settle[f].siblings)
           \/ /\ settle[f].pc \in Deciding /\ settle'[f].pc \in Deciding
              /\ settle'[f].siblings = settle[f].siblings
           \/ RecordSkip(f)
           \/ RecordAnswer(f)
<1>0. SyncTypeOK /\ RecordTypeOK /\ settle[f] \in Settling /\ SettleSound(f)
  BY DEF Base, SyncTypeOK
<1>1. run[f].state = "FINALIZED"
  BY <1>0 DEF SettleSound
<1>2. CASE \E e \in Executions : PlanningStep(e)
  BY <1>0, <1>1, <1>2 DEF PlanningStep, Plan, Edit, Start, OpenFinalize, syncVars, SyncTypeOK
<1>3. ASSUME NEW e \in Executions, SwallowError(e)
      PROVE  settle'[f] = settle[f] \/ settle'[f].pc = "lost"
  BY <1>0, <1>3 DEF SwallowError, SyncTypeOK, NotSettling
<1>4. ASSUME NEW e \in Executions \ {f}, SettleStep(e) PROVE settle'[f] = settle[f]
  BY <1>0, <1>4 DEF SettleStep, CommitFinalize, SettleComment, ReadSiblings, ReadLastSuccess,
     RecordSkip, CallJira, RecordAnswer, SyncTypeOK
<1>5. CASE \E res \in Outcomes : CommitFinalize(f, res)
  BY <1>1, <1>5 DEF CommitFinalize, FinalizeRun
<1>6. CASE \E r \in BOOLEAN : SettleComment(f, r)
  <2>1. settle'[f] = [settle[f] EXCEPT !.pc = "siblings"] /\ settle[f].pc = "comment"
    BY <1>0, <1>6 DEF SettleComment, SyncTypeOK
  <2> QED
    BY <1>0, <2>1 DEF Settling
<1>7. CASE ReadLastSuccess(f)
  <2>1. /\ settle[f].pc = "eligible"
        /\ settle'[f] = IF AlreadyCovers(run[f].key, settle[f].siblings)
                        THEN [settle[f] EXCEPT !.pc = "skip", !.siblings = {}]
                        ELSE [settle[f] EXCEPT !.pc = "call"]
    BY <1>0, <1>7 DEF ReadLastSuccess, SyncTypeOK
  <2> QED
    BY <1>0, <2>1 DEF Settling, Deciding
<1>8. CASE \E a \in Answers : CallJira(f, a)
  <2>1. PICK a \in Answers : CallJira(f, a)
    BY <1>8
  <2>2. settle'[f] = [settle[f] EXCEPT !.pc = "answered", !.answer = a] /\ settle[f].pc = "call"
    BY <1>0, <2>1 DEF CallJira, SyncTypeOK
  <2> QED
    BY <1>0, <2>2 DEF Settling, Deciding
<1>9. CASE SettleStep(f)
  BY <1>5, <1>6, <1>7, <1>8, <1>9 DEF SettleStep
<1>10. CASE Crash
  BY <1>10 DEF Crash, NotSettling, AfterCommit
<1>11. CASE (\E w \in Workers : WorkStep(w) \/ PassThrows(w)) \/ (\E k \in IssueKeys : MoveByHand(k))
            \/ UNCHANGED allVars
  BY <1>11 DEF WorkStep, PassThrows, BeginPass, Abandon, CallRetry, RecordRetry, EndPass, MoveByHand,
     allVars
<1>12. CASE \E u \in Leavers : LeaveStep(u)
  BY <1>12 DEF LeaveStep, LoadPending, Disconnect, DisconnectThrows
<1> QED
  BY <1>2, <1>3, <1>4, <1>9, <1>10, <1>11, <1>12 DEF SyncNext

\* A run that carries a key is looked after from the moment it is Finalized.
LEMMA LookedAfter ==
    ASSUME Base, [SyncNext]_allVars, NEW e \in Executions, NEW k \in IssueKeys,
           run[e].state # "FINALIZED", run'[e].state = "FINALIZED", run'[e].key = k
    PROVE  settle'[e].pc \in {"comment", "siblings"}
<1>0. SyncTypeOK /\ RecordTypeOK /\ settle[e] \in Settling /\ run[e] \in RunRow
  BY DEF Base, SyncTypeOK, RecordTypeOK
<1>1. \E res \in Outcomes : CommitFinalize(e, res)
  <2>1. ASSUME NEW f \in Executions, PlanningStep(f) PROVE run'[e].state # "FINALIZED"
    <3>1. CASE \E u \in Users, q \in IssueKeys \cup {NoKey} : Plan(f, u, q)
      BY <1>0, <3>1 DEF Plan, PlanRun, RecordTypeOK
    <3>2. CASE \E u \in Users, q \in IssueKeys \cup {NoKey} : Edit(f, u, q)
      <4>1. PICK u \in Users, q \in IssueKeys \cup {NoKey} : Edit(f, u, q)
        BY <3>2
      <4>2. run'[e] = run[e] \/ (e = f /\ run'[e] = [run[e] EXCEPT !.tester = u, !.key = q])
        BY <1>0, <4>1 DEF Edit, EditRun, RecordTypeOK
      <4> QED
        BY <1>0, <4>2 DEF RunRow
    <3>3. CASE Start(f)
      <4>1. run'[e] = run[e] \/ (e = f /\ run'[e] = [run[e] EXCEPT !.state = "IN_PROGRESS"])
        BY <1>0, <3>3 DEF Start, StartRun, RecordTypeOK
      <4> QED
        BY <1>0, <4>1 DEF RunRow
    <3>4. CASE OpenFinalize(f)
      BY <3>4 DEF OpenFinalize
    <3> QED
      BY <2>1, <3>1, <3>2, <3>3, <3>4 DEF PlanningStep
  <2>2. CASE \E f \in Executions : SettleStep(f) \/ SwallowError(f)
    BY <1>0, <2>2 DEF SettleStep, SwallowError, CommitFinalize, FinalizeRun, SettleComment,
       ReadSiblings, ReadLastSuccess, RecordSkip, CallJira, RecordAnswer, RecordTypeOK
  <2>3. CASE (\E w \in Workers : WorkStep(w) \/ PassThrows(w)) \/ Crash
             \/ (\E q \in IssueKeys : MoveByHand(q)) \/ UNCHANGED allVars
    BY <2>3 DEF WorkStep, PassThrows, BeginPass, Abandon, CallRetry, RecordRetry, EndPass, Crash,
       MoveByHand, allVars
  <2>4. CASE \E u \in Leavers : LeaveStep(u)
    BY <2>4 DEF LeaveStep, LoadPending, Disconnect, DisconnectThrows
  <2> QED
    BY <2>1, <2>2, <2>3, <2>4 DEF SyncNext
<1>2. run'[e].key = run[e].key
  BY <1>0, <1>1 DEF CommitFinalize, FinalizeRun, RecordTypeOK, RunRow
<1>3. settle'[e] = [settle[e] EXCEPT !.pc = IF run[e].key = NoKey THEN "over"
                                           ELSE IF CommentOnFinalize THEN "comment" ELSE "siblings"]
  BY <1>0, <1>1 DEF CommitFinalize, SyncTypeOK
<1> QED
  BY <1>0, <1>2, <1>3, SyncAssumption DEF Settling

\* finalizedAt is taken once.
LEMMA StampTaken ==
    ASSUME Base, [SyncNext]_allVars, NEW e \in Executions
    PROVE  stamp'[e] = stamp[e] \/ (stamp'[e] = Len(attempts) /\ run[e].state # "FINALIZED")
<1>0. SyncTypeOK
  BY DEF Base
<1>1. CASE \E f \in Executions : OpenFinalize(f)
  BY <1>0, <1>1 DEF OpenFinalize, SyncTypeOK
<1>2. CASE UNCHANGED stamp
  BY <1>2
<1>3. CASE \E f \in Executions : PlanningStep(f)
  BY <1>1, <1>2, <1>3 DEF PlanningStep, Plan, Edit, Start, syncVars
<1>4. CASE \E f \in Executions : SettleStep(f) \/ SwallowError(f)
  BY <1>2, <1>4 DEF SettleStep, SwallowError, CommitFinalize, SettleComment,
     ReadSiblings, ReadLastSuccess, RecordSkip, CallJira, RecordAnswer
<1>5. CASE (\E w \in Workers : WorkStep(w) \/ PassThrows(w)) \/ Crash
           \/ (\E q \in IssueKeys : MoveByHand(q)) \/ UNCHANGED allVars
  BY <1>2, <1>5 DEF WorkStep, PassThrows, BeginPass, Abandon, CallRetry, RecordRetry, EndPass, Crash,
     MoveByHand, allVars
<1>6. CASE \E u \in Leavers : LeaveStep(u)
  BY <1>2, <1>6 DEF LeaveStep, LoadPending, Disconnect, DisconnectThrows
<1> QED
  BY <1>3, <1>4, <1>5, <1>6 DEF SyncNext

LEMMA FinalizedIsSettled ==
    ASSUME Base, NEW e \in Executions, run[e].state = "FINALIZED"
    PROVE  settle[e].pc \in AfterCommit \cup {"over", "lost"}
<1>1. settle[e] \in Settling /\ SettleSound(e)
  BY DEF Base, SyncTypeOK
<1> QED
  BY <1>1 DEF SettleSound, Settling, AfterCommit

\* A run that holds an issue open goes on doing so until it looks at the runs itself, or is lost.
LEMMA HeldOpen ==
    ASSUME Base, [SyncNext]_allVars, NEW k \in IssueKeys, NEW b \in Executions, HoldsOpen(k, b),
           ~Lost(k)', \A f \in Executions : run[f].key = k => ~ReadSiblings(f)
    PROVE  HoldsOpen(k, b)'
<1> SUFFICES ASSUME run'[b].key = k, run'[b].state = "FINALIZED", run'[b].result = "PASS"
             PROVE  settle'[b].pc \in {"comment", "siblings"}
  BY DEF HoldsOpen, Carrying, Passed
<1>1. CASE run[b].state # "FINALIZED"
  BY <1>1, LookedAfter
<1>2. CASE run[b].state = "FINALIZED"
  <2>1. run'[b] = run[b]
    BY <1>2, FinalizedIsFinal DEF Base, SyncTypeOK
  <2>2. settle[b].pc \in {"comment", "siblings"} /\ settle[b].pc \in AfterCommit
    BY <2>1 DEF HoldsOpen, Carrying, Passed, AfterCommit
  <2>3. settle'[b].pc # "lost" /\ ~ReadSiblings(b)
    BY <2>1 DEF Lost, Carrying
  <2>4. ~RecordSkip(b) /\ ~RecordAnswer(b)
    BY <2>2 DEF RecordSkip, RecordAnswer
  <2> QED
    BY <2>2, <2>3, <2>4, SettleBecomes DEF Deciding
<1> QED
  BY <1>1, <1>2

\* A request that looks answers for every run of its issue.
LEMMA LookCovers ==
    ASSUME Base, NEW k \in IssueKeys, NEW f \in Executions, ReadSiblings(f), run[f].key = k,
           NEW e \in Executions, run'[e].key = k
    PROVE  Followed(k, e)'
<1>0. SyncTypeOK /\ settle[f].pc = "siblings" /\ UNCHANGED run
  BY DEF Base, ReadSiblings
<1>1. Carrying(k)' = Carrying(k) /\ f \in Carrying(k) /\ e \in Carrying(k)
  BY <1>0 DEF Carrying
<1>2. CASE ShouldTransition(Carrying(k))
  <2>1. settle'[f].pc = "eligible" /\ settle'[f].siblings = Carrying(k)
    BY <1>0, <1>2 DEF ReadSiblings, SyncTypeOK
  <2>2. \E g \in Carrying(k)' : settle'[g].pc \in Deciding /\ e \in settle'[g].siblings
    BY <1>1, <2>1 DEF Deciding
  <2> QED
    BY <2>2 DEF Followed, Deciding
<1>3. CASE ~ShouldTransition(Carrying(k))
  <2>1. settle'[f].pc = "skip" /\ settle'[f].siblings = Blockers(Carrying(k))
    BY <1>0, <1>3 DEF ReadSiblings, SyncTypeOK
  <2>2. PICK b \in Carrying(k) : ~Passed(b)
    BY <1>1, <1>3 DEF ShouldTransition, Blockers
  <2>3. b \in settle'[f].siblings
    BY <2>1, <2>2 DEF Blockers
  <2>4. HoldsOpen(k, b)'
    BY <1>0, <2>2 DEF HoldsOpen, Passed
  <2>5. (\E g \in Carrying(k) : settle[g].pc = "skip" /\ \E c \in settle[g].siblings : HoldsOpen(k, c))'
    BY <1>1, <2>1, <2>3, <2>4
  <2> QED
    BY <2>5 DEF Followed
<1> QED
  BY <1>2, <1>3

\* A record of what a request in hand had to say.
LEMMA RecordedNow ==
    ASSUME Base, NEW e \in Executions, NEW a, NEW o, NEW b, Record(run[e].key, e, a, o, b)
    PROVE  /\ Len(attempts) \in Nat /\ Len(attempts) + 1 \in DOMAIN attempts'
           /\ attempts'[Len(attempts) + 1] = AttemptRow(run[e].key, e, a, o, b)
<1>1. attempts \in Seq(Attempt) /\ Len(attempts) \in Nat
  BY DEF Base, SyncTypeOK
<1>2. attempts' = Append(attempts, AttemptRow(run[e].key, e, a, o, b))
  BY DEF Record, AttemptRow
<1>3. /\ DOMAIN attempts' = 1..(Len(attempts) + 1)
      /\ attempts'[Len(attempts) + 1] = AttemptRow(run[e].key, e, a, o, b)
  BY <1>1, <1>2
<1> QED
  BY <1>1, <1>3

LEMMA FollowedOn ==
    ASSUME Base, Grown, [SyncNext]_allVars, NEW k \in IssueKeys, NEW e \in Carrying(k),
           run[e].state = "FINALIZED", \A f \in Executions : stamp[f] <= Len(attempts),
           Followed(k, e), ~Lost(k)', \A f \in Executions : run[f].key = k => ~ReadSiblings(f)
    PROVE  Followed(k, e)'
<1>0. /\ SyncTypeOK /\ RecordTypeOK /\ e \in Executions
      /\ stamp'[e] = stamp[e] /\ stamp[e] <= Len(attempts) /\ stamp[e] \in Nat
      /\ Len(attempts) \in Nat
  BY StampTaken DEF Base, SyncTypeOK, Carrying
\* Rows stay where they are.
<1>1. ASSUME NEW i \in DOMAIN attempts
      PROVE  i \in DOMAIN attempts' /\ attempts'[i] = attempts[i] /\ attempts[i] \in Attempt
  <2>1. attempts[i] \in Attempt
    BY <1>0 DEF SyncTypeOK
  <2>2. i \in 1..Len(attempts) /\ i \in 1..Len(attempts')
    BY <1>1 DEF Grown
  <2> QED
    BY <2>1, <2>2 DEF Grown
\* A request for this issue that has committed goes on carrying it.
<1>2. ASSUME NEW f \in Carrying(k), settle[f].pc \in AfterCommit
      PROVE  /\ f \in Executions /\ f \in Carrying(k)' /\ run[f].key = k
             /\ settle'[f].pc # "lost" /\ ~ReadSiblings(f)
  <2>1. f \in Executions /\ run[f].key = k /\ run[f].state = "FINALIZED"
    BY <1>2 DEF Carrying, Base, SettleSound
  <2>2. run'[f] = run[f]
    BY <1>0, <2>1, FinalizedIsFinal
  <2> QED
    BY <2>1, <2>2 DEF Carrying, Lost
<1>3. ASSUME NEW b \in Executions, HoldsOpen(k, b) PROVE HoldsOpen(k, b)'
  BY <1>3, HeldOpen
<1>4. CASE \E i \in Rows(k, Answers) : stamp[e] < i
  <2>1. \E i \in Rows(k, Answers)' : stamp'[e] < i
    BY <1>0, <1>1, <1>4 DEF Rows
  <2> QED
    BY <2>1 DEF Followed
<1>5. ASSUME NEW f \in Carrying(k), settle[f].pc \in Deciding, e \in settle[f].siblings
      PROVE  Followed(k, e)'
  <2>1. settle[f].pc \in AfterCommit
    BY <1>5 DEF Deciding, AfterCommit
  <2>2. /\ f \in Executions /\ f \in Carrying(k)' /\ run[f].key = k
        /\ settle'[f].pc # "lost" /\ ~ReadSiblings(f)
    BY <1>2, <2>1
  <2>3. CASE settle'[f].pc \in Deciding /\ settle'[f].siblings = settle[f].siblings
    <3>1. \E g \in Carrying(k)' : settle'[g].pc \in Deciding /\ e \in settle'[g].siblings
      BY <1>5, <2>2, <2>3
    <3> QED
      BY <3>1 DEF Followed, Deciding
  <2>4. CASE AlreadyCovers(run[f].key, settle[f].siblings)
    <3>1. PICK i \in Rows(k, {"SUCCEEDED"}) : stamp[e] < i
      BY <1>5, <2>2, <2>4 DEF AlreadyCovers
    <3>2. i \in Rows(k, Answers)
      BY <3>1 DEF Rows, Answers
    <3> QED
      BY <1>4, <3>1, <3>2
  <2>5. CASE RecordAnswer(f)
    <3>1. Record(run[f].key, f, "ATTEMPTED", settle[f].answer, {}) /\ settle[f].pc = "answered"
      BY <2>5 DEF RecordAnswer
    <3>2. settle[f].answer \in Answers
      BY <2>2, <3>1 DEF Base, SettleSound
    <3> DEFINE n == Len(attempts) + 1
    <3>3. n \in DOMAIN attempts' /\ attempts'[n] = AttemptRow(k, f, "ATTEMPTED", settle[f].answer, {})
      BY <2>2, <3>1, RecordedNow
    <3>4. stamp'[e] < n
      BY <1>0
    <3> HIDE DEF n
    <3>5. n \in Rows(k, Answers)'
      BY <3>2, <3>3 DEF Rows, AttemptRow, Answers
    <3> QED
      BY <3>4, <3>5 DEF Followed
  <2>6. CASE settle'[f] = settle[f]
    BY <1>5, <2>3, <2>6
  <2>7. ~RecordSkip(f)
    BY <1>5 DEF RecordSkip, Deciding
  <2>8. settle[f].pc # "comment"
    BY <1>5 DEF Deciding
  <2> QED
    BY <2>1, <2>2, <2>3, <2>4, <2>5, <2>6, <2>7, <2>8, SettleBecomes
<1>6. ASSUME NEW i \in Rows(k, {"SKIPPED"}), NEW b \in attempts[i].blockers, HoldsOpen(k, b)
      PROVE  Followed(k, e)'
  <2>1. /\ i \in DOMAIN attempts' /\ attempts'[i] = attempts[i] /\ attempts[i] \in Attempt
        /\ attempts[i].key = k /\ attempts[i].outcome \in {"SKIPPED"}
    BY <1>1 DEF Rows
  <2>2. b \in Executions
    BY <2>1 DEF Attempt
  <2>3. HoldsOpen(k, b)'
    BY <1>3, <1>6, <2>2
  <2>4. i \in Rows(k, {"SKIPPED"})' /\ b \in attempts'[i].blockers
    BY <2>1 DEF Rows
  <2>5. (\E j \in Rows(k, {"SKIPPED"}) : \E c \in attempts[j].blockers : HoldsOpen(k, c))'
    BY <2>3, <2>4
  <2> QED
    BY <2>5 DEF Followed
<1>7. ASSUME NEW f \in Carrying(k), settle[f].pc = "skip", NEW b \in settle[f].siblings, HoldsOpen(k, b)
      PROVE  Followed(k, e)'
  <2>1. settle[f].pc \in AfterCommit
    BY <1>7 DEF AfterCommit
  <2>2. /\ f \in Executions /\ f \in Carrying(k)' /\ run[f].key = k
        /\ settle'[f].pc # "lost" /\ ~ReadSiblings(f)
    BY <1>2, <2>1
  <2>3. b \in Executions
    BY <1>0, <2>2 DEF SyncTypeOK, Settling
  <2>4. HoldsOpen(k, b)'
    BY <1>3, <1>7, <2>3
  <2>5. CASE settle'[f] = settle[f]
    <3>1. (\E g \in Carrying(k) : settle[g].pc = "skip" /\ \E c \in settle[g].siblings : HoldsOpen(k, c))'
      BY <1>7, <2>2, <2>4, <2>5
    <3> QED
      BY <3>1 DEF Followed
  <2>6. CASE RecordSkip(f)
    <3>1. Record(run[f].key, f, "SKIPPED", "SKIPPED", settle[f].siblings)
      BY <2>6 DEF RecordSkip
    <3> DEFINE n == Len(attempts) + 1
    <3>2. n \in DOMAIN attempts' /\ attempts'[n] = AttemptRow(k, f, "SKIPPED", "SKIPPED", settle[f].siblings)
      BY <2>2, <3>1, RecordedNow
    <3> HIDE DEF n
    <3>3. n \in Rows(k, {"SKIPPED"})' /\ b \in attempts'[n].blockers
      BY <3>2 DEF Rows, AttemptRow
    <3>4. (\E j \in Rows(k, {"SKIPPED"}) : \E c \in attempts[j].blockers : HoldsOpen(k, c))'
      BY <2>4, <3>3
    <3> QED
      BY <3>4 DEF Followed
  <2>7. ~RecordAnswer(f)
    BY <1>7 DEF RecordAnswer
  <2> QED
    BY <1>7, <2>1, <2>2, <2>5, <2>6, <2>7, SettleBecomes DEF Deciding
<1>8. CASE Lost(k)
  <2>1. PICK f \in Carrying(k) : settle[f].pc = "lost"
    BY <1>8 DEF Lost
  <2>2. f \in Executions /\ run[f].key = k /\ run[f].state = "FINALIZED"
    BY <2>1 DEF Carrying, Base, SettleSound
  <2>3. run'[f] = run[f] /\ settle'[f] = settle[f]
    BY <1>0, <2>1, <2>2, FinalizedIsFinal, EndedIsEnded
  <2> QED
    BY <2>1, <2>2, <2>3 DEF Lost, Carrying
<1> QED
  BY <1>4, <1>5, <1>6, <1>7, <1>8 DEF Followed

LEMMA DriftNext == Base /\ DriftInv /\ [SyncNext]_allVars => DriftInv'
<1> SUFFICES ASSUME Base, DriftInv, [SyncNext]_allVars PROVE DriftInv'
  OBVIOUS
<1>0. Grown /\ Base' /\ SyncTypeOK /\ RecordTypeOK
  BY AttemptsGrow, BaseNext DEF Base, SyncTypeOK
<1>1. ASSUME NEW e \in Executions PROVE stamp'[e] <= Len(attempts')
  <2>1. Len(attempts) <= Len(attempts') /\ Len(attempts) \in Nat /\ Len(attempts') \in Nat
    BY <1>0 DEF Grown
  <2>2. stamp[e] \in Nat /\ stamp[e] <= Len(attempts)
    BY <1>0 DEF SyncTypeOK, DriftInv
  <2> QED
    BY <2>1, <2>2, StampTaken
<1>2. ASSUME NEW k \in IssueKeys, NEW e \in Carrying(k)', HasLooked(e)' PROVE Followed(k, e)'
  <2>1. e \in Executions /\ run'[e].key = k /\ run'[e].state = "FINALIZED"
    <3>1. e \in Executions /\ run'[e].key = k
      BY <1>2 DEF Carrying
    <3>2. SettleSound(e)'
      BY <1>0, <3>1 DEF Base
    <3> QED
      BY <1>2, <3>1, <3>2 DEF SettleSound, HasLooked, Deciding, AfterCommit
  <2>2. CASE Lost(k)'
    BY <2>2 DEF Followed
  <2>3. CASE \E f \in Executions : run[f].key = k /\ ReadSiblings(f)
    BY <2>1, <2>3, LookCovers
  <2>4. CASE ~Lost(k)' /\ \A f \in Executions : run[f].key = k => ~ReadSiblings(f)
    <3>1. run[e].state = "FINALIZED"
      BY <1>2, <2>1, LookedAfter DEF HasLooked, Deciding
    <3>2. run[e].key = k
      BY <1>0, <2>1, <3>1, FinalizedIsFinal
    <3>3. HasLooked(e)
      <4>1. settle[e].pc \in AfterCommit \cup {"over", "lost"}
        BY <2>1, <3>1, FinalizedIsSettled
      <4>2. settle[e].pc # "lost"
        BY <1>2, <2>1, EndedIsEnded DEF HasLooked, Deciding
      <4>3. settle[e].pc \notin {"comment", "siblings"}
        <5> SUFFICES ASSUME settle[e].pc \in {"comment", "siblings"} PROVE FALSE
          OBVIOUS
        <5>1. settle[e].pc \in AfterCommit /\ ~RecordSkip(e) /\ ~RecordAnswer(e) /\ ~ReadSiblings(e)
          BY <2>1, <2>4, <3>2 DEF AfterCommit, RecordSkip, RecordAnswer
        <5>2. settle'[e].pc \notin {"comment", "siblings", "lost"}
          BY <1>2 DEF HasLooked, Deciding
        <5> QED
          BY <2>1, <5>1, <5>2, SettleBecomes DEF Deciding
      <4> QED
        BY <4>1, <4>2, <4>3 DEF HasLooked, Deciding, AfterCommit
    <3>4. e \in Carrying(k) /\ Followed(k, e)
      BY <2>1, <3>2, <3>3 DEF Carrying, DriftInv
    <3>5. \A f \in Executions : stamp[f] <= Len(attempts)
      BY DEF DriftInv
    <3> QED
      BY <1>0, <2>4, <3>1, <3>4, <3>5, FollowedOn
  <2> QED
    BY <2>2, <2>3, <2>4
<1>3. (\A k \in IssueKeys : \A e \in Carrying(k) : HasLooked(e) => Followed(k, e))'
  BY <1>2
<1> QED
  BY <1>1, <1>3 DEF DriftInv

LEMMA DriftGives == Base /\ DriftInv => NoSilentDrift
<1> SUFFICES ASSUME Base, DriftInv, NEW k \in IssueKeys, ShouldTransition(Carrying(k)), Quiet(k)
             PROVE  \/ \A e \in Carrying(k) : \E i \in Rows(k, {"SUCCEEDED", "FAILED"}) : stamp[e] < i
                    \/ \E i \in Rows(k, {"SKIPPED"}) : attempts[i].blockers \ Carrying(k) # {}
  BY DEF NoSilentDrift
<1>1. ASSUME NEW e \in Carrying(k) PROVE Passed(e) /\ settle[e].pc = "over" /\ Followed(k, e)
  <2>1. e \in Executions /\ Passed(e)
    BY <1>1 DEF Carrying, ShouldTransition, Blockers
  <2>2. settle[e].pc = "over"
    BY <1>1, <2>1, FinalizedIsSettled DEF Passed, Quiet, AfterCommit
  <2> QED
    BY <1>1, <2>1, <2>2 DEF DriftInv, HasLooked
<1>2. ~Lost(k)
  BY <1>1 DEF Lost
<1>3. \A b : HoldsOpen(k, b) => b \notin Carrying(k)
  BY <1>1 DEF HoldsOpen
<1>4. ASSUME NEW e \in Carrying(k)
      PROVE  \/ \E i \in Rows(k, Answers) : stamp[e] < i
             \/ \E i \in Rows(k, {"SKIPPED"}) : \E b \in attempts[i].blockers : HoldsOpen(k, b)
  BY <1>1, <1>2, <1>4 DEF Followed, Deciding
<1> QED
  BY <1>3, <1>4 DEF Answers

\* For any number of finalizes, passes, disconnects and crashes: an issue all of whose runs passed
\* has an attempt younger than each of them once every request is over, unless the run a skip
\* waited for was re-pointed away.
THEOREM DriftIsNeverSilent == SyncSpec => []NoSilentDrift
<1>1. SyncInit => DriftInv
  <2> SUFFICES ASSUME SyncInit PROVE DriftInv
    OBVIOUS
  <2>1. Len(attempts) = 0 /\ \A e \in Executions : stamp[e] = 0
    BY DEF SyncInit
  <2>2. ASSUME NEW k \in IssueKeys, NEW e \in Carrying(k) PROVE ~HasLooked(e)
    BY DEF SyncInit, HasLooked, Deciding, NotSettling, Carrying
  <2> QED
    BY <2>1, <2>2 DEF DriftInv
<1> QED
  BY <1>1, DriftNext, DriftGives, BaseInvariant, PTL DEF SyncSpec
-------------------------------------------------------------------------------
\* The retry budget

Failed(k) == Rows(k, {"FAILED"})

Retried(k) == {i \in Failed(k) : attempts[i].action = "RETRIED"}

\* The passes that have a retry of k before them, or its answer to record.
Held(k) == {w \in Workers : k \in worker[w].retry \/ (worker[w].pc = "answered" /\ worker[w].key = k)}

\* A pass that plans an issue has seen fewer than MaxSyncAttempts failures of it, the first of which
\* was no retry; a pass that comes to record a retry is one pass less that will.
BudgetInv ==
    /\ \A w \in Workers : /\ worker[w].pc = "idle" => worker[w].retry = {}
                          /\ worker[w].pc = "answered" => worker[w].key \notin worker[w].retry
    /\ \A k \in IssueKeys :
          /\ Held(k) # {} => Failed(k) # {}
          /\ Failed(k) # {} => Failed(k) # Retried(k)
          /\ \/ Held(k) = {} /\ Retried(k) = {}
             \/ Cardinality(Retried(k)) + Cardinality(Held(k))
                    <= MaxSyncAttempts - 2 + Cardinality(Workers)

LEMMA BudgetFinite ==
    ASSUME Base, NEW k
    PROVE  /\ IsFiniteSet(Failed(k)) /\ IsFiniteSet(Retried(k)) /\ IsFiniteSet(Held(k))
           /\ Cardinality(Failed(k)) \in Nat /\ Cardinality(Retried(k)) \in Nat
           /\ Cardinality(Held(k)) \in Nat /\ Cardinality(Workers) \in Nat
           /\ Cardinality(Held(k)) <= Cardinality(Workers) /\ Cardinality(Workers) >= 1
<1>1. attempts \in Seq(Attempt)
  BY DEF Base, SyncTypeOK
<1>2. IsFiniteSet(1..Len(attempts))
  BY <1>1, FS_Interval
<1>3. Failed(k) \subseteq 1..Len(attempts) /\ Retried(k) \subseteq 1..Len(attempts)
      /\ Held(k) \subseteq Workers
  BY <1>1 DEF Failed, Retried, Rows, Held
<1>4. IsFiniteSet(Failed(k)) /\ IsFiniteSet(Retried(k)) /\ IsFiniteSet(Held(k))
      /\ Cardinality(Held(k)) <= Cardinality(Workers)
  BY <1>2, <1>3, FS_Subset, SyncAssumption
<1>5. Cardinality(Workers) \in Nat /\ Cardinality(Workers) # 0
  BY FS_CardinalityType, FS_EmptySet, SyncAssumption
<1> QED
  BY <1>4, <1>5, FS_CardinalityType

\* Of the rows a step adds, only those of RecordRetry are failed retries.
LEMMA RetriedGrow ==
    ASSUME Base, Grown, NEW k \in IssueKeys
    PROVE  /\ Failed(k) \subseteq Failed(k)'
           /\ \A i \in Failed(k) : attempts'[i] = attempts[i]
           /\ \A i \in Failed(k)' : i \in Failed(k) \/ (i > Len(attempts) /\ NewRow(i))
           /\ Retried(k) \subseteq Retried(k)'
           /\ \A i \in Retried(k)' : i \in Retried(k) \/ (i > Len(attempts) /\ RetryRow(i))
<1>1. /\ Failed(k) \subseteq Failed(k)' /\ \A i \in Failed(k) : attempts'[i] = attempts[i]
      /\ \A i \in Failed(k)' : i \in Failed(k) \/ (i > Len(attempts) /\ NewRow(i))
  BY DEF Grown, Failed, Rows
<1>2. Retried(k) \subseteq Retried(k)'
  BY <1>1 DEF Retried
<1>3. ASSUME NEW i \in Retried(k)', i \notin Retried(k) PROVE i > Len(attempts) /\ RetryRow(i)
  <2>1. i \in Failed(k)' /\ attempts'[i].action = "RETRIED"
    BY <1>3 DEF Retried
  <2>2. i \notin Failed(k)
    BY <1>1, <1>3, <2>1 DEF Retried
  <2>3. i > Len(attempts) /\ NewRow(i)
    BY <1>1, <2>1, <2>2
  <2>4. ~SkipRow(i)
    <3>1. ASSUME NEW e, attempts'[i] = AttemptRow(run[e].key, e, "SKIPPED", "SKIPPED", settle[e].siblings)
          PROVE  FALSE
      BY <2>1, <3>1 DEF AttemptRow
    <3> QED
      BY <3>1 DEF SkipRow
  <2>5. ~AnswerRow(i)
    <3>1. ASSUME NEW e, attempts'[i] = AttemptRow(run[e].key, e, "ATTEMPTED", settle[e].answer, {})
          PROVE  FALSE
      BY <2>1, <3>1 DEF AttemptRow
    <3> QED
      BY <3>1 DEF AnswerRow
  <2>6. ~GivenUpRow(i)
    BY <2>1 DEF GivenUpRow
  <2> QED
    BY <2>3, <2>4, <2>5, <2>6 DEF NewRow
<1> QED
  BY <1>1, <1>2, <1>3

LEMMA BudgetNext == Base /\ BudgetInv /\ [SyncNext]_allVars => BudgetInv'
<1> SUFFICES ASSUME Base, BudgetInv, [SyncNext]_allVars PROVE BudgetInv'
  OBVIOUS
<1>0. Grown /\ Base' /\ SyncTypeOK /\ MaxSyncAttempts \in Nat \ {0}
      /\ \A w \in Workers : worker[w] \in Pass
  BY AttemptsGrow, BaseNext, SyncAssumption DEF Base, SyncTypeOK
\* A step that plans nothing more and records no retry.
<1>1. ASSUME \A w \in Workers : /\ worker'[w].pc = "idle" => worker'[w].retry = {}
                                /\ worker'[w].pc = "answered" => worker'[w].key \notin worker'[w].retry,
             \A k \in IssueKeys : Held(k)' \subseteq Held(k),
             ~ \E w \in Workers : RecordRetry(w)
      PROVE  BudgetInv'
  <2> SUFFICES ASSUME NEW k \in IssueKeys
               PROVE  /\ Held(k)' # {} => Failed(k)' # {}
                      /\ Failed(k)' # {} => Failed(k)' # Retried(k)'
                      /\ \/ Held(k)' = {} /\ Retried(k)' = {}
                         \/ Cardinality(Retried(k)') + Cardinality(Held(k)')
                                <= MaxSyncAttempts - 2 + Cardinality(Workers)
    BY <1>1 DEF BudgetInv
  <2>1. Retried(k)' = Retried(k)
    BY <1>0, <1>1, RetriedGrow DEF RetryRow
  <2>2. Held(k)' # {} => Failed(k)' # {}
    BY <1>0, <1>1, RetriedGrow DEF BudgetInv
  <2>3. Failed(k)' # {} => Failed(k)' # Retried(k)'
    <3>1. CASE Failed(k) # {}
      <4>1. Failed(k) # Retried(k) /\ Retried(k) \subseteq Failed(k)
        BY <3>1 DEF BudgetInv, Retried
      <4> QED
        BY <1>0, <2>1, <4>1, RetriedGrow
    <3>2. CASE Failed(k) = {}
      BY <2>1, <3>2 DEF Retried
    <3> QED
      BY <3>1, <3>2
  <2>4. Cardinality(Held(k)') <= Cardinality(Held(k))
    BY <1>0, <1>1, BudgetFinite, FS_Subset
  <2>5. /\ Cardinality(Held(k)) \in Nat /\ Cardinality(Retried(k)) \in Nat
        /\ Cardinality(Workers) \in Nat /\ Cardinality(Held(k)') \in Nat
    BY <1>0, <1>1, BudgetFinite, FS_Subset, FS_CardinalityType
  <2>6. CASE Held(k) = {} /\ Retried(k) = {}
    BY <1>1, <2>1, <2>2, <2>3, <2>6
  <2>7. CASE Cardinality(Retried(k)) + Cardinality(Held(k)) <= MaxSyncAttempts - 2 + Cardinality(Workers)
    <3>1. Cardinality(Retried(k)') + Cardinality(Held(k)') <= MaxSyncAttempts - 2 + Cardinality(Workers)
      BY <1>0, <2>1, <2>4, <2>5, <2>7
    <3> QED
      BY <2>2, <2>3, <3>1
  <2> QED
    BY <2>6, <2>7 DEF BudgetInv
<1>2. ASSUME UNCHANGED worker, ~ \E w \in Workers : RecordRetry(w) PROVE BudgetInv'
  BY <1>1, <1>2 DEF BudgetInv, Held
<1>3. ASSUME NEW w \in Workers, BeginPass(w) PROVE BudgetInv'
  <2>1. PICK q : /\ q.pc = "working" /\ q.retry = {k \in Queue : ~Exhausted(k)}
                 /\ worker' = [worker EXCEPT ![w] = q]
    BY <1>3 DEF BeginPass
  <2>2. worker'[w] = q /\ \A v \in Workers \ {w} : worker'[v] = worker[v]
    BY <1>0, <2>1 DEF SyncTypeOK
  <2>3. worker[w].pc = "idle" /\ worker[w].retry = {} /\ UNCHANGED attempts
    BY <1>3 DEF BeginPass, BudgetInv
  <2>4. \A v \in Workers : /\ worker'[v].pc = "idle" => worker'[v].retry = {}
                           /\ worker'[v].pc = "answered" => worker'[v].key \notin worker'[v].retry
    BY <2>1, <2>2 DEF BudgetInv
  <2> SUFFICES ASSUME NEW k \in IssueKeys
               PROVE  /\ Held(k)' # {} => Failed(k)' # {}
                      /\ Failed(k)' # {} => Failed(k)' # Retried(k)'
                      /\ \/ Held(k)' = {} /\ Retried(k)' = {}
                         \/ Cardinality(Retried(k)') + Cardinality(Held(k)')
                                <= MaxSyncAttempts - 2 + Cardinality(Workers)
    BY <2>4 DEF BudgetInv
  <2>5. Failed(k)' = Failed(k) /\ Retried(k)' = Retried(k)
    BY <2>3 DEF Failed, Retried, Rows
  <2>6. CASE k \notin q.retry
    <3>1. Held(k)' = Held(k)
      BY <2>1, <2>2, <2>3, <2>6 DEF Held
    <3> QED
      BY <2>5, <3>1 DEF BudgetInv
  <2>7. CASE k \in q.retry
    <3>1. Failed(k) # {} /\ ~Exhausted(k)
      BY <2>1, <2>7 DEF Queue, Failed
    <3>2. /\ IsFiniteSet(Failed(k)) /\ Retried(k) \subseteq Failed(k) /\ Retried(k) # Failed(k)
          /\ Cardinality(Failed(k)) \in Nat /\ Cardinality(Retried(k)) \in Nat
      BY <1>0, <3>1, BudgetFinite DEF BudgetInv, Retried
    <3>3. Cardinality(Failed(k)) <= MaxSyncAttempts - 1
      BY <1>0, <3>1, <3>2 DEF Exhausted, Failed
    <3>4. Cardinality(Retried(k)) < Cardinality(Failed(k))
      <4>1. /\ Cardinality(Retried(k)) <= Cardinality(Failed(k))
            /\ Cardinality(Retried(k)) = Cardinality(Failed(k)) => Retried(k) = Failed(k)
        BY <3>2, FS_Subset
      <4> QED
        BY <3>2, <4>1
    <3>5. Cardinality(Held(k)') <= Cardinality(Workers) /\ Cardinality(Workers) \in Nat
          /\ Cardinality(Held(k)') \in Nat
      <4>1. Held(k)' \subseteq Workers
        BY DEF Held
      <4> QED
        BY <4>1, SyncAssumption, FS_Subset, FS_CardinalityType
    <3>6. Cardinality(Retried(k)) + Cardinality(Held(k)') <= MaxSyncAttempts - 2 + Cardinality(Workers)
      BY <1>0, <3>2, <3>3, <3>4, <3>5
    <3> QED
      BY <2>5, <3>1, <3>2, <3>6
  <2> QED
    BY <2>6, <2>7
<1>4. ASSUME NEW w \in Workers, RecordRetry(w) PROVE BudgetInv'
  <2>1. PICK j : j = worker[w].key
    OBVIOUS
  <2>2. /\ worker[w].pc = "answered" /\ j \in IssueKeys /\ j \notin worker[w].retry
        /\ worker[w].exec[j] \in Executions /\ worker[w].answer \in Answers
    BY <1>4, <2>1 DEF RecordRetry, Base, PassSound, BudgetInv
  <2>3. PICK q : /\ q.pc = "working" /\ q.retry = worker[w].retry
                 /\ worker' = [worker EXCEPT ![w] = q]
    <3>1. worker' = [worker EXCEPT ![w] = [worker[w] EXCEPT !.pc = "working", !.key = NoKey, !.answer = "NONE"]]
      BY <1>0, <1>4 DEF RecordRetry, SyncTypeOK
    <3> QED
      BY <1>0, <3>1 DEF Pass
  <2>4. worker'[w] = q /\ \A v \in Workers \ {w} : worker'[v] = worker[v]
    BY <1>0, <2>3 DEF SyncTypeOK
  <2>5. \A v \in Workers : /\ worker'[v].pc = "idle" => worker'[v].retry = {}
                           /\ worker'[v].pc = "answered" => worker'[v].key \notin worker'[v].retry
    BY <2>3, <2>4 DEF BudgetInv
  <2>6. Held(j)' = Held(j) \ {w} /\ w \in Held(j) /\ \A k \in IssueKeys \ {j} : Held(k)' = Held(k)
    BY <2>1, <2>2, <2>3, <2>4 DEF Held
  <2>7. PICK r \in Attempt : /\ attempts' = Append(attempts, r)
                             /\ r.key = j /\ r.action = "RETRIED"
    <3> DEFINE r == AttemptRow(j, worker[w].exec[j], "RETRIED", worker[w].answer, {})
    <3>1. r \in Attempt /\ r.key = j /\ r.action = "RETRIED"
      BY <2>2 DEF AttemptRow, Attempt, Answers
    <3>2. attempts' = Append(attempts, r)
      BY <1>4, <2>1 DEF RecordRetry, Record, AttemptRow
    <3> HIDE DEF r
    <3> QED
      BY <3>1, <3>2
  <2>8. /\ DOMAIN attempts = 1..Len(attempts) /\ Len(attempts) \in Nat
        /\ DOMAIN attempts' = DOMAIN attempts \cup {Len(attempts) + 1}
        /\ attempts'[Len(attempts) + 1] = r /\ \A i \in DOMAIN attempts : attempts'[i] = attempts[i]
    <3>1. attempts \in Seq(Attempt)
      BY <1>0 DEF SyncTypeOK
    <3> QED
      BY <2>7, <3>1
  <2> SUFFICES ASSUME NEW k \in IssueKeys
               PROVE  /\ Held(k)' # {} => Failed(k)' # {}
                      /\ Failed(k)' # {} => Failed(k)' # Retried(k)'
                      /\ \/ Held(k)' = {} /\ Retried(k)' = {}
                         \/ Cardinality(Retried(k)') + Cardinality(Held(k)')
                                <= MaxSyncAttempts - 2 + Cardinality(Workers)
    BY <2>5 DEF BudgetInv
  <2>9. CASE k # j
    <3>1. Failed(k)' = Failed(k) /\ Retried(k)' = Retried(k)
      BY <2>7, <2>8, <2>9 DEF Failed, Retried, Rows
    <3> QED
      BY <2>6, <2>9, <3>1 DEF BudgetInv
  <2>10. CASE k = j
    <3> DEFINE n == Len(attempts) + 1
    <3>1. /\ Failed(k)' \in {Failed(k), Failed(k) \cup {n}} /\ Retried(k)' \in {Retried(k), Retried(k) \cup {n}}
          /\ Failed(k)' = Failed(k) => Retried(k)' = Retried(k)
      BY <2>7, <2>8, <2>10 DEF Failed, Retried, Rows
    <3>2. n \notin Failed(k) /\ n \notin Retried(k)
      BY <2>8 DEF Failed, Retried, Rows
    <3> HIDE DEF n
    <3>3. Held(k) # {} /\ Failed(k) # {} /\ Failed(k) # Retried(k) /\ Retried(k) \subseteq Failed(k)
      BY <2>6, <2>10 DEF BudgetInv, Retried
    <3>4. Failed(k)' # {} /\ Failed(k)' # Retried(k)'
      BY <3>1, <3>2, <3>3
    <3>5. Cardinality(Retried(k)) + Cardinality(Held(k)) <= MaxSyncAttempts - 2 + Cardinality(Workers)
      BY <3>3 DEF BudgetInv
    <3>6. /\ IsFiniteSet(Retried(k)) /\ IsFiniteSet(Held(k)) /\ Cardinality(Retried(k)) \in Nat
          /\ Cardinality(Held(k)) \in Nat /\ Cardinality(Workers) \in Nat
      BY <1>0, BudgetFinite
    <3>7. Cardinality(Held(k)') = Cardinality(Held(k)) - 1
      BY <2>6, <2>10, <3>6, FS_RemoveElement
    <3>8. Cardinality(Retried(k)') = Cardinality(Retried(k)) \/ Cardinality(Retried(k)') = Cardinality(Retried(k)) + 1
      BY <3>1, <3>2, <3>6, FS_AddElement
    <3>9. Cardinality(Retried(k)') + Cardinality(Held(k)') <= MaxSyncAttempts - 2 + Cardinality(Workers)
      BY <1>0, <3>5, <3>6, <3>7, <3>8
    <3> QED
      BY <3>4, <3>9
  <2> QED
    BY <2>9, <2>10
\* The other steps of a pass.
<1>5. ASSUME NEW w \in Workers, NEW q \in Pass, worker' = [worker EXCEPT ![w] = q],
             q.pc = "idle" => q.retry = {}, q.pc = "answered" => q.key \notin q.retry,
             q.retry \subseteq worker[w].retry,
             q.pc = "answered" => q.key \in worker[w].retry, ~ \E v \in Workers : RecordRetry(v)
      PROVE  BudgetInv'
  <2>1. worker'[w] = q /\ \A v \in Workers \ {w} : worker'[v] = worker[v]
    BY <1>0, <1>5 DEF SyncTypeOK
  <2>2. \A v \in Workers : /\ worker'[v].pc = "idle" => worker'[v].retry = {}
                           /\ worker'[v].pc = "answered" => worker'[v].key \notin worker'[v].retry
    BY <1>5, <2>1 DEF BudgetInv
  <2>3. \A k \in IssueKeys : Held(k)' \subseteq Held(k)
    BY <1>5, <2>1 DEF Held
  <2> QED
    BY <1>1, <1>5, <2>2, <2>3
<1>6. CASE \E w \in Workers : RecordRetry(w)
  BY <1>4, <1>6
<1>7. ASSUME ~ \E w \in Workers : RecordRetry(w) PROVE BudgetInv'
  <2>1. CASE \E e \in Executions : PlanningStep(e) \/ SettleStep(e) \/ SwallowError(e)
    <3>1. UNCHANGED worker
      BY <2>1 DEF PlanningStep, SettleStep, SwallowError, Plan, Edit, Start, OpenFinalize, syncVars,
         CommitFinalize, SettleComment, ReadSiblings, ReadLastSuccess, RecordSkip, CallJira, RecordAnswer
    <3> QED
      BY <1>2, <1>7, <3>1
  <2>2. CASE (\E u \in Leavers : LeaveStep(u)) \/ (\E k \in IssueKeys : MoveByHand(k)) \/ UNCHANGED allVars
    <3>1. UNCHANGED worker
      BY <2>2 DEF LeaveStep, LoadPending, Disconnect, DisconnectThrows, MoveByHand, allVars
    <3> QED
      BY <1>2, <1>7, <3>1
  <2>3. CASE Crash
    <3>1. \A w \in Workers : worker'[w] = IdlePass
      BY <2>3 DEF Crash
    <3>2. /\ \A w \in Workers : /\ worker'[w].pc = "idle" => worker'[w].retry = {}
                                /\ worker'[w].pc = "answered" => worker'[w].key \notin worker'[w].retry
          /\ \A k \in IssueKeys : Held(k)' \subseteq Held(k)
      BY <3>1 DEF IdlePass, Held
    <3> QED
      BY <1>1, <1>7, <3>2
  <2>4. ASSUME NEW w \in Workers, EndPass(w) \/ PassThrows(w) PROVE BudgetInv'
    <3>1. worker' = [worker EXCEPT ![w] = IdlePass] /\ IdlePass \in Pass
      BY <2>4 DEF EndPass, PassThrows, IdlePass, Pass
    <3>2. IdlePass.pc = "idle" /\ IdlePass.retry = {}
      BY DEF IdlePass
    <3> QED
      BY <1>5, <1>7, <3>1, <3>2
  <2>5. ASSUME NEW w \in Workers, NEW k \in IssueKeys, Abandon(w, k) PROVE BudgetInv'
    <3> DEFINE q == [worker[w] EXCEPT !.abandon = worker[w].abandon \ {k}]
    <3>1. q \in Pass /\ q.pc = "working" /\ q.retry = worker[w].retry
      BY <1>0, <2>5 DEF Pass, Abandon
    <3>2. worker' = [worker EXCEPT ![w] = q]
      BY <2>5 DEF Abandon
    <3> HIDE DEF q
    <3> QED
      BY <1>5, <1>7, <3>1, <3>2
  <2>6. ASSUME NEW w \in Workers, NEW k \in IssueKeys, NEW answer \in Answers, CallRetry(w, k, answer)
        PROVE  BudgetInv'
    <3> DEFINE q == [worker[w] EXCEPT !.pc = "answered", !.retry = worker[w].retry \ {k}, !.key = k,
                                      !.answer = answer]
    <3>1. /\ q \in Pass /\ q.pc = "answered" /\ q.retry = worker[w].retry \ {k} /\ q.key = k
          /\ k \in worker[w].retry
      BY <1>0, <2>6 DEF Pass, CallRetry, Answers
    <3>2. worker' = [worker EXCEPT ![w] = q]
      BY <1>0, <2>6 DEF CallRetry, SyncTypeOK
    <3> HIDE DEF q
    <3> QED
      BY <1>5, <1>7, <3>1, <3>2
  <2>7. CASE \E w \in Workers : WorkStep(w) \/ PassThrows(w)
    BY <1>3, <1>7, <2>4, <2>5, <2>6, <2>7 DEF WorkStep
  <2> QED
    BY <2>1, <2>2, <2>3, <2>7 DEF SyncNext
<1> QED
  BY <1>6, <1>7

\* jira-retry.ts, "after a bounded number of attempts": for any number of overlapping passes, an
\* issue fails at most one retry less than the limit, and one more for every pass beyond the first.
THEOREM RetriesAreBounded == SyncSpec => []RetryBudget
<1>1. SyncInit => BudgetInv
  <2> SUFFICES ASSUME SyncInit PROVE BudgetInv
    OBVIOUS
  <2>1. attempts = <<>> /\ \A w \in Workers : worker[w] = IdlePass
    BY DEF SyncInit
  <2>2. \A k \in IssueKeys : Failed(k) = {} /\ Retried(k) = {} /\ Held(k) = {}
    BY <2>1 DEF Failed, Retried, Rows, Held, IdlePass
  <2>3. \A w \in Workers : worker[w].pc = "idle" /\ worker[w].retry = {}
    BY <2>1 DEF IdlePass
  <2> QED
    BY <2>2, <2>3 DEF BudgetInv
<1>2. Base /\ BudgetInv => RetryBudget
  <2> SUFFICES ASSUME Base, BudgetInv, NEW k \in IssueKeys
               PROVE  Cardinality(Retried(k)) <= MaxSyncAttempts - 1 + Cardinality(Workers) - 1
    BY DEF RetryBudget, Retried, Failed
  <2>1. /\ Cardinality(Retried(k)) \in Nat /\ Cardinality(Held(k)) \in Nat
        /\ Cardinality(Workers) \in Nat /\ Cardinality(Workers) >= 1 /\ MaxSyncAttempts \in Nat \ {0}
    BY BudgetFinite, SyncAssumption
  <2>2. CASE Retried(k) = {}
    <3>1. Cardinality(Retried(k)) = 0
      BY <2>2, FS_EmptySet
    <3> QED
      BY <2>1, <3>1
  <2>3. CASE Cardinality(Retried(k)) + Cardinality(Held(k)) <= MaxSyncAttempts - 2 + Cardinality(Workers)
    BY <2>1, <2>3
  <2> QED
    BY <2>2, <2>3 DEF BudgetInv
<1> QED
  BY <1>1, <1>2, BudgetNext, BaseInvariant, PTL DEF SyncSpec
====
