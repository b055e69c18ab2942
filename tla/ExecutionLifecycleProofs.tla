---- MODULE ExecutionLifecycleProofs ----
(* Proofs, for any number of executions, cases, defects, users and requests,   *)
(* of what ExecutionLifecycle states about the versioned mutations.            *)
EXTENDS ExecutionLifecycle, TLAPS

-------------------------------------------------------------------------------
\* Type correctness

LEMMA ResultsType ==
    ASSUME NEW C \in SUBSET Cases, NEW f \in [C -> Entry]
    PROVE  f \in UNION {[D -> Entry] : D \in SUBSET Cases}
OBVIOUS

LEMMA IdleType == Idle \in Request
<1>1. NoResults \in [{} -> Entry]
  BY DEF NoResults
<1>2. NoResults \in UNION {[D -> Entry] : D \in SUBSET Cases}
  BY <1>1, ResultsType
<1>3. AbsentRow \in Row
  BY DEF AbsentRow, Row
<1> QED
  BY <1>2, <1>3 DEF Idle, Request

LEMMA DoneType ==
    ASSUME req \in [Requests -> Request], NEW r \in Requests, Done(r)
    PROVE  req' \in [Requests -> Request]
BY IdleType DEF Done

LEMMA TypeInit == Init => TypeOK
<1> SUFFICES ASSUME Init PROVE TypeOK
  OBVIOUS
<1>1. AbsentRow \in Row
  BY DEF AbsentRow, Row
<1> QED
  BY <1>1, IdleType DEF Init, TypeOK

LEMMA TypeBegin ==
    ASSUME TypeOK, NEW r \in Requests, BeginStep(r)
    PROVE  TypeOK'
<1> USE DEF TypeOK
<1>0. ASSUME NEW q \in Request, req' = [req EXCEPT ![r] = q],
             UNCHANGED <<row, caseResult, history, defectCase, links, approved, active>>
      PROVE  TypeOK'
  BY <1>0
<1>1. ASSUME NEW C \in SUBSET Cases, NEW u \in Users, NEW k \in Keys, BeginCreate(r, C, u, k)
      PROVE  TypeOK'
  <2>1. [Idle EXCEPT !.pc = "create", !.cases = C, !.tester = u, !.key = k] \in Request
    BY IdleType DEF Request, Keys
  <2> QED
    BY <1>0, <1>1, <2>1 DEF BeginCreate
<1>2. ASSUME NEW e \in Executions, NEW u \in Users, NEW k \in Keys, BeginUpdate(r, e, u, k)
      PROVE  TypeOK'
  <2>1. [Idle EXCEPT !.pc = "update", !.exec = e, !.seen = row[e], !.tester = u, !.key = k] \in Request
    BY IdleType DEF Request, Keys
  <2> QED
    BY <1>0, <1>2, <2>1 DEF BeginUpdate
<1>3. ASSUME NEW e \in Executions, NEW a \in Users, BeginStart(r, a, e)
      PROVE  TypeOK'
  <2>1. [Idle EXCEPT !.pc = "start", !.actor = a, !.exec = e, !.seen = row[e]] \in Request
    BY IdleType DEF Request
  <2> QED
    BY <1>0, <1>3, <2>1 DEF BeginStart
<1>4. ASSUME NEW e \in Executions, NEW a \in Users, NEW results \in [row[e].cases -> Entry],
             BeginFinalize(r, a, e, results)
      PROVE  TypeOK'
  <2>1. row[e].cases \in SUBSET Cases
    BY DEF Row
  <2>2. results \in UNION {[D -> Entry] : D \in SUBSET Cases}
    BY <2>1, ResultsType
  <2>3. [Idle EXCEPT !.pc = "finalize", !.actor = a, !.exec = e, !.seen = row[e],
                     !.results = results] \in Request
    BY <2>2, IdleType DEF Request
  <2> QED
    BY <1>0, <1>4, <2>3 DEF BeginFinalize
<1> QED
  BY <1>1, <1>2, <1>3, <1>4 DEF BeginStep

LEMMA RequestParts ==
    ASSUME TypeOK, NEW r \in Requests
    PROVE  /\ req[r].exec \in Executions \cup {NoExec}
           /\ req[r].actor \in Users \cup {NoUser}
           /\ req[r].tester \in Users \cup {NoUser}
           /\ req[r].key \in Keys
           /\ req[r].cases \in SUBSET Cases
           /\ req[r].seen \in Row
           /\ req[r].results \in [DOMAIN req[r].results -> Entry]
           /\ DOMAIN req[r].results \in SUBSET Cases
<1>1. req[r] \in Request
  BY DEF TypeOK
<1>2. PICK D \in SUBSET Cases : req[r].results \in [D -> Entry]
  BY <1>1 DEF Request
<1> QED
  BY <1>1, <1>2 DEF Request, Keys

LEMMA DerivedType ==
    ASSUME NEW results PROVE Derived(results) \in Outcomes
BY DEF Derived, Outcomes

\* What the finalize transaction writes, one variable at a time.
LEMMA FinalizeWrites ==
    ASSUME TypeOK, NEW r \in Requests, NEW raised \in [Creating(r) -> Defects],
           CommitFinalize(r, raised), req[r].exec \in Executions
    PROVE  LET e == req[r].exec
               results == req[r].results
           IN  /\ row' = [row EXCEPT ![e] = row'[e]]
               /\ row'[e] = [state |-> "FINALIZED", version |-> row[e].version + 1,
                             tester |-> row[e].tester, key |-> row[e].key, cases |-> row[e].cases,
                             result |-> Derived(results)]
               /\ \A f \in Executions \ {e} : /\ caseResult'[f] = caseResult[f]
                                              /\ history'[f] = history[f]
               /\ \A c \in Cases :
                    IF c \in DOMAIN results
                    THEN /\ caseResult'[e][c] = results[c].result
                         /\ history'[e][c] = Append(history[e][c], results[c].result)
                    ELSE /\ caseResult'[e][c] = caseResult[e][c]
                         /\ history'[e][c] = history[e][c]
<1> DEFINE e == req[r].exec
<1>1. row[e] \in Row
  BY DEF TypeOK
<1>2. row' = [row EXCEPT ![e] = [row[e] EXCEPT !.state = "FINALIZED", !.result = Derived(req[r].results),
                                               !.version = row[e].version + 1]]
  BY DEF CommitFinalize
<1>3. row'[e] = [row[e] EXCEPT !.state = "FINALIZED", !.result = Derived(req[r].results),
                               !.version = row[e].version + 1]
  BY <1>2 DEF TypeOK
<1>4. row'[e] = [state |-> "FINALIZED", version |-> row[e].version + 1,
                 tester |-> row[e].tester, key |-> row[e].key, cases |-> row[e].cases,
                 result |-> Derived(req[r].results)]
  BY <1>1, <1>3 DEF Row
<1>5. row' = [row EXCEPT ![e] = row'[e]]
  BY <1>2, <1>3
<1>6. caseResult' = [caseResult EXCEPT ![e] =
                       [c \in Cases |-> IF c \in DOMAIN req[r].results THEN req[r].results[c].result
                                        ELSE caseResult[e][c]]]
  BY DEF CommitFinalize
<1>7. history' = [history EXCEPT ![e] =
                       [c \in Cases |-> IF c \in DOMAIN req[r].results
                                        THEN Append(history[e][c], req[r].results[c].result)
                                        ELSE history[e][c]]]
  BY DEF CommitFinalize
<1>8. \A f \in Executions \ {e} : caseResult'[f] = caseResult[f] /\ history'[f] = history[f]
  BY <1>6, <1>7 DEF TypeOK
<1>9. \A c \in Cases :
        IF c \in DOMAIN req[r].results
        THEN /\ caseResult'[e][c] = req[r].results[c].result
             /\ history'[e][c] = Append(history[e][c], req[r].results[c].result)
        ELSE /\ caseResult'[e][c] = caseResult[e][c]
             /\ history'[e][c] = history[e][c]
  BY <1>6, <1>7 DEF TypeOK
<1> QED
  BY <1>4, <1>5, <1>8, <1>9

\* What the other two versioned updates write.
LEMMA UpdateWrites ==
    ASSUME TypeOK, NEW r \in Requests, CommitUpdate(r), req[r].exec \in Executions
    PROVE  /\ row' = [row EXCEPT ![req[r].exec] = row'[req[r].exec]]
           /\ row'[req[r].exec] = [state |-> row[req[r].exec].state,
                                   version |-> row[req[r].exec].version + 1,
                                   tester |-> req[r].tester, key |-> req[r].key,
                                   cases |-> row[req[r].exec].cases,
                                   result |-> row[req[r].exec].result]
<1> DEFINE e == req[r].exec
<1>1. row[e] \in Row
  BY DEF TypeOK
<1>2. row' = [row EXCEPT ![e] = [row[e] EXCEPT !.tester = req[r].tester, !.key = req[r].key,
                                               !.version = row[e].version + 1]]
  BY DEF CommitUpdate
<1>3. row'[e] = [row[e] EXCEPT !.tester = req[r].tester, !.key = req[r].key,
                               !.version = row[e].version + 1]
  BY <1>2 DEF TypeOK
<1>4. row' = [row EXCEPT ![e] = row'[e]]
  BY <1>2, <1>3
<1> QED
  BY <1>1, <1>3, <1>4 DEF Row

LEMMA StartWrites ==
    ASSUME TypeOK, NEW r \in Requests, CommitStart(r), req[r].exec \in Executions
    PROVE  /\ row' = [row EXCEPT ![req[r].exec] = row'[req[r].exec]]
           /\ row'[req[r].exec] = [state |-> "IN_PROGRESS",
                                   version |-> row[req[r].exec].version + 1,
                                   tester |-> row[req[r].exec].tester,
                                   key |-> row[req[r].exec].key,
                                   cases |-> row[req[r].exec].cases,
                                   result |-> row[req[r].exec].result]
<1> DEFINE e == req[r].exec
<1>1. row[e] \in Row
  BY DEF TypeOK
<1>2. row' = [row EXCEPT ![e] = [row[e] EXCEPT !.state = "IN_PROGRESS",
                                               !.version = row[e].version + 1]]
  BY DEF CommitStart
<1>3. row'[e] = [row[e] EXCEPT !.state = "IN_PROGRESS", !.version = row[e].version + 1]
  BY <1>2 DEF TypeOK
<1>4. row' = [row EXCEPT ![e] = row'[e]]
  BY <1>2, <1>3
<1> QED
  BY <1>1, <1>3, <1>4 DEF Row

-------------------------------------------------------------------------------
\* The inductive invariant behind everything: what a waiting request remembers is what
\* its guards saw, and the version it remembers identifies the row it read.

AbsentIsBlank == \A e \in Executions : row[e].state = "ABSENT" => row[e] = AbsentRow

Sound(q, rows) ==
    /\ q.pc \in {"create", "update"} => q.tester \in Users /\ q.key \in Keys
    /\ q.pc \in {"update", "start"} => q.seen.state = "PLANNED"
    /\ q.pc \in {"start", "finalize"} => AssignedTester(q.seen, q.actor)
    /\ q.pc = "finalize" => /\ q.seen.state = "IN_PROGRESS"
                            /\ DOMAIN q.results = q.seen.cases
                            /\ \A c \in DOMAIN q.results : EntryAllowed(q.results[c])
    /\ q.pc \in {"update", "start", "finalize"} =>
         /\ q.exec \in Executions
         /\ rows[q.exec].state # "ABSENT"
         /\ q.seen.version <= rows[q.exec].version
         /\ q.seen.version = rows[q.exec].version => q.seen = rows[q.exec]

Foundation ==
    /\ TypeOK
    /\ AbsentIsBlank
    /\ \A r \in Requests : Sound(req[r], row)

LEMMA IdleSound == ASSUME NEW rows PROVE Sound(Idle, rows)
BY DEF Sound, Idle

LEMMA FoundationInit == Init => Foundation
<1> SUFFICES ASSUME Init PROVE Foundation
  OBVIOUS
<1>1. TypeOK
  BY TypeInit
<1>2. AbsentIsBlank
  BY DEF Init, AbsentIsBlank
<1>3. \A r \in Requests : Sound(req[r], row)
  BY IdleSound DEF Init
<1> QED
  BY <1>1, <1>2, <1>3 DEF Foundation

\* A request that passes its guards is sound at that moment.
LEMMA FoundationBegin ==
    ASSUME Foundation, NEW r \in Requests, BeginStep(r)
    PROVE  Foundation'
<1>0. TypeOK /\ TypeOK'
  BY TypeBegin DEF Foundation
<1>1. ASSUME NEW q, Sound(q, row), req' = [req EXCEPT ![r] = q], row' = row
      PROVE  Foundation'
  <2>1. \A s \in Requests : req'[s] = IF s = r THEN q ELSE req[s]
    BY <1>0, <1>1 DEF TypeOK
  <2>2. \A s \in Requests : Sound(req'[s], row')
    BY <1>1, <2>1 DEF Foundation
  <2>3. AbsentIsBlank'
    BY <1>1 DEF Foundation, AbsentIsBlank
  <2> QED
    BY <1>0, <2>2, <2>3 DEF Foundation
<1>2. ASSUME NEW e \in Executions
      PROVE  /\ row[e].version \in Nat
             /\ row[e].version <= row[e].version
  BY <1>0 DEF TypeOK, Row
<1>3. ASSUME NEW C \in SUBSET Cases, NEW u \in Users, NEW k \in Keys, BeginCreate(r, C, u, k)
      PROVE  Foundation'
  <2> DEFINE q == [Idle EXCEPT !.pc = "create", !.cases = C, !.tester = u, !.key = k]
  <2>1. q.pc = "create" /\ q.tester = u /\ q.key = k
    BY DEF Idle
  <2>2. Sound(q, row)
    BY <2>1 DEF Sound
  <2> QED
    BY <1>1, <1>3, <2>2 DEF BeginCreate
<1>4. ASSUME NEW e \in Executions, NEW u \in Users, NEW k \in Keys, BeginUpdate(r, e, u, k)
      PROVE  Foundation'
  <2> DEFINE q == [Idle EXCEPT !.pc = "update", !.exec = e, !.seen = row[e], !.tester = u, !.key = k]
  <2>1. q.pc = "update" /\ q.exec = e /\ q.seen = row[e] /\ q.tester = u /\ q.key = k
    BY DEF Idle
  <2>2. Sound(q, row)
    BY <1>2, <1>4, <2>1 DEF Sound, BeginUpdate
  <2> QED
    BY <1>1, <1>4, <2>2 DEF BeginUpdate
<1>5. ASSUME NEW e \in Executions, NEW a \in Users, BeginStart(r, a, e)
      PROVE  Foundation'
  <2> DEFINE q == [Idle EXCEPT !.pc = "start", !.actor = a, !.exec = e, !.seen = row[e]]
  <2>1. q.pc = "start" /\ q.exec = e /\ q.seen = row[e] /\ q.actor = a
    BY DEF Idle
  <2>2. Sound(q, row)
    BY <1>2, <1>5, <2>1 DEF Sound, BeginStart
  <2> QED
    BY <1>1, <1>5, <2>2 DEF BeginStart
<1>6. ASSUME NEW e \in Executions, NEW a \in Users, NEW results \in [row[e].cases -> Entry],
             BeginFinalize(r, a, e, results)
      PROVE  Foundation'
  <2> DEFINE q == [Idle EXCEPT !.pc = "finalize", !.actor = a, !.exec = e, !.seen = row[e],
                               !.results = results]
  <2>1. q.pc = "finalize" /\ q.exec = e /\ q.seen = row[e] /\ q.actor = a /\ q.results = results
    BY DEF Idle
  <2>2. Sound(q, row)
    BY <1>2, <1>6, <2>1 DEF Sound, BeginFinalize
  <2> QED
    BY <1>1, <1>6, <2>2 DEF BeginFinalize
<1> QED
  BY <1>3, <1>4, <1>5, <1>6 DEF BeginStep

\* A versioned write to e makes stale what every other request read of e.
LEMMA SoundAfterWrite ==
    ASSUME Foundation, NEW r \in Requests, NEW e \in Executions, NEW n \in Row,
           n.version = row[e].version + 1, n.state # "ABSENT",
           row' = [row EXCEPT ![e] = n], Done(r)
    PROVE  AbsentIsBlank' /\ \A s \in Requests : Sound(req'[s], row')
<1>0. TypeOK
  BY DEF Foundation
<1>1. \A f \in Executions : row'[f] = IF f = e THEN n ELSE row[f]
  BY <1>0 DEF TypeOK
<1>2. AbsentIsBlank'
  BY <1>1 DEF Foundation, AbsentIsBlank
<1>3. ASSUME NEW s \in Requests PROVE Sound(req'[s], row')
  <2>1. CASE s = r
    <3>1. req'[s] = Idle
      BY <1>0, <2>1 DEF Done, TypeOK
    <3> QED
      BY <3>1, IdleSound
  <2>2. CASE s # r
    <3>1. req'[s] = req[s]
      BY <1>0, <2>2 DEF Done, TypeOK
    <3>2. Sound(req[s], row)
      BY DEF Foundation
    <3>3. req[s].seen.version \in Nat /\ row[e].version \in Nat
      BY <1>0, RequestParts DEF TypeOK, Row
    <3>4. CASE req[s].exec = e /\ req[s].pc \in {"update", "start", "finalize"}
      <4>1. req[s].seen.version < row'[e].version /\ row'[e].state # "ABSENT"
        BY <1>1, <3>2, <3>3, <3>4 DEF Sound
      <4> QED
        BY <3>1, <3>2, <3>3, <3>4, <4>1, <1>1 DEF Sound
    <3>5. CASE ~(req[s].exec = e /\ req[s].pc \in {"update", "start", "finalize"})
      BY <1>1, <3>1, <3>2, <3>5 DEF Sound
    <3> QED
      BY <3>4, <3>5
  <2> QED
    BY <2>1, <2>2
<1> QED
  BY <1>2, <1>3

LEMMA PendingExec ==
    ASSUME Foundation, NEW r \in Requests, Pending(r)
    PROVE  req[r].exec \in Executions /\ Sound(req[r], row)
BY DEF Foundation, Pending, Sound

\* A request that commits finds the row it read.
LEMMA CommitFindsTheRow ==
    ASSUME Foundation, NEW r \in Requests, Pending(r), VersionHolds(r)
    PROVE  row[req[r].exec] = req[r].seen
BY PendingExec DEF Sound, Pending, VersionHolds

LEMMA FoundationCreate ==
    ASSUME Foundation, NEW r \in Requests, NEW e \in Executions, CommitCreate(r, e)
    PROVE  Foundation'
<1> DEFINE n == [state |-> "PLANNED", version |-> 1, tester |-> req[r].tester,
                 key |-> req[r].key, cases |-> req[r].cases, result |-> "NONE"]
<1>0. TypeOK /\ Sound(req[r], row)
  BY DEF Foundation
<1>1. n \in Row
  BY <1>0, RequestParts DEF Row, Keys
<1>2. row' = [row EXCEPT ![e] = n] /\ Done(r)
  BY DEF CommitCreate
<1>3. row[e].version = 0
  BY DEF Foundation, AbsentIsBlank, AbsentRow, CommitCreate
<1>4. n.version = row[e].version + 1 /\ n.state # "ABSENT"
  BY <1>3
<1> HIDE DEF n
<1>5. AbsentIsBlank' /\ \A s \in Requests : Sound(req'[s], row')
  BY <1>1, <1>2, <1>4, SoundAfterWrite
<1>6. TypeOK'
  BY <1>0, <1>1, <1>2, DoneType DEF TypeOK, CommitCreate
<1> QED
  BY <1>5, <1>6 DEF Foundation

LEMMA FoundationUpdate ==
    ASSUME Foundation, NEW r \in Requests, CommitUpdate(r)
    PROVE  Foundation'
<1> DEFINE e == req[r].exec
<1>0. TypeOK /\ Sound(req[r], row) /\ Done(r) /\ Pending(r)
  BY DEF Foundation, CommitUpdate, Pending
<1>1. e \in Executions /\ req[r].tester \in Users /\ req[r].key \in Keys /\ row[e].state # "ABSENT"
  BY <1>0 DEF Sound, CommitUpdate
<1>2. row[e] \in Row
  BY <1>0, <1>1 DEF TypeOK
<1>3. /\ row' = [row EXCEPT ![e] = row'[e]]
      /\ row'[e] = [state |-> row[e].state, version |-> row[e].version + 1, tester |-> req[r].tester,
                    key |-> req[r].key, cases |-> row[e].cases, result |-> row[e].result]
  BY <1>0, <1>1, UpdateWrites
<1>4. row'[e] \in Row
  BY <1>1, <1>2, <1>3 DEF Row, Keys
<1>5. AbsentIsBlank' /\ \A s \in Requests : Sound(req'[s], row')
  BY <1>0, <1>1, <1>3, <1>4, SoundAfterWrite
<1>6. TypeOK'
  BY <1>0, <1>3, <1>4, DoneType DEF TypeOK, CommitUpdate
<1> QED
  BY <1>5, <1>6 DEF Foundation

LEMMA FoundationStart ==
    ASSUME Foundation, NEW r \in Requests, CommitStart(r)
    PROVE  Foundation'
<1> DEFINE e == req[r].exec
<1>0. TypeOK /\ Sound(req[r], row) /\ Done(r)
  BY DEF Foundation, CommitStart
<1>1. e \in Executions
  BY <1>0 DEF Sound, CommitStart
<1>2. row[e] \in Row
  BY <1>0, <1>1 DEF TypeOK
<1>3. /\ row' = [row EXCEPT ![e] = row'[e]]
      /\ row'[e] = [state |-> "IN_PROGRESS", version |-> row[e].version + 1, tester |-> row[e].tester,
                    key |-> row[e].key, cases |-> row[e].cases, result |-> row[e].result]
  BY <1>0, <1>1, StartWrites
<1>4. row'[e] \in Row
  BY <1>2, <1>3 DEF Row
<1>5. AbsentIsBlank' /\ \A s \in Requests : Sound(req'[s], row')
  BY <1>0, <1>1, <1>3, <1>4, SoundAfterWrite
<1>6. TypeOK'
  BY <1>0, <1>3, <1>4, DoneType DEF TypeOK, CommitStart
<1> QED
  BY <1>5, <1>6 DEF Foundation

LEMMA FoundationFinalize ==
    ASSUME Foundation, NEW r \in Requests, NEW raised \in [Creating(r) -> Defects],
           CommitFinalize(r, raised)
    PROVE  Foundation'
<1> DEFINE e == req[r].exec
           results == req[r].results
<1>0. TypeOK /\ Sound(req[r], row) /\ Done(r)
  BY DEF Foundation, CommitFinalize
<1>1. e \in Executions
  BY <1>0 DEF Sound, CommitFinalize
<1>2. row[e] \in Row
  BY <1>0, <1>1 DEF TypeOK
<1>3. /\ row' = [row EXCEPT ![e] = row'[e]]
      /\ row'[e] = [state |-> "FINALIZED", version |-> row[e].version + 1, tester |-> row[e].tester,
                    key |-> row[e].key, cases |-> row[e].cases, result |-> Derived(results)]
  BY <1>0, <1>1, FinalizeWrites
<1>4. row'[e] \in Row
  BY <1>2, <1>3, DerivedType DEF Row
<1>5. AbsentIsBlank' /\ \A s \in Requests : Sound(req'[s], row')
  BY <1>0, <1>1, <1>3, <1>4, SoundAfterWrite
<1>6. results \in [DOMAIN results -> Entry] /\ DOMAIN results \in SUBSET Cases
  BY <1>0, RequestParts
<1>7. \A c \in DOMAIN results : results[c].result \in Outcomes
  BY <1>6 DEF Entry
<1>8. caseResult' \in [Executions -> [Cases -> Outcomes \cup {"NONE"}]]
  <2>1. [c \in Cases |-> IF c \in DOMAIN results THEN results[c].result ELSE caseResult[e][c]]
           \in [Cases -> Outcomes \cup {"NONE"}]
    BY <1>0, <1>1, <1>7 DEF TypeOK
  <2> QED
    BY <1>0, <2>1 DEF TypeOK, CommitFinalize
<1>9. history' \in [Executions -> [Cases -> Seq(Outcomes)]]
  <2>1. ASSUME NEW c \in Cases, c \in DOMAIN results
        PROVE  Append(history[e][c], results[c].result) \in Seq(Outcomes)
    <3>1. history[e][c] \in Seq(Outcomes)
      BY <1>0, <1>1 DEF TypeOK
    <3> QED
      BY <1>7, <2>1, <3>1
  <2>2. [c \in Cases |-> IF c \in DOMAIN results THEN Append(history[e][c], results[c].result)
                         ELSE history[e][c]] \in [Cases -> Seq(Outcomes)]
    BY <1>0, <1>1, <2>1 DEF TypeOK
  <2> QED
    BY <1>0, <2>2 DEF TypeOK, CommitFinalize
<1>10. defectCase' \in [Defects -> SUBSET Cases]
  BY <1>0, <1>6 DEF TypeOK, CommitFinalize, Creating
<1>11. links' \subseteq Defects \X Executions
  BY <1>0, <1>1 DEF TypeOK, CommitFinalize, Naming
<1>12. req' \in [Requests -> Request]
  BY <1>0, DoneType DEF TypeOK
<1>13. row' \in [Executions -> Row]
  BY <1>0, <1>3, <1>4 DEF TypeOK
<1>14. UNCHANGED <<approved, active>>
  BY DEF CommitFinalize
<1>15. TypeOK'
  BY <1>0, <1>8, <1>9, <1>10, <1>11, <1>12, <1>13, <1>14 DEF TypeOK
<1> QED
  BY <1>5, <1>15 DEF Foundation

\* Giving up forgets the request; the rest of the system changes only what requests do not read.
LEMMA FoundationGiveUp ==
    ASSUME Foundation, NEW r \in Requests, Reject(r) \/ Abort(r)
    PROVE  Foundation'
<1>0. TypeOK /\ Done(r) /\ UNCHANGED <<row, caseResult, history, defectCase, links, approved, active>>
  BY DEF Foundation, Reject, Abort
<1>1. TypeOK'
  BY <1>0, DoneType DEF TypeOK
<1>2. \A s \in Requests : req'[s] = IF s = r THEN Idle ELSE req[s]
  BY <1>0 DEF Done, TypeOK
<1>3. \A s \in Requests : Sound(req'[s], row')
  BY <1>0, <1>2, IdleSound DEF Foundation
<1> QED
  BY <1>0, <1>1, <1>3 DEF Foundation, AbsentIsBlank

LEMMA FoundationOther ==
    ASSUME Foundation, EnvironmentStep \/ UNCHANGED vars
    PROVE  Foundation'
<1>0. TypeOK
  BY DEF Foundation
<1>1. UNCHANGED <<row, caseResult, history, links, req>>
  BY DEF EnvironmentStep, RetireCase, SetUserActive, RaiseDefect, vars
<1>2. approved' \subseteq Cases /\ active' \subseteq Users /\ defectCase' \in [Defects -> SUBSET Cases]
  BY <1>0 DEF TypeOK, EnvironmentStep, RetireCase, SetUserActive, RaiseDefect, vars
<1>3. TypeOK'
  BY <1>0, <1>1, <1>2 DEF TypeOK
<1>4. \A s \in Requests : Sound(req'[s], row')
  BY <1>1 DEF Foundation
<1> QED
  BY <1>1, <1>3, <1>4 DEF Foundation, AbsentIsBlank

LEMMA FoundationNext == Foundation /\ [Next]_vars => Foundation'
<1> SUFFICES ASSUME Foundation, [Next]_vars PROVE Foundation'
  OBVIOUS
<1>1. ASSUME NEW r \in Requests, BeginStep(r) PROVE Foundation'
  BY <1>1, FoundationBegin
<1>2. ASSUME NEW r \in Requests, CommitStep(r) PROVE Foundation'
  BY <1>2, FoundationCreate, FoundationUpdate, FoundationStart, FoundationFinalize DEF CommitStep
<1>3. ASSUME NEW r \in Requests, Reject(r) \/ Abort(r) PROVE Foundation'
  BY <1>3, FoundationGiveUp
<1>4. ASSUME EnvironmentStep \/ UNCHANGED vars PROVE Foundation'
  BY <1>4, FoundationOther
<1> QED
  BY <1>1, <1>2, <1>3, <1>4 DEF Next

\* For any number of rows and requests: every reachable state has the inductive invariant.
THEOREM FoundationInvariant == Spec => []Foundation
BY FoundationInit, FoundationNext, PTL DEF Spec

\* Type correctness of the service, for every value of the constants.
THEOREM TypeCorrect == Spec => []TypeOK
<1>1. Foundation => TypeOK
  BY DEF Foundation
<1> QED
  BY <1>1, FoundationInvariant, PTL

\* The version column identifies the row a waiting request has read.
THEOREM VersionsIdentifyRows == Spec => []VersionIdentifiesRow
<1>1. Foundation => VersionIdentifiesRow
  BY DEF Foundation, VersionIdentifiesRow, Sound, Pending
<1> QED
  BY <1>1, FoundationInvariant, PTL

-------------------------------------------------------------------------------
\* What commits may do

\* A step that changes run e on behalf of request r is one of r's versioned commits.
LEMMA WriterCommits ==
    ASSUME Foundation, Next, NEW r \in Requests, Pending(r), req'[r] # req[r],
           row'[req[r].exec] # row[req[r].exec]
    PROVE  VersionHolds(r)
<1>0. TypeOK
  BY DEF Foundation
<1>1. ASSUME NEW s \in Requests, s # r, BeginStep(s) \/ CommitStep(s) \/ Reject(s) \/ Abort(s)
      PROVE  req'[r] = req[r]
  BY <1>0, <1>1 DEF TypeOK, BeginStep, CommitStep, Reject, Abort, BeginCreate, BeginUpdate, BeginStart,
     BeginFinalize, CommitCreate, CommitUpdate, CommitStart, CommitFinalize, Done
<1>2. ASSUME BeginStep(r) \/ Reject(r) \/ Abort(r) PROVE FALSE
  BY <1>2 DEF BeginStep, Reject, Abort, BeginCreate, BeginUpdate, BeginStart, BeginFinalize
<1>3. ASSUME EnvironmentStep PROVE FALSE
  BY <1>3 DEF EnvironmentStep, RetireCase, SetUserActive, RaiseDefect
<1>4. PICK s \in Requests : CommitStep(s)
  BY <1>1, <1>2, <1>3 DEF Next
<1>5. s = r
  BY <1>1, <1>4
<1>6. CommitStep(r)
  BY <1>4, <1>5
<1> QED
  BY <1>6 DEF CommitStep, CommitCreate, CommitUpdate, CommitStart, CommitFinalize, Pending

\* A commit overwrites exactly the row its request read: no update is ever lost.
THEOREM NoUpdateIsLost == Spec => NoLostUpdate
<1>1. Foundation /\ [Next]_vars =>
        [\A r \in Requests :
           Pending(r) /\ row'[req[r].exec] # row[req[r].exec] /\ req'[r] # req[r]
              => req[r].seen = row[req[r].exec]]_vars
  BY WriterCommits, CommitFindsTheRow
<1> QED
  BY <1>1, FoundationInvariant, PTL DEF Spec, NoLostUpdate

\* Testers start and finalize only runs that are theirs when the write happens.
THEOREM OwnRunsOnly == Spec => TestersActOnTheirOwnRuns
<1>1. ASSUME Foundation, Next, NEW r \in Requests, req[r].pc \in {"start", "finalize"},
             req[r].actor \in Testers, row'[req[r].exec].state # row[req[r].exec].state,
             req'[r] # req[r]
      PROVE  row[req[r].exec].tester = req[r].actor
  <2>1. Pending(r)
    BY <1>1 DEF Pending
  <2>2. VersionHolds(r)
    BY <1>1, <2>1, WriterCommits
  <2>3. row[req[r].exec] = req[r].seen
    BY <1>1, <2>1, <2>2, CommitFindsTheRow
  <2>4. AssignedTester(req[r].seen, req[r].actor)
    BY <1>1, <2>1, PendingExec DEF Sound
  <2> QED
    BY <1>1, <2>3, <2>4 DEF AssignedTester
<1>2. Foundation /\ [Next]_vars =>
        [\A r \in Requests :
           req[r].pc \in {"start", "finalize"} /\ req[r].actor \in Testers
              => (row'[req[r].exec].state # row[req[r].exec].state /\ req'[r] # req[r]
                     => row[req[r].exec].tester = req[r].actor)]_vars
  BY <1>1
<1> QED
  BY <1>2, FoundationInvariant, PTL DEF Spec, TestersActOnTheirOwnRuns

-------------------------------------------------------------------------------
\* The two halves of what finalize leaves behind

\* What a commit other than finalize's may do to a row.
LEMMA OtherCommits ==
    ASSUME Foundation, NEW r \in Requests,
           (\E e \in Executions : CommitCreate(r, e)) \/ CommitUpdate(r) \/ CommitStart(r)
    PROVE  /\ UNCHANGED <<caseResult, history, defectCase, links>>
           /\ \A e \in Executions :
                \/ row'[e] = row[e]
                \/ row[e] = AbsentRow /\ row'[e].state = "PLANNED"
                \/ /\ row[e].state = "PLANNED"
                   /\ row'[e].state \in {"PLANNED", "IN_PROGRESS"}
                   /\ row'[e].cases = row[e].cases
<1>0. TypeOK
  BY DEF Foundation
<1>1. UNCHANGED <<caseResult, history, defectCase, links>>
  BY DEF CommitCreate, CommitUpdate, CommitStart
<1>2. ASSUME NEW e \in Executions, NEW f \in Executions, CommitCreate(r, f)
      PROVE  row'[e] = row[e] \/ (row[e] = AbsentRow /\ row'[e].state = "PLANNED")
  BY <1>0, <1>2 DEF TypeOK, CommitCreate, Foundation, AbsentIsBlank
<1>3. ASSUME NEW e \in Executions, CommitUpdate(r)
      PROVE  \/ row'[e] = row[e]
             \/ row[e].state = "PLANNED" /\ row'[e].state = "PLANNED" /\ row'[e].cases = row[e].cases
  <2>1. Pending(r) /\ VersionHolds(r) /\ req[r].pc = "update"
    BY <1>3 DEF CommitUpdate, Pending
  <2>2. req[r].exec \in Executions /\ row[req[r].exec].state = "PLANNED"
    BY <2>1, PendingExec, CommitFindsTheRow DEF Sound
  <2>3. row' = [row EXCEPT ![req[r].exec] = row'[req[r].exec]]
    BY <1>0, <1>3, <2>2, UpdateWrites
  <2>4. row'[req[r].exec] = [state |-> row[req[r].exec].state, version |-> row[req[r].exec].version + 1,
                             tester |-> req[r].tester, key |-> req[r].key,
                             cases |-> row[req[r].exec].cases, result |-> row[req[r].exec].result]
    BY <1>0, <1>3, <2>2, UpdateWrites
  <2>5. CASE e = req[r].exec
    BY <2>2, <2>4, <2>5
  <2>6. CASE e # req[r].exec
    BY <1>0, <2>3, <2>6 DEF TypeOK
  <2> QED
    BY <2>5, <2>6
<1>4. ASSUME NEW e \in Executions, CommitStart(r)
      PROVE  \/ row'[e] = row[e]
             \/ row[e].state = "PLANNED" /\ row'[e].state = "IN_PROGRESS" /\ row'[e].cases = row[e].cases
  <2>1. Pending(r) /\ VersionHolds(r) /\ req[r].pc = "start"
    BY <1>4 DEF CommitStart, Pending
  <2>2. req[r].exec \in Executions /\ row[req[r].exec].state = "PLANNED"
    BY <2>1, PendingExec, CommitFindsTheRow DEF Sound
  <2>3. row' = [row EXCEPT ![req[r].exec] = row'[req[r].exec]]
    BY <1>0, <1>4, <2>2, StartWrites
  <2>4. row'[req[r].exec] = [state |-> "IN_PROGRESS", version |-> row[req[r].exec].version + 1,
                             tester |-> row[req[r].exec].tester, key |-> row[req[r].exec].key,
                             cases |-> row[req[r].exec].cases, result |-> row[req[r].exec].result]
    BY <1>0, <1>4, <2>2, StartWrites
  <2>5. CASE e = req[r].exec
    BY <2>2, <2>4, <2>5
  <2>6. CASE e # req[r].exec
    BY <1>0, <2>3, <2>6 DEF TypeOK
  <2> QED
    BY <2>5, <2>6
<1> QED
  BY <1>1, <1>2, <1>3, <1>4

\* What finalize's commit finds.
LEMMA FinalizeFinds ==
    ASSUME Foundation, NEW r \in Requests, NEW raised \in [Creating(r) -> Defects],
           CommitFinalize(r, raised)
    PROVE  /\ req[r].exec \in Executions
           /\ row[req[r].exec].state = "IN_PROGRESS"
           /\ row[req[r].exec].cases = DOMAIN req[r].results
           /\ \A c \in DOMAIN req[r].results : EntryAllowed(req[r].results[c])
<1>1. Pending(r) /\ VersionHolds(r) /\ req[r].pc = "finalize"
  BY DEF CommitFinalize, Pending
<1> QED
  BY <1>1, PendingExec, CommitFindsTheRow DEF Sound

\* Steps that leave the rows and everything finalize wrote alone.
LEMMA QuietSteps ==
    ASSUME Next, ~ \E r \in Requests : CommitStep(r)
    PROVE  /\ UNCHANGED <<row, caseResult, history, links>>
           /\ \A d \in Defects : TypeOK => defectCase[d] \subseteq defectCase'[d]
<1>1. UNCHANGED <<row, caseResult, history, links>>
  BY DEF Next, BeginStep, BeginCreate, BeginUpdate, BeginStart, BeginFinalize, Reject, Abort,
     EnvironmentStep, RetireCase, SetUserActive, RaiseDefect
<1>2. ASSUME NEW d \in Defects, TypeOK PROVE defectCase[d] \subseteq defectCase'[d]
  <2>1. CASE EnvironmentStep
    BY <1>2, <2>1 DEF TypeOK, EnvironmentStep, RetireCase, SetUserActive, RaiseDefect
  <2>2. CASE ~EnvironmentStep
    BY <2>2 DEF Next, BeginStep, BeginCreate, BeginUpdate, BeginStart, BeginFinalize, Reject, Abort
  <2> QED
    BY <2>1, <2>2
<1> QED
  BY <1>1, <1>2

LEMMA HistoryNext ==
    Foundation /\ HistoryIsTheRecord /\ [Next]_vars => HistoryIsTheRecord'
<1> SUFFICES ASSUME Foundation, HistoryIsTheRecord, [Next]_vars,
                    NEW e \in Executions, NEW c \in Cases
             PROVE  IF row'[e].state = "FINALIZED" /\ c \in row'[e].cases
                    THEN caseResult'[e][c] \in Outcomes /\ history'[e][c] = <<caseResult'[e][c]>>
                    ELSE caseResult'[e][c] = "NONE" /\ history'[e][c] = <<>>
  BY DEF HistoryIsTheRecord
<1>0. TypeOK
  BY DEF Foundation
<1>1. ASSUME NEW r \in Requests,
             (\E f \in Executions : CommitCreate(r, f)) \/ CommitUpdate(r) \/ CommitStart(r)
      PROVE  IF row'[e].state = "FINALIZED" /\ c \in row'[e].cases
             THEN caseResult'[e][c] \in Outcomes /\ history'[e][c] = <<caseResult'[e][c]>>
             ELSE caseResult'[e][c] = "NONE" /\ history'[e][c] = <<>>
  <2>1. /\ UNCHANGED <<caseResult, history>>
        /\ \/ row'[e] = row[e]
           \/ row[e].state # "FINALIZED" /\ row'[e].state # "FINALIZED"
    BY <1>1, OtherCommits DEF AbsentRow
  <2> QED
    BY <2>1 DEF HistoryIsTheRecord
<1>2. ASSUME NEW r \in Requests, NEW raised \in [Creating(r) -> Defects], CommitFinalize(r, raised)
      PROVE  IF row'[e].state = "FINALIZED" /\ c \in row'[e].cases
             THEN caseResult'[e][c] \in Outcomes /\ history'[e][c] = <<caseResult'[e][c]>>
             ELSE caseResult'[e][c] = "NONE" /\ history'[e][c] = <<>>
  <2> DEFINE results == req[r].results
  <2>1. CASE e = req[r].exec
    <3>1. row[e].state = "IN_PROGRESS" /\ row[e].cases = DOMAIN results
      BY <1>2, <2>1, FinalizeFinds
    <3>2. caseResult[e][c] = "NONE" /\ history[e][c] = <<>>
      BY <3>1 DEF HistoryIsTheRecord
    <3>3. row'[e].state = "FINALIZED" /\ row'[e].cases = DOMAIN results
      <4>1. row'[req[r].exec] =
              [state |-> "FINALIZED", version |-> row[req[r].exec].version + 1,
               tester |-> row[req[r].exec].tester, key |-> row[req[r].exec].key,
               cases |-> row[req[r].exec].cases, result |-> Derived(results)]
        BY <1>0, <1>2, <2>1, FinalizeWrites
      <4> QED
        BY <2>1, <3>1, <4>1
    <3>4. IF c \in DOMAIN results
          THEN /\ caseResult'[e][c] = results[c].result
               /\ history'[e][c] = Append(history[e][c], results[c].result)
          ELSE /\ caseResult'[e][c] = caseResult[e][c]
               /\ history'[e][c] = history[e][c]
      BY <1>0, <1>2, <2>1, FinalizeWrites
    <3>5. CASE c \in DOMAIN results
      <4>1. results[c].result \in Outcomes
        BY <1>0, <3>5, RequestParts DEF Entry
      <4>2. history'[e][c] = <<results[c].result>>
        BY <3>2, <3>4, <3>5, <4>1
      <4> QED
        BY <3>3, <3>4, <3>5, <4>1, <4>2
    <3>6. CASE c \notin DOMAIN results
      BY <3>2, <3>3, <3>4, <3>6
    <3> QED
      BY <3>5, <3>6
  <2>2. CASE e # req[r].exec
    <3>1. row'[e] = row[e] /\ caseResult'[e] = caseResult[e] /\ history'[e] = history[e]
      BY <1>0, <1>2, <2>2, FinalizeWrites, FinalizeFinds DEF TypeOK
    <3> QED
      BY <3>1 DEF HistoryIsTheRecord
  <2> QED
    BY <2>1, <2>2
<1>3. CASE UNCHANGED vars \/ (Next /\ ~ \E r \in Requests : CommitStep(r))
  <2>1. UNCHANGED <<row, caseResult, history>>
    BY <1>3, QuietSteps DEF vars
  <2> QED
    BY <2>1 DEF HistoryIsTheRecord
<1> QED
  BY <1>1, <1>2, <1>3 DEF CommitStep

\* Finalize is all or nothing, and happens once, however many requests race for a run.
THEOREM HistoryRecorded == Spec => []HistoryIsTheRecord
<1>1. Init => HistoryIsTheRecord
  BY DEF Init, HistoryIsTheRecord, AbsentRow
<1> QED
  BY <1>1, HistoryNext, FoundationInvariant, PTL DEF Spec

LEMMA FailuresNext ==
    Foundation /\ FailuresExplained /\ [Next]_vars => FailuresExplained'
<1> SUFFICES ASSUME Foundation, FailuresExplained, [Next]_vars PROVE FailuresExplained'
  OBVIOUS
<1>0. TypeOK
  BY DEF Foundation
\* Nothing that explained a failure or a link is ever taken back.
<1>1. ASSUME UNCHANGED <<caseResult, links>>,
             \A d \in Defects : defectCase[d] \subseteq defectCase'[d],
             \A e \in Executions : row'[e].cases = row[e].cases \/ row[e].cases = {}
      PROVE  FailuresExplained'
  <2>1. ASSUME NEW e \in Executions, NEW c \in Cases, caseResult'[e][c] = "FAIL"
        PROVE  \E d \in Defects : <<d, e>> \in links' /\ c \in defectCase'[d]
    BY <1>1, <2>1 DEF FailuresExplained
  <2>2. ASSUME NEW l \in links' PROVE defectCase'[l[1]] \cap row'[l[2]].cases # {}
    <3>1. l \in links /\ l[1] \in Defects /\ l[2] \in Executions
      BY <1>0, <1>1, <2>2 DEF TypeOK
    <3>2. defectCase[l[1]] \cap row[l[2]].cases # {}
      BY <3>1 DEF FailuresExplained
    <3> QED
      BY <1>1, <3>1, <3>2
  <2> QED
    BY <2>1, <2>2 DEF FailuresExplained
<1>2. ASSUME NEW r \in Requests,
             (\E f \in Executions : CommitCreate(r, f)) \/ CommitUpdate(r) \/ CommitStart(r)
      PROVE  FailuresExplained'
  <2>1. UNCHANGED <<caseResult, links, defectCase>>
    BY <1>2, OtherCommits
  <2>2. \A e \in Executions : row'[e].cases = row[e].cases \/ row[e].cases = {}
    BY <1>2, OtherCommits DEF AbsentRow
  <2> QED
    BY <1>1, <2>1, <2>2
<1>3. ASSUME NEW r \in Requests, NEW raised \in [Creating(r) -> Defects], CommitFinalize(r, raised)
      PROVE  FailuresExplained'
  <2> DEFINE x == req[r].exec
             results == req[r].results
  <2>1. x \in Executions /\ row[x].cases = DOMAIN results
        /\ \A c \in DOMAIN results : EntryAllowed(results[c])
    BY <1>3, FinalizeFinds
  <2>2. results \in [DOMAIN results -> Entry] /\ DOMAIN results \in SUBSET Cases
    BY <1>0, RequestParts
  <2>3. /\ links' = links \cup {<<raised[c], x>> : c \in Creating(r)}
                          \cup {<<results[c].defect, x>> : c \in Naming(r)}
        /\ defectCase' = [d \in Defects |-> defectCase[d] \cup {c \in Creating(r) : raised[c] = d}]
        /\ DefectsMatch(r)
    BY <1>3 DEF CommitFinalize
  <2>4. \A e \in Executions : row'[e].cases = row[e].cases
    <3>1. row' = [row EXCEPT ![x] = row'[x]]
      BY <1>0, <1>3, <2>1, FinalizeWrites
    <3>2. row'[x] = [state |-> "FINALIZED", version |-> row[x].version + 1,
                     tester |-> row[x].tester, key |-> row[x].key, cases |-> row[x].cases,
                     result |-> Derived(results)]
      BY <1>0, <1>3, <2>1, FinalizeWrites
    <3>3. row'[x].cases = row[x].cases
      BY <3>2
    <3>4. \A e \in Executions \ {x} : row'[e] = row[e]
      BY <1>0, <3>1 DEF TypeOK
    <3> QED
      BY <3>3, <3>4
  <2>5. \A d \in Defects : defectCase[d] \subseteq defectCase'[d]
    BY <2>3
  \* The defect a new link names belongs to the case the link is for.
  <2>6. ASSUME NEW c \in Creating(r)
        PROVE  raised[c] \in Defects /\ <<raised[c], x>> \in links' /\ c \in defectCase'[raised[c]]
    BY <2>3
  <2>7. ASSUME NEW c \in Naming(r)
        PROVE  /\ results[c].defect \in Defects /\ <<results[c].defect, x>> \in links'
               /\ c \in defectCase'[results[c].defect]
    BY <2>3, <2>5 DEF Naming, DefectsMatch
  <2>8. ASSUME NEW e \in Executions, NEW c \in Cases, caseResult'[e][c] = "FAIL"
        PROVE  \E d \in Defects : <<d, e>> \in links' /\ c \in defectCase'[d]
    <3>1. CASE e = x /\ c \in DOMAIN results
      <4>1. caseResult'[x][c] = results[c].result
        BY <1>0, <1>3, <2>1, <3>1, FinalizeWrites
      <4>2. results[c].defect \in Defects \cup {"CREATE"}
        BY <2>1, <2>2, <2>8, <3>1, <4>1 DEF EntryAllowed, Entry
      <4>3. c \in Naming(r) \/ c \in Creating(r)
        BY <3>1, <4>2 DEF Naming, Creating
      <4> QED
        BY <2>6, <2>7, <3>1, <4>3
    <3>2. CASE ~(e = x /\ c \in DOMAIN results)
      <4>1. links \subseteq links'
        BY <2>3
      <4>2. caseResult[e][c] = "FAIL" => \E d \in Defects : <<d, e>> \in links' /\ c \in defectCase'[d]
        BY <2>5, <4>1 DEF FailuresExplained
      <4>3. CASE e = x
        BY <1>0, <1>3, <2>1, <2>8, <3>2, <4>3, <4>2, FinalizeWrites
      <4>4. CASE e # x
        BY <1>0, <1>3, <2>1, <2>8, <4>4, <4>2, FinalizeWrites
      <4> QED
        BY <4>3, <4>4
    <3> QED
      BY <3>1, <3>2
  <2>9. ASSUME NEW l \in links' PROVE defectCase'[l[1]] \cap row'[l[2]].cases # {}
    <3>1. CASE l \in links
      <4>1. l[1] \in Defects /\ l[2] \in Executions
        BY <1>0, <3>1 DEF TypeOK
      <4>2. defectCase[l[1]] \cap row[l[2]].cases # {}
        BY <3>1 DEF FailuresExplained
      <4> QED
        BY <2>4, <2>5, <4>1, <4>2
    <3>2. CASE \E c \in Creating(r) : l = <<raised[c], x>>
      <4>1. PICK c \in Creating(r) : l = <<raised[c], x>>
        BY <3>2
      <4>2. c \in row'[x].cases
        BY <2>1, <2>4 DEF Creating
      <4> QED
        BY <2>6, <4>1, <4>2
    <3>3. CASE \E c \in Naming(r) : l = <<results[c].defect, x>>
      <4>1. PICK c \in Naming(r) : l = <<results[c].defect, x>>
        BY <3>3
      <4>2. c \in row'[x].cases
        BY <2>1, <2>4 DEF Naming
      <4> QED
        BY <2>7, <4>1, <4>2
    <3> QED
      BY <2>3, <3>1, <3>2, <3>3
  <2> QED
    BY <2>8, <2>9 DEF FailuresExplained
<1>4. CASE UNCHANGED vars
  BY <1>1, <1>4 DEF vars
<1>5. CASE Next /\ ~ \E r \in Requests : CommitStep(r)
  BY <1>0, <1>1, <1>5, QuietSteps
<1> QED
  BY <1>2, <1>3, <1>4, <1>5 DEF CommitStep

\* Every failing case of a Finalized run has its own defect, linked to the run.
THEOREM FailuresAreExplained == Spec => []FailuresExplained
<1>1. Init => FailuresExplained
  BY DEF Init, FailuresExplained
<1> QED
  BY <1>1, FailuresNext, FoundationInvariant, PTL DEF Spec

-------------------------------------------------------------------------------
\* The service implements ExecutionRecord

LEMMA RecordInitially == Init => Record!RecordInit
BY DEF Init, Record!RecordInit, Record!AbsentRun, AbsentRow, RunAsRead

LEMMA RunParts ==
    ASSUME NEW e \in Executions
    PROVE  RunAsRead[e] = [state |-> row[e].state, tester |-> row[e].tester,
                           key |-> row[e].key, result |-> row[e].result]
BY DEF RunAsRead

\* A write to row e is, to the readers, a write to run e.
LEMMA RunWritten ==
    ASSUME TypeOK, NEW e \in Executions, row' = [row EXCEPT ![e] = row'[e]]
    PROVE  RunAsRead' = [RunAsRead EXCEPT ![e] = [state |-> row'[e].state, tester |-> row'[e].tester,
                                                  key |-> row'[e].key, result |-> row'[e].result]]
<1>1. \A f \in Executions : f # e => row'[f] = row[f]
  BY DEF TypeOK
<1> QED
  BY <1>1 DEF RunAsRead

LEMMA RecordCommit ==
    ASSUME Foundation, NEW r \in Requests, CommitStep(r)
    PROVE  Record!RecordNext
<1>0. TypeOK /\ Sound(req[r], row)
  BY DEF Foundation
<1>1. ASSUME NEW e \in Executions, CommitCreate(r, e) PROVE Record!RecordNext
  <2>1. req[r].tester \in Users /\ req[r].key \in IssueKeys \cup {NoKey} /\ row[e].state = "ABSENT"
    BY <1>0, <1>1 DEF CommitCreate, Sound, Keys
  <2>2. row'[e] = [state |-> "PLANNED", version |-> 1, tester |-> req[r].tester,
                   key |-> req[r].key, cases |-> req[r].cases, result |-> "NONE"]
        /\ row' = [row EXCEPT ![e] = row'[e]]
    BY <1>0, <1>1 DEF CommitCreate, TypeOK
  <2>3. RunAsRead' = [RunAsRead EXCEPT ![e] = [state |-> "PLANNED", tester |-> req[r].tester,
                                               key |-> req[r].key, result |-> "NONE"]]
    BY <1>0, <2>2, RunWritten
  <2>4. RunAsRead[e] = [state |-> row[e].state, tester |-> row[e].tester,
                        key |-> row[e].key, result |-> row[e].result]
    BY RunParts
  <2>5. Record!PlanRun(e, req[r].tester, req[r].key)
    BY <2>1, <2>3, <2>4 DEF Record!PlanRun
  <2> QED
    BY <2>1, <2>5 DEF Record!RecordNext
<1>2. ASSUME CommitUpdate(r) PROVE Record!RecordNext
  <2> DEFINE e == req[r].exec
  <2>1. Pending(r) /\ VersionHolds(r) /\ req[r].pc = "update"
    BY <1>2 DEF CommitUpdate, Pending
  <2>2. /\ e \in Executions /\ row[e].state = "PLANNED"
        /\ req[r].tester \in Users /\ req[r].key \in IssueKeys \cup {NoKey}
    BY <1>0, <2>1, PendingExec, CommitFindsTheRow DEF Sound, Keys
  <2>3. row' = [row EXCEPT ![e] = row'[e]]
    BY <1>0, <1>2, <2>2, UpdateWrites
  <2>4. row'[e] = [state |-> row[e].state, version |-> row[e].version + 1, tester |-> req[r].tester,
                   key |-> req[r].key, cases |-> row[e].cases, result |-> row[e].result]
    BY <1>0, <1>2, <2>2, UpdateWrites
  <2>5. RunAsRead' = [RunAsRead EXCEPT ![e] = [state |-> row[e].state, tester |-> req[r].tester,
                                               key |-> req[r].key, result |-> row[e].result]]
    BY <1>0, <2>2, <2>3, <2>4, RunWritten
  <2>6. Record!EditRun(e, req[r].tester, req[r].key)
    <3>1. RunAsRead[e] = [state |-> row[e].state, tester |-> row[e].tester,
                          key |-> row[e].key, result |-> row[e].result]
      BY <2>2, RunParts
    <3>2. RunAsRead' = [RunAsRead EXCEPT ![e].tester = req[r].tester, ![e].key = req[r].key]
      BY <2>2, <2>5, <3>1 DEF RunAsRead
    <3> QED
      BY <2>2, <3>1, <3>2 DEF Record!EditRun
  <2> QED
    BY <2>2, <2>6 DEF Record!RecordNext
<1>3. ASSUME CommitStart(r) PROVE Record!RecordNext
  <2> DEFINE e == req[r].exec
  <2>1. Pending(r) /\ VersionHolds(r) /\ req[r].pc = "start"
    BY <1>3 DEF CommitStart, Pending
  <2>2. e \in Executions /\ row[e].state = "PLANNED"
    BY <2>1, PendingExec, CommitFindsTheRow DEF Sound
  <2>3. row' = [row EXCEPT ![e] = row'[e]]
    BY <1>0, <1>3, <2>2, StartWrites
  <2>4. row'[e] = [state |-> "IN_PROGRESS", version |-> row[e].version + 1, tester |-> row[e].tester,
                   key |-> row[e].key, cases |-> row[e].cases, result |-> row[e].result]
    BY <1>0, <1>3, <2>2, StartWrites
  <2>5. RunAsRead' = [RunAsRead EXCEPT ![e] = [state |-> "IN_PROGRESS", tester |-> row[e].tester,
                                               key |-> row[e].key, result |-> row[e].result]]
    BY <1>0, <2>2, <2>3, <2>4, RunWritten
  <2>6. RunAsRead[e] = [state |-> row[e].state, tester |-> row[e].tester,
                        key |-> row[e].key, result |-> row[e].result]
    BY <2>2, RunParts
  <2>7. RunAsRead' = [RunAsRead EXCEPT ![e].state = "IN_PROGRESS"]
    BY <2>2, <2>5, <2>6 DEF RunAsRead
  <2>8. Record!StartRun(e)
    BY <2>2, <2>6, <2>7 DEF Record!StartRun
  <2> QED
    BY <2>2, <2>8 DEF Record!RecordNext
<1>4. ASSUME NEW raised \in [Creating(r) -> Defects], CommitFinalize(r, raised)
      PROVE  Record!RecordNext
  <2> DEFINE e == req[r].exec
             res == Derived(req[r].results)
  <2>1. e \in Executions /\ row[e].state = "IN_PROGRESS"
    BY <1>4, FinalizeFinds
  <2>2. row' = [row EXCEPT ![e] = row'[e]]
    BY <1>0, <1>4, <2>1, FinalizeWrites
  <2>3. row'[e] = [state |-> "FINALIZED", version |-> row[e].version + 1, tester |-> row[e].tester,
                   key |-> row[e].key, cases |-> row[e].cases, result |-> res]
    BY <1>0, <1>4, <2>1, FinalizeWrites
  <2>4. RunAsRead' = [RunAsRead EXCEPT ![e] = [state |-> "FINALIZED", tester |-> row[e].tester,
                                               key |-> row[e].key, result |-> res]]
    BY <1>0, <2>1, <2>2, <2>3, RunWritten
  <2>5. RunAsRead[e] = [state |-> row[e].state, tester |-> row[e].tester,
                        key |-> row[e].key, result |-> row[e].result]
    BY <2>1, RunParts
  <2>6. RunAsRead' = [RunAsRead EXCEPT ![e].state = "FINALIZED", ![e].result = res]
    BY <2>1, <2>4, <2>5 DEF RunAsRead
  <2>7. res \in Outcomes /\ Record!FinalizeRun(e, res)
    BY <2>1, <2>5, <2>6, DerivedType DEF Record!FinalizeRun
  <2> QED
    BY <2>1, <2>7 DEF Record!RecordNext, Record!Outcomes, Outcomes
<1> QED
  BY <1>1, <1>2, <1>3, <1>4 DEF CommitStep

\* The versioned service refines the atomic record: a run is planned, edited, started and
\* finalized in that order, once, for any number of racing requests.
THEOREM ServiceImplementsRecord == Spec => ImplementsRecord
<1>1. Foundation /\ [Next]_vars => [Record!RecordNext]_RunAsRead
  <2> SUFFICES ASSUME Foundation, [Next]_vars PROVE Record!RecordNext \/ UNCHANGED RunAsRead
    OBVIOUS
  <2>1. CASE \E r \in Requests : CommitStep(r)
    BY <2>1, RecordCommit
  <2>2. CASE UNCHANGED vars \/ (Next /\ ~ \E r \in Requests : CommitStep(r))
    BY <2>2, QuietSteps DEF vars, RunAsRead
  <2> QED
    BY <2>1, <2>2
<1> QED
  BY <1>1, RecordInitially, FoundationInvariant, PTL DEF Spec, ImplementsRecord, Record!RecordSpec
====
