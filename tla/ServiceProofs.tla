---- MODULE ServiceProofs ----
(* Proofs about the services that share no state with one another: the login   *)
(* throttle, the business identifiers, the reports, the imports and the stored *)
(* token, for any clients, transactions, records, workbooks and syncs, and any *)
(* limits.                                                                     *)
EXTENDS LoginThrottle, Identifiers, Reports, Imports, JiraConnection, FiniteSetTheorems, TLAPS

-------------------------------------------------------------------------------
\* The throttle's table stays within its bounds

\* The keys that have a bucket of their own.
OwnBuckets == DOMAIN buckets \ {Overflow}

TableInv == IsFiniteSet(DOMAIN buckets) /\ Cardinality(OwnBuckets) <= MaxKeys

\* What a sweep leaves, and what it counts one attempt in.
LEMMA ConsumeKeepsTable ==
    ASSUME TableInv, NEW k, buckets' = Consumed(k)
    PROVE  TableInv'
<1> DEFINE D == DOMAIN Swept
           b == Resolve(Swept, k)
<1>1. D \subseteq DOMAIN buckets /\ DOMAIN buckets' = D \cup {b}
  BY DEF Swept, Restrict, Consumed
<1>2. b = Overflow \/ b \in D \/ Cardinality(D) < MaxKeys
  BY DEF Resolve
<1> HIDE DEF D, b
<1>3. /\ IsFiniteSet(D) /\ IsFiniteSet(OwnBuckets) /\ IsFiniteSet(D \cup {b})
      /\ D \ {Overflow} \subseteq OwnBuckets
  <2>1. IsFiniteSet(DOMAIN buckets)
    BY DEF TableInv
  <2>2. IsFiniteSet(D) /\ IsFiniteSet(OwnBuckets)
    BY <1>1, <2>1, FS_Subset DEF OwnBuckets
  <2> QED
    BY <1>1, <2>2, FS_AddElement DEF OwnBuckets
<1>4. IsFiniteSet(D \ {Overflow}) /\ Cardinality(D \ {Overflow}) <= Cardinality(OwnBuckets)
  BY <1>3, FS_Subset
<1>5. /\ Cardinality(D \ {Overflow}) \in Nat /\ Cardinality(OwnBuckets) \in Nat
      /\ Cardinality(D) \in Nat /\ MaxKeys \in Nat /\ Cardinality(OwnBuckets) <= MaxKeys
  BY <1>3, <1>4, FS_CardinalityType, ThrottleAssumption DEF TableInv
<1>6. OwnBuckets' = (D \cup {b}) \ {Overflow}
  BY <1>1 DEF OwnBuckets
<1>7. Cardinality((D \cup {b}) \ {Overflow}) <= MaxKeys
  <2>1. CASE b = Overflow \/ b \in D
    <3>1. (D \cup {b}) \ {Overflow} = D \ {Overflow}
      BY <2>1
    <3> QED
      BY <1>4, <1>5, <3>1
  <2>2. CASE b # Overflow /\ b \notin D
    <3>1. (D \cup {b}) \ {Overflow} = (D \ {Overflow}) \cup {b} /\ b \notin D \ {Overflow}
      BY <2>2
    <3>2. Cardinality((D \ {Overflow}) \cup {b}) = Cardinality(D \ {Overflow}) + 1
      BY <1>4, <3>1, FS_AddElement
    <3>3. Cardinality(D \ {Overflow}) <= Cardinality(D)
      BY <1>3, FS_Subset
    <3> QED
      BY <1>2, <1>5, <2>2, <3>1, <3>2, <3>3
  <2> QED
    BY <2>1, <2>2
<1> QED
  BY <1>1, <1>3, <1>6, <1>7 DEF TableInv

\* Keys supplied by callers cannot grow the table beyond MAX_TRACKED_KEYS and the shared bucket.
THEOREM TableStaysBounded == ThrottleSpec => []TableIsBounded
<1>1. ThrottleInit => TableInv
  <2> SUFFICES ASSUME ThrottleInit PROVE TableInv
    OBVIOUS
  <2>1. DOMAIN buckets = {} /\ OwnBuckets = {}
    BY DEF ThrottleInit, OwnBuckets
  <2> QED
    BY <2>1, FS_EmptySet, ThrottleAssumption DEF TableInv
<1>2. TableInv /\ [ThrottleNext]_throttleVars => TableInv'
  <2> SUFFICES ASSUME TableInv, [ThrottleNext]_throttleVars PROVE TableInv'
    OBVIOUS
  <2>1. UNCHANGED buckets \/ \E k : buckets' = Consumed(k)
    BY DEF ThrottleNext, throttleVars, PassTime, Arrive, SpendEmail, Succeed, Fail, Pay
  <2>2. CASE UNCHANGED buckets
    BY <2>2 DEF TableInv, OwnBuckets
  <2> QED
    BY <2>1, <2>2, ConsumeKeepsTable
<1>3. TableInv => TableIsBounded
  <2> SUFFICES ASSUME TableInv PROVE TableIsBounded
    OBVIOUS
  <2>1. IsFiniteSet(DOMAIN buckets) /\ IsFiniteSet(OwnBuckets)
    BY FS_Subset DEF TableInv, OwnBuckets
  <2>2. DOMAIN buckets \subseteq OwnBuckets \cup {Overflow} /\ Overflow \notin OwnBuckets
    BY DEF OwnBuckets
  <2>3. IsFiniteSet(OwnBuckets \cup {Overflow})
        /\ Cardinality(OwnBuckets \cup {Overflow}) = Cardinality(OwnBuckets) + 1
    BY <2>1, <2>2, FS_AddElement
  <2>4. Cardinality(DOMAIN buckets) <= Cardinality(OwnBuckets \cup {Overflow})
    BY <2>2, <2>3, FS_Subset
  <2>5. Cardinality(DOMAIN buckets) \in Nat /\ Cardinality(OwnBuckets) \in Nat /\ MaxKeys \in Nat
    BY <2>1, FS_CardinalityType, ThrottleAssumption
  <2> QED
    BY <2>3, <2>4, <2>5 DEF TableInv, TableIsBounded
<1> QED
  BY <1>1, <1>2, <1>3, PTL DEF ThrottleSpec

-------------------------------------------------------------------------------
\* The throttle's attempts stay within its limit

\* The credential checks in s that were counted in bucket b at one of the times T.
CheckedIn(s, b, T) == {i \in DOMAIN s : s[i].bucket = b /\ s[i].at \in T}

\* Their number.
Tried(m, b, T) == Cardinality(CheckedIn(checks[m], b, T))

Since(t) == {u \in Int : u >= t}

Runs(b) == b \in DOMAIN buckets /\ buckets[b].resetAt > tick

\* When the window of a live bucket opened.
OpenedAt(b) == buckets[b].resetAt - Window

\* How the checks of m in one bucket are spread over the windows of that bucket: in any stretch
\* as long as a window, before the window that is open, in it, and after its first instant.
SpreadInBucket(m, b) ==
    /\ \A t \in Int : Tried(m, b, t..(t + Window - 1)) <= 2 * Limit - 1
    /\ ~Runs(b) => /\ Tried(m, b, Since(tick)) = 0
                   /\ \A t \in Int : t > tick - Window => Tried(m, b, Since(t)) <= Limit - 1
    /\ Runs(b) => /\ Tried(m, b, Since(OpenedAt(b))) <= buckets[b].count
                  /\ Tried(m, b, Since(OpenedAt(b))) <= Limit
                  /\ Tried(m, b, Since(OpenedAt(b) + 1)) <= buckets[b].count - 1
                  /\ Tried(m, b, Since(OpenedAt(b) + 1)) <= Limit - 1
                  /\ \A t \in Int : t > OpenedAt(b) - Window =>
                        Tried(m, b, t..(OpenedAt(b) - 1)) <= Limit - 1

BucketsInv ==
    /\ tick \in Nat
    /\ \A b \in DOMAIN buckets : /\ buckets[b] \in [count : Nat \ {0}, resetAt : Nat]
                                 /\ OpenedAt(b) >= 0 /\ OpenedAt(b) <= tick

SpreadChecks ==
    /\ checks \in [Emails -> Seq(Check)]
    /\ \A m \in Emails, i \in Nat : i \in DOMAIN checks[m] =>
          checks[m][i].at <= tick /\ checks[m][i].bucket \in {m, Overflow}

DoorsInv ==
    door \in [Doors -> [pc : {"idle", "allowed", "checking"}, client : Clients, email : Emails]]

SpreadInv ==
    /\ BucketsInv /\ SpreadChecks /\ DoorsInv
    /\ \A m \in Emails : SpreadInBucket(m, m) /\ SpreadInBucket(m, Overflow)

\* Parts of a history are finite, and a part of a part has no more checks.
LEMMA TriedIsCounted ==
    ASSUME NEW s \in Seq(Check), NEW b, NEW T
    PROVE  /\ IsFiniteSet(CheckedIn(s, b, T)) /\ Cardinality(CheckedIn(s, b, T)) \in Nat
           /\ \A U : T \subseteq U =>
                Cardinality(CheckedIn(s, b, T)) <= Cardinality(CheckedIn(s, b, U))
<1>1. DOMAIN s = 1..Len(s) /\ Len(s) \in Nat
  OBVIOUS
<1>2. IsFiniteSet(DOMAIN s)
  BY <1>1, FS_Interval
<1>3. \A U : IsFiniteSet(CheckedIn(s, b, U))
  BY <1>2, FS_Subset DEF CheckedIn
<1>4. \A U : T \subseteq U => CheckedIn(s, b, T) \subseteq CheckedIn(s, b, U)
  BY DEF CheckedIn
<1> QED
  BY <1>3, <1>4, FS_CardinalityType, FS_Subset

LEMMA TriedTogether ==
    ASSUME NEW s \in Seq(Check), NEW b, NEW T, NEW U, NEW V, T \subseteq U \cup V
    PROVE  Cardinality(CheckedIn(s, b, T))
              <= Cardinality(CheckedIn(s, b, U)) + Cardinality(CheckedIn(s, b, V))
<1> DEFINE A == CheckedIn(s, b, T)
           B == CheckedIn(s, b, U)
           C == CheckedIn(s, b, V)
<1>1. A \subseteq B \cup C
  BY DEF CheckedIn
<1>2. IsFiniteSet(A) /\ IsFiniteSet(B) /\ IsFiniteSet(C)
  BY TriedIsCounted
<1> HIDE DEF A, B, C
<1>3. /\ IsFiniteSet(B \cup C) /\ IsFiniteSet(B \cap C)
      /\ Cardinality(B \cup C) = Cardinality(B) + Cardinality(C) - Cardinality(B \cap C)
  BY <1>2, FS_Union, FS_Subset
<1>4. Cardinality(A) <= Cardinality(B \cup C)
  BY <1>1, <1>3, FS_Subset
<1> QED
  BY <1>2, <1>3, <1>4, FS_CardinalityType DEF A, B, C

\* One more check counts one more wherever its time and its bucket belong, and none elsewhere.
LEMMA TriedOnceMore ==
    ASSUME NEW s \in Seq(Check), NEW e \in Check, NEW b, NEW T
    PROVE  Cardinality(CheckedIn(Append(s, e), b, T))
              = Cardinality(CheckedIn(s, b, T)) + IF e.bucket = b /\ e.at \in T THEN 1 ELSE 0
<1>1. /\ DOMAIN s = 1..Len(s) /\ Len(s) \in Nat
      /\ DOMAIN Append(s, e) = 1..(Len(s) + 1)
      /\ \A i \in 1..Len(s) : Append(s, e)[i] = s[i]
      /\ Append(s, e)[Len(s) + 1] = e
  OBVIOUS
<1>2. CASE e.bucket = b /\ e.at \in T
  <2>1. CheckedIn(Append(s, e), b, T) = CheckedIn(s, b, T) \cup {Len(s) + 1}
    BY <1>1, <1>2 DEF CheckedIn
  <2>2. Len(s) + 1 \notin CheckedIn(s, b, T)
    BY <1>1 DEF CheckedIn
  <2> QED
    BY <1>2, <2>1, <2>2, TriedIsCounted, FS_AddElement
<1>3. CASE ~(e.bucket = b /\ e.at \in T)
  <2>1. CheckedIn(Append(s, e), b, T) = CheckedIn(s, b, T)
    BY <1>1, <1>3 DEF CheckedIn
  <2> QED
    BY <1>3, <2>1, TriedIsCounted
<1> QED
  BY <1>2, <1>3

LEMMA ThrottleConstants ==
    Limit \in Nat /\ Limit >= 1 /\ Window \in Nat /\ Window >= 1 /\ MaxKeys \in Nat
BY ThrottleAssumption

\* An attempt leaves the buckets as they should be, whoever pays.
LEMMA PayKeepsBuckets ==
    ASSUME BucketsInv, NEW k, NEW c, c = Resolve(Swept, k), buckets' = Consumed(k), tick' = tick
    PROVE  /\ BucketsInv'
           /\ \A b : Runs(b) => Runs(b)' /\ OpenedAt(b)' = OpenedAt(b) /\ buckets'[b].count >= buckets[b].count
           /\ \A b : ~Runs(b) /\ Runs(b)' => b = c /\ OpenedAt(b)' = tick /\ buckets'[b].count = 1
           /\ Runs(c)' /\ (Runs(c) => buckets'[c].count = buckets[c].count + 1)
           /\ Granted(k) <=> buckets'[c].count <= Limit
<1> DEFINE D == DOMAIN Swept
<1>1. D = {b \in DOMAIN buckets : buckets[b].resetAt > tick} /\ \A b \in D : Swept[b] = buckets[b]
  BY DEF Swept, Restrict
<1>2. /\ DOMAIN buckets' = D \cup {c}
      /\ \A j \in D \cup {c} : buckets'[j] = IF j # c THEN Swept[j]
            ELSE IF c \in D THEN [Swept[c] EXCEPT !.count = Swept[c].count + 1]
            ELSE [count |-> 1, resetAt |-> tick + Window]
  BY DEF Consumed
<1>3. \A b : Runs(b) <=> b \in D
  BY <1>1 DEF Runs
<1>4. Granted(k) <=> buckets'[c].count <= Limit
  BY DEF Granted
<1> HIDE DEF D
<1>5. \A b \in D : b # c => buckets'[b] = buckets[b]
  BY <1>1, <1>2
<1>6. c \in D => buckets'[c] = [count |-> buckets[c].count + 1, resetAt |-> buckets[c].resetAt]
  BY <1>1, <1>2 DEF BucketsInv
<1>7. c \notin D => buckets'[c] = [count |-> 1, resetAt |-> tick + Window]
  BY <1>2
<1>8. BucketsInv'
  <2> SUFFICES ASSUME NEW b \in DOMAIN buckets'
               PROVE  /\ buckets'[b] \in [count : Nat \ {0}, resetAt : Nat]
                      /\ OpenedAt(b)' >= 0 /\ OpenedAt(b)' <= tick
    BY DEF BucketsInv
  <2>1. CASE b = c /\ c \notin D
    BY <1>7, <2>1, ThrottleConstants DEF BucketsInv, OpenedAt
  <2>2. CASE b = c /\ c \in D
    BY <1>1, <1>6, <2>2, ThrottleConstants DEF BucketsInv, OpenedAt
  <2>3. CASE b # c
    BY <1>1, <1>2, <1>5, <2>3 DEF BucketsInv, OpenedAt
  <2> QED
    BY <2>1, <2>2, <2>3
<1>9. \A b \in D : Runs(b)' /\ OpenedAt(b)' = OpenedAt(b) /\ buckets'[b].count >= buckets[b].count
  <2> TAKE b \in D
  <2>1. buckets[b] \in [count : Nat \ {0}, resetAt : Nat] /\ buckets[b].resetAt > tick
    BY <1>1 DEF BucketsInv
  <2>2. b \in DOMAIN buckets'
    BY <1>2
  <2>3. buckets'[b].resetAt = buckets[b].resetAt /\ buckets'[b].count >= buckets[b].count
    BY <1>5, <1>6, <2>1
  <2> QED
    BY <2>1, <2>2, <2>3 DEF Runs, OpenedAt
<1>10. ASSUME NEW b, b \notin D, Runs(b)'
       PROVE  b = c /\ OpenedAt(b)' = tick /\ buckets'[b].count = 1
  <2>1. b = c
    BY <1>2, <1>10 DEF Runs
  <2> QED
    BY <1>7, <1>10, <2>1, ThrottleConstants DEF OpenedAt, BucketsInv
<1>11. Runs(c)' /\ (c \in D => buckets'[c].count = buckets[c].count + 1)
  <2>1. c \in D => buckets'[c].resetAt > tick
    BY <1>1, <1>6
  <2>2. c \notin D => buckets'[c].resetAt > tick
    BY <1>7, ThrottleConstants DEF BucketsInv
  <2>3. c \in DOMAIN buckets' /\ buckets'[c].resetAt > tick'
    BY <1>2, <2>1, <2>2
  <2>4. Runs(c)'
    BY <2>3 DEF Runs
  <2>5. c \in D => buckets'[c].count = buckets[c].count + 1
    BY <1>6
  <2> QED
    BY <2>4, <2>5
<1> QED
  BY <1>3, <1>4, <1>8, <1>9, <1>10, <1>11

\* A later tick: a bucket may end, and then its window lies behind.
LEMMA TimeKeepsSpread ==
    ASSUME BucketsInv, SpreadChecks, NEW m \in Emails, NEW b, SpreadInBucket(m, b),
           tick' = tick + 1, UNCHANGED <<buckets, checks>>
    PROVE  SpreadInBucket(m, b)'
<1> DEFINE N(T) == Tried(m, b, T)
<1>1. checks[m] \in Seq(Check)
  BY DEF SpreadChecks
<1>2. /\ \A T : N(T) \in Nat
      /\ \A T, U : T \subseteq U => N(T) <= N(U)
  BY <1>1, TriedIsCounted DEF Tried
<1>3. \A T : Tried(m, b, T)' = N(T)
  BY DEF Tried, CheckedIn
<1>4. OpenedAt(b)' = OpenedAt(b)
  BY DEF OpenedAt
<1> HIDE DEF N
<1>5. tick \in Nat /\ N(Since(tick + 1)) = 0
  <2>1. tick \in Nat
    BY DEF BucketsInv
  <2>2. ASSUME NEW i \in DOMAIN checks[m] PROVE checks[m][i].at <= tick /\ checks[m][i].at \in Nat
    <3>1. i \in Nat /\ checks[m][i] \in Check
      BY <1>1
    <3> QED
      BY <3>1 DEF SpreadChecks, Check
  <2>3. CheckedIn(checks[m], b, Since(tick + 1)) = {}
    BY <2>1, <2>2 DEF CheckedIn, Since
  <2> QED
    BY <2>1, <2>3, FS_EmptySet DEF Tried, N
<1>6. CASE Runs(b)'
  <2>1. Runs(b)
    BY <1>5, <1>6 DEF Runs, BucketsInv
  <2> QED
    BY <1>3, <1>4, <1>6, <2>1 DEF SpreadInBucket, N
<1>7. CASE ~Runs(b)'
  <2>1. ASSUME NEW t \in Int, t > tick + 1 - Window PROVE N(Since(t)) <= Limit - 1
    <3>1. CASE ~Runs(b)
      <4>1. \A u \in Int : u > tick - Window => N(Since(u)) <= Limit - 1
        BY <3>1 DEF SpreadInBucket, N
      <4>2. t > tick - Window
        BY <1>5, <2>1, ThrottleConstants
      <4> QED
        BY <4>1, <4>2
    <3>2. CASE Runs(b)
      <4>1. /\ buckets[b].resetAt = tick + 1 /\ OpenedAt(b) \in Int
            /\ OpenedAt(b) = tick + 1 - Window
        BY <1>5, <1>7, <3>2, ThrottleConstants DEF Runs, BucketsInv, OpenedAt
      <4>2. Since(t) \subseteq Since(OpenedAt(b) + 1)
        BY <2>1, <4>1 DEF Since
      <4>3. N(Since(OpenedAt(b) + 1)) <= Limit - 1
        BY <3>2 DEF SpreadInBucket, N
      <4> QED
        BY <1>2, <4>2, <4>3, ThrottleConstants
    <3> QED
      BY <3>1, <3>2
  <2>2. \A t \in Int : N(t..(t + Window - 1)) <= 2 * Limit - 1
    BY DEF SpreadInBucket, N
  <2>3. ASSUME NEW t \in Int, t > tick' - Window PROVE Tried(m, b, Since(t))' <= Limit - 1
    <3>1. N(Since(t)) <= Limit - 1
      BY <1>5, <2>1, <2>3, ThrottleConstants
    <3>2. Tried(m, b, Since(t))' = N(Since(t))
      BY <1>3
    <3> QED
      BY <3>1, <3>2
  <2>4. Tried(m, b, Since(tick))' = 0
    BY <1>3, <1>5
  <2>5. \A t \in Int : Tried(m, b, t..(t + Window - 1))' <= 2 * Limit - 1
    BY <1>3, <2>2
  <2> QED
    BY <1>7, <2>3, <2>4, <2>5 DEF SpreadInBucket
<1> QED
  BY <1>6, <1>7

\* An attempt that is granted no check, or whose check is not of m in b, and is counted somewhere.
LEMMA PayKeepsSpread ==
    ASSUME BucketsInv, SpreadChecks, NEW m \in Emails, NEW b, SpreadInBucket(m, b),
           NEW k, buckets' = Consumed(k), tick' = tick,
           \A T : Tried(m, b, T)' = Tried(m, b, T)
    PROVE  SpreadInBucket(m, b)'
<1> DEFINE N(T) == Tried(m, b, T)
<1>1. checks[m] \in Seq(Check)
  BY DEF SpreadChecks
<1>2. /\ \A T : N(T) \in Nat
      /\ \A T, U : T \subseteq U => N(T) <= N(U)
  BY <1>1, TriedIsCounted DEF Tried
<1>3. \A T : Tried(m, b, T)' = N(T)
  OBVIOUS
<1>4. tick \in Nat
  BY DEF BucketsInv
<1> HIDE DEF N
<1>5. CASE Runs(b)
  <2>1. Runs(b)' /\ OpenedAt(b)' = OpenedAt(b) /\ buckets'[b].count >= buckets[b].count
    BY <1>5, PayKeepsBuckets
  <2>2. buckets[b].count \in Nat /\ buckets'[b].count \in Nat
    BY <1>5, <2>1, PayKeepsBuckets DEF Runs, BucketsInv
  <2>3. /\ N(Since(OpenedAt(b))) <= buckets'[b].count
        /\ N(Since(OpenedAt(b) + 1)) <= buckets'[b].count - 1
    <3>1. /\ N(Since(OpenedAt(b))) <= buckets[b].count
          /\ N(Since(OpenedAt(b) + 1)) <= buckets[b].count - 1
      BY <1>5 DEF SpreadInBucket, N
    <3> QED
      BY <1>2, <2>1, <2>2, <3>1
  <2> QED
    BY <1>3, <1>5, <2>1, <2>3 DEF SpreadInBucket, N
<1>6. CASE ~Runs(b) /\ Runs(b)'
  <2>1. OpenedAt(b)' = tick /\ buckets'[b].count = 1
    BY <1>6, PayKeepsBuckets
  <2>2. N(Since(tick)) = 0 /\ \A t \in Int : t > tick - Window => N(Since(t)) <= Limit - 1
    BY <1>6 DEF SpreadInBucket, N
  <2>3. N(Since(tick + 1)) = 0
    BY <1>2, <1>4, <2>2 DEF Since
  <2>4. ASSUME NEW t \in Int, t > tick - Window PROVE N(t..(tick - 1)) <= Limit - 1
    <3>1. t..(tick - 1) \subseteq Since(t)
      BY <1>4 DEF Since
    <3> QED
      <4>1. N(Since(t)) <= Limit - 1
        BY <2>2, <2>4
      <4>2. N(t..(tick - 1)) <= N(Since(t)) /\ N(t..(tick - 1)) \in Nat /\ N(Since(t)) \in Nat
        BY <1>2, <3>1
      <4> QED
        BY <4>1, <4>2, ThrottleConstants
  <2>5. \A t \in Int : Tried(m, b, t..(t + Window - 1))' <= 2 * Limit - 1
    BY <1>3 DEF SpreadInBucket, N
  <2>6. /\ Tried(m, b, Since(OpenedAt(b)))' = 0
        /\ Tried(m, b, Since(OpenedAt(b) + 1))' = 0
    BY <1>3, <2>1, <2>2, <2>3
  <2>7. \A t \in Int : t > OpenedAt(b)' - Window => Tried(m, b, t..(OpenedAt(b) - 1))' <= Limit - 1
    BY <1>3, <2>1, <2>4
  <2>8. /\ Tried(m, b, Since(OpenedAt(b)))' <= buckets'[b].count
        /\ Tried(m, b, Since(OpenedAt(b)))' <= Limit
        /\ Tried(m, b, Since(OpenedAt(b) + 1))' <= buckets'[b].count - 1
        /\ Tried(m, b, Since(OpenedAt(b) + 1))' <= Limit - 1
    BY <2>1, <2>6, ThrottleConstants
  <2> QED
    BY <1>6, <2>5, <2>7, <2>8 DEF SpreadInBucket
<1>7. CASE ~Runs(b) /\ ~Runs(b)'
  BY <1>3, <1>7 DEF SpreadInBucket
<1> QED
  BY <1>5, <1>6, <1>7

\* A check that was granted, in the bucket its attempt was counted in.
LEMMA GrantedKeepsSpread ==
    ASSUME BucketsInv, SpreadChecks, NEW m \in Emails, NEW c \in Emails \cup {Overflow}, c = Resolve(Swept, m),
           SpreadInBucket(m, c),
           buckets' = Consumed(m), tick' = tick, Granted(m),
           checks' = [checks EXCEPT ![m] =
                         Append(checks[m], [at |-> tick, bucket |-> c])]
    PROVE  SpreadInBucket(m, c)'
<1> DEFINE e == [at |-> tick, bucket |-> c]
           N(T) == Tried(m, c, T)
           M(T) == Cardinality(CheckedIn(checks'[m], c, T))
           s == buckets'[c].resetAt - Window
           count == buckets'[c].count
<1>1. checks[m] \in Seq(Check) /\ e \in Check /\ tick \in Nat /\ checks'[m] = Append(checks[m], e)
  BY DEF SpreadChecks, BucketsInv, Check
<1>2. checks'[m] \in Seq(Check)
  BY <1>1
<1>3. /\ \A T : N(T) \in Nat /\ M(T) \in Nat
      /\ \A T, U : T \subseteq U => N(T) <= N(U) /\ M(T) <= M(U)
  BY <1>1, <1>2, TriedIsCounted DEF Tried
<1>4. \A T, U, V : T \subseteq U \cup V => M(T) <= M(U) + M(V)
  BY <1>2, TriedTogether
<1>5. \A T : (tick \in T => M(T) = N(T) + 1) /\ (tick \notin T => M(T) = N(T))
  <2> SUFFICES ASSUME NEW T PROVE (tick \in T => M(T) = N(T) + 1) /\ (tick \notin T => M(T) = N(T))
    OBVIOUS
  <2>1. M(T) = N(T) + IF e.bucket = c /\ e.at \in T THEN 1 ELSE 0
    BY <1>1, TriedOnceMore DEF Tried
  <2>2. e.bucket = c /\ e.at = tick /\ N(T) \in Nat
    BY <1>3
  <2> QED
    BY <2>1, <2>2
<1>6. /\ BucketsInv' /\ Runs(c)' /\ count <= Limit /\ count \in Nat
      /\ Runs(c) => s = OpenedAt(c) /\ count = buckets[c].count + 1 /\ buckets[c].count \in Nat
      /\ ~Runs(c) => s = tick /\ count = 1
  <2>1. BucketsInv' /\ Runs(c)' /\ count <= Limit
    BY PayKeepsBuckets
  <2>2. count \in Nat
    BY <2>1 DEF BucketsInv, Runs
  <2>3. Runs(c) => s = OpenedAt(c) /\ count = buckets[c].count + 1 /\ buckets[c].count \in Nat
    BY PayKeepsBuckets DEF OpenedAt, BucketsInv, Runs
  <2>4. ~Runs(c) => s = tick /\ count = 1
    BY <2>1, PayKeepsBuckets DEF OpenedAt
  <2> QED
    BY <2>1, <2>2, <2>3, <2>4
<1>7. s \in Int /\ s <= tick
  <2>1. c \in DOMAIN buckets'
    BY <1>6 DEF Runs
  <2> QED
    BY <1>6, <2>1, ThrottleConstants DEF BucketsInv, OpenedAt
<1> HIDE DEF N, M, e
<1>8. SpreadInBucket(m, c) /\ \A T : Tried(m, c, T)' = M(T)
  BY DEF Tried, M
<1>9. /\ M(Since(s)) <= count /\ M(Since(s + 1)) <= count - 1
      /\ \A t \in Int : t > s - Window => M(t..(s - 1)) <= Limit - 1
  <2>1. CASE Runs(c)
    <3>1. /\ N(Since(s)) <= buckets[c].count /\ N(Since(s + 1)) <= buckets[c].count - 1
          /\ \A t \in Int : t > s - Window => N(t..(s - 1)) <= Limit - 1
      BY <1>6, <1>8, <2>1 DEF SpreadInBucket, N
    <3>2. \A t \in Int : tick \notin t..(s - 1)
      BY <1>1, <1>7
    <3>3. \A T : M(T) <= N(T) + 1
      <4> TAKE T
      <4>1. M(T) \in Nat /\ N(T) \in Nat
        BY <1>3
      <4> QED
        BY <1>5, <4>1
    <3>4. \A t \in Int : t > s - Window => M(t..(s - 1)) <= Limit - 1
      <4> TAKE t \in Int
      <4>1. M(t..(s - 1)) = N(t..(s - 1))
        BY <1>5, <3>2
      <4> QED
        BY <3>1, <4>1
    <3>5. M(Since(s)) <= N(Since(s)) + 1 /\ M(Since(s + 1)) <= N(Since(s + 1)) + 1
      BY <3>3
    <3>6. N(Since(s)) \in Nat /\ N(Since(s + 1)) \in Nat /\ M(Since(s)) \in Nat /\ M(Since(s + 1)) \in Nat
      BY <1>3
    <3> QED
      BY <1>6, <2>1, <3>1, <3>4, <3>5, <3>6
  <2>2. CASE ~Runs(c)
    <3>1. N(Since(tick)) = 0 /\ \A t \in Int : t > tick - Window => N(Since(t)) <= Limit - 1
      BY <1>8, <2>2 DEF SpreadInBucket, N
    <3>2. s = tick /\ count = 1
      BY <1>6, <2>2
    <3>3. N(Since(tick + 1)) = 0 /\ tick \notin Since(tick + 1)
      <4>1. Since(tick + 1) \subseteq Since(tick) /\ tick \notin Since(tick + 1)
        BY <1>1 DEF Since
      <4> QED
        BY <1>3, <3>1, <4>1
    <3>4. M(Since(tick)) <= 1 /\ M(Since(tick + 1)) = 0
      <4>1. M(Since(tick + 1)) = 0
        BY <1>5, <3>3
      <4>2. tick \in Since(tick)
        BY <1>1 DEF Since
      <4>3. M(Since(tick)) = N(Since(tick)) + 1
        BY <1>5, <4>2
      <4> QED
        BY <3>1, <4>1, <4>3
    <3>5. ASSUME NEW t \in Int, t > tick - Window PROVE M(t..(tick - 1)) <= Limit - 1
      <4>1. t..(tick - 1) \subseteq Since(t) /\ tick \notin t..(tick - 1)
        BY <1>1 DEF Since
      <4>2. N(Since(t)) <= Limit - 1
        BY <3>1, <3>5
      <4>3. M(t..(tick - 1)) = N(t..(tick - 1)) /\ N(t..(tick - 1)) <= N(Since(t))
        BY <1>3, <1>5, <4>1
      <4>4. N(t..(tick - 1)) \in Nat /\ N(Since(t)) \in Nat
        BY <1>3
      <4> QED
        BY <4>2, <4>3, <4>4, ThrottleConstants
    <3> QED
      BY <3>2, <3>4, <3>5
  <2> QED
    BY <2>1, <2>2
<1>10. M(Since(s)) <= Limit /\ M(Since(s + 1)) <= Limit - 1
  BY <1>3, <1>6, <1>9, ThrottleConstants
<1>11. ASSUME NEW t \in Int PROVE M(t..(t + Window - 1)) <= 2 * Limit - 1
  <2> DEFINE stretch == t..(t + Window - 1)
  <2>1. CASE tick \notin stretch
    <3>1. M(stretch) = N(stretch)
      BY <1>5, <2>1
    <3>2. N(stretch) <= 2 * Limit - 1
      BY <1>8 DEF SpreadInBucket, N
    <3> QED
      BY <3>1, <3>2
  <2>2. CASE tick \in stretch /\ t > s
    <3>1. stretch \subseteq Since(s + 1)
      BY <1>7, <2>2, ThrottleConstants DEF Since
    <3>2. M(stretch) <= M(Since(s + 1)) /\ M(stretch) \in Nat /\ M(Since(s + 1)) \in Nat
      BY <1>3, <3>1
    <3> QED
      BY <1>10, <3>2, ThrottleConstants
  <2>3. CASE tick \in stretch /\ t <= s
    <3>1. t > s - Window
      BY <1>1, <1>7, <2>3, ThrottleConstants
    <3>2. stretch \subseteq (t..(s - 1)) \cup Since(s)
      BY <1>7, <2>3, ThrottleConstants DEF Since
    <3>3. M(stretch) <= M(t..(s - 1)) + M(Since(s))
      BY <1>4, <3>2
    <3>4. M(t..(s - 1)) <= Limit - 1
      BY <1>9, <3>1
    <3>5. M(stretch) \in Nat /\ M(t..(s - 1)) \in Nat /\ M(Since(s)) \in Nat
      BY <1>3
    <3> HIDE DEF stretch
    <3>6. M(stretch) <= 2 * Limit - 1
      BY <1>10, <3>3, <3>4, <3>5, ThrottleConstants
    <3> QED
      BY <3>6 DEF stretch
  <2> QED
    BY <1>7, <2>1, <2>2, <2>3
<1>12. Runs(c)' /\ OpenedAt(c)' = s
  BY <1>6 DEF OpenedAt
<1> QED
  BY <1>8, <1>9, <1>10, <1>11, <1>12 DEF SpreadInBucket

LEMMA AtRestTyped ==
    AtRest \in [pc : {"idle", "allowed", "checking"}, client : Clients, email : Emails]
BY ThrottleAssumption DEF AtRest

LEMMA SpreadInit == ThrottleInit => SpreadInv
<1> SUFFICES ASSUME ThrottleInit PROVE SpreadInv
  OBVIOUS
<1>1. BucketsInv /\ SpreadChecks /\ DoorsInv /\ tick = 0 /\ \A b : ~Runs(b)
  BY AtRestTyped DEF ThrottleInit, BucketsInv, SpreadChecks, DoorsInv, Runs
<1>2. ASSUME NEW m \in Emails, NEW b, NEW T PROVE Tried(m, b, T) = 0
  <2>1. CheckedIn(checks[m], b, T) = {}
    BY DEF ThrottleInit, CheckedIn
  <2> QED
    BY <2>1, FS_EmptySet DEF Tried
<1> QED
  BY <1>1, <1>2, ThrottleConstants DEF SpreadInv, SpreadInBucket

LEMMA SpreadNext == SpreadInv /\ [ThrottleNext]_throttleVars => SpreadInv'
<1> SUFFICES ASSUME SpreadInv, [ThrottleNext]_throttleVars PROVE SpreadInv'
  OBVIOUS
<1>0. /\ BucketsInv /\ SpreadChecks /\ DoorsInv /\ tick \in Nat
      /\ \A m \in Emails : SpreadInBucket(m, m) /\ SpreadInBucket(m, Overflow)
  BY DEF SpreadInv, BucketsInv
<1>1. CASE UNCHANGED <<buckets, tick, checks>> /\ DoorsInv'
  <2>1. BucketsInv' /\ SpreadChecks'
    BY <1>0, <1>1 DEF BucketsInv, SpreadChecks, OpenedAt
  <2>2. \A m \in Emails : \A b : SpreadInBucket(m, b)' <=> SpreadInBucket(m, b)
    BY <1>1 DEF SpreadInBucket, Tried, CheckedIn, Runs, OpenedAt
  <2> QED
    BY <1>0, <1>1, <2>1, <2>2 DEF SpreadInv
<1>2. CASE PassTime
  <2>1. tick' = tick + 1 /\ UNCHANGED <<buckets, door, checks>>
    BY <1>2 DEF PassTime
  <2>2. BucketsInv' /\ DoorsInv'
    BY <1>0, <2>1, ThrottleConstants DEF BucketsInv, OpenedAt, DoorsInv
  <2>3. SpreadChecks'
    <3> SUFFICES ASSUME NEW m \in Emails, NEW i \in DOMAIN checks[m]
                 PROVE  checks[m][i].at <= tick' /\ checks[m][i].bucket \in {m, Overflow}
      BY <1>0, <2>1 DEF SpreadChecks
    <3>1. checks[m] \in Seq(Check)
      BY <1>0 DEF SpreadChecks
    <3>2. i \in Nat /\ checks[m][i] \in Check
      BY <3>1
    <3>3. checks[m][i].at \in Nat
      BY <3>2 DEF Check
    <3>4. checks[m][i].at <= tick /\ checks[m][i].bucket \in {m, Overflow}
      BY <1>0, <3>2 DEF SpreadChecks
    <3> QED
      BY <1>0, <2>1, <3>3, <3>4
  <2>4. \A m \in Emails : SpreadInBucket(m, m)' /\ SpreadInBucket(m, Overflow)'
    BY <1>0, <2>1, TimeKeepsSpread
  <2> QED
    BY <2>2, <2>3, <2>4 DEF SpreadInv
<1>3. ASSUME NEW k, buckets' = Consumed(k), tick' = tick, UNCHANGED checks, DoorsInv'
      PROVE  SpreadInv'
  <2>1. BucketsInv' /\ SpreadChecks'
    BY <1>0, <1>3, PayKeepsBuckets DEF SpreadChecks
  <2>2. \A m \in Emails : \A b, T : Tried(m, b, T)' = Tried(m, b, T)
    BY <1>3 DEF Tried, CheckedIn
  <2>3. \A m \in Emails : SpreadInBucket(m, m)' /\ SpreadInBucket(m, Overflow)'
    BY <1>0, <1>3, <2>2, PayKeepsSpread
  <2> QED
    BY <1>3, <2>1, <2>3 DEF SpreadInv
<1>4. ASSUME NEW r \in Doors, NEW c \in Clients, NEW m \in Emails, Arrive(r, c, m) PROVE SpreadInv'
  BY <1>0, <1>1, <1>4 DEF Arrive, DoorsInv
<1>5. ASSUME NEW r \in Doors, Succeed(r) PROVE SpreadInv'
  BY <1>0, <1>1, <1>5, AtRestTyped DEF Succeed, DoorsInv
<1>6. ASSUME NEW r \in Doors, Fail(r) PROVE SpreadInv'
  <2>1. buckets' = Consumed(door[r].client) /\ tick' = tick /\ UNCHANGED checks /\ DoorsInv'
    BY <1>0, <1>6, AtRestTyped DEF Fail, Pay, DoorsInv
  <2> QED
    BY <1>3, <2>1
<1>7. ASSUME NEW r \in Doors, SpendEmail(r) PROVE SpreadInv'
  <2> DEFINE m == door[r].email
  <2>1. m \in Emails /\ buckets' = Consumed(m) /\ tick' = tick /\ DoorsInv'
    BY <1>0, <1>7, AtRestTyped DEF SpendEmail, Pay, DoorsInv
  <2>2. CASE ~Granted(m)
    <3>1. UNCHANGED checks
      BY <1>7, <2>2 DEF SpendEmail
    <3> QED
      BY <1>3, <2>1, <3>1
  <2>3. CASE Granted(m)
    <3>1. PICK n, c : n \in Emails /\ n = m /\ c = Resolve(Swept, n)
      BY <2>1
    <3>2. c \in {n, Overflow}
      BY <3>1 DEF Resolve
    <3> DEFINE e == [at |-> tick, bucket |-> c]
    <3>3. /\ checks' = [checks EXCEPT ![n] = Append(checks[n], e)]
          /\ buckets' = Consumed(n) /\ Granted(n)
      BY <1>7, <2>1, <2>3, <3>1 DEF SpendEmail
    <3>4. e \in Check /\ checks \in [Emails -> Seq(Check)]
      BY <1>0, <3>1, <3>2 DEF Check, SpreadChecks
    <3>5. SpreadInBucket(n, c)'
      BY <1>0, <2>1, <3>1, <3>2, <3>3, GrantedKeepsSpread
    <3>6. ASSUME NEW o \in Emails, NEW b, b # c \/ o # n, SpreadInBucket(o, b)
          PROVE  SpreadInBucket(o, b)'
      <4>1. ASSUME NEW T PROVE Tried(o, b, T)' = Tried(o, b, T)
        <5>1. CASE o # n
          BY <3>3, <3>4, <5>1 DEF Tried, CheckedIn
        <5>2. CASE o = n
          <6>1. checks'[o] = Append(checks[o], e) /\ checks[o] \in Seq(Check)
            BY <3>3, <3>4, <5>2
          <6>2. Cardinality(CheckedIn(Append(checks[o], e), b, T)) = Cardinality(CheckedIn(checks[o], b, T)) + 0
            BY <3>4, <3>6, <5>2, <6>1, TriedOnceMore
          <6>3. Cardinality(CheckedIn(checks[o], b, T)) \in Nat
            BY <6>1, TriedIsCounted
          <6> HIDE DEF e
          <6> QED
            BY <6>1, <6>2, <6>3 DEF Tried
        <5> QED
          BY <5>1, <5>2
      <4> QED
        BY <1>0, <2>1, <3>3, <3>6, <4>1, PayKeepsSpread
    <3>7. \A o \in Emails : SpreadInBucket(o, o)' /\ SpreadInBucket(o, Overflow)'
      BY <1>0, <3>2, <3>5, <3>6
    <3>8. BucketsInv'
      BY <1>0, <2>1, <3>1, <3>3, PayKeepsBuckets
    <3>9. SpreadChecks'
      <4>1. checks' \in [Emails -> Seq(Check)]
        BY <3>1, <3>3, <3>4
      <4>2. ASSUME NEW o \in Emails, NEW i \in DOMAIN checks'[o]
            PROVE  checks'[o][i].at <= tick /\ checks'[o][i].bucket \in {o, Overflow}
        <5>1. CASE o # n
          <6>1. checks'[o] = checks[o] /\ i \in Nat
            BY <3>3, <3>4, <5>1
          <6> QED
            BY <1>0, <4>2, <6>1 DEF SpreadChecks
        <5>2. CASE o = n
          <6>1. /\ checks[n] \in Seq(Check) /\ checks'[o] = Append(checks[n], e)
                /\ i \in 1..(Len(checks[n]) + 1)
            BY <3>3, <3>4, <4>2, <5>2
          <6>2. CASE i = Len(checks[n]) + 1
            BY <1>0, <3>2, <5>2, <6>1, <6>2
          <6>3. CASE i # Len(checks[n]) + 1
            <7>1. i \in DOMAIN checks[n] /\ i \in Nat /\ checks'[o][i] = checks[n][i]
              BY <6>1, <6>3
            <7> QED
              BY <1>0, <5>2, <7>1 DEF SpreadChecks
          <6> QED
            BY <6>2, <6>3
        <5> QED
          BY <5>1, <5>2
      <4> QED
        BY <2>1, <4>1, <4>2 DEF SpreadChecks
    <3> QED
      BY <2>1, <3>7, <3>8, <3>9 DEF SpreadInv
  <2> QED
    BY <2>2, <2>3
<1>8. CASE UNCHANGED throttleVars
  BY <1>0, <1>1, <1>8 DEF throttleVars, DoorsInv
<1> QED
  BY <1>2, <1>4, <1>5, <1>6, <1>7, <1>8 DEF ThrottleNext

LEMMA SpreadGives == SpreadInv => AttemptsAreBounded
<1> SUFFICES ASSUME SpreadInv, NEW m \in Emails, NEW t \in 0..MaxTicks
             PROVE  ChecksWithin(m, t) <= (IF Crowded(m) THEN 2 ELSE 1) * (2 * Limit - 1)
  BY DEF AttemptsAreBounded
<1> DEFINE T == t..(t + Window - 1)
           s == checks[m]
           All == {i \in DOMAIN s : s[i].at \in T}
<1>1. s \in Seq(Check) /\ t \in Int
  BY DEF SpreadInv, SpreadChecks
<1>2. \A i \in DOMAIN s : s[i].bucket \in {m, Overflow}
  BY <1>1 DEF SpreadInv, SpreadChecks
<1>3. /\ Cardinality(CheckedIn(s, m, T)) <= 2 * Limit - 1
      /\ Cardinality(CheckedIn(s, Overflow, T)) <= 2 * Limit - 1
  BY <1>1 DEF SpreadInv, SpreadInBucket, Tried
<1>4. /\ IsFiniteSet(CheckedIn(s, m, T)) /\ IsFiniteSet(CheckedIn(s, Overflow, T))
      /\ Cardinality(CheckedIn(s, m, T)) \in Nat /\ Cardinality(CheckedIn(s, Overflow, T)) \in Nat
  BY <1>1, TriedIsCounted
<1>5. All = CheckedIn(s, m, T) \cup CheckedIn(s, Overflow, T)
  BY <1>2 DEF CheckedIn
<1>6. ChecksWithin(m, t) = Cardinality(All)
  BY DEF ChecksWithin
<1> HIDE DEF All, T, s
<1>7. CASE ~Crowded(m)
  <2>1. CheckedIn(s, Overflow, T) = {}
    BY <1>7 DEF Crowded, CheckedIn, s
  <2>2. Cardinality(All) = Cardinality(CheckedIn(s, m, T))
    BY <1>5, <2>1
  <2> QED
    BY <1>3, <1>4, <1>6, <1>7, <2>2, ThrottleConstants
<1>8. CASE Crowded(m)
  <2> DEFINE A == CheckedIn(s, m, T)
             B == CheckedIn(s, Overflow, T)
  <2>1. Cardinality(A \cup B) = Cardinality(A) + Cardinality(B) - Cardinality(A \cap B)
    BY <1>4, FS_Union
  <2>2. Cardinality(A \cap B) \in Nat
    BY <1>4, FS_Subset, FS_CardinalityType
  <2>3. Cardinality(All) = Cardinality(A \cup B)
    BY <1>5
  <2> HIDE DEF A, B
  <2>4. Cardinality(A) \in Nat /\ Cardinality(B) \in Nat /\ Cardinality(A) <= 2 * Limit - 1
        /\ Cardinality(B) <= 2 * Limit - 1
    BY <1>3, <1>4 DEF A, B
  <2> QED
    BY <1>6, <1>8, <2>1, <2>2, <2>3, <2>4, ThrottleConstants
<1> QED
  BY <1>7, <1>8

\* "2x the limit across that boundary", less the attempt that opened the first window: however
\* sign-ins interleave, windows end and the table overflows, no stretch of one window sees more
\* credential checks of an account, or twice as many once it was counted in the shared bucket.
THEOREM AttemptsStayBounded == ThrottleSpec => []AttemptsAreBounded
BY SpreadInit, SpreadNext, SpreadGives, PTL DEF ThrottleSpec

\* Whatever comes, the table holds counts and times under keys that were asked for.
THEOREM ThrottleTyped == ThrottleSpec => []ThrottleTypeOK
<1> DEFINE KeysInv == DOMAIN buckets \subseteq Keys \cup {Overflow}
<1>1. ThrottleInit => KeysInv
  BY DEF ThrottleInit
<1>2. SpreadInv /\ KeysInv /\ [ThrottleNext]_throttleVars => KeysInv'
  <2> SUFFICES ASSUME SpreadInv, KeysInv, [ThrottleNext]_throttleVars PROVE KeysInv'
    OBVIOUS
  <2>1. UNCHANGED buckets \/ \E k \in Keys : buckets' = Consumed(k)
    BY DEF ThrottleNext, throttleVars, PassTime, Arrive, SpendEmail, Succeed, Fail, Pay,
           SpreadInv, DoorsInv, Keys
  <2>2. ASSUME NEW k \in Keys, buckets' = Consumed(k) PROVE KeysInv'
    <3>1. Resolve(Swept, k) \in Keys \cup {Overflow} /\ DOMAIN Swept \subseteq DOMAIN buckets
      BY DEF Resolve, Swept, Restrict
    <3>2. DOMAIN buckets' = DOMAIN Swept \cup {Resolve(Swept, k)}
      BY <2>2 DEF Consumed
    <3> QED
      BY <3>1, <3>2
  <2> QED
    BY <2>1, <2>2
<1>3. SpreadInv /\ KeysInv => ThrottleTypeOK
  BY DEF SpreadInv, BucketsInv, SpreadChecks, DoorsInv, ThrottleTypeOK, Bucket
<1>4. ThrottleSpec => []SpreadInv
  BY SpreadInit, SpreadNext, PTL DEF ThrottleSpec
<1> QED
  BY <1>1, <1>2, <1>3, <1>4, PTL DEF ThrottleSpec

-------------------------------------------------------------------------------
\* One number for each record

LockInv ==
    /\ locked \subseteq Transactions
    /\ \A s, t \in locked : s = t

\* The counter as committed: what was allocated is below it, and from the seed up to it
\* everything is in use.
SequenceInv ==
    /\ sequence > 0 => seededAt > 0
    /\ \A n \in Numbers : record[n] = "allocated" => n < sequence
    /\ \A n \in Numbers : seededAt <= n /\ n < sequence => n \in Committed

\* Transaction t has taken every number from the seed up to m, m excluded, or found it taken, and
\* drew none from m on.
UsedUpTo(t, m) ==
    /\ \A n \in txn[t].drawn : n < m
    /\ \A n \in Numbers : seededAt <= n /\ n < m => Taken(t, n)

\* The counter as transaction t sees it.
TransactionInv(t) ==
    LET x == txn[t]
    IN  /\ x.pc \in {"probe", "insert"} \/ x.drawn # {} => t \in locked
        /\ t \in locked => /\ x.pc \notin {"closed", "scan", "seed"}
                           /\ x.next >= sequence /\ x.next > 0 /\ seededAt > 0
                           /\ x.pc \notin {"probe", "insert"} => UsedUpTo(t, x.next)
        /\ x.pc = "again" => RowVisible(t)
        /\ x.pc = "probe" => /\ x.claimed > 0 /\ x.claimed >= sequence
                             /\ x.candidate >= x.claimed /\ x.next = x.claimed + 1
                             /\ UsedUpTo(t, x.candidate)
        /\ x.pc = "insert" => /\ x.candidate >= sequence /\ x.next = x.candidate + 1
                              /\ UsedUpTo(t, x.candidate)
        /\ x.pc \in {"insert", "supply"} => x.candidate \in Numbers

IdTyped ==
    /\ record \in [Numbers -> {"free", "allocated", "supplied"}]
    /\ sequence \in Nat /\ seededAt \in Nat
    /\ txn \in [Transactions -> Txn]

IdInv == IdTyped /\ LockInv /\ SequenceInv /\ \A t \in Transactions : TransactionInv(t)

\* What a write to the record of t amounts to.
LEMMA TxnWritten ==
    ASSUME txn \in [Transactions -> Txn], NEW t \in Transactions, NEW x \in Txn,
           txn' = [txn EXCEPT ![t] = x]
    PROVE  /\ txn' \in [Transactions -> Txn] /\ txn'[t] = x
           /\ \A s \in Transactions \ {t} : txn'[s] = txn[s]
OBVIOUS

LEMMA ClosedTyped == Closed \in Txn
BY DEF Closed, Txn

\* A step of t that leaves the shared rows alone does not concern the others.
LEMMA OthersUntouched ==
    ASSUME IdInv, NEW t \in Transactions, NEW s \in Transactions, s # t,
           UNCHANGED <<record, sequence, seededAt>>, txn' \in [Transactions -> Txn],
           txn'[s] = txn[s], s \in locked' <=> s \in locked
    PROVE  TransactionInv(s)'
<1>1. TransactionInv(s) /\ sequence' = sequence /\ seededAt' = seededAt /\ record' = record
  BY DEF IdInv
<1>2. \A n : Taken(s, n)' <=> Taken(s, n)
  BY <1>1 DEF Taken, Own, Committed
<1>3. \A m : UsedUpTo(s, m)' <=> UsedUpTo(s, m)
  BY <1>1, <1>2 DEF UsedUpTo
<1>4. RowVisible(s)' <=> RowVisible(s)
  BY <1>1 DEF RowVisible
<1> QED
  BY <1>1, <1>3, <1>4 DEF TransactionInv

\* A step of t that leaves the shared rows alone, but for taking the lock.
LEMMA OwnStep ==
    ASSUME IdInv, NEW t \in Transactions, NEW x \in Txn, txn' = [txn EXCEPT ![t] = x],
           record' = record, sequence' = sequence, seededAt' = seededAt,
           locked' = locked \/ (locked \subseteq {t} /\ locked' = {t}),
           TransactionInv(t)'
    PROVE  IdInv'
<1>0. IdTyped /\ LockInv /\ SequenceInv
  BY DEF IdInv
<1>1. txn' \in [Transactions -> Txn] /\ txn'[t] = x /\ \A s \in Transactions \ {t} : txn'[s] = txn[s]
  BY <1>0, TxnWritten DEF IdTyped
<1>2. LockInv' /\ \A s \in Transactions \ {t} : s \in locked' <=> s \in locked
  BY <1>0 DEF LockInv
<1>3. SequenceInv' /\ IdTyped'
  BY <1>0, <1>1 DEF SequenceInv, Committed, IdTyped
<1>4. \A s \in Transactions \ {t} : TransactionInv(s)'
  BY <1>1, <1>2, OthersUntouched
<1> QED
  BY <1>2, <1>3, <1>4 DEF IdInv

LEMMA IdNext == IdInv /\ [IdentifiersNext]_identifierVars => IdInv'
<1> SUFFICES ASSUME IdInv, [IdentifiersNext]_identifierVars PROVE IdInv'
  OBVIOUS
<1> USE IdentifiersAssumption
<1>0. IdTyped /\ LockInv /\ SequenceInv /\ \A t \in Transactions : TransactionInv(t)
  BY DEF IdInv
\* What t has taken by now it has taken after the step.
<1>2. ASSUME NEW t \in Transactions, UNCHANGED <<record, seededAt>>, NEW x \in Txn, txn'[t] = x,
             Own(t) \subseteq x.drawn \cup x.supplied, NEW m, UsedUpTo(t, m), x.drawn = txn[t].drawn
      PROVE  UsedUpTo(t, m)'
  BY <1>2 DEF UsedUpTo, Taken, Own, Committed
<1>3. ASSUME NEW t \in Transactions, OpenTransaction(t) PROVE IdInv'
  <2>1. PICK x : x = [txn[t] EXCEPT !.pc = "open"]
    OBVIOUS
  <2>2. txn' = [txn EXCEPT ![t] = x] /\ UNCHANGED <<record, sequence, locked, seededAt>>
        /\ txn[t].pc = "closed"
    BY <1>3, <2>1 DEF OpenTransaction
  <2>3. x \in Txn /\ x.pc = "open" /\ x.drawn = txn[t].drawn
    BY <1>0, <2>1 DEF IdTyped, Txn
  <2>4. txn'[t] = x
    BY <1>0, <2>2, <2>3, TxnWritten DEF IdTyped
  <2>5. TransactionInv(t)'
    BY <1>0, <2>2, <2>3, <2>4 DEF TransactionInv
  <2> QED
    BY <2>2, <2>3, <2>5, OwnStep
<1>4. ASSUME NEW t \in Transactions, Claim(t) PROVE IdInv'
  <2>1. PICK c, d, x : /\ c = Current(t) /\ d = c + 1
                       /\ x = [txn[t] EXCEPT !.pc = "probe", !.claimed = c, !.candidate = c, !.next = d]
    OBVIOUS
  <2>2. /\ txn' = [txn EXCEPT ![t] = x] /\ UNCHANGED <<record, sequence, seededAt>>
        /\ locked \subseteq {t} /\ locked' = {t} /\ txn[t].pc \in {"open", "again"} /\ RowVisible(t)
    BY <1>4, <2>1 DEF Claim
  <2>3. c \in Nat /\ c > 0 /\ c >= sequence /\ UsedUpTo(t, c) /\ seededAt > 0 /\ d \in Nat
    <3>1. CASE t \in locked
      BY <1>0, <2>1, <2>2, <3>1 DEF Current, TransactionInv, IdTyped, Txn
    <3>2. CASE t \notin locked
      <4>1. c = sequence /\ sequence > 0 /\ txn[t].drawn = {}
        BY <1>0, <2>1, <2>2, <3>2 DEF Current, RowVisible, TransactionInv, IdTyped
      <4> QED
        BY <1>0, <2>1, <4>1 DEF UsedUpTo, SequenceInv, Taken, IdTyped
    <3> QED
      BY <3>1, <3>2
  <2>4. /\ x \in Txn /\ x.pc = "probe" /\ x.next = d /\ x.claimed = c
        /\ x.candidate = c /\ x.drawn = txn[t].drawn /\ x.supplied = txn[t].supplied
    <3>1. txn[t] \in Txn
      BY <1>0 DEF IdTyped
    <3> QED
      BY <2>1, <2>3, <3>1 DEF Txn
  <2>5. txn'[t] = x
    BY <1>0, <2>2, <2>4, TxnWritten DEF IdTyped
  <2>6. UsedUpTo(t, c)'
    BY <1>2, <2>2, <2>3, <2>4, <2>5 DEF Own
  <2>7. TransactionInv(t)'
    BY <2>1, <2>2, <2>3, <2>4, <2>5, <2>6, <1>0 DEF TransactionInv, IdTyped
  <2> QED
    BY <2>2, <2>4, <2>7, OwnStep
<1>5. ASSUME NEW t \in Transactions, ClaimNothing(t) PROVE IdInv'
  <2>1. PICK x : x = [txn[t] EXCEPT !.pc = "scan"]
    OBVIOUS
  <2>2. txn' = [txn EXCEPT ![t] = x] /\ UNCHANGED <<record, sequence, locked, seededAt>>
        /\ txn[t].pc = "open" /\ t \notin locked
    BY <1>5, <2>1 DEF ClaimNothing, RowVisible
  <2>3. x \in Txn /\ x.pc = "scan" /\ x.drawn = txn[t].drawn
    BY <1>0, <2>1 DEF IdTyped, Txn
  <2>4. txn'[t] = x
    BY <1>0, <2>2, <2>3, TxnWritten DEF IdTyped
  <2>5. TransactionInv(t)'
    BY <1>0, <2>2, <2>3, <2>4 DEF TransactionInv
  <2> QED
    BY <2>2, <2>3, <2>5, OwnStep
<1>6. ASSUME NEW t \in Transactions, CurrentMax(t) PROVE IdInv'
  <2>1. PICK n \in {0} \cup Committed \cup Own(t) :
           txn' = [txn EXCEPT ![t].pc = "seed", ![t].candidate = n]
    BY <1>6 DEF CurrentMax
  <2>2. PICK x : x = [txn[t] EXCEPT !.pc = "seed", !.candidate = n]
    OBVIOUS
  <2>3. txn' = [txn EXCEPT ![t] = x] /\ UNCHANGED <<record, sequence, locked, seededAt>>
        /\ txn[t].pc = "scan"
    BY <1>6, <2>1, <2>2 DEF CurrentMax
  <2>4. n \in Nat
    BY <1>0 DEF Committed, Own, Numbers, IdTyped, Txn
  <2>5. x \in Txn /\ x.pc = "seed" /\ x.drawn = txn[t].drawn
    BY <1>0, <2>2, <2>4 DEF IdTyped, Txn
  <2>6. txn'[t] = x
    BY <1>0, <2>3, <2>5, TxnWritten DEF IdTyped
  <2>7. TransactionInv(t)'
    BY <1>0, <2>3, <2>5, <2>6 DEF TransactionInv
  <2> QED
    BY <2>3, <2>5, <2>7, OwnStep
<1>7. ASSUME NEW t \in Transactions, Seed(t) PROVE IdInv'
  <2>1. CASE sequence # 0
    <3>1. PICK x : x = [txn[t] EXCEPT !.pc = "again"]
      OBVIOUS
    <3>2. txn' = [txn EXCEPT ![t] = x] /\ UNCHANGED <<record, sequence, locked, seededAt>>
          /\ txn[t].pc = "seed"
      BY <1>7, <2>1, <3>1 DEF Seed
    <3>3. x \in Txn /\ x.pc = "again" /\ x.drawn = txn[t].drawn
      BY <1>0, <3>1 DEF IdTyped, Txn
    <3>4. txn'[t] = x
      BY <1>0, <3>2, <3>3, TxnWritten DEF IdTyped
    <3>5. t \notin locked /\ sequence' > 0
      BY <1>0, <2>1, <3>2 DEF TransactionInv, IdTyped
    <3>6. TransactionInv(t)'
      BY <1>0, <3>2, <3>3, <3>4, <3>5 DEF TransactionInv, RowVisible
    <3> QED
      BY <3>2, <3>3, <3>6, OwnStep
  <2>2. CASE sequence = 0
    <3>1. PICK m, x : m = txn[t].candidate + 1 /\ x = [txn[t] EXCEPT !.pc = "again", !.next = m]
      OBVIOUS
    <3>2. /\ txn' = [txn EXCEPT ![t] = x] /\ UNCHANGED <<record, sequence>>
          /\ txn[t].pc = "seed" /\ locked = {} /\ locked' = {t} /\ seededAt' = m
      BY <1>7, <2>2, <3>1 DEF Seed
    <3>3. m \in Nat /\ m > 0
      BY <1>0, <3>1 DEF IdTyped, Txn
    <3>4. x \in Txn /\ x.pc = "again" /\ x.drawn = txn[t].drawn /\ x.next = m
      BY <1>0, <3>1, <3>3 DEF IdTyped, Txn
    <3>5. txn[t].drawn = {}
      BY <1>0, <3>2 DEF TransactionInv
    <3>6. txn'[t] = x /\ txn' \in [Transactions -> Txn]
          /\ \A s \in Transactions \ {t} : txn'[s] = txn[s]
      BY <1>0, <3>2, <3>4, TxnWritten DEF IdTyped
    <3>7. UsedUpTo(t, m)'
      BY <3>2, <3>3, <3>4, <3>5, <3>6 DEF UsedUpTo, Numbers
    <3>8. TransactionInv(t)'
      BY <2>2, <3>2, <3>3, <3>4, <3>6, <3>7 DEF TransactionInv, RowVisible
    <3>9. ASSUME NEW s \in Transactions, s # t PROVE TransactionInv(s)'
      <4>1. txn'[s] = txn[s] /\ s \notin locked /\ s \notin locked'
        BY <1>0, <3>2, <3>6, <3>9
      <4>2. /\ txn[s].pc \notin {"probe", "insert", "again"} /\ txn[s].drawn = {}
            /\ txn[s].pc = "supply" => txn[s].candidate \in Numbers
        BY <1>0, <2>2, <4>1 DEF TransactionInv, RowVisible
      <4> QED
        BY <4>1, <4>2 DEF TransactionInv
    <3>10. IdTyped' /\ LockInv'
      BY <1>0, <3>2, <3>3, <3>6 DEF IdTyped, LockInv
    <3>11. SequenceInv'
      BY <1>0, <2>2, <3>2, <3>3 DEF SequenceInv, Committed, Numbers
    <3> QED
      BY <3>8, <3>9, <3>10, <3>11 DEF IdInv
  <2> QED
    BY <2>1, <2>2
<1>8. ASSUME NEW t \in Transactions, Probe(t) PROVE IdInv'
  <2> DEFINE k == txn[t].candidate
  <2>0. /\ txn[t] \in Txn /\ txn[t].pc = "probe" /\ k \in Nat /\ k <= Top /\ TransactionInv(t)
        /\ UNCHANGED <<record, sequence, locked, seededAt>> /\ Top \in Nat
    BY <1>0, <1>8 DEF Probe, IdTyped, Txn
  <2>1. CASE Taken(t, k)
    <3>1. PICK x, d : d = k + 1 /\ x = [txn[t] EXCEPT !.candidate = d]
      OBVIOUS
    <3>2. txn' = [txn EXCEPT ![t] = x]
      BY <1>8, <2>1, <3>1 DEF Probe
    <3>3. /\ x \in Txn /\ x.pc = "probe" /\ x.drawn = txn[t].drawn /\ x.candidate = d
          /\ x.claimed = txn[t].claimed /\ x.next = txn[t].next /\ x.supplied = txn[t].supplied
          /\ x.claimed \in Nat /\ d \in Nat
      BY <2>0, <3>1 DEF Txn
    <3>4. txn'[t] = x
      BY <1>0, <3>2, <3>3, TxnWritten DEF IdTyped
    <3>5. UsedUpTo(t, d)
      BY <1>0, <2>0, <2>1, <3>1 DEF TransactionInv, UsedUpTo, IdTyped, Numbers, Txn
    <3>6. UsedUpTo(t, d)'
      BY <1>2, <2>0, <3>3, <3>4, <3>5 DEF Own
    <3>7. TransactionInv(t)'
      BY <2>0, <3>1, <3>3, <3>4, <3>6 DEF TransactionInv
    <3> QED
      BY <2>0, <3>2, <3>3, <3>7, OwnStep
  <2>2. CASE ~Taken(t, k)
    <3>1. PICK x, d : /\ d = (IF k # txn[t].claimed THEN k + 1 ELSE txn[t].next)
                      /\ x = [txn[t] EXCEPT !.pc = "insert", !.next = d]
      OBVIOUS
    <3>2. txn' = [txn EXCEPT ![t] = x]
      BY <1>8, <2>2, <3>1 DEF Probe
    <3>3. d = k + 1
      BY <2>0, <3>1 DEF TransactionInv
    <3>4. /\ x \in Txn /\ x.pc = "insert" /\ x.drawn = txn[t].drawn /\ x.candidate = k
          /\ x.next = d /\ x.supplied = txn[t].supplied
      <4>1. d \in Nat
        BY <2>0, <3>3
      <4> QED
        BY <2>0, <3>1, <4>1 DEF Txn
    <3>5. txn'[t] = x
      BY <1>0, <3>2, <3>4, TxnWritten DEF IdTyped
    <3>6. UsedUpTo(t, k)
      BY <2>0 DEF TransactionInv
    <3>7. k \in Numbers /\ k >= sequence
      BY <1>0, <2>0 DEF TransactionInv, IdTyped, Txn, Numbers
    <3>8. PICK kk : kk = k
      OBVIOUS
    <3> HIDE DEF k
    <3>9. UsedUpTo(t, kk)'
      BY <1>2, <2>0, <3>4, <3>5, <3>6, <3>8 DEF Own
    <3>10. TransactionInv(t)'
      BY <1>0, <2>0, <3>3, <3>4, <3>5, <3>7, <3>8, <3>9 DEF TransactionInv, IdTyped, Numbers
    <3> QED
      BY <2>0, <3>2, <3>4, <3>10, OwnStep
  <2> QED
    BY <2>1, <2>2
<1>9. ASSUME NEW t \in Transactions, NEW n \in Numbers, Supply(t, n) PROVE IdInv'
  <2>1. PICK x : x = [txn[t] EXCEPT !.pc = "supply", !.candidate = n]
    OBVIOUS
  <2>2. txn' = [txn EXCEPT ![t] = x] /\ UNCHANGED <<record, sequence, locked, seededAt>>
        /\ txn[t].pc = "open"
    BY <1>9, <2>1 DEF Supply
  <2>3. /\ x \in Txn /\ x.pc = "supply" /\ x.candidate = n /\ x.drawn = txn[t].drawn
        /\ x.next = txn[t].next /\ x.supplied = txn[t].supplied
    <3>1. txn[t] \in Txn /\ n \in Nat
      BY <1>0 DEF IdTyped, Numbers
    <3> QED
      BY <2>1, <3>1 DEF Txn
  <2>4. txn'[t] = x
    BY <1>0, <2>2, <2>3, TxnWritten DEF IdTyped
  <2>5. \A m : UsedUpTo(t, m) => UsedUpTo(t, m)'
    BY <1>2, <2>2, <2>3, <2>4 DEF Own
  <2>6. TransactionInv(t)'
    BY <1>0, <2>2, <2>3, <2>4, <2>5 DEF TransactionInv
  <2> QED
    BY <2>2, <2>3, <2>6, OwnStep
<1>10. ASSUME NEW t \in Transactions, Insert(t) PROVE IdInv'
  <2>0. /\ txn[t] \in Txn /\ txn[t].pc \in {"insert", "supply"} /\ TransactionInv(t)
        /\ UNCHANGED <<record, sequence, locked, seededAt>>
    BY <1>0, <1>10 DEF Insert, IdTyped
  <2>1. PICK n, D, S, x :
           /\ n = txn[t].candidate
           /\ D = (IF txn[t].pc = "insert" THEN txn[t].drawn \cup {n} ELSE txn[t].drawn)
           /\ S = (IF txn[t].pc = "supply" THEN txn[t].supplied \cup {n} ELSE txn[t].supplied)
           /\ x = [txn[t] EXCEPT !.pc = "open", !.drawn = D, !.supplied = S]
    OBVIOUS
  <2>2. txn' = [txn EXCEPT ![t] = x]
    BY <1>10, <2>0, <2>1 DEF Insert
  <2>3. n \in Numbers /\ n \in Nat /\ D \subseteq Numbers /\ S \subseteq Numbers
    BY <2>0, <2>1 DEF TransactionInv, Txn, Numbers
  <2>4. /\ x \in Txn /\ x.pc = "open" /\ x.drawn = D /\ x.supplied = S /\ x.next = txn[t].next
        /\ x.next \in Nat
    BY <2>0, <2>1, <2>3 DEF Txn
  <2>5. txn'[t] = x
    BY <1>0, <2>2, <2>4, TxnWritten DEF IdTyped
  <2>6. Own(t) \subseteq D \cup S
    BY <2>1 DEF Own
  <2>7. CASE txn[t].pc = "insert"
    <3>1. /\ t \in locked /\ n >= sequence /\ x.next = n + 1 /\ UsedUpTo(t, n)
          /\ D = txn[t].drawn \cup {n}
      BY <2>0, <2>1, <2>4, <2>7 DEF TransactionInv
    <3>2. UsedUpTo(t, x.next)'
      <4>1. \A i \in D : i < n + 1
        <5>1. \A i \in txn[t].drawn : i \in Nat /\ i < n
          BY <2>0, <3>1 DEF UsedUpTo, Txn, Numbers
        <5> QED
          BY <2>3, <3>1, <5>1
      <4>2. ASSUME NEW i \in Numbers, seededAt <= i, i < n + 1 PROVE Taken(t, i)'
        <5>1. CASE i = n
          BY <2>4, <2>5, <3>1, <5>1 DEF Taken, Own
        <5>2. CASE i # n
          <6>1. i < n
            BY <2>3, <4>2, <5>2 DEF Numbers
          <6>2. Taken(t, i)
            BY <3>1, <4>2, <6>1 DEF UsedUpTo
          <6> QED
            BY <2>0, <2>4, <2>5, <2>6, <6>2 DEF Taken, Own, Committed
        <5> QED
          BY <5>1, <5>2
      <4> QED
        BY <2>0, <2>4, <2>5, <3>1, <4>1, <4>2 DEF UsedUpTo
    <3>3. TransactionInv(t)'
      BY <2>0, <2>4, <2>5, <3>1, <3>2 DEF TransactionInv
    <3> QED
      BY <2>0, <2>2, <2>4, <3>3, OwnStep
  <2>8. CASE txn[t].pc = "supply"
    <3>1. D = txn[t].drawn
      BY <2>1, <2>8
    <3>2. \A m : UsedUpTo(t, m) => UsedUpTo(t, m)'
      BY <1>2, <2>0, <2>4, <2>5, <2>6, <3>1
    <3>3. TransactionInv(t)'
      BY <2>0, <2>4, <2>5, <2>8, <3>1, <3>2 DEF TransactionInv
    <3> QED
      BY <2>0, <2>2, <2>4, <3>3, OwnStep
  <2> QED
    BY <2>0, <2>7, <2>8
\* The end of t: nothing of it is open any more, and the others hold no lock, or t holds none.
<1>11. ASSUME NEW t \in Transactions, txn' = [txn EXCEPT ![t] = Closed], locked' = locked \ {t},
              record' \in [Numbers -> {"free", "allocated", "supplied"}],
              Committed \subseteq Committed', sequence' \in Nat, sequence' >= sequence,
              t \notin locked => sequence' = sequence,
              seededAt' = seededAt \/ (t \in locked /\ sequence = 0 /\ seededAt' = 0),
              SequenceInv'
       PROVE  IdInv'
  <2>1. txn' \in [Transactions -> Txn] /\ txn'[t] = Closed
        /\ \A s \in Transactions \ {t} : txn'[s] = txn[s]
    BY <1>0, <1>11, ClosedTyped, TxnWritten DEF IdTyped
  <2>2. IdTyped' /\ LockInv'
    BY <1>0, <1>11, <2>1 DEF IdTyped, LockInv
  <2>3. TransactionInv(t)'
    BY <1>11, <2>1 DEF TransactionInv, Closed
  <2>4. ASSUME NEW s \in Transactions, s # t PROVE TransactionInv(s)'
    <3>1. txn'[s] = txn[s] /\ (s \in locked' <=> s \in locked) /\ TransactionInv(s)
      BY <1>0, <1>11, <2>1, <2>4
    <3>2. CASE s \in locked
      <4>1. t \notin locked /\ sequence' = sequence /\ seededAt' = seededAt
        BY <1>0, <1>11, <2>4, <3>2 DEF LockInv
      <4>2. \A m : UsedUpTo(s, m) => UsedUpTo(s, m)'
        BY <1>11, <3>1, <4>1 DEF UsedUpTo, Taken, Own
      <4> QED
        BY <3>1, <3>2, <4>1, <4>2 DEF TransactionInv, RowVisible
    <3>3. CASE s \notin locked
      <4>1. RowVisible(s) => RowVisible(s)'
        BY <1>0, <1>11, <3>3 DEF RowVisible, IdTyped
      <4> QED
        BY <3>1, <3>3, <4>1 DEF TransactionInv
    <3> QED
      BY <3>2, <3>3
  <2> QED
    BY <1>11, <2>2, <2>3, <2>4 DEF IdInv
<1>12. ASSUME NEW t \in Transactions, Commit(t) PROVE IdInv'
  <2> DEFINE x == txn[t]
  <2>0. /\ x \in Txn /\ x.pc = "open" /\ TransactionInv(t) /\ seededAt' = seededAt
        /\ txn' = [txn EXCEPT ![t] = Closed] /\ locked' = locked \ {t} /\ sequence' = Current(t)
        /\ record' = [n \in Numbers |-> IF n \in x.drawn THEN "allocated"
                                        ELSE IF n \in x.supplied THEN "supplied" ELSE record[n]]
    BY <1>0, <1>12 DEF Commit, IdTyped
  <2>1. record' \in [Numbers -> {"free", "allocated", "supplied"}]
    BY <1>0, <2>0 DEF IdTyped
  <2>2. \A n \in Numbers : Taken(t, n) => n \in Committed'
    BY <1>0, <2>0 DEF Taken, Own, Committed, IdTyped
  <2>3. Committed \subseteq Committed'
    BY <2>2 DEF Taken, Committed
  <2>4. /\ sequence' \in Nat /\ sequence' >= sequence
        /\ t \notin locked => sequence' = sequence
        /\ t \in locked => sequence' = x.next /\ x.next > 0 /\ seededAt > 0 /\ UsedUpTo(t, x.next)
    BY <1>0, <2>0 DEF Current, TransactionInv, IdTyped, Txn
  <2>5. SequenceInv'
    <3>1. sequence' > 0 => seededAt' > 0
      BY <1>0, <2>0, <2>4 DEF SequenceInv
    <3>2. ASSUME NEW n \in Numbers, record'[n] = "allocated" PROVE n < sequence'
      <4>1. CASE n \in x.drawn
        <5>1. t \in locked
          BY <2>0, <4>1 DEF TransactionInv
        <5> QED
          BY <2>4, <4>1, <5>1 DEF UsedUpTo
      <4>2. CASE n \notin x.drawn
        <5>1. record[n] = "allocated"
          BY <2>0, <3>2, <4>2
        <5>2. n < sequence /\ n \in Nat /\ sequence \in Nat
          BY <1>0, <5>1 DEF SequenceInv, Numbers, IdTyped
        <5> QED
          BY <2>4, <5>2
      <4> QED
        BY <4>1, <4>2
    <3>3. ASSUME NEW n \in Numbers, seededAt' <= n, n < sequence' PROVE n \in Committed'
      <4>1. CASE t \in locked
        BY <2>0, <2>2, <2>4, <3>3, <4>1 DEF UsedUpTo
      <4>2. CASE t \notin locked
        BY <1>0, <2>0, <2>3, <2>4, <3>3, <4>2 DEF SequenceInv
      <4> QED
        BY <4>1, <4>2
    <3> QED
      BY <3>1, <3>2, <3>3 DEF SequenceInv
  <2> QED
    BY <1>11, <2>0, <2>1, <2>3, <2>4, <2>5
<1>13. ASSUME NEW t \in Transactions, Rollback(t) PROVE IdInv'
  <2>1. /\ txn' = [txn EXCEPT ![t] = Closed] /\ locked' = locked \ {t} /\ UNCHANGED <<record, sequence>>
        /\ seededAt' = seededAt \/ (t \in locked /\ sequence = 0 /\ seededAt' = 0)
    BY <1>13 DEF Rollback
  <2>2. Committed' = Committed /\ sequence' \in Nat /\ sequence' >= sequence
    BY <1>0, <2>1 DEF Committed, IdTyped
  <2>3. SequenceInv'
    <3>1. CASE seededAt' = seededAt
      BY <1>0, <2>1, <2>2, <3>1 DEF SequenceInv
    <3>2. CASE sequence = 0
      BY <1>0, <2>1, <2>2, <3>2 DEF SequenceInv, Numbers
    <3> QED
      BY <2>1, <3>1, <3>2
  <2>4. record' \in [Numbers -> {"free", "allocated", "supplied"}]
    BY <1>0, <2>1 DEF IdTyped
  <2> QED
    BY <1>11, <2>1, <2>2, <2>3, <2>4
<1>14. CASE UNCHANGED identifierVars
  BY <1>0, <1>14 DEF identifierVars, IdInv, IdTyped, LockInv, SequenceInv, TransactionInv,
       UsedUpTo, Taken, Own, Committed, RowVisible
<1> QED
  BY <1>3, <1>4, <1>5, <1>6, <1>7, <1>8, <1>9, <1>10, <1>12, <1>13, <1>14 DEF IdentifiersNext

LEMMA IdInit == IdentifiersInit => IdInv
<1> SUFFICES ASSUME IdentifiersInit PROVE IdInv
  OBVIOUS
<1>1. \A t \in Transactions : txn[t] = Closed
  BY DEF IdentifiersInit
<1>2. IdTyped /\ LockInv /\ SequenceInv
  BY ClosedTyped DEF IdentifiersInit, IdTyped, LockInv, SequenceInv, Numbers
<1>3. ASSUME NEW t \in Transactions PROVE TransactionInv(t)
  BY <1>1 DEF IdentifiersInit, TransactionInv, Closed
<1> QED
  BY <1>2, <1>3 DEF IdInv

LEMMA IdGives == IdInv => AllocatorsAreSound /\ IdentifiersTypeOK
<1> SUFFICES ASSUME IdInv PROVE AllocatorsAreSound /\ IdentifiersTypeOK
  OBVIOUS
<1>0. IdTyped /\ LockInv /\ SequenceInv /\ \A t \in Transactions : TransactionInv(t)
  BY DEF IdInv
<1>1. AllocatorsNeverCollide
  <2> SUFFICES ASSUME NEW t \in Transactions, txn[t].pc = "insert"
               PROVE  /\ record[txn[t].candidate] # "allocated"
                      /\ \A s \in Transactions \ {t} : txn[t].candidate \notin txn[s].drawn
    BY DEF AllocatorsNeverCollide
  <2>1. /\ t \in locked /\ txn[t].candidate \in Numbers /\ txn[t].candidate >= sequence
        /\ sequence \in Nat
    BY <1>0 DEF TransactionInv, IdTyped
  <2>2. \A s \in Transactions \ {t} : txn[s].drawn = {}
    BY <1>0, <2>1 DEF TransactionInv, LockInv
  <2> QED
    BY <1>0, <2>1, <2>2 DEF SequenceInv, Numbers
<1>2. SecondPassFindsRow
  BY <1>0 DEF SecondPassFindsRow, TransactionInv
<1>3. ExhaustedOnlyWhenUsedUp
  <2> SUFFICES ASSUME NEW t \in Transactions, txn[t].pc = "probe", txn[t].candidate > Top,
                      NEW n \in seededAt..Top
               PROVE  Taken(t, n)
    BY DEF ExhaustedOnlyWhenUsedUp
  <2>1. /\ UsedUpTo(t, txn[t].candidate) /\ t \in locked /\ seededAt > 0 /\ seededAt \in Nat
        /\ txn[t].candidate \in Nat /\ Top \in Nat
    BY <1>0, IdentifiersAssumption DEF TransactionInv, IdTyped, Txn
  <2>2. n \in Numbers /\ seededAt <= n /\ n < txn[t].candidate
    BY <2>1 DEF Numbers
  <2> QED
    BY <2>1, <2>2 DEF UsedUpTo
<1>4. Cardinality(locked) <= 1
  <2>1. locked = {} \/ \E t : locked = {t}
    BY <1>0 DEF LockInv
  <2>2. CASE locked = {}
    BY <2>2, FS_EmptySet
  <2>3. ASSUME NEW t, locked = {t} PROVE Cardinality(locked) <= 1
    BY <2>3, FS_Singleton
  <2> QED
    BY <2>1, <2>2, <2>3
<1> QED
  BY <1>0, <1>1, <1>2, <1>3, <1>4 DEF AllocatorsAreSound, IdentifiersTypeOK, IdTyped, LockInv

\* "The UPDATE .. RETURNING increment takes the row lock, so concurrent allocators on the same key
\* serialize": however transactions open, draw, bring their own numbers, commit and fail, no number
\* is drawn twice, the second pass finds its row, and a space is refused only when it is used up.
THEOREM AllocatorsStaySound == IdentifiersSpec => []AllocatorsAreSound
BY IdInit, IdNext, IdGives, PTL DEF IdentifiersSpec

\* A sequence's row is locked by one transaction at most, and numbers stay numbers.
THEOREM IdentifiersTyped == IdentifiersSpec => []IdentifiersTypeOK
BY IdInit, IdNext, IdGives, PTL DEF IdentifiersSpec

-------------------------------------------------------------------------------
\* No link twice

LinkKey == [req : ReqRows, case : CaseRows, bug : BugRows \cup {NoBug}]

LinksInv == linking \in [Linkers -> LinkKey \cup {NoLink}] /\ LinkedOnce

LEMMA LinksNext == LinksInv /\ [ReportsNext]_reportVars => LinksInv'
<1> SUFFICES ASSUME LinksInv, [ReportsNext]_reportVars PROVE LinksInv'
  OBVIOUS
<1>0. linking \in [Linkers -> LinkKey \cup {NoLink}] /\ LinkedOnce
  BY DEF LinksInv
<1>1. CASE UNCHANGED <<linking, links>>
  BY <1>0, <1>1 DEF LinksInv, LinkedOnce, Key
<1>2. ASSUME NEW p \in Linkers, NEW l \in LinkKey \cup {NoLink}, UNCHANGED links,
             linking' = [linking EXCEPT ![p] = l]
      PROVE  LinksInv'
  <2>1. linking' \in [Linkers -> LinkKey \cup {NoLink}]
    BY <1>0, <1>2
  <2> QED
    BY <1>0, <1>2, <2>1 DEF LinksInv, LinkedOnce, Key
<1>3. ASSUME NEW p \in Linkers, CommitLink(p) PROVE LinksInv'
  <2> DEFINE l == linking[p]
  <2>1. l # NoLink /\ Unlinked(l) /\ linking' = [linking EXCEPT ![p] = NoLink]
    BY <1>3 DEF CommitLink
  <2>2. PICK t : links' = links \cup {[req |-> l.req, case |-> l.case, bug |-> l.bug, createdAt |-> t]}
    BY <1>3 DEF CommitLink
  <2>3. l \in LinkKey
    BY <1>0, <2>1
  <2>4. linking' \in [Linkers -> LinkKey \cup {NoLink}]
    BY <1>0, <2>1
  <2> HIDE DEF l
  <2> DEFINE new == [req |-> l.req, case |-> l.case, bug |-> l.bug, createdAt |-> t]
  <2>5. Key(new) = l
    BY <2>3 DEF Key, LinkKey
  <2> HIDE DEF new
  <2>6. \A k \in links : Key(k) # Key(new)
    BY <2>1, <2>5 DEF Unlinked
  <2>7. links' = links \cup {new}
    BY <2>2 DEF new
  <2>8. \A a, b \in links' : Key(a) = Key(b) => a = b
    BY <1>0, <2>6, <2>7 DEF LinkedOnce
  <2> QED
    BY <2>4, <2>8 DEF LinksInv, LinkedOnce, Key
<1>4. ASSUME NEW p \in Linkers, NEW q \in ReqRows, NEW c \in CaseRows, NEW b \in BugRows \cup {NoBug},
             BeginLink(p, [req |-> q, case |-> c, bug |-> b])
      PROVE  LinksInv'
  <2>1. [req |-> q, case |-> c, bug |-> b] \in LinkKey
    BY DEF LinkKey
  <2> QED
    BY <1>2, <1>4, <2>1 DEF BeginLink
<1>5. ASSUME NEW p \in Linkers, RefuseLink(p) PROVE LinksInv'
  BY <1>2, <1>5 DEF RefuseLink
<1>6. CASE \E f \in Dashboard \cup Readiness : OpenReport(f)
  BY <1>1, <1>6 DEF OpenReport
<1>7. CASE \E q \in Queries : Count(q)
  BY <1>1, <1>7 DEF Count
<1>8. CASE CloseReport \/ (\E list \in Lists : OpenList(list)) \/ ReadPage \/ ReadTotal \/ TurnPage
           \/ CloseList
  BY <1>1, <1>8 DEF CloseReport, OpenList, ReadPage, ReadTotal, TurnPage, CloseList
<1>9. CASE \E x \in Records : WriteRecord(x)
  BY <1>1, <1>9 DEF WriteRecord
<1>10. CASE UNCHANGED reportVars
  BY <1>1, <1>10 DEF reportVars
<1> QED
  BY <1>3, <1>4, <1>5, <1>6, <1>7, <1>8, <1>9, <1>10 DEF ReportsNext

\* Two requests that both found no link and both insert it: the index lets one through, also when
\* neither names a defect.
THEOREM LinksAreSingle == ReportsSpec => []LinkedOnce
<1>1. ReportsInit => LinksInv
  BY DEF ReportsInit, LinksInv, LinkedOnce
<1>2. LinksInv => LinkedOnce
  BY DEF LinksInv
<1> QED
  BY <1>1, <1>2, LinksNext, PTL DEF ReportsSpec

-------------------------------------------------------------------------------
\* Figures add up

Differ(S, T) == (S \ T) \cup (T \ S)

\* What query q of figure f would count now, with the scope that was read.
TallyNow(f, scope, q) ==
    LET all == IF q = "rows" THEN Numerator(f) ELSE Denominator(f)
    IN  IF f \in Readiness THEN {x \in all : CaseOf[x] \in scope} ELSE all

Figures == Dashboard \cup Readiness

\* What was counted differs from what would be counted now by records written in the meantime only.
CountedThen(f, scope) ==
    f = figure.of /\ scope = figure.counted["scope"] =>
        \A q \in {"rows", "total"} \cap figure.answered :
            Differ(figure.counted[q], TallyNow(f, scope, q)) \subseteq figure.touched

FigureTyped ==
    figure \in [of : Figures \cup {"nothing"}, answered : SUBSET Queries,
               counted : [Queries -> SUBSET Records], touched : SUBSET Records]

IsTable == standing = [x \in Records |-> standing[x]]

FigureInv ==
    /\ IsTable
    /\ FigureTyped
    /\ figure.of = "nothing" => figure.answered = {}
    /\ figure.answered \cap {"rows", "total"} # {} /\ figure.of \in Readiness => "scope" \in figure.answered
    /\ \A f \in Figures, scope \in SUBSET Records : CountedThen(f, scope)

\* A write to one record changes what is counted of that record only.
LEMMA TallyMoves ==
    ASSUME NEW x, NEW f \in Figures, NEW scope, NEW q \in {"rows", "total"},
           \A y \in Records : y # x => standing'[y] = standing[y],
           \A y : y # x => (Linked(y)' <=> Linked(y))
    PROVE  \A y : y # x => (y \in TallyNow(f, scope, q)' <=> y \in TallyNow(f, scope, q))
<1>1. ReqRows \subseteq Records /\ CaseRows \subseteq Records /\ RunRows \subseteq Records
      /\ BugRows \subseteq Records
  BY DEF Records
<1>2. \A y : y # x => (y \in Filtered(f)' <=> y \in Filtered(f))
  <2>1. CASE f = "testCasesByLifecycleState"
    BY <1>1, <2>1 DEF Filtered
  <2>2. CASE f = "executionsByState"
    BY <1>1, <2>2 DEF Filtered
  <2>3. CASE f = "defectsByStatus"
    BY <1>1, <2>3 DEF Filtered
  <2>4. CASE f = "requirementTraceLinkage"
    BY <1>1, <2>4 DEF Filtered
  <2>5. CASE f \in {"executionFinalizedByResult", "scopedExecutionFinalizedByResult"}
    BY <1>1, <2>5 DEF Filtered
  <2>6. CASE f \in {"openDefectsBySeverity", "scopedOpenDefectsBySeverity"}
    BY <1>1, <2>6 DEF Filtered
  <2> QED
    BY <2>1, <2>2, <2>3, <2>4, <2>5, <2>6 DEF Figures, Dashboard, Readiness
<1>3. \A y : y # x => (y \in Numerator(f)' <=> y \in Numerator(f))
  BY <1>2 DEF Numerator
<1>4. \A y : y # x => (y \in Denominator(f)' <=> y \in Denominator(f))
  BY <1>2 DEF Denominator
<1> QED
  BY <1>3, <1>4 DEF TallyNow

\* A write, as the report sees it.
LEMMA WriteIsNoted ==
    ASSUME FigureInv, NEW x \in Records, Meanwhile({x}), IsTable',
           \A y \in Records : y # x => standing'[y] = standing[y],
           \A y : y # x => (Linked(y)' <=> Linked(y))
    PROVE  FigureInv'
<1>1. CASE figure.of = "nothing"
  <2>1. figure' = figure /\ figure.answered = {}
    BY <1>1 DEF Meanwhile, FigureInv
  <2>2. FigureTyped' /\ figure'.answered = {}
    BY <2>1 DEF FigureInv, FigureTyped
  <2> QED
    BY <1>1, <2>1, <2>2 DEF FigureInv, CountedThen
<1>2. CASE figure.of # "nothing"
  <2>0. FigureTyped /\ figure' = [figure EXCEPT !.touched = figure.touched \cup {x}]
    BY <1>2 DEF Meanwhile, FigureInv
  <2>1. /\ FigureTyped'
        /\ figure'.of = figure.of /\ figure'.answered = figure.answered
        /\ figure'.counted = figure.counted /\ figure'.touched = figure.touched \cup {x}
    BY <2>0 DEF FigureTyped
  <2>2. ASSUME NEW f \in Figures, NEW scope \in SUBSET Records PROVE CountedThen(f, scope)'
    <3> SUFFICES ASSUME f = figure'.of, scope = figure'.counted["scope"],
                        NEW q \in {"rows", "total"} \cap figure'.answered
                 PROVE  Differ(figure'.counted[q], TallyNow(f, scope, q)') \subseteq figure'.touched
      BY DEF CountedThen, Differ
    <3>1. Differ(figure.counted[q], TallyNow(f, scope, q)) \subseteq figure.touched
      BY <2>1 DEF FigureInv, CountedThen
    <3>2. \A y : y # x => (y \in TallyNow(f, scope, q)' <=> y \in TallyNow(f, scope, q))
      BY TallyMoves
    <3> QED
      BY <2>1, <3>1, <3>2 DEF Differ
  <2> QED
    BY <2>1, <2>2 DEF FigureInv
<1> QED
  BY <1>1, <1>2

LEMMA FigureNext == FigureInv /\ LinksInv /\ [ReportsNext]_reportVars => FigureInv'
<1> SUFFICES ASSUME FigureInv, LinksInv, [ReportsNext]_reportVars PROVE FigureInv'
  OBVIOUS
<1>0. FigureTyped /\ IsTable
  BY DEF FigureInv
<1>1. CASE UNCHANGED <<standing, links, figure>>
  <2>1. ASSUME NEW f \in Figures, NEW scope \in SUBSET Records PROVE CountedThen(f, scope)'
    <3>1. \A q : TallyNow(f, scope, q)' = TallyNow(f, scope, q)
      BY <1>1 DEF TallyNow, Numerator, Denominator, Filtered, Linked
    <3> QED
      BY <1>1, <3>1 DEF FigureInv, CountedThen, Differ
  <2> QED
    BY <1>0, <1>1, <2>1 DEF FigureInv, FigureTyped, IsTable
<1>2. ASSUME UNCHANGED standing, FigureTyped', figure'.answered = {} PROVE FigureInv'
  BY <1>0, <1>2 DEF FigureInv, CountedThen, IsTable
<1>3. CASE \E f \in Figures : OpenReport(f)
  <2>1. PICK f \in Figures : figure' = [NoFigure EXCEPT !.of = f] /\ UNCHANGED standing
    BY <1>3 DEF OpenReport
  <2>2. FigureTyped' /\ figure'.answered = {}
    BY <2>1 DEF FigureTyped, NoFigure
  <2> QED
    BY <1>2, <2>1, <2>2
<1>4. CASE CloseReport
  <2>1. figure' = NoFigure /\ UNCHANGED standing
    BY <1>4 DEF CloseReport
  <2>2. FigureTyped' /\ figure'.answered = {}
    BY <2>1 DEF FigureTyped, NoFigure
  <2> QED
    BY <1>2, <2>1, <2>2
<1>5. ASSUME NEW q \in Queries, Count(q) PROVE FigureInv'
  <2> DEFINE g == figure.of
             read == figure.counted["scope"]
             new == IF q = "scope" THEN {c \in CaseRows : standing[c] = "APPROVED"} ELSE TallyNow(g, read, q)
  <2>1. /\ UNCHANGED <<standing, links>> /\ g # "nothing" /\ q \notin figure.answered
        /\ q # "scope" /\ g \in Readiness => "scope" \in figure.answered
        /\ q = "scope" => g \in Readiness
    BY <1>5 DEF Count, Queries
  <2>2. figure' = [figure EXCEPT !.answered = figure.answered \cup {q}, !.counted[q] = new]
    BY <1>5 DEF Count, TallyNow
  <2>3. g \in Figures /\ read \in SUBSET Records
    BY <1>0, <2>1 DEF FigureTyped, Queries
  <2>4. new \subseteq Records
    BY <2>3 DEF TallyNow, Numerator, Denominator, Filtered, Records, Figures, Dashboard, Readiness
  <2> HIDE DEF new
  <2>5. /\ FigureTyped'
        /\ figure'.of = figure.of /\ figure'.answered = figure.answered \cup {q}
        /\ figure'.counted = [figure.counted EXCEPT ![q] = new] /\ figure'.touched = figure.touched
    BY <1>0, <2>2, <2>4 DEF FigureTyped
  <2>6. figure'.counted[q] = new /\ \A p \in Queries \ {q} : figure'.counted[p] = figure.counted[p]
    BY <1>0, <2>5 DEF FigureTyped
  <2>7. ASSUME NEW f \in Figures, NEW scope \in SUBSET Records PROVE CountedThen(f, scope)'
    <3> SUFFICES ASSUME f = figure'.of, scope = figure'.counted["scope"],
                        NEW p \in {"rows", "total"} \cap figure'.answered
                 PROVE  Differ(figure'.counted[p], TallyNow(f, scope, p)') \subseteq figure'.touched
      BY DEF CountedThen, Differ
    <3>1. TallyNow(f, scope, p)' = TallyNow(f, scope, p)
      BY <2>1 DEF TallyNow, Numerator, Denominator, Filtered, Linked
    <3>2. CASE p = q
      <4>1. scope = read
        BY <2>6, <3>2 DEF Queries
      <4>2. figure'.counted[p] = TallyNow(f, scope, p)
        BY <2>5, <2>6, <3>2, <4>1 DEF new
      <4> QED
        BY <3>1, <4>2 DEF Differ
    <3>3. CASE p # q
      <4>1. p \in figure.answered /\ figure'.counted[p] = figure.counted[p]
        BY <2>5, <2>6, <3>3 DEF Queries
      <4>2. CASE q = "scope"
        <5>1. FALSE
          BY <2>1, <4>1, <4>2 DEF FigureInv
        <5> QED
          BY <5>1
      <4>3. CASE q # "scope"
        <5>1. scope = read
          BY <2>6, <4>3 DEF Queries
        <5>2. Differ(figure.counted[p], TallyNow(f, scope, p)) \subseteq figure.touched
          BY <2>5, <4>1, <5>1 DEF FigureInv, CountedThen
        <5> QED
          BY <2>5, <3>1, <4>1, <5>2
      <4> QED
        BY <4>2, <4>3
    <3> QED
      BY <3>2, <3>3
  <2>8. /\ figure'.of # "nothing"
        /\ figure'.answered \cap {"rows", "total"} # {} /\ figure'.of \in Readiness
              => "scope" \in figure'.answered
    BY <2>1, <2>5 DEF FigureInv, Queries
  <2> QED
    BY <1>0, <2>1, <2>5, <2>7, <2>8 DEF FigureInv, IsTable
<1>6. ASSUME NEW x \in Records, WriteRecord(x) PROVE FigureInv'
  <2>1. PICK s \in Moves(x) : standing' = [standing EXCEPT ![x] = s]
    BY <1>6 DEF WriteRecord
  <2>2. DOMAIN standing = Records
    BY <1>0 DEF IsTable
  <2>3. IsTable' /\ \A y \in Records : y # x => standing'[y] = standing[y]
    BY <2>1, <2>2 DEF IsTable
  <2>4. Meanwhile({x}) /\ \A y : Linked(y)' <=> Linked(y)
    BY <1>6 DEF WriteRecord, Linked
  <2> QED
    BY <2>3, <2>4, WriteIsNoted
<1>7. ASSUME NEW p \in Linkers, CommitLink(p) PROVE FigureInv'
  <2> DEFINE l == linking[p]
  <2>1. l \in LinkKey
    BY <1>7 DEF LinksInv, CommitLink
  <2>2. l.req \in Records
    BY <2>1 DEF LinkKey, Records
  <2>3. PICK t : links' = links \cup {[req |-> l.req, case |-> l.case, bug |-> l.bug, createdAt |-> t]}
    BY <1>7 DEF CommitLink
  <2>4. \A y : y # l.req => (Linked(y)' <=> Linked(y))
    BY <2>3 DEF Linked
  <2>5. UNCHANGED standing /\ IsTable' /\ Meanwhile({l.req})
    BY <1>0, <1>7 DEF CommitLink, IsTable
  <2> HIDE DEF l
  <2> QED
    BY <1>0, <2>2, <2>4, <2>5, WriteIsNoted
<1>8. CASE (\E list \in Lists : OpenList(list)) \/ ReadPage \/ ReadTotal \/ TurnPage \/ CloseList
  BY <1>1, <1>8 DEF OpenList, ReadPage, ReadTotal, TurnPage, CloseList
<1>9. CASE \E p \in Linkers :
             \/ \E q \in ReqRows, c \in CaseRows, b \in BugRows \cup {NoBug} :
                   BeginLink(p, [req |-> q, case |-> c, bug |-> b])
             \/ RefuseLink(p)
  BY <1>1, <1>9 DEF BeginLink, RefuseLink
<1>10. CASE UNCHANGED reportVars
  BY <1>1, <1>10 DEF reportVars
<1> QED
  BY <1>3, <1>4, <1>5, <1>6, <1>7, <1>8, <1>9, <1>10 DEF ReportsNext, Figures

LEMMA FigureGives == FigureInv => FiguresAddUp
<1> SUFFICES ASSUME FigureInv, {"rows", "total"} \subseteq figure.answered PROVE FiguresAddUp
  BY DEF FiguresAddUp
<1>1. FigureTyped /\ figure.of # "nothing"
  BY DEF FigureInv
<1>2. PICK f \in Figures, scope \in SUBSET Records : f = figure.of /\ scope = figure.counted["scope"]
  BY <1>1 DEF FigureTyped, Queries
<1>3. \A q \in {"rows", "total"} : Differ(figure.counted[q], TallyNow(f, scope, q)) \subseteq figure.touched
  BY <1>2 DEF FigureInv, CountedThen
<1>4. CASE f = "requirementTraceLinkage"
  <2>1. /\ TallyNow(f, scope, "rows") = {r \in Filtered(f) : Linked(r)}
        /\ TallyNow(f, scope, "total") = {r \in Filtered(f) : ~Linked(r)}
        /\ Filtered(f) = {r \in ReqRows : standing[r] # "none"}
    BY <1>4 DEF TallyNow, Numerator, Denominator, Readiness, Filtered
  <2> QED
    BY <1>2, <1>3, <1>4, <2>1 DEF FiguresAddUp, Differ
<1>5. CASE f # "requirementTraceLinkage"
  <2>1. TallyNow(f, scope, "rows") = TallyNow(f, scope, "total")
    BY <1>5 DEF TallyNow, Numerator, Denominator
  <2> QED
    BY <1>2, <1>3, <1>5, <2>1 DEF FiguresAddUp, Differ
<1> QED
  BY <1>4, <1>5

LEMMA FigureInit == ReportsInit => FigureInv /\ LinksInv
<1> SUFFICES ASSUME ReportsInit PROVE FigureInv /\ LinksInv
  OBVIOUS
<1>1. IsTable /\ figure = NoFigure
  BY DEF ReportsInit, IsTable
<1>2. FigureTyped /\ figure.of = "nothing" /\ figure.answered = {}
  BY <1>1 DEF FigureTyped, NoFigure
<1>3. LinksInv
  BY DEF ReportsInit, LinksInv, LinkedOnce
<1> QED
  BY <1>1, <1>2, <1>3 DEF FigureInv, CountedThen

\* Whatever is written while a report counts, and however often, its rows and its denominator
\* differ by nothing but the records that were written.
THEOREM FiguresDoAddUp == ReportsSpec => []FiguresAddUp
BY FigureInit, LinksNext, FigureNext, FigureGives, PTL DEF ReportsSpec

-------------------------------------------------------------------------------
\* Pages miss nothing

ListItem == Link \cup ReqRows

Tied == walk.of = "rtmLinks" /\ \E l, k \in links : l # k /\ l.createdAt = k.createdAt

\* What comes before x on a list.
Ahead(list, x) == {y \in Listed(list) : ListedBefore(list, y, x)}

WalkType == [of : Lists \cup {"nothing"}, answered : SUBSET {"rows", "total"}, page : Nat \ {0},
             rows : SUBSET ListItem, total : Nat, shown : SUBSET ListItem, lasting : SUBSET ListItem,
             left : BOOLEAN, torn : BOOLEAN, over : BOOLEAN]

\* Links are created from one instant to the next.
LinksTyped ==
    /\ links \in SUBSET Link /\ IsFiniteSet(links)
    /\ \E t \in {l.createdAt : l \in links} \cup {0} : \A l \in links : t >= l.createdAt

\* What was on the list all the time and is not shown yet comes on this page or a later one.
Unbroken == ~walk.left /\ ~walk.torn /\ ~Tied

Awaited == {x \in walk.lasting : x \notin walk.shown}

WalkInv ==
    /\ walk \in WalkType
    /\ walk.of # "nothing" /\ ~walk.over => walk.lasting \subseteq Listed(walk.of)
    /\ walk.of # "nothing" /\ ~walk.over /\ Unbroken =>
          /\ \A x \in Awaited : Cardinality(Ahead(walk.of, x)) >= (walk.page - 1) * PageRows
          /\ "rows" \in walk.answered =>
                \A x \in Awaited : Cardinality(Ahead(walk.of, x)) < walk.page * PageRows => x \in walk.rows
          /\ "total" \in walk.answered => walk.total = Cardinality(Listed(walk.of))
    /\ PagesMissNothing

ListInv == LinksInv /\ LinksTyped /\ WalkInv

LEMMA ListFacts ==
    ASSUME LinksTyped, NEW list \in Lists \cup {"nothing"}
    PROVE  /\ Listed(list) \subseteq ListItem /\ IsFiniteSet(Listed(list)) /\ Cardinality(Listed(list)) \in Nat
           /\ list = "rtmLinks" => Listed(list) = links
           /\ list # "rtmLinks" => Listed(list) \subseteq ReqRows
<1>1. IsFiniteSet(ReqRows)
  BY ReportsAssumption
<1>2. Listed(list) \in SUBSET links \/ Listed(list) \in SUBSET ReqRows
  BY DEF Listed, ListedIn, Lists
<1>3. IsFiniteSet(Listed(list))
  BY <1>1, <1>2, FS_Subset DEF LinksTyped
<1>4. Listed(list) \subseteq ListItem
  BY <1>2 DEF LinksTyped, ListItem
<1>5. list = "rtmLinks" => Listed(list) = links
  BY DEF Listed, ListedIn
<1>6. list # "rtmLinks" => Listed(list) \subseteq ReqRows
  BY DEF Listed, ListedIn, Lists
<1> QED BY <1>3, <1>4, <1>5, <1>6, FS_CardinalityType

\* A list has an order, of which no two rows are equals unless two links were created at once.
LEMMA ListIsOrdered ==
    ASSUME LinksTyped, NEW list \in Lists,
           list = "rtmLinks" => ~\E l, k \in links : l # k /\ l.createdAt = k.createdAt
    PROVE  /\ \A x \in Listed(list) : ~ListedBefore(list, x, x)
           /\ \A x, y \in Listed(list) : x = y \/ ListedBefore(list, x, y) \/ ListedBefore(list, y, x)
<1>1. CASE list = "rtmLinks"
  <2>1. \A l \in links : l.createdAt \in Nat
    BY DEF LinksTyped, Link
  <2> QED BY <1>1, <2>1, ListFacts DEF ListedBefore
<1>2. CASE list # "rtmLinks"
  <2>1. \A x \in Listed(list) : x \in Nat
    BY <1>2, ListFacts, ReportsAssumption
  <2> QED BY <1>2, <2>1 DEF ListedBefore
<1> QED BY <1>1, <1>2

LEMMA AheadCounted ==
    ASSUME LinksTyped, NEW list \in Lists, NEW x
    PROVE  /\ IsFiniteSet(Ahead(list, x)) /\ Cardinality(Ahead(list, x)) \in Nat
           /\ x \in Listed(list) /\ ~ListedBefore(list, x, x) =>
                 Cardinality(Ahead(list, x)) < Cardinality(Listed(list))
<1>1. Ahead(list, x) \in SUBSET Listed(list)
  BY DEF Ahead
<1>2. IsFiniteSet(Listed(list)) /\ Cardinality(Listed(list)) \in Nat
  BY ListFacts
<1>3. /\ IsFiniteSet(Ahead(list, x)) /\ Cardinality(Ahead(list, x)) \in Nat
      /\ Cardinality(Ahead(list, x)) <= Cardinality(Listed(list))
      /\ Cardinality(Listed(list)) = Cardinality(Ahead(list, x)) => Listed(list) = Ahead(list, x)
  BY <1>1, <1>2, FS_Subset, FS_CardinalityType
<1>4. x \in Listed(list) /\ ~ListedBefore(list, x, x) => Ahead(list, x) # Listed(list)
  BY DEF Ahead
<1> QED BY <1>2, <1>3, <1>4

\* A page of a list in order holds what its place is on.
LEMMA ListPageHolds ==
    ASSUME LinksTyped, NEW list \in Lists, NEW n \in Nat \ {0}, NEW page \in Pages(list, n),
           \A x \in Listed(list) : ~ListedBefore(list, x, x),
           \A x, y \in Listed(list) : x = y \/ ListedBefore(list, x, y) \/ ListedBefore(list, y, x),
           NEW x \in Listed(list),
           Cardinality(Ahead(list, x)) >= (n - 1) * PageRows, Cardinality(Ahead(list, x)) < n * PageRows
    PROVE  x \in page
<1> DEFINE all == Listed(list)
           N == Cardinality(all)
           a == (n - 1) * PageRows
           P == Cardinality(Ahead(list, x))
           skip == LessOf(a, N)
           take == LessOf(PageRows, N - skip)
<1>1. /\ IsFiniteSet(all) /\ N \in Nat /\ a \in Nat /\ P \in Nat /\ P < N /\ P >= a
      /\ PageRows \in Nat \ {0} /\ P < a + PageRows
  <2>1. PageRows \in Nat \ {0}
    BY ReportsAssumption
  <2>2. n * PageRows = (n - 1) * PageRows + PageRows /\ (n - 1) * PageRows \in Nat
    BY <2>1
  <2> QED BY <2>1, <2>2, ListFacts, AheadCounted
<1>2. /\ page \in SUBSET all /\ Cardinality(page) = take
      /\ \E before \in SUBSET (all \ page) :
            /\ Cardinality(before) = skip
            /\ \A u \in before, y \in all \ before : ~ListedBefore(list, y, u)
            /\ \A u \in page, y \in (all \ before) \ page : ~ListedBefore(list, y, u)
  BY DEF Pages
<1>3. PICK before \in SUBSET (all \ page) :
         /\ Cardinality(before) = skip
         /\ \A u \in before, y \in all \ before : ~ListedBefore(list, y, u)
         /\ \A u \in page, y \in (all \ before) \ page : ~ListedBefore(list, y, u)
  BY <1>2
<1> HIDE DEF a, N, P, skip, take
<1>4. skip = a /\ a < N /\ take \in Nat /\ (take = PageRows \/ take = N - a)
  BY <1>1 DEF skip, take, LessOf
<1>5. x \notin before
  <2> SUFFICES ASSUME x \in before PROVE FALSE
    OBVIOUS
  <2>1. Ahead(list, x) \in SUBSET before /\ x \notin Ahead(list, x)
    BY <1>3 DEF Ahead, all
  <2>2. IsFiniteSet(before)
    BY <1>1, <1>3, FS_Subset
  <2>3. P <= skip /\ (skip = P => before = Ahead(list, x))
    BY <1>3, <2>1, <2>2, FS_Subset DEF P
  <2>4. P < skip
    BY <1>1, <1>4, <2>1, <2>3
  <2> QED BY <1>1, <1>4, <2>4
<1>6. ASSUME x \notin page PROVE FALSE
  <2>1. before \cup page \in SUBSET Ahead(list, x)
    BY <1>2, <1>3, <1>5, <1>6 DEF Ahead, all
  <2>2. IsFiniteSet(before) /\ IsFiniteSet(page) /\ before \cap page = {}
    BY <1>1, <1>2, <1>3, FS_Subset
  <2>3. Cardinality(before \cup page) = skip + take
    <3>1. Cardinality(before \cap page) = 0
      BY <2>2, FS_EmptySet
    <3>2. Cardinality(before \cup page) = Cardinality(before) + Cardinality(page) - Cardinality(before \cap page)
      BY <2>2, FS_Union
    <3> QED BY <1>1, <1>2, <1>3, <1>4, <3>1, <3>2
  <2>4. skip + take <= P
    BY <2>1, <2>3, AheadCounted, FS_Subset DEF P
  <2> QED BY <1>1, <1>4, <2>4
<1> QED BY <1>6

\* Writes: links are added, and what was read of the page under way stands, or the list is torn.
LEMMA MeanwhileKeepsWalk ==
    ASSUME LinksTyped, WalkInv, LinksTyped', links \subseteq links', NEW X, Meanwhile(X)
    PROVE  WalkInv'
<1> DEFINE now == ListedIn(walk.of, standing', links')
           old == Listed(walk.of)
<1>1. PagesMissNothing /\ walk \in WalkType /\ walk.of \in Lists \cup {"nothing"} /\ walk.over \in BOOLEAN
  BY DEF WalkInv, WalkType
<1>2. CASE walk.of = "nothing" \/ walk.over
  <2>1. walk' = walk
    BY <1>2 DEF Meanwhile
  <2>2. PagesMissNothing'
    BY <1>1, <2>1 DEF PagesMissNothing
  <2> QED BY <1>1, <1>2, <2>1, <2>2 DEF WalkInv
<1>3. CASE walk.of \in Lists /\ ~walk.over
  <2>1. walk' = [walk EXCEPT !.lasting = walk.lasting \cap now,
                             !.left = walk.left \/ ~(old \subseteq now),
                             !.torn = walk.torn \/ (walk.answered # {} /\ now # old)]
    BY <1>3 DEF Meanwhile, Lists
  <2>2. PICK left \in BOOLEAN, torn \in BOOLEAN :
           /\ left <=> walk.left \/ ~(old \subseteq now)
           /\ torn <=> walk.torn \/ (walk.answered # {} /\ now # old)
    BY Zenon
  <2>3. walk' = [walk EXCEPT !.lasting = walk.lasting \cap now, !.left = left, !.torn = torn]
    <3>1. walk.left \in BOOLEAN /\ walk.torn \in BOOLEAN
      BY <1>1 DEF WalkType
    <3>2. left = (walk.left \/ ~(old \subseteq now))
      BY <2>2, <3>1
    <3>3. torn = (walk.torn \/ (walk.answered # {} /\ now # old))
      BY <2>2, <3>1
    <3> QED BY <2>1, <3>2, <3>3
  <2>4. /\ walk' \in WalkType /\ walk'.of = walk.of /\ walk'.over = walk.over /\ walk'.page = walk.page
        /\ walk'.rows = walk.rows /\ walk'.total = walk.total /\ walk'.shown = walk.shown
        /\ walk'.answered = walk.answered
        /\ walk'.lasting = walk.lasting \cap now /\ walk'.left = left /\ walk'.torn = torn
    <3> HIDE DEF now, old
    <3> QED BY <1>1, <2>3 DEF WalkType
  <2>5. Listed(walk.of)' = now
    BY <2>4 DEF Listed
  <2>6. PagesMissNothing'
    BY <1>3, <2>4 DEF PagesMissNothing
  <2>7. ASSUME Unbroken' PROVE
          /\ \A x \in Awaited' : Cardinality(Ahead(walk.of, x)') >= (walk.page - 1) * PageRows
          /\ "rows" \in walk.answered =>
                \A x \in Awaited' : Cardinality(Ahead(walk.of, x)') < walk.page * PageRows => x \in walk.rows
          /\ "total" \in walk.answered => walk.total = Cardinality(now)
    <3>1. ~left /\ ~torn /\ ~walk.left /\ ~walk.torn /\ old \subseteq now /\ (walk.answered # {} => now = old)
      BY <2>2, <2>4, <2>7 DEF Unbroken
    <3>2. ~Tied
      BY <2>4, <2>7 DEF Unbroken, Tied
    <3>3. /\ \A x \in Awaited : Cardinality(Ahead(walk.of, x)) >= (walk.page - 1) * PageRows
          /\ "rows" \in walk.answered =>
                \A x \in Awaited : Cardinality(Ahead(walk.of, x)) < walk.page * PageRows => x \in walk.rows
          /\ "total" \in walk.answered => walk.total = Cardinality(old)
      BY <1>3, <3>1, <3>2 DEF WalkInv, Unbroken, Lists
    <3>4. Awaited' \subseteq Awaited
      BY <2>4 DEF Awaited
    <3>5. ASSUME NEW x
          PROVE  /\ Cardinality(Ahead(walk.of, x)) \in Nat /\ Cardinality(Ahead(walk.of, x)') \in Nat
                 /\ Cardinality(Ahead(walk.of, x)) <= Cardinality(Ahead(walk.of, x)')
                 /\ now = old => Ahead(walk.of, x)' = Ahead(walk.of, x)
      <4>1. Ahead(walk.of, x)' = {y \in now : ListedBefore(walk.of, y, x)}
        BY <2>4, <2>5 DEF Ahead, ListedBefore
      <4>2. Ahead(walk.of, x) = {y \in old : ListedBefore(walk.of, y, x)}
        BY DEF Ahead
      <4>3. IsFiniteSet(now)
        <5>1. now \in SUBSET links' \/ now \in SUBSET ReqRows
          BY <1>3 DEF ListedIn, Lists
        <5> QED BY <5>1, ReportsAssumption, FS_Subset DEF LinksTyped
      <4>4. Ahead(walk.of, x)' \in SUBSET now /\ Ahead(walk.of, x) \in SUBSET Ahead(walk.of, x)'
        BY <3>1, <4>1, <4>2
      <4>5. IsFiniteSet(Ahead(walk.of, x)')
        BY <4>3, <4>4, FS_Subset
      <4>6. /\ IsFiniteSet(Ahead(walk.of, x))
            /\ Cardinality(Ahead(walk.of, x)) <= Cardinality(Ahead(walk.of, x)')
        BY <4>4, <4>5, FS_Subset
      <4> QED BY <4>1, <4>2, <4>5, <4>6, FS_CardinalityType
    <3>6. (walk.page - 1) * PageRows \in Nat
      <4>1. walk.page - 1 \in Nat
        BY <1>1 DEF WalkType
      <4> QED BY <4>1, ReportsAssumption
    <3>7. \A x \in Awaited' : Cardinality(Ahead(walk.of, x)') >= (walk.page - 1) * PageRows
      BY <3>3, <3>4, <3>5, <3>6
    <3>8. walk.answered # {} => now = old
      BY <3>1
    <3> QED BY <3>3, <3>4, <3>5, <3>7, <3>8
  <2>8. walk'.lasting \subseteq Listed(walk.of)'
    BY <2>4, <2>5
  <2> QED BY <1>3, <2>4, <2>5, <2>6, <2>7, <2>8 DEF WalkInv
<1> QED BY <1>1, <1>2, <1>3

\* A link is added at its instant.
LEMMA LinkAdded ==
    ASSUME LinksInv, LinksTyped, NEW p \in Linkers, CommitLink(p)
    PROVE  LinksTyped' /\ links \subseteq links' /\ Meanwhile({linking[p].req})
<1> DEFINE l == linking[p]
           times == {other.createdAt : other \in links}
           latest == CHOOSE t \in times \cup {0} : \A s \in times : t >= s
<1>1. l \in LinkKey
  BY DEF LinksInv, CommitLink
<1>2. PICK t \in {latest, latest + 1} :
         links' = links \cup {[req |-> l.req, case |-> l.case, bug |-> l.bug, createdAt |-> t]}
  BY DEF CommitLink
<1>3. \A k \in links : k.createdAt \in Nat
  BY DEF LinksTyped, Link
<1>4. \E u \in times \cup {0} : \A s \in times : u >= s
  BY DEF LinksTyped
<1>5. latest \in times \cup {0} /\ \A s \in times : latest >= s
  BY <1>4
<1>6. latest \in Nat
  <2>1. \A u \in times \cup {0} : u \in Nat
    BY <1>3
  <2> QED BY <1>5, <2>1, Zenon
<1> HIDE DEF latest
<1>7. t \in Nat /\ t >= latest
  BY <1>2, <1>6
<1> DEFINE new == [req |-> l.req, case |-> l.case, bug |-> l.bug, createdAt |-> t]
<1>8. new \in Link /\ new.createdAt = t
  BY <1>1, <1>7 DEF Link, LinkKey
<1> HIDE DEF new
<1>9. links' = links \cup {new}
  BY <1>2 DEF new
<1>10. links' \in SUBSET Link /\ IsFiniteSet(links')
  BY <1>8, <1>9, FS_AddElement DEF LinksTyped
<1>11. \A k \in links : t >= k.createdAt
  BY <1>3, <1>5, <1>6, <1>7
<1>12. \A k \in links' : t >= k.createdAt
  BY <1>7, <1>8, <1>9, <1>11
<1>13. t \in {k.createdAt : k \in links'}
  BY <1>8, <1>9
<1> QED BY <1>9, <1>10, <1>12, <1>13 DEF LinksTyped, CommitLink

LEMMA ListNext == ListInv /\ [ReportsNext]_reportVars => ListInv'
<1> SUFFICES ASSUME ListInv, [ReportsNext]_reportVars PROVE ListInv'
  OBVIOUS
<1>0. LinksInv /\ LinksInv' /\ LinksTyped /\ WalkInv /\ walk \in WalkType
  BY LinksNext DEF ListInv, WalkInv
<1>1. ASSUME UNCHANGED <<links, standing>> PROVE LinksTyped'
  BY <1>0, <1>1 DEF LinksTyped
<1>2. ASSUME UNCHANGED <<links, standing, walk>> PROVE ListInv'
  <2>1. \A list : Listed(list)' = Listed(list)
    BY <1>2 DEF Listed, ListedIn
  <2>2. WalkInv'
    BY <1>0, <1>2, <2>1 DEF WalkInv, Unbroken, Tied, Awaited, Ahead, ListedBefore, PagesMissNothing
  <2> QED BY <1>0, <1>1, <1>2, <2>2 DEF ListInv
<1>3. ASSUME NEW list \in Lists, OpenList(list) PROVE ListInv'
  <2>1. UNCHANGED <<links, standing>>
    BY <1>3 DEF OpenList
  <2>2. /\ walk' \in WalkType /\ walk'.of = list /\ walk'.answered = {} /\ walk'.page = 1 /\ walk'.over = FALSE
        /\ walk'.lasting = Listed(list)
    <3>1. PICK all : all = Listed(list)
      OBVIOUS
    <3>2. walk' = [NoWalk EXCEPT !.of = list, !.lasting = all] /\ all \in SUBSET ListItem
      BY <1>0, <1>3, <3>1, ListFacts DEF OpenList
    <3>3. PICK old : old = NoWalk
      OBVIOUS
    <3>4. old \in WalkType /\ old.answered = {} /\ old.page = 1 /\ old.over = FALSE
      BY <3>3 DEF NoWalk, WalkType
    <3>5. walk' = [old EXCEPT !.of = list, !.lasting = all]
      BY <3>2, <3>3
    <3> QED BY <3>1, <3>2, <3>4, <3>5 DEF WalkType
  <2>3. Listed(list)' = Listed(list)
    BY <2>1 DEF Listed, ListedIn
  <2>4. \A x : Cardinality(Ahead(list, x)') >= (1 - 1) * PageRows
    <3>1. (1 - 1) * PageRows = 0
      BY ReportsAssumption
    <3>2. \A x : Ahead(list, x)' = Ahead(list, x)
      BY <2>3 DEF Ahead, ListedBefore
    <3> QED BY <1>0, <3>1, <3>2, AheadCounted
  <2>5. WalkInv'
    BY <2>2, <2>3, <2>4 DEF WalkInv, PagesMissNothing
  <2> QED BY <1>0, <1>1, <2>1, <2>5 DEF ListInv
<1>4. CASE ReadPage
  <2>1. UNCHANGED <<links, standing>> /\ walk.of \in Lists /\ ~walk.over
    BY <1>0, <1>4 DEF ReadPage, WalkType
  <2>2. PICK page \in Pages(walk.of, walk.page) :
           walk' = [walk EXCEPT !.rows = page, !.answered = walk.answered \cup {"rows"}]
    BY <1>4 DEF ReadPage
  <2>3. page \in SUBSET Listed(walk.of)
    BY DEF Pages
  <2>4. page \in SUBSET ListItem
    BY <1>0, <2>1, <2>3, ListFacts
  <2>5. /\ walk' \in WalkType /\ walk'.of = walk.of /\ walk'.over = walk.over /\ walk'.page = walk.page
        /\ walk'.rows = page /\ walk'.total = walk.total /\ walk'.shown = walk.shown
        /\ walk'.answered = walk.answered \cup {"rows"}
        /\ walk'.lasting = walk.lasting /\ walk'.left = walk.left /\ walk'.torn = walk.torn
    BY <1>0, <2>2, <2>4 DEF WalkType
  <2>6. Listed(walk.of)' = Listed(walk.of)
    BY <2>1, <2>5 DEF Listed, ListedIn
  <2>7. \A x : Ahead(walk.of, x)' = Ahead(walk.of, x)
    BY <2>5, <2>6 DEF Ahead, ListedBefore
  <2>8. Awaited' = Awaited /\ (Unbroken' <=> Unbroken)
    BY <2>1, <2>5 DEF Awaited, Unbroken, Tied
  <2>9. ASSUME Unbroken, NEW x \in Awaited, Cardinality(Ahead(walk.of, x)) < walk.page * PageRows
        PROVE  x \in page
    <3>1. x \in Listed(walk.of) /\ Cardinality(Ahead(walk.of, x)) >= (walk.page - 1) * PageRows
      BY <1>0, <2>1, <2>9 DEF WalkInv, Awaited, Lists
    <3>2. walk.page \in Nat \ {0}
      BY <1>0 DEF WalkType
    <3>3. /\ \A u \in Listed(walk.of) : ~ListedBefore(walk.of, u, u)
          /\ \A u, y \in Listed(walk.of) : u = y \/ ListedBefore(walk.of, u, y) \/ ListedBefore(walk.of, y, u)
      BY <1>0, <2>1, <2>9, ListIsOrdered DEF Unbroken, Tied
    <3> QED BY <1>0, <2>1, <2>9, <3>1, <3>2, <3>3, ListPageHolds
  <2>10. PagesMissNothing'
    BY <2>1, <2>5 DEF PagesMissNothing
  <2>11. WalkInv'
    BY <1>0, <2>1, <2>5, <2>6, <2>7, <2>8, <2>9, <2>10 DEF WalkInv, Lists
  <2> QED BY <1>0, <1>1, <2>1, <2>11 DEF ListInv
<1>5. CASE ReadTotal
  <2>1. UNCHANGED <<links, standing>> /\ walk.of \in Lists /\ ~walk.over
    BY <1>0, <1>5 DEF ReadTotal, WalkType
  <2>2. PICK n : n = Cardinality(Listed(walk.of))
    OBVIOUS
  <2>3. n \in Nat /\ walk' = [walk EXCEPT !.total = n, !.answered = walk.answered \cup {"total"}]
    BY <1>0, <1>5, <2>1, <2>2, ListFacts DEF ReadTotal
  <2>5. /\ walk' \in WalkType /\ walk'.of = walk.of /\ walk'.over = walk.over /\ walk'.page = walk.page
        /\ walk'.rows = walk.rows /\ walk'.total = n /\ walk'.shown = walk.shown
        /\ walk'.answered = walk.answered \cup {"total"}
        /\ walk'.lasting = walk.lasting /\ walk'.left = walk.left /\ walk'.torn = walk.torn
    BY <1>0, <2>3 DEF WalkType
  <2>6. Listed(walk.of)' = Listed(walk.of)
    BY <2>1, <2>5 DEF Listed, ListedIn
  <2>7. \A x : Ahead(walk.of, x)' = Ahead(walk.of, x)
    BY <2>5, <2>6 DEF Ahead, ListedBefore
  <2>8. Awaited' = Awaited /\ (Unbroken' <=> Unbroken)
    BY <2>1, <2>5 DEF Awaited, Unbroken, Tied
  <2>10. PagesMissNothing'
    BY <2>1, <2>5 DEF PagesMissNothing
  <2>11. WalkInv'
    BY <1>0, <2>1, <2>2, <2>5, <2>6, <2>7, <2>8, <2>10 DEF WalkInv, Lists
  <2> QED BY <1>0, <1>1, <2>1, <2>11 DEF ListInv
<1>6. CASE TurnPage
  <2>1. UNCHANGED <<links, standing>> /\ walk.of \in Lists /\ ~walk.over /\ walk.answered = {"rows", "total"}
    BY <1>0, <1>6 DEF TurnPage, WalkType
  <2>2. PICK last \in BOOLEAN : last = LastPage(walk.total)
    BY DEF LastPage
  <2>3. walk' = [walk EXCEPT !.shown = walk.shown \cup walk.rows, !.answered = {}, !.rows = {},
                             !.total = 0, !.over = last, !.page = IF last THEN walk.page ELSE walk.page + 1]
    BY <1>6, <2>2 DEF TurnPage
  <2>4. walk.page \in Nat \ {0} /\ walk.rows \in SUBSET ListItem /\ walk.shown \in SUBSET ListItem /\ walk.total \in Nat
    BY <1>0 DEF WalkType
  <2>5. /\ walk' \in WalkType /\ walk'.of = walk.of /\ walk'.over = last
        /\ walk'.page = (IF last THEN walk.page ELSE walk.page + 1)
        /\ walk'.shown = walk.shown \cup walk.rows /\ walk'.answered = {}
        /\ walk'.lasting = walk.lasting /\ walk'.left = walk.left /\ walk'.torn = walk.torn
    <3>1. PICK n : n = IF last THEN walk.page ELSE walk.page + 1
      OBVIOUS
    <3>2. PICK S : S = walk.shown \cup walk.rows
      OBVIOUS
    <3>3. n \in Nat \ {0} /\ S \in SUBSET ListItem
      BY <2>4, <3>1, <3>2
    <3>4. walk' = [walk EXCEPT !.shown = S, !.answered = {}, !.rows = {}, !.total = 0, !.over = last, !.page = n]
      BY <2>3, <3>1, <3>2
    <3> QED BY <1>0, <3>1, <3>2, <3>3, <3>4 DEF WalkType
  <2>6. Listed(walk.of)' = Listed(walk.of)
    BY <2>1, <2>5 DEF Listed, ListedIn
  <2>7. \A x : Ahead(walk.of, x)' = Ahead(walk.of, x)
    BY <2>5, <2>6 DEF Ahead, ListedBefore
  <2>8. Awaited' = {x \in Awaited : x \notin walk.rows} /\ (Unbroken' <=> Unbroken)
    BY <2>1, <2>5 DEF Awaited, Unbroken, Tied
  <2>9. ASSUME Unbroken
        PROVE  /\ \A x \in Awaited : Cardinality(Ahead(walk.of, x)) < walk.page * PageRows => x \in walk.rows
               /\ walk.total = Cardinality(Listed(walk.of)) /\ walk.lasting \subseteq Listed(walk.of)
    BY <1>0, <2>1, <2>9 DEF WalkInv, Lists
  <2>10. ASSUME Unbroken, NEW x \in Awaited'
         PROVE  Cardinality(Ahead(walk.of, x)) \in Nat /\ Cardinality(Ahead(walk.of, x)) >= walk.page * PageRows
    <3>1. Cardinality(Ahead(walk.of, x)) \in Nat
      BY <1>0, <2>1, AheadCounted
    <3>2. walk.page * PageRows \in Nat
      BY <2>4, ReportsAssumption
    <3> QED BY <2>8, <2>9, <2>10, <3>1, <3>2
  <2>11. ASSUME Unbroken, last PROVE Awaited' = {}
    <3> SUFFICES ASSUME NEW x \in Awaited' PROVE FALSE
      OBVIOUS
    <3>1. x \in Listed(walk.of)
      BY <2>8, <2>9, <2>11 DEF Awaited
    <3>2. ~ListedBefore(walk.of, x, x)
      BY <1>0, <2>1, <2>11, <3>1, ListIsOrdered DEF Unbroken, Tied
    <3>3. Cardinality(Ahead(walk.of, x)) < walk.total
      BY <1>0, <2>1, <2>9, <2>11, <3>1, <3>2, AheadCounted
    <3>4. walk.total <= walk.page * PageRows
      <4>1. PageRows \in Nat \ {0} /\ PageRows <= walk.page * PageRows /\ walk.page * PageRows \in Nat
        BY <2>4, ReportsAssumption
      <4>2. walk.total <= PageRows \/ walk.page * PageRows >= walk.total
        BY <2>2, <2>11 DEF LastPage
      <4>3. PICK b : b = walk.page * PageRows
        OBVIOUS
      <4> QED BY <2>4, <4>1, <4>2, <4>3
    <3>5. walk.page * PageRows \in Nat
      BY <2>4, ReportsAssumption
    <3> QED BY <2>4, <2>10, <2>11, <3>3, <3>4, <3>5
  <2>12. PagesMissNothing'
    <3> SUFFICES ASSUME last, Unbroken PROVE walk'.lasting \subseteq walk'.shown
      BY <2>1, <2>5 DEF PagesMissNothing, Unbroken, Tied
    <3> QED BY <2>11 DEF Awaited
  <2>13. ASSUME ~last, Unbroken, NEW x \in Awaited'
         PROVE  Cardinality(Ahead(walk.of, x)') >= (walk'.page - 1) * PageRows
    <3>1. (walk.page + 1) - 1 = walk.page
      BY <2>4
    <3> QED BY <2>5, <2>7, <2>10, <2>13, <3>1
  <2>14. walk.lasting \subseteq Listed(walk.of)
    BY <1>0, <2>1 DEF WalkInv, Lists
  <2>15. WalkInv'
    BY <2>5, <2>6, <2>8, <2>12, <2>13, <2>14 DEF WalkInv
  <2> QED BY <1>0, <1>1, <2>1, <2>15 DEF ListInv
<1>7. CASE CloseList
  <2>1. UNCHANGED <<links, standing>> /\ walk' = NoWalk
    BY <1>7 DEF CloseList
  <2>2. walk' \in WalkType /\ walk'.of = "nothing" /\ walk'.over = FALSE
    BY <2>1 DEF NoWalk, WalkType
  <2>3. WalkInv'
    BY <2>2 DEF WalkInv, PagesMissNothing
  <2> QED BY <1>0, <1>1, <2>1, <2>3 DEF ListInv
<1>8. ASSUME NEW x \in Records, WriteRecord(x) PROVE ListInv'
  <2>1. links' = links /\ Meanwhile({x})
    BY <1>8 DEF WriteRecord
  <2>2. LinksTyped'
    BY <1>0, <2>1 DEF LinksTyped
  <2> QED BY <1>0, <2>1, <2>2, MeanwhileKeepsWalk DEF ListInv
<1>9. ASSUME NEW p \in Linkers, CommitLink(p) PROVE ListInv'
  BY <1>0, <1>9, LinkAdded, MeanwhileKeepsWalk DEF ListInv
<1>10. CASE \/ \E f \in Dashboard \cup Readiness : OpenReport(f)
            \/ \E q \in Queries : Count(q)
            \/ CloseReport
  BY <1>2, <1>10 DEF OpenReport, Count, CloseReport
<1>11. ASSUME NEW p \in Linkers,
              \/ \E q \in ReqRows, c \in CaseRows, b \in BugRows \cup {NoBug} :
                    BeginLink(p, [req |-> q, case |-> c, bug |-> b])
              \/ RefuseLink(p)
       PROVE  ListInv'
  BY <1>2, <1>11 DEF BeginLink, RefuseLink
<1>12. CASE UNCHANGED reportVars
  BY <1>2, <1>12 DEF reportVars
<1> QED
  BY <1>3, <1>4, <1>5, <1>6, <1>7, <1>8, <1>9, <1>10, <1>11, <1>12 DEF ReportsNext

LEMMA ListInit == ReportsInit => ListInv
<1> SUFFICES ASSUME ReportsInit PROVE ListInv
  OBVIOUS
<1>1. LinksInv
  BY DEF ReportsInit, LinksInv, LinkedOnce
<1>2. LinksTyped
  BY FS_EmptySet DEF ReportsInit, LinksTyped
<1>3. walk \in WalkType /\ walk.of = "nothing" /\ walk.over = FALSE
  BY DEF ReportsInit, NoWalk, WalkType
<1> QED BY <1>1, <1>2, <1>3 DEF ListInv, WalkInv, PagesMissNothing

\* A reader who turns the pages of a list to its last one has seen whatever was on it all the time,
\* for any page size and any writes in between, unless a row left the list, it changed between the
\* two queries of one page, or two rows were created at one instant (runPaged and Pager).
THEOREM PagesDoMissNothing == ReportsSpec => []PagesMissNothing
<1>1. ListInv => PagesMissNothing
  BY DEF ListInv, WalkInv
<1> QED
  BY <1>1, ListInit, ListNext, PTL DEF ReportsSpec

Standing == {"none", "DRAFT", "IN_REVIEW", "APPROVED", "RETIRED", "PLANNED", "IN_PROGRESS",
             "FINALIZED", "OPEN", "CLOSED", "PRESENT"}

StandingInv == standing \in [Records -> Standing] /\ edits \in Nat

LEMMA StandingNext == StandingInv /\ [ReportsNext]_reportVars => StandingInv'
<1> SUFFICES ASSUME StandingInv, [ReportsNext]_reportVars PROVE StandingInv'
  OBVIOUS
<1>1. CASE UNCHANGED <<standing, edits>>
  BY <1>1 DEF StandingInv
<1>2. ASSUME NEW X, Meanwhile(X) PROVE edits' \in Nat
  BY <1>2 DEF Meanwhile, StandingInv
<1>3. ASSUME NEW x \in Records, WriteRecord(x) PROVE StandingInv'
  <2>1. PICK s \in Moves(x) : standing' = [standing EXCEPT ![x] = s]
    BY <1>3 DEF WriteRecord
  <2>2. s \in Standing
    BY <2>1 DEF Moves, Standing
  <2>3. edits' \in Nat
    BY <1>2, <1>3 DEF WriteRecord
  <2> QED
    BY <2>1, <2>2, <2>3 DEF StandingInv
<1>4. ASSUME NEW p \in Linkers, CommitLink(p) PROVE StandingInv'
  <2>1. UNCHANGED standing /\ edits' \in Nat
    BY <1>2, <1>4 DEF CommitLink
  <2> QED
    BY <2>1 DEF StandingInv
<1>5. ASSUME \/ \E f \in Dashboard \cup Readiness : OpenReport(f)
             \/ \E q \in Queries : Count(q)
             \/ CloseReport
             \/ \E list \in Lists : OpenList(list)
             \/ ReadPage \/ ReadTotal \/ TurnPage \/ CloseList
             \/ \E p \in Linkers :
                   \/ \E q \in ReqRows, c \in CaseRows, b \in BugRows \cup {NoBug} :
                         BeginLink(p, [req |-> q, case |-> c, bug |-> b])
                   \/ RefuseLink(p)
             \/ UNCHANGED reportVars
      PROVE  UNCHANGED <<standing, edits>>
  BY <1>5 DEF OpenReport, Count, CloseReport, OpenList, ReadPage, ReadTotal, TurnPage, CloseList,
              BeginLink, RefuseLink, reportVars
<1> QED
  BY <1>1, <1>3, <1>4, <1>5 DEF ReportsNext

LEMMA ReportsGive == FigureInv /\ ListInv /\ StandingInv => ReportsTypeOK
<1> SUFFICES ASSUME FigureInv, ListInv, StandingInv PROVE ReportsTypeOK
  OBVIOUS
<1>1. standing \in [Records -> Standing] /\ edits \in Nat
  BY DEF StandingInv
<1>2. links \subseteq Link /\ DOMAIN linking = Linkers
  BY DEF ListInv, LinksInv, LinksTyped
<1>3. figure \in [of : Dashboard \cup Readiness \cup {"nothing"}, answered : SUBSET Queries,
                 counted : [Queries -> SUBSET Records], touched : SUBSET Records]
  BY DEF FigureInv, FigureTyped, Figures
<1>4. /\ walk.of \in Lists \cup {"nothing"} /\ walk.answered \subseteq {"rows", "total"}
      /\ walk.page \in Nat /\ walk.total \in Nat
      /\ {walk.left, walk.torn, walk.over} \subseteq BOOLEAN
  BY DEF ListInv, WalkInv, WalkType
<1> QED
  BY <1>1, <1>2, <1>3, <1>4 DEF ReportsTypeOK, Standing

\* Whoever reports, pages and links, the figures and the lists are of their types.
THEOREM ReportsTyped == ReportsSpec => []ReportsTypeOK
<1>1. ReportsInit => StandingInv
  BY DEF ReportsInit, StandingInv, Standing
<1> QED
  BY <1>1, FigureInit, FigureNext, LinksNext, ListInit, ListNext, StandingNext, ReportsGive, PTL
     DEF ReportsSpec

-------------------------------------------------------------------------------
\* The report of an import is the record

\* The batches that an import has still to write.
LeftOf(r) ==
    IF r.pc \in {"complete", "over"} \/ (r.pc = "values" /\ r.batch = 1)
    THEN {} ELSE {b \in Batches : b >= r.batch}

Left(i) == LeftOf(import[i])

\* What people and imports created is there, and what is not yet there the workbook has a row for;
\* a case that is not there has no steps to replace.
StoreInv ==
    /\ \A k \in Kinds : creator[k] = "nobody" <=> stored[k] = "none"
    /\ \A k \in Kinds : stored[k] = "none" => k \in Rows
    /\ stored["case"] = "none" /\ "steps" \in Rows => stored["steps"] = "none"

\* A batch looks at no more than there was.
LookInv ==
    \A i \in Imports : import[i].pc = "write" =>
        \A k \in Kinds : import[i].looked.stored[k] = "none" => k \in Rows

\* What is left has no report, what is not left has one, unless the import broke off.
LeftWith(r, rows) ==
    /\ r.status = "COMPLETED" => r.pc = "over"
    /\ r.pc # "over" => \A b \in LeftOf(r) : \A k \in Sheets[b] : rows[k] = "none"
    /\ (r.pc # "over" \/ r.status = "COMPLETED") =>
          \A b \in Batches \ LeftOf(r) : \A k \in (Sheets[b] \cap Rows) \ {"bugLink"} :
             rows[k] # "none"

LeftInv == \A i \in Imports : LeftWith(import[i], report[i])

RecordInv ==
    \A i \in Imports :
        /\ \A k \in Kinds \ {"history"} : (creator[k] = i) <=> (report[i][k] = "CREATED")
        /\ i \in historyRows <=> report[i]["history"] = "CREATED"

\* Imports under way together know of each other, and so does a batch that did not see a history
\* row that came while it was deciding.
HistoryInv ==
    /\ \A i, j \in Imports : Pending(i) /\ Pending(j) => i = j \/ {i, j} \in overlapped
    /\ \A i, j \in historyRows : i = j \/ {i, j} \in overlapped
    /\ \A i \in Imports : import[i].pc = "write" =>
          \A j \in historyRows \ import[i].looked.history : i = j \/ {i, j} \in overlapped

ImportInv == ImportsTypeOK /\ StoreInv /\ LookInv /\ LeftInv /\ RecordInv /\ HistoryInv

LEMMA KindsListed ==
    /\ DOMAIN Sheets = 1..11
    /\ Kinds = {"setting", "product", "module", "feature", "requirement", "case", "steps",
                "execution", "history", "defect", "bugLink", "trace"}
<1>1. DOMAIN Sheets = 1..11
  BY DEF Sheets
<1>2. DOMAIN Sheets = {1, 2, 3, 4, 5, 6, 7, 8, 9, 10, 11}
  BY <1>1
<1>3. /\ Sheets[1] = {"setting"} /\ Sheets[2] = {"product"} /\ Sheets[3] = {"module"}
      /\ Sheets[4] = {"feature"} /\ Sheets[5] = {"requirement"} /\ Sheets[6] = {"case", "steps"}
      /\ Sheets[7] = {"execution"} /\ Sheets[8] = {"history"} /\ Sheets[9] = {"defect"}
      /\ Sheets[10] = {"bugLink"} /\ Sheets[11] = {"trace"}
  BY DEF Sheets
<1>4. Kinds = {"setting", "product", "module", "feature", "requirement", "case", "steps",
               "execution", "history", "defect", "bugLink", "trace"}
  <2>1. ASSUME NEW k PROVE k \in Kinds <=> \E b \in DOMAIN Sheets : k \in Sheets[b]
    BY Zenon DEF Kinds
  <2>2. ASSUME NEW k
        PROVE  (\E b \in DOMAIN Sheets : k \in Sheets[b]) <=>
               k \in {"setting", "product", "module", "feature", "requirement", "case", "steps",
                      "execution", "history", "defect", "bugLink", "trace"}
    BY <1>2, <1>3
  <2> QED
    BY <2>1, <2>2
<1> QED
  BY <1>1, <1>4

\* A kind has its rows in one sheet only.
LEMMA OneSheetEach ==
    /\ \A b, c \in DOMAIN Sheets : \A k \in Sheets[b] : k \in Sheets[c] => b = c
    /\ \A b \in DOMAIN Sheets : "steps" \in Sheets[b] => "case" \in Sheets[b]
    /\ \A b \in DOMAIN Sheets : Sheets[b] = {"setting"} => b = 1
    /\ Sheets[1] = {"setting"}
<1> DEFINE Home(k) ==
      CASE k = "setting" -> 1 [] k = "product" -> 2 [] k = "module" -> 3 [] k = "feature" -> 4
        [] k = "requirement" -> 5 [] k = "case" -> 6 [] k = "steps" -> 6 [] k = "execution" -> 7
        [] k = "history" -> 8 [] k = "defect" -> 9 [] k = "bugLink" -> 10 [] k = "trace" -> 11
<1>1. DOMAIN Sheets = {1, 2, 3, 4, 5, 6, 7, 8, 9, 10, 11}
  BY DEF Sheets
<1>2. /\ Sheets[1] = {"setting"} /\ Sheets[2] = {"product"} /\ Sheets[3] = {"module"}
      /\ Sheets[4] = {"feature"} /\ Sheets[5] = {"requirement"} /\ Sheets[6] = {"case", "steps"}
      /\ Sheets[7] = {"execution"} /\ Sheets[8] = {"history"} /\ Sheets[9] = {"defect"}
      /\ Sheets[10] = {"bugLink"} /\ Sheets[11] = {"trace"}
  BY DEF Sheets
<1>3. \A b \in DOMAIN Sheets : \A k \in Sheets[b] : Home(k) = b
  BY <1>1, <1>2
<1>4. \A b \in DOMAIN Sheets : "steps" \in Sheets[b] => "case" \in Sheets[b]
  BY <1>1, <1>2
<1>5. \A b \in DOMAIN Sheets : Sheets[b] = {"setting"} => b = 1
  BY <1>1, <1>2
<1> HIDE DEF Home
<1>6. \A b, c \in DOMAIN Sheets : \A k \in Sheets[b] : k \in Sheets[c] => b = c
  BY <1>3
<1> QED
  BY <1>2, <1>4, <1>5, <1>6

ImportRecord ==
    [pc     : {"idle", "look", "write", "values", "complete", "over"},
     batch  : Batches,
     looked : Looked,
     values : BOOLEAN,
     staged : BOOLEAN,
     status : {"none", "RUNNING", "COMPLETED", "FAILED"}]

\* Of the batches that come later one is the next.
LEMMA NextBatch ==
    ASSUME NEW i \in Imports, Later(i) # {}
    PROVE  LET n == CHOOSE b \in Later(i) : \A c \in Later(i) : b <= c
           IN  n \in Later(i) /\ \A c \in Later(i) : n <= c
<1> DEFINE L == Later(i)
           First(m) == m \in L /\ \A c \in L : m <= c
<1>1. L \subseteq {1, 2, 3, 4, 5, 6, 7, 8, 9, 10, 11} /\ L # {}
  BY KindsListed DEF Later, Batches
<1> HIDE DEF L
<1>2. \E m \in L : \A c \in L : m <= c
  <2>1. ASSUME NEW n \in 1..11, n \in L, \A c \in L : n <= c
        PROVE  \E m \in L : \A c \in L : m <= c
    BY <2>1
  <2>2. CASE {1, 2, 3, 4} \cap L # {}
    BY <1>1, <2>2
  <2>3. CASE {1, 2, 3, 4} \cap L = {} /\ {5, 6, 7, 8} \cap L # {}
    BY <1>1, <2>3
  <2>4. CASE {1, 2, 3, 4} \cap L = {} /\ {5, 6, 7, 8} \cap L = {}
    <3>1. L \subseteq {9, 10, 11} /\ L # {}
      BY <1>1, <2>4
    <3>2. CASE 9 \in L
      BY <2>1, <3>1, <3>2
    <3>3. CASE 9 \notin L /\ 10 \in L
      <4>1. \A c \in L : 10 <= c
        BY <3>1, <3>3
      <4> QED
        BY <2>1, <3>3, <4>1
    <3>4. CASE 9 \notin L /\ 10 \notin L
      <4>1. L = {11}
        BY <3>1, <3>4
      <4> QED
        BY <4>1
    <3> QED
      BY <3>2, <3>3, <3>4
  <2> QED
    BY <2>2, <2>3, <2>4, Zenon
<1> QED
  BY <1>2 DEF L

\* After its step a batch is the one that is no longer left.
LEMMA AdvanceStep ==
    ASSUME NEW i \in Imports, import[i] \in ImportRecord, import[i].pc = "write"
    PROVE  /\ Advance(i) \in ImportRecord
           /\ Advance(i).pc \in {"values", "look", "complete"}
           /\ Advance(i).status = import[i].status
           /\ import[i].batch \in Left(i)
           /\ LeftOf(Advance(i)) = Left(i) \ {import[i].batch}
<1> DEFINE n == CHOOSE b \in Later(i) : \A c \in Later(i) : b <= c
           was == import[i].batch
<1>1. Batches \subseteq 1..11 /\ was \in Batches
  BY KindsListed DEF ImportRecord, Batches
<1>2. Later(i) # {} => n \in Later(i) /\ \A c \in Later(i) : n <= c
  BY NextBatch
<1>3. Later(i) = {b \in Batches : b > was}
  BY DEF Later
<1>4. Blind \in Looked
  BY DEF Blind, Looked, Values
<1>5. Sheets[was] = {"setting"} <=> was = 1
  BY <1>1, OneSheetEach, KindsListed DEF Batches
<1>6. /\ Advance(i).pc = IF was = 1 THEN "values" ELSE IF Later(i) = {} THEN "complete" ELSE "look"
      /\ Advance(i).batch = IF Later(i) = {} THEN was ELSE n
      /\ Advance(i).status = import[i].status
  BY <1>5 DEF Advance, ImportRecord
<1> HIDE DEF n, was
<1>7. Left(i) = {b \in Batches : b >= was}
  BY DEF Left, LeftOf, was
<1>8. Advance(i) \in ImportRecord
  <2>1. (IF Later(i) = {} THEN was ELSE n) \in Batches
    BY <1>1, <1>2, <1>3
  <2>2. Advance(i) = [import[i] EXCEPT !.pc = Advance(i).pc, !.batch = Advance(i).batch,
                                       !.looked = Blind]
    BY DEF Advance, ImportRecord
  <2>3. Advance(i).pc \in {"values", "look", "complete"}
    BY <1>6
  <2> QED
    BY <1>4, <1>6, <2>1, <2>2, <2>3 DEF ImportRecord
<1>9. LeftOf(Advance(i)) = Left(i) \ {was}
  <2>1. CASE Later(i) = {}
    <3>1. LeftOf(Advance(i)) = {}
      BY <1>6, <2>1, Zenon DEF LeftOf
    <3>2. ASSUME NEW b \in Batches PROVE b >= was <=> b = was
      <4>0. b \in 1..11 /\ was \in 1..11 /\ b \notin {c \in Batches : c > was}
        BY <1>1, <1>3, <2>1, Zenon
      <4>1. b \in Nat /\ was \in Nat /\ ~(b > was)
        BY <4>0
      <4> QED
        BY ONLY <4>1
    <3>3. Left(i) = {was}
      BY <1>1, <1>7, <3>2, Zenon
    <3> QED
      BY <3>1, <3>3
  <2>2. CASE Later(i) # {}
    <3>1. n \in Batches /\ n > was /\ \A c \in Batches : c > was => n <= c
      BY <1>2, <1>3, <2>2
    <3>0. n # 1
      <4>1. n \in 1..11 /\ was \in 1..11 /\ n > was
        BY <1>1, <3>1, Zenon
      <4> QED
        BY ONLY <4>1
    <3>2. Advance(i).pc \in {"values", "look"} /\ Advance(i).batch = n /\ n # 1
      BY <1>6, <2>2, <3>0
    <3>3. LeftOf(Advance(i)) = {b \in Batches : b >= n}
      BY <3>2 DEF LeftOf
    <3>4. ASSUME NEW b \in Batches PROVE b >= n <=> b >= was /\ b # was
      <4>0. b \in 1..11 /\ n \in 1..11 /\ was \in 1..11
        BY <1>1, <3>1, Zenon
      <4>1. b \in Nat /\ n \in Nat /\ was \in Nat
        BY ONLY <4>0
      <4>2. n > was /\ (b > was => n <= b)
        BY <3>1
      <4> QED
        BY ONLY <4>1, <4>2
    <3> QED
      BY <1>7, <3>3, <3>4, Zenon
  <2> QED
    BY <2>1, <2>2
<1>10. was \in Left(i)
  <2>1. was \in Batches /\ was >= was
    BY <1>1
  <2> QED
    BY <1>7, <2>1, Zenon
<1>11. Advance(i).pc \in {"values", "look", "complete"} /\ Advance(i).status = import[i].status
  BY <1>6
<1> QED
  BY <1>8, <1>9, <1>10, <1>11, Zenon DEF was

LEMMA DecisionTyped ==
    ASSUME NEW i \in Imports, NEW k \in Kinds
    PROVE  Decision(i, k) \in RowOutcomes
<1>1. \A l : Compared(i, l) \in RowOutcomes
  BY DEF Compared, RowOutcomes
<1>2. \A l, fits : Decided(i, l, fits) \in RowOutcomes
  BY <1>1, Zenon DEF Decided, RowOutcomes
<1>3. ImportTestSteps(i) \in RowOutcomes
  BY DEF ImportTestSteps, RowOutcomes
<1> QED
  BY <1>1, <1>2, <1>3, KindsListed, Zenon
     DEF Decision, ImportSettings, ImportProducts, ImportModules, ImportFeatures, ImportRequirements,
         ImportTestCases, ImportExecutions, ImportExecutionHistory, ImportDefects, ResolveBugLinks,
         ImportRtmLinks

\* The steps of an import, as far as they leave its report alone.
LEMMA MovesKeepLeft ==
    ASSUME LeftInv, ImportsTypeOK, NEW i \in Imports, NEW r \in ImportRecord,
           import' = [import EXCEPT ![i] = r], report' = report,
           import[i].pc # "over", r.status = "COMPLETED" => r.pc = "over",
           LeftOf(r) = Left(i) \/ (r.pc = "over" /\ r.status # "COMPLETED")
    PROVE  LeftInv'
<1>1. import'[i] = r /\ \A j \in Imports \ {i} : import'[j] = import[j]
  BY DEF ImportsTypeOK
<1>2. ASSUME NEW j \in Imports PROVE LeftWith(import'[j], report'[j])
  <2>1. LeftWith(import[j], report[j]) /\ LeftWith(import[i], report[i])
    BY Zenon DEF LeftInv
  <2>2. CASE j = i
    <3>1. LeftWith(r, report[i])
      BY <2>1, Zenon DEF LeftWith, Left
    <3> QED
      BY <1>1, <2>2, <3>1, Zenon
  <2>3. CASE j # i
    BY <1>1, <2>1, <2>3, Zenon
  <2> QED
    BY <2>2, <2>3
<1> QED
  BY <1>2, Zenon DEF LeftInv

LEMMA ReportsKeepLeft ==
    ASSUME LeftInv, ImportsTypeOK, NEW i \in Imports, NEW s \in BOOLEAN, NEW f \in [Kinds -> RowOutcomes],
           import[i].pc = "write",
           import' = [import EXCEPT ![i] = [Advance(i) EXCEPT !.staged = s]],
           report' = [report EXCEPT ![i] = [k \in Kinds |-> IF k \in BatchRows(i) THEN f[k]
                                                            ELSE report[i][k]]]
    PROVE  LeftInv' /\ \A k \in BatchRows(i) : k \in Kinds /\ k \in Rows /\ report[i][k] = "none"
<1> DEFINE b == import[i].batch
<1>1. import[i] \in ImportRecord
  BY DEF ImportsTypeOK, ImportRecord
<1>2. PICK r : r = [Advance(i) EXCEPT !.staged = s]
  OBVIOUS
<1>3. /\ r \in ImportRecord /\ r.pc = Advance(i).pc /\ r.batch = Advance(i).batch
      /\ r.status = Advance(i).status
  BY <1>1, <1>2, AdvanceStep DEF ImportRecord
<1>4. LeftOf(r) = Left(i) \ {b} /\ b \in Left(i) /\ r.pc \in {"values", "look", "complete"}
  BY <1>1, <1>3, AdvanceStep, Zenon DEF LeftOf
<1>5. import'[i] = r /\ \A j \in Imports \ {i} : import'[j] = import[j] /\ report'[j] = report[j]
  BY <1>2 DEF ImportsTypeOK
<1>6. /\ LeftWith(import[i], report[i]) /\ b \in Batches /\ b \in DOMAIN Sheets
  BY <1>1 DEF LeftInv, ImportRecord, Batches
<1>7. \A k \in Sheets[b] : report[i][k] = "none"
  BY <1>4, <1>6, Zenon DEF LeftWith, Left
<1>8. BatchRows(i) = {k \in Sheets[b] \cap Rows : k = "bugLink" => import[i].staged}
  BY DEF BatchRows
<1>9. \A k \in Kinds : report'[i][k] = IF k \in BatchRows(i) THEN f[k] ELSE report[i][k]
  BY DEF ImportsTypeOK
<1>10. \A c \in DOMAIN Sheets : \A k \in Sheets[c] : k \in Kinds
  BY Zenon DEF Kinds
<1>11. \A k \in Kinds : f[k] # "none"
  BY DEF RowOutcomes
<1> HIDE DEF b
<1>12. LeftWith(import'[i], report'[i])
  <2>1. LeftOf(import'[i]) = Left(i) \ {b}
    BY <1>4, <1>5, Zenon
  <2>2. import'[i].status # "COMPLETED"
    <3>1. import[i].status # "COMPLETED"
      BY <1>6, Zenon DEF LeftWith
    <3>2. r.status # "COMPLETED"
      BY <1>1, <1>3, <3>1, AdvanceStep, Zenon
    <3> QED
      BY <1>5, <3>2
  <2>3. ASSUME NEW c \in Left(i) \ {b}, NEW k \in Sheets[c]
        PROVE  report'[i][k] = "none"
    <3>1. c \in DOMAIN Sheets
      BY Zenon DEF Left, LeftOf, Batches
    <3>2. k \notin Sheets[b]
      BY <1>6, <2>3, <3>1, OneSheetEach, Zenon
    <3> QED
      BY <1>6, <1>8, <1>9, <1>10, <2>3, <3>1, <3>2, Zenon DEF LeftWith, Left
  <2>4. ASSUME NEW c \in Batches \ (Left(i) \ {b}), NEW k \in (Sheets[c] \cap Rows) \ {"bugLink"}
        PROVE  report'[i][k] # "none"
    <3>1. c \in DOMAIN Sheets /\ k \in Kinds
      BY <1>10, Zenon DEF Batches
    <3>2. CASE c = b
      BY <1>8, <1>9, <1>11, <3>1, <3>2, Zenon
    <3>3. CASE c # b
      <4>1. report[i][k] # "none"
        BY <1>6, <3>3, Zenon DEF LeftWith, Left
      <4> QED
        BY <1>9, <1>11, <3>1, <4>1, Zenon
    <3> QED
      BY <3>2, <3>3
  <2> QED
    BY <2>1, <2>2, <2>3, <2>4, Zenon DEF LeftWith
<1>13. ASSUME NEW j \in Imports, j # i PROVE LeftWith(import'[j], report'[j])
  <2>1. import'[j] = import[j] /\ report'[j] = report[j]
    BY <1>5, <1>13, Zenon
  <2>2. LeftWith(import[j], report[j])
    BY Zenon DEF LeftInv
  <2> QED
    BY <2>1, <2>2, Zenon
<1>14. LeftInv'
  BY <1>12, <1>13, Zenon DEF LeftInv
<1> QED
  BY <1>6, <1>7, <1>8, <1>10, <1>14, Zenon

\* What no import writes while it only moves on.
Unmoved == <<stored, creator, historyRows, approved, testerActive, report, resolution, resolver, hands,
             contested>>

LEMMA MovesKeep ==
    ASSUME ImportInv, NEW i \in Imports, NEW r \in ImportRecord,
           import' = [import EXCEPT ![i] = r], UNCHANGED Unmoved,
           overlapped' \in SUBSET SUBSET Imports, overlapped \subseteq overlapped',
           import[i].pc # "over", r.status = "COMPLETED" => r.pc = "over",
           LeftOf(r) = Left(i) \/ (r.pc = "over" /\ r.status # "COMPLETED"),
           r.pc \notin {"idle", "over"} =>
              \A j \in Imports : Pending(j) => i = j \/ {i, j} \in overlapped',
           r.pc = "write" => r.looked.stored = stored /\ r.looked.history = historyRows
    PROVE  ImportInv'
<1>1. import'[i] = r /\ \A j \in Imports \ {i} : import'[j] = import[j]
  BY DEF ImportInv, ImportsTypeOK
<1>2. import' \in [Imports -> ImportRecord]
  BY DEF ImportInv, ImportsTypeOK, ImportRecord
<1>3. ImportsTypeOK'
  BY <1>2 DEF ImportInv, ImportsTypeOK, ImportRecord, Unmoved
<1>4. StoreInv'
  BY DEF ImportInv, StoreInv, Unmoved
<1>5. LookInv'
  <2>1. ASSUME NEW j \in Imports, import'[j].pc = "write", NEW k \in Kinds,
               import'[j].looked.stored[k] = "none"
        PROVE  k \in Rows
    <3>1. CASE j = i
      <4>1. r.looked.stored = stored /\ r.looked.stored[k] = "none"
        BY <1>1, <2>1, <3>1, Zenon
      <4>2. stored[k] = "none"
        BY <4>1
      <4> QED
        BY <4>2, Zenon DEF ImportInv, StoreInv
    <3>2. CASE j # i
      BY <1>1, <2>1, <3>2, Zenon DEF ImportInv, LookInv
    <3> QED
      BY <3>1, <3>2
  <2> QED
    BY <2>1, Zenon DEF LookInv
<1>6. LeftInv'
  BY MovesKeepLeft DEF ImportInv, Unmoved
<1>7. RecordInv'
  BY DEF ImportInv, RecordInv, Unmoved
<1>8. HistoryInv'
  <2>1. \A j \in Imports : j # i => (Pending(j)' <=> Pending(j))
    BY <1>1, Zenon DEF Pending
  <2>2. Pending(i)' <=> r.pc \notin {"idle", "over"}
    BY <1>1, Zenon DEF Pending
  <2>3. ASSUME NEW j \in Imports, NEW k \in Imports, Pending(j)', Pending(k)'
        PROVE  j = k \/ {j, k} \in overlapped'
    <3>1. CASE j = i
      BY <2>1, <2>2, <2>3, <3>1
    <3>2. CASE k = i
      <4>1. {j, k} = {k, j}
        OBVIOUS
      <4> QED
        BY <2>1, <2>2, <2>3, <3>2, <4>1
    <3>3. CASE j # i /\ k # i
      BY <2>1, <2>3, <3>3, Zenon DEF ImportInv, HistoryInv
    <3> QED
      BY <3>1, <3>2, <3>3
  <2>4. historyRows' = historyRows
    BY DEF Unmoved
  <2>5. \A j, k \in historyRows : j = k \/ {j, k} \in overlapped'
    BY Zenon DEF ImportInv, HistoryInv
  <2>6. ASSUME NEW j \in Imports, import'[j].pc = "write",
               NEW k \in historyRows \ import'[j].looked.history
        PROVE  j = k \/ {j, k} \in overlapped'
    <3>1. CASE j = i
      BY <1>1, <2>6, <3>1, Zenon
    <3>2. CASE j # i
      BY <1>1, <2>6, <3>2, Zenon DEF ImportInv, HistoryInv
    <3> QED
      BY <3>1, <3>2
  <2> QED
    BY <2>3, <2>4, <2>5, <2>6, Zenon DEF HistoryInv
<1> QED
  BY <1>3, <1>4, <1>5, <1>6, <1>7, <1>8 DEF ImportInv

LEMMA StepsMove ==
    ASSUME ImportInv, NEW i \in Imports,
           StartImport(i) \/ LookUp(i) \/ LoadValues(i) \/ BreakOff(i) \/ CompleteImport(i)
    PROVE  ImportInv'
<1>1. import[i] \in ImportRecord /\ import \in [Imports -> ImportRecord]
  BY DEF ImportInv, ImportsTypeOK, ImportRecord
<1>2. LeftWith(import[i], report[i])
  BY Zenon DEF ImportInv, LeftInv
<1>3. overlapped \in SUBSET SUBSET Imports
  BY DEF ImportInv, ImportsTypeOK
<1>4. Pending(i) => \A j \in Imports : Pending(j) => i = j \/ {i, j} \in overlapped
  BY Zenon DEF ImportInv, HistoryInv
<1>5. Blind \in Looked
  BY DEF Blind, Looked, Values
<1>6. CASE StartImport(i)
  <2>1. PICK r : r = [import[i] EXCEPT !.pc = "look", !.status = "RUNNING"]
    OBVIOUS
  <2>2. r \in ImportRecord /\ r.pc = "look" /\ r.status = "RUNNING" /\ r.batch = import[i].batch
    BY <1>1, <2>1 DEF ImportRecord
  <2>3. import' = [import EXCEPT ![i] = r] /\ import[i].pc = "idle"
    BY <1>1, <1>6, <2>1 DEF StartImport, ImportRecord
  <2>4. LeftOf(r) = Left(i)
    BY <2>2, <2>3 DEF Left, LeftOf
  <2>5. /\ overlapped' = overlapped \cup {{i, j} : j \in {j \in Imports : Pending(j)}}
        /\ UNCHANGED Unmoved
    BY <1>6 DEF StartImport, Unmoved
  <2>6. \A j \in Imports : Pending(j) => {i, j} \in overlapped'
    BY <2>5, Zenon
  <2>7. overlapped \subseteq overlapped' /\ overlapped' \in SUBSET SUBSET Imports
    BY <1>3, <2>5
  <2> QED
    BY <2>2, <2>3, <2>4, <2>5, <2>6, <2>7, MovesKeep
<1>7. CASE LookUp(i)
  <2>1. PICK r : r = [import[i] EXCEPT !.pc = "write",
                        !.looked = [stored |-> stored, history |-> historyRows,
                                    approved |-> approved, testerActive |-> testerActive]]
    OBVIOUS
  <2>2. [stored |-> stored, history |-> historyRows, approved |-> approved,
         testerActive |-> testerActive] \in Looked
    BY DEF ImportInv, ImportsTypeOK, Looked
  <2>3. /\ r \in ImportRecord /\ r.pc = "write" /\ r.status = import[i].status
        /\ r.batch = import[i].batch /\ r.looked.stored = stored /\ r.looked.history = historyRows
    BY <1>1, <2>1, <2>2 DEF ImportRecord
  <2>4. import' = [import EXCEPT ![i] = r] /\ import[i].pc = "look"
    BY <1>1, <1>7, <2>1 DEF LookUp, ImportRecord
  <2>5. LeftOf(r) = Left(i)
    BY <2>3, <2>4 DEF Left, LeftOf
  <2>6. overlapped' = overlapped /\ UNCHANGED Unmoved
    BY <1>7 DEF LookUp, Unmoved
  <2>7. Pending(i)
    BY <2>4 DEF Pending
  <2>8. r.status # "COMPLETED"
    BY <1>2, <2>3, <2>4, Zenon DEF LeftWith
  <2> QED
    BY <1>3, <1>4, <2>3, <2>4, <2>5, <2>6, <2>7, <2>8, MovesKeep
<1>8. CASE LoadValues(i)
  <2>1. PICK r : r = [import[i] EXCEPT !.pc = IF import[i].batch = 1 THEN "complete" ELSE "look",
                                       !.values = stored["setting"] = "source"]
    OBVIOUS
  <2>2. /\ r \in ImportRecord /\ r.status = import[i].status /\ r.batch = import[i].batch
        /\ r.pc = IF import[i].batch = 1 THEN "complete" ELSE "look"
    BY <1>1, <2>1 DEF ImportRecord
  <2>3. import' = [import EXCEPT ![i] = r] /\ import[i].pc = "values"
    BY <1>1, <1>8, <2>1 DEF LoadValues, ImportRecord
  <2>4. LeftOf(r) = Left(i)
    BY <2>2, <2>3 DEF Left, LeftOf
  <2>5. overlapped' = overlapped /\ UNCHANGED Unmoved
    BY <1>8 DEF LoadValues, Unmoved
  <2>6. Pending(i)
    BY <2>3 DEF Pending
  <2>7. r.status # "COMPLETED"
    BY <1>2, <2>2, <2>3, Zenon DEF LeftWith
  <2>8. r.pc # "write"
    BY <2>2
  <2> QED
    BY <1>3, <1>4, <2>2, <2>3, <2>4, <2>5, <2>6, <2>7, <2>8, MovesKeep
<1>9. CASE BreakOff(i)
  <2>1. PICK status \in {"RUNNING", "FAILED"} :
           import' = [import EXCEPT ![i].pc = "over", ![i].status = status, ![i].looked = Blind]
    BY <1>9 DEF BreakOff
  <2>2. PICK r : r = [import[i] EXCEPT !.pc = "over", !.status = status, !.looked = Blind]
    OBVIOUS
  <2>3. r \in ImportRecord /\ r.pc = "over" /\ r.status = status
    BY <1>1, <1>5, <2>2 DEF ImportRecord
  <2>4. import' = [import EXCEPT ![i] = r]
    BY <1>1, <2>1, <2>2 DEF ImportRecord
  <2>5. overlapped' = overlapped /\ UNCHANGED Unmoved /\ import[i].pc # "over"
    BY <1>9 DEF BreakOff, Unmoved, Pending
  <2> QED
    BY <1>3, <2>3, <2>4, <2>5, MovesKeep
<1>10. CASE CompleteImport(i)
  <2>1. PICK r : r = [import[i] EXCEPT !.pc = "over", !.status = "COMPLETED"]
    OBVIOUS
  <2>2. r \in ImportRecord /\ r.pc = "over" /\ r.status = "COMPLETED"
    BY <1>1, <2>1 DEF ImportRecord
  <2>3. import' = [import EXCEPT ![i] = r] /\ import[i].pc = "complete"
    BY <1>1, <1>10, <2>1 DEF CompleteImport, ImportRecord
  <2>4. LeftOf(r) = Left(i)
    BY <2>2, <2>3 DEF Left, LeftOf
  <2>5. overlapped' = overlapped /\ UNCHANGED Unmoved
    BY <1>10 DEF CompleteImport, Unmoved
  <2> QED
    BY <1>3, <2>2, <2>3, <2>4, <2>5, MovesKeep
<1> QED
  BY <1>6, <1>7, <1>8, <1>9, <1>10

\* What a batch creates was not there: the indexes see to that, and for the steps of a case, which
\* have none, the index of the case they are written with.
LEMMA CreatedIsNew ==
    ASSUME ImportInv, NEW i \in Imports, WriteBatch(i), NEW k \in ToCreate(i) \ {"history"}
    PROVE  stored[k] = "none"
<1>1. /\ import[i].pc = "write" /\ import[i].batch \in Batches
      /\ \A c \in ToCreate(i) \ {"history", "steps"} : stored[c] = "none"
  BY DEF ImportInv, ImportsTypeOK, WriteBatch, Vacant
<1>2. CASE k # "steps"
  BY <1>1, <1>2
<1>3. CASE k = "steps"
  <2>1. "steps" \in BatchRows(i) /\ Decision(i, "steps") = "CREATED"
    BY <1>3 DEF ToCreate
  <2>2. Decision(i, "steps") = ImportTestSteps(i) /\ Decision(i, "case") = ImportTestCases(i)
    BY DEF Decision
  <2>3. ImportTestCases(i) = "CREATED"
    BY <2>1, <2>2 DEF ImportTestSteps
  <2>4. import[i].looked.stored["case"] = "none"
    BY <2>3 DEF ImportTestCases, Decided, Compared
  <2>5. "case" \in Rows
    BY <1>1, <2>4, KindsListed DEF ImportInv, LookInv
  <2>6. "case" \in Sheets[import[i].batch] /\ "steps" \in Rows
    BY <1>1, <2>1, OneSheetEach DEF BatchRows, Batches
  <2>7. "case" \in ToCreate(i)
    BY <2>2, <2>3, <2>5, <2>6 DEF BatchRows, ToCreate
  <2>8. stored["case"] = "none"
    BY <1>1, <2>7
  <2> QED
    BY <1>3, <2>6, <2>8 DEF ImportInv, StoreInv
<1> QED
  BY <1>2, <1>3

LEMMA ImportWriteKeeps ==
    ASSUME ImportInv, NEW i \in Imports, WriteBatch(i)
    PROVE  ImportInv'
<1> DEFINE N == ToCreate(i)
           s == import[i].staged \/ (/\ "execution" \in BatchRows(i)
                                     /\ Decision(i, "execution") \in {"CREATED", "SKIPPED_UNCHANGED"})
           f == [k \in Kinds |-> Decision(i, k)]
<1>1. import[i] \in ImportRecord /\ import \in [Imports -> ImportRecord] /\ import[i].pc = "write"
  BY DEF ImportInv, ImportsTypeOK, ImportRecord, WriteBatch
<1>2. s \in BOOLEAN /\ f \in [Kinds -> RowOutcomes]
  <2>1. s \in BOOLEAN
    BY <1>1 DEF ImportRecord
  <2>2. f \in [Kinds -> RowOutcomes]
    BY DecisionTyped, Zenon
  <2> QED
    BY <2>1, <2>2
<1>3. BatchRows(i) \subseteq Kinds
  BY <1>1, Zenon DEF BatchRows, Kinds, ImportRecord, Batches
<1>4. report' = [report EXCEPT ![i] = [k \in Kinds |-> IF k \in BatchRows(i) THEN f[k]
                                                       ELSE report[i][k]]]
  <2>1. [k \in Kinds |-> IF k \in BatchRows(i) THEN f[k] ELSE report[i][k]]
        = [k \in Kinds |-> IF k \in BatchRows(i) THEN Decision(i, k) ELSE report[i][k]]
    BY Zenon
  <2> QED
    BY <2>1, Zenon DEF WriteBatch
<1>5. import' = [import EXCEPT ![i] = [Advance(i) EXCEPT !.staged = s]]
  BY Zenon DEF WriteBatch
<1>6. /\ N = {k \in BatchRows(i) : Decision(i, k) = "CREATED"}
      /\ \A k \in N : k \in Kinds /\ k \in BatchRows(i)
  BY <1>3 DEF ToCreate
<1>7. /\ Vacant(N)
      /\ stored' = [k \in Kinds |-> IF k \in N \ {"history"} THEN "source" ELSE stored[k]]
      /\ creator' = [k \in Kinds |-> IF k \in N \ {"history"} THEN i ELSE creator[k]]
      /\ historyRows' = IF "history" \in N THEN historyRows \cup {i} ELSE historyRows
      /\ approved' = (approved \/ "case" \in N)
      /\ UNCHANGED <<testerActive, resolution, resolver, hands, overlapped, contested>>
  BY DEF WriteBatch
<1> HIDE DEF N, s
<1>8. LeftInv' /\ \A k \in BatchRows(i) : k \in Kinds /\ k \in Rows /\ report[i][k] = "none"
  <2> HIDE DEF f
  <2> QED
    BY <1>1, <1>2, <1>4, <1>5, ReportsKeepLeft DEF ImportInv
<1>9. PICK r : r = [Advance(i) EXCEPT !.staged = s]
  OBVIOUS
<1>10. r \in ImportRecord /\ r.pc \in {"values", "look", "complete"}
  BY <1>1, <1>2, <1>9, AdvanceStep DEF ImportRecord
<1>11. import'[i] = r /\ \A j \in Imports \ {i} : import'[j] = import[j]
  BY <1>1, <1>5, <1>9
<1>12. \A k \in Kinds : /\ report'[i][k] = IF k \in BatchRows(i) THEN Decision(i, k) ELSE report[i][k]
                        /\ \A j \in Imports \ {i} : report'[j][k] = report[j][k]
  BY <1>4 DEF ImportInv, ImportsTypeOK
<1>13. \A k \in Kinds : report'[i][k] = "CREATED" <=> k \in N \/ report[i][k] = "CREATED"
  BY <1>6, <1>8, <1>12
<1>14. \A k \in N \ {"history"} : stored[k] = "none"
  BY CreatedIsNew DEF N
<1>15. ImportsTypeOK'
  <2>1. import' \in [Imports -> ImportRecord]
    BY <1>1, <1>5, <1>9, <1>10
  <2>2. stored' \in [Kinds -> Values]
    BY <1>7 DEF ImportInv, ImportsTypeOK, Values
  <2>3. creator' \in [Kinds -> Imports \cup {"people", "nobody"}] /\ historyRows' \subseteq Imports
    BY <1>7 DEF ImportInv, ImportsTypeOK
  <2>4. approved' \in BOOLEAN /\ testerActive' \in BOOLEAN
    BY <1>7 DEF ImportInv, ImportsTypeOK
  <2>5. report' \in [Imports -> [Kinds -> RowOutcomes \cup {"none"}]]
    <3>1. [k \in Kinds |-> IF k \in BatchRows(i) THEN f[k] ELSE report[i][k]]
             \in [Kinds -> RowOutcomes \cup {"none"}]
      <4> HIDE DEF f
      <4> QED
        BY <1>2 DEF ImportInv, ImportsTypeOK
    <3> HIDE DEF f
    <3> QED
      BY <1>4, <3>1 DEF ImportInv, ImportsTypeOK
  <2>6. /\ resolution' \in [Imports -> [Kinds -> {"none", "KEEP_CURRENT", "ACCEPT_SOURCE"}]]
        /\ resolver' \in [Resolvers -> (Imports \X Kinds) \cup {<<>>}]
        /\ hands' \in Nat /\ overlapped' \subseteq SUBSET Imports /\ contested' \subseteq Imports \X Kinds
    BY <1>7 DEF ImportInv, ImportsTypeOK
  <2> QED
    BY <2>1, <2>2, <2>3, <2>4, <2>5, <2>6 DEF ImportsTypeOK, ImportRecord
<1>16. i # "nobody" /\ i # "people"
  BY ImportsAssumption
<1>17. StoreInv'
  <2>1. \A k \in Kinds : creator'[k] = "nobody" <=> stored'[k] = "none"
    BY <1>6, <1>7, <1>16 DEF ImportInv, StoreInv
  <2>2. \A k \in Kinds : stored'[k] = "none" => stored[k] = "none"
    BY <1>7
  <2>3. \A k \in Kinds : stored'[k] = "none" => k \in Rows
    BY <2>2, Zenon DEF ImportInv, StoreInv
  <2>4. "case" \in Kinds /\ "steps" \in Kinds
    BY KindsListed
  <2>5. stored'["case"] = "none" /\ "steps" \in Rows => stored'["steps"] = "none"
    <3>1. ASSUME "steps" \in N PROVE stored'["case"] # "none"
      <4>1. ImportTestSteps(i) = "CREATED" /\ "steps" \in BatchRows(i)
        BY <1>6, <3>1 DEF Decision
      <4>2. ImportTestCases(i) = "CREATED"
        BY <4>1 DEF ImportTestSteps
      <4>3. import[i].looked.stored["case"] = "none"
        BY <4>2 DEF ImportTestCases, Decided, Compared
      <4>4. "case" \in Rows
        BY <1>1, <2>4, <4>3 DEF ImportInv, LookInv
      <4>5. "case" \in Sheets[import[i].batch]
        BY <1>1, <4>1, OneSheetEach DEF BatchRows, ImportRecord, Batches
      <4>6. "case" \in N
        BY <1>6, <4>2, <4>4, <4>5 DEF BatchRows, Decision
      <4> QED
        BY <1>7, <2>4, <4>6
    <3>2. "steps" \notin N => stored'["steps"] = stored["steps"]
      BY <1>7, <2>4
    <3> QED
      BY <2>2, <2>4, <3>1, <3>2 DEF ImportInv, StoreInv
  <2> QED
    BY <2>1, <2>3, <2>5, Zenon DEF StoreInv
<1>18. LookInv'
  <2>1. ASSUME NEW j \in Imports, import'[j].pc = "write", NEW k \in Kinds,
               import'[j].looked.stored[k] = "none"
        PROVE  k \in Rows
    <3>1. j # i
      BY <1>10, <1>11, <2>1
    <3> QED
      BY <1>11, <2>1, <3>1, Zenon DEF ImportInv, LookInv
  <2> QED
    BY <2>1, Zenon DEF LookInv
<1>19. RecordInv'
  <2>1. ASSUME NEW j \in Imports, NEW k \in Kinds \ {"history"}
        PROVE  creator'[k] = j <=> report'[j][k] = "CREATED"
    <3>1. creator[k] = j <=> report[j][k] = "CREATED"
      BY Zenon DEF ImportInv, RecordInv
    <3>2. CASE j = i
      BY <1>7, <1>13, <3>1, <3>2
    <3>3. CASE j # i /\ k \notin N
      BY <1>7, <1>12, <3>1, <3>3
    <3>4. CASE j # i /\ k \in N
      <4>1. creator'[k] = i /\ report'[j][k] = report[j][k]
        BY <1>7, <1>12, <3>4
      <4>2. stored[k] = "none"
        BY <1>14, <3>4
      <4>3. creator[k] = "nobody"
        BY <4>2, Zenon DEF ImportInv, StoreInv
      <4>4. j # "nobody"
        BY ImportsAssumption
      <4> QED
        BY <3>1, <3>4, <4>1, <4>3, <4>4
    <3> QED
      BY <3>2, <3>3, <3>4
  <2>2. ASSUME NEW j \in Imports
        PROVE  j \in historyRows' <=> report'[j]["history"] = "CREATED"
    <3>1. "history" \in Kinds /\ (j \in historyRows <=> report[j]["history"] = "CREATED")
      BY KindsListed DEF ImportInv, RecordInv
    <3>2. CASE j = i
      BY <1>7, <1>13, <3>1, <3>2
    <3>3. CASE j # i
      BY <1>7, <1>12, <3>1, <3>3
    <3> QED
      BY <3>2, <3>3
  <2> QED
    BY <2>1, <2>2, Zenon DEF RecordInv
<1>20. HistoryInv'
  <2>1. Pending(i) /\ \A j \in Imports : Pending(j)' => Pending(j)
    BY <1>1, <1>11 DEF Pending
  <2>2. \A j, k \in Imports : Pending(j)' /\ Pending(k)' => j = k \/ {j, k} \in overlapped'
    BY <1>7, <2>1 DEF ImportInv, HistoryInv
  \* The batch saw no history row, so it knows of those that are there now.
  <2>3. ASSUME "history" \in N, NEW j \in historyRows PROVE j = i \/ {i, j} \in overlapped
    <3>1. ImportExecutionHistory(i) = "CREATED"
      BY <1>6, <2>3 DEF Decision
    <3>2. import[i].looked.history = {}
      <4>1. Compared(i, "history") = "CREATED"
        BY <3>1 DEF ImportExecutionHistory, Decided
      <4> QED
        BY <4>1 DEF Compared
    <3> QED
      BY <1>1, <2>3, <3>2, Zenon DEF ImportInv, HistoryInv
  <2>4. \A j, k \in historyRows' : j = k \/ {j, k} \in overlapped'
    <3>1. ASSUME NEW j \in historyRows', NEW k \in historyRows'
          PROVE  j = k \/ {j, k} \in overlapped
      <4>1. CASE j \in historyRows /\ k \in historyRows
        BY <4>1, Zenon DEF ImportInv, HistoryInv
      <4>2. CASE j \notin historyRows /\ k \in historyRows
        BY <1>7, <2>3, <3>1, <4>2
      <4>3. CASE j \in historyRows /\ k \notin historyRows
        <5>1. k = i /\ "history" \in N
          BY <1>7, <3>1, <4>3
        <5>2. {j, k} = {i, j}
          BY <5>1
        <5> QED
          BY <2>3, <4>3, <5>1, <5>2
      <4>4. CASE j \notin historyRows /\ k \notin historyRows
        BY <1>7, <3>1, <4>4
      <4> QED
        BY <4>1, <4>2, <4>3, <4>4
    <3> QED
      BY <1>7, <3>1
  <2>5. ASSUME NEW j \in Imports, import'[j].pc = "write",
               NEW k \in historyRows' \ import'[j].looked.history
        PROVE  j = k \/ {j, k} \in overlapped'
    <3>1. j # i /\ import'[j] = import[j] /\ overlapped' = overlapped
      BY <1>7, <1>10, <1>11, <2>5
    <3>2. CASE k \in historyRows
      BY <2>5, <3>1, <3>2, Zenon DEF ImportInv, HistoryInv
    <3>3. CASE k \notin historyRows
      <4>1. k = i
        BY <1>7, <2>5, <3>3
      <4>2. Pending(j)
        BY <2>5, <3>1 DEF Pending
      <4> QED
        BY <2>1, <3>1, <4>1, <4>2, Zenon DEF ImportInv, HistoryInv
    <3> QED
      BY <3>2, <3>3
  <2> QED
    BY <2>2, <2>4, <2>5, Zenon DEF HistoryInv
<1> QED
  BY <1>8, <1>15, <1>17, <1>18, <1>19, <1>20, Zenon DEF ImportInv

LEMMA RefusalKeeps ==
    ASSUME ImportInv, NEW i \in Imports, RefuseDuplicate(i)
    PROVE  ImportInv'
<1> DEFINE s == import[i].staged
           f == [k \in Kinds |-> "REJECTED"]
<1>1. import[i] \in ImportRecord /\ import \in [Imports -> ImportRecord] /\ import[i].pc = "write"
  BY DEF ImportInv, ImportsTypeOK, ImportRecord, RefuseDuplicate
<1>2. s \in BOOLEAN /\ f \in [Kinds -> RowOutcomes]
  BY <1>1 DEF ImportRecord, RowOutcomes
<1>3. BatchRows(i) \subseteq Kinds
  BY <1>1, Zenon DEF BatchRows, Kinds, ImportRecord, Batches
<1>4. report' = [report EXCEPT ![i] = [k \in Kinds |-> IF k \in BatchRows(i) THEN f[k]
                                                       ELSE report[i][k]]]
  <2>1. [k \in Kinds |-> IF k \in BatchRows(i) THEN f[k] ELSE report[i][k]]
        = [k \in Kinds |-> IF k \in BatchRows(i) THEN "REJECTED" ELSE report[i][k]]
    BY Zenon
  <2> QED
    BY <2>1, Zenon DEF RefuseDuplicate
<1>5. Advance(i) = [Advance(i) EXCEPT !.staged = s]
  <2>1. Advance(i) \in ImportRecord
    BY <1>1, AdvanceStep
  <2>2. Advance(i).staged = s
    BY <1>1 DEF Advance, ImportRecord
  <2> HIDE DEF s
  <2> QED
    BY <2>1, <2>2 DEF ImportRecord
<1>6. import' = [import EXCEPT ![i] = [Advance(i) EXCEPT !.staged = s]]
  BY <1>5, Zenon DEF RefuseDuplicate
<1>7. UNCHANGED <<stored, creator, historyRows, approved, testerActive, resolution, resolver, hands,
                  overlapped, contested>>
  BY DEF RefuseDuplicate
<1> HIDE DEF s
<1>8. LeftInv' /\ \A k \in BatchRows(i) : k \in Kinds /\ k \in Rows /\ report[i][k] = "none"
  <2> HIDE DEF f
  <2> QED
    BY <1>1, <1>2, <1>4, <1>6, ReportsKeepLeft DEF ImportInv
<1>9. Advance(i) \in ImportRecord /\ Advance(i).pc \in {"values", "look", "complete"}
  BY <1>1, AdvanceStep
<1>10. import'[i] = Advance(i) /\ \A j \in Imports \ {i} : import'[j] = import[j]
  BY <1>1, <1>5, <1>6
<1>11. \A k \in Kinds : /\ report'[i][k] = IF k \in BatchRows(i) THEN "REJECTED" ELSE report[i][k]
                        /\ \A j \in Imports \ {i} : report'[j][k] = report[j][k]
  BY <1>4 DEF ImportInv, ImportsTypeOK
<1>12. \A j \in Imports, k \in Kinds : report'[j][k] = "CREATED" <=> report[j][k] = "CREATED"
  BY <1>8, <1>11
<1>13. ImportsTypeOK'
  <2>1. import' \in [Imports -> ImportRecord]
    <3>1. import' = [import EXCEPT ![i] = Advance(i)]
      BY <1>5, <1>6, Zenon
    <3> QED
      BY <1>1, <1>9, <3>1
  <2>2. report' \in [Imports -> [Kinds -> RowOutcomes \cup {"none"}]]
    <3>1. [k \in Kinds |-> IF k \in BatchRows(i) THEN f[k] ELSE report[i][k]]
             \in [Kinds -> RowOutcomes \cup {"none"}]
      <4> HIDE DEF f
      <4> QED
        BY <1>2 DEF ImportInv, ImportsTypeOK
    <3> HIDE DEF f
    <3> QED
      BY <1>4, <3>1 DEF ImportInv, ImportsTypeOK
  <2> QED
    BY <1>7, <2>1, <2>2 DEF ImportInv, ImportsTypeOK, ImportRecord
<1>14. StoreInv'
  BY <1>7 DEF ImportInv, StoreInv
<1>15. LookInv'
  <2>1. ASSUME NEW j \in Imports, import'[j].pc = "write", NEW k \in Kinds,
               import'[j].looked.stored[k] = "none"
        PROVE  k \in Rows
    <3>1. j # i
      BY <1>9, <1>10, <2>1
    <3> QED
      BY <1>10, <2>1, <3>1, Zenon DEF ImportInv, LookInv
  <2> QED
    BY <2>1, Zenon DEF LookInv
<1>16. RecordInv'
  BY <1>7, <1>12, KindsListed DEF ImportInv, RecordInv
<1>17. HistoryInv'
  <2>1. \A j \in Imports : Pending(j)' => Pending(j)
    BY <1>1, <1>10 DEF Pending
  <2>2. \A j, k \in Imports : Pending(j)' /\ Pending(k)' => j = k \/ {j, k} \in overlapped'
    BY <1>7, <2>1 DEF ImportInv, HistoryInv
  <2>3. \A j, k \in historyRows' : j = k \/ {j, k} \in overlapped'
    BY <1>7 DEF ImportInv, HistoryInv
  <2>4. ASSUME NEW j \in Imports, import'[j].pc = "write",
               NEW k \in historyRows' \ import'[j].looked.history
        PROVE  j = k \/ {j, k} \in overlapped'
    <3>1. j # i /\ import'[j] = import[j] /\ historyRows' = historyRows /\ overlapped' = overlapped
      BY <1>7, <1>9, <1>10, <2>4
    <3> QED
      BY <2>4, <3>1, Zenon DEF ImportInv, HistoryInv
  <2> QED
    BY <2>2, <2>3, <2>4, Zenon DEF HistoryInv
<1> QED
  BY <1>8, <1>13, <1>14, <1>15, <1>16, <1>17, Zenon DEF ImportInv

\* People write no report, and what they create is nobody's import.
LEMMA HandsKeep ==
    ASSUME ImportInv, NEW k \in ByHand, NEW v \in Values, WriteByHand(k, v)
    PROVE  ImportInv'
<1>1. /\ k \in Kinds /\ stored \in [Kinds -> Values] /\ hands \in Nat
      /\ creator \in [Kinds -> Imports \cup {"people", "nobody"}]
  BY ImportsAssumption DEF ImportInv, ImportsTypeOK
<1>2. /\ v # "none" /\ hands' = hands + 1
      /\ k = "steps" => stored["case"] # "none"
      /\ stored' = [stored EXCEPT ![k] = v]
      /\ creator' = IF stored[k] = "none" THEN [creator EXCEPT ![k] = "people"] ELSE creator
      /\ UNCHANGED <<historyRows, approved, testerActive, import, report, resolution, resolver,
                     overlapped, contested>>
  BY Zenon DEF WriteByHand
<1>3. stored' \in [Kinds -> Values] /\ creator' \in [Kinds -> Imports \cup {"people", "nobody"}]
  BY <1>1, <1>2
<1>4. /\ \A l \in Kinds : stored'[l] = IF l = k THEN v ELSE stored[l]
      /\ \A l \in Kinds : creator'[l] = IF l = k /\ stored[l] = "none" THEN "people" ELSE creator[l]
  BY <1>1, <1>2
<1>5. ImportsTypeOK'
  BY <1>1, <1>2, <1>3 DEF ImportInv, ImportsTypeOK
<1>6. StoreInv'
  <2>1. "case" \in Kinds /\ "steps" \in Kinds
    BY KindsListed
  <2>2. \A l \in Kinds : creator'[l] = "nobody" <=> stored'[l] = "none"
    BY <1>2, <1>4 DEF ImportInv, StoreInv
  <2>3. \A l \in Kinds : stored'[l] = "none" => stored[l] = "none"
    BY <1>2, <1>4
  <2>4. stored'["case"] = "none" /\ "steps" \in Rows => stored'["steps"] = "none"
    BY <1>2, <1>4, <2>1, <2>3 DEF ImportInv, StoreInv
  <2> QED
    BY <2>2, <2>3, <2>4, Zenon DEF ImportInv, StoreInv
<1>7. LookInv'
  BY <1>2 DEF ImportInv, LookInv
<1>8. LeftInv'
  BY <1>2 DEF ImportInv, LeftInv
<1>9. RecordInv'
  <2>1. ASSUME NEW i \in Imports, NEW l \in Kinds \ {"history"}
        PROVE  creator'[l] = i <=> report'[i][l] = "CREATED"
    <3>1. creator[l] = i <=> report[i][l] = "CREATED"
      BY Zenon DEF ImportInv, RecordInv
    <3>2. i # "nobody" /\ i # "people"
      BY ImportsAssumption
    <3>3. stored[l] = "none" => creator[l] = "nobody"
      BY Zenon DEF ImportInv, StoreInv
    <3> QED
      BY <1>2, <1>4, <3>1, <3>2, <3>3
  <2>2. \A i \in Imports : i \in historyRows' <=> report'[i]["history"] = "CREATED"
    BY <1>2 DEF ImportInv, RecordInv
  <2> QED
    BY <2>1, <2>2, Zenon DEF RecordInv
<1>10. HistoryInv'
  BY <1>2 DEF ImportInv, HistoryInv, Pending
<1> QED
  BY <1>5, <1>6, <1>7, <1>8, <1>9, <1>10 DEF ImportInv

LEMMA ImportNext == ImportInv /\ [ImportsNext]_importVars => ImportInv'
<1> SUFFICES ASSUME ImportInv, [ImportsNext]_importVars PROVE ImportInv'
  OBVIOUS
\* A step that touches neither the records nor the imports.
<1>1. ASSUME UNCHANGED <<stored, creator, historyRows, import, report, overlapped>>, ImportsTypeOK'
      PROVE  ImportInv'
  <2>1. StoreInv' /\ LookInv' /\ LeftInv' /\ RecordInv'
    BY <1>1 DEF ImportInv, StoreInv, LookInv, LeftInv, RecordInv
  <2>2. HistoryInv'
    BY <1>1 DEF ImportInv, HistoryInv, Pending
  <2> QED
    BY <1>1, <2>1, <2>2 DEF ImportInv
<1>2. ASSUME NEW i \in Imports, ImportStep(i) PROVE ImportInv'
  BY <1>2, StepsMove, ImportWriteKeeps, RefusalKeeps, Zenon DEF ImportStep
<1>3. ASSUME NEW q \in Resolvers, NEW i \in Imports, NEW k \in Reviewed, BeginResolve(q, i, k)
      PROVE  ImportInv'
  <2>1. k \in Kinds /\ <<i, k>> \in Imports \X Kinds
    BY ImportsAssumption
  <2>2. resolver' \in [Resolvers -> (Imports \X Kinds) \cup {<<>>}]
    BY <1>3, <2>1 DEF BeginResolve, ImportInv, ImportsTypeOK
  <2>3. contested' \subseteq Imports \X Kinds
    BY <1>3, <2>1 DEF BeginResolve, ImportInv, ImportsTypeOK
  <2>4. ImportsTypeOK'
    BY <1>3, <2>2, <2>3 DEF BeginResolve, ImportInv, ImportsTypeOK
  <2> QED
    BY <1>1, <1>3, <2>4 DEF BeginResolve
<1>4. ASSUME NEW q \in Resolvers, NEW d \in {"KEEP_CURRENT", "ACCEPT_SOURCE"}, CommitResolve(q, d)
      PROVE  ImportInv'
  <2>1. PICK i \in Imports, k \in Kinds : resolver[q] = <<i, k>>
    BY <1>4 DEF CommitResolve, ImportInv, ImportsTypeOK
  <2>2. resolution' = [resolution EXCEPT ![i][k] = d]
    BY <1>4, <2>1 DEF CommitResolve
  <2>3. resolution' \in [Imports -> [Kinds -> {"none", "KEEP_CURRENT", "ACCEPT_SOURCE"}]]
    BY <2>2 DEF ImportInv, ImportsTypeOK
  <2>4. resolver' \in [Resolvers -> (Imports \X Kinds) \cup {<<>>}]
    BY <1>4 DEF CommitResolve, ImportInv, ImportsTypeOK
  <2>5. ImportsTypeOK'
    BY <1>4, <2>3, <2>4 DEF CommitResolve, ImportInv, ImportsTypeOK
  <2> QED
    BY <1>1, <1>4, <2>5 DEF CommitResolve
<1>5. ASSUME NEW q \in Resolvers, AbandonResolve(q) PROVE ImportInv'
  <2>1. resolver' \in [Resolvers -> (Imports \X Kinds) \cup {<<>>}]
    BY <1>5 DEF AbandonResolve, ImportInv, ImportsTypeOK
  <2>2. ImportsTypeOK'
    BY <1>5, <2>1 DEF AbandonResolve, ImportInv, ImportsTypeOK
  <2> QED
    BY <1>1, <1>5, <2>2 DEF AbandonResolve
<1>6. CASE ChangeStanding
  <2>1. approved' \in BOOLEAN /\ testerActive' \in BOOLEAN
    BY <1>6, Zenon DEF ChangeStanding, ImportInv, ImportsTypeOK
  <2>2. hands' \in Nat /\ UNCHANGED <<stored, creator, historyRows, import, report, resolution,
                                      resolver, overlapped, contested>>
    BY <1>6 DEF ChangeStanding, ImportInv, ImportsTypeOK
  <2>3. ImportsTypeOK'
    BY <2>1, <2>2 DEF ImportInv, ImportsTypeOK
  <2> QED
    BY <1>1, <2>2, <2>3
<1>7. CASE UNCHANGED importVars
  <2>1. ImportsTypeOK'
    BY <1>7 DEF importVars, ImportInv, ImportsTypeOK
  <2> QED
    BY <1>1, <1>7, <2>1 DEF importVars
<1> QED
  BY <1>2, <1>3, <1>4, <1>5, <1>6, <1>7, HandsKeep, Zenon DEF ImportsNext, ByPeople

LEMMA ImportInit == ImportsInit => ImportInv
<1> SUFFICES ASSUME ImportsInit PROVE ImportInv
  OBVIOUS
<1>1. 1 \in Batches
  BY KindsListed, OneSheetEach DEF Batches
<1>2. ImportsTypeOK
  <2>1. Blind \in Looked
    BY DEF Blind, Looked, Values
  <2>2. /\ stored \in [Kinds -> Values]
        /\ creator \in [Kinds -> Imports \cup {"people", "nobody"}]
        /\ historyRows = {} /\ testerActive \in BOOLEAN /\ hands \in Nat
    BY DEF ImportsInit, Values
  <2>3. import \in [Imports -> ImportRecord]
    BY <1>1, <2>1 DEF ImportsInit, ImportRecord
  <2>4. approved \in BOOLEAN
    BY Zenon DEF ImportsInit
  <2>5. /\ report \in [Imports -> [Kinds -> RowOutcomes \cup {"none"}]]
        /\ resolution \in [Imports -> [Kinds -> {"none", "KEEP_CURRENT", "ACCEPT_SOURCE"}]]
        /\ resolver \in [Resolvers -> (Imports \X Kinds) \cup {<<>>}]
        /\ overlapped \subseteq SUBSET Imports /\ contested \subseteq Imports \X Kinds
    BY DEF ImportsInit
  <2> QED
    BY <2>2, <2>3, <2>4, <2>5 DEF ImportsTypeOK, ImportRecord
<1>3. StoreInv
  BY KindsListed DEF ImportsInit, StoreInv
<1>4. \A i \in Imports : /\ import[i].pc = "idle" /\ import[i].status = "none" /\ import[i].batch = 1
                         /\ \A k \in Kinds : report[i][k] = "none"
  BY DEF ImportsInit
<1>5. LookInv
  BY <1>4 DEF LookInv
<1>6. LeftInv
  <2>1. ASSUME NEW i \in Imports PROVE LeftWith(import[i], report[i])
    <3>1. \A b \in Batches : b >= import[i].batch
      BY <1>4, KindsListed DEF Batches
    <3>2. LeftOf(import[i]) = Batches
      <4>1. LeftOf(import[i]) = {b \in Batches : b >= import[i].batch}
        BY <1>4, Zenon DEF LeftOf
      <4> QED
        BY <3>1, <4>1, Zenon
    <3>3. \A b \in Batches : \A k \in Sheets[b] : k \in Kinds
      BY Zenon DEF Batches, Kinds
    <3> QED
      BY <1>4, <3>2, <3>3, Zenon DEF LeftWith
  <2> QED
    BY <2>1, Zenon DEF LeftInv
<1>7. RecordInv
  <2>1. \A i \in Imports, k \in Kinds : creator[k] # i
    BY ImportsAssumption DEF ImportsInit
  <2>2. historyRows = {} /\ "history" \in Kinds
    BY KindsListed DEF ImportsInit
  <2> QED
    BY <1>4, <2>1, <2>2 DEF RecordInv
<1>8. HistoryInv
  <2>1. historyRows = {}
    BY DEF ImportsInit
  <2> QED
    BY <1>4, <2>1 DEF HistoryInv, Pending
<1> QED
  BY <1>2, <1>3, <1>5, <1>6, <1>7, <1>8 DEF ImportInv

LEMMA ImportGives == ImportInv => ReportIsTheRecord
<1> SUFFICES ASSUME ImportInv PROVE ReportIsTheRecord
  OBVIOUS
<1>1. ASSUME NEW i \in Imports, import[i].status = "COMPLETED", NEW k \in Rows \ {"bugLink"}
      PROVE  report[i][k] # "none"
  <2>1. LeftWith(import[i], report[i])
    BY Zenon DEF ImportInv, LeftInv
  <2>2. import[i].pc = "over"
    BY <1>1, <2>1, Zenon DEF LeftWith
  <2>3. LeftOf(import[i]) = {}
    BY <2>2, Zenon DEF LeftOf
  <2>4. k \in Kinds
    BY ImportsAssumption
  <2>5. PICK b \in DOMAIN Sheets : k \in Sheets[b]
    BY <2>4, Zenon DEF Kinds
  <2>6. b \in Batches
    BY <2>5 DEF Batches
  <2> QED
    BY <1>1, <2>1, <2>3, <2>5, <2>6, Zenon DEF LeftWith
<1>2. \A i, j \in historyRows : i = j \/ {i, j} \in overlapped
  BY Zenon DEF ImportInv, HistoryInv
<1> QED
  BY <1>1, <1>2, Zenon DEF ImportInv, RecordInv, ReportIsTheRecord

\* An import created exactly what its report says it created, and a completed one has accounted for
\* every row, for any workbook, any number of imports and whoever edits meanwhile.
THEOREM ReportStaysTheRecord == ImportsSpec => []ReportIsTheRecord
<1>1. ImportsSpec => []ImportInv
  BY ImportInit, ImportNext, PTL DEF ImportsSpec
<1> QED
  BY <1>1, ImportGives, PTL

\* Types of an import and of its report (domain/imports.ts).
THEOREM ImportsTyped == ImportsSpec => []ImportsTypeOK
<1>1. ImportsSpec => []ImportInv
  BY ImportInit, ImportNext, PTL DEF ImportsSpec
<1>2. ImportInv => ImportsTypeOK
  BY DEF ImportInv
<1> QED
  BY <1>1, <1>2, PTL

-------------------------------------------------------------------------------
\* Nothing is overwritten

\* A record that is there changes by a person's hand only.
LEMMA RecordsStay ==
    ASSUME ImportInv, [ImportsNext]_importVars, NEW k \in Kinds, stored[k] # "none",
           stored'[k] # stored[k]
    PROVE  hands' = hands + 1
<1>1. stored' # stored
  OBVIOUS
<1>2. ASSUME NEW i \in Imports, ImportStep(i) PROVE FALSE
  <2>1. WriteBatch(i)
    BY <1>1, <1>2 DEF ImportStep, StartImport, LookUp, RefuseDuplicate, LoadValues, BreakOff,
                      CompleteImport
  <2>2. stored'[k] = IF k \in ToCreate(i) \ {"history"} THEN "source" ELSE stored[k]
    BY <2>1 DEF WriteBatch
  <2> QED
    BY <2>1, <2>2, CreatedIsNew
<1>3. ByPeople => hands' = hands + 1
  BY DEF ByPeople, WriteByHand, ChangeStanding
<1>4. ASSUME \/ \E q \in Resolvers, i \in Imports, r \in Reviewed : BeginResolve(q, i, r)
             \/ \E q \in Resolvers, d \in {"KEEP_CURRENT", "ACCEPT_SOURCE"} : CommitResolve(q, d)
             \/ \E q \in Resolvers : AbandonResolve(q)
             \/ UNCHANGED importVars
      PROVE  FALSE
  BY <1>1, <1>4 DEF BeginResolve, CommitResolve, AbandonResolve, importVars
<1> QED
  BY <1>2, <1>3, <1>4 DEF ImportsNext

\* Two decisions under way on one row contest it, and so does one on a row that has its decision.
ResolverInv ==
    \A q \in Resolvers : resolver[q] # <<>> =>
        /\ \A p \in Resolvers : resolver[p] = resolver[q] => p = q \/ resolver[q] \in contested
        /\ resolution[resolver[q][1]][resolver[q][2]] # "none" => resolver[q] \in contested

LEMMA ResolverNext == ImportInv /\ ResolverInv /\ [ImportsNext]_importVars => ResolverInv'
<1> SUFFICES ASSUME ImportInv, ResolverInv, [ImportsNext]_importVars PROVE ResolverInv'
  OBVIOUS
<1>0. /\ resolver \in [Resolvers -> (Imports \X Kinds) \cup {<<>>}]
      /\ resolution \in [Imports -> [Kinds -> {"none", "KEEP_CURRENT", "ACCEPT_SOURCE"}]]
  BY DEF ImportInv, ImportsTypeOK
<1>1. CASE UNCHANGED <<resolver, resolution, contested>>
  BY <1>1 DEF ResolverInv
<1>2. ASSUME NEW q \in Resolvers, NEW i \in Imports, NEW k \in Reviewed, BeginResolve(q, i, k)
      PROVE  ResolverInv'
  <2>1. PICK x : x = <<i, k>>
    OBVIOUS
  <2>2. x # <<>> /\ x[1] = i /\ x[2] = k
    BY <2>1
  <2>3. /\ resolver' = [resolver EXCEPT ![q] = x] /\ resolution' = resolution
        /\ contested \subseteq contested'
        /\ \A p \in Resolvers : resolver[p] = x => x \in contested'
    BY <1>2, <2>1 DEF BeginResolve
  <2>4. resolution[x[1]][x[2]] = "none"
    BY <1>2, <2>2 DEF BeginResolve, Resolvable
  <2>5. /\ resolver'[q] = x /\ \A p \in Resolvers \ {q} : resolver'[p] = resolver[p]
    BY <1>0, <2>3
  <2> HIDE DEF ResolverInv
  <2>6. ASSUME NEW p \in Resolvers, resolver'[p] # <<>>
        PROVE  /\ \A o \in Resolvers : resolver'[o] = resolver'[p] => o = p \/ resolver'[p] \in contested'
               /\ resolution'[resolver'[p][1]][resolver'[p][2]] # "none" => resolver'[p] \in contested'
    <3>1. CASE p = q
      BY <2>3, <2>4, <2>5, <3>1
    <3>2. CASE p # q
      <4>1. /\ resolver'[p] = resolver[p] /\ resolver[p] # <<>>
            /\ \A o \in Resolvers : resolver[o] = resolver[p] => o = p \/ resolver[p] \in contested
            /\ resolution[resolver[p][1]][resolver[p][2]] # "none" => resolver[p] \in contested
        BY <2>5, <2>6, <3>2 DEF ResolverInv
      <4> QED
        BY <2>3, <2>5, <4>1
    <3> QED
      BY <3>1, <3>2
  <2> QED
    BY <2>6 DEF ResolverInv
<1>3. ASSUME NEW q \in Resolvers, resolver' = [resolver EXCEPT ![q] = <<>>], contested' = contested,
             \A p \in Resolvers \ {q} : resolver[p] # <<>> /\
                resolution'[resolver[p][1]][resolver[p][2]] # "none" => resolver[p] \in contested
      PROVE  ResolverInv'
  <2>1. resolver'[q] = <<>> /\ \A p \in Resolvers \ {q} : resolver'[p] = resolver[p]
    BY <1>0, <1>3
  <2> QED
    BY <1>3, <2>1 DEF ResolverInv
<1>4. ASSUME NEW q \in Resolvers, NEW d, CommitResolve(q, d) PROVE ResolverInv'
  <2>1. PICK x : x = resolver[q]
    OBVIOUS
  <2>2. x # <<>> /\ resolution' = [resolution EXCEPT ![x[1]][x[2]] = d]
    BY <1>4, <2>1 DEF CommitResolve
  <2>3. ASSUME NEW p \in Resolvers \ {q}, resolver[p] # <<>>,
               resolution'[resolver[p][1]][resolver[p][2]] # "none"
        PROVE  resolver[p] \in contested
    <3>1. PICK y : y = resolver[p]
      OBVIOUS
    <3>2. x \in Imports \X Kinds /\ y \in Imports \X Kinds
      BY <1>0, <2>1, <2>2, <2>3, <3>1
    <3>3. CASE y = x
      BY <2>1, <2>3, <3>1, <3>3 DEF ResolverInv
    <3>4. CASE y # x
      <4>1. x[1] # y[1] \/ x[2] # y[2]
        BY <3>2, <3>4
      <4>2. resolution'[y[1]][y[2]] = resolution[y[1]][y[2]]
        BY <1>0, <2>2, <3>2, <4>1
      <4> QED
        BY <2>3, <3>1, <4>2 DEF ResolverInv
    <3> QED
      BY <3>1, <3>3, <3>4
  <2> QED
    BY <1>3, <1>4, <2>3 DEF CommitResolve
<1>5. ASSUME NEW q \in Resolvers, AbandonResolve(q) PROVE ResolverInv'
  <2>1. \A p \in Resolvers \ {q} : resolver[p] # <<>> /\
           resolution'[resolver[p][1]][resolver[p][2]] # "none" => resolver[p] \in contested
    BY <1>5 DEF AbandonResolve, ResolverInv
  <2> QED
    BY <1>3, <1>5, <2>1 DEF AbandonResolve
<1>6. ASSUME NEW i \in Imports, ImportStep(i) PROVE ResolverInv'
  BY <1>1, <1>6 DEF ImportStep, StartImport, LookUp, WriteBatch, RefuseDuplicate, LoadValues,
                    BreakOff, CompleteImport
<1>7. CASE ByPeople
  BY <1>1, <1>7 DEF ByPeople, WriteByHand, ChangeStanding
<1>8. CASE UNCHANGED importVars
  BY <1>1, <1>8 DEF importVars
<1> QED
  BY <1>2, <1>4, <1>5, <1>6, <1>7, <1>8 DEF ImportsNext

\* A decision that was taken is replaced on contested rows only.
LEMMA DecisionsStay ==
    ASSUME ImportInv, ResolverInv, [ImportsNext]_importVars, NEW i \in Imports, NEW k \in Kinds,
           resolution[i][k] # "none", resolution'[i][k] # resolution[i][k]
    PROVE  <<i, k>> \in contested
<1>1. /\ resolver \in [Resolvers -> (Imports \X Kinds) \cup {<<>>}]
      /\ resolution \in [Imports -> [Kinds -> {"none", "KEEP_CURRENT", "ACCEPT_SOURCE"}]]
  BY DEF ImportInv, ImportsTypeOK
<1>2. ASSUME NEW q \in Resolvers, NEW d, CommitResolve(q, d) PROVE <<i, k>> \in contested
  <2>1. PICK x : x = resolver[q]
    OBVIOUS
  <2>2. x \in Imports \X Kinds /\ resolution' = [resolution EXCEPT ![x[1]][x[2]] = d]
    BY <1>1, <1>2, <2>1 DEF CommitResolve
  <2>3. x[1] = i /\ x[2] = k
    BY <1>1, <2>2
  <2>4. x = <<i, k>>
    BY <2>2, <2>3
  <2> QED
    BY <1>2, <2>1, <2>3, <2>4 DEF ResolverInv, CommitResolve
<1>3. ASSUME NEW j \in Imports, ImportStep(j) PROVE FALSE
  BY <1>3 DEF ImportStep, StartImport, LookUp, WriteBatch, RefuseDuplicate, LoadValues,
              BreakOff, CompleteImport
<1>4. ASSUME \/ \E q \in Resolvers, j \in Imports, r \in Reviewed : BeginResolve(q, j, r)
             \/ \E q \in Resolvers : AbandonResolve(q)
             \/ ByPeople
             \/ UNCHANGED importVars
      PROVE  FALSE
  BY <1>4 DEF BeginResolve, AbandonResolve, ByPeople, WriteByHand, ChangeStanding, importVars
<1> QED
  BY <1>2, <1>3, <1>4 DEF ImportsNext

\* "Automatic overwrite is not permitted": for any workbook and any number of imports and decisions,
\* a record that is there changes by a person's hand only, and a decision on a report row is final,
\* unless two were being taken at once.
THEOREM NothingIsOverwritten == ImportsSpec => NothingOverwritten
<1>1. ImportsInit => ResolverInv
  BY DEF ImportsInit, ResolverInv
<1>2. ImportInv /\ ResolverInv /\ [ImportsNext]_importVars =>
          [/\ \A k \in Kinds : stored[k] # "none" /\ stored'[k] # stored[k] => hands' = hands + 1
           /\ \A i \in Imports, k \in Kinds :
                 resolution[i][k] # "none" /\ resolution'[i][k] # resolution[i][k]
                     => <<i, k>> \in contested]_importVars
  BY RecordsStay, DecisionsStay
<1> QED
  BY <1>1, <1>2, ImportInit, ImportNext, ResolverNext, PTL DEF ImportsSpec, NothingOverwritten

-------------------------------------------------------------------------------
\* The stored token is the next one, and the last word stands

Record == [pc : {"idle", "sent", "answered", "refused"},
           token : Token \cup {NoToken}, answer : Token \cup {NoToken}]

\* What one sync holds: all but the holder of the row's lock rest; the holder has the stored
\* token in hand, and what Atlassian answered is of the same family.
SyncSound(s) ==
    /\ sync[s].pc # "idle" <=> s \in rowLock
    /\ sync[s].pc # "idle" => Connected /\ sync[s].token = credential.token
    /\ sync[s].pc = "answered" => sync[s].answer \in Token
                                  /\ sync[s].answer.flow = sync[s].token.flow

\* A flow has tokens only once its callback is over.
FreshFlow(f) ==
    /\ family[f] = [turn |-> 0, revoked |-> FALSE]
    /\ f \notin abandoned
    /\ credential.token.flow # f
    /\ \A t \in late : t.flow # f

\* Where the live token of an undisturbed family is: stored, on its way to Atlassian, or in the
\* answer that is about to be stored.
Live(s) ==
    sync[s].pc # "idle" /\ credential.token.flow \notin abandoned =>
        /\ sync[s].pc \in {"sent", "answered"}
        /\ family[credential.token.flow] =
              [turn |-> IF sync[s].pc = "sent" THEN credential.token.turn ELSE sync[s].answer.turn,
               revoked |-> FALSE]

Sound ==
    /\ ConnectionTypeOK
    /\ rowLock = {} \/ \E s \in Syncs : rowLock = {s}
    /\ \A s \in Syncs : SyncSound(s)
    /\ \A f \in Flows : flow[f] # "over" => FreshFlow(f)
    /\ \A t \in late : t.flow \in abandoned

ConnectionInv ==
    /\ Sound
    /\ LastWordStands
    /\ StoredTokenIsLive
    /\ \A s \in Syncs : Live(s)

-------------------------------------------------------------------------------
\* The lock

LEMMA LockIsSmall ==
    ASSUME NEW s \in Syncs
    PROVE  Cardinality({}) <= 1 /\ Cardinality({s}) <= 1
<1>1. Cardinality({}) = 0
  BY FS_EmptySet
<1>2. Cardinality({s}) = 1
  BY FS_Singleton
<1> QED
  BY <1>1, <1>2

\* One who holds the lock holds it alone, and lets go of all of it.
LEMMA Unlocking ==
    ASSUME Sound, NEW s \in Syncs, sync[s].pc # "idle"
    PROVE  /\ rowLock = {s} /\ rowLock \ {s} = {}
           /\ \A q \in Syncs \ {s} : sync[q].pc = "idle"
           /\ Connected /\ sync[s].token = credential.token
           /\ credential.token \in Token /\ credential.key \in Secrets
  BY DEF Sound, SyncSound, ConnectionTypeOK, Connected

LEMMA NobodyHolds ==
    ASSUME Sound, rowLock = {}
    PROVE  \A q \in Syncs : sync[q].pc = "idle"
  BY DEF Sound, SyncSound

LEMMA StoredToken ==
    ASSUME ConnectionTypeOK
    PROVE  /\ Connected => credential.token \in Token /\ credential.key \in Secrets
           /\ ~Connected => credential.token.flow = 0
           /\ credential.token \in Token \cup {NoToken}
  BY DEF ConnectionTypeOK, Connected, NoCredential, NoToken

-------------------------------------------------------------------------------
\* The invariant

LEMMA ConnectionInvInit == ConnectionInit => ConnectionInv
<1> SUFFICES ASSUME ConnectionInit PROVE ConnectionInv
  OBVIOUS
<1> USE DEF ConnectionInit
<1>1. ConnectionTypeOK
  <2>1. secret \in Secrets
    BY ConnectionAssumption
  <2>2. Cardinality(rowLock) <= 1
    BY FS_EmptySet
  <2> QED
    BY <2>1, <2>2, ConnectionAssumption DEF ConnectionTypeOK, Resting, Token, NoToken, Flows
<1>2. ~Connected /\ credential.token.flow = 0
  BY DEF Connected, NoCredential, NoToken
<1>3. \A s \in Syncs : SyncSound(s) /\ Live(s)
  BY DEF SyncSound, Live, Resting
<1>4. \A f \in Flows : FreshFlow(f)
  BY <1>2, ConnectionAssumption DEF FreshFlow, Flows
<1> QED
  BY <1>1, <1>2, <1>3, <1>4 DEF ConnectionInv, Sound, LastWordStands, StoredTokenIsLive

\* What the steps of a consent flow keep that neither connect nor fail anything.
LEMMA InvFlow ==
    ASSUME ConnectionInv, NEW f \in Flows, BeginFlow(f) \/ Consent(f) \/ ExchangeCode(f) \/ FailFlow(f)
    PROVE  ConnectionInv'
<1>1. /\ UNCHANGED <<credential, rowLock, sync, secret, family, late, abandoned, lastWord>>
      /\ flow' \in [Flows -> {"none", "begun", "consented", "exchanged", "over"}]
      /\ \A g \in Flows : flow'[g] # "over" => flow[g] # "over"
  BY DEF BeginFlow, Consent, ExchangeCode, StateVerified, FailFlow, ConnectionInv, Sound, ConnectionTypeOK
<1>2. stateCookie' \in 0..MaxFlows
  BY ConnectionAssumption DEF BeginFlow, Consent, ExchangeCode, StateVerified, FailFlow, ConnectionInv, Sound,
     ConnectionTypeOK, Flows
<1>3. ConnectionTypeOK'
  BY <1>1, <1>2 DEF ConnectionInv, Sound, ConnectionTypeOK
<1>4. \A g \in Flows : flow'[g] # "over" => FreshFlow(g)'
  BY <1>1 DEF ConnectionInv, Sound, FreshFlow
<1> QED
  BY <1>1, <1>3, <1>4 DEF ConnectionInv, Sound, SyncSound, Live, LastWordStands, StoredTokenIsLive,
     Connected

LEMMA InvConnect ==
    ASSUME ConnectionInv, NEW f \in Flows, Connect(f)
    PROVE  ConnectionInv'
<1> DEFINE new == [flow |-> f, turn |-> 0]
<1>1. /\ flow[f] = "exchanged" /\ rowLock = {}
      /\ credential' = [token |-> new, key |-> secret] /\ lastWord' = f
      /\ flow' = [flow EXCEPT ![f] = "over"]
      /\ UNCHANGED <<rowLock, sync, stateCookie, secret, family, late, abandoned>>
  BY DEF Connect, Sealed, FirstToken
<1>2. Sound /\ FreshFlow(f) /\ ConnectionTypeOK
  BY <1>1 DEF ConnectionInv, Sound
<1>3. new \in Token /\ secret \in Secrets
  BY <1>2 DEF Token, ConnectionTypeOK
<1>4. credential'.token = new /\ credential'.token.flow = f /\ credential'.token.turn = 0
  BY <1>1
<1> HIDE DEF new
<1>5. ConnectionTypeOK'
  BY <1>1, <1>2, <1>3 DEF ConnectionTypeOK, Flows
<1>6. \A s \in Syncs : sync'[s].pc = "idle"
  BY <1>1, <1>2, NobodyHolds
<1>7. \A s \in Syncs : SyncSound(s)' /\ Live(s)'
  BY <1>1, <1>6 DEF SyncSound, Live
<1>8. \A g \in Flows : flow'[g] # "over" => FreshFlow(g)'
  BY <1>1, <1>2, <1>4 DEF FreshFlow, Sound, ConnectionTypeOK
<1>9. StoredTokenIsLive' /\ LastWordStands'
  BY <1>1, <1>2, <1>4 DEF FreshFlow, StoredTokenIsLive, LastWordStands
<1> QED
  BY <1>1, <1>2, <1>5, <1>7, <1>8, <1>9 DEF ConnectionInv, Sound

LEMMA InvDisconnect ==
    ASSUME ConnectionInv, DisconnectAccount
    PROVE  ConnectionInv'
<1>1. /\ rowLock = {} /\ credential' = NoCredential /\ lastWord' = 0
      /\ UNCHANGED <<rowLock, sync, flow, stateCookie, secret, family, late, abandoned>>
  BY DEF DisconnectAccount
<1>2. ConnectionTypeOK /\ Sound
  BY DEF ConnectionInv, Sound
<1>3. credential'.token.flow = 0 /\ ~Connected'
  BY <1>1 DEF NoCredential, NoToken, Connected
<1>4. ConnectionTypeOK'
  BY <1>1, <1>2, ConnectionAssumption DEF ConnectionTypeOK
<1>5. \A s \in Syncs : sync'[s].pc = "idle"
  BY <1>1, <1>2, NobodyHolds
<1>6. \A s \in Syncs : SyncSound(s)' /\ Live(s)'
  BY <1>1, <1>5 DEF SyncSound, Live
<1>7. \A g \in Flows : flow'[g] # "over" => FreshFlow(g)'
  BY <1>1, <1>2, <1>3, ConnectionAssumption DEF Sound, FreshFlow, Flows
<1> QED
  BY <1>1, <1>2, <1>3, <1>4, <1>6, <1>7 DEF ConnectionInv, Sound, LastWordStands, StoredTokenIsLive

LEMMA InvLock ==
    ASSUME ConnectionInv, NEW s \in Syncs, LockAndSend(s)
    PROVE  ConnectionInv'
<1>1. /\ sync[s].pc = "idle" /\ Connected /\ rowLock = {} /\ rowLock' = {s}
      /\ sync' = [sync EXCEPT ![s] = [pc |-> "sent", token |-> credential.token,
                                      answer |-> NoToken]]
      /\ UNCHANGED <<credential, flow, stateCookie, secret, family, late, abandoned, lastWord>>
  BY DEF LockAndSend
<1>2. ConnectionTypeOK /\ Sound /\ StoredTokenIsLive
  BY DEF ConnectionInv, Sound
<1>3. credential.token \in Token
  BY <1>1, <1>2, StoredToken
<1>4. /\ sync'[s].pc = "sent" /\ sync'[s].token = credential.token /\ Connected'
      /\ \A q \in Syncs \ {s} : sync'[q].pc = "idle"
  BY <1>1, <1>2, NobodyHolds DEF ConnectionTypeOK, Connected
<1>5. ConnectionTypeOK'
  <2>1. sync' \in [Syncs -> Record]
    BY <1>1, <1>2, <1>3 DEF ConnectionTypeOK, Record
  <2> QED
    BY <1>1, <1>2, <2>1, LockIsSmall DEF ConnectionTypeOK, Record
<1>6. \A q \in Syncs : SyncSound(q)'
  BY <1>1, <1>4 DEF SyncSound
<1>7. \A q \in Syncs : Live(q)'
  BY <1>1, <1>2, <1>4 DEF Live, StoredTokenIsLive
<1> QED
  BY <1>1, <1>2, <1>5, <1>6, <1>7 DEF ConnectionInv, Sound, FreshFlow, LastWordStands, StoredTokenIsLive

\* What Atlassian's answer is, whatever was sent: of the same family, and a family that is live
\* stays so when its current token is the one sent.
LEMMA AnswersSound ==
    ASSUME ConnectionTypeOK, NEW t \in Token, NEW a \in Answers(t)
    PROVE  /\ a[1] = NoToken \/ (a[1] \in Token /\ a[1].flow = t.flow /\ a[1] # NoToken)
           /\ a[2] \in [turn : Nat, revoked : BOOLEAN]
           /\ family[t.flow] = [turn |-> t.turn, revoked |-> FALSE] =>
                 a[1] # NoToken /\ a[2] = [turn |-> a[1].turn, revoked |-> FALSE]
<1> DEFINE fam == family[t.flow]
<1>1. /\ t.flow \in Flows /\ t.turn \in Nat /\ t = [flow |-> t.flow, turn |-> t.turn]
      /\ fam \in [turn : Nat, revoked : BOOLEAN] /\ t.flow # 0
  BY DEF Token, ConnectionTypeOK, Flows
<1>2. fam = [turn |-> fam.turn, revoked |-> fam.revoked] /\ fam.turn \in Nat /\ fam.revoked \in BOOLEAN
  BY <1>1
<1>3. t # NoToken /\ NoToken.flow = 0
  BY <1>1 DEF NoToken
<1>4. CASE a = <<NoToken, fam>> /\ (fam.revoked \/ t.turn # fam.turn)
  <2>1. a[1] = NoToken /\ a[2] = fam
    BY <1>4
  <2>2. fam # [turn |-> t.turn, revoked |-> FALSE]
    BY <1>2, <1>4
  <2> QED
    BY <1>1, <2>1, <2>2
<1>5. CASE a = <<NoToken, [fam EXCEPT !.revoked = TRUE]>> /\ t.turn # fam.turn
  <2>1. a[1] = NoToken /\ a[2] = [fam EXCEPT !.revoked = TRUE]
    BY <1>5
  <2>2. a[2] \in [turn : Nat, revoked : BOOLEAN]
    BY <1>2, <2>1
  <2>3. fam # [turn |-> t.turn, revoked |-> FALSE]
    BY <1>2, <1>5
  <2> QED
    BY <2>1, <2>2, <2>3
<1>6. CASE a = <<t, fam>> /\ ~fam.revoked /\ t.turn = fam.turn
  BY <1>1, <1>2, <1>3, <1>6
<1>7. CASE /\ a = <<[t EXCEPT !.turn = t.turn + 1], [fam EXCEPT !.turn = fam.turn + 1]>>
           /\ ~fam.revoked /\ t.turn = fam.turn
  <2> DEFINE u == [t EXCEPT !.turn = t.turn + 1]
             g == [fam EXCEPT !.turn = fam.turn + 1]
  <2>1. u = [flow |-> t.flow, turn |-> t.turn + 1] /\ u.flow = t.flow /\ u.turn = t.turn + 1
    BY <1>1
  <2>2. g = [turn |-> fam.turn + 1, revoked |-> fam.revoked]
    BY <1>2
  <2>3. u \in Token /\ u # NoToken
    BY <1>1, <1>3, <2>1 DEF Token
  <2>4. a[1] = u /\ a[2] = g
    BY <1>7
  <2>5. g \in [turn : Nat, revoked : BOOLEAN]
    BY <1>2, <2>2
  <2>6. g = [turn |-> u.turn, revoked |-> FALSE]
    <3>1. fam.revoked = FALSE /\ u.turn = fam.turn + 1
      BY <1>2, <1>7, <2>1
    <3> HIDE DEF u, g, fam
    <3> QED
      BY <2>2, <3>1
  <2> QED
    BY <2>1, <2>3, <2>4, <2>5, <2>6
<1> QED
  BY <1>4, <1>5, <1>6, <1>7, <1>2 DEF Answers

LEMMA InvAnswer ==
    ASSUME ConnectionInv, NEW s \in Syncs, Answer(s)
    PROVE  ConnectionInv'
<1> DEFINE t == sync[s].token
<1>1. PICK a \in Answers(t) :
         /\ family' = [family EXCEPT ![t.flow] = a[2]]
         /\ sync' = [sync EXCEPT ![s].answer = a[1],
                                 ![s].pc = IF a[1] = NoToken THEN "refused" ELSE "answered"]
  BY DEF Answer
<1>2. /\ sync[s].pc = "sent"
      /\ UNCHANGED <<credential, rowLock, flow, stateCookie, secret, late, abandoned, lastWord>>
  BY DEF Answer
<1>3. ConnectionTypeOK /\ Sound /\ Live(s) /\ LastWordStands
  BY DEF ConnectionInv, Sound
<1>4. /\ rowLock = {s} /\ Connected /\ t = credential.token /\ t \in Token
      /\ \A q \in Syncs \ {s} : sync[q].pc = "idle"
  BY <1>2, <1>3, Unlocking
<1>5. /\ a[1] = NoToken \/ (a[1] \in Token /\ a[1].flow = t.flow /\ a[1] # NoToken)
      /\ a[2] \in [turn : Nat, revoked : BOOLEAN]
      /\ family[t.flow] = [turn |-> t.turn, revoked |-> FALSE] =>
            a[1] # NoToken /\ a[2] = [turn |-> a[1].turn, revoked |-> FALSE]
  BY <1>3, <1>4, AnswersSound
<1>6. t.flow \in Flows
  BY <1>4 DEF Token
<1>7. sync[s] \in Record /\ sync \in [Syncs -> Record]
  BY <1>3 DEF ConnectionTypeOK, Record
<1>8. /\ sync'[s].answer = a[1] /\ sync'[s].token = t
      /\ sync'[s].pc = IF a[1] = NoToken THEN "refused" ELSE "answered"
      /\ \A q \in Syncs \ {s} : sync'[q] = sync[q]
      /\ sync' \in [Syncs -> Record]
  BY <1>1, <1>5, <1>7 DEF Record
<1>9. /\ family' \in [Flows -> [turn : Nat, revoked : BOOLEAN]]
      /\ family'[t.flow] = a[2] /\ \A g \in Flows \ {t.flow} : family'[g] = family[g]
  BY <1>1, <1>3, <1>5, <1>6 DEF ConnectionTypeOK
<1> HIDE DEF t
<1>10. ConnectionTypeOK'
  BY <1>2, <1>3, <1>8, <1>9 DEF ConnectionTypeOK, Record
<1>11. \A q \in Syncs : SyncSound(q)'
  BY <1>2, <1>3, <1>4, <1>5, <1>8 DEF SyncSound, Sound, Connected
<1>12. \A g \in Flows : flow'[g] # "over" => FreshFlow(g)'
  BY <1>2, <1>3, <1>4, <1>6, <1>9 DEF Sound, FreshFlow
<1>13. Live(s)'
  BY <1>2, <1>3, <1>4, <1>5, <1>8, <1>9 DEF Live
<1>14. \A q \in Syncs : Live(q)'
  <2>1. \A q \in Syncs \ {s} : sync'[q].pc = "idle"
    BY <1>4, <1>8
  <2>2. \A q \in Syncs \ {s} : Live(q)'
    BY <2>1 DEF Live
  <2> QED
    BY <1>13, <2>2
<1> QED
  BY <1>2, <1>3, <1>4, <1>10, <1>11, <1>12, <1>14 DEF ConnectionInv, Sound, LastWordStands, StoredTokenIsLive

LEMMA InvStore ==
    ASSUME ConnectionInv, NEW s \in Syncs, StoreReplacement(s)
    PROVE  ConnectionInv'
<1> DEFINE u == sync[s].answer
<1>1. /\ sync[s].pc = "answered" /\ credential' = [token |-> u, key |-> secret]
      /\ rowLock' = rowLock \ {s} /\ sync' = [sync EXCEPT ![s] = Resting]
      /\ UNCHANGED <<flow, stateCookie, secret, family, late, abandoned, lastWord>>
  BY DEF StoreReplacement, Sealed
<1>2. ConnectionTypeOK /\ Sound /\ Live(s) /\ LastWordStands /\ SyncSound(s)
  BY DEF ConnectionInv, Sound
<1>3. /\ rowLock' = {} /\ Connected /\ sync[s].token = credential.token /\ credential.token \in Token
      /\ \A q \in Syncs \ {s} : sync[q].pc = "idle"
  BY <1>1, <1>2, Unlocking
<1>4. u \in Token /\ u.flow = credential.token.flow
  BY <1>1, <1>2, <1>3 DEF SyncSound
<1>5. credential'.token = u /\ credential'.token.flow = credential.token.flow
  BY <1>1, <1>4
<1>6. \A q \in Syncs : sync'[q].pc = "idle"
  BY <1>1, <1>2, <1>3 DEF ConnectionTypeOK, Resting
<1>7. ConnectionTypeOK'
  <2>1. sync' \in [Syncs -> Record]
    BY <1>1, <1>2 DEF ConnectionTypeOK, Record, Resting
  <2>2. Cardinality(rowLock') <= 1
    BY <1>3, LockIsSmall
  <2>3. credential' \in [token : Token, key : Secrets]
    BY <1>1, <1>2, <1>4 DEF ConnectionTypeOK
  <2> QED
    BY <1>1, <1>2, <1>3, <2>1, <2>2, <2>3 DEF ConnectionTypeOK, Record
<1>8. \A q \in Syncs : SyncSound(q)' /\ Live(q)'
  BY <1>3, <1>6 DEF SyncSound, Live
<1>9. \A g \in Flows : flow'[g] # "over" => FreshFlow(g)'
  BY <1>1, <1>2, <1>5 DEF Sound, FreshFlow
<1>10. StoredTokenIsLive'
  BY <1>1, <1>2, <1>5 DEF StoredTokenIsLive, Live
<1> QED
  BY <1>1, <1>2, <1>3, <1>5, <1>7, <1>8, <1>9, <1>10 DEF ConnectionInv, Sound, LastWordStands

\* A sync that lets go without having stored anything.
LEMMA InvLetGo ==
    ASSUME ConnectionInv, NEW s \in Syncs, Refused(s) \/ Abandon(s)
    PROVE  ConnectionInv'
<1>1. /\ sync[s].pc # "idle" /\ rowLock' = rowLock \ {s} /\ sync' = [sync EXCEPT ![s] = Resting]
      /\ UNCHANGED <<credential, flow, stateCookie, secret, family, lastWord>>
  BY DEF Refused, Abandon
<1>2. ConnectionTypeOK /\ Sound /\ Live(s) /\ LastWordStands /\ SyncSound(s)
  BY DEF ConnectionInv, Sound
<1>3. /\ rowLock' = {} /\ Connected /\ sync[s].token = credential.token /\ credential.token \in Token
      /\ \A q \in Syncs \ {s} : sync[q].pc = "idle"
  BY <1>1, <1>2, Unlocking
<1>4. credential.token.flow \in Flows /\ flow[credential.token.flow] = "over"
  BY <1>2, <1>3 DEF Token, Sound, FreshFlow
<1>5. /\ late' \subseteq Token /\ abandoned' \subseteq Flows
      /\ abandoned \subseteq abandoned' /\ abandoned' \subseteq abandoned \cup {credential.token.flow}
      /\ (late' = late \/ late' = late \cup {credential.token})
      /\ credential.token.flow \in abandoned'
  <2>1. CASE Refused(s)
    <3>1. UNCHANGED <<late, abandoned>> /\ sync[s].pc = "refused"
      BY <2>1 DEF Refused
    <3>2. credential.token.flow \in abandoned
      BY <1>2, <1>3, <3>1 DEF Live
    <3> QED
      BY <1>2, <3>1, <3>2 DEF ConnectionTypeOK
  <2>2. CASE Abandon(s)
    <3>1. /\ (late' = late \/ late' = late \cup {credential.token})
          /\ abandoned' = abandoned \cup {credential.token.flow}
      BY <1>3, <2>2 DEF Abandon
    <3> QED
      BY <1>2, <1>3, <1>4, <3>1 DEF ConnectionTypeOK
  <2> QED
    BY <2>1, <2>2 DEF Refused, Abandon
<1>6. \A q \in Syncs : sync'[q].pc = "idle"
  BY <1>1, <1>2, <1>3 DEF ConnectionTypeOK, Resting
<1>7. ConnectionTypeOK'
  <2>1. sync' \in [Syncs -> Record]
    BY <1>1, <1>2 DEF ConnectionTypeOK, Record, Resting
  <2>2. Cardinality(rowLock') <= 1
    BY <1>3, LockIsSmall
  <2> QED
    BY <1>1, <1>2, <1>3, <1>5, <2>1, <2>2 DEF ConnectionTypeOK, Record
<1>8. \A q \in Syncs : SyncSound(q)' /\ Live(q)'
  BY <1>3, <1>6 DEF SyncSound, Live
<1>9. \A g \in Flows : flow'[g] # "over" => FreshFlow(g)'
  BY <1>1, <1>2, <1>4, <1>5 DEF Sound, FreshFlow
<1>10. \A t \in late' : t.flow \in abandoned'
  BY <1>2, <1>5 DEF Sound
<1>11. StoredTokenIsLive'
  BY <1>1, <1>2, <1>5 DEF StoredTokenIsLive, Live
<1> QED
  BY <1>1, <1>2, <1>3, <1>7, <1>8, <1>9, <1>10, <1>11 DEF ConnectionInv, Sound, LastWordStands

\* A late exchange disturbs only families that were abandoned.
LEMMA InvLate ==
    ASSUME ConnectionInv, NEW t \in late, AnswerLate(t)
    PROVE  ConnectionInv'
<1>1. /\ late' = late \ {t}
      /\ UNCHANGED <<credential, rowLock, sync, flow, stateCookie, secret, abandoned, lastWord>>
  BY DEF AnswerLate
<1>2. ConnectionTypeOK /\ Sound /\ LastWordStands /\ StoredTokenIsLive /\ \A s \in Syncs : Live(s)
  BY DEF ConnectionInv, Sound
<1>3. t \in Token /\ t.flow \in abandoned /\ t.flow \in Flows
  BY <1>2 DEF Sound, ConnectionTypeOK, Token
<1>4. /\ family' \in [Flows -> [turn : Nat, revoked : BOOLEAN]]
      /\ \A g \in Flows \ {t.flow} : family'[g] = family[g]
  <2>1. CASE UNCHANGED family
    BY <1>2, <2>1 DEF ConnectionTypeOK
  <2>2. CASE \E a \in Answers(t) : family' = [family EXCEPT ![t.flow] = a[2]]
    BY <1>2, <1>3, <2>2, AnswersSound DEF ConnectionTypeOK
  <2> QED
    BY <2>1, <2>2 DEF AnswerLate
<1>5. ConnectionTypeOK'
  BY <1>1, <1>2, <1>4 DEF ConnectionTypeOK
<1>6. \A g \in Flows : g \notin abandoned => family'[g] = family[g]
  BY <1>3, <1>4
<1>7. \A g \in Flows : flow'[g] # "over" => FreshFlow(g)'
  BY <1>1, <1>2, <1>6 DEF Sound, FreshFlow
<1>8. Connected => credential.token.flow \in Flows
  BY <1>2, StoredToken DEF Token
<1>9. \A s \in Syncs : SyncSound(s)'
  BY <1>1, <1>2 DEF Sound, SyncSound, Connected
<1>10. \A s \in Syncs : Live(s)'
  BY <1>1, <1>2, <1>6, <1>8 DEF Live, Sound, SyncSound
<1>11. StoredTokenIsLive'
  BY <1>1, <1>2, <1>6, <1>8 DEF StoredTokenIsLive, Connected
<1> QED
  BY <1>1, <1>2, <1>5, <1>7, <1>9, <1>10, <1>11 DEF ConnectionInv, Sound, LastWordStands

LEMMA InvSecret ==
    ASSUME ConnectionInv, NEW k \in Secrets, ChangeSecret(k)
    PROVE  ConnectionInv'
<1>1. /\ secret' = k
      /\ UNCHANGED <<credential, rowLock, sync, flow, stateCookie, family, late, abandoned, lastWord>>
  BY DEF ChangeSecret
<1> QED
  BY <1>1 DEF ConnectionInv, Sound, ConnectionTypeOK, SyncSound, Live, FreshFlow, LastWordStands,
     StoredTokenIsLive, Connected

LEMMA ConnectionInvNext == ConnectionInv /\ [ConnectionNext]_connectionVars => ConnectionInv'
<1> SUFFICES ASSUME ConnectionInv, [ConnectionNext]_connectionVars PROVE ConnectionInv'
  OBVIOUS
<1>1. CASE UNCHANGED connectionVars
  BY <1>1 DEF connectionVars, ConnectionInv, Sound, ConnectionTypeOK, SyncSound, Live, FreshFlow,
     LastWordStands, StoredTokenIsLive, Connected
<1>2. CASE \E f \in Flows : BeginFlow(f) \/ Consent(f) \/ ExchangeCode(f) \/ FailFlow(f) \/ Connect(f)
  BY <1>2, InvFlow, InvConnect
<1>3. CASE DisconnectAccount
  BY <1>3, InvDisconnect
<1>4. CASE \E s \in Syncs :
              LockAndSend(s) \/ Answer(s) \/ StoreReplacement(s) \/ Refused(s) \/ Abandon(s)
  BY <1>4, InvLock, InvAnswer, InvStore, InvLetGo
<1>5. CASE \E t \in late : AnswerLate(t)
  BY <1>5, InvLate
<1>6. CASE \E k \in Secrets : ChangeSecret(k)
  BY <1>6, InvSecret
<1> QED
  BY <1>1, <1>2, <1>3, <1>4, <1>5, <1>6 DEF ConnectionNext

-------------------------------------------------------------------------------
LEMMA ConnectionIsSound == ConnectionSpec => []ConnectionInv
  BY ConnectionInvInit, ConnectionInvNext, PTL DEF ConnectionSpec

\* Every value of the connection has its type, and at most one sync holds the credential's lock.
THEOREM ConnectionIsTyped == ConnectionSpec => []ConnectionTypeOK
<1>1. ConnectionInv => ConnectionTypeOK
  BY DEF ConnectionInv, Sound
<1> QED
  BY <1>1, ConnectionIsSound, PTL

\* However many syncs spend the refresh token, and whatever people connect meanwhile, the stored
\* token is the live one of its family unless an exchange was abandoned (withRefreshedAccessToken).
THEOREM TokensAreLive == ConnectionSpec => []StoredTokenIsLive
<1>1. ConnectionInv => StoredTokenIsLive
  BY DEF ConnectionInv
<1> QED
  BY <1>1, ConnectionIsSound, PTL

\* No sync undoes a reconnection or a disconnection (connectJiraAccount, disconnectJiraAccount).
THEOREM TheLastWordStands == ConnectionSpec => []LastWordStands
<1>1. ConnectionInv => LastWordStands
  BY DEF ConnectionInv
<1> QED
  BY <1>1, ConnectionIsSound, PTL
====
