---- MODULE LoginThrottle ----
(* The fixed-window counters in front of a sign-in (lib/rate-limit.ts,         *)
(* lib/login-throttle.ts, lib/client-key.ts), driven in the same order by both *)
(* doors: the server action signIn and POST /api/v1/auth/login.  One process;  *)
(* a restart forgets every counter and is not modelled.                        *)

EXTENDS Naturals, Sequences, FiniteSets, Functions

CONSTANTS
    Clients,            \* client keys: a forwarded address, or the one all callers share
    Emails,             \* e-mail keys
    Overflow,           \* OVERFLOW_KEY
    Doors,              \* sign-ins that can be in flight at once
    Limit, Window,      \* RATE_LIMIT_AUTH_MAX, RATE_LIMIT_AUTH_WINDOW_MS in ticks
    MaxKeys,            \* MAX_TRACKED_KEYS
    MaxTicks,           \* bound: ticks of the clock
    MaxCount            \* bound: no sign-in begins while a live bucket counts this much

ASSUME ThrottleAssumption ==
    /\ {Limit, Window, MaxKeys} \subseteq Nat \ {0}
    /\ MaxTicks \in Nat /\ MaxCount \in Nat
    /\ Clients # {} /\ Emails # {} /\ Overflow \notin Clients \cup Emails

VARIABLES
    buckets,    \* the Map: tracked keys to their counts and the end of their window
    tick,
    door,       \* door[r]: the sign-in r, between two awaits
    checks      \* history: the credential checks made for each e-mail key, oldest first

throttleVars == <<buckets, tick, door, checks>>

Keys == Clients \cup Emails

Bucket == [count : Nat, resetAt : Nat]

\* A credential check: when, and the bucket its attempt was counted in.
Check == [at : Nat, bucket : Emails \cup {Overflow}]

ThrottleTypeOK ==
    /\ DOMAIN buckets \subseteq Keys \cup {Overflow}
    /\ \A k \in DOMAIN buckets : buckets[k] \in Bucket
    /\ tick \in Nat
    /\ door \in [Doors -> [pc : {"idle", "allowed", "checking"}, client : Clients, email : Emails]]
    /\ checks \in [Emails -> Seq(Check)]

AtRest == [pc |-> "idle", client |-> CHOOSE c \in Clients : TRUE,
           email |-> CHOOSE m \in Emails : TRUE]

-------------------------------------------------------------------------------
\* The counter

\* resolveKey: a key that is not tracked yet shares a bucket once the table is full.
Resolve(map, k) == IF k \in DOMAIN map \/ Cardinality(DOMAIN map) < MaxKeys THEN k ELSE Overflow

\* peek: changes nothing.
Peek(k) ==
    LET b == Resolve(buckets, k)
    IN  b \in DOMAIN buckets /\ buckets[b].resetAt > tick => buckets[b].count < Limit

\* The sweep at the start of consume.
Swept == Restrict(buckets, {k \in DOMAIN buckets : buckets[k].resetAt > tick})

\* consume: the map after it.
Consumed(k) ==
    LET b == Resolve(Swept, k)
    IN  [j \in DOMAIN Swept \cup {b} |->
            IF j # b THEN Swept[j]
            ELSE IF b \in DOMAIN Swept THEN [Swept[b] EXCEPT !.count = Swept[b].count + 1]
            ELSE [count |-> 1, resetAt |-> tick + Window]]

\* Mutant of Granted: the attempt that exceeds the limit is let through.
GrantedLate(k) == Consumed(k)[Resolve(Swept, k)].count <= Limit + 1

\* consume: its verdict.
Granted(k) == Consumed(k)[Resolve(Swept, k)].count <= Limit

-------------------------------------------------------------------------------
\* A sign-in

\* consumeEmail and recordFailure: an attempt is counted in the bucket of its key.
Pay(k) == buckets' = Consumed(k)

\* clientAllowed: asked before anything is spent.
ClientAllowed(c) == Peek(c)

\* A client that is locked out is refused before anything is spent or read.
Arrive(r, c, m) ==
    /\ door[r].pc = "idle"
    /\ \A k \in DOMAIN Swept : Swept[k].count < MaxCount
    /\ ClientAllowed(c)
    /\ door' = [door EXCEPT ![r] = [pc |-> "allowed", client |-> c, email |-> m]]
    /\ UNCHANGED <<buckets, tick, checks>>

\* consumeEmail: every attempt pays.  A granted one goes on to check the credentials.
SpendEmail(r) ==
    LET m == door[r].email
    IN  /\ door[r].pc = "allowed"
        /\ Pay(m)
        /\ IF Granted(m)
           THEN /\ checks' = [checks EXCEPT ![m] =
                                  Append(checks[m], [at |-> tick, bucket |-> Resolve(Swept, m)])]
                /\ door' = [door EXCEPT ![r].pc = "checking"]
           ELSE /\ door' = [door EXCEPT ![r] = AtRest]
                /\ UNCHANGED checks
        /\ UNCHANGED tick

\* The credentials were right: nothing is charged to the client.
Succeed(r) ==
    /\ door[r].pc = "checking"
    /\ door' = [door EXCEPT ![r] = AtRest]
    /\ UNCHANGED <<buckets, tick, checks>>

\* recordFailure
Fail(r) ==
    /\ door[r].pc = "checking"
    /\ Pay(door[r].client)
    /\ door' = [door EXCEPT ![r] = AtRest]
    /\ UNCHANGED <<tick, checks>>

PassTime ==
    /\ tick < MaxTicks
    /\ tick' = tick + 1
    /\ UNCHANGED <<buckets, door, checks>>

ThrottleInit ==
    /\ buckets = [k \in {} |-> [count |-> 0, resetAt |-> 0]]
    /\ tick = 0
    /\ door = [r \in Doors |-> AtRest]
    /\ checks = [m \in Emails |-> <<>>]

ThrottleNext ==
    \/ PassTime
    \/ \E r \in Doors :
          \/ \E c \in Clients, m \in Emails : Arrive(r, c, m)
          \/ SpendEmail(r) \/ Succeed(r) \/ Fail(r)

ThrottleSpec == ThrottleInit /\ [][ThrottleNext]_throttleVars

-------------------------------------------------------------------------------
\* Properties

\* The credential checks made for m in the Window ticks that begin at t.
ChecksWithin(m, t) == Cardinality({i \in DOMAIN checks[m] : checks[m][i].at \in t..(t + Window - 1)})

\* A credential check of m was counted in the overflow bucket.
Crowded(m) == \E i \in DOMAIN checks[m] : checks[m][i].bucket = Overflow

\* "2x the limit across that boundary", less the attempt that opened the first window, is the most
\* an account is tried in any stretch of one window, as long as the table never overflowed for it.
\* A key that moves between a bucket of its own and the shared one has both, and twice as much.
AttemptsAreBounded ==
    \A m \in Emails, t \in 0..MaxTicks :
        ChecksWithin(m, t) <= (IF Crowded(m) THEN 2 ELSE 1) * (2 * Limit - 1)

\* Keys supplied by callers cannot grow the table: one bucket more than MAX_TRACKED_KEYS at most,
\* however they come, expire and overflow.
TableIsBounded == Cardinality(DOMAIN buckets) <= MaxKeys + 1
====
