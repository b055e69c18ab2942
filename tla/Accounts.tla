---- MODULE Accounts ----
(* Accounts and their sessions (domain/admin.ts, domain/auth.ts,               *)
(* lib/session.ts, lib/auth.ts) as concurrent requests.  A session is a signed *)
(* cookie that carries only who and when; the row it is checked against can    *)
(* revoke it, by a time stamp.  A request reads the row, may take the time,    *)
(* and writes: three steps that other requests come between, so the stamp it   *)
(* writes can be older than the one it replaces.                               *)

EXTENDS Naturals, FiniteSets

CONSTANTS
    People,             \* e-mail addresses, each the identity of at most one User row
    Passwords,
    Calls,              \* requests that can be in flight at once
    SessionTtl,         \* SESSION_TTL_HOURS in ticks of the clock
    MaxCalls,           \* bound: requests that are ever begun
    MaxClock            \* bound: ticks of the clock

ASSUME AccountsAssumption ==
    /\ SessionTtl \in Nat /\ MaxCalls \in Nat /\ MaxClock \in Nat
    /\ Passwords # {} /\ People # {}

VARIABLES
    user,       \* user[u]: the User row
    cookies,    \* every session cookie ever issued; a copy of one is the same cookie
    clock,
    call,       \* call[r]: what request r holds in memory
    begun,      \* requests begun so far, for the bound only
    ended,      \* history: sessions that a committed revocation was to end
    raced,      \* history: people on whose account two requests of Touching overlapped
    leadRaced,  \* history: whether the transactions that deactivate two people overlapped
    demoted     \* history: whether a role change took the role QA_LEAD from someone

accountVars == <<user, cookies, clock, call, begun, ended, raced, leadRaced, demoted>>

Roles == {"QA_LEAD", "QA_TESTER"}

User == [version   : Nat,           \* 0 for no such row
         role      : Roles,
         active    : BOOLEAN,
         hash      : Passwords,
         validFrom : Nat]           \* sessionsValidFrom, 0 for NULL

Seen == [version : Nat, role : Roles, active : BOOLEAN]

Cookie == [user : People, at : Nat, proof : Passwords]   \* proof: history, the password shown

Versioned == {"role", "profile", "activate", "deactivate", "reset"}

Stamping == {"deactivate", "reset", "password", "signout"}

\* The operations whose order on one account its sessions depend on.
Touching == Stamping \cup {"login"}

Call == [pc    : {"idle", "read", "stamped"},
         op    : Versioned \cup Stamping \cup {"login", "create"},
         user  : People,            \* the account it is about
         seen  : Seen,              \* what an administrator's request read of it
         role  : Roles,             \* what it is to write
         hash  : Passwords,
         now   : Nat]               \* new Date()

AnyPassword == CHOOSE p \in Passwords : TRUE

Nobody == [version |-> 0, role |-> "QA_TESTER", active |-> FALSE, hash |-> AnyPassword,
           validFrom |-> 0]

Unread == [version |-> 0, role |-> "QA_TESTER", active |-> FALSE]

AnyPerson == CHOOSE u \in People : TRUE

Idle == [pc |-> "idle", op |-> "login", user |-> AnyPerson, seen |-> Unread,
         role |-> "QA_TESTER", hash |-> AnyPassword, now |-> 0]

AccountsTypeOK ==
    /\ user \in [People -> User]
    /\ cookies \subseteq Cookie /\ ended \subseteq Cookie
    /\ clock \in Nat
    /\ call \in [Calls -> Call] /\ begun \in Nat
    /\ raced \subseteq People
    /\ leadRaced \in BOOLEAN /\ demoted \in BOOLEAN

ActiveLead(u) == user[u].version > 0 /\ user[u].role = "QA_LEAD" /\ user[u].active

-------------------------------------------------------------------------------
\* Sessions

\* isSessionRevoked
Revoked(c) == c.at < user[c.user].validFrom

\* verifySessionCookieValue: the signature is good and the token has not expired.
Verifies(c) == c \in cookies /\ clock <= c.at + SessionTtl

\* requireAuth
Accepted(c) ==
    /\ Verifies(c)
    /\ user[c.user].version > 0 /\ user[c.user].active
    /\ ~Revoked(c)

SignedIn(u) == \E c \in cookies : c.user = u /\ Accepted(c)

\* createSessionCookieValue
Issue(u, at, p) == cookies' = cookies \cup {[user |-> u, at |-> at, proof |-> p]}

-------------------------------------------------------------------------------
\* Reading: everything a request does before it writes or takes the time

Begin(r, op, u, seen, role, p) ==
    /\ call[r].pc = "idle" /\ begun < MaxCalls
    /\ begun' = begun + 1
    /\ call' = [call EXCEPT ![r] = [pc |-> "read", op |-> op, user |-> u,
                                    seen |-> seen, role |-> role, hash |-> p, now |-> 0]]
    /\ UNCHANGED <<user, cookies, clock, ended, raced, leadRaced, demoted>>

\* requireAuth, and the role gate canAdmin of every service in admin.ts.
Administers(a) == SignedIn(a) /\ user[a].role = "QA_LEAD"

\* createUser up to its transaction: no account has the address yet.
BeginCreateUser(r, a, u, role, p) ==
    /\ Administers(a) /\ user[u].version = 0
    /\ Begin(r, "create", u, Unread, role, p)

\* What updateUserRole, updateUserProfile, setUserActive and resetUserPassword read of the row
\* before their transactions.
BeginAdminister(r, op, a, u, role, p) ==
    /\ Administers(a)
    /\ user[u].version > 0
    /\ Begin(r, op, u,
             [version |-> user[u].version, role |-> user[u].role, active |-> user[u].active],
             role, p)

BeginUpdateRole(r, a, u, role) == BeginAdminister(r, "role", a, u, role, AnyPassword)

\* Names and titles are not modelled; the version is.
BeginUpdateProfile(r, a, u) == BeginAdminister(r, "profile", a, u, user[u].role, AnyPassword)

\* Nobody deactivates themselves, or resets their own password by this way.
BeginSetActive(r, op, a, u) ==
    /\ op = "deactivate" => u # a
    /\ BeginAdminister(r, op, a, u, user[u].role, AnyPassword)

BeginResetPassword(r, a, u, p) ==
    /\ u # a
    /\ BeginAdminister(r, "reset", a, u, user[u].role, p)

\* changeOwnPassword up to its hash: the current password is verified against the row read.
BeginChangePassword(r, u, p) ==
    /\ SignedIn(u)
    /\ Begin(r, "password", u, Unread, "QA_TESTER", p)

\* authenticate: the account is active and the password is right.
BeginSignIn(r, u) ==
    /\ user[u].version > 0 /\ user[u].active
    /\ Begin(r, "login", u, Unread, "QA_TESTER", user[u].hash)

\* signOut and POST /auth/logout: a signed, unexpired cookie is enough, revoked or not.
BeginSignOut(r, u) ==
    /\ \E c \in cookies : c.user = u /\ Verifies(c)
    /\ Begin(r, "signout", u, Unread, "QA_TESTER", AnyPassword)

-------------------------------------------------------------------------------
\* Taking the time

\* Mutant of MayDeactivate: other leads are counted whether active or not.
MayDeactivateCountingAll(r) ==
    /\ (call[r].seen.role = "QA_LEAD" /\ call[r].seen.active) =>
          \E v \in People \ {call[r].user} : user[v].version > 0 /\ user[v].role = "QA_LEAD"

\* The last-lead guard of setUserActive, inside its transaction.  The count sees what is committed
\* now; the role is the one read before.
MayDeactivate(r) ==
    /\ (call[r].seen.role = "QA_LEAD" /\ call[r].seen.active) =>
          \E v \in People \ {call[r].user} : ActiveLead(v)

Stamp(r) ==
    /\ call[r].pc = "read" /\ call[r].op \in Stamping
    /\ call[r].op = "deactivate" => MayDeactivate(r)
    /\ call' = [call EXCEPT ![r].pc = "stamped", ![r].now = clock]
    /\ UNCHANGED <<user, cookies, clock, begun, ended, raced, leadRaced, demoted>>

-------------------------------------------------------------------------------
\* Writing

Finish(r) == call' = [call EXCEPT ![r] = Idle]

\* Whether another request of `ops` on account u is under way, and past one of the points pcs.
Overlaps(r, u, ops, pcs) ==
    \E q \in Calls \ {r} : call[q].pc \in pcs /\ call[q].op \in ops /\ call[q].user = u

UnderWay == {"read", "stamped"}

\* The row is still the one read: update({where: {id, version}}).
AccountVersionHolds(r) == user[call[r].user].version = call[r].seen.version

\* The one UPDATE of a request that has read and, where it stamps, taken the time.
Update(r, op, row) ==
    LET u == call[r].user
    IN  /\ call[r].op = op
        /\ call[r].pc = (IF op \in Stamping THEN "stamped" ELSE "read")
        /\ op \in Versioned => AccountVersionHolds(r)
        /\ user' = [user EXCEPT ![u] = IF op \in Versioned
                                       THEN [row EXCEPT !.version = user[u].version + 1] ELSE row]
        /\ Finish(r)
        /\ UNCHANGED <<clock, begun>>

\* What the histories make of a stamp.
Ends(r) ==
    LET u == call[r].user
    IN  /\ ended' = ended \cup {c \in cookies : c.user = u /\ c.at < call[r].now}
        /\ raced' = IF Overlaps(r, u, Touching, UnderWay) THEN raced \cup {u} ELSE raced

CommitUpdateRole(r) ==
    LET row == user[call[r].user]
    IN  /\ Update(r, "role", [row EXCEPT !.role = call[r].role])
        /\ demoted' = (demoted \/ (row.role = "QA_LEAD" /\ call[r].role # "QA_LEAD"))
        /\ UNCHANGED <<cookies, ended, raced, leadRaced>>

\* The name that is displayed or the email, neither of which is kept here.
CommitUpdateProfile(r) ==
    /\ Update(r, "profile", user[call[r].user])
    /\ UNCHANGED <<cookies, ended, raced, leadRaced, demoted>>

Activate(r) ==
    /\ Update(r, "activate", [user[call[r].user] EXCEPT !.active = TRUE])
    /\ UNCHANGED <<cookies, ended, raced, leadRaced, demoted>>

\* Mutant of Deactivate: the sessions are left alone, since an inactive account has none.
DeactivateUnstamped(r) ==
    /\ Update(r, "deactivate", [user[call[r].user] EXCEPT !.active = FALSE])
    /\ Ends(r)
    /\ UNCHANGED <<cookies, demoted, leadRaced>>

Deactivate(r) ==
    LET u == call[r].user
    IN  /\ Update(r, "deactivate", [user[u] EXCEPT !.active = FALSE, !.validFrom = call[r].now])
        /\ Ends(r)
        /\ leadRaced' = (leadRaced \/ \E v \in People \ {u} : Overlaps(r, v, {"deactivate"}, {"stamped"}))
        /\ UNCHANGED <<cookies, demoted>>

CommitResetPassword(r) ==
    /\ Update(r, "reset", [user[call[r].user] EXCEPT !.hash = call[r].hash,
                                                     !.validFrom = call[r].now])
    /\ Ends(r)
    /\ UNCHANGED <<cookies, leadRaced, demoted>>

\* Mutant of CommitChangePassword: the other sessions are left alone.
CommitChangePasswordUnstamped(r) ==
    LET u == call[r].user
    IN  /\ Update(r, "password", [user[u] EXCEPT !.hash = call[r].hash])
        /\ Issue(u, call[r].now, call[r].hash)
        /\ Ends(r)
        /\ UNCHANGED <<leadRaced, demoted>>

\* The owner is issued a cookie of the very instant of the stamp, and nobody else is.
CommitChangePassword(r) ==
    LET u == call[r].user
    IN  /\ Update(r, "password", [user[u] EXCEPT !.hash = call[r].hash, !.validFrom = call[r].now])
        /\ Issue(u, call[r].now, call[r].hash)
        /\ Ends(r)
        /\ UNCHANGED <<leadRaced, demoted>>

\* revokeSessions
CommitSignOut(r) ==
    /\ Update(r, "signout", [user[call[r].user] EXCEPT !.validFrom = call[r].now])
    /\ Ends(r)
    /\ UNCHANGED <<cookies, leadRaced, demoted>>

\* createUser's transaction.  The unique index on email refuses a second one.
CommitCreateUser(r) ==
    /\ call[r].pc = "read" /\ call[r].op = "create"
    /\ user[call[r].user].version = 0
    /\ user' = [user EXCEPT ![call[r].user] =
                   [version |-> 1, role |-> call[r].role, active |-> TRUE, hash |-> call[r].hash,
                    validFrom |-> 0]]
    /\ Finish(r)
    /\ UNCHANGED <<cookies, clock, begun, ended, raced, leadRaced, demoted>>

\* The end of a sign-in: the cookie carries the time at which it is made, not the time at
\* which the row was read.
SignIn(r) ==
    LET u == call[r].user
    IN  /\ call[r].pc = "read" /\ call[r].op = "login"
        /\ Issue(u, clock, call[r].hash)
        /\ raced' = IF Overlaps(r, u, Stamping, UnderWay) THEN raced \cup {u} ELSE raced
        /\ Finish(r)
        /\ UNCHANGED <<user, clock, begun, ended, leadRaced, demoted>>

\* 409 and 422: the version has moved on, a guard of the transaction refuses, the address is
\* taken, or the connection breaks before the commit.
Refuse(r) ==
    /\ call[r].pc # "idle"
    /\ Finish(r)
    /\ UNCHANGED <<user, cookies, clock, begun, ended, raced, leadRaced, demoted>>

Tick ==
    /\ clock < MaxClock
    /\ clock' = clock + 1
    /\ UNCHANGED <<user, cookies, call, begun, ended, raced, leadRaced, demoted>>

-------------------------------------------------------------------------------
\* The seed (prisma/seed.ts): accounts that exist when the program is first started.
AccountsInit ==
    /\ \E L \in (SUBSET People) \ {{}} :
          user = [u \in People |->
                    IF u \in L THEN [version |-> 1, role |-> "QA_LEAD", active |-> TRUE,
                                     hash |-> AnyPassword, validFrom |-> 0]
                    ELSE Nobody]
    /\ cookies = {} /\ ended = {}
    /\ clock = 0
    /\ call = [r \in Calls |-> Idle] /\ begun = 0
    /\ raced = {} /\ leadRaced = FALSE /\ demoted = FALSE

AccountsNext ==
    \/ Tick
    \/ \E r \in Calls, u \in People :
          \/ BeginSignIn(r, u) \/ BeginSignOut(r, u)
          \/ \E p \in Passwords : BeginChangePassword(r, u, p)
          \/ \E a \in People, role \in Roles, p \in Passwords :
                BeginCreateUser(r, a, u, role, p)
          \/ \E a \in People :
                \/ \E role \in Roles : BeginUpdateRole(r, a, u, role)
                \/ BeginUpdateProfile(r, a, u)
                \/ \E op \in {"activate", "deactivate"} : BeginSetActive(r, op, a, u)
                \/ \E p \in Passwords : BeginResetPassword(r, a, u, p)
    \/ \E r \in Calls :
          \/ Stamp(r) \/ Refuse(r) \/ SignIn(r) \/ CommitCreateUser(r)
          \/ CommitUpdateRole(r) \/ CommitUpdateProfile(r) \/ Activate(r) \/ Deactivate(r)
          \/ CommitResetPassword(r) \/ CommitChangePassword(r) \/ CommitSignOut(r)

AccountsSpec == AccountsInit /\ [][AccountsNext]_accountVars

-------------------------------------------------------------------------------
\* Properties

\* "Every token issued before it, every copy, everywhere, is refused": a session that a
\* sign-out, deactivation, reset or password change ended is never accepted again, also after
\* the account is reactivated, unless requests on that very account overlapped, when the later
\* commit can write the earlier stamp.
RevocationStands == \A c \in ended : c.user \notin raced => ~Accepted(c)

\* Whoever holds an accepted session has shown the password the account has now, or was
\* admitted in the very instant of the last stamp, or signed in while it was being changed.
SessionsMatchPasswords ==
    \A c \in cookies :
        Accepted(c) /\ c.user \notin raced /\ c.at # user[c.user].validFrom
            => c.proof = user[c.user].hash

\* An active QA Lead remains, unless somebody's role was taken away (updateUserRole has no such
\* rule) or the transactions that deactivate two people overlapped (each counts the other as active).
ActiveLeadRemains == demoted \/ leadRaced \/ \E u \in People : ActiveLead(u)
====
