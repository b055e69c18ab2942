---- MODULE AccountsProofs ----
(* Proofs about Accounts, for any number of people, requests and passwords.    *)
EXTENDS Accounts, TLAPS

\* Time does not run back, and nobody without an account has a session or a request about it.
Past ==
    /\ \A u \in People : user[u].validFrom <= clock
    /\ \A c \in cookies : c.at <= clock /\ user[c.user].version > 0
    /\ \A r \in Calls : call[r].now <= clock
    /\ ended \subseteq cookies

\* What a request has read of a row that nobody has written since is what the row is.
RequestSound(r) ==
    /\ call[r].pc # "idle" /\ call[r].op # "create" => user[call[r].user].version > 0
    /\ call[r].pc # "idle" /\ call[r].op \in Versioned =>
          /\ 0 < call[r].seen.version /\ call[r].seen.version <= user[call[r].user].version
          /\ AccountVersionHolds(r) => /\ call[r].seen.role = user[call[r].user].role
                                       /\ call[r].seen.active = user[call[r].user].active
    /\ call[r].pc = "stamped" => call[r].op \in Stamping

\* On an account where no two requests overlapped, one that has taken its time is later than
\* every stamp and every session, and one that signs in has shown the password of today.
InOrder(r) ==
    call[r].user \notin raced =>
        /\ call[r].pc = "stamped" =>
              /\ user[call[r].user].validFrom <= call[r].now
              /\ \A c \in cookies : c.user = call[r].user => c.at <= call[r].now
        /\ call[r].pc = "read" /\ call[r].op = "login" => call[r].hash = user[call[r].user].hash

EndsCounted(r) ==
    call[r].pc = "stamped" /\ call[r].op = "deactivate" /\ ~demoted /\ ~leadRaced
      /\ call[r].seen.role = "QA_LEAD" /\ call[r].seen.active
      => \E v \in People \ {call[r].user} : ActiveLead(v)

AccountsInv ==
    /\ AccountsTypeOK
    /\ Past
    /\ \A r \in Calls : RequestSound(r) /\ InOrder(r) /\ EndsCounted(r)
    /\ \A c \in ended : c.user \notin raced => Revoked(c)
    /\ \A c \in cookies : c.user \notin raced /\ user[c.user].validFrom < c.at
                             => c.proof = user[c.user].hash
    /\ ActiveLeadRemains

-------------------------------------------------------------------------------
\* Types

LEMMA AccountsPlainTypes ==
    /\ AnyPassword \in Passwords /\ AnyPerson \in People
    /\ Nobody \in User /\ Unread \in Seen /\ Idle \in Call
    /\ Idle.pc = "idle" /\ Idle.now = 0
<1>1. AnyPassword \in Passwords /\ AnyPerson \in People
  BY AccountsAssumption DEF AnyPassword, AnyPerson
<1>2. Nobody \in User /\ Unread \in Seen
  BY <1>1 DEF Nobody, User, Unread, Seen, Roles
<1> QED
  BY <1>1, <1>2 DEF Idle, Call, Roles

LEMMA CallIsTyped ==
    ASSUME AccountsTypeOK, NEW r \in Calls
    PROVE  /\ call[r] \in Call /\ call[r].user \in People /\ call[r].now \in Nat
           /\ call[r].seen \in Seen /\ call[r].seen.version \in Nat /\ call[r].role \in Roles
           /\ call[r].hash \in Passwords
           /\ user[call[r].user] \in User
  BY DEF AccountsTypeOK, Call, Seen

LEMMA RowIsTyped ==
    ASSUME AccountsTypeOK, NEW u \in People
    PROVE  /\ user[u] \in User /\ user[u].version \in Nat /\ user[u].validFrom \in Nat
           /\ user[u].role \in Roles /\ user[u].active \in BOOLEAN /\ user[u].hash \in Passwords
  BY DEF AccountsTypeOK, User

LEMMA CookieIsTyped ==
    ASSUME AccountsTypeOK, NEW c \in cookies
    PROVE  c \in Cookie /\ c.user \in People /\ c.at \in Nat
  BY DEF AccountsTypeOK, Cookie

\* A request that is over holds nothing.
LEMMA OverIsSound ==
    ASSUME AccountsTypeOK, NEW r \in Calls, Finish(r)
    PROVE  /\ call' \in [Calls -> Call] /\ call'[r] = Idle
           /\ \A q \in Calls \ {r} : call'[q] = call[q]
           /\ RequestSound(r)' /\ InOrder(r)' /\ EndsCounted(r)'
<1>1. call' \in [Calls -> Call] /\ call'[r] = Idle /\ \A q \in Calls \ {r} : call'[q] = call[q]
  BY AccountsPlainTypes DEF Finish, AccountsTypeOK
<1> QED
  BY <1>1, AccountsPlainTypes DEF RequestSound, InOrder, EndsCounted

-------------------------------------------------------------------------------
LEMMA AccountsInvInit == AccountsInit => AccountsInv
<1> SUFFICES ASSUME AccountsInit PROVE AccountsInv
  OBVIOUS
<1>1. PICK L \in (SUBSET People) \ {{}} :
         user = [u \in People |->
                   IF u \in L THEN [version |-> 1, role |-> "QA_LEAD", active |-> TRUE,
                                    hash |-> AnyPassword, validFrom |-> 0]
                   ELSE Nobody]
  BY DEF AccountsInit
<1>2. /\ cookies = {} /\ ended = {} /\ clock = 0 /\ call = [r \in Calls |-> Idle] /\ begun = 0
      /\ raced = {} /\ leadRaced = FALSE /\ demoted = FALSE
  BY DEF AccountsInit
<1>3. [version |-> 1, role |-> "QA_LEAD", active |-> TRUE, hash |-> AnyPassword, validFrom |-> 0] \in User
  BY AccountsPlainTypes DEF User, Roles
<1>4. AccountsTypeOK
  BY <1>1, <1>2, <1>3, AccountsPlainTypes DEF AccountsTypeOK
<1>5. \A u \in People : user[u].validFrom = 0
  BY <1>1 DEF Nobody
<1>6. Past
  BY <1>2, <1>5, AccountsPlainTypes DEF Past
<1>7. \A r \in Calls : RequestSound(r) /\ InOrder(r) /\ EndsCounted(r)
  BY <1>2, AccountsPlainTypes DEF RequestSound, InOrder, EndsCounted
<1>8. ActiveLeadRemains
  <2>1. PICK u \in L : TRUE
    OBVIOUS
  <2>2. u \in People /\ ActiveLead(u)
    BY <1>1, <2>1 DEF ActiveLead
  <2> QED
    BY <2>2 DEF ActiveLeadRemains
<1> QED
  BY <1>2, <1>4, <1>6, <1>7, <1>8 DEF AccountsInv

LEMMA InvBegin ==
    ASSUME AccountsInv, NEW r \in Calls, NEW u \in People,
           NEW op \in Versioned \cup Stamping \cup {"login", "create"},
           NEW seen \in Seen, NEW role \in Roles, NEW p \in Passwords,
           Begin(r, op, u, seen, role, p),
           op # "create" => user[u].version > 0,
           op \in Versioned => /\ seen.version = user[u].version /\ seen.role = user[u].role
                               /\ seen.active = user[u].active,
           op = "login" => p = user[u].hash
    PROVE  AccountsInv'
<1> DEFINE new == [pc |-> "read", op |-> op, user |-> u, seen |-> seen, role |-> role, hash |-> p,
                   now |-> 0]
<1>1. /\ begun' = begun + 1 /\ call' = [call EXCEPT ![r] = new]
      /\ UNCHANGED <<user, cookies, clock, ended, raced, leadRaced, demoted>>
  BY DEF Begin
<1>2. AccountsTypeOK /\ Past /\ begun \in Nat /\ clock \in Nat
  BY DEF AccountsInv, AccountsTypeOK
<1>3. /\ new \in Call /\ new.pc = "read" /\ new.op = op /\ new.user = u /\ new.seen = seen
      /\ new.hash = p /\ new.now = 0
  BY DEF Call
<1> HIDE DEF new
<1>4. /\ call' \in [Calls -> Call] /\ call'[r] = new /\ \A q \in Calls \ {r} : call'[q] = call[q]
  BY <1>1, <1>2, <1>3 DEF AccountsTypeOK
<1>5. AccountsTypeOK'
  BY <1>1, <1>2, <1>4 DEF AccountsTypeOK
<1>6. Past'
  BY <1>1, <1>2, <1>3, <1>4 DEF Past
<1>7. RequestSound(r)' /\ InOrder(r)' /\ EndsCounted(r)'
  <2>1. user[u].version \in Nat
    BY <1>2, RowIsTyped
  <2>2. RequestSound(r)'
    BY <1>1, <1>3, <1>4, <2>1 DEF RequestSound, AccountVersionHolds, Versioned
  <2>3. InOrder(r)'
    BY <1>1, <1>3, <1>4 DEF InOrder
  <2>4. EndsCounted(r)'
    BY <1>3, <1>4 DEF EndsCounted
  <2> QED
    BY <2>2, <2>3, <2>4
<1>8. \A q \in Calls \ {r} : RequestSound(q)' /\ InOrder(q)' /\ EndsCounted(q)'
  BY <1>1, <1>4 DEF AccountsInv, RequestSound, InOrder, EndsCounted, AccountVersionHolds, ActiveLead
<1> QED
  BY <1>1, <1>5, <1>6, <1>7, <1>8 DEF AccountsInv, Revoked, ActiveLeadRemains, ActiveLead

\* Every request that begins reads what InvBegin asks for.
LEMMA InvBegins ==
    ASSUME AccountsInv, NEW r \in Calls, NEW u \in People,
           \/ BeginSignIn(r, u) \/ BeginSignOut(r, u)
           \/ \E p \in Passwords : BeginChangePassword(r, u, p)
           \/ \E a \in People, role \in Roles, p \in Passwords : BeginCreateUser(r, a, u, role, p)
           \/ \E a \in People :
                 \/ \E role \in Roles : BeginUpdateRole(r, a, u, role)
                 \/ BeginUpdateProfile(r, a, u)
                 \/ \E op \in {"activate", "deactivate"} : BeginSetActive(r, op, a, u)
                 \/ \E p \in Passwords : BeginResetPassword(r, a, u, p)
    PROVE  AccountsInv'
<1>1. /\ AccountsTypeOK /\ Past /\ user[u] \in User /\ user[u].version \in Nat
      /\ user[u].role \in Roles /\ user[u].active \in BOOLEAN /\ user[u].hash \in Passwords
  BY RowIsTyped DEF AccountsInv
<1>2. Unread \in Seen /\ AnyPassword \in Passwords /\ "QA_TESTER" \in Roles
  BY AccountsPlainTypes DEF Roles
<1>3. \A v \in People : SignedIn(v) => user[v].version > 0
  BY DEF SignedIn, Accepted
<1>4. ASSUME NEW a \in People, NEW op \in Versioned, NEW role \in Roles, NEW p \in Passwords,
             BeginAdminister(r, op, a, u, role, p)
      PROVE  AccountsInv'
  <2> DEFINE seen == [version |-> user[u].version, role |-> user[u].role, active |-> user[u].active]
  <2>1. user[u].version > 0 /\ Begin(r, op, u, seen, role, p)
    BY <1>4 DEF BeginAdminister
  <2>2. /\ seen \in Seen /\ seen.version = user[u].version /\ seen.role = user[u].role
        /\ seen.active = user[u].active
    BY <1>1 DEF Seen
  <2>3. op # "login" /\ op \in Versioned \cup Stamping \cup {"login", "create"}
    BY DEF Versioned
  <2> HIDE DEF seen
  <2> QED
    BY <2>1, <2>2, <2>3, InvBegin
<1>5. CASE BeginSignIn(r, u)
  <2>1. user[u].version > 0 /\ Begin(r, "login", u, Unread, "QA_TESTER", user[u].hash)
    BY <1>5 DEF BeginSignIn
  <2> QED
    BY <1>1, <1>2, <2>1, InvBegin DEF Versioned
<1>6. CASE BeginSignOut(r, u)
  <2>1. PICK c \in cookies : c.user = u
    BY <1>6 DEF BeginSignOut
  <2>2. user[u].version > 0
    BY <1>1, <2>1 DEF Past
  <2>3. Begin(r, "signout", u, Unread, "QA_TESTER", AnyPassword)
    BY <1>6 DEF BeginSignOut
  <2>4. "signout" \in Versioned \cup Stamping \cup {"login", "create"} /\ "signout" \notin Versioned
    BY DEF Stamping, Versioned
  <2> QED
    BY <1>2, <2>2, <2>3, <2>4, InvBegin
<1>7. CASE \E p \in Passwords : BeginChangePassword(r, u, p)
  <2>1. PICK p \in Passwords : SignedIn(u) /\ Begin(r, "password", u, Unread, "QA_TESTER", p)
    BY <1>7 DEF BeginChangePassword
  <2>2. "password" \in Versioned \cup Stamping \cup {"login", "create"} /\ "password" \notin Versioned
    BY DEF Stamping, Versioned
  <2> QED
    BY <1>2, <1>3, <2>1, <2>2, InvBegin
<1>8. CASE \E a \in People, role \in Roles, p \in Passwords : BeginCreateUser(r, a, u, role, p)
  <2>1. PICK role \in Roles, p \in Passwords : Begin(r, "create", u, Unread, role, p)
    BY <1>8 DEF BeginCreateUser
  <2>2. "create" \notin Versioned
    BY DEF Versioned
  <2> QED
    BY <1>2, <2>1, <2>2, InvBegin
<1>9. CASE \E a \in People, role \in Roles : BeginUpdateRole(r, a, u, role)
  BY <1>2, <1>4, <1>9 DEF BeginUpdateRole, Versioned
<1>10. CASE \E a \in People : BeginUpdateProfile(r, a, u)
  BY <1>1, <1>2, <1>4, <1>10 DEF BeginUpdateProfile, Versioned
<1>11. CASE \E a \in People, op \in {"activate", "deactivate"} : BeginSetActive(r, op, a, u)
  BY <1>1, <1>2, <1>4, <1>11 DEF BeginSetActive, Versioned
<1>12. CASE \E a \in People, p \in Passwords : BeginResetPassword(r, a, u, p)
  BY <1>1, <1>2, <1>4, <1>12 DEF BeginResetPassword, Versioned
<1> QED
  BY <1>5, <1>6, <1>7, <1>8, <1>9, <1>10, <1>11, <1>12

LEMMA InvTick ==
    ASSUME AccountsInv, Tick
    PROVE  AccountsInv'
<1>1. /\ clock' = clock + 1 /\ clock \in Nat
      /\ UNCHANGED <<user, cookies, call, begun, ended, raced, leadRaced, demoted>>
  BY DEF Tick, AccountsInv, AccountsTypeOK
<1>2. AccountsTypeOK'
  BY <1>1 DEF AccountsInv, AccountsTypeOK
<1>3. Past'
  <2>1. \A u \in People : user[u].validFrom \in Nat
    BY RowIsTyped DEF AccountsInv
  <2>2. \A c \in cookies : c.at \in Nat
    BY CookieIsTyped DEF AccountsInv
  <2>3. \A r \in Calls : call[r].now \in Nat
    BY CallIsTyped DEF AccountsInv
  <2> QED
    BY <1>1, <2>1, <2>2, <2>3 DEF AccountsInv, Past
<1> QED
  BY <1>1, <1>2, <1>3 DEF AccountsInv, RequestSound, InOrder, EndsCounted, AccountVersionHolds, Revoked,
     ActiveLead, ActiveLeadRemains

LEMMA InvStamp ==
    ASSUME AccountsInv, NEW r \in Calls, Stamp(r)
    PROVE  AccountsInv'
<1> DEFINE new == [call[r] EXCEPT !.pc = "stamped", !.now = clock]
<1>1. /\ call[r].pc = "read" /\ call[r].op \in Stamping
      /\ call[r].op = "deactivate" => MayDeactivate(r)
      /\ UNCHANGED <<user, cookies, clock, begun, ended, raced, leadRaced, demoted>>
  BY DEF Stamp
<1>2. AccountsTypeOK /\ Past /\ clock \in Nat /\ call[r] \in Call /\ call[r].user \in People
  BY CallIsTyped DEF AccountsInv, AccountsTypeOK
<1>3. /\ new \in Call /\ new.pc = "stamped" /\ new.op = call[r].op /\ new.user = call[r].user
      /\ new.seen = call[r].seen /\ new.hash = call[r].hash /\ new.now = clock
  BY <1>2 DEF Call
<1>4. call' = [call EXCEPT ![r] = new]
  BY <1>2 DEF Stamp, AccountsTypeOK, Call
<1> HIDE DEF new
<1>5. /\ call' \in [Calls -> Call] /\ call'[r] = new /\ \A q \in Calls \ {r} : call'[q] = call[q]
  BY <1>2, <1>3, <1>4 DEF AccountsTypeOK
<1>6. AccountsTypeOK'
  BY <1>1, <1>2, <1>5 DEF AccountsTypeOK
<1>7. Past'
  BY <1>1, <1>2, <1>3, <1>5 DEF Past
<1>8. RequestSound(r)'
  BY <1>1, <1>3, <1>5 DEF AccountsInv, RequestSound, AccountVersionHolds
<1>9. InOrder(r)'
  BY <1>1, <1>2, <1>3, <1>5 DEF InOrder, Past
<1>10. EndsCounted(r)'
  BY <1>1, <1>3, <1>5 DEF EndsCounted, MayDeactivate, ActiveLead
<1>11. \A q \in Calls \ {r} : RequestSound(q)' /\ InOrder(q)' /\ EndsCounted(q)'
  BY <1>1, <1>5 DEF AccountsInv, RequestSound, InOrder, EndsCounted, AccountVersionHolds, ActiveLead
<1> QED
  BY <1>1, <1>6, <1>7, <1>8, <1>9, <1>10, <1>11 DEF AccountsInv, Revoked, ActiveLeadRemains, ActiveLead

LEMMA InvRefuse ==
    ASSUME AccountsInv, NEW r \in Calls, Refuse(r)
    PROVE  AccountsInv'
<1>1. Finish(r) /\ UNCHANGED <<user, cookies, clock, begun, ended, raced, leadRaced, demoted>>
  BY DEF Refuse
<1>2. /\ call' \in [Calls -> Call] /\ call'[r] = Idle /\ \A q \in Calls \ {r} : call'[q] = call[q]
      /\ RequestSound(r)' /\ InOrder(r)' /\ EndsCounted(r)'
  BY <1>1, OverIsSound DEF AccountsInv
<1>3. AccountsTypeOK'
  BY <1>1, <1>2 DEF AccountsInv, AccountsTypeOK
<1>4. Past'
  BY <1>1, <1>2, AccountsPlainTypes DEF AccountsInv, AccountsTypeOK, Past
<1>5. \A q \in Calls \ {r} : RequestSound(q)' /\ InOrder(q)' /\ EndsCounted(q)'
  BY <1>1, <1>2 DEF AccountsInv, RequestSound, InOrder, EndsCounted, AccountVersionHolds, ActiveLead
<1> QED
  BY <1>1, <1>2, <1>3, <1>4, <1>5 DEF AccountsInv, Revoked, ActiveLeadRemains, ActiveLead

LEMMA InvSignIn ==
    ASSUME AccountsInv, NEW r \in Calls, SignIn(r)
    PROVE  AccountsInv'
<1> DEFINE u == call[r].user
           new == [user |-> u, at |-> clock, proof |-> call[r].hash]
<1>1. /\ call[r].pc = "read" /\ call[r].op = "login" /\ cookies' = cookies \cup {new}
      /\ raced' = (IF Overlaps(r, u, Stamping, UnderWay) THEN raced \cup {u} ELSE raced)
      /\ Finish(r) /\ UNCHANGED <<user, clock, begun, ended, leadRaced, demoted>>
  BY DEF SignIn, Issue
<1>2. AccountsTypeOK /\ Past /\ clock \in Nat /\ u \in People /\ call[r].hash \in Passwords
  BY CallIsTyped DEF AccountsInv, AccountsTypeOK
<1>3. new \in Cookie /\ new.user = u /\ new.at = clock /\ new.proof = call[r].hash
  BY <1>2 DEF Cookie
<1>4. /\ call' \in [Calls -> Call] /\ call'[r] = Idle /\ \A q \in Calls \ {r} : call'[q] = call[q]
      /\ RequestSound(r)' /\ InOrder(r)' /\ EndsCounted(r)'
  BY <1>1, <1>2, OverIsSound
<1>5. user[u].version > 0 /\ (u \notin raced => call[r].hash = user[u].hash)
  BY <1>1 DEF AccountsInv, RequestSound, InOrder
<1> HIDE DEF new, u
<1>6. raced \subseteq raced' /\ raced' \subseteq People
  BY <1>1, <1>2 DEF AccountsTypeOK
<1>7. AccountsTypeOK'
  BY <1>1, <1>2, <1>3, <1>4, <1>6 DEF AccountsTypeOK
<1>8. Past'
  BY <1>1, <1>2, <1>3, <1>4, <1>5, AccountsPlainTypes DEF Past
<1>9. ASSUME NEW q \in Calls \ {r} PROVE RequestSound(q)' /\ InOrder(q)' /\ EndsCounted(q)'
  <2>1. call'[q] = call[q] /\ RequestSound(q) /\ InOrder(q) /\ EndsCounted(q)
    BY <1>4 DEF AccountsInv
  <2>2. RequestSound(q)' /\ EndsCounted(q)'
    BY <1>1, <2>1 DEF RequestSound, EndsCounted, AccountVersionHolds, ActiveLead
  <2>3. call[q].pc = "stamped" /\ call[q].user = u => u \in raced'
    BY <1>1, <1>6, <2>1 DEF Overlaps, UnderWay, RequestSound
  <2>4. InOrder(q)'
    BY <1>1, <1>3, <1>6, <2>1, <2>3 DEF InOrder
  <2> QED
    BY <2>2, <2>4
<1>10. \A c \in cookies' : c.user \notin raced' /\ user'[c.user].validFrom < c.at
                              => c.proof = user'[c.user].hash
  BY <1>1, <1>3, <1>5, <1>6 DEF AccountsInv
<1>11. \A c \in ended' : c.user \notin raced' => Revoked(c)'
  BY <1>1, <1>6 DEF AccountsInv, Revoked
<1>12. ActiveLeadRemains'
  BY <1>1 DEF AccountsInv, ActiveLeadRemains, ActiveLead
<1> QED
  BY <1>4, <1>7, <1>8, <1>9, <1>10, <1>11, <1>12 DEF AccountsInv

\* What a write leaves of the other requests: one that has read an older version is behind.
LEMMA OthersAfterWrite ==
    ASSUME AccountsInv, NEW r \in Calls, NEW q \in Calls \ {r}, NEW row \in User,
           user' = [user EXCEPT ![call[r].user] = row], call'[q] = call[q],
           user[call[r].user].version <= row.version,
           row.version = user[call[r].user].version =>
              row.role = user[call[r].user].role /\ row.active = user[call[r].user].active
    PROVE  RequestSound(q)'
<1>1. /\ AccountsTypeOK /\ call[r].user \in People /\ call[q].user \in People
      /\ call[q].seen.version \in Nat /\ row.version \in Nat
  BY CallIsTyped DEF AccountsInv, User
<1>2. user[call[q].user].version \in Nat /\ user[call[r].user].version \in Nat
  BY <1>1, RowIsTyped
<1>3. /\ user'[call[r].user] = row
      /\ call[q].user # call[r].user => user'[call[q].user] = user[call[q].user]
  BY <1>1 DEF AccountsTypeOK
<1>4. RequestSound(q)
  BY DEF AccountsInv
<1>5. CASE call[q].user # call[r].user
  BY <1>3, <1>4, <1>5 DEF RequestSound, AccountVersionHolds
<1>6. CASE call[q].user = call[r].user
  BY <1>1, <1>2, <1>3, <1>4, <1>6 DEF RequestSound, AccountVersionHolds
<1> QED
  BY <1>5, <1>6

\* updateUserRole, updateUserProfile and the activation of setUserActive stamp nothing.
LEMMA UnstampedWrite ==
    ASSUME AccountsInv, NEW r \in Calls, NEW row \in User, Finish(r),
           user' = [user EXCEPT ![call[r].user] = row],
           UNCHANGED <<cookies, clock, begun, ended, raced, leadRaced>>,
           demoted' \in BOOLEAN, demoted => demoted',
           user[call[r].user].version < row.version,
           row.validFrom = user[call[r].user].validFrom, row.hash = user[call[r].user].hash,
           ActiveLead(call[r].user) /\ ~(row.role = "QA_LEAD" /\ row.active) => demoted'
    PROVE  AccountsInv'
<1> DEFINE u == call[r].user
<1>1. AccountsTypeOK /\ Past /\ u \in People /\ user[u].version \in Nat /\ row.version \in Nat
  BY CallIsTyped, RowIsTyped DEF AccountsInv, User
<1>2. user' \in [People -> User] /\ user'[u] = row /\ \A v \in People \ {u} : user'[v] = user[v]
  BY <1>1 DEF AccountsTypeOK
<1>3. /\ call' \in [Calls -> Call] /\ call'[r] = Idle /\ \A q \in Calls \ {r} : call'[q] = call[q]
      /\ RequestSound(r)' /\ InOrder(r)' /\ EndsCounted(r)'
  BY <1>1, OverIsSound
<1> HIDE DEF u
<1>4. \A v \in People : /\ user'[v].validFrom = user[v].validFrom /\ user'[v].hash = user[v].hash
                        /\ user[v].version > 0 => user'[v].version > 0
  BY <1>1, <1>2 DEF u
<1>5. \A v \in People : ActiveLead(v) => ActiveLead(v)' \/ demoted'
  BY <1>1, <1>2 DEF ActiveLead, u
<1>6. AccountsTypeOK'
  BY <1>1, <1>2, <1>3 DEF AccountsTypeOK
<1>7. Past'
  <2>1. \A c \in cookies : c.user \in People
    BY <1>1, CookieIsTyped
  <2> QED
    BY <1>1, <1>3, <1>4, <2>1, AccountsPlainTypes DEF Past, AccountsTypeOK
<1>8. ASSUME NEW q \in Calls \ {r} PROVE RequestSound(q)' /\ InOrder(q)' /\ EndsCounted(q)'
  <2>1. call'[q] = call[q] /\ call[q].user \in People /\ InOrder(q) /\ EndsCounted(q)
    BY <1>1, <1>3, CallIsTyped DEF AccountsInv
  <2>2. RequestSound(q)'
    <3>1. user[call[r].user].version <= row.version /\ row.version # user[call[r].user].version
      BY <1>1 DEF u
    <3> QED
      BY <2>1, <3>1, OthersAfterWrite
  <2>3. InOrder(q)'
    BY <1>4, <2>1 DEF InOrder
  <2>4. EndsCounted(q)'
    BY <1>5, <2>1 DEF EndsCounted
  <2> QED
    BY <2>2, <2>3, <2>4
<1>9. \A c \in cookies' : c.user \notin raced' /\ user'[c.user].validFrom < c.at
                             => c.proof = user'[c.user].hash
  BY <1>1, <1>4, CookieIsTyped DEF AccountsInv
<1>10. \A c \in ended' : c.user \notin raced' => Revoked(c)'
  <2>1. \A c \in ended : c.user \in People
    BY <1>1, CookieIsTyped DEF Past
  <2> QED
    BY <1>4, <2>1 DEF AccountsInv, Revoked
<1>11. ActiveLeadRemains'
  BY <1>5 DEF AccountsInv, ActiveLeadRemains
<1> QED
  BY <1>3, <1>6, <1>7, <1>8, <1>9, <1>10, <1>11 DEF AccountsInv

\* A write with a stamp: deactivation, password reset and change, revocation.
LEMMA StampingWrite ==
    ASSUME AccountsInv, NEW r \in Calls, NEW row \in User, Finish(r), Ends(r),
           call[r].pc = "stamped", call[r].op \in Stamping,
           user' = [user EXCEPT ![call[r].user] = row],
           UNCHANGED <<clock, begun>>,
           leadRaced' \in BOOLEAN, UNCHANGED demoted,
           \/ UNCHANGED cookies
           \/ cookies' = cookies \cup {[user |-> call[r].user, at |-> call[r].now,
                                        proof |-> call[r].hash]},
           user[call[r].user].version <= row.version,
           row.version = user[call[r].user].version =>
              row.role = user[call[r].user].role /\ row.active = user[call[r].user].active,
           row.validFrom = call[r].now,
           \A q \in Calls \ {r} : EndsCounted(q)',
           ActiveLeadRemains'
    PROVE  AccountsInv'
<1> DEFINE u == call[r].user
           now == call[r].now
           new == [user |-> u, at |-> now, proof |-> call[r].hash]
<1>1. /\ AccountsTypeOK /\ Past /\ u \in People /\ now \in Nat /\ call[r].hash \in Passwords
      /\ user[u].version \in Nat /\ row.version \in Nat /\ user[u].validFrom \in Nat /\ clock \in Nat
  BY CallIsTyped, RowIsTyped DEF AccountsInv, User, AccountsTypeOK
<1>2. user' \in [People -> User] /\ user'[u] = row /\ \A v \in People \ {u} : user'[v] = user[v]
  BY <1>1 DEF AccountsTypeOK
<1>3. /\ call' \in [Calls -> Call] /\ call'[r] = Idle /\ \A q \in Calls \ {r} : call'[q] = call[q]
      /\ RequestSound(r)' /\ InOrder(r)' /\ EndsCounted(r)'
  BY <1>1, OverIsSound
<1>4. new \in Cookie /\ new.user = u /\ new.at = now
  BY <1>1 DEF Cookie
<1>5. cookies \subseteq cookies' /\ cookies' \subseteq cookies \cup {new}
  OBVIOUS
<1>6. /\ ended' = ended \cup {c \in cookies : c.user = u /\ c.at < now}
      /\ raced' = IF Overlaps(r, u, Touching, UnderWay) THEN raced \cup {u} ELSE raced
  BY DEF Ends
<1>7. row.version > 0 /\ now <= clock
  <2>1. user[u].version > 0
    BY DEF AccountsInv, RequestSound, Stamping
  <2> QED
    BY <1>1, <2>1 DEF Past
<1>8. u \notin raced => /\ user[u].validFrom <= now
                        /\ \A c \in cookies : c.user = u => c.at <= now
  BY DEF AccountsInv, InOrder
<1> HIDE DEF new, u, now
<1>9. raced \subseteq raced' /\ raced' \subseteq People /\ raced' \subseteq raced \cup {u}
  BY <1>1, <1>6 DEF AccountsTypeOK
<1>10. AccountsTypeOK'
  BY <1>1, <1>2, <1>3, <1>4, <1>5, <1>6, <1>9 DEF AccountsTypeOK
<1>11. row.validFrom = now
  BY DEF now
<1>12. \A c \in cookies : c.user \in People /\ c.at \in Nat
  BY <1>1, CookieIsTyped
<1>13. Past'
  <2>1. \A v \in People : user'[v].validFrom <= clock
    BY <1>1, <1>2, <1>7, <1>11 DEF Past
  <2>2. \A c \in cookies' : c.at <= clock /\ user'[c.user].version > 0
    BY <1>1, <1>2, <1>4, <1>5, <1>7, <1>12 DEF Past
  <2>3. \A q \in Calls : call'[q].now <= clock
    BY <1>1, <1>3, AccountsPlainTypes DEF Past
  <2>4. ended' \subseteq cookies'
    BY <1>1, <1>5, <1>6 DEF Past
  <2> QED
    BY <2>1, <2>2, <2>3, <2>4 DEF Past
<1>14. ASSUME NEW q \in Calls \ {r} PROVE RequestSound(q)' /\ InOrder(q)'
  <2>1. call'[q] = call[q] /\ call[q].user \in People /\ InOrder(q) /\ RequestSound(q)
    BY <1>1, <1>3, CallIsTyped DEF AccountsInv
  <2>2. RequestSound(q)'
    BY <1>1, <2>1, OthersAfterWrite DEF u
  <2>3. CASE call[q].user = u
    <3>1. call[q].pc \in UnderWay /\ call[q].op \in Touching => u \in raced'
      BY <1>6, <2>3 DEF Overlaps
    <3>2. call[q].pc = "stamped" => u \in raced'
      BY <2>1, <3>1 DEF RequestSound, UnderWay, Touching
    <3>3. call[q].pc = "read" /\ call[q].op = "login" => u \in raced'
      BY <3>1 DEF UnderWay, Touching
    <3>4. call'[q].user \notin raced' =>
             call'[q].pc # "stamped" /\ ~(call'[q].pc = "read" /\ call'[q].op = "login")
      BY <2>1, <2>3, <3>2, <3>3
    <3> QED
      BY <2>2, <3>4 DEF InOrder
  <2>4. CASE call[q].user # u
    <3>1. user'[call[q].user] = user[call[q].user]
      BY <1>2, <2>1, <2>4
    <3>2. \A c \in cookies' : c.user = call[q].user => c \in cookies
      BY <1>4, <1>5, <2>4
    <3>3. call[q].user \notin raced' => call[q].user \notin raced
      BY <1>9
    <3> QED
      BY <2>1, <2>2, <3>1, <3>2, <3>3 DEF InOrder
  <2> QED
    BY <2>2, <2>3, <2>4
<1>15. \A c \in cookies' : c.user \notin raced' /\ user'[c.user].validFrom < c.at
                             => c.proof = user'[c.user].hash
  <2> SUFFICES ASSUME NEW c \in cookies', c.user \notin raced', user'[c.user].validFrom < c.at
               PROVE  c.proof = user'[c.user].hash
    OBVIOUS
  <2>1. c # new
    BY <1>1, <1>2, <1>4, <1>11
  <2>2. c \in cookies
    BY <1>5, <2>1
  <2>3. c.user # u
    BY <1>1, <1>2, <1>8, <1>9, <1>11, <1>12, <2>2
  <2>4. user'[c.user] = user[c.user]
    BY <1>2, <1>12, <2>2, <2>3
  <2> QED
    BY <1>9, <2>2, <2>4 DEF AccountsInv
<1>16. \A c \in ended' : c.user \notin raced' => Revoked(c)'
  <2> SUFFICES ASSUME NEW c \in ended', c.user \notin raced'
               PROVE  c.at < user'[c.user].validFrom
    BY DEF Revoked
  <2>1. c \in cookies /\ c.user \in People /\ c.at \in Nat
    BY <1>1, <1>6, <1>12 DEF Past
  <2>2. CASE c.user # u
    <3>1. c \in ended
      BY <1>6, <2>2
    <3>2. user'[c.user] = user[c.user]
      BY <1>2, <2>1, <2>2
    <3> QED
      BY <1>9, <3>1, <3>2 DEF AccountsInv, Revoked
  <2>3. CASE c.user = u /\ c \in ended
    <3>1. c.at < user[u].validFrom
      BY <1>9, <2>3 DEF AccountsInv, Revoked
    <3>2. user[u].validFrom <= now
      BY <1>8, <1>9, <2>3
    <3> QED
      BY <1>1, <1>2, <1>11, <2>1, <2>3, <3>1, <3>2
  <2>4. CASE c.user = u /\ c \notin ended
    BY <1>2, <1>6, <1>11, <2>4
  <2> QED
    BY <2>2, <2>3, <2>4
<1> QED
  BY <1>3, <1>10, <1>13, <1>14, <1>15, <1>16 DEF AccountsInv

\* The row an Update writes.
LEMMA Updated ==
    ASSUME AccountsInv, NEW r \in Calls, NEW op \in Versioned \cup Stamping, NEW old \in User,
           Update(r, op, old), old.version = user[call[r].user].version
    PROVE  \E row \in User :
              /\ user' = [user EXCEPT ![call[r].user] = row]
              /\ row.role = old.role /\ row.active = old.active /\ row.hash = old.hash
              /\ row.validFrom = old.validFrom
              /\ row.version = IF op \in Versioned THEN old.version + 1 ELSE old.version
<1> DEFINE bumped == [old EXCEPT !.version = user[call[r].user].version + 1]
           row == IF op \in Versioned THEN bumped ELSE old
<1>1. user' = [user EXCEPT ![call[r].user] = row]
  BY DEF Update
<1>2. user[call[r].user].version \in Nat
  BY CallIsTyped, RowIsTyped DEF AccountsInv
<1>3. bumped \in User /\ bumped.version = old.version + 1 /\ bumped.role = old.role
      /\ bumped.active = old.active /\ bumped.hash = old.hash /\ bumped.validFrom = old.validFrom
  BY <1>2 DEF User
<1> HIDE DEF bumped
<1>4. row \in User /\ row.role = old.role /\ row.active = old.active /\ row.hash = old.hash
      /\ row.validFrom = old.validFrom
      /\ row.version = IF op \in Versioned THEN old.version + 1 ELSE old.version
  BY <1>3
<1> HIDE DEF row
<1> QED
  BY <1>1, <1>4

LEMMA InvUnstamped ==
    ASSUME AccountsInv, NEW r \in Calls,
           CommitUpdateRole(r) \/ CommitUpdateProfile(r) \/ Activate(r)
    PROVE  AccountsInv'
<1> DEFINE u == call[r].user
           old == user[u]
<1>1. AccountsTypeOK /\ old \in User /\ old.version \in Nat /\ call[r].role \in Roles /\ demoted \in BOOLEAN
  BY CallIsTyped DEF AccountsInv, User, AccountsTypeOK
<1>2. Finish(r) /\ UNCHANGED <<cookies, clock, begun, ended, raced, leadRaced>>
  BY DEF CommitUpdateRole, CommitUpdateProfile, Activate, Update
<1>3. CASE CommitUpdateRole(r)
  <2> DEFINE row0 == [old EXCEPT !.role = call[r].role]
  <2>1. row0 \in User /\ row0.version = old.version /\ row0.role = call[r].role
        /\ row0.active = old.active /\ row0.hash = old.hash /\ row0.validFrom = old.validFrom
    BY <1>1 DEF User
  <2>2. /\ Update(r, "role", row0)
        /\ demoted' = (demoted \/ (old.role = "QA_LEAD" /\ call[r].role # "QA_LEAD"))
    BY <1>3 DEF CommitUpdateRole
  <2> HIDE DEF row0
  <2>3. PICK row \in User :
           /\ user' = [user EXCEPT ![u] = row] /\ row.role = row0.role /\ row.active = row0.active
           /\ row.hash = row0.hash /\ row.validFrom = row0.validFrom /\ row.version = row0.version + 1
    BY <2>1, <2>2, Updated DEF Versioned
  <2>4. /\ old.version < row.version /\ row.validFrom = old.validFrom /\ row.hash = old.hash
        /\ demoted' \in BOOLEAN /\ (demoted => demoted')
    BY <1>1, <2>1, <2>2, <2>3
  <2>5. ActiveLead(u) /\ ~(row.role = "QA_LEAD" /\ row.active) => demoted'
    <3>1. row.role = call[r].role /\ row.active = old.active
      BY <2>1, <2>3
    <3>2. ActiveLead(u) => old.role = "QA_LEAD" /\ old.active
      BY DEF ActiveLead
    <3> QED
      BY <2>2, <3>1, <3>2
  <2> QED
    BY <1>2, <2>3, <2>4, <2>5, UnstampedWrite
<1>4. CASE CommitUpdateProfile(r)
  <2>1. Update(r, "profile", old) /\ UNCHANGED demoted
    BY <1>4 DEF CommitUpdateProfile
  <2>2. PICK row \in User :
           /\ user' = [user EXCEPT ![u] = row] /\ row.role = old.role /\ row.active = old.active
           /\ row.hash = old.hash /\ row.validFrom = old.validFrom /\ row.version = old.version + 1
    BY <1>1, <2>1, Updated DEF Versioned
  <2>3. /\ old.version < row.version /\ row.validFrom = old.validFrom /\ row.hash = old.hash
        /\ demoted' \in BOOLEAN /\ (demoted => demoted')
        /\ ActiveLead(u) /\ ~(row.role = "QA_LEAD" /\ row.active) => demoted'
    BY <1>1, <2>1, <2>2 DEF ActiveLead
  <2> QED
    BY <1>2, <2>2, <2>3, UnstampedWrite
<1>5. CASE Activate(r)
  <2> DEFINE row0 == [old EXCEPT !.active = TRUE]
  <2>1. row0 \in User /\ row0.version = old.version /\ row0.role = old.role
        /\ row0.active = TRUE /\ row0.hash = old.hash /\ row0.validFrom = old.validFrom
    BY <1>1 DEF User
  <2>2. Update(r, "activate", row0) /\ UNCHANGED demoted
    BY <1>5 DEF Activate
  <2> HIDE DEF row0
  <2>3. PICK row \in User :
           /\ user' = [user EXCEPT ![u] = row] /\ row.role = row0.role /\ row.active = row0.active
           /\ row.hash = row0.hash /\ row.validFrom = row0.validFrom /\ row.version = row0.version + 1
    BY <2>1, <2>2, Updated DEF Versioned
  <2>4. /\ old.version < row.version /\ row.validFrom = old.validFrom /\ row.hash = old.hash
        /\ demoted' \in BOOLEAN /\ (demoted => demoted')
        /\ ActiveLead(u) /\ ~(row.role = "QA_LEAD" /\ row.active) => demoted'
    BY <1>1, <2>1, <2>2, <2>3 DEF ActiveLead
  <2> QED
    BY <1>2, <2>3, <2>4, UnstampedWrite
<1> QED
  BY <1>3, <1>4, <1>5

\* The stamping requests that leave role and standing alone.
LEMMA InvStamping ==
    ASSUME AccountsInv, NEW r \in Calls,
           CommitResetPassword(r) \/ CommitChangePassword(r) \/ CommitSignOut(r)
    PROVE  AccountsInv'
<1> DEFINE u == call[r].user
           old == user[u]
<1>1. /\ AccountsTypeOK /\ u \in People /\ old \in User /\ old.version \in Nat
      /\ call[r].hash \in Passwords /\ call[r].now \in Nat
  BY CallIsTyped DEF AccountsInv, User
<1>2. ASSUME NEW op \in {"reset", "password", "signout"}, NEW row0 \in User,
             Update(r, op, row0), Ends(r), UNCHANGED <<leadRaced, demoted>>,
             row0.version = old.version, row0.role = old.role, row0.active = old.active,
             row0.validFrom = call[r].now,
             \/ UNCHANGED cookies
             \/ cookies' = cookies \cup {[user |-> u, at |-> call[r].now, proof |-> call[r].hash]}
      PROVE  AccountsInv'
  <2>1. op \in Stamping /\ op \in Versioned \cup Stamping
    BY DEF Stamping
  <2>2. /\ call[r].op = op /\ call[r].pc = "stamped" /\ Finish(r) /\ UNCHANGED <<clock, begun>>
    BY <1>2, <2>1 DEF Update
  <2>3. PICK row \in User :
           /\ user' = [user EXCEPT ![u] = row] /\ row.role = row0.role /\ row.active = row0.active
           /\ row.validFrom = row0.validFrom
           /\ row.version = IF op \in Versioned THEN row0.version + 1 ELSE row0.version
    BY <1>2, <2>1, Updated
  <2>4. user' \in [People -> User] /\ user'[u] = row /\ \A v \in People \ {u} : user'[v] = user[v]
    BY <1>1, <2>3 DEF AccountsTypeOK
  <2>5. row.version \in Nat /\ old.version <= row.version /\ (row.version > 0 <=> old.version > 0 \/ op \in Versioned)
    BY <1>1, <1>2, <2>3
  <2>6. \A v \in People : ActiveLead(v) => ActiveLead(v)'
    BY <1>1, <1>2, <2>3, <2>4, <2>5 DEF ActiveLead
  <2>7. call' \in [Calls -> Call] /\ \A q \in Calls \ {r} : call'[q] = call[q]
    BY <1>1, <2>2, OverIsSound
  <2>8. \A q \in Calls \ {r} : EndsCounted(q)'
    BY <1>2, <2>6, <2>7 DEF AccountsInv, EndsCounted
  <2>9. ActiveLeadRemains' /\ leadRaced' \in BOOLEAN
    BY <1>1, <1>2, <2>6 DEF AccountsInv, ActiveLeadRemains, AccountsTypeOK
  <2> QED
    BY <1>2, <2>1, <2>2, <2>3, <2>5, <2>8, <2>9, StampingWrite
<1>3. CASE CommitResetPassword(r)
  <2> DEFINE row0 == [old EXCEPT !.hash = call[r].hash, !.validFrom = call[r].now]
  <2>1. row0 \in User /\ row0.version = old.version /\ row0.role = old.role
        /\ row0.active = old.active /\ row0.validFrom = call[r].now
    BY <1>1 DEF User
  <2>2. Update(r, "reset", row0) /\ Ends(r) /\ UNCHANGED <<cookies, leadRaced, demoted>>
    BY <1>3 DEF CommitResetPassword
  <2> HIDE DEF row0
  <2> QED
    BY <1>2, <2>1, <2>2
<1>4. CASE CommitChangePassword(r)
  <2> DEFINE row0 == [old EXCEPT !.hash = call[r].hash, !.validFrom = call[r].now]
  <2>1. row0 \in User /\ row0.version = old.version /\ row0.role = old.role
        /\ row0.active = old.active /\ row0.validFrom = call[r].now
    BY <1>1 DEF User
  <2>2. /\ Update(r, "password", row0) /\ Ends(r) /\ UNCHANGED <<leadRaced, demoted>>
        /\ cookies' = cookies \cup {[user |-> u, at |-> call[r].now, proof |-> call[r].hash]}
    BY <1>4 DEF CommitChangePassword, Issue
  <2> HIDE DEF row0
  <2> QED
    BY <1>2, <2>1, <2>2
<1>5. CASE CommitSignOut(r)
  <2> DEFINE row0 == [old EXCEPT !.validFrom = call[r].now]
  <2>1. row0 \in User /\ row0.version = old.version /\ row0.role = old.role
        /\ row0.active = old.active /\ row0.validFrom = call[r].now
    BY <1>1 DEF User
  <2>2. Update(r, "signout", row0) /\ Ends(r) /\ UNCHANGED <<cookies, leadRaced, demoted>>
    BY <1>5 DEF CommitSignOut
  <2> HIDE DEF row0
  <2> QED
    BY <1>2, <2>1, <2>2
<1> QED
  BY <1>3, <1>4, <1>5

\* A deactivation leaves the lead it counted, unless that one's role was taken away or another
\* deactivation had counted already.
LEMMA InvDeactivate ==
    ASSUME AccountsInv, NEW r \in Calls, Deactivate(r)
    PROVE  AccountsInv'
<1> DEFINE u == call[r].user
           old == user[u]
           row0 == [old EXCEPT !.active = FALSE, !.validFrom = call[r].now]
<1>1. /\ AccountsTypeOK /\ u \in People /\ old \in User /\ old.version \in Nat
      /\ call[r].hash \in Passwords /\ call[r].now \in Nat
  BY CallIsTyped DEF AccountsInv, User
<1>2. row0 \in User /\ row0.version = old.version /\ row0.role = old.role
      /\ row0.active = FALSE /\ row0.validFrom = call[r].now
  BY <1>1 DEF User
<1>3. /\ Update(r, "deactivate", row0) /\ Ends(r) /\ UNCHANGED <<cookies, demoted>>
      /\ leadRaced' = (leadRaced \/ \E v \in People \ {u} : Overlaps(r, v, {"deactivate"}, {"stamped"}))
  BY DEF Deactivate
<1>4. "deactivate" \in Stamping /\ "deactivate" \in Versioned
  BY DEF Stamping, Versioned
<1>5. /\ call[r].op = "deactivate" /\ call[r].pc = "stamped" /\ Finish(r)
      /\ UNCHANGED <<clock, begun>> /\ AccountVersionHolds(r)
  BY <1>3, <1>4 DEF Update
<1> HIDE DEF row0
<1>6. PICK row \in User :
         /\ user' = [user EXCEPT ![u] = row] /\ row.role = row0.role /\ row.active = row0.active
         /\ row.validFrom = row0.validFrom /\ row.version = row0.version + 1
  BY <1>2, <1>3, <1>4, Updated
<1>7. user' \in [People -> User] /\ user'[u] = row /\ \A v \in People \ {u} : user'[v] = user[v]
  BY <1>1, <1>6 DEF AccountsTypeOK
<1>8. \A v \in People \ {u} : ActiveLead(v)' <=> ActiveLead(v)
  BY <1>7 DEF ActiveLead
<1>9. call' \in [Calls -> Call] /\ \A q \in Calls \ {r} : call'[q] = call[q]
  BY <1>1, <1>5, OverIsSound
<1>10. ASSUME NEW q \in Calls \ {r} PROVE EndsCounted(q)'
  <2>1. call'[q] = call[q] /\ EndsCounted(q) /\ call[q].user \in People
    BY <1>1, <1>9, CallIsTyped DEF AccountsInv
  <2>2. call[q].pc = "stamped" /\ call[q].op = "deactivate" /\ call[q].user # u => leadRaced'
    BY <1>3, <2>1 DEF Overlaps
  <2>3. leadRaced => leadRaced'
    BY <1>3
  <2>4. \A v \in People \ {call[q].user} : call[q].user = u => (ActiveLead(v)' <=> ActiveLead(v))
    BY <1>8
  <2> QED
    BY <1>3, <2>1, <2>2, <2>3, <2>4 DEF EndsCounted
<1>11. ActiveLeadRemains'
  <2> SUFFICES ASSUME ~demoted, ~leadRaced PROVE \E v \in People : ActiveLead(v)'
    BY <1>3 DEF ActiveLeadRemains
  <2>1. call[r].seen.role = old.role /\ call[r].seen.active = old.active
    BY <1>4, <1>5 DEF AccountsInv, RequestSound
  <2>2. CASE ActiveLead(u)
    <3>1. \E v \in People \ {u} : ActiveLead(v)
      BY <1>5, <2>1, <2>2 DEF AccountsInv, EndsCounted, ActiveLead
    <3> QED
      BY <1>8, <3>1
  <2>3. CASE ~ActiveLead(u)
    BY <1>8, <2>3 DEF AccountsInv, ActiveLeadRemains
  <2> QED
    BY <2>2, <2>3
<1>12. leadRaced' \in BOOLEAN
  BY <1>1, <1>3 DEF AccountsTypeOK
<1>13. old.version <= row.version /\ row.version # old.version
  BY <1>1, <1>2, <1>6
<1> QED
  BY <1>2, <1>3, <1>4, <1>5, <1>6, <1>10, <1>11, <1>12, <1>13, StampingWrite

LEMMA InvCreate ==
    ASSUME AccountsInv, NEW r \in Calls, CommitCreateUser(r)
    PROVE  AccountsInv'
<1> DEFINE u == call[r].user
           row == [version |-> 1, role |-> call[r].role, active |-> TRUE, hash |-> call[r].hash,
                   validFrom |-> 0]
<1>1. AccountsTypeOK /\ Past /\ u \in People /\ call[r].role \in Roles /\ call[r].hash \in Passwords
      /\ clock \in Nat
  BY CallIsTyped DEF AccountsInv, AccountsTypeOK
<1>2. /\ user[u].version = 0 /\ user' = [user EXCEPT ![u] = row] /\ Finish(r)
      /\ UNCHANGED <<cookies, clock, begun, ended, raced, leadRaced, demoted>>
  BY DEF CommitCreateUser
<1>3. row \in User /\ row.version = 1 /\ row.validFrom = 0
  BY <1>1 DEF User
<1> HIDE DEF row
<1>4. user' \in [People -> User] /\ user'[u] = row /\ \A v \in People \ {u} : user'[v] = user[v]
  BY <1>1, <1>2, <1>3 DEF AccountsTypeOK
<1>5. /\ call' \in [Calls -> Call] /\ call'[r] = Idle /\ \A q \in Calls \ {r} : call'[q] = call[q]
      /\ RequestSound(r)' /\ InOrder(r)' /\ EndsCounted(r)'
  BY <1>1, <1>2, OverIsSound
<1>6. \A c \in cookies : c.user \in People /\ c.user # u
  BY <1>1, <1>2, CookieIsTyped DEF Past
<1>7. \A c \in cookies : user'[c.user] = user[c.user]
  BY <1>4, <1>6
<1>8. AccountsTypeOK'
  BY <1>1, <1>2, <1>4, <1>5 DEF AccountsTypeOK
<1>9. Past'
  BY <1>1, <1>2, <1>3, <1>4, <1>5, <1>7, AccountsPlainTypes DEF Past
<1>10. \A v \in People : ActiveLead(v) => ActiveLead(v)'
  BY <1>1, <1>2, <1>4 DEF ActiveLead
<1>11. ASSUME NEW q \in Calls \ {r} PROVE RequestSound(q)' /\ InOrder(q)' /\ EndsCounted(q)'
  <2>1. call'[q] = call[q] /\ InOrder(q) /\ EndsCounted(q) /\ call[q].user \in People /\ RequestSound(q)
    BY <1>1, <1>5, CallIsTyped DEF AccountsInv
  <2>2. RequestSound(q)'
    <3>1. user[call[r].user].version <= row.version /\ row.version # user[call[r].user].version
      BY <1>2, <1>3
    <3>2. user' = [user EXCEPT ![call[r].user] = row] /\ call'[q] = call[q]
      BY <1>2, <2>1
    <3> QED
      BY <1>3, <3>1, <3>2, OthersAfterWrite
  <2>3. InOrder(q)'
    <3>1. CASE call[q].user # u
      BY <1>2, <1>4, <2>1, <3>1 DEF InOrder
    <3>2. CASE call[q].user = u
      <4>1. call[q].pc \notin {"read", "stamped"} \/ call[q].op = "create"
        BY <1>2, <2>1, <3>2 DEF RequestSound
      <4> QED
        BY <2>1, <4>1 DEF InOrder, RequestSound, Stamping
    <3> QED
      BY <3>1, <3>2
  <2>4. EndsCounted(q)'
    BY <1>2, <1>10, <2>1 DEF EndsCounted
  <2> QED
    BY <2>2, <2>3, <2>4
<1>12. \A c \in cookies' : c.user \notin raced' /\ user'[c.user].validFrom < c.at
                              => c.proof = user'[c.user].hash
  BY <1>2, <1>7 DEF AccountsInv
<1>13. \A c \in ended' : c.user \notin raced' => Revoked(c)'
  BY <1>1, <1>2, <1>7 DEF AccountsInv, Revoked, Past
<1>14. ActiveLeadRemains'
  BY <1>2, <1>10 DEF AccountsInv, ActiveLeadRemains
<1> QED
  BY <1>5, <1>8, <1>9, <1>11, <1>12, <1>13, <1>14 DEF AccountsInv

LEMMA AccountsInvNext == AccountsInv /\ [AccountsNext]_accountVars => AccountsInv'
<1> SUFFICES ASSUME AccountsInv, [AccountsNext]_accountVars PROVE AccountsInv'
  OBVIOUS
<1>1. CASE UNCHANGED accountVars
  BY <1>1 DEF accountVars, AccountsInv, AccountsTypeOK, Past, RequestSound, InOrder, EndsCounted,
     AccountVersionHolds, Revoked, ActiveLead, ActiveLeadRemains
<1>2. CASE Tick
  BY <1>2, InvTick
<1>3. ASSUME NEW r \in Calls, NEW u \in People,
             \/ BeginSignIn(r, u) \/ BeginSignOut(r, u)
             \/ \E p \in Passwords : BeginChangePassword(r, u, p)
             \/ \E a \in People, role \in Roles, p \in Passwords : BeginCreateUser(r, a, u, role, p)
             \/ \E a \in People :
                   \/ \E role \in Roles : BeginUpdateRole(r, a, u, role)
                   \/ BeginUpdateProfile(r, a, u)
                   \/ \E op \in {"activate", "deactivate"} : BeginSetActive(r, op, a, u)
                   \/ \E p \in Passwords : BeginResetPassword(r, a, u, p)
      PROVE  AccountsInv'
  BY <1>3, InvBegins
<1>4. ASSUME NEW r \in Calls,
             \/ Stamp(r) \/ Refuse(r) \/ SignIn(r) \/ CommitCreateUser(r)
             \/ CommitUpdateRole(r) \/ CommitUpdateProfile(r) \/ Activate(r) \/ Deactivate(r)
             \/ CommitResetPassword(r) \/ CommitChangePassword(r) \/ CommitSignOut(r)
      PROVE  AccountsInv'
  BY <1>4, InvStamp, InvRefuse, InvSignIn, InvCreate, InvUnstamped, InvDeactivate, InvStamping
<1> QED
  BY <1>1, <1>2, <1>3, <1>4 DEF AccountsNext

-------------------------------------------------------------------------------
LEMMA AccountsAreSound == AccountsSpec => []AccountsInv
  BY AccountsInvInit, AccountsInvNext, PTL DEF AccountsSpec

\* Every row, cookie and request has its type.
THEOREM AccountsAreTyped == AccountsSpec => []AccountsTypeOK
<1>1. AccountsInv => AccountsTypeOK
  BY DEF AccountsInv
<1> QED
  BY <1>1, AccountsAreSound, PTL

\* A session that was ended stays ended, unless requests on its account overlapped
\* (isSessionRevoked against the stamps of admin.ts and auth.ts).
THEOREM RevocationsStand == AccountsSpec => []RevocationStands
<1>1. AccountsInv => RevocationStands
  BY DEF AccountsInv, RevocationStands, Accepted
<1> QED
  BY <1>1, AccountsAreSound, PTL

\* An accepted session has shown the password the account has now (changeOwnPassword,
\* resetUserPassword).
THEOREM SessionsShowThePassword == AccountsSpec => []SessionsMatchPasswords
<1>1. AccountsInv => SessionsMatchPasswords
  <2> SUFFICES ASSUME AccountsInv, NEW c \in cookies, Accepted(c), c.user \notin raced,
                      c.at # user[c.user].validFrom
               PROVE  c.proof = user[c.user].hash
    BY DEF SessionsMatchPasswords
  <2>1. c.at \in Nat /\ user[c.user].validFrom \in Nat
    BY CookieIsTyped, RowIsTyped DEF AccountsInv
  <2>2. user[c.user].validFrom < c.at
    BY <2>1 DEF Accepted, Revoked
  <2> QED
    BY <2>2 DEF AccountsInv
<1> QED
  BY <1>1, AccountsAreSound, PTL

\* The last active lead stays, as far as the guard of setUserActive can see.
THEOREM AnActiveLeadRemains == AccountsSpec => []ActiveLeadRemains
<1>1. AccountsInv => ActiveLeadRemains
  BY DEF AccountsInv
<1> QED
  BY <1>1, AccountsAreSound, PTL
====
