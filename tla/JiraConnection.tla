---- MODULE JiraConnection ----
(* One person's connection to Jira: the consent flow of the connect and        *)
(* callback routes (lib/oauth-state.ts, lib/jira-oauth.ts), connecting and     *)
(* disconnecting (domain/jira-credentials.ts), and the exchange of the stored  *)
(* refresh token for an access token (domain/jira-transport.ts) by concurrent  *)
(* syncs.  Atlassian is an external party: it rotates the single-use token and *)
(* revokes the whole family when one comes twice.                              *)

EXTENDS Naturals, FiniteSets

CONSTANTS
    Syncs,              \* callers of withRefreshedAccessToken that can run at once
    Secrets,            \* encryption keys the deployment may be started with
    MaxFlows,           \* bound: consent flows begun
    MaxRotations        \* bound: rotations of one token family

ASSUME ConnectionAssumption == MaxFlows \in Nat /\ MaxRotations \in Nat /\ Secrets # {}

VARIABLES
    credential, \* the JiraCredential row, NoCredential for none
    rowLock,    \* the sync that holds the row FOR UPDATE, as a set of at most one
    sync,       \* sync[s]: what s holds in memory
    flow,       \* flow[f]: the consent flow f
    stateCookie, \* the flow whose state is in the browser's connect cookie, 0 for none
    secret,     \* the key the process runs with
    family,     \* Atlassian: family[f], the tokens that came of flow f
    late,       \* exchanges under way to Atlassian that nobody waits for any more
    abandoned,  \* history: families one of whose exchanges was abandoned
    lastWord    \* history: the flow last connected, 0 once disconnected

connectionVars == <<credential, rowLock, sync, flow, stateCookie, secret, family, late,
                    abandoned, lastWord>>

Flows == 1..MaxFlows

Token == [flow : Flows, turn : Nat]

NoToken == [flow |-> 0, turn |-> 0]

\* What exchangeCodeForRefreshToken makes of the code of flow f; it throws on every other answer.
FirstToken(f) == [flow |-> f, turn |-> 0]

\* encryptSecret: what is stored can be read with the same key only.
Sealed(token, key) == [token |-> token, key |-> key]

NoCredential == [token |-> NoToken, key |-> CHOOSE k \in Secrets : TRUE]

ConnectionTypeOK ==
    /\ credential \in [token : Token, key : Secrets] \cup {NoCredential}
    /\ rowLock \subseteq Syncs /\ Cardinality(rowLock) <= 1
    /\ sync \in [Syncs -> [pc : {"idle", "sent", "answered", "refused"},
                           token : Token \cup {NoToken}, answer : Token \cup {NoToken}]]
    /\ flow \in [Flows -> {"none", "begun", "consented", "exchanged", "over"}]
    /\ stateCookie \in 0..MaxFlows
    /\ secret \in Secrets
    /\ family \in [Flows -> [turn : Nat, revoked : BOOLEAN]]
    /\ late \subseteq Token
    /\ abandoned \subseteq Flows
    /\ lastWord \in 0..MaxFlows

Resting == [pc |-> "idle", token |-> NoToken, answer |-> NoToken]

Connected == credential # NoCredential

-------------------------------------------------------------------------------
\* The consent flow

\* GET /jira/connect: a new state replaces whatever the cookie held.
BeginFlow(f) ==
    /\ flow[f] = "none" /\ \A g \in Flows : g < f => flow[g] # "none"
    /\ flow' = [flow EXCEPT ![f] = "begun"]
    /\ stateCookie' = f
    /\ UNCHANGED <<credential, rowLock, sync, secret, family, late, abandoned, lastWord>>

\* Atlassian grants an authorization code.
Consent(f) ==
    /\ flow[f] = "begun"
    /\ flow' = [flow EXCEPT ![f] = "consented"]
    /\ UNCHANGED <<credential, rowLock, sync, stateCookie, secret, family, late, abandoned,
                   lastWord>>

\* The state of a flow stands for the flow: verifyOAuthState takes the one that was issued for it,
\* and the cookie of the browser has to hold the same.
StateVerified(f) == flow[f] = "consented" /\ stateCookie = f

\* GET /jira/callback up to the exchange of the code.
ExchangeCode(f) ==
    /\ StateVerified(f)
    /\ flow' = [flow EXCEPT ![f] = "exchanged"]
    /\ UNCHANGED <<credential, rowLock, sync, stateCookie, secret, family, late, abandoned,
                   lastWord>>

\* Refused, expired, or superseded in the cookie by a later flow; or the answer to the exchange
\* is lost.  Every failure deletes the cookie, whoever's it is by now.
FailFlow(f) ==
    /\ flow[f] \in {"begun", "consented", "exchanged"}
    /\ flow' = [flow EXCEPT ![f] = "over"]
    /\ stateCookie' \in {0, stateCookie}        \* a callback that never arrives deletes nothing
    /\ UNCHANGED <<credential, rowLock, sync, secret, family, late, abandoned, lastWord>>

\* Mutant of Connect: the row is replaced while a sync holds it.
ConnectUnlocked(f) ==
    /\ flow[f] = "exchanged"
    /\ credential' = Sealed(FirstToken(f), secret)
    /\ lastWord' = f
    /\ flow' = [flow EXCEPT ![f] = "over"]
    /\ UNCHANGED <<rowLock, sync, stateCookie, secret, family, late, abandoned>>

\* connectJiraAccount: the upsert waits for the row's lock.  The cookie stays: it is deleted
\* under another path than it was set with.
Connect(f) ==
    /\ flow[f] = "exchanged" /\ rowLock = {}
    /\ credential' = Sealed(FirstToken(f), secret)
    /\ lastWord' = f
    /\ flow' = [flow EXCEPT ![f] = "over"]
    /\ UNCHANGED <<rowLock, sync, stateCookie, secret, family, late, abandoned>>

\* disconnectJiraAccount's transaction, as far as the credential goes.
DisconnectAccount ==
    /\ Connected /\ rowLock = {}
    /\ credential' = NoCredential
    /\ lastWord' = 0
    /\ UNCHANGED <<rowLock, sync, flow, stateCookie, secret, family, late, abandoned>>

-------------------------------------------------------------------------------
\* Spending the refresh token

\* SELECT .. FOR UPDATE, decryptSecret, and the request.
LockAndSend(s) ==
    /\ sync[s].pc = "idle"
    /\ Connected /\ credential.key = secret /\ rowLock = {}
    /\ rowLock' = {s}
    /\ sync' = [sync EXCEPT ![s] = [pc |-> "sent", token |-> credential.token,
                                    answer |-> NoToken]]
    /\ UNCHANGED <<credential, flow, stateCookie, secret, family, late, abandoned, lastWord>>

\* What Atlassian makes of a token: the answer it gives, NoToken for a refusal, and the family
\* after it.  It need not rotate, and it may or may not revoke on reuse.
Answers(t) ==
    LET fam == family[t.flow]
    IN  IF fam.revoked THEN {<<NoToken, fam>>}
        ELSE IF t.turn # fam.turn
        THEN {<<NoToken, fam>>, <<NoToken, [fam EXCEPT !.revoked = TRUE]>>}
        ELSE {<<t, fam>>} \cup
             (IF fam.turn < MaxRotations
              THEN {<<[t EXCEPT !.turn = t.turn + 1], [fam EXCEPT !.turn = fam.turn + 1]>>}
              ELSE {})

Answer(s) ==
    /\ sync[s].pc = "sent"
    /\ \E a \in Answers(sync[s].token) :
          /\ family' = [family EXCEPT ![sync[s].token.flow] = a[2]]
          /\ sync' = [sync EXCEPT ![s].answer = a[1],
                                  ![s].pc = IF a[1] = NoToken THEN "refused" ELSE "answered"]
    /\ UNCHANGED <<credential, rowLock, flow, stateCookie, secret, late, abandoned, lastWord>>

\* Mutant of StoreReplacement: the access token is used and the replacement forgotten.
StoreNothing(s) ==
    /\ sync[s].pc = "answered" /\ Connected
    /\ rowLock' = rowLock \ {s}
    /\ sync' = [sync EXCEPT ![s] = Resting]
    /\ UNCHANGED <<credential, flow, stateCookie, secret, family, late, abandoned, lastWord>>

\* The replacement is stored in the transaction that held the lock, before any use of the access
\* token.
StoreReplacement(s) ==
    /\ sync[s].pc = "answered" /\ Connected
    /\ credential' = Sealed(sync[s].answer, secret)
    /\ rowLock' = rowLock \ {s}
    /\ sync' = [sync EXCEPT ![s] = Resting]
    /\ UNCHANGED <<flow, stateCookie, secret, family, late, abandoned, lastWord>>

\* Jira refused the refresh: nothing is stored.
Refused(s) ==
    /\ sync[s].pc = "refused"
    /\ rowLock' = rowLock \ {s}
    /\ sync' = [sync EXCEPT ![s] = Resting]
    /\ UNCHANGED <<credential, flow, stateCookie, secret, family, late, abandoned, lastWord>>

\* The deadline passes, the answer is unreadable, the process stops or the write fails: the
\* transaction is rolled back.  A request not answered yet may still arrive at Atlassian.
Abandon(s) ==
    /\ sync[s].pc \in {"sent", "answered"}
    /\ late' = IF sync[s].pc = "sent" THEN late \cup {sync[s].token} ELSE late
    /\ abandoned' = abandoned \cup {sync[s].token.flow}
    /\ rowLock' = rowLock \ {s}
    /\ sync' = [sync EXCEPT ![s] = Resting]
    /\ UNCHANGED <<credential, flow, stateCookie, secret, family, lastWord>>

\* Atlassian answers a request whose sender has given up, or the request is lost.
AnswerLate(t) ==
    /\ t \in late
    /\ late' = late \ {t}
    /\ \/ \E a \in Answers(t) : family' = [family EXCEPT ![t.flow] = a[2]]
       \/ UNCHANGED family
    /\ UNCHANGED <<credential, rowLock, sync, flow, stateCookie, secret, abandoned, lastWord>>

\* The deployment is started again with another key.
ChangeSecret(k) ==
    /\ k # secret
    /\ \A s \in Syncs : sync[s].pc = "idle"
    /\ secret' = k
    /\ UNCHANGED <<credential, rowLock, sync, flow, stateCookie, family, late, abandoned, lastWord>>

ConnectionInit ==
    /\ credential = NoCredential /\ rowLock = {} /\ lastWord = 0
    /\ sync = [s \in Syncs |-> Resting]
    /\ flow = [f \in Flows |-> "none"] /\ stateCookie = 0
    /\ secret = CHOOSE k \in Secrets : TRUE
    /\ family = [f \in Flows |-> [turn |-> 0, revoked |-> FALSE]]
    /\ late = {} /\ abandoned = {}

ConnectionNext ==
    \/ \E f \in Flows : BeginFlow(f) \/ Consent(f) \/ ExchangeCode(f) \/ FailFlow(f) \/ Connect(f)
    \/ DisconnectAccount
    \/ \E s \in Syncs :
          LockAndSend(s) \/ Answer(s) \/ StoreReplacement(s) \/ Refused(s) \/ Abandon(s)
    \/ \E t \in late : AnswerLate(t)
    \/ \E k \in Secrets : ChangeSecret(k)

ConnectionSpec == ConnectionInit /\ [][ConnectionNext]_connectionVars

-------------------------------------------------------------------------------
\* Properties

\* "Miss that and the stored token is dead the moment it is first used": whenever no exchange is
\* under way, the stored token is the one Atlassian expects next and its family is not revoked,
\* unless an exchange of that family was abandoned before its answer was stored.
StoredTokenIsLive ==
    Connected /\ rowLock = {} /\ credential.token.flow \notin abandoned =>
        family[credential.token.flow] = [turn |-> credential.token.turn, revoked |-> FALSE]

\* The last thing the person did stands: a sync that began before a reconnection never puts the
\* earlier connection's token back, nor one that began before a disconnection any token at all.
LastWordStands == credential.token.flow = lastWord
====
