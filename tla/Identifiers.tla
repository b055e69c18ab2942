---- MODULE Identifiers ----
(* Business identifiers (lib/id-allocator.ts): one number space, EXE-, BUG-,   *)
(* TC-<product>- or a catalogue level, with its IdSequence row.  Transactions  *)
(* draw numbers from the counter or bring their own, under READ COMMITTED: a   *)
(* query sees what is committed and what its own transaction wrote, an UPDATE  *)
(* waits for the row lock, an INSERT for an uncommitted row with the same key. *)

EXTENDS Naturals, FiniteSets

CONSTANTS
    Transactions,       \* database transactions that can be open at once
    Top                 \* maxSuffix: the last number the format can express

ASSUME IdentifiersAssumption == Top \in Nat \ {0}

VARIABLES
    record,     \* record[n]: who chose the committed record's number n, "free" for no record
    sequence,   \* IdSequence.next as committed, 0 while the key was never used
    locked,     \* the transaction that holds the sequence's row, as a set of at most one
    seededAt,   \* history: the value the committed or uncommitted row was seeded with, 0 for none
    txn         \* txn[t]: the transaction t

identifierVars == <<record, sequence, locked, seededAt, txn>>

Numbers == 1..Top

Txn == [pc        : {"closed", "open", "scan", "seed", "again", "probe", "insert", "supply"},
        next      : Nat,                \* the sequence as t has written it
        claimed   : Nat,
        candidate : Nat,
        drawn     : SUBSET Numbers,     \* records of t not committed yet, by origin
        supplied  : SUBSET Numbers]

Closed == [pc |-> "closed", next |-> 0, claimed |-> 0, candidate |-> 0,
           drawn |-> {}, supplied |-> {}]

IdentifiersTypeOK ==
    /\ record \in [Numbers -> {"free", "allocated", "supplied"}]
    /\ sequence \in Nat /\ seededAt \in Nat
    /\ locked \in SUBSET Transactions /\ Cardinality(locked) <= 1
    /\ txn \in [Transactions -> Txn]

Own(t) == txn[t].drawn \cup txn[t].supplied

Committed == {n \in Numbers : record[n] # "free"}

\* isTaken
Taken(t, n) == n \in Committed \/ n \in Own(t)

\* The row an UPDATE of t can see at all: a committed one, or its own.
RowVisible(t) == sequence > 0 \/ t \in locked

Current(t) == IF t \in locked THEN txn[t].next ELSE sequence

-------------------------------------------------------------------------------

OpenTransaction(t) ==
    /\ txn[t].pc = "closed"
    /\ txn' = [txn EXCEPT ![t].pc = "open"]
    /\ UNCHANGED <<record, sequence, locked, seededAt>>

\* Mutant of Claim: the number is read without taking the row's lock.
ClaimUnlocked(t) ==
    /\ txn[t].pc \in {"open", "again"}
    /\ RowVisible(t)
    /\ locked' = {t}
    /\ txn' = [txn EXCEPT ![t].pc = "probe", ![t].claimed = Current(t),
                          ![t].candidate = Current(t), ![t].next = Current(t) + 1]
    /\ UNCHANGED <<record, sequence, seededAt>>

\* UPDATE .. RETURNING, once the row's lock is had.
Claim(t) ==
    /\ txn[t].pc \in {"open", "again"}
    /\ RowVisible(t) /\ locked \subseteq {t}
    /\ locked' = {t}
    /\ txn' = [txn EXCEPT ![t].pc = "probe", ![t].claimed = Current(t),
                          ![t].candidate = Current(t), ![t].next = Current(t) + 1]
    /\ UNCHANGED <<record, sequence, seededAt>>

\* It found no row: the key has never been used.
ClaimNothing(t) ==
    /\ txn[t].pc = "open" /\ ~RowVisible(t)
    /\ txn' = [txn EXCEPT ![t].pc = "scan"]
    /\ UNCHANGED <<record, sequence, locked, seededAt>>

\* currentMax: highestSuffix of the identifiers in use.
CurrentMax(t) ==
    /\ txn[t].pc = "scan"
    /\ \E n \in {0} \cup Committed \cup Own(t) :
          /\ \A m \in Committed \cup Own(t) : m <= n
          /\ txn' = [txn EXCEPT ![t].pc = "seed", ![t].candidate = n]
    /\ UNCHANGED <<record, sequence, locked, seededAt>>

\* INSERT .. ON CONFLICT DO NOTHING: waits for another seeder to end, and leaves its row alone.
Seed(t) ==
    /\ txn[t].pc = "seed"
    /\ sequence = 0 => locked = {}
    /\ IF sequence = 0
       THEN /\ locked' = {t}
            /\ seededAt' = txn[t].candidate + 1
            /\ txn' = [txn EXCEPT ![t].pc = "again", ![t].next = txn[t].candidate + 1]
       ELSE /\ txn' = [txn EXCEPT ![t].pc = "again"]
            /\ UNCHANGED <<locked, seededAt>>
    /\ UNCHANGED <<record, sequence>>

\* One turn of the probing loop.  formatBusinessId refuses a number past the end: see Rollback.
Probe(t) ==
    /\ txn[t].pc = "probe" /\ txn[t].candidate <= Top
    /\ IF Taken(t, txn[t].candidate)
       THEN txn' = [txn EXCEPT ![t].candidate = txn[t].candidate + 1]
       ELSE txn' = [txn EXCEPT ![t].pc = "insert",
                               ![t].next = IF txn[t].candidate # txn[t].claimed
                                           THEN txn[t].candidate + 1 ELSE txn[t].next]
    /\ UNCHANGED <<record, sequence, locked, seededAt>>

\* A record with a number of the caller's: the services look for it before they go on.
Supply(t, n) ==
    /\ txn[t].pc = "open" /\ record[n] = "free"
    /\ txn' = [txn EXCEPT ![t].pc = "supply", ![t].candidate = n]
    /\ UNCHANGED <<record, sequence, locked, seededAt>>

\* The record is created: the unique index waits for a number that another transaction has
\* written, and refuses one that is taken (P2002, see Rollback).
Insert(t) ==
    LET n == txn[t].candidate
    IN  /\ txn[t].pc \in {"insert", "supply"}
        /\ ~Taken(t, n)
        /\ \A s \in Transactions : n \notin Own(s)
        /\ txn' = [txn EXCEPT ![t].pc = "open",
                              ![t].drawn = IF txn[t].pc = "insert" THEN @ \cup {n} ELSE @,
                              ![t].supplied = IF txn[t].pc = "supply" THEN @ \cup {n} ELSE @]
        /\ UNCHANGED <<record, sequence, locked, seededAt>>

Commit(t) ==
    /\ txn[t].pc = "open"
    /\ record' = [n \in Numbers |-> IF n \in txn[t].drawn THEN "allocated"
                                    ELSE IF n \in txn[t].supplied THEN "supplied"
                                    ELSE record[n]]
    /\ sequence' = Current(t)
    /\ locked' = locked \ {t}
    /\ txn' = [txn EXCEPT ![t] = Closed]
    /\ UNCHANGED seededAt

\* A refusal, a failure or a crash: nothing of the transaction remains.
Rollback(t) ==
    /\ txn[t].pc # "closed"
    /\ locked' = locked \ {t}
    /\ seededAt' = IF t \in locked /\ sequence = 0 THEN 0 ELSE seededAt
    /\ txn' = [txn EXCEPT ![t] = Closed]
    /\ UNCHANGED <<record, sequence>>

\* Imported and hand-supplied records may be there before the sequence is.
IdentifiersInit ==
    /\ record \in [Numbers -> {"free", "supplied"}]
    /\ sequence = 0 /\ seededAt = 0
    /\ locked = {}
    /\ txn = [t \in Transactions |-> Closed]

IdentifiersNext ==
    \E t \in Transactions :
        \/ OpenTransaction(t) \/ Claim(t) \/ ClaimNothing(t) \/ CurrentMax(t) \/ Seed(t)
        \/ Probe(t) \/ Insert(t) \/ Commit(t) \/ Rollback(t)
        \/ \E n \in Numbers : Supply(t, n)

IdentifiersSpec == IdentifiersInit /\ [][IdentifiersNext]_identifierVars

-------------------------------------------------------------------------------
\* Properties

\* "The UPDATE .. RETURNING increment takes the row lock, so concurrent allocators on the same
\* key serialize": a number about to be inserted was not allocated to anybody else, committed or
\* not.  What can still refuse it is a number somebody chose by hand.
AllocatorsNeverCollide ==
    \A t \in Transactions : txn[t].pc = "insert" =>
        /\ record[txn[t].candidate] # "allocated"
        /\ \A s \in Transactions \ {t} : txn[t].candidate \notin txn[s].drawn

\* "Two failed passes can only mean the row vanished between them": after one pass and a seed,
\* whoever's seed it was, the row is there.
SecondPassFindsRow == \A t \in Transactions : txn[t].pc = "again" => RowVisible(t)

\* A space is refused as exhausted only when every number from the seed on is taken: a
\* transaction that fails gives its numbers back.  (Numbers below a hand-supplied seed are not
\* looked at.)
ExhaustedOnlyWhenUsedUp ==
    \A t \in Transactions : txn[t].pc = "probe" /\ txn[t].candidate > Top =>
        \A n \in seededAt..Top : Taken(t, n)

\* The three together.
AllocatorsAreSound == AllocatorsNeverCollide /\ SecondPassFindsRow /\ ExhaustedOnlyWhenUsedUp
====
