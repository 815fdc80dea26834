---------------------------- MODULE TransferBook ----------------------------
(***************************************************************************)
(* What the transfer and reversal endpoints promise their clients: every   *)
(* idempotency key is decided once, at one instant, either with the money  *)
(* movement and all its records or with a failure that moves nothing; a    *)
(* transfer is reversed at most once, by its sender.                       *)
(***************************************************************************)
EXTENDS LedgerRules

CONSTANT Indexes        \* (user, scope, key) triples of idempotency records

VARIABLES
    balance, status, journal,   \* the book of LedgerBook
    decided,    \* [Indexes -> "none", "failure", or the id of what was done]
    transfers,  \* completed transfers
    reversals,  \* their reversals
    audit,      \* <<action, transfer>> pairs
    outbox      \* <<event type, aggregate id>> pairs

bookVars == <<balance, status, journal>>
recordVars == <<transfers, reversals, audit, outbox>>
promised == <<bookVars, decided, recordVars>>

Ledger == INSTANCE LedgerBook

Init ==
    /\ Ledger!Init
    /\ decided = [k \in Indexes |-> <<"none">>]
    /\ transfers = {} /\ reversals = {} /\ audit = {} /\ outbox = {}

Decide(k, outcome) ==
    /\ decided[k] = <<"none">>
    /\ decided' = [decided EXCEPT ![k] = outcome]

\* The entry of a transfer debits its source and credits its destination.
Movement(entry, from, to, amount) ==
    /\ from # to
    /\ Posted(entry) = {from, to}
    /\ entry.postings[from] = -amount
    /\ entry.postings[to] = amount

Transfer(k, t) ==
    /\ t \notin transfers
    /\ Decide(k, <<"done", t.id>>)
    /\ \E entry \in journal' :
         Ledger!Post(entry) /\ Movement(entry, t.source, t.destination, t.amount)
    /\ OwnerOf[t.source] = t.sender
    /\ transfers' = transfers \cup {t}
    /\ audit' = audit \cup {<<"TRANSFER_CREATED", t.id>>}
    /\ outbox' = outbox \cup {<<"TRANSFER_COMPLETED", t.id>>}
    /\ UNCHANGED reversals

Reverse(k, r) ==
    /\ \A q \in reversals : q.transfer # r.transfer
    /\ Decide(k, <<"done", r.id>>)
    /\ \E t \in transfers, entry \in journal' :
         /\ t.id = r.transfer /\ t.sender = r.actor
         /\ Ledger!Post(entry) /\ Movement(entry, t.destination, t.source, t.amount)
    /\ reversals' = reversals \cup {r}
    /\ audit' = audit \cup {<<"TRANSFER_REVERSED", r.transfer>>}
    /\ outbox' = outbox \cup {<<"TRANSFER_REVERSED", r.id>>}
    /\ UNCHANGED transfers

Fail(k) ==
    /\ Decide(k, <<"failure">>)
    /\ UNCHANGED <<bookVars, recordVars>>

\* Wallets are closed, frozen and unfrozen besides.
WalletStep ==
    /\ \E w \in Wallets : Ledger!Close(w) \/ Ledger!SetFrozen(w)
    /\ UNCHANGED <<decided, recordVars>>

Next ==
    \/ \E k \in Indexes :
         \/ Fail(k)
         \/ \E t \in transfers' : Transfer(k, t)
         \/ \E r \in reversals' : Reverse(k, r)
    \/ WalletStep

Spec == Init /\ [][Next]_promised
==============================================================================
