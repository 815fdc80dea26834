----------------------------- MODULE PaymentBook -----------------------------
(***************************************************************************)
(* What the payment endpoints promise the owner of a wallet and the        *)
(* provider: an intent is fixed when it is made, credits nothing by itself *)
(* and is settled at most once, at one instant, either with the credit of  *)
(* exactly its amount and one event, or with a failure and one event.      *)
(***************************************************************************)
EXTENDS LedgerRules

CONSTANT Payments       \* ids of payments

VARIABLES
    balance, status, journal,   \* the book of LedgerBook
    intent,     \* [Payments -> [user, key, wallet, amount] or what stands for none]
    outcome,    \* [Payments -> {"NONE", "PENDING", "SUCCEEDED", "FAILED"}]
    outbox      \* <<event type, payment>> pairs

bookVars == <<balance, status, journal>>
funded == <<bookVars, intent, outcome, outbox>>

Ledger == INSTANCE LedgerBook

Init ==
    /\ Ledger!Init
    /\ outcome = [p \in Payments |-> "NONE"]
    /\ outbox = {}

\* Payments q and r were asked for by one user under one idempotency key.
SameKey(q, r) == intent[q].user = intent[r].user /\ intent[q].key = intent[r].key

\* An intent, which its amount and wallet belong to for ever, and which is the
\* only one of its user under its key.
Intend(p) ==
    /\ outcome[p] = "NONE"
    /\ \A q \in Payments \ {p} : outcome[q] # "NONE" => ~SameKey(p, q)'
    /\ outcome' = [outcome EXCEPT ![p] = "PENDING"]
    /\ intent' = [intent EXCEPT ![p] = intent'[p]]
    /\ intent'[p].wallet \in Wallets /\ intent'[p].amount > 0
    /\ UNCHANGED <<bookVars, outbox>>

\* The clearing account pays the wallet exactly what was intended.
Credit(entry, p) ==
    /\ Posted(entry) = {ClearingOf[CurrencyOf[intent[p].wallet]], intent[p].wallet}
    /\ entry.postings[intent[p].wallet] = intent[p].amount

Settle(p, result) ==
    /\ outcome[p] = "PENDING"
    /\ outcome' = [outcome EXCEPT ![p] = result]
    /\ UNCHANGED intent

Succeed(p) ==
    /\ Settle(p, "SUCCEEDED")
    /\ \E entry \in journal' : Ledger!Post(entry) /\ Credit(entry, p)
    /\ outbox' = outbox \cup {<<"PAYMENT_SUCCEEDED", p>>}

Fail(p) ==
    /\ Settle(p, "FAILED")
    /\ outbox' = outbox \cup {<<"PAYMENT_FAILED", p>>}
    /\ UNCHANGED bookVars

\* Wallets are closed, frozen and unfrozen besides.
WalletStep ==
    /\ \E w \in Wallets : Ledger!Close(w) \/ Ledger!SetFrozen(w)
    /\ UNCHANGED <<intent, outcome, outbox>>

Next ==
    \/ \E p \in Payments : Intend(p) \/ Succeed(p) \/ Fail(p)
    \/ WalletStep

Spec == Init /\ [][Next]_funded
==============================================================================
