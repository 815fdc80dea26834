----------------------------- MODULE LedgerBook -----------------------------
(***************************************************************************)
(* What the ledger and the wallets promise, with no transaction, snapshot  *)
(* or lock in sight: a book of balances and wallet statuses in which every *)
(* entry is posted at one instant, against the balances and statuses of    *)
(* that instant.  Ledger.tla is shown to implement it.                     *)
(***************************************************************************)
EXTENDS LedgerRules

VARIABLES
    balance,    \* [Accounts -> Int]
    status,     \* [Wallets -> {"NONE", "ACTIVE", "FROZEN", "CLOSED"}]
    journal     \* the ledger transactions posted so far

bookVars == <<balance, status, journal>>

Open(w) == status[w] # "NONE"

Init ==
    /\ balance = [a \in Accounts |-> OpeningBalance(a)]
    /\ status = [w \in Wallets |-> IF w \in Migrated THEN "ACTIVE" ELSE "NONE"]
    /\ journal = OpeningJournal

\* Every posting of an entry is applied, to active wallets only, without
\* overdraft or overflow, and no reference is used twice.
Post(entry) ==
    /\ ValidAtCommit(entry)
    /\ \A e \in journal : e.reference # entry.reference
    /\ \A a \in Posted(entry) :
         /\ a \in Wallets => status[a] = "ACTIVE"
         /\ BalanceAllowed(a, balance[a] + entry.postings[a])
    /\ balance' = [a \in Accounts |-> balance[a] + entry.postings[a]]
    /\ journal' = journal \cup {entry}
    /\ UNCHANGED status

\* A user has one wallet per currency, and a new wallet is empty.
Create(w) ==
    /\ ~Open(w)
    /\ \A v \in Wallets :
         Open(v) => OwnerOf[v] # OwnerOf[w] \/ CurrencyOf[v] # CurrencyOf[w]
    /\ status' = [status EXCEPT ![w] = "ACTIVE"]
    /\ balance' = [balance EXCEPT ![w] = 0]
    /\ UNCHANGED journal

\* Only an empty, active wallet is closed, and for ever.
Close(w) ==
    /\ status[w] = "ACTIVE"
    /\ balance[w] = 0
    /\ status' = [status EXCEPT ![w] = "CLOSED"]
    /\ UNCHANGED <<balance, journal>>

\* The operator's switch.
SetFrozen(w) ==
    /\ status[w] \in {"ACTIVE", "FROZEN"}
    /\ status' = [status EXCEPT ![w] = IF @ = "ACTIVE" THEN "FROZEN" ELSE "ACTIVE"]
    /\ UNCHANGED <<balance, journal>>

\* Any entry may be posted: the posted one is in the journal afterwards.
Next ==
    \/ \E entry \in journal' : Post(entry)
    \/ \E w \in Wallets : Create(w) \/ Close(w) \/ SetFrozen(w)

Spec == Init /\ [][Next]_bookVars
==============================================================================
