----------------------------- MODULE LedgerRules -----------------------------
(***************************************************************************)
(* The constants of the ledger and the rules that need no state: what      *)
(* ledger.invariants.ts demands of a ledger transaction before the         *)
(* database is touched, the CHECK constraints of the ledger tables, and    *)
(* the opening balances the ledger migration posts.                        *)
(*                                                                         *)
(* An account is a number and the order of the numbers is the order of the *)
(* account UUIDs.  A product wallet and its ledger account are created     *)
(* together and linked one to one for ever, so both have one identity: the *)
(* members of Wallets are the accounts of kind WALLET, the others are of   *)
(* kind SYSTEM (the clearing accounts).                                    *)
(***************************************************************************)
EXTENDS Integers, Sequences, Functions

CONSTANTS
    Accounts,       \* ids of ledger accounts
    Wallets,        \* ids of those that are accounts of product wallets
    Currencies,
    Users,
    CurrencyOf,     \* [Accounts -> Currencies], immutable columns
    OwnerOf,        \* [Wallets -> Users], immutable column
    ClearingOf,     \* [Currencies -> SYSTEM account]
    MinMinor,       \* the BIGINT range, scaled down
    MaxMinor,
    MaxPostings,    \* MAX_POSTINGS
    Migrated,       \* wallets that existed before the ledger did ...
    Opening         \* ... and their balances then: [Wallets -> Int]

ASSUME AccountsAssumption ==
    /\ Accounts \subseteq Nat
    /\ Wallets \subseteq Accounts
    /\ Migrated \subseteq Wallets

ASSUME ColumnsAssumption ==
    /\ CurrencyOf \in [Accounts -> Currencies]
    /\ OwnerOf \in [Wallets -> Users]
    /\ ClearingOf \in [Currencies -> Accounts \ Wallets]
    /\ \A c \in Currencies : CurrencyOf[ClearingOf[c]] = c

ASSUME RangeAssumption ==
    /\ MinMinor \in Int /\ MaxMinor \in Int
    /\ MinMinor < 0 /\ 0 < MaxMinor
    /\ MaxPostings \in Nat

\* isSupportedMinorUnitValue
InRange(amount) == MinMinor <= amount /\ amount <= MaxMinor

\* LedgerAccount.allowNegative: set for the seeded clearing accounts only.
AllowNegative(account) == account \notin Wallets

\* CHECK LedgerAccount_balance_policy_check, on a BIGINT column.
BalanceAllowed(account, amount) ==
    /\ InRange(amount)
    /\ AllowNegative(account) \/ amount >= 0

-----------------------------------------------------------------------------
(* normalizeLedgerTransactionInput *)

Normalizable(input) ==
    LET p == input.postings IN
    /\ Len(p) >= 2 /\ Len(p) <= MaxPostings
    /\ \A i \in DOMAIN p : p[i].amount # 0 /\ InRange(p[i].amount)
    /\ \A i, j \in DOMAIN p : p[i].account = p[j].account => i = j
    /\ SumFunction([i \in DOMAIN p |-> p[i].amount]) = 0

\* What the service works with: at most one amount per account.  It is kept
\* as a function on all accounts, zero where there is no posting.
Normalize(input) ==
    [reference |-> input.reference,
     currency  |-> input.currency,
     postings  |-> [a \in Accounts |->
        LET of == {i \in DOMAIN input.postings : input.postings[i].account = a}
        IN  IF of = {} THEN 0 ELSE input.postings[CHOOSE i \in of : TRUE].amount]]

Posted(entry) == {a \in Accounts : entry.postings[a] # 0}

\* validateLedgerTransactionAtCommit, the deferred constraint trigger, on a
\* transaction that has been sealed.
ValidAtCommit(entry) ==
    /\ \E a, b \in Posted(entry) : a # b
    /\ SumFunction(entry.postings) = 0
    /\ \A a \in Posted(entry) : CurrencyOf[a] = entry.currency

-----------------------------------------------------------------------------
(* The opening balances of wallets older than the ledger *)

MigratedWith(account) ==
    {w \in Migrated : ClearingOf[CurrencyOf[w]] = account}

OpeningBalance(account) ==
    IF account \in Wallets
    THEN IF account \in Migrated THEN Opening[account] ELSE 0
    ELSE -SumFunctionOnSet(Opening, MigratedWith(account))

OpeningEntry(w) ==
    [reference |-> <<"migration:opening", w>>,
     currency  |-> CurrencyOf[w],
     postings  |-> [a \in Accounts |->
                     CASE a = w -> Opening[w]
                       [] a = ClearingOf[CurrencyOf[w]] -> -Opening[w]
                       [] OTHER -> 0]]

OpeningJournal == {OpeningEntry(w) : w \in {v \in Migrated : Opening[v] # 0}}

\* The migration's own INSERTs and UPDATE satisfy the CHECK constraints.
ASSUME OpeningAssumption ==
    /\ Opening \in [Wallets -> Int]
    /\ \A a \in Accounts : /\ OpeningBalance(a) \in Int
                           /\ BalanceAllowed(a, OpeningBalance(a))
==============================================================================
