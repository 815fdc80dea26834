------------------------------- MODULE Ledger -------------------------------
(***************************************************************************)
(* LedgerService and WalletsService over PostgreSQL.                       *)
(*                                                                         *)
(* A session is a database connection serving one service call.  post runs *)
(* postWithinTransaction in a SERIALIZABLE transaction; create and close   *)
(* of a wallet run in READ COMMITTED ones; an operator may freeze and      *)
(* unfreeze a wallet.  Steps of sessions interleave at the statements that *)
(* take a row lock, wait for one, or fail on one.                          *)
(*                                                                         *)
(* What is assumed of PostgreSQL, and no more:                             *)
(*  - a SERIALIZABLE transaction reads the snapshot its first statement    *)
(*    took, whatever has been committed since;                             *)
(*  - SELECT ... FOR UPDATE and UPDATE lock rows until the transaction     *)
(*    ends and wait for a lock that is taken; in a SERIALIZABLE            *)
(*    transaction they fail (40001) on a row that another transaction      *)
(*    changed and committed since the snapshot, but not on a row that was  *)
(*    merely locked and released;                                          *)
(*  - a statement of a READ COMMITTED transaction reads what is committed; *)
(*  - an insert into a unique index waits for an uncommitted equal key and *)
(*    fails (P2002) on a committed one, visible in the snapshot or not;    *)
(*  - a commit publishes all writes at once, a rollback none.              *)
(* Serialization failures beyond these may strike at any time (Abandon).   *)
(***************************************************************************)
EXTENDS LedgerRules, Folds

CONSTANTS
    Sessions,
    References,     \* of ledger transactions
    Inputs          \* the ledger transactions callers ask for

ASSUME InputsAssumption ==
    \A input \in Inputs :
        /\ input.reference \in References
        /\ input.currency \in Currencies
        /\ input.postings \in Seq([account : Accounts, amount : Int])

VARIABLES
    balance,        \* LedgerAccount.balanceMinor, committed
    status,         \* Wallet.status, committed; "NONE": no such row yet
    walletBalance,  \* Wallet.currentBalanceMinor, committed
    journal,        \* committed LedgerTransactions with their LedgerPostings
    pc,             \* [Sessions -> where the call is]
    tx              \* [Sessions -> the transaction, NoTx outside of one]

tables == <<balance, status, walletBalance, journal>>
vars == <<balance, status, walletBalance, journal, pc, tx>>

Statuses == {"NONE", "ACTIVE", "FROZEN", "CLOSED"}

-----------------------------------------------------------------------------
(* Transactions *)

Snapshot == [balance |-> balance, status |-> status, walletBalance |-> walletBalance]

NoSnapshot ==
    [balance       |-> [a \in Accounts |-> 0],
     status        |-> [w \in Wallets |-> "NONE"],
     walletBalance |-> [w \in Wallets |-> 0]]

NoEntry == [reference |-> <<>>, currency |-> "", postings |-> [a \in Accounts |-> 0]]

NoWallet == -1

NoTx ==
    [isolation     |-> "none",
     snap          |-> NoSnapshot,
     accounts      |-> {},          \* LedgerAccount rows it has locked
     wallets       |-> {},          \* Wallet rows it has locked
     staleAccounts |-> {},          \* rows changed since its snapshot
     staleWallets  |-> {},
     entry         |-> NoEntry,     \* the ledger transaction it is to post
     target        |-> NoWallet,    \* the wallet that create or close is about
     written       |-> {}]          \* accounts whose balance it has updated

InTx(s) == tx[s].isolation # "none"

Serializable(s) == tx[s].isolation = "Serializable"

AccountFree(a, s) == \A t \in Sessions \ {s} : a \notin tx[t].accounts

WalletFree(w, s) == \A t \in Sessions \ {s} : w \notin tx[t].wallets

\* What the other transactions see of a commit that changed these rows.
Noticed(changedAccounts, changedWallets) ==
    [t \in Sessions |->
        IF Serializable(t)
        THEN [tx[t] EXCEPT !.staleAccounts = @ \cup changedAccounts,
                           !.staleWallets  = @ \cup changedWallets]
        ELSE tx[t]]

\* Transaction s ends: its locks are gone, and so is its snapshot.
Commit(s, changedAccounts, changedWallets) ==
    tx' = [Noticed(changedAccounts, changedWallets) EXCEPT ![s] = NoTx]

Rollback(s) == tx' = [tx EXCEPT ![s] = NoTx]

Goto(s, label) == pc' = [pc EXCEPT ![s] = label]

-----------------------------------------------------------------------------
(* LedgerService.postWithinTransaction: from "lock" to "posted", or to     *)
(* "rejected" (a 4xx HttpException) or "broken" (a 500).                   *)

PostedBy(s) == Posted(tx[s].entry)

\* A row the snapshot does not show is neither locked nor found.
Exists(st, a) == a \in Wallets => st[a] # "NONE"

Found(s) == {a \in PostedBy(s) : Exists(tx[s].snap.status, a)}

\* Mutant of NextToLock: FOR UPDATE without ORDER BY.
NextToLockUnordered(s) == Found(s) \ tx[s].accounts

\* ORDER BY "id" FOR UPDATE: the smallest id that is not locked yet.
NextToLock(s) ==
    LET left == Found(s) \ tx[s].accounts
    IN  {a \in left : \A b \in left : a <= b}

\* Mutant of LockAccount: READ COMMITTED locks, which do not fail on a row that
\* has changed since it was read.
LockStaleAccount(s, a) ==
    /\ pc[s] = "lock"
    /\ a \in NextToLock(s)
    /\ AccountFree(a, s)
    /\ tx' = [tx EXCEPT ![s].accounts = @ \cup {a}]
    /\ UNCHANGED <<tables, pc>>

LockAccount(s, a) ==
    /\ pc[s] = "lock"
    /\ a \in NextToLock(s)
    /\ AccountFree(a, s)
    /\ a \notin tx[s].staleAccounts
    /\ tx' = [tx EXCEPT ![s].accounts = @ \cup {a}]
    /\ UNCHANGED <<tables, pc>>

\* The new balance is computed from the snapshot.
NextBalance(s, a) == tx[s].snap.balance[a] + tx[s].entry.postings[a]

Inconsistent(s, a) ==
    /\ a \in Wallets
    /\ tx[s].snap.walletBalance[a] # tx[s].snap.balance[a]

Acceptable(s, a) ==
    /\ CurrencyOf[a] = tx[s].entry.currency
    /\ a \in Wallets => tx[s].snap.status[a] = "ACTIVE"
    /\ BalanceAllowed(a, NextBalance(s, a))

\* A 500 is put before a 4xx: the code stops at the first posting at fault.
Verdict(s) ==
    IF Found(s) # PostedBy(s) THEN "rejected"
    ELSE IF \E a \in Found(s) : Inconsistent(s, a) THEN "broken"
    ELSE IF \E a \in Found(s) : ~Acceptable(s, a) THEN "rejected"
    ELSE "insert"

CheckPostings(s) ==
    /\ pc[s] = "lock"
    /\ tx[s].accounts = Found(s)
    /\ Goto(s, Verdict(s))
    /\ UNCHANGED <<tables, tx>>

\* Sessions with an uncommitted LedgerTransaction of this reference.
Inserted(t) == pc[t] \in {"update", "posted"}

ReferenceHolders(s) ==
    {t \in Sessions \ {s} :
        Inserted(t) /\ tx[t].entry.reference = tx[s].entry.reference}

ReferenceUsed(s) == \E e \in journal : e.reference = tx[s].entry.reference

\* Mutant of InsertEntry: no unique index on the reference.
InsertAgain(s) ==
    /\ pc[s] = "insert"
    /\ Goto(s, "update")
    /\ UNCHANGED <<tables, tx>>

\* The unsealed LedgerTransaction and its LedgerPostings.
InsertEntry(s) ==
    /\ pc[s] = "insert"
    /\ ReferenceHolders(s) = {}
    /\ ~ReferenceUsed(s)
    /\ Goto(s, "update")
    /\ UNCHANGED <<tables, tx>>

\* Mutant of UpdateAccount: the wallet row is not checked for changes since
\* the snapshot, as if no trigger wrote it.
UpdateStaleWallet(s, a) ==
    /\ pc[s] = "update"
    /\ a \in PostedBy(s) \ tx[s].written
    /\ BalanceAllowed(a, NextBalance(s, a))
    /\ a \in Wallets => WalletFree(a, s)
    /\ tx' = [tx EXCEPT ![s].written = @ \cup {a},
                        ![s].wallets = @ \cup ({a} \cap Wallets)]
    /\ UNCHANGED <<tables, pc>>

\* One UPDATE of LedgerAccount, in whatever order findMany returned the rows.
\* Its trigger updates the row of the wallet, which locks that row as well.
UpdateAccount(s, a) ==
    /\ pc[s] = "update"
    /\ a \in PostedBy(s) \ tx[s].written
    /\ BalanceAllowed(a, NextBalance(s, a))
    /\ a \in Wallets => WalletFree(a, s) /\ a \notin tx[s].staleWallets
    /\ tx' = [tx EXCEPT ![s].written = @ \cup {a},
                        ![s].wallets = @ \cup ({a} \cap Wallets)]
    /\ UNCHANGED <<tables, pc>>

Seal(s) ==
    /\ pc[s] = "update"
    /\ tx[s].written = PostedBy(s)
    /\ Goto(s, "posted")
    /\ UNCHANGED <<tables, tx>>

\* Mutant of SerializationConflict: a changed wallet row is waited for.
AccountConflict(s) ==
    /\ pc[s] = "lock"
    /\ \E a \in NextToLock(s) : AccountFree(a, s) /\ a \in tx[s].staleAccounts

\* 40001 on a row that has changed since the snapshot ...
SerializationConflict(s) ==
    \/ /\ pc[s] = "lock"
       /\ \E a \in NextToLock(s) : AccountFree(a, s) /\ a \in tx[s].staleAccounts
    \/ /\ pc[s] = "update"
       /\ \E w \in (PostedBy(s) \cap Wallets) \ tx[s].written :
             WalletFree(w, s) /\ w \in tx[s].staleWallets

\* ... and P2002 on a reference that is taken.
DuplicateReference(s) == pc[s] = "insert" /\ ReferenceUsed(s)

\* Mutant of PublishEntry: no trigger copies the balance to the wallet.
PublishWithoutSync(s) ==
    LET posted == PostedBy(s) IN
        /\ ValidAtCommit(tx[s].entry)
        /\ balance' = [a \in Accounts |->
                         IF a \in posted THEN NextBalance(s, a) ELSE balance[a]]
        /\ journal' = journal \cup {tx[s].entry}
        /\ UNCHANGED <<status, walletBalance>>
        /\ Commit(s, posted, posted \cap Wallets)

\* What the commit makes visible: the balances, and the wallets' copies.
PublishEntry(s) ==
    LET posted == PostedBy(s) IN
        /\ ValidAtCommit(tx[s].entry)
        /\ balance' = [a \in Accounts |->
                         IF a \in posted THEN NextBalance(s, a) ELSE balance[a]]
        /\ walletBalance' = [w \in Wallets |->
                         IF w \in posted THEN NextBalance(s, w) ELSE walletBalance[w]]
        /\ journal' = journal \cup {tx[s].entry}
        /\ UNCHANGED status
        /\ Commit(s, posted, posted \cap Wallets)

-----------------------------------------------------------------------------
(* LedgerService.post *)

BeginPost(s, input) ==
    /\ pc[s] = "idle"
    /\ Normalizable(input)
    /\ tx' = [tx EXCEPT ![s] = [NoTx EXCEPT !.isolation = "Serializable",
                                            !.snap = Snapshot,
                                            !.entry = Normalize(input)]]
    /\ Goto(s, "lock")
    /\ UNCHANGED tables

CommitPost(s) ==
    /\ pc[s] = "posted"
    /\ PublishEntry(s)
    /\ Goto(s, "idle")

\* Rejected, or failed by the database: nothing is written.
FailPost(s) ==
    /\ \/ pc[s] \in {"rejected", "broken"}
       \/ SerializationConflict(s)
       \/ DuplicateReference(s)
    /\ Rollback(s)
    /\ Goto(s, "idle")
    /\ UNCHANGED tables

-----------------------------------------------------------------------------
(* WalletsService *)

Target(s) == tx[s].target

BeginFor(s, w) ==
    tx' = [tx EXCEPT ![s] = [NoTx EXCEPT !.isolation = "ReadCommitted",
                                         !.target = w]]

SameKey(v, w) == OwnerOf[v] = OwnerOf[w] /\ CurrencyOf[v] = CurrencyOf[w]

Creating(t) == pc[t] = "create"

\* Mutant of InsertWallet: no unique index on (userId, currency).
InsertSecondWallet(s, w) ==
    /\ pc[s] = "idle"
    /\ status[w] = "NONE"
    /\ BeginFor(s, w)
    /\ Goto(s, "create")
    /\ UNCHANGED tables

\* create: both rows are inserted under fresh ids, the wallet against the
\* unique index on (userId, currency).
InsertWallet(s, w) ==
    /\ pc[s] = "idle"
    /\ status[w] = "NONE"
    /\ \A t \in Sessions : Creating(t) => ~SameKey(Target(t), w)
    /\ \A v \in Wallets : status[v] # "NONE" => ~SameKey(v, w)
    /\ BeginFor(s, w)
    /\ Goto(s, "create")
    /\ UNCHANGED tables

CommitCreate(s) ==
    /\ pc[s] = "create"
    /\ status' = [status EXCEPT ![Target(s)] = "ACTIVE"]
    /\ balance' = [balance EXCEPT ![Target(s)] = 0]
    /\ walletBalance' = [walletBalance EXCEPT ![Target(s)] = 0]
    /\ UNCHANGED journal
    /\ Commit(s, {}, {})
    /\ Goto(s, "idle")

\* Mutant of FindToClose: it locks the wallet row, before the account row.
FindAndLock(s, w) ==
    /\ pc[s] = "idle"
    /\ status[w] # "NONE"
    /\ WalletFree(w, s)
    /\ tx' = [tx EXCEPT ![s] = [NoTx EXCEPT !.isolation = "ReadCommitted",
                                            !.target = w, !.wallets = {w}]]
    /\ Goto(s, "closeAccount")
    /\ UNCHANGED tables

\* close: find the wallet of the caller ...
FindToClose(s, w) ==
    /\ pc[s] = "idle"
    /\ status[w] # "NONE"
    /\ BeginFor(s, w)
    /\ Goto(s, "closeAccount")
    /\ UNCHANGED tables

\* ... lock its ledger account ...
CloseLockAccount(s) ==
    /\ pc[s] = "closeAccount"
    /\ AccountFree(Target(s), s)
    /\ tx' = [tx EXCEPT ![s].accounts = {Target(s)}]
    /\ Goto(s, "closeWallet")
    /\ UNCHANGED tables

\* ... lock the wallet ...
CloseLockWallet(s) ==
    /\ pc[s] = "closeWallet"
    /\ WalletFree(Target(s), s)
    /\ tx' = [tx EXCEPT ![s].wallets = {Target(s)}]
    /\ Goto(s, "closeDecide")
    /\ UNCHANGED tables

\* ... read it again and decide.
Closable(w) == status[w] = "ACTIVE" /\ walletBalance[w] = 0

\* Mutant of CommitClose: a status that is not in the enum.
CommitArchive(s) ==
    /\ pc[s] = "closeDecide"
    /\ Closable(Target(s))
    /\ status' = [status EXCEPT ![Target(s)] = "ARCHIVED"]
    /\ UNCHANGED <<balance, walletBalance, journal>>
    /\ Commit(s, {}, {Target(s)})
    /\ Goto(s, "idle")

CommitClose(s) ==
    /\ pc[s] = "closeDecide"
    /\ Closable(Target(s))
    /\ status' = [status EXCEPT ![Target(s)] = "CLOSED"]
    /\ UNCHANGED <<balance, walletBalance, journal>>
    /\ Commit(s, {}, {Target(s)})
    /\ Goto(s, "idle")

\* Already closed, frozen or not empty: nothing changes.
RefuseClose(s) ==
    /\ pc[s] = "closeDecide"
    /\ ~Closable(Target(s))
    /\ Rollback(s)
    /\ Goto(s, "idle")
    /\ UNCHANGED tables

-----------------------------------------------------------------------------
(* The environment *)

\* An operator's UPDATE of Wallet.status, one statement and its commit.
SetFrozen(w) ==
    /\ status[w] \in {"ACTIVE", "FROZEN"}
    /\ \A t \in Sessions : w \notin tx[t].wallets
    /\ status' = [status EXCEPT ![w] = IF @ = "ACTIVE" THEN "FROZEN" ELSE "ACTIVE"]
    /\ tx' = Noticed({}, {w})
    /\ UNCHANGED <<balance, walletBalance, journal, pc>>

\* The 10 s transaction timeout, a lost connection, a killed process, or a
\* serialization failure of PostgreSQL's own making, at any moment.
Abandon(s) ==
    /\ InTx(s)
    /\ Rollback(s)
    /\ Goto(s, "idle")
    /\ UNCHANGED tables

-----------------------------------------------------------------------------

Init ==
    /\ balance = [a \in Accounts |-> OpeningBalance(a)]
    /\ status = [w \in Wallets |-> IF w \in Migrated THEN "ACTIVE" ELSE "NONE"]
    /\ walletBalance = [w \in Wallets |-> OpeningBalance(w)]
    /\ journal = OpeningJournal
    /\ pc = [s \in Sessions |-> "idle"]
    /\ tx = [s \in Sessions |-> NoTx]

\* The statements of postWithinTransaction.
PostStep(s) ==
    \/ \E a \in Accounts : LockAccount(s, a) \/ UpdateAccount(s, a)
    \/ CheckPostings(s) \/ InsertEntry(s) \/ Seal(s)

CloseStep(s) ==
    CloseLockAccount(s) \/ CloseLockWallet(s) \/ CommitClose(s) \/ RefuseClose(s)

Call(s) ==
    \/ \E input \in Inputs : BeginPost(s, input)
    \/ \E w \in Wallets : InsertWallet(s, w) \/ FindToClose(s, w)

Step(s) ==
    PostStep(s) \/ CommitPost(s) \/ FailPost(s) \/ CommitCreate(s) \/ CloseStep(s)

Next ==
    \/ \E s \in Sessions : Call(s) \/ Step(s) \/ Abandon(s)
    \/ \E w \in Wallets : SetFrozen(w)

Spec == Init /\ [][Next]_vars

\* A call that has begun goes on unless the environment ends it, and a row
\* lock or unique key is granted to its waiters in the order of their arrival,
\* so nobody is passed over for ever.
Fairness == \A s \in Sessions : SF_vars(Step(s))

FairSpec == Spec /\ Fairness

-----------------------------------------------------------------------------
(* Properties *)

Snapshots ==
    [balance       : [Accounts -> Int],
     status        : [Wallets -> Statuses],
     walletBalance : [Wallets -> Int]]

Labels == {"idle", "lock", "rejected", "broken", "insert", "update", "posted",
           "create", "closeAccount", "closeWallet", "closeDecide"}

Entries ==
    [reference : References \cup {NoEntry.reference},
     currency  : Currencies \cup {NoEntry.currency},
     postings  : [Accounts -> Int]]

Transactions ==
    [isolation     : {"none", "Serializable", "ReadCommitted"},
     snap          : Snapshots,
     accounts      : SUBSET Accounts,
     wallets       : SUBSET Wallets,
     staleAccounts : SUBSET Accounts,
     staleWallets  : SUBSET Wallets,
     entry         : Entries,
     target        : Wallets \cup {NoWallet},
     written       : SUBSET Accounts]

\* Rows and transactions have their types, whatever else sessions may do.
StoreOK ==
    /\ balance \in [Accounts -> Int]
    /\ status \in [Wallets -> Statuses]
    /\ walletBalance \in [Wallets -> Int]
    /\ tx \in [Sessions -> Transactions]
    /\ DOMAIN pc = Sessions

\* Every variable has its type: balances are integers, statuses are the enum
\* of the schema, and a session is at a known statement.
TypeOK ==
    /\ StoreOK
    /\ pc \in [Sessions -> Labels]

\* The ledger audit: every balance is the sum of the postings to its account
\* and the balances of a currency sum to zero, however posts interleave
\* (no update of a balance computed from an old snapshot gets through).
BooksReconcile ==
    /\ \A a \in Accounts :
         balance[a] = SumFunction([e \in journal |-> e.postings[a]])
    /\ \A c \in Currencies :
         SumFunctionOnSet(balance, {a \in Accounts : CurrencyOf[a] = c}) = 0

\* The balance a wallet shows is that of its ledger account, in every
\* committed state (syncWalletBalanceFromLedgerAccount).
WalletMirrorsAccount == \A w \in Wallets : walletBalance[w] = balance[w]

\* The 500s of postWithinTransaction never happen: no snapshot ever shows a
\* wallet that disagrees with its ledger account.
NeverBroken == \A s \in Sessions : pc[s] # "broken"

\* No money is left in, or reaches, a closed wallet: a post that saw the
\* wallet active in its snapshot does not commit after the close, although
\* close runs READ COMMITTED and never writes the account row.
ClosedIsEmpty == \A w \in Wallets : status[w] = "CLOSED" => balance[w] = 0

-----------------------------------------------------------------------------
(* The inductive invariant *)

LocksExclusive ==
    \A s, t \in Sessions : s # t =>
        /\ tx[s].accounts \cap tx[t].accounts = {}
        /\ tx[s].wallets \cap tx[t].wallets = {}

\* A snapshot agrees with the tables on every row not known to be stale, and
\* no row that a transaction has locked becomes stale.
SnapshotsHold ==
    \A s \in Sessions : Serializable(s) =>
        /\ \A a \in Accounts \ tx[s].staleAccounts : tx[s].snap.balance[a] = balance[a]
        /\ \A w \in Wallets \ tx[s].staleWallets :
             tx[s].snap.status[w] # "NONE" => tx[s].snap.status[w] = status[w]
        /\ \A w \in Wallets : tx[s].snap.walletBalance[w] = tx[s].snap.balance[w]
        /\ tx[s].accounts \cap tx[s].staleAccounts = {}
        /\ tx[s].wallets \cap tx[s].staleWallets = {}

\* Where a session is tells what its transaction has locked, read and written.
PostConsistent(s) ==
    /\ pc[s] \in {"lock", "rejected", "broken", "insert", "update", "posted"} =>
         Serializable(s) /\ tx[s].accounts \subseteq Found(s)
    /\ pc[s] = "lock" =>
         \A a \in tx[s].accounts, b \in Found(s) \ tx[s].accounts : a < b
    /\ pc[s] \in {"lock", "rejected", "broken", "insert"} =>
         tx[s].wallets = {} /\ tx[s].written = {}
    /\ pc[s] \in {"insert", "update", "posted"} =>
         /\ tx[s].accounts = PostedBy(s)
         /\ \A a \in PostedBy(s) : Acceptable(s, a)
    /\ Inserted(s) =>
         /\ tx[s].written \subseteq PostedBy(s)
         /\ tx[s].wallets = tx[s].written \cap Wallets
         /\ ~ReferenceUsed(s)
         /\ ReferenceHolders(s) = {}
    /\ pc[s] = "posted" => tx[s].written = PostedBy(s)

WalletCallConsistent(s) ==
    /\ pc[s] \in {"create", "closeAccount", "closeWallet", "closeDecide"} =>
         /\ tx[s].isolation = "ReadCommitted"
         /\ Target(s) \in Wallets
    /\ Creating(s) =>
         /\ \A v \in Wallets : status[v] # "NONE" => ~SameKey(v, Target(s))
         /\ \A t \in Sessions \ {s} : Creating(t) => ~SameKey(Target(t), Target(s))
    /\ pc[s] \in {"create", "closeAccount"} => tx[s].accounts = {} /\ tx[s].wallets = {}
    /\ pc[s] = "closeWallet" => tx[s].accounts = {Target(s)} /\ tx[s].wallets = {}
    /\ pc[s] = "closeDecide" => tx[s].accounts = {Target(s)} /\ tx[s].wallets = {Target(s)}

\* Balances obey the CHECK constraint, and an account not created is empty.
BalancesAllowed ==
    /\ \A a \in Accounts : BalanceAllowed(a, balance[a])
    /\ \A w \in Wallets : status[w] = "NONE" => balance[w] = 0

\* Inductive: the rows a transaction has locked are current, so what it
\* computed from its snapshot is right when it commits.
IndInv ==
    /\ StoreOK
    /\ WalletMirrorsAccount
    /\ BalancesAllowed
    /\ ClosedIsEmpty
    /\ LocksExclusive
    /\ SnapshotsHold
    /\ \A s \in Sessions :
         /\ pc[s] = "idle" => tx[s] = NoTx
         /\ PostConsistent(s)
         /\ WalletCallConsistent(s)

-----------------------------------------------------------------------------

\* s waits for a lock that t holds.
Waits(s, t) ==
    \/ /\ pc[s] = "lock"
       /\ NextToLock(s) \cap tx[t].accounts # {}
    \/ /\ pc[s] = "insert"
       /\ t \in ReferenceHolders(s)
    \/ /\ pc[s] = "update"
       /\ (PostedBy(s) \ tx[s].written) \cap tx[t].wallets # {}
    \/ pc[s] = "closeAccount" /\ Target(s) \in tx[t].accounts
    \/ pc[s] = "closeWallet" /\ Target(s) \in tx[t].wallets

\* Posts over any accounts and closes of any wallets never wait for each
\* other in a circle: accounts are locked in the order of their ids, and a
\* wallet row only by who holds its account row.
NoDeadlock ==
    \A S \in (SUBSET Sessions) \ {{}} :
        \E s \in S : \A t \in S \ {s} : ~Waits(s, t)

Book == INSTANCE LedgerBook

\* Seen from the committed tables every post, create and close takes effect
\* at one instant, valid for the balances and statuses of that instant: what
\* was read from a snapshot still holds when it is committed.
ImplementsBook == Book!Spec

\* Every post, create and close ends, without the help of a timeout and
\* whatever the other sessions and the operator keep doing: each wait is for
\* a transaction that ends, and a lost race fails instead of waiting.
EveryCallEnds == \A s \in Sessions : pc[s] # "idle" ~> pc[s] = "idle"
==============================================================================
