---------------------------- MODULE LedgerProofs ----------------------------
(***************************************************************************)
(* The ledger is proved for every set of accounts, wallets, sessions and   *)
(* inputs: IndInv is inductive (one lemma per action), and under it every  *)
(* step of Ledger.tla is a step of LedgerBook.tla.                         *)
(***************************************************************************)
EXTENDS Ledger, TLAPS

\* No transaction at all is well typed.
LEMMA NoTxType == NoTx \in Transactions
BY DEF NoTx, NoWallet, Transactions, NoSnapshot, Snapshots, Statuses, NoEntry, Entries

\* The migrated books, before any call, satisfy the invariant.
LEMMA InitInv == Init => IndInv
<1> SUFFICES ASSUME Init PROVE IndInv
  OBVIOUS
<1> USE DEF Init
<1>1. StoreOK
  BY NoTxType, OpeningAssumption, AccountsAssumption DEF StoreOK, Statuses
<1>2. WalletMirrorsAccount /\ ClosedIsEmpty
  BY AccountsAssumption DEF WalletMirrorsAccount, ClosedIsEmpty
<1>3. BalancesAllowed
  BY OpeningAssumption, AccountsAssumption DEF BalancesAllowed, OpeningBalance
<1>4. LocksExclusive /\ SnapshotsHold
  BY DEF LocksExclusive, SnapshotsHold, Serializable, NoTx
<1>5. ASSUME NEW s \in Sessions
      PROVE  (pc[s] = "idle" => tx[s] = NoTx) /\ PostConsistent(s) /\ WalletCallConsistent(s)
  BY DEF PostConsistent, WalletCallConsistent, Inserted, Creating
<1> QED BY <1>1, <1>2, <1>3, <1>4, <1>5 DEF IndInv

\* A row is locked only if nobody holds it and it has not changed since the
\* snapshot, so what the snapshot shows of it is current.
LEMMA LockAccountInv ==
    ASSUME IndInv, NEW s \in Sessions, NEW a \in Accounts, LockAccount(s, a)
    PROVE  IndInv'
<1> USE DEF LockAccount, tables
<1>0. tx \in [Sessions -> Transactions] /\ DOMAIN pc = Sessions
  BY DEF IndInv, StoreOK
<1>1. StoreOK'
  BY <1>0 DEF IndInv, StoreOK, Transactions
<1>2. WalletMirrorsAccount' /\ BalancesAllowed' /\ ClosedIsEmpty'
  BY DEF IndInv, WalletMirrorsAccount, BalancesAllowed, ClosedIsEmpty
<1>3. LocksExclusive'
  BY <1>0 DEF IndInv, LocksExclusive, AccountFree, Transactions
<1>4. SnapshotsHold'
  BY <1>0 DEF IndInv, SnapshotsHold, Serializable, Transactions
<1>5. ASSUME NEW t \in Sessions
      PROVE  (pc'[t] = "idle" => tx'[t] = NoTx) /\ PostConsistent(t)' /\ WalletCallConsistent(t)'
  <2>1. pc'[t] = "idle" => tx'[t] = NoTx
    BY <1>0 DEF IndInv
  <2>2. PostConsistent(t)'
    <3>1. /\ tx'[t].accounts = IF t = s THEN tx[t].accounts \cup {a} ELSE tx[t].accounts
          /\ Serializable(t)' = Serializable(t)
          /\ PostedBy(t)' = PostedBy(t) /\ Found(t)' = Found(t)
          /\ \A b \in Accounts : Acceptable(t, b)' = Acceptable(t, b)
          /\ tx'[t].wallets = tx[t].wallets /\ tx'[t].written = tx[t].written
          /\ ReferenceUsed(t)' = ReferenceUsed(t)
          /\ ReferenceHolders(t)' = ReferenceHolders(t)
          /\ Inserted(t)' = Inserted(t) /\ pc'[t] = pc[t]
      BY <1>0 DEF Serializable, Found, PostedBy, Acceptable, NextBalance, Inserted, ReferenceUsed,
                  ReferenceHolders, Transactions
    <3>2. PostConsistent(t)
      BY DEF IndInv
    <3>3. Found(t) \subseteq Nat /\ PostedBy(t) \subseteq Accounts
      BY AccountsAssumption DEF Found, PostedBy, Posted
    <3>4. /\ pc[s] = "lock" /\ a \in Found(s) \ tx[s].accounts
          /\ \A b \in Found(s) \ tx[s].accounts : a <= b
      BY DEF NextToLock
    <3>5. CASE t # s
      BY <3>5, <3>1, <3>2, <3>3 DEF PostConsistent, Inserted
    <3>6. CASE t = s
      <4>1. \A c \in tx[s].accounts \cup {a}, b \in Found(s) \ (tx[s].accounts \cup {a}) : c < b
        BY <3>2, <3>3, <3>4, <3>6 DEF PostConsistent
      <4> QED BY <3>6, <3>1, <3>2, <3>3, <3>4, <4>1 DEF PostConsistent, Inserted
    <3> QED BY <3>5, <3>6
  <2>3. WalletCallConsistent(t)'
    BY <1>0 DEF IndInv, WalletCallConsistent, Creating, Target, Transactions
  <2> QED BY <2>1, <2>2, <2>3
<1> QED BY <1>1, <1>2, <1>3, <1>4, <1>5 DEF IndInv

\* The checks of postWithinTransaction lead to "insert" only with every
\* posted account locked and acceptable.
LEMMA CheckPostingsInv ==
    ASSUME IndInv, NEW s \in Sessions, CheckPostings(s)
    PROVE  IndInv'
<1> USE DEF CheckPostings, tables, Goto
<1>0. tx \in [Sessions -> Transactions] /\ DOMAIN pc = Sessions
  BY DEF IndInv, StoreOK
<1>1. StoreOK'
  BY <1>0 DEF IndInv, StoreOK, Transactions, Verdict
<1>2. WalletMirrorsAccount' /\ BalancesAllowed' /\ ClosedIsEmpty'
  BY DEF IndInv, WalletMirrorsAccount, BalancesAllowed, ClosedIsEmpty
<1>3. LocksExclusive'
  BY <1>0 DEF IndInv, LocksExclusive, Transactions
<1>4. SnapshotsHold'
  BY <1>0 DEF IndInv, SnapshotsHold, Serializable, Transactions
<1>5. ASSUME NEW t \in Sessions
      PROVE  (pc'[t] = "idle" => tx'[t] = NoTx) /\ PostConsistent(t)' /\ WalletCallConsistent(t)'
  <2>1. pc'[t] = "idle" => tx'[t] = NoTx
    BY <1>0 DEF IndInv, Verdict
  <2>2. PostConsistent(t)'
    <3>1. CASE t # s
      BY <3>1, <1>0 DEF IndInv, PostConsistent, Serializable, Found, PostedBy, Acceptable,
                        NextBalance, Inserted, ReferenceUsed, ReferenceHolders, Verdict
    <3>2. CASE t = s
      <4>1. PostConsistent(s) /\ tx' = tx /\ pc'[s] = Verdict(s)
        BY <1>0 DEF IndInv
      <4>2. pc'[s] \in {"rejected", "broken", "insert"}
        BY <4>1 DEF Verdict
      <4>3. Found(s) \subseteq PostedBy(s)
        BY DEF Found
      <4>4. pc'[s] = "insert" => /\ tx[s].accounts = PostedBy(s)
                                /\ \A a \in PostedBy(s) : Acceptable(s, a)
        BY <4>1, <4>3 DEF Verdict
      <4>5. /\ PostedBy(s)' = PostedBy(s)
            /\ Found(s)' = Found(s)
            /\ \A a \in Accounts : Acceptable(s, a)' = Acceptable(s, a)
            /\ Serializable(s)' = Serializable(s)
        BY <4>1 DEF PostedBy, Found, Acceptable, NextBalance, Serializable
      <4>6. PostedBy(s) \subseteq Accounts
        BY DEF PostedBy, Posted
      <4> QED BY <3>2, <4>1, <4>2, <4>3, <4>4, <4>5, <4>6 DEF PostConsistent, Inserted
    <3> QED BY <3>1, <3>2
  <2>3. WalletCallConsistent(t)'
    BY <1>0 DEF IndInv, WalletCallConsistent, Creating, Target, Transactions, Verdict
  <2> QED BY <2>1, <2>2, <2>3
<1> QED BY <1>1, <1>2, <1>3, <1>4, <1>5 DEF IndInv

\* The unique index keeps the references of journal and open inserts apart.
LEMMA InsertEntryInv ==
    ASSUME IndInv, NEW s \in Sessions, InsertEntry(s)
    PROVE  IndInv'
<1> USE DEF InsertEntry, tables, Goto
<1>0. tx \in [Sessions -> Transactions] /\ DOMAIN pc = Sessions
  BY DEF IndInv, StoreOK
<1>1. StoreOK'
  BY <1>0 DEF IndInv, StoreOK, Transactions
<1>2. WalletMirrorsAccount' /\ BalancesAllowed' /\ ClosedIsEmpty'
  BY DEF IndInv, WalletMirrorsAccount, BalancesAllowed, ClosedIsEmpty
<1>3. LocksExclusive'
  BY <1>0 DEF IndInv, LocksExclusive, Transactions
<1>4. SnapshotsHold'
  BY <1>0 DEF IndInv, SnapshotsHold, Serializable, Transactions
<1>5. ASSUME NEW t \in Sessions
      PROVE  (pc'[t] = "idle" => tx'[t] = NoTx) /\ PostConsistent(t)' /\ WalletCallConsistent(t)'
  <2>1. pc'[t] = "idle" => tx'[t] = NoTx
    BY <1>0 DEF IndInv
  <2>2. PostConsistent(t)'
    BY <1>0 DEF IndInv, PostConsistent, Serializable, Found, PostedBy, Acceptable, NextBalance, Inserted, ReferenceUsed, ReferenceHolders, Transactions
  <2>3. WalletCallConsistent(t)'
    BY <1>0 DEF IndInv, WalletCallConsistent, Creating, Target, Transactions
  <2> QED BY <2>1, <2>2, <2>3
<1> QED BY <1>1, <1>2, <1>3, <1>4, <1>5 DEF IndInv

\* The trigger locks a wallet row only if it is free and unchanged.
LEMMA UpdateAccountInv ==
    ASSUME IndInv, NEW s \in Sessions, NEW a \in Accounts, UpdateAccount(s, a)
    PROVE  IndInv'
<1> USE DEF UpdateAccount, tables
<1>0. tx \in [Sessions -> Transactions] /\ DOMAIN pc = Sessions
  BY DEF IndInv, StoreOK
<1>1. StoreOK'
  <2>1. tx[s] \in Transactions
    BY <1>0
  <2>2. /\ tx[s].written \cup {a} \subseteq Accounts
        /\ tx[s].wallets \cup ({a} \cap Wallets) \subseteq Wallets
    BY <2>1 DEF Transactions
  <2>3. tx' \in [Sessions -> Transactions]
    BY <1>0, <2>1, <2>2 DEF Transactions
  <2> QED BY <2>3 DEF IndInv, StoreOK
<1>2. WalletMirrorsAccount' /\ BalancesAllowed' /\ ClosedIsEmpty'
  BY DEF IndInv, WalletMirrorsAccount, BalancesAllowed, ClosedIsEmpty
<1>3. LocksExclusive'
  BY <1>0 DEF IndInv, LocksExclusive, Transactions, WalletFree
<1>4. SnapshotsHold'
  BY <1>0 DEF IndInv, SnapshotsHold, Serializable, Transactions
<1>5. ASSUME NEW t \in Sessions
      PROVE  (pc'[t] = "idle" => tx'[t] = NoTx) /\ PostConsistent(t)' /\ WalletCallConsistent(t)'
  <2>1. pc'[t] = "idle" => tx'[t] = NoTx
    BY <1>0 DEF IndInv
  <2>2. PostConsistent(t)'
    BY <1>0 DEF IndInv, PostConsistent, Serializable, Found, PostedBy, Acceptable, NextBalance, Inserted, ReferenceUsed, ReferenceHolders, Transactions
  <2>3. WalletCallConsistent(t)'
    BY <1>0 DEF IndInv, WalletCallConsistent, Creating, Target, Transactions
  <2> QED BY <2>1, <2>2, <2>3
<1> QED BY <1>1, <1>2, <1>3, <1>4, <1>5 DEF IndInv

\* A transaction is sealed with all its balances written.
LEMMA SealInv ==
    ASSUME IndInv, NEW s \in Sessions, Seal(s)
    PROVE  IndInv'
<1> USE DEF Seal, tables, Goto
<1>0. tx \in [Sessions -> Transactions] /\ DOMAIN pc = Sessions
  BY DEF IndInv, StoreOK
<1>1. StoreOK'
  BY <1>0 DEF IndInv, StoreOK, Transactions
<1>2. WalletMirrorsAccount' /\ BalancesAllowed' /\ ClosedIsEmpty'
  BY DEF IndInv, WalletMirrorsAccount, BalancesAllowed, ClosedIsEmpty
<1>3. LocksExclusive'
  BY <1>0 DEF IndInv, LocksExclusive, Transactions
<1>4. SnapshotsHold'
  BY <1>0 DEF IndInv, SnapshotsHold, Serializable, Transactions
<1>5. ASSUME NEW t \in Sessions
      PROVE  (pc'[t] = "idle" => tx'[t] = NoTx) /\ PostConsistent(t)' /\ WalletCallConsistent(t)'
  <2>1. pc'[t] = "idle" => tx'[t] = NoTx
    BY <1>0 DEF IndInv
  <2>2. PostConsistent(t)'
    BY <1>0 DEF IndInv, PostConsistent, Serializable, Found, PostedBy, Acceptable, NextBalance, Inserted, ReferenceUsed, ReferenceHolders, Transactions
  <2>3. WalletCallConsistent(t)'
    BY <1>0 DEF IndInv, WalletCallConsistent, Creating, Target, Transactions
  <2> QED BY <2>1, <2>2, <2>3
<1> QED BY <1>1, <1>2, <1>3, <1>4, <1>5 DEF IndInv

\* A fresh snapshot agrees with the tables on every row.
LEMMA BeginPostInv ==
    ASSUME IndInv, NEW s \in Sessions, NEW input \in Inputs, BeginPost(s, input)
    PROVE  IndInv'
<1> USE DEF BeginPost, tables, Goto
<1>0. tx \in [Sessions -> Transactions] /\ DOMAIN pc = Sessions
  BY DEF IndInv, StoreOK
<1>a. Normalize(input) \in Entries
  <2>1. \A i \in DOMAIN input.postings :
           input.postings[i].account \in Accounts /\ input.postings[i].amount \in Int
    <3>1. input.postings \in Seq([account : Accounts, amount : Int])
      BY InputsAssumption
    <3>2. ASSUME NEW S, NEW q \in Seq(S), NEW i \in DOMAIN q PROVE q[i] \in S
      OBVIOUS
    <3>3. \A i \in DOMAIN input.postings :
             input.postings[i] \in [account : Accounts, amount : Int]
      BY <3>1, <3>2
    <3> QED BY <3>3
  <2>2. \A of : of # {} => (CHOOSE i \in of : TRUE) \in of
    OBVIOUS
  <2> QED BY <2>1, <2>2, InputsAssumption DEF Normalize, Entries
<1>b. Snapshot \in Snapshots
  BY DEF IndInv, StoreOK, Snapshot, Snapshots
<1>1. StoreOK'
  BY <1>0, <1>a, <1>b, NoTxType DEF IndInv, StoreOK, Transactions, NoTx
<1>2. WalletMirrorsAccount' /\ BalancesAllowed' /\ ClosedIsEmpty'
  BY DEF IndInv, WalletMirrorsAccount, BalancesAllowed, ClosedIsEmpty
<1>3. LocksExclusive'
  BY <1>0 DEF IndInv, LocksExclusive, Transactions, NoTx
<1>4. SnapshotsHold'
  BY <1>0, AccountsAssumption DEF IndInv, SnapshotsHold, Serializable, Transactions, NoTx, Snapshot, WalletMirrorsAccount, StoreOK
<1>5. ASSUME NEW t \in Sessions
      PROVE  (pc'[t] = "idle" => tx'[t] = NoTx) /\ PostConsistent(t)' /\ WalletCallConsistent(t)'
  <2>1. pc'[t] = "idle" => tx'[t] = NoTx
    BY <1>0 DEF IndInv
  <2>2. PostConsistent(t)'
    BY <1>0 DEF IndInv, PostConsistent, Serializable, Found, PostedBy, Acceptable, NextBalance, Inserted, ReferenceUsed, ReferenceHolders, Transactions, NoTx
  <2>3. WalletCallConsistent(t)'
    BY <1>0 DEF IndInv, WalletCallConsistent, Creating, Target, Transactions, NoTx
  <2> QED BY <2>1, <2>2, <2>3
<1> QED BY <1>1, <1>2, <1>3, <1>4, <1>5 DEF IndInv

\* The unique index keeps (owner, currency) of wallets and open inserts apart.
LEMMA InsertWalletInv ==
    ASSUME IndInv, NEW s \in Sessions, NEW w \in Wallets, InsertWallet(s, w)
    PROVE  IndInv'
<1> USE DEF InsertWallet, BeginFor, tables, Goto
<1>0. tx \in [Sessions -> Transactions] /\ DOMAIN pc = Sessions
  BY DEF IndInv, StoreOK
<1>1. StoreOK'
  BY <1>0, NoTxType DEF IndInv, StoreOK, Transactions, NoTx
<1>2. WalletMirrorsAccount' /\ BalancesAllowed' /\ ClosedIsEmpty'
  BY DEF IndInv, WalletMirrorsAccount, BalancesAllowed, ClosedIsEmpty
<1>3. LocksExclusive'
  BY <1>0 DEF IndInv, LocksExclusive, Transactions, NoTx
<1>4. SnapshotsHold'
  BY <1>0 DEF IndInv, SnapshotsHold, Serializable, Transactions, NoTx
<1>5. ASSUME NEW t \in Sessions
      PROVE  (pc'[t] = "idle" => tx'[t] = NoTx) /\ PostConsistent(t)' /\ WalletCallConsistent(t)'
  <2>1. pc'[t] = "idle" => tx'[t] = NoTx
    BY <1>0 DEF IndInv
  <2>2. PostConsistent(t)'
    BY <1>0 DEF IndInv, PostConsistent, Serializable, Found, PostedBy, Acceptable, NextBalance, Inserted, ReferenceUsed, ReferenceHolders, Transactions, NoTx
  <2>3. WalletCallConsistent(t)'
    BY <1>0 DEF IndInv, WalletCallConsistent, Creating, Target, Transactions, NoTx, SameKey
  <2> QED BY <2>1, <2>2, <2>3
<1> QED BY <1>1, <1>2, <1>3, <1>4, <1>5 DEF IndInv

\* close starts with no lock.
LEMMA FindToCloseInv ==
    ASSUME IndInv, NEW s \in Sessions, NEW w \in Wallets, FindToClose(s, w)
    PROVE  IndInv'
<1> USE DEF FindToClose, BeginFor, tables, Goto
<1>0. tx \in [Sessions -> Transactions] /\ DOMAIN pc = Sessions
  BY DEF IndInv, StoreOK
<1>1. StoreOK'
  BY <1>0, NoTxType DEF IndInv, StoreOK, Transactions, NoTx
<1>2. WalletMirrorsAccount' /\ BalancesAllowed' /\ ClosedIsEmpty'
  BY DEF IndInv, WalletMirrorsAccount, BalancesAllowed, ClosedIsEmpty
<1>3. LocksExclusive'
  BY <1>0 DEF IndInv, LocksExclusive, Transactions, NoTx
<1>4. SnapshotsHold'
  BY <1>0 DEF IndInv, SnapshotsHold, Serializable, Transactions, NoTx
<1>5. ASSUME NEW t \in Sessions
      PROVE  (pc'[t] = "idle" => tx'[t] = NoTx) /\ PostConsistent(t)' /\ WalletCallConsistent(t)'
  <2>1. pc'[t] = "idle" => tx'[t] = NoTx
    BY <1>0 DEF IndInv
  <2>2. PostConsistent(t)'
    BY <1>0 DEF IndInv, PostConsistent, Serializable, Found, PostedBy, Acceptable, NextBalance, Inserted, ReferenceUsed, ReferenceHolders, Transactions, NoTx
  <2>3. WalletCallConsistent(t)'
    BY <1>0 DEF IndInv, WalletCallConsistent, Creating, Target, Transactions, NoTx
  <2> QED BY <2>1, <2>2, <2>3
<1> QED BY <1>1, <1>2, <1>3, <1>4, <1>5 DEF IndInv

\* close holds the account row of its wallet ...
LEMMA CloseLockAccountInv ==
    ASSUME IndInv, NEW s \in Sessions, CloseLockAccount(s)
    PROVE  IndInv'
<1> USE DEF CloseLockAccount, tables, Goto
<1>0. tx \in [Sessions -> Transactions] /\ DOMAIN pc = Sessions
  BY DEF IndInv, StoreOK
<1>a. Target(s) \in Wallets
  BY DEF IndInv, WalletCallConsistent
<1>1. StoreOK'
  BY <1>0, <1>a, AccountsAssumption DEF IndInv, StoreOK, Transactions
<1>2. WalletMirrorsAccount' /\ BalancesAllowed' /\ ClosedIsEmpty'
  BY DEF IndInv, WalletMirrorsAccount, BalancesAllowed, ClosedIsEmpty
<1>3. LocksExclusive'
  BY <1>0, <1>a DEF IndInv, LocksExclusive, Transactions, AccountFree
<1>4. SnapshotsHold'
  BY <1>0 DEF IndInv, SnapshotsHold, Serializable, Transactions, WalletCallConsistent
<1>5. ASSUME NEW t \in Sessions
      PROVE  (pc'[t] = "idle" => tx'[t] = NoTx) /\ PostConsistent(t)' /\ WalletCallConsistent(t)'
  <2>1. pc'[t] = "idle" => tx'[t] = NoTx
    BY <1>0 DEF IndInv
  <2>2. PostConsistent(t)'
    BY <1>0, <1>a DEF IndInv, PostConsistent, Serializable, Found, PostedBy, Acceptable, NextBalance, Inserted, ReferenceUsed, ReferenceHolders, Transactions
  <2>3. WalletCallConsistent(t)'
    BY <1>0, <1>a DEF IndInv, WalletCallConsistent, Creating, Target, Transactions
  <2> QED BY <2>1, <2>2, <2>3
<1> QED BY <1>1, <1>2, <1>3, <1>4, <1>5 DEF IndInv

\* ... and then the wallet row.
LEMMA CloseLockWalletInv ==
    ASSUME IndInv, NEW s \in Sessions, CloseLockWallet(s)
    PROVE  IndInv'
<1> USE DEF CloseLockWallet, tables, Goto
<1>0. tx \in [Sessions -> Transactions] /\ DOMAIN pc = Sessions
  BY DEF IndInv, StoreOK
<1>a. Target(s) \in Wallets
  BY DEF IndInv, WalletCallConsistent
<1>1. StoreOK'
  <2>1. tx' \in [Sessions -> Transactions]
    BY <1>0, <1>a DEF Transactions
  <2> QED BY <1>0, <2>1 DEF IndInv, StoreOK
<1>2. WalletMirrorsAccount' /\ BalancesAllowed' /\ ClosedIsEmpty'
  BY DEF IndInv, WalletMirrorsAccount, BalancesAllowed, ClosedIsEmpty
<1>3. LocksExclusive'
  BY <1>0, <1>a DEF IndInv, LocksExclusive, Transactions, WalletFree
<1>4. SnapshotsHold'
  BY <1>0 DEF IndInv, SnapshotsHold, Serializable, Transactions, WalletCallConsistent
<1>5. ASSUME NEW t \in Sessions
      PROVE  (pc'[t] = "idle" => tx'[t] = NoTx) /\ PostConsistent(t)' /\ WalletCallConsistent(t)'
  <2>1. pc'[t] = "idle" => tx'[t] = NoTx
    BY <1>0 DEF IndInv
  <2>2. PostConsistent(t)'
    BY <1>0, <1>a DEF IndInv, PostConsistent, Serializable, Found, PostedBy, Acceptable, NextBalance, Inserted, ReferenceUsed, ReferenceHolders, Transactions
  <2>3. WalletCallConsistent(t)'
    BY <1>0, <1>a DEF IndInv, WalletCallConsistent, Creating, Target, Transactions
  <2> QED BY <2>1, <2>2, <2>3
<1> QED BY <1>1, <1>2, <1>3, <1>4, <1>5 DEF IndInv

\* A session with no row locked moves on, within a transaction or to a new one,
\* to a statement that is not the ledger's, to the first of a post, or to a
\* refusal.  Nobody else notices.
LEMMA SessionMoveInv ==
    ASSUME IndInv, NEW s \in Sessions, NEW to, NEW r \in Transactions,
           to \notin {"broken", "insert", "update", "posted",
                     "create", "closeAccount", "closeWallet", "closeDecide"},
           to = "idle" => r = NoTx,
           to \in {"lock", "rejected"} => r.isolation = "Serializable" /\ r.written = {},
           r.accounts = {}, r.wallets = {},
           r.isolation = "Serializable" =>
              \/ r.snap = Snapshot
              \/ /\ Serializable(s) /\ r.snap = tx[s].snap
                 /\ r.staleAccounts = tx[s].staleAccounts /\ r.staleWallets = tx[s].staleWallets,
           Goto(s, to), tx' = [tx EXCEPT ![s] = r], UNCHANGED tables
    PROVE  IndInv'
<1> USE DEF tables, Goto
<1>0. tx \in [Sessions -> Transactions] /\ DOMAIN pc = Sessions
  BY DEF IndInv, StoreOK
<1>a. /\ tx'[s] = r /\ pc'[s] = to
      /\ \A t \in Sessions \ {s} : tx'[t] = tx[t] /\ pc'[t] = pc[t]
  BY <1>0
<1>1. StoreOK'
  BY <1>0 DEF IndInv, StoreOK
<1>2. WalletMirrorsAccount' /\ BalancesAllowed' /\ ClosedIsEmpty'
  BY DEF IndInv, WalletMirrorsAccount, BalancesAllowed, ClosedIsEmpty
<1>3. LocksExclusive'
  BY <1>a DEF IndInv, LocksExclusive
<1>4. SnapshotsHold'
  <2>1. ASSUME r.isolation = "Serializable", r.snap = Snapshot
        PROVE  /\ \A a \in Accounts \ r.staleAccounts : r.snap.balance[a] = balance[a]
               /\ \A w \in Wallets \ r.staleWallets :
                     r.snap.status[w] # "NONE" => r.snap.status[w] = status[w]
               /\ \A w \in Wallets : r.snap.walletBalance[w] = r.snap.balance[w]
    BY <2>1 DEF IndInv, WalletMirrorsAccount, Snapshot
  <2>2. UNCHANGED <<balance, status>>
    OBVIOUS
  <2> QED BY <1>a, <2>1, <2>2 DEF IndInv, SnapshotsHold, Serializable
<1>5. ASSUME NEW t \in Sessions
      PROVE  (pc'[t] = "idle" => tx'[t] = NoTx) /\ PostConsistent(t)' /\ WalletCallConsistent(t)'
  <2>1. CASE t = s
    BY <2>1, <1>a DEF PostConsistent, WalletCallConsistent, Inserted, Creating, Serializable
  <2>2. CASE t # s
    <3>1. tx'[t] = tx[t] /\ pc'[t] = pc[t] /\ journal' = journal /\ status' = status
      BY <1>a, <2>2
    <3>2. (pc'[t] = "idle" => tx'[t] = NoTx)
      BY <3>1 DEF IndInv
    <3>3. /\ PostedBy(t)' = PostedBy(t) /\ Found(t)' = Found(t)
          /\ \A a \in Accounts : Acceptable(t, a)' = Acceptable(t, a)
          /\ Serializable(t)' = Serializable(t) /\ PostedBy(t) \subseteq Accounts
          /\ ReferenceUsed(t)' = ReferenceUsed(t) /\ Inserted(t)' = Inserted(t)
      BY <3>1 DEF PostedBy, Posted, Found, Acceptable, NextBalance, Serializable, ReferenceUsed, Inserted
    <3>4. ReferenceHolders(t) = {} => ReferenceHolders(t)' = {}
      BY <1>a, <3>1 DEF ReferenceHolders, Inserted
    <3>5. PostConsistent(t)'
      BY <3>1, <3>3, <3>4 DEF IndInv, PostConsistent, Inserted
    <3>6. WalletCallConsistent(t)'
      BY <1>a, <3>1 DEF IndInv, WalletCallConsistent, Creating, Target
    <3> QED BY <3>2, <3>5, <3>6
  <2> QED BY <2>1, <2>2
<1> QED BY <1>1, <1>2, <1>3, <1>4, <1>5 DEF IndInv

\* A transaction that ends without effect only gives up its locks: this is
\* FailPost, RefuseClose and Abandon.
LEMMA RollbackInv ==
    ASSUME IndInv, NEW s \in Sessions, Rollback(s), Goto(s, "idle"), UNCHANGED tables
    PROVE  IndInv'
<1>1. /\ NoTx.accounts = {} /\ NoTx.wallets = {} /\ NoTx.isolation # "Serializable"
      /\ tx' = [tx EXCEPT ![s] = NoTx]
  BY DEF NoTx, Rollback
<1> QED BY <1>1, NoTxType, SessionMoveInv

-----------------------------------------------------------------------------
(* Steps that change the tables *)

\* What a session that does not commit keeps: everything but its stale rows.
Kept(t, A, W) ==
    /\ tx'[t].isolation = tx[t].isolation /\ tx'[t].snap = tx[t].snap
    /\ tx'[t].accounts = tx[t].accounts /\ tx'[t].wallets = tx[t].wallets
    /\ tx'[t].entry = tx[t].entry /\ tx'[t].target = tx[t].target
    /\ tx'[t].written = tx[t].written
    /\ Serializable(t) =>
         /\ tx'[t].staleAccounts = tx[t].staleAccounts \cup A
         /\ tx'[t].staleWallets = tx[t].staleWallets \cup W
    /\ ~Serializable(t) => tx'[t] = tx[t]

\* A commit leaves the other transactions as they were, but for the rows
\* that have become stale in them.
LEMMA CommitKeeps ==
    ASSUME tx \in [Sessions -> Transactions], NEW s \in Sessions,
           NEW A \in SUBSET Accounts, NEW W \in SUBSET Wallets,
           Commit(s, A, W)
    PROVE  /\ tx' \in [Sessions -> Transactions]
           /\ tx'[s] = NoTx
           /\ \A t \in Sessions \ {s} : Kept(t, A, W)
<1>1. Noticed(A, W) \in [Sessions -> Transactions]
  BY DEF Noticed, Transactions
<1>2. tx' \in [Sessions -> Transactions] /\ tx'[s] = NoTx
  BY <1>1, NoTxType DEF Commit
<1>3. ASSUME NEW t \in Sessions \ {s} PROVE Kept(t, A, W)
  <2>1. tx'[t] = Noticed(A, W)[t]
    BY <1>1 DEF Commit
  <2> QED BY <2>1 DEF Kept, Noticed, Transactions, Serializable
<1> QED BY <1>2, <1>3

\* A session may publish its entry: it has locked every row it changes, what
\* it checked in its snapshot allows it, and its reference is its own.
Ready(s) ==
    /\ Serializable(s)
    /\ tx[s].accounts = PostedBy(s)
    /\ tx[s].wallets = PostedBy(s) \cap Wallets
    /\ \A a \in PostedBy(s) : Acceptable(s, a)
    /\ ReferenceHolders(s) = {}
    /\ ~ReferenceUsed(s)

\* A sealed transaction of postWithinTransaction is ready.
LEMMA PostedIsReady ==
    ASSUME IndInv, NEW s \in Sessions, pc[s] = "posted"
    PROVE  Ready(s)
BY DEF IndInv, PostConsistent, Inserted, Ready

\* The commit of a post: the rows it changes are locked by it, hence not by
\* any other transaction, and become stale in the others.
LEMMA PublishInv ==
    ASSUME IndInv, NEW s \in Sessions, Ready(s), PublishEntry(s), Goto(s, "idle")
    PROVE  IndInv'
<1> DEFINE P == PostedBy(s)
<1>0. tx \in [Sessions -> Transactions] /\ DOMAIN pc = Sessions
  BY DEF IndInv, StoreOK
<1>1. /\ pc' = [pc EXCEPT ![s] = "idle"]
      /\ balance' = [a \in Accounts |-> IF a \in P THEN NextBalance(s, a) ELSE balance[a]]
      /\ walletBalance' = [w \in Wallets |-> IF w \in P THEN NextBalance(s, w) ELSE walletBalance[w]]
      /\ journal' = journal \cup {tx[s].entry}
      /\ status' = status
      /\ Commit(s, P, P \cap Wallets)
  BY DEF PublishEntry, Goto
<1>2. P \in SUBSET Accounts /\ P \cap Wallets \in SUBSET Wallets
  BY DEF PostedBy, Posted
<1>3. /\ tx' \in [Sessions -> Transactions]
      /\ tx'[s] = NoTx
      /\ \A t \in Sessions \ {s} : Kept(t, P, P \cap Wallets)
  BY <1>0, <1>1, <1>2, CommitKeeps
<1>4. /\ tx[s].accounts = P /\ tx[s].wallets = P \cap Wallets
      /\ Serializable(s)
      /\ \A a \in P : Acceptable(s, a)
  BY DEF Ready
<1>5. \A a \in P : /\ NextBalance(s, a) = balance[a] + tx[s].entry.postings[a]
                   /\ NextBalance(s, a) \in Int
                   /\ BalanceAllowed(a, NextBalance(s, a))
                   /\ a \in Wallets => status[a] = "ACTIVE"
  <2>1. \A a \in P : tx[s].snap.balance[a] = balance[a]
    BY <1>2, <1>4 DEF IndInv, SnapshotsHold
  <2>2. \A a \in P : BalanceAllowed(a, NextBalance(s, a))
    BY <1>4 DEF Acceptable
  <2>3. \A w \in P \cap Wallets : tx[s].snap.status[w] = "ACTIVE"
    BY <1>4 DEF Acceptable
  <2>4. \A w \in P \cap Wallets : w \notin tx[s].staleWallets
    BY <1>4 DEF IndInv, SnapshotsHold
  <2>5. \A w \in P \cap Wallets : status[w] = "ACTIVE"
    BY <1>4, <2>3, <2>4 DEF IndInv, SnapshotsHold
  <2>6. \A a \in Accounts : balance[a] \in Int /\ tx[s].entry.postings[a] \in Int
    BY <1>0 DEF IndInv, StoreOK, Transactions, Entries
  <2> QED BY <1>2, <2>1, <2>2, <2>5, <2>6 DEF NextBalance
<1>6. StoreOK'
  <2>1. balance' \in [Accounts -> Int] /\ walletBalance' \in [Wallets -> Int]
    BY <1>1, <1>5 DEF IndInv, StoreOK
  <2> QED BY <1>0, <1>1, <1>3, <2>1 DEF IndInv, StoreOK
<1>7. WalletMirrorsAccount'
  BY <1>1, AccountsAssumption DEF IndInv, WalletMirrorsAccount
<1>8. BalancesAllowed' /\ ClosedIsEmpty'
  BY <1>1, <1>5, AccountsAssumption DEF IndInv, BalancesAllowed, ClosedIsEmpty
<1>9. LocksExclusive'
  BY <1>3 DEF IndInv, LocksExclusive, Kept, NoTx
<1>10. SnapshotsHold'
  <2> SUFFICES ASSUME NEW t \in Sessions, Serializable(t)'
               PROVE  /\ \A a \in Accounts \ tx'[t].staleAccounts : tx'[t].snap.balance[a] = balance'[a]
                      /\ \A w \in Wallets \ tx'[t].staleWallets :
                            tx'[t].snap.status[w] # "NONE" => tx'[t].snap.status[w] = status'[w]
                      /\ \A w \in Wallets : tx'[t].snap.walletBalance[w] = tx'[t].snap.balance[w]
                      /\ tx'[t].accounts \cap tx'[t].staleAccounts = {}
                      /\ tx'[t].wallets \cap tx'[t].staleWallets = {}
    BY DEF SnapshotsHold
  <2>1. t # s
    BY <1>3 DEF Serializable, NoTx
  <2>2. Kept(t, P, P \cap Wallets) /\ Serializable(t)
    BY <1>3, <2>1 DEF Kept, Serializable
  <2>3. tx[t].accounts \cap P = {} /\ tx[t].wallets \cap (P \cap Wallets) = {}
    BY <1>4, <2>1 DEF IndInv, LocksExclusive
  <2>4. /\ \A a \in Accounts \ tx[t].staleAccounts : tx[t].snap.balance[a] = balance[a]
        /\ \A w \in Wallets \ tx[t].staleWallets :
              tx[t].snap.status[w] # "NONE" => tx[t].snap.status[w] = status[w]
        /\ \A w \in Wallets : tx[t].snap.walletBalance[w] = tx[t].snap.balance[w]
        /\ tx[t].accounts \cap tx[t].staleAccounts = {}
        /\ tx[t].wallets \cap tx[t].staleWallets = {}
    BY <2>2 DEF IndInv, SnapshotsHold
  <2> HIDE DEF P
  <2> QED BY <1>1, <2>2, <2>3, <2>4 DEF Kept
<1>11. ASSUME NEW t \in Sessions
       PROVE  (pc'[t] = "idle" => tx'[t] = NoTx) /\ PostConsistent(t)' /\ WalletCallConsistent(t)'
  <2>1. CASE t = s
    BY <2>1, <1>0, <1>1, <1>3 DEF PostConsistent, WalletCallConsistent, Inserted, Creating
  <2>2. CASE t # s
    <3>1. Kept(t, P, P \cap Wallets) /\ pc'[t] = pc[t]
      BY <2>2, <1>0, <1>1, <1>3
    <3>2. pc'[t] = "idle" => tx'[t] = NoTx
      <4>1. pc[t] = "idle" => tx[t] = NoTx
        BY DEF IndInv
      <4>2. NoTx.isolation # "Serializable"
        BY DEF NoTx
      <4> QED BY <3>1, <4>1, <4>2 DEF Kept, Serializable
    <3>3. /\ PostedBy(t)' = PostedBy(t)
          /\ Found(t)' = Found(t)
          /\ \A a \in Accounts : Acceptable(t, a)' = Acceptable(t, a)
          /\ Serializable(t)' = Serializable(t)
          /\ PostedBy(t) \subseteq Accounts
      BY <3>1 DEF PostedBy, Posted, Found, Acceptable, NextBalance, Serializable, Kept
    <3>4. Inserted(t) => ~ReferenceUsed(t)' /\ ReferenceHolders(t)' = {}
      <4> SUFFICES ASSUME Inserted(t)
                   PROVE  ~ReferenceUsed(t)' /\ ReferenceHolders(t)' = {}
        OBVIOUS
      <4>1. ~ReferenceUsed(t) /\ ReferenceHolders(t) = {}
        BY DEF IndInv, PostConsistent
      <4>2. tx[t].entry.reference # tx[s].entry.reference
        BY <2>2 DEF Ready, ReferenceHolders
      <4>3. ~ReferenceUsed(t)'
        BY <4>1, <4>2, <3>1, <1>1 DEF ReferenceUsed, Kept
      <4>4. ReferenceHolders(t)' = {}
        BY <4>1, <3>1, <1>0, <1>1, <1>3 DEF ReferenceHolders, Inserted, Kept
      <4> QED BY <4>3, <4>4
    <3>5. PostConsistent(t)'
      BY <3>1, <3>3, <3>4 DEF IndInv, PostConsistent, Inserted, Kept
    <3>6. WalletCallConsistent(t)'
      BY <3>1, <1>0, <1>1, <1>3 DEF IndInv, WalletCallConsistent, Creating, Target, Kept
    <3> QED BY <3>2, <3>5, <3>6
  <2> QED BY <2>1, <2>2
<1> QED BY <1>6, <1>7, <1>8, <1>9, <1>10, <1>11 DEF IndInv

\* The commit of a new wallet touches no row that a snapshot shows.
LEMMA CommitCreateInv ==
    ASSUME IndInv, NEW s \in Sessions, CommitCreate(s)
    PROVE  IndInv'
<1> DEFINE w == Target(s)
<1>0. tx \in [Sessions -> Transactions] /\ DOMAIN pc = Sessions
  BY DEF IndInv, StoreOK
<1>1. /\ pc[s] = "create" /\ pc' = [pc EXCEPT ![s] = "idle"]
      /\ balance' = [balance EXCEPT ![w] = 0]
      /\ walletBalance' = [walletBalance EXCEPT ![w] = 0]
      /\ journal' = journal
      /\ status' = [status EXCEPT ![w] = "ACTIVE"]
      /\ Commit(s, {}, {})
  BY DEF CommitCreate, Goto
<1>2. w \in Wallets /\ w \in Accounts
  BY <1>1, AccountsAssumption DEF IndInv, WalletCallConsistent
<1>3. /\ tx' \in [Sessions -> Transactions]
      /\ tx'[s] = NoTx
      /\ \A t \in Sessions \ {s} : Kept(t, {}, {})
  BY <1>0, <1>1, CommitKeeps
<1>4. status[w] = "NONE"
  BY <1>1, <1>2 DEF IndInv, WalletCallConsistent, Creating, SameKey
<1>5. balance' = balance /\ walletBalance' = walletBalance
  BY <1>1, <1>2, <1>4 DEF IndInv, StoreOK, BalancesAllowed, WalletMirrorsAccount
<1>6. StoreOK'
  BY <1>0, <1>1, <1>3, <1>5 DEF IndInv, StoreOK, Statuses
<1>7. WalletMirrorsAccount' /\ BalancesAllowed' /\ ClosedIsEmpty'
  BY <1>1, <1>2, <1>5 DEF IndInv, StoreOK, WalletMirrorsAccount, BalancesAllowed, ClosedIsEmpty
<1>8. LocksExclusive'
  BY <1>3 DEF IndInv, LocksExclusive, Kept, NoTx
<1>9. SnapshotsHold'
  <2> SUFFICES ASSUME NEW t \in Sessions, Serializable(t)'
               PROVE  /\ \A a \in Accounts \ tx'[t].staleAccounts : tx'[t].snap.balance[a] = balance'[a]
                      /\ \A v \in Wallets \ tx'[t].staleWallets :
                            tx'[t].snap.status[v] # "NONE" => tx'[t].snap.status[v] = status'[v]
                      /\ \A v \in Wallets : tx'[t].snap.walletBalance[v] = tx'[t].snap.balance[v]
                      /\ tx'[t].accounts \cap tx'[t].staleAccounts = {}
                      /\ tx'[t].wallets \cap tx'[t].staleWallets = {}
    BY DEF SnapshotsHold
  <2>1. t # s
    BY <1>3 DEF Serializable, NoTx
  <2>2. Kept(t, {}, {}) /\ Serializable(t)
    BY <1>3, <2>1 DEF Kept, Serializable
  <2>3. \A v \in Wallets : v # w => status'[v] = status[v]
    BY <1>1, <1>2 DEF IndInv, StoreOK
  <2>4. w \notin tx[t].staleWallets => tx[t].snap.status[w] = "NONE"
    BY <1>2, <1>4, <2>2 DEF IndInv, SnapshotsHold
  <2> HIDE DEF w
  <2> QED BY <1>5, <2>2, <2>3, <2>4 DEF IndInv, SnapshotsHold, Kept
<1>10. ASSUME NEW t \in Sessions
       PROVE  (pc'[t] = "idle" => tx'[t] = NoTx) /\ PostConsistent(t)' /\ WalletCallConsistent(t)'
  <2>1. CASE t = s
    BY <2>1, <1>0, <1>1, <1>3 DEF PostConsistent, WalletCallConsistent, Inserted, Creating
  <2>2. CASE t # s
    <3>1. Kept(t, {}, {}) /\ pc'[t] = pc[t]
      BY <2>2, <1>0, <1>1, <1>3
    <3>2. pc'[t] = "idle" => tx'[t] = NoTx
      <4>1. pc[t] = "idle" => tx[t] = NoTx
        BY DEF IndInv
      <4>2. NoTx.isolation # "Serializable"
        BY DEF NoTx
      <4> QED BY <3>1, <4>1, <4>2 DEF Kept, Serializable
    <3>3. /\ PostedBy(t)' = PostedBy(t)
          /\ Found(t)' = Found(t)
          /\ \A a \in Accounts : Acceptable(t, a)' = Acceptable(t, a)
          /\ Serializable(t)' = Serializable(t)
          /\ PostedBy(t) \subseteq Accounts
      BY <3>1 DEF PostedBy, Posted, Found, Acceptable, NextBalance, Serializable, Kept
    <3>4. Inserted(t) => ~ReferenceUsed(t)' /\ ReferenceHolders(t)' = {}
      BY <3>1, <1>0, <1>1, <1>3 DEF IndInv, PostConsistent, ReferenceUsed, ReferenceHolders, Inserted, Kept
    <3>5. PostConsistent(t)'
      BY <3>1, <3>3, <3>4 DEF IndInv, PostConsistent, Inserted, Kept
    <3>6. Creating(t) => \A v \in Wallets : status'[v] # "NONE" => ~SameKey(v, Target(t))
      <4> SUFFICES ASSUME Creating(t), NEW v \in Wallets, status'[v] # "NONE"
                   PROVE  ~SameKey(v, Target(t))
        OBVIOUS
      <4>1. CASE v = w
        BY <4>1, <1>1, <2>2 DEF IndInv, WalletCallConsistent, Creating
      <4>2. CASE v # w
        BY <4>2, <1>1 DEF IndInv, StoreOK, WalletCallConsistent
      <4> QED BY <4>1, <4>2
    <3>7. WalletCallConsistent(t)'
      BY <3>1, <3>6, <1>0, <1>1, <1>3 DEF IndInv, WalletCallConsistent, Creating, Target, SameKey, Kept
    <3> QED BY <3>2, <3>5, <3>7
  <2> QED BY <2>1, <2>2
<1> QED BY <1>6, <1>7, <1>8, <1>9, <1>10 DEF IndInv

\* The commit of a close: the wallet is empty, and whoever saw it active
\* and has not yet locked its row finds the row stale.
LEMMA CommitCloseInv ==
    ASSUME IndInv, NEW s \in Sessions, CommitClose(s)
    PROVE  IndInv'
<1> DEFINE w == Target(s)
<1>0. tx \in [Sessions -> Transactions] /\ DOMAIN pc = Sessions
  BY DEF IndInv, StoreOK
<1>1. /\ pc[s] = "closeDecide" /\ pc' = [pc EXCEPT ![s] = "idle"]
      /\ UNCHANGED <<balance, walletBalance, journal>>
      /\ status[w] = "ACTIVE" /\ walletBalance[w] = 0
      /\ status' = [status EXCEPT ![w] = "CLOSED"]
      /\ Commit(s, {}, {w})
  BY DEF CommitClose, Closable, Goto
<1>2. w \in Wallets /\ w \in Accounts /\ tx[s].wallets = {w}
  BY <1>1, AccountsAssumption DEF IndInv, WalletCallConsistent
<1>3. /\ tx' \in [Sessions -> Transactions]
      /\ tx'[s] = NoTx
      /\ \A t \in Sessions \ {s} : Kept(t, {}, {w})
  BY <1>0, <1>1, <1>2, CommitKeeps
<1>6. StoreOK'
  BY <1>0, <1>1, <1>3 DEF IndInv, StoreOK, Statuses
<1>7. WalletMirrorsAccount' /\ BalancesAllowed' /\ ClosedIsEmpty'
  BY <1>1, <1>2 DEF IndInv, StoreOK, WalletMirrorsAccount, BalancesAllowed, ClosedIsEmpty
<1>8. LocksExclusive'
  BY <1>3 DEF IndInv, LocksExclusive, Kept, NoTx
<1>9. SnapshotsHold'
  <2> SUFFICES ASSUME NEW t \in Sessions, Serializable(t)'
               PROVE  /\ \A a \in Accounts \ tx'[t].staleAccounts : tx'[t].snap.balance[a] = balance'[a]
                      /\ \A v \in Wallets \ tx'[t].staleWallets :
                            tx'[t].snap.status[v] # "NONE" => tx'[t].snap.status[v] = status'[v]
                      /\ \A v \in Wallets : tx'[t].snap.walletBalance[v] = tx'[t].snap.balance[v]
                      /\ tx'[t].accounts \cap tx'[t].staleAccounts = {}
                      /\ tx'[t].wallets \cap tx'[t].staleWallets = {}
    BY DEF SnapshotsHold
  <2>1. t # s
    BY <1>3 DEF Serializable, NoTx
  <2>2. Kept(t, {}, {w}) /\ Serializable(t)
    BY <1>3, <2>1 DEF Kept, Serializable
  <2>3. \A v \in Wallets : v # w => status'[v] = status[v]
    BY <1>1, <1>2 DEF IndInv, StoreOK
  <2>4. w \notin tx[t].wallets
    BY <1>2, <2>1 DEF IndInv, LocksExclusive
  <2> HIDE DEF w
  <2> QED BY <1>1, <2>2, <2>3, <2>4 DEF IndInv, SnapshotsHold, Kept
<1>10. ASSUME NEW t \in Sessions
       PROVE  (pc'[t] = "idle" => tx'[t] = NoTx) /\ PostConsistent(t)' /\ WalletCallConsistent(t)'
  <2>1. CASE t = s
    BY <2>1, <1>0, <1>1, <1>3 DEF PostConsistent, WalletCallConsistent, Inserted, Creating
  <2>2. CASE t # s
    <3>1. Kept(t, {}, {w}) /\ pc'[t] = pc[t]
      BY <2>2, <1>0, <1>1, <1>3
    <3>2. pc'[t] = "idle" => tx'[t] = NoTx
      <4>1. pc[t] = "idle" => tx[t] = NoTx
        BY DEF IndInv
      <4>2. NoTx.isolation # "Serializable"
        BY DEF NoTx
      <4> QED BY <3>1, <4>1, <4>2 DEF Kept, Serializable
    <3>3. /\ PostedBy(t)' = PostedBy(t)
          /\ Found(t)' = Found(t)
          /\ \A a \in Accounts : Acceptable(t, a)' = Acceptable(t, a)
          /\ Serializable(t)' = Serializable(t)
          /\ PostedBy(t) \subseteq Accounts
      BY <3>1 DEF PostedBy, Posted, Found, Acceptable, NextBalance, Serializable, Kept
    <3>4. Inserted(t) => ~ReferenceUsed(t)' /\ ReferenceHolders(t)' = {}
      BY <3>1, <1>0, <1>1, <1>3 DEF IndInv, PostConsistent, ReferenceUsed, ReferenceHolders, Inserted, Kept
    <3>5. PostConsistent(t)'
      BY <3>1, <3>3, <3>4 DEF IndInv, PostConsistent, Inserted, Kept
    <3>6. \A v \in Wallets : status'[v] # "NONE" => status[v] # "NONE"
      BY <1>1 DEF IndInv, StoreOK
    <3>7. WalletCallConsistent(t)'
      BY <3>1, <3>6, <1>0, <1>1, <1>3 DEF IndInv, WalletCallConsistent, Creating, Target, SameKey, Kept
    <3> QED BY <3>2, <3>5, <3>7
  <2> QED BY <2>1, <2>2
<1> QED BY <1>6, <1>7, <1>8, <1>9, <1>10 DEF IndInv

\* Freezing changes only a wallet row that nobody has locked.
LEMMA SetFrozenInv ==
    ASSUME IndInv, NEW w \in Wallets, SetFrozen(w)
    PROVE  IndInv'
<1>0. tx \in [Sessions -> Transactions] /\ DOMAIN pc = Sessions
  BY DEF IndInv, StoreOK
<1>1. /\ UNCHANGED <<balance, walletBalance, journal, pc>>
      /\ status[w] \in {"ACTIVE", "FROZEN"}
      /\ status' = [status EXCEPT ![w] = IF @ = "ACTIVE" THEN "FROZEN" ELSE "ACTIVE"]
      /\ \A t \in Sessions : w \notin tx[t].wallets
  BY DEF SetFrozen
<1>2. tx' = Noticed({}, {w})
  BY DEF SetFrozen
<1>3. /\ tx' \in [Sessions -> Transactions]
      /\ \A t \in Sessions : Kept(t, {}, {w})
  <2>1. Noticed({}, {w}) \in [Sessions -> Transactions]
    <3> SUFFICES ASSUME NEW t \in Sessions PROVE Noticed({}, {w})[t] \in Transactions
      BY DEF Noticed
    <3>1. tx[t] \in Transactions /\ tx[t].staleWallets \cup {w} \in SUBSET Wallets
      BY <1>0 DEF Transactions
    <3> QED BY <3>1 DEF Noticed, Transactions
  <2>2. \A t \in Sessions : Kept(t, {}, {w})
    BY <1>0, <1>2 DEF Kept, Noticed, Transactions, Serializable
  <2> QED BY <1>2, <2>1, <2>2
<1>6. StoreOK'
  BY <1>0, <1>1, <1>3 DEF IndInv, StoreOK, Statuses
<1>7. WalletMirrorsAccount' /\ BalancesAllowed' /\ ClosedIsEmpty'
  BY <1>1 DEF IndInv, StoreOK, WalletMirrorsAccount, BalancesAllowed, ClosedIsEmpty
<1>8. LocksExclusive'
  BY <1>3 DEF IndInv, LocksExclusive, Kept, NoTx
<1>9. SnapshotsHold'
  <2> SUFFICES ASSUME NEW t \in Sessions, Serializable(t)'
               PROVE  /\ \A a \in Accounts \ tx'[t].staleAccounts : tx'[t].snap.balance[a] = balance'[a]
                      /\ \A v \in Wallets \ tx'[t].staleWallets :
                            tx'[t].snap.status[v] # "NONE" => tx'[t].snap.status[v] = status'[v]
                      /\ \A v \in Wallets : tx'[t].snap.walletBalance[v] = tx'[t].snap.balance[v]
                      /\ tx'[t].accounts \cap tx'[t].staleAccounts = {}
                      /\ tx'[t].wallets \cap tx'[t].staleWallets = {}
    BY DEF SnapshotsHold
  <2>2. Kept(t, {}, {w}) /\ Serializable(t)
    BY <1>3 DEF Kept, Serializable
  <2>3. \A v \in Wallets : v # w => status'[v] = status[v]
    BY <1>1 DEF IndInv, StoreOK
  <2>4. w \notin tx[t].wallets
    BY <1>1
  <2>5. /\ \A a \in Accounts \ tx[t].staleAccounts : tx[t].snap.balance[a] = balance[a]
        /\ \A v \in Wallets \ tx[t].staleWallets :
              tx[t].snap.status[v] # "NONE" => tx[t].snap.status[v] = status[v]
        /\ \A v \in Wallets : tx[t].snap.walletBalance[v] = tx[t].snap.balance[v]
        /\ tx[t].accounts \cap tx[t].staleAccounts = {}
        /\ tx[t].wallets \cap tx[t].staleWallets = {}
    BY <2>2 DEF IndInv, SnapshotsHold
  <2>6. balance' = balance
    BY <1>1
  <2> QED BY <2>2, <2>3, <2>4, <2>5, <2>6 DEF Kept
<1>10. ASSUME NEW t \in Sessions
       PROVE  (pc'[t] = "idle" => tx'[t] = NoTx) /\ PostConsistent(t)' /\ WalletCallConsistent(t)'
  <2>1. Kept(t, {}, {w}) /\ pc'[t] = pc[t]
    BY <1>0, <1>1, <1>3
  <2>2. pc'[t] = "idle" => tx'[t] = NoTx
    <3>1. pc[t] = "idle" => tx[t] = NoTx
      BY DEF IndInv
    <3>2. NoTx.isolation # "Serializable"
      BY DEF NoTx
    <3> QED BY <2>1, <3>1, <3>2 DEF Kept, Serializable
  <2>3. /\ PostedBy(t)' = PostedBy(t)
        /\ Found(t)' = Found(t)
        /\ \A a \in Accounts : Acceptable(t, a)' = Acceptable(t, a)
        /\ Serializable(t)' = Serializable(t)
        /\ PostedBy(t) \subseteq Accounts
    BY <2>1 DEF PostedBy, Posted, Found, Acceptable, NextBalance, Serializable, Kept
  <2> journal' = journal /\ pc' = pc
    BY <1>1
  <2>4. Inserted(t) => ~ReferenceUsed(t)' /\ ReferenceHolders(t)' = {}
    BY <2>1, <1>0, <1>3 DEF IndInv, PostConsistent, ReferenceUsed, ReferenceHolders, Inserted, Kept
  <2>5. PostConsistent(t)'
    BY <2>1, <2>3, <2>4 DEF IndInv, PostConsistent, Inserted, Kept
  <2>6. \A v \in Wallets : status'[v] # "NONE" => status[v] # "NONE"
    BY <1>1 DEF IndInv, StoreOK
  <2>7. WalletCallConsistent(t)'
    BY <2>1, <2>6, <1>0, <1>3 DEF IndInv, WalletCallConsistent, Creating, Target, SameKey, Kept
  <2> QED BY <2>2, <2>5, <2>7
<1> QED BY <1>6, <1>7, <1>8, <1>9, <1>10 DEF IndInv

-----------------------------------------------------------------------------
(* What the services that use the ledger see of its steps *)

\* A statement of postWithinTransaction moves its own session only, and keeps
\* the entry it posts.
LEMMA PostStepFrame ==
    ASSUME IndInv, NEW s \in Sessions, PostStep(s)
    PROVE  /\ IndInv' /\ UNCHANGED tables
           /\ pc[s] \in {"lock", "insert", "update"}
           /\ pc'[s] \in {"lock", "rejected", "broken", "insert", "update", "posted"}
           /\ \A t \in Sessions \ {s} : pc'[t] = pc[t] /\ tx'[t] = tx[t]
           /\ tx'[s].entry = tx[s].entry
<1>1. IndInv'
  BY LockAccountInv, UpdateAccountInv, CheckPostingsInv, InsertEntryInv, SealInv DEF PostStep
<1>2. tx \in [Sessions -> Transactions] /\ DOMAIN pc = Sessions
  BY DEF IndInv, StoreOK
<1>3. CASE \E a \in Accounts : LockAccount(s, a)
  <2>1. PICK a \in Accounts : LockAccount(s, a)
    BY <1>3
  <2>2. tx' = [tx EXCEPT ![s].accounts = @ \cup {a}] /\ UNCHANGED <<tables, pc>> /\ pc[s] = "lock"
    BY <2>1 DEF LockAccount
  <2> QED BY <1>1, <1>2, <2>2 DEF Transactions
<1>4. CASE \E a \in Accounts : UpdateAccount(s, a)
  <2>1. PICK a \in Accounts : UpdateAccount(s, a)
    BY <1>4
  <2>2. /\ tx' = [tx EXCEPT ![s].written = @ \cup {a}, ![s].wallets = @ \cup ({a} \cap Wallets)]
        /\ UNCHANGED <<tables, pc>> /\ pc[s] = "update"
    BY <2>1 DEF UpdateAccount
  <2> QED BY <1>1, <1>2, <2>2 DEF Transactions
<1>5. CASE CheckPostings(s) \/ InsertEntry(s) \/ Seal(s)
  BY <1>1, <1>2, <1>5 DEF CheckPostings, InsertEntry, Seal, Goto, Verdict
<1> QED BY <1>3, <1>4, <1>5 DEF PostStep

\* A step of close moves its own session only; the others may find rows stale.
LEMMA CloseFrame ==
    ASSUME IndInv, NEW s \in Sessions, CloseStep(s) \/ \E w \in Wallets : FindToClose(s, w)
    PROVE  /\ IndInv' /\ journal' = journal
           /\ pc'[s] \in {"idle", "closeAccount", "closeWallet", "closeDecide"}
           /\ \A t \in Sessions \ {s} : pc'[t] = pc[t] /\ \E A, W : Kept(t, A, W)
<1>1. tx \in [Sessions -> Transactions] /\ DOMAIN pc = Sessions
  BY DEF IndInv, StoreOK
<1>2. IndInv'
  BY FindToCloseInv, CloseLockAccountInv, CloseLockWalletInv, CommitCloseInv, RollbackInv
     DEF CloseStep, RefuseClose
<1>3. /\ pc'[s] \in {"idle", "closeAccount", "closeWallet", "closeDecide"} /\ journal' = journal
      /\ \A t \in Sessions \ {s} : pc'[t] = pc[t]
  BY <1>1 DEF CloseStep, FindToClose, CloseLockAccount, CloseLockWallet, CommitClose,
     RefuseClose, Goto, tables
<1>4. \A t \in Sessions \ {s} : \E A, W : Kept(t, A, W)
  <2>1. CASE ~CommitClose(s)
    <3>1. \A t \in Sessions \ {s} : tx'[t] = tx[t]
      BY <1>1, <2>1 DEF CloseStep, FindToClose, CloseLockAccount, CloseLockWallet,
         RefuseClose, BeginFor, Rollback
    <3>2. \A t \in Sessions \ {s} : Kept(t, {}, {})
      BY <3>1 DEF Kept
    <3> QED BY <3>2
  <2>2. CASE CommitClose(s)
    <3>1. Commit(s, {}, {Target(s)}) /\ Target(s) \in Wallets
      BY <2>2 DEF CommitClose, IndInv, WalletCallConsistent
    <3>2. \A t \in Sessions \ {s} : Kept(t, {}, {Target(s)})
      BY <1>1, <3>1, CommitKeeps
    <3> QED BY <3>2
  <2> QED BY <2>1, <2>2
<1> QED BY <1>2, <1>3, <1>4

\* Freezing moves no session; each may find the wallet's row stale.
LEMMA FreezeFrame ==
    ASSUME IndInv, NEW w \in Wallets, SetFrozen(w)
    PROVE  IndInv' /\ UNCHANGED <<journal, pc>> /\ \A t \in Sessions : Kept(t, {}, {w})
<1>1. tx \in [Sessions -> Transactions] /\ tx' = Noticed({}, {w}) /\ UNCHANGED <<journal, pc>>
  BY DEF IndInv, StoreOK, SetFrozen
<1>2. \A t \in Sessions : Kept(t, {}, {w})
  BY <1>1 DEF Kept, Noticed, Transactions, Serializable
<1> QED BY <1>1, <1>2, SetFrozenInv

\* The commit of a transaction that changed no row is seen by nobody.
LEMMA CommitNothing ==
    ASSUME IndInv, NEW s \in Sessions, Commit(s, {}, {})
    PROVE  Rollback(s)
<1>1. tx \in [Sessions -> Transactions]
  BY DEF IndInv, StoreOK
<1>2. \A t \in Sessions : Noticed({}, {})[t] = tx[t]
  BY <1>1 DEF Noticed, Transactions
<1>3. Noticed({}, {}) = tx
  BY <1>1, <1>2 DEF Noticed
<1> QED BY <1>3 DEF Commit, Rollback

\* After its post a session may go on, with everything it holds, to statements
\* that are not the ledger's.
LEMMA LeaveLedgerInv ==
    ASSUME IndInv, NEW s \in Sessions, NEW to, Goto(s, to), UNCHANGED <<tables, tx>>,
           pc[s] = "posted",
           to \notin {"idle", "lock", "rejected", "broken", "insert", "update", "posted",
                     "create", "closeAccount", "closeWallet", "closeDecide"}
    PROVE  IndInv'
<1> USE DEF tables, Goto
<1>0. DOMAIN pc = Sessions
  BY DEF IndInv, StoreOK
<1>a. pc'[s] = to /\ \A t \in Sessions \ {s} : pc'[t] = pc[t]
  BY <1>0
<1>1. StoreOK' /\ WalletMirrorsAccount' /\ BalancesAllowed' /\ ClosedIsEmpty'
  BY DEF IndInv, StoreOK, WalletMirrorsAccount, BalancesAllowed, ClosedIsEmpty
<1>2. LocksExclusive' /\ SnapshotsHold'
  BY DEF IndInv, LocksExclusive, SnapshotsHold, Serializable
<1>3. ASSUME NEW t \in Sessions
      PROVE  (pc'[t] = "idle" => tx'[t] = NoTx) /\ PostConsistent(t)' /\ WalletCallConsistent(t)'
  <2>1. CASE t = s
    BY <2>1, <1>a DEF PostConsistent, WalletCallConsistent, Inserted, Creating
  <2>2. CASE t # s
    <3>1. tx'[t] = tx[t] /\ pc'[t] = pc[t] /\ journal' = journal /\ status' = status
      BY <1>a, <2>2
    <3>2. (pc'[t] = "idle" => tx'[t] = NoTx)
      BY <3>1 DEF IndInv
    <3>3. /\ PostedBy(t)' = PostedBy(t) /\ Found(t)' = Found(t)
          /\ \A a \in Accounts : Acceptable(t, a)' = Acceptable(t, a)
          /\ Serializable(t)' = Serializable(t) /\ PostedBy(t) \subseteq Accounts
          /\ ReferenceUsed(t)' = ReferenceUsed(t) /\ Inserted(t)' = Inserted(t)
      BY <3>1 DEF PostedBy, Posted, Found, Acceptable, NextBalance, Serializable, ReferenceUsed, Inserted
    <3>4. ReferenceHolders(t) = {} => ReferenceHolders(t)' = {}
      BY <1>a, <3>1 DEF ReferenceHolders, Inserted
    <3>5. PostConsistent(t)'
      BY <3>1, <3>3, <3>4 DEF IndInv, PostConsistent, Inserted
    <3>6. WalletCallConsistent(t)'
      BY <1>a, <3>1 DEF IndInv, WalletCallConsistent, Creating, Target
    <3> QED BY <3>2, <3>5, <3>6
  <2> QED BY <2>1, <2>2
<1> QED BY <1>1, <1>2, <1>3 DEF IndInv

\* Where the ledger is left alone its invariant holds on.
LEMMA LedgerStutter ==
    ASSUME IndInv, UNCHANGED vars
    PROVE  IndInv'
BY DEF vars, IndInv, StoreOK, WalletMirrorsAccount, BalancesAllowed, ClosedIsEmpty,
   LocksExclusive, SnapshotsHold, Serializable, PostConsistent, WalletCallConsistent, Found,
   PostedBy, Acceptable, NextBalance, Inserted, ReferenceUsed, ReferenceHolders, Target, Creating

-----------------------------------------------------------------------------
(* The theorems *)

\* Every step keeps the invariant: one case per action.
LEMMA StepInv == IndInv /\ [Next]_vars => IndInv'
<1> SUFFICES ASSUME IndInv, [Next]_vars PROVE IndInv'
  OBVIOUS
<1>1. ASSUME NEW s \in Sessions, Call(s) PROVE IndInv'
  BY <1>1, BeginPostInv, InsertWalletInv, FindToCloseInv DEF Call
<1>2. ASSUME NEW s \in Sessions, PostStep(s) PROVE IndInv'
  BY <1>2, LockAccountInv, UpdateAccountInv, CheckPostingsInv, InsertEntryInv, SealInv
     DEF PostStep
<1>3. ASSUME NEW s \in Sessions, CommitPost(s) PROVE IndInv'
  BY <1>3, PostedIsReady, PublishInv DEF CommitPost
<1>4. ASSUME NEW s \in Sessions, FailPost(s) \/ RefuseClose(s) \/ Abandon(s) PROVE IndInv'
  BY <1>4, RollbackInv DEF FailPost, RefuseClose, Abandon
<1>5. ASSUME NEW s \in Sessions, CommitCreate(s) PROVE IndInv'
  BY <1>5, CommitCreateInv
<1>6. ASSUME NEW s \in Sessions, CloseStep(s) PROVE IndInv'
  BY <1>6, <1>4, CloseLockAccountInv, CloseLockWalletInv, CommitCloseInv DEF CloseStep
<1>7. ASSUME NEW w \in Wallets, SetFrozen(w) PROVE IndInv'
  BY <1>7, SetFrozenInv
<1>8. CASE UNCHANGED vars
  BY <1>8 DEF vars, IndInv, StoreOK, WalletMirrorsAccount, BalancesAllowed, ClosedIsEmpty,
              LocksExclusive, SnapshotsHold, PostConsistent, WalletCallConsistent,
              Serializable, Found, PostedBy, Acceptable, NextBalance, Inserted,
              ReferenceUsed, ReferenceHolders, Creating, Target
<1> QED BY <1>1, <1>2, <1>3, <1>4, <1>5, <1>6, <1>7, <1>8 DEF Next, Step

\* Whatever the accounts, the requests and the number of sessions, the rows a
\* transaction of LedgerService.post has locked are those its snapshot shows,
\* and each session is where its locks and writes say it is.
THEOREM Inductive == Spec => []IndInv
BY InitInv, StepInv, PTL DEF Spec

\* Every variable keeps its type.
THEOREM TypeCorrect == Spec => []TypeOK
<1>1. Init => TypeOK
  BY InitInv DEF Init, IndInv, TypeOK, Labels
<1>2. IndInv' /\ TypeOK /\ [Next]_vars => TypeOK'
  <2> SUFFICES ASSUME IndInv', pc \in [Sessions -> Labels], [Next]_vars
               PROVE  pc' \in [Sessions -> Labels]
    BY DEF TypeOK, IndInv
  <2>1. ASSUME NEW s \in Sessions, PostStep(s) PROVE pc' \in [Sessions -> Labels]
    BY <2>1 DEF PostStep, LockAccount, UpdateAccount, CheckPostings, InsertEntry, Seal, Goto,
                Verdict, Labels
  <2>2. ASSUME NEW s \in Sessions, Call(s) \/ Abandon(s) \/ CommitPost(s) \/ FailPost(s)
        PROVE  pc' \in [Sessions -> Labels]
    BY <2>2 DEF Call, BeginPost, InsertWallet, FindToClose, CommitPost, FailPost, Abandon, Goto, Labels
  <2>3. ASSUME NEW s \in Sessions, CommitCreate(s) \/ CloseStep(s)
        PROVE  pc' \in [Sessions -> Labels]
    BY <2>3 DEF CommitCreate, CloseStep, CloseLockAccount, CloseLockWallet, CommitClose,
                RefuseClose, Goto, Labels
  <2>4. ASSUME NEW w \in Wallets, SetFrozen(w) PROVE pc' \in [Sessions -> Labels]
    BY <2>4 DEF SetFrozen
  <2> QED BY <2>1, <2>2, <2>3, <2>4 DEF Next, Step, vars
<1> QED BY <1>1, <1>2, Inductive, PTL DEF Spec

\* No closed wallet holds money, however closes interleave with posts.
THEOREM ClosedWalletsAreEmpty == Spec => []ClosedIsEmpty
<1>1. IndInv => ClosedIsEmpty
  BY DEF IndInv
<1> QED BY <1>1, Inductive, PTL

\* The balance column of every wallet equals that of its ledger account.
THEOREM WalletsMirrorAccounts == Spec => []WalletMirrorsAccount
<1>1. IndInv => WalletMirrorsAccount
  BY DEF IndInv
<1> QED BY <1>1, Inductive, PTL

\* postWithinTransaction never answers 500 over a wallet that disagrees with
\* its ledger account: no snapshot shows one.
THEOREM SnapshotsAreConsistent == Spec => []NeverBroken
<1>1. Init => NeverBroken
  BY DEF Init, NeverBroken
<1>2. IndInv /\ NeverBroken /\ [Next]_vars => NeverBroken'
  <2> SUFFICES ASSUME IndInv, NeverBroken, [Next]_vars, NEW t \in Sessions
               PROVE  pc'[t] # "broken"
    BY DEF NeverBroken
  <2> USE DEF NeverBroken
  <2>0. DOMAIN pc = Sessions
    BY DEF IndInv, StoreOK
  <2>1. \A s \in Sessions : pc[s] = "lock" => Verdict(s) # "broken"
    BY DEF IndInv, PostConsistent, SnapshotsHold, Verdict, Inconsistent
  <2>2. ASSUME NEW s \in Sessions, CheckPostings(s) PROVE pc'[t] # "broken"
    BY <2>0, <2>1, <2>2 DEF CheckPostings, Goto
  <2>3. ASSUME NEW s \in Sessions, PostStep(s) PROVE pc'[t] # "broken"
    BY <2>0, <2>2, <2>3 DEF PostStep, LockAccount, UpdateAccount, InsertEntry, Seal, Goto
  <2>4. ASSUME NEW s \in Sessions, Call(s) \/ Step(s) \/ Abandon(s) PROVE pc'[t] # "broken"
    BY <2>0, <2>3, <2>4 DEF Call, BeginPost, InsertWallet, FindToClose, Step, CommitPost,
       FailPost, CommitCreate, CloseStep, CloseLockAccount, CloseLockWallet, CommitClose,
       RefuseClose, Abandon, Goto
  <2> QED BY <2>4 DEF Next, SetFrozen, vars
<1> QED BY <1>1, <1>2, Inductive, PTL DEF Spec

\* What a ready session publishes is right for the balances and the statuses at
\* that very moment, although it was computed from a snapshot.
LEMMA PublishIsCurrent ==
    ASSUME IndInv, NEW s \in Sessions, Ready(s), PublishEntry(s)
    PROVE  LET entry == tx[s].entry IN
           /\ balance' = [a \in Accounts |-> balance[a] + entry.postings[a]]
           /\ \A a \in Posted(entry) : BalanceAllowed(a, balance[a] + entry.postings[a])
           /\ \A w \in Posted(entry) \cap Wallets : status[w] = "ACTIVE"
           /\ \A a \in Posted(entry) : CurrencyOf[a] = entry.currency
<1> DEFINE P == PostedBy(s)
<1>0. tx \in [Sessions -> Transactions]
  BY DEF IndInv, StoreOK
<1>1. balance' = [a \in Accounts |-> IF a \in P THEN NextBalance(s, a) ELSE balance[a]]
  BY DEF PublishEntry
<1>2. P \subseteq Accounts /\ P = Posted(tx[s].entry)
  BY DEF PostedBy, Posted
<1>3. /\ tx[s].accounts = P /\ tx[s].wallets = P \cap Wallets
      /\ Serializable(s)
      /\ \A a \in P : Acceptable(s, a)
  BY DEF Ready
<1>4. \A a \in P : tx[s].snap.balance[a] = balance[a]
  BY <1>2, <1>3 DEF IndInv, SnapshotsHold
<1>5. \A w \in P \cap Wallets : status[w] = "ACTIVE"
  <2>1. \A w \in P \cap Wallets : tx[s].snap.status[w] = "ACTIVE"
    BY <1>3 DEF Acceptable
  <2>2. \A w \in P \cap Wallets : w \notin tx[s].staleWallets
    BY <1>3 DEF IndInv, SnapshotsHold
  <2> QED BY <1>3, <2>1, <2>2 DEF IndInv, SnapshotsHold
<1>6. \A a \in P : BalanceAllowed(a, balance[a] + tx[s].entry.postings[a])
  BY <1>3, <1>4 DEF Acceptable, NextBalance
<1>7. balance' = [a \in Accounts |-> balance[a] + tx[s].entry.postings[a]]
  <2>1. \A a \in Accounts : balance[a] \in Int /\ tx[s].entry.postings[a] \in Int
    BY <1>0 DEF IndInv, StoreOK, Transactions, Entries
  <2>2. \A a \in Accounts \ P : tx[s].entry.postings[a] = 0
    BY DEF PostedBy, Posted
  <2> QED BY <1>1, <1>4, <2>1, <2>2 DEF NextBalance
<1>8. \A a \in P : CurrencyOf[a] = tx[s].entry.currency
  BY <1>3 DEF Acceptable
<1> QED BY <1>2, <1>5, <1>6, <1>7, <1>8

\* What a transaction publishes is a valid entry of the book for the balances
\* and the statuses at that very moment.
LEMMA PublishIsPost ==
    ASSUME IndInv, NEW s \in Sessions, Ready(s), PublishEntry(s)
    PROVE  Book!Post(tx[s].entry) /\ tx[s].entry \in journal'
<1>1. /\ journal' = journal \cup {tx[s].entry}
      /\ status' = status
      /\ ValidAtCommit(tx[s].entry)
  BY DEF PublishEntry
<1>2. /\ balance' = [a \in Accounts |-> balance[a] + tx[s].entry.postings[a]]
      /\ \A a \in Posted(tx[s].entry) : BalanceAllowed(a, balance[a] + tx[s].entry.postings[a])
      /\ \A w \in Posted(tx[s].entry) \cap Wallets : status[w] = "ACTIVE"
  BY <1>1, PublishIsCurrent
<1>3. Posted(tx[s].entry) = Book!Posted(tx[s].entry)
  BY DEF Posted, Book!Posted
<1>4. Book!ValidAtCommit(tx[s].entry)
  BY <1>1 DEF ValidAtCommit, Book!ValidAtCommit, Posted, Book!Posted, SumFunction, Book!SumFunction,
     SumFunctionOnSet, Book!SumFunctionOnSet, FoldFunctionOnSet, Book!FoldFunctionOnSet,
     MapThenFoldSet, Book!MapThenFoldSet
<1>5. \A a \in Posted(tx[s].entry) : Book!BalanceAllowed(a, balance[a] + tx[s].entry.postings[a])
  BY <1>2 DEF BalanceAllowed, Book!BalanceAllowed, InRange, Book!InRange, AllowNegative, Book!AllowNegative
<1>6. ~ReferenceUsed(s)
  BY DEF Ready
<1> QED BY <1>1, <1>2, <1>3, <1>4, <1>5, <1>6 DEF Book!Post, ReferenceUsed

\* Every step is a step of the book or leaves the book alone.
LEMMA StepIsBookStep == IndInv /\ [Next]_vars => [Book!Next]_<<balance, status, journal>>
<1> SUFFICES ASSUME IndInv, [Next]_vars
             PROVE  Book!Next \/ UNCHANGED <<balance, status, journal>>
  OBVIOUS
<1> DEFINE Goal == Book!Next \/ UNCHANGED <<balance, status, journal>>
<1>1. ASSUME NEW s \in Sessions, CommitPost(s) PROVE Goal
  BY <1>1, PostedIsReady, PublishIsPost DEF CommitPost, Book!Next
<1>2. ASSUME NEW s \in Sessions, CommitCreate(s) PROVE Goal
  <2>1. /\ Target(s) \in Wallets
        /\ \A v \in Wallets : status[v] # "NONE" => ~SameKey(v, Target(s))
    BY <1>2 DEF CommitCreate, IndInv, WalletCallConsistent, Creating
  <2>2. status[Target(s)] = "NONE"
    BY <2>1 DEF SameKey
  <2>3. Book!Create(Target(s))
    BY <1>2, <2>1, <2>2 DEF CommitCreate, SameKey, Book!Create, Book!Open
  <2> QED BY <2>1, <2>3 DEF Book!Next
<1>3. ASSUME NEW s \in Sessions, CommitClose(s) PROVE Goal
  <2>1. Target(s) \in Wallets
    BY <1>3 DEF CommitClose, IndInv, WalletCallConsistent
  <2>2. balance[Target(s)] = 0
    BY <1>3, <2>1 DEF CommitClose, Closable, IndInv, WalletMirrorsAccount
  <2>3. Book!Close(Target(s))
    BY <1>3, <2>2 DEF CommitClose, Closable, Book!Close
  <2> QED BY <2>1, <2>3 DEF Book!Next
<1>4. ASSUME NEW w \in Wallets, SetFrozen(w) PROVE Goal
  BY <1>4 DEF SetFrozen, Book!SetFrozen, Book!Next
<1>5. ASSUME NEW s \in Sessions, PostStep(s) PROVE Goal
  BY <1>5 DEF PostStep, LockAccount, UpdateAccount, CheckPostings, InsertEntry, Seal, tables
<1>6. ASSUME NEW s \in Sessions, Call(s) \/ FailPost(s) \/ Abandon(s) PROVE Goal
  BY <1>6 DEF Call, BeginPost, InsertWallet, FindToClose, FailPost, Abandon, tables
<1>7. ASSUME NEW s \in Sessions, CloseStep(s) PROVE Goal
  BY <1>7, <1>3 DEF CloseStep, CloseLockAccount, CloseLockWallet, RefuseClose, tables
<1>8. CASE UNCHANGED vars
  BY <1>8 DEF vars
<1> QED BY <1>1, <1>2, <1>3, <1>4, <1>5, <1>6, <1>7, <1>8 DEF Next, Step

\* LedgerService and WalletsService, with their snapshots, locks and aborts,
\* implement the book in which each entry is posted at one instant.
THEOREM LedgerImplementsBook == Spec => ImplementsBook
<1>1. Init => Book!Init
  BY DEF Init, Book!Init, OpeningBalance, Book!OpeningBalance, MigratedWith, Book!MigratedWith,
     SumFunctionOnSet, Book!SumFunctionOnSet, FoldFunctionOnSet, Book!FoldFunctionOnSet,
     MapThenFoldSet, Book!MapThenFoldSet, OpeningJournal, Book!OpeningJournal, OpeningEntry, Book!OpeningEntry
<1> QED BY <1>1, StepIsBookStep, Inductive, PTL DEF Spec, ImplementsBook, Book!Spec, Book!bookVars
==============================================================================
