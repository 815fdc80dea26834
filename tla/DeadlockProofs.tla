--------------------------- MODULE DeadlockProofs ---------------------------
(***************************************************************************)
(* No circle of transactions waits for each other, for every finite set of *)
(* sessions (over infinitely many a chain of waits need not end).  In any  *)
(* set of sessions that wait, the one whose next account is the largest    *)
(* waits for nobody in the set: who holds that account wants a larger one. *)
(***************************************************************************)
EXTENDS LedgerProofs, FiniteSetTheorems, WellFoundedInduction

\* A function into the naturals has a greatest value on a finite set.  The
\* induction over the set is the choice of a smallest set without one.
LEMMA FiniteMax ==
    ASSUME NEW S, IsFiniteSet(S), S # {}, NEW f, \A s \in S : f[s] \in Nat
    PROVE  \E m \in S : \A s \in S : f[s] <= f[m]
<1> DEFINE HasMax(T) == \E m \in T : \A s \in T : f[s] <= f[m]
           Bad == {T \in SUBSET S : T # {} /\ ~HasMax(T)}
<1> SUFFICES ASSUME Bad # {} PROVE FALSE
  OBVIOUS
<1>1. Bad \subseteq FiniteSubsetsOf(S)
  <2>1. \A T \in Bad : T \in SUBSET S
    OBVIOUS
  <2>2. \A T \in SUBSET S : IsFiniteSet(T)
    BY FS_Subset
  <2> QED BY <2>1, <2>2 DEF FiniteSubsetsOf
<1>2. IsWellFoundedOn(StrictSubsetOrdering(S), FiniteSubsetsOf(S))
  BY FS_StrictSubsetOrderingWellFounded
<1>3. PICK T \in Bad : \A U \in Bad : ~(<<U, T>> \in StrictSubsetOrdering(S))
  <2> HIDE DEF Bad
  <2> QED BY <1>1, <1>2, WFMin
<1>4. T \in SUBSET S /\ T # {} /\ ~HasMax(T)
  OBVIOUS
<1>5. PICK x \in T : TRUE
  BY <1>4
<1> DEFINE U == T \ {x}
<1>6. U \in SUBSET S /\ U \subseteq T /\ U # T
  BY <1>4, <1>5
<1>7. <<U, T>> \in StrictSubsetOrdering(S)
  BY <1>4, <1>6 DEF StrictSubsetOrdering
<1>8. U = {} \/ HasMax(U)
  BY <1>3, <1>6, <1>7
<1>9. f[x] \in Nat
  BY <1>4, <1>5
<1>10. CASE U = {}
  <2>1. T = {x}
    BY <1>10, <1>5
  <2> QED BY <2>1, <1>4, <1>9
<1>11. CASE HasMax(U)
  <2>1. PICK m \in U : \A s \in U : f[s] <= f[m]
    BY <1>11
  <2>2. f[m] \in Nat /\ \A s \in U : f[s] \in Nat
    BY <1>6, <2>1
  <2>3. T = U \cup {x}
    BY <1>5
  <2>4. CASE f[x] <= f[m]
    BY <2>1, <2>3, <2>4, <1>4
  <2>5. CASE f[m] < f[x]
    <3>1. \A s \in U : f[s] <= f[x]
      BY <2>1, <2>2, <2>5, <1>9
    <3> QED BY <3>1, <2>3, <1>4, <1>9
  <2> QED BY <2>2, <2>4, <2>5, <1>9
<1> QED BY <1>8, <1>10, <1>11

-----------------------------------------------------------------------------

\* SELECT ... ORDER BY "id" FOR UPDATE: of the sessions that are locking their
\* accounts one waits for none of the others.
LEMMA LocksInOrder ==
    ASSUME IndInv, IsFiniteSet(Sessions),
           NEW S \in SUBSET Sessions, S # {}, \A s \in S : pc[s] = "lock"
    PROVE  \E s \in S : \A t \in S : NextToLock(s) \cap tx[t].accounts = {}
<1>1. CASE \E s \in S : NextToLock(s) = {}
  BY <1>1
<1>2. CASE \A s \in S : NextToLock(s) # {}
  <2> DEFINE next == [s \in S |-> CHOOSE a \in NextToLock(s) : TRUE]
  <2>1. \A s \in S : next[s] \in NextToLock(s)
    BY <1>2
  <2>2. \A s \in S : Found(s) \subseteq Nat
    BY AccountsAssumption DEF Found, PostedBy, Posted
  <2>3. \A s \in S : next[s] \in Nat /\ next[s] \in Found(s) \ tx[s].accounts
    BY <2>1, <2>2 DEF NextToLock
  <2>4. \A s \in S : \A a \in NextToLock(s) : a = next[s]
    <3> SUFFICES ASSUME NEW s \in S, NEW a \in NextToLock(s) PROVE a = next[s]
      OBVIOUS
    <3> HIDE DEF next
    <3>1. a <= next[s] /\ next[s] <= a /\ a \in Nat /\ next[s] \in Nat
      BY <2>1, <2>2, <2>3 DEF NextToLock
    <3> QED BY <3>1
  <2> HIDE DEF next
  <2>5. IsFiniteSet(S)
    BY FS_Subset
  <2>6. PICK m \in S : \A s \in S : next[s] <= next[m]
    BY <2>3, <2>5, FiniteMax
  <2>7. ASSUME NEW t \in S, NEW a \in NextToLock(m) \cap tx[t].accounts PROVE FALSE
    <3>1. a = next[m] /\ a \in tx[t].accounts
      BY <2>4, <2>7
    <3>2. a < next[t]
      BY <2>3, <3>1 DEF IndInv, PostConsistent
    <3> QED BY <2>3, <2>6, <3>1, <3>2
  <2> QED BY <2>7
<1> QED BY <1>1, <1>2

\* A wallet row is locked only by who holds the row of its account.
WalletsUnderAccounts == \A t \in Sessions : tx[t].wallets \subseteq tx[t].accounts

\* An update of a balance and the second lock of close wait for nobody: the
\* wallet row they take is nobody else's, since the account row is theirs.
LEMMA WaitsOnlyEarly ==
    ASSUME IndInv, WalletsUnderAccounts, NEW s \in Sessions, NEW t \in Sessions \ {s}, Waits(s, t)
    PROVE  /\ pc[s] \in {"lock", "insert", "closeAccount"}
           /\ pc[s] = "insert" => Inserted(t)
           /\ pc[s] # "insert" => tx[t].accounts # {}
<1>1. tx[s].accounts \cap tx[t].accounts = {}
  BY DEF IndInv, LocksExclusive
<1>2. tx[t].wallets \subseteq tx[t].accounts
  BY DEF WalletsUnderAccounts
<1>3. pc[s] = "update" => (PostedBy(s) \ tx[s].written) \cap tx[t].wallets = {}
  BY <1>1, <1>2 DEF IndInv, PostConsistent
<1>4. pc[s] = "closeWallet" => Target(s) \notin tx[t].wallets
  BY <1>1, <1>2 DEF IndInv, WalletCallConsistent
<1> QED BY <1>3, <1>4 DEF Waits, ReferenceHolders

\* Among sessions that all wait for a lock of the ledger, one waits for none
\* of the others.
LEMMA NoLedgerCircle ==
    ASSUME IndInv, WalletsUnderAccounts, IsFiniteSet(Sessions),
           NEW S \in SUBSET Sessions, S # {},
           \A s \in S : pc[s] \in {"lock", "insert", "closeAccount"}
    PROVE  \E s \in S : \A t \in S \ {s} : ~Waits(s, t)
<1> DEFINE L == {s \in S : pc[s] = "lock"}
<1>1. CASE \E s \in S : pc[s] = "insert"
  <2>1. \A t \in S : ~Inserted(t)
    BY DEF Inserted
  <2> QED BY <1>1, <2>1, WaitsOnlyEarly
<1>2. CASE (\A s \in S : pc[s] # "insert") /\ L # {}
  <2>1. PICK s \in L : \A t \in L : NextToLock(s) \cap tx[t].accounts = {}
    <3> L \in SUBSET Sessions /\ \A u \in L : pc[u] = "lock"
      OBVIOUS
    <3> HIDE DEF L
    <3> QED BY <1>2, LocksInOrder
  <2>2. \A t \in S \ L : tx[t].accounts = {}
    BY <1>2 DEF IndInv, WalletCallConsistent
  <2>3. \A t \in S : NextToLock(s) \cap tx[t].accounts = {}
    BY <2>1, <2>2
  <2>4. s \in S /\ pc[s] = "lock"
    BY <2>1
  <2> QED BY <2>3, <2>4 DEF Waits
<1>3. CASE \A s \in S : pc[s] = "closeAccount"
  <2>1. \A t \in S : tx[t].accounts = {}
    BY <1>3 DEF IndInv, WalletCallConsistent
  <2>2. \A s \in S : \A t \in S \ {s} : ~Waits(s, t)
    BY <1>3, <2>1, WaitsOnlyEarly
  <2> QED BY <2>2
<1> QED BY <1>1, <1>2, <1>3

\* Posts over any accounts and closes of any wallets never wait for each other
\* in a circle, however many sessions there are.
THEOREM LedgerNeverDeadlocks ==
    ASSUME IsFiniteSet(Sessions)
    PROVE  Spec => []NoDeadlock
<1>1. ASSUME IndInv, TypeOK PROVE NoDeadlock
  <2> SUFFICES ASSUME NEW S \in (SUBSET Sessions) \ {{}}
               PROVE  \E s \in S : \A t \in S \ {s} : ~Waits(s, t)
    BY DEF NoDeadlock
  <2>0. S \in SUBSET Sessions /\ S # {}
    OBVIOUS
  <2>1. WalletsUnderAccounts
    <3> SUFFICES ASSUME NEW t \in Sessions PROVE tx[t].wallets \subseteq tx[t].accounts
      BY DEF WalletsUnderAccounts
    <3>1. pc[t] \in Labels /\ PostConsistent(t) /\ WalletCallConsistent(t) /\ (pc[t] = "idle" => tx[t] = NoTx)
      BY <1>1 DEF TypeOK, IndInv
    <3> QED BY <3>1 DEF Labels, PostConsistent, WalletCallConsistent, Inserted, NoTx, Creating
  <2>2. CASE \A s \in S : pc[s] \in {"lock", "insert", "closeAccount"}
    BY <1>1, <2>0, <2>1, <2>2, NoLedgerCircle
  <2>3. CASE \E s \in S : pc[s] \notin {"lock", "insert", "closeAccount"}
    BY <1>1, <2>0, <2>1, <2>3, WaitsOnlyEarly
  <2> QED BY <2>2, <2>3
<1>2. IndInv /\ TypeOK => NoDeadlock
  BY <1>1
<1> QED BY <1>2, Inductive, TypeCorrect, PTL
==============================================================================
