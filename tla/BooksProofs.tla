----------------------------- MODULE BooksProofs -----------------------------
(***************************************************************************)
(* The books balance, for any finite set of accounts: every balance is the *)
(* sum of its postings, and the balances of a currency add up to zero.     *)
(*                                                                         *)
(* The sums are folds over sets that grow, so this needs induction over    *)
(* finite sets.  It is stated here with the set of those subsets that have *)
(* a property in the place of the property, and proved by the choice of a  *)
(* smallest subset that lacks it.                                          *)
(***************************************************************************)
EXTENDS LedgerProofs, FiniteSetTheorems, WellFoundedInduction

-----------------------------------------------------------------------------
(* Induction over the subsets of a finite set *)

\* A family of subsets of a finite set that has every subset whose proper
\* subsets it has is the family of all.
LEMMA SubsetInduction ==
    ASSUME NEW S, IsFiniteSet(S), NEW G,
           \A T \in SUBSET S : (\A U \in SUBSET T : U # T => U \in G) => T \in G
    PROVE  \A T \in SUBSET S : T \in G
<1> DEFINE Bad == {T \in SUBSET S : T \notin G}
<1> SUFFICES ASSUME Bad # {} PROVE FALSE
  OBVIOUS
<1>1. Bad \subseteq FiniteSubsetsOf(S)
  <2>1. \A T \in SUBSET S : IsFiniteSet(T)
    BY FS_Subset
  <2> QED BY <2>1 DEF FiniteSubsetsOf
<1>2. IsWellFoundedOn(StrictSubsetOrdering(S), FiniteSubsetsOf(S))
  BY FS_StrictSubsetOrderingWellFounded
<1>3. PICK T \in Bad : \A U \in Bad : ~(<<U, T>> \in StrictSubsetOrdering(S))
  <2> HIDE DEF Bad
  <2> QED BY <1>1, <1>2, WFMin
<1>4. ASSUME NEW U \in SUBSET T, U # T PROVE U \in G
  <2>1. T \in SUBSET S /\ U \in SUBSET S
    BY <1>3, <1>4
  <2>2. <<U, T>> \in StrictSubsetOrdering(S)
    BY <1>4, <2>1 DEF StrictSubsetOrdering
  <2> QED BY <1>3, <2>1, <2>2
<1> QED BY <1>3, <1>4

-----------------------------------------------------------------------------
(* Sums *)

Pick(s) == CHOOSE x \in s : TRUE

\* g is the table that the fold of a sum over S fills in.
IsFold(g, f, S) ==
    g = [s \in SUBSET S |-> IF s = {} THEN 0 ELSE f[Pick(s)] + g[s \ {Pick(s)}]]

\* What a table says of a set.
LEMMA FoldAt ==
    ASSUME NEW g, NEW f, NEW S, IsFold(g, f, S), NEW s \in SUBSET S
    PROVE  g[s] = IF s = {} THEN 0 ELSE f[Pick(s)] + g[s \ {Pick(s)}]
<1> DEFINE F(h) == [t \in SUBSET S |-> IF t = {} THEN 0 ELSE f[Pick(t)] + h[t \ {Pick(t)}]]
<1>1. g = F(g)
  BY DEF IsFold
<1>2. F(g)[s] = IF s = {} THEN 0 ELSE f[Pick(s)] + g[s \ {Pick(s)}]
  OBVIOUS
<1> HIDE DEF F
<1> QED BY <1>1, <1>2

\* What is picked from a set is in it.
LEMMA PickIn == ASSUME NEW s, s # {} PROVE Pick(s) \in s
BY DEF Pick

\* Two tables agree on a set whose elements have the same values in both.
LEMMA FoldsAgree ==
    ASSUME NEW f, NEW g, NEW S, IsFold(g, f, S), NEW e, NEW h, NEW T, IsFold(h, e, T),
           NEW U, IsFiniteSet(U), U \subseteq S, U \subseteq T, \A x \in U : f[x] = e[x]
    PROVE  g[U] = h[U]
<1> DEFINE G == {V \in SUBSET U : g[V] = h[V]}
<1>1. ASSUME NEW V \in SUBSET U, \A W \in SUBSET V : W # V => W \in G
      PROVE  V \in G
  <2>1. /\ g[V] = IF V = {} THEN 0 ELSE f[Pick(V)] + g[V \ {Pick(V)}]
        /\ h[V] = IF V = {} THEN 0 ELSE e[Pick(V)] + h[V \ {Pick(V)}]
    BY FoldAt
  <2>2. CASE V = {}
    BY <2>1, <2>2
  <2>3. CASE V # {}
    <3>1. Pick(V) \in V
      BY <2>3, PickIn
    <3>2. V \ {Pick(V)} \in G
      BY <1>1, <3>1
    <3> QED BY <2>1, <2>3, <3>1, <3>2
  <2> QED BY <2>2, <2>3
<1>2. \A V \in SUBSET U : V \in G
  <2> HIDE DEF G
  <2> QED BY <1>1, SubsetInduction
<1> QED BY <1>2

\* If there is a table for S then it has the sum.
LEMMA SumIsInFold ==
    ASSUME NEW f, NEW S, \E g : IsFold(g, f, S)
    PROVE  \E g : IsFold(g, f, S) /\ SumFunctionOnSet(f, S) = g[S]
<1> DEFINE I == CHOOSE g : IsFold(g, f, S)
<1>1. IsFold(I, f, S)
  OBVIOUS
<1>2. SumFunctionOnSet(f, S) = I[S]
  BY DEF SumFunctionOnSet, FoldFunctionOnSet, MapThenFoldSet, IsFold, Pick
<1> QED BY <1>1, <1>2

\* A sum whose tables exist is the value of the picked element and the rest.
LEMMA SumFromFold ==
    ASSUME NEW f, NEW S, IsFiniteSet(S), \A T \in SUBSET S : \E g : IsFold(g, f, T)
    PROVE  SumFunctionOnSet(f, S)
             = IF S = {} THEN 0 ELSE f[Pick(S)] + SumFunctionOnSet(f, S \ {Pick(S)})
<1> DEFINE T == S \ {Pick(S)}
<1>1. PICK g : IsFold(g, f, S) /\ SumFunctionOnSet(f, S) = g[S]
  BY SumIsInFold
<1>2. PICK h : IsFold(h, f, T) /\ SumFunctionOnSet(f, T) = h[T]
  <2>1. \E h : IsFold(h, f, T)
    OBVIOUS
  <2> HIDE DEF T
  <2> QED BY <2>1, SumIsInFold
<1>3. g[T] = h[T]
  <2>1. IsFiniteSet(T) /\ T \subseteq S
    BY FS_Subset
  <2> HIDE DEF T
  <2> QED BY <1>1, <1>2, <2>1, FoldsAgree
<1>4. g[S] = IF S = {} THEN 0 ELSE f[Pick(S)] + g[T]
  BY <1>1, FoldAt
<1> QED BY <1>1, <1>2, <1>3, <1>4

\* Every finite set has its table.
LEMMA FoldExists ==
    ASSUME NEW f, NEW S, IsFiniteSet(S)
    PROVE  \A T \in SUBSET S : \E g : IsFold(g, f, T)
<1> DEFINE G == {T \in SUBSET S : \E g : IsFold(g, f, T)}
<1>1. ASSUME NEW T \in SUBSET S, \A U \in SUBSET T : U # T => U \in G
      PROVE  T \in G
  <2> DEFINE g == [s \in SUBSET T |-> IF s = {} THEN 0
                                      ELSE f[Pick(s)] + SumFunctionOnSet(f, s \ {Pick(s)})]
  <2>1. ASSUME NEW s \in SUBSET T, s # {}
        PROVE  SumFunctionOnSet(f, s \ {Pick(s)}) = g[s \ {Pick(s)}]
    <3>1. PICK t \in SUBSET T : t = s \ {Pick(s)} /\ t # T /\ IsFiniteSet(t)
      <4>1. Pick(s) \in s /\ IsFiniteSet(s \ {Pick(s)})
        BY <2>1, PickIn, FS_Subset
      <4> QED BY <4>1
    <3>2. \A U \in SUBSET t : \E h : IsFold(h, f, U)
      BY <1>1, <3>1
    <3>3. SumFunctionOnSet(f, t) = IF t = {} THEN 0 ELSE f[Pick(t)] + SumFunctionOnSet(f, t \ {Pick(t)})
      BY <3>1, <3>2, SumFromFold
    <3> QED BY <3>1, <3>3
  <2>2. g = [s \in SUBSET T |-> IF s = {} THEN 0 ELSE f[Pick(s)] + g[s \ {Pick(s)}]]
    <3> DEFINE k == [s \in SUBSET T |-> IF s = {} THEN 0 ELSE f[Pick(s)] + g[s \ {Pick(s)}]]
    <3>1. \A s \in SUBSET T : g[s] = k[s]
      BY <2>1
    <3>2. DOMAIN g = SUBSET T /\ DOMAIN k = SUBSET T /\ g = [s \in DOMAIN g |-> g[s]] /\ k = [s \in DOMAIN k |-> k[s]]
      OBVIOUS
    <3> QED BY <3>1, <3>2
  <2>3. IsFold(g, f, T)
    BY <2>2 DEF IsFold
  <2> QED BY <2>3
<1>2. \A T \in SUBSET S : T \in G
  <2> HIDE DEF G
  <2> QED BY <1>1, SubsetInduction
<1> QED BY <1>2

\* A sum over a finite set is computed by taking out one element after another.
LEMMA SumPicks ==
    ASSUME NEW f, NEW S, IsFiniteSet(S)
    PROVE  SumFunctionOnSet(f, S)
             = IF S = {} THEN 0 ELSE f[Pick(S)] + SumFunctionOnSet(f, S \ {Pick(S)})
BY FoldExists, SumFromFold

\* The empty sum.
LEMMA SumEmpty == ASSUME NEW f PROVE SumFunctionOnSet(f, {}) = 0
BY SumPicks, FS_EmptySet

\* A sum depends on the values in the set only.
LEMMA SumCong ==
    ASSUME NEW f, NEW e, NEW S, IsFiniteSet(S), \A x \in S : f[x] = e[x]
    PROVE  SumFunctionOnSet(f, S) = SumFunctionOnSet(e, S)
<1>1. PICK g : IsFold(g, f, S) /\ SumFunctionOnSet(f, S) = g[S]
  BY FoldExists, SumIsInFold
<1>2. PICK h : IsFold(h, e, S) /\ SumFunctionOnSet(e, S) = h[S]
  BY FoldExists, SumIsInFold
<1> QED BY <1>1, <1>2, FoldsAgree

\* A sum of integers is an integer.
LEMMA SumInt ==
    ASSUME NEW f, NEW S, IsFiniteSet(S), \A x \in S : f[x] \in Int
    PROVE  SumFunctionOnSet(f, S) \in Int
<1> DEFINE G == {T \in SUBSET S : SumFunctionOnSet(f, T) \in Int}
<1>1. ASSUME NEW T \in SUBSET S, \A U \in SUBSET T : U # T => U \in G
      PROVE  T \in G
  <2>1. CASE T = {}
    BY <2>1, SumEmpty
  <2>2. CASE T # {}
    <3>1. Pick(T) \in T /\ IsFiniteSet(T)
      BY <2>2, PickIn, FS_Subset
    <3>2. T \ {Pick(T)} \in G
      BY <1>1, <3>1
    <3> QED BY <2>2, <3>1, <3>2, SumPicks
  <2> QED BY <2>1, <2>2
<1>2. \A T \in SUBSET S : T \in G
  <2> HIDE DEF G
  <2> QED BY <1>1, SubsetInduction
<1> QED BY <1>2

\* Any element may be taken out first: the order of a sum does not matter.
LEMMA SumRemove ==
    ASSUME NEW f, NEW S, IsFiniteSet(S), \A x \in S : f[x] \in Int, NEW x \in S
    PROVE  SumFunctionOnSet(f, S) = f[x] + SumFunctionOnSet(f, S \ {x})
<1> DEFINE Sum(T) == SumFunctionOnSet(f, T)
           Any(T) == \A y \in T : Sum(T) = f[y] + Sum(T \ {y})
           G == {T \in SUBSET S : Any(T)}
<1>0. \A T \in SUBSET S : IsFiniteSet(T) /\ Sum(T) \in Int
  BY FS_Subset, SumInt
<1>1. ASSUME NEW T \in SUBSET S, \A U \in SUBSET T : U # T => U \in G
      PROVE  T \in G
  <2>1. ASSUME NEW y \in T PROVE Sum(T) = f[y] + Sum(T \ {y})
    <3>1. PICK c \in T : Sum(T) = f[c] + Sum(T \ {c})
      BY <1>0, <2>1, PickIn, SumPicks
    <3>2. CASE c # y
      <4>1. Sum(T \ {c}) = f[y] + Sum((T \ {c}) \ {y})
        BY <1>1, <3>1, <3>2
      <4>2. Sum(T \ {y}) = f[c] + Sum((T \ {y}) \ {c})
        BY <1>1, <3>1, <3>2
      <4>3. (T \ {c}) \ {y} = (T \ {y}) \ {c} /\ (T \ {c}) \ {y} \in SUBSET S
        OBVIOUS
      <4>4. f[c] \in Int /\ f[y] \in Int /\ Sum((T \ {c}) \ {y}) \in Int
        BY <1>0, <4>3
      <4>5. Sum(T \ {y}) = f[c] + Sum((T \ {c}) \ {y})
        BY <4>2, <4>3
      <4> HIDE DEF Sum
      <4>6. \A m, n, r \in Int : m + (n + r) = n + (m + r)
        OBVIOUS
      <4> QED BY <3>1, <4>1, <4>4, <4>5, <4>6
    <3> QED BY <3>1, <3>2
  <2> QED BY <2>1
<1>2. \A T \in SUBSET S : T \in G
  <2> HIDE DEF G
  <2> QED BY <1>1, SubsetInduction
<1> QED BY <1>2

\* One more element adds its value.
LEMMA SumOneMore ==
    ASSUME NEW f, NEW S, IsFiniteSet(S), NEW x, x \notin S, \A y \in S \cup {x} : f[y] \in Int
    PROVE  SumFunctionOnSet(f, S \cup {x}) = f[x] + SumFunctionOnSet(f, S)
<1>1. IsFiniteSet(S \cup {x}) /\ (S \cup {x}) \ {x} = S
  BY FS_AddElement
<1> QED BY <1>1, SumRemove

\* Sums add up term by term.
LEMMA SumPlus ==
    ASSUME NEW S, IsFiniteSet(S), NEW f, NEW g, NEW h,
           \A x \in S : f[x] \in Int /\ g[x] \in Int /\ h[x] = f[x] + g[x]
    PROVE  SumFunctionOnSet(h, S) = SumFunctionOnSet(f, S) + SumFunctionOnSet(g, S)
<1> DEFINE Adds(T) == SumFunctionOnSet(h, T) = SumFunctionOnSet(f, T) + SumFunctionOnSet(g, T)
           G == {T \in SUBSET S : Adds(T)}
<1>1. ASSUME NEW T \in SUBSET S, \A U \in SUBSET T : U # T => U \in G
      PROVE  T \in G
  <2>1. CASE T = {}
    BY <2>1, SumEmpty
  <2>2. CASE T # {}
    <3>1. PICK c \in T : TRUE
      BY <2>2
    <3>2. PICK U \in SUBSET S : U = T \ {c} /\ IsFiniteSet(T) /\ IsFiniteSet(U)
      <4>1. IsFiniteSet(T) /\ IsFiniteSet(T \ {c}) /\ T \ {c} \in SUBSET S
        BY FS_Subset
      <4> QED BY <4>1
    <3>3. Adds(U)
      BY <1>1, <3>1, <3>2
    <3>4. /\ SumFunctionOnSet(h, T) = h[c] + SumFunctionOnSet(h, U)
          /\ SumFunctionOnSet(f, T) = f[c] + SumFunctionOnSet(f, U)
          /\ SumFunctionOnSet(g, T) = g[c] + SumFunctionOnSet(g, U)
      <4>1. \A x \in T : f[x] \in Int /\ g[x] \in Int /\ h[x] \in Int
        OBVIOUS
      <4> QED BY <3>1, <3>2, <4>1, SumRemove
    <3>5. /\ SumFunctionOnSet(f, U) \in Int /\ SumFunctionOnSet(g, U) \in Int
          /\ f[c] \in Int /\ g[c] \in Int /\ h[c] = f[c] + g[c]
      BY <3>2, SumInt
    <3> QED BY <3>3, <3>4, <3>5
  <2> QED BY <2>1, <2>2
<1>2. \A T \in SUBSET S : T \in G
  <2> HIDE DEF G
  <2> QED BY <1>1, SubsetInduction
<1> QED BY <1>2

\* Elements of value zero do not count.
LEMMA SumSupport ==
    ASSUME NEW S, IsFiniteSet(S), NEW f, NEW R \in SUBSET S,
           \A x \in S : f[x] \in Int, \A x \in S \ R : f[x] = 0
    PROVE  SumFunctionOnSet(f, S) = SumFunctionOnSet(f, R)
<1> DEFINE Same(T) == SumFunctionOnSet(f, T) = SumFunctionOnSet(f, T \cap R)
           G == {T \in SUBSET S : Same(T)}
<1>1. ASSUME NEW T \in SUBSET S, \A U \in SUBSET T : U # T => U \in G
      PROVE  T \in G
  <2>1. CASE T \subseteq R
    <3>1. T \cap R = T
      BY <2>1
    <3> QED BY <3>1
  <2>2. CASE ~(T \subseteq R)
    <3>1. PICK c \in T : c \notin R
      BY <2>2
    <3>2. PICK U \in SUBSET S : /\ U = T \ {c} /\ IsFiniteSet(T) /\ IsFiniteSet(U)
                                /\ U \cap R = T \cap R
      <4>1. IsFiniteSet(T) /\ IsFiniteSet(T \ {c}) /\ T \ {c} \in SUBSET S
        BY FS_Subset
      <4>2. (T \ {c}) \cap R = T \cap R
        BY <3>1
      <4> QED BY <4>1, <4>2
    <3>3. Same(U)
      BY <1>1, <3>1, <3>2
    <3>4. SumFunctionOnSet(f, T) = f[c] + SumFunctionOnSet(f, U)
      BY <3>1, <3>2, SumRemove
    <3>5. f[c] = 0 /\ SumFunctionOnSet(f, U) \in Int
      BY <3>1, <3>2, SumInt
    <3>6. SumFunctionOnSet(f, T) = SumFunctionOnSet(f, U)
      BY <3>4, <3>5
    <3> QED BY <3>2, <3>3, <3>6
  <2> QED BY <2>1, <2>2
<1>2. \A T \in SUBSET S : T \in G
  <2> HIDE DEF G
  <2> QED BY <1>1, SubsetInduction
<1>3. Same(S) /\ S \cap R = R
  BY <1>2
<1> QED BY <1>3

-----------------------------------------------------------------------------
(* The books *)

InCurrency(c) == {a \in Accounts : CurrencyOf[a] = c}

Typed(J) == \A e \in J : e.postings \in [Accounts -> Int]

Balanced(e) == \A c \in Currencies : SumFunctionOnSet(e.postings, InCurrency(c)) = 0

\* BooksReconcile, of any balances and entries.
Reconciled(bal, J) ==
    /\ \A a \in Accounts : bal[a] = SumFunction([e \in J |-> e.postings[a]])
    /\ \A c \in Currencies : SumFunctionOnSet(bal, InCurrency(c)) = 0

\* What validateLedgerTransactionAtCommit accepts sums to zero in each currency.
LEMMA ValidIsBalanced ==
    ASSUME IsFiniteSet(Accounts), NEW e, e.postings \in [Accounts -> Int], ValidAtCommit(e)
    PROVE  Balanced(e)
<1> SUFFICES ASSUME NEW c \in Currencies
             PROVE  SumFunctionOnSet(e.postings, InCurrency(c)) = 0
  BY DEF Balanced
<1>1. /\ InCurrency(c) \in SUBSET Accounts
      /\ \A a \in Accounts : a \in InCurrency(c) <=> CurrencyOf[a] = c
  BY DEF InCurrency
<1>2. /\ \A a \in Accounts : e.postings[a] \in Int
      /\ \A a \in Accounts : CurrencyOf[a] # e.currency => e.postings[a] = 0
  BY DEF ValidAtCommit, Posted
<1>3. CASE c = e.currency
  <2>1. SumFunctionOnSet(e.postings, Accounts) = 0
    BY DEF ValidAtCommit, SumFunction
  <2>2. \A a \in Accounts \ InCurrency(c) : e.postings[a] = 0
    BY <1>1, <1>2, <1>3
  <2> QED BY <1>1, <1>2, <2>1, <2>2, SumSupport
<1>4. CASE c # e.currency
  <2>1. IsFiniteSet(InCurrency(c))
    BY <1>1, FS_Subset
  <2>2. /\ \A a \in InCurrency(c) : e.postings[a] \in Int
        /\ \A a \in InCurrency(c) \ {} : e.postings[a] = 0
    BY <1>1, <1>2, <1>4
  <2>3. SumFunctionOnSet(e.postings, InCurrency(c)) = SumFunctionOnSet(e.postings, {})
    BY <2>1, <2>2, SumSupport
  <2> QED BY <2>3, SumEmpty
<1> QED BY <1>3, <1>4

\* To add a balanced entry to the journal and to the balances keeps the books.
LEMMA EntryReconciles ==
    ASSUME IsFiniteSet(Accounts), NEW J, IsFiniteSet(J), NEW e, e \notin J, Typed(J \cup {e}),
           NEW old, old \in [Accounts -> Int], Reconciled(old, J), Balanced(e),
           NEW new, \A a \in Accounts : new[a] = old[a] + e.postings[a]
    PROVE  Reconciled(new, J \cup {e})
<1>1. ASSUME NEW a \in Accounts
      PROVE  new[a] = SumFunction([d \in J \cup {e} |-> d.postings[a]])
  <2> DEFINE f == [d \in J |-> d.postings[a]]
             g == [d \in J \cup {e} |-> d.postings[a]]
  <2>1. old[a] = SumFunctionOnSet(f, J)
    BY DEF Reconciled, SumFunction
  <2>2. \A d \in J \cup {e} : d.postings[a] \in Int
    BY DEF Typed
  <2>3. /\ SumFunction(g) = SumFunctionOnSet(g, J \cup {e})
        /\ \A d \in J : f[d] = g[d]
        /\ \A d \in J \cup {e} : g[d] \in Int
        /\ g[e] = e.postings[a] /\ g[e] \in Int /\ old[a] \in Int
    BY <2>2 DEF SumFunction
  <2> HIDE DEF f, g
  <2>4. SumFunctionOnSet(f, J) = SumFunctionOnSet(g, J)
    BY <2>3, SumCong
  <2>5. SumFunctionOnSet(g, J \cup {e}) = g[e] + SumFunctionOnSet(g, J)
    BY <2>3, SumOneMore
  <2>6. new[a] = SumFunction(g)
    BY <2>1, <2>3, <2>4, <2>5
  <2> QED BY <2>6 DEF g
<1>2. ASSUME NEW c \in Currencies
      PROVE  SumFunctionOnSet(new, InCurrency(c)) = 0
  <2>1. IsFiniteSet(InCurrency(c)) /\ InCurrency(c) \in SUBSET Accounts
    BY FS_Subset DEF InCurrency
  <2>2. \A a \in InCurrency(c) :
          old[a] \in Int /\ e.postings[a] \in Int /\ new[a] = old[a] + e.postings[a]
    BY <2>1 DEF Typed
  <2>3. SumFunctionOnSet(new, InCurrency(c))
          = SumFunctionOnSet(old, InCurrency(c)) + SumFunctionOnSet(e.postings, InCurrency(c))
    BY <2>1, <2>2, SumPlus
  <2> QED BY <2>3 DEF Reconciled, Balanced
<1> QED BY <1>1, <1>2 DEF Reconciled

\* The books depend on the balances of accounts only.
LEMMA SameBalances ==
    ASSUME IsFiniteSet(Accounts), NEW J, NEW old, NEW new, Reconciled(old, J),
           \A a \in Accounts : new[a] = old[a]
    PROVE  Reconciled(new, J)
<1>1. ASSUME NEW c \in Currencies
      PROVE  SumFunctionOnSet(new, InCurrency(c)) = 0
  <2>1. IsFiniteSet(InCurrency(c)) /\ InCurrency(c) \in SUBSET Accounts
    BY FS_Subset DEF InCurrency
  <2>2. SumFunctionOnSet(new, InCurrency(c)) = SumFunctionOnSet(old, InCurrency(c))
    BY <2>1, SumCong
  <2> QED BY <2>2 DEF Reconciled
<1> QED BY <1>1 DEF Reconciled

-----------------------------------------------------------------------------
(* The opening balances of the migration *)

\* The journal and the balances, had only the wallets in M been migrated.
JournalOf(M) == {OpeningEntry(w) : w \in {v \in M : Opening[v] # 0}}

CountedWith(M, a) == {w \in M : ClearingOf[CurrencyOf[w]] = a}

BalancesOf(M) ==
    [a \in Accounts |-> IF a \in Wallets THEN IF a \in M THEN Opening[a] ELSE 0
                        ELSE -SumFunctionOnSet(Opening, CountedWith(M, a))]

\* The postings of an opening entry: to the wallet and, against it, to the
\* clearing account of its currency.
LEMMA OpeningPostings ==
    ASSUME NEW w \in Migrated
    PROVE  LET o == OpeningEntry(w).postings
               k == ClearingOf[CurrencyOf[w]]
           IN  /\ w \in Accounts /\ k \in Accounts /\ k \notin Wallets
               /\ CurrencyOf[w] \in Currencies /\ CurrencyOf[k] = CurrencyOf[w]
               /\ Opening[w] \in Int
               /\ o \in [Accounts -> Int]
               /\ o[w] = Opening[w] /\ o[k] = -Opening[w]
               /\ \A a \in Accounts \ {w, k} : o[a] = 0
<1> DEFINE k == ClearingOf[CurrencyOf[w]]
<1>1. /\ w \in Wallets /\ w \in Accounts /\ CurrencyOf[w] \in Currencies /\ Opening[w] \in Int
      /\ k \in Accounts /\ k \notin Wallets /\ CurrencyOf[k] = CurrencyOf[w]
  BY AccountsAssumption, ColumnsAssumption, OpeningAssumption
<1>2. OpeningEntry(w).postings = [a \in Accounts |-> CASE a = w -> Opening[w]
                                                       [] a = k -> -Opening[w]
                                                       [] OTHER -> 0]
  BY DEF OpeningEntry
<1> HIDE DEF k
<1>3. PICK o : /\ o = OpeningEntry(w).postings
               /\ o = [a \in Accounts |-> CASE a = w -> Opening[w]
                                            [] a = k -> -Opening[w]
                                            [] OTHER -> 0]
  BY <1>2
<1>4. w # k
  BY <1>1
<1>5. /\ o[w] = Opening[w] /\ o[k] = -Opening[w]
      /\ \A a \in Accounts \ {w, k} : o[a] = 0
  BY <1>1, <1>3, <1>4
<1>6. o \in [Accounts -> Int]
  BY <1>1, <1>3, <1>5
<1> QED BY <1>1, <1>3, <1>5, <1>6 DEF k

\* So it sums to zero in each currency.
LEMMA OpeningIsBalanced ==
    ASSUME IsFiniteSet(Accounts), NEW w \in Migrated
    PROVE  Balanced(OpeningEntry(w))
<1> SUFFICES ASSUME NEW c \in Currencies
             PROVE  SumFunctionOnSet(OpeningEntry(w).postings, InCurrency(c)) = 0
  BY DEF Balanced
<1>1. PICK o, k : /\ o = OpeningEntry(w).postings
                  /\ w \in Wallets /\ w \in Accounts /\ k \in Accounts /\ k \notin Wallets
                  /\ CurrencyOf[k] = CurrencyOf[w]
                  /\ Opening[w] \in Int
                  /\ o \in [Accounts -> Int]
                  /\ o[w] = Opening[w] /\ o[k] = -Opening[w]
                  /\ \A a \in Accounts \ {w, k} : o[a] = 0
  BY OpeningPostings, AccountsAssumption
<1>2. /\ InCurrency(c) \in SUBSET Accounts /\ IsFiniteSet(InCurrency(c))
      /\ \A a \in Accounts : a \in InCurrency(c) <=> CurrencyOf[a] = c
  BY FS_Subset DEF InCurrency
<1>3. \A a \in InCurrency(c) : o[a] \in Int
  BY <1>1, <1>2
<1>4. CASE c = CurrencyOf[w]
  <2>1. {w, k} \in SUBSET InCurrency(c)
    BY <1>1, <1>2, <1>4
  <2>2. SumFunctionOnSet(o, InCurrency(c)) = SumFunctionOnSet(o, {w, k})
    BY <1>1, <1>2, <1>3, <2>1, SumSupport
  <2>3. /\ SumFunctionOnSet(o, {} \cup {w}) = o[w] + SumFunctionOnSet(o, {})
        /\ SumFunctionOnSet(o, {w} \cup {k}) = o[k] + SumFunctionOnSet(o, {w})
    <3>1. IsFiniteSet({}) /\ IsFiniteSet({w}) /\ w \notin {} /\ k \notin {w}
      BY <1>1, FS_EmptySet, FS_Singleton
    <3>2. (\A a \in {} \cup {w} : o[a] \in Int) /\ (\A a \in {w} \cup {k} : o[a] \in Int)
      BY <1>1
    <3> QED BY <3>1, <3>2, SumOneMore
  <2>4. {} \cup {w} = {w} /\ {w} \cup {k} = {w, k} /\ SumFunctionOnSet(o, {}) = 0
    BY SumEmpty
  <2> QED BY <1>1, <2>2, <2>3, <2>4
<1>5. CASE c # CurrencyOf[w]
  <2>1. \A a \in InCurrency(c) \ {} : o[a] = 0
    BY <1>1, <1>2, <1>5
  <2>2. SumFunctionOnSet(o, InCurrency(c)) = SumFunctionOnSet(o, {})
    BY <1>2, <1>3, <2>1, SumSupport
  <2> QED BY <1>1, <2>2, SumEmpty
<1> QED BY <1>4, <1>5

\* The balances with one more wallet are those without it and its entry.
LEMMA OneMoreMigrated ==
    ASSUME IsFiniteSet(Accounts), NEW M \in SUBSET Migrated, NEW w \in M, NEW a \in Accounts
    PROVE  /\ BalancesOf(M)[a] = BalancesOf(M \ {w})[a] + OpeningEntry(w).postings[a]
           /\ BalancesOf(M \ {w})[a] \in Int
<1> DEFINE N == M \ {w}
<1>1. PICK o, k : /\ o = OpeningEntry(w).postings /\ k = ClearingOf[CurrencyOf[w]]
                  /\ w \in Wallets /\ k \notin Wallets
                  /\ Opening[w] \in Int
                  /\ o[w] = Opening[w] /\ o[k] = -Opening[w]
                  /\ \A b \in Accounts \ {w, k} : o[b] = 0
  BY OpeningPostings, AccountsAssumption
<1>2. CASE a \in Wallets
  <2>1. /\ BalancesOf(M)[a] = IF a \in M THEN Opening[a] ELSE 0
        /\ BalancesOf(N)[a] = IF a \in N THEN Opening[a] ELSE 0
        /\ Opening[a] \in Int
    BY <1>2, OpeningAssumption DEF BalancesOf
  <2>2. CASE a = w
    BY <1>1, <2>1, <2>2
  <2>3. CASE a # w
    <3>1. o[a] = 0 /\ (a \in M <=> a \in N)
      BY <1>1, <1>2, <2>3
    <3> QED BY <1>1, <2>1, <3>1
  <2> QED BY <2>2, <2>3
<1>3. CASE a \notin Wallets
  <2> DEFINE S == CountedWith(M, a)
             T == CountedWith(N, a)
  <2>1. /\ BalancesOf(M)[a] = -SumFunctionOnSet(Opening, S)
        /\ BalancesOf(N)[a] = -SumFunctionOnSet(Opening, T)
    BY <1>3 DEF BalancesOf
  <2>2. /\ S \in SUBSET Accounts /\ T \in SUBSET Accounts /\ S \in SUBSET Wallets
        /\ T \in SUBSET Wallets
    BY AccountsAssumption DEF CountedWith
  <2>3. /\ IsFiniteSet(S) /\ IsFiniteSet(T)
        /\ \A v \in S : Opening[v] \in Int
        /\ \A v \in T : Opening[v] \in Int
    BY <2>2, FS_Subset, OpeningAssumption
  <2>4. SumFunctionOnSet(Opening, S) \in Int /\ SumFunctionOnSet(Opening, T) \in Int
    <3> HIDE DEF S, T
    <3> QED BY <2>3, SumInt
  <2>5. CASE a = k
    <3>1. w \in S /\ T = S \ {w}
      BY <1>1, <2>5 DEF CountedWith
    <3>2. SumFunctionOnSet(Opening, S) = Opening[w] + SumFunctionOnSet(Opening, T)
      <4> HIDE DEF S, T
      <4> QED BY <2>3, <3>1, SumRemove
    <3> QED BY <1>1, <2>1, <2>4, <2>5, <3>2
  <2>6. CASE a # k
    <3>1. T = S /\ o[a] = 0
      BY <1>1, <1>3, <2>6 DEF CountedWith
    <3> QED BY <1>1, <2>1, <2>4, <3>1
  <2> QED BY <2>5, <2>6
<1> QED BY <1>2, <1>3

\* The books are right whichever wallets are migrated.
LEMMA MigrationReconciles ==
    ASSUME IsFiniteSet(Accounts)
    PROVE  \A M \in SUBSET Migrated :
             /\ Reconciled(BalancesOf(M), JournalOf(M))
             /\ IsFiniteSet(JournalOf(M))
<1> DEFINE Right(M) == Reconciled(BalancesOf(M), JournalOf(M)) /\ IsFiniteSet(JournalOf(M))
           G == {M \in SUBSET Migrated : Right(M)}
<1>0. IsFiniteSet(Migrated)
  BY FS_Subset, AccountsAssumption
<1>1. ASSUME NEW M \in SUBSET Migrated, \A N \in SUBSET M : N # M => N \in G
      PROVE  M \in G
  <2>1. CASE M = {}
    <3>1. JournalOf(M) = {} /\ \A a \in Accounts : CountedWith(M, a) = {}
      BY <2>1 DEF JournalOf, CountedWith
    <3>2. ASSUME NEW a \in Accounts PROVE BalancesOf(M)[a] = 0
      BY <2>1, <3>1, SumEmpty DEF BalancesOf
    <3>3. ASSUME NEW a \in Accounts PROVE SumFunction([e \in {} |-> e.postings[a]]) = 0
      <4>1. DOMAIN [e \in {} |-> e.postings[a]] = {}
        OBVIOUS
      <4> QED BY <4>1, SumEmpty DEF SumFunction
    <3>4. ASSUME NEW c \in Currencies PROVE SumFunctionOnSet(BalancesOf(M), InCurrency(c)) = 0
      <4>1. IsFiniteSet(InCurrency(c)) /\ InCurrency(c) \in SUBSET Accounts
        BY FS_Subset DEF InCurrency
      <4>2. SumFunctionOnSet(BalancesOf(M), InCurrency(c)) = SumFunctionOnSet(BalancesOf(M), {})
        BY <3>2, <4>1, SumSupport
      <4> QED BY <4>2, SumEmpty
    <3>5. Reconciled(BalancesOf(M), JournalOf(M))
      BY <3>1, <3>2, <3>3, <3>4 DEF Reconciled
    <3> QED BY <3>1, <3>5, FS_EmptySet
  <2>2. CASE M # {}
    <3>1. PICK w \in M : TRUE
      BY <2>2
    <3>2. PICK N \in SUBSET Migrated : N = M \ {w} /\ Right(N)
      <4>1. M \ {w} \in SUBSET Migrated /\ M \ {w} \in G
        BY <1>1, <3>1
      <4>2. Right(M \ {w})
        BY <4>1
      <4> HIDE DEF Right
      <4> QED BY <4>1, <4>2
    <3>3. \A a \in Accounts : /\ BalancesOf(M)[a] = BalancesOf(N)[a] + OpeningEntry(w).postings[a]
                              /\ BalancesOf(N)[a] \in Int
      BY <3>1, <3>2, OneMoreMigrated
    <3>4. CASE Opening[w] = 0
      <4>1. JournalOf(M) = JournalOf(N)
        BY <3>1, <3>2, <3>4 DEF JournalOf
      <4>2. \A a \in Accounts : OpeningEntry(w).postings[a] = 0
        BY <3>1, <3>4, OpeningPostings
      <4>3. \A a \in Accounts : BalancesOf(M)[a] = BalancesOf(N)[a]
        BY <3>3, <4>2
      <4> QED BY <3>2, <4>1, <4>3, SameBalances
    <3>5. CASE Opening[w] # 0
      <4>1. JournalOf(M) = JournalOf(N) \cup {OpeningEntry(w)}
        BY <3>1, <3>2, <3>5 DEF JournalOf
      <4>2. OpeningEntry(w) \notin JournalOf(N)
        <5>1. \A v \in N : OpeningEntry(v).reference = <<"migration:opening", v>>
          BY DEF OpeningEntry
        <5>2. OpeningEntry(w).reference = <<"migration:opening", w>>
          BY DEF OpeningEntry
        <5>3. \A v \in N : OpeningEntry(v) # OpeningEntry(w)
          BY <3>2, <5>1, <5>2
        <5> QED BY <5>3 DEF JournalOf
      <4>3. Typed(JournalOf(N) \cup {OpeningEntry(w)})
        <5>1. \A v \in Migrated : OpeningEntry(v).postings \in [Accounts -> Int]
          BY OpeningPostings
        <5> QED BY <3>1, <5>1 DEF Typed, JournalOf
      <4>4. BalancesOf(N) \in [Accounts -> Int]
        BY <3>3 DEF BalancesOf
      <4>5. Balanced(OpeningEntry(w))
        BY <3>1, OpeningIsBalanced
      <4>6. Reconciled(BalancesOf(M), JournalOf(N) \cup {OpeningEntry(w)})
        <5>1. PICK J, e, old, new :
                /\ J = JournalOf(N) /\ e = OpeningEntry(w)
                /\ old = BalancesOf(N) /\ new = BalancesOf(M)
          OBVIOUS
        <5>2. IsFiniteSet(J) /\ e \notin J /\ Typed(J \cup {e})
          BY <3>2, <4>2, <4>3, <5>1
        <5>3. old \in [Accounts -> Int] /\ Reconciled(old, J) /\ Balanced(e)
          BY <3>2, <4>4, <4>5, <5>1
        <5>4. \A a \in Accounts : new[a] = old[a] + e.postings[a]
          BY <3>3, <5>1
        <5>5. Reconciled(new, J \cup {e})
          BY <5>2, <5>3, <5>4, EntryReconciles
        <5> QED BY <5>1, <5>5
      <4>7. IsFiniteSet(JournalOf(M))
        <5>1. IsFiniteSet(JournalOf(N))
          BY <3>2
        <5>2. IsFiniteSet(JournalOf(N) \cup {OpeningEntry(w)})
          BY <5>1, FS_AddElement
        <5> QED BY <4>1, <5>2
      <4> QED BY <4>1, <4>6, <4>7
    <3> QED BY <3>4, <3>5
  <2> QED BY <2>1, <2>2
<1>2. \A M \in SUBSET Migrated : M \in G
  <2> HIDE DEF G
  <2> QED BY <1>0, <1>1, SubsetInduction
<1> QED BY <1>2

-----------------------------------------------------------------------------
(* The books through every step *)

BooksInv ==
    /\ IsFiniteSet(journal)
    /\ Typed(journal)
    /\ \A w \in Wallets : status[w] = "NONE" => balance[w] = 0
    /\ Reconciled(balance, journal)

\* The books are right when the migration has run.
LEMMA InitBooks == ASSUME IsFiniteSet(Accounts), Init PROVE BooksInv
<1>1. /\ balance = [a \in Accounts |-> OpeningBalance(a)]
      /\ status = [w \in Wallets |-> IF w \in Migrated THEN "ACTIVE" ELSE "NONE"]
      /\ journal = OpeningJournal
  BY DEF Init
<1>2. journal = JournalOf(Migrated)
  BY <1>1 DEF OpeningJournal, JournalOf
<1>3. balance = BalancesOf(Migrated)
  BY <1>1 DEF OpeningBalance, BalancesOf, MigratedWith, CountedWith
<1>4. Reconciled(balance, journal) /\ IsFiniteSet(journal)
  BY <1>2, <1>3, MigrationReconciles
<1>5. Typed(journal)
  <2>1. \A v \in Migrated : OpeningEntry(v).postings \in [Accounts -> Int]
    BY OpeningPostings
  <2> QED BY <1>2, <2>1 DEF Typed, JournalOf
<1>6. ASSUME NEW w \in Wallets, status[w] = "NONE" PROVE balance[w] = 0
  <2>1. w \notin Migrated /\ w \in Accounts
    BY <1>1, <1>6, AccountsAssumption
  <2> QED BY <1>1, <2>1 DEF OpeningBalance
<1> QED BY <1>4, <1>5, <1>6 DEF BooksInv

\* What is added to the journal has integer postings.
LEMMA JournalTyped ==
    ASSUME IndInv, Typed(journal), [Next]_vars
    PROVE  Typed(journal')
<1>1. ASSUME NEW s \in Sessions, CommitPost(s) PROVE Typed(journal')
  <2>1. tx[s].entry.postings \in [Accounts -> Int]
    BY DEF IndInv, StoreOK, Transactions, Entries
  <2>2. journal' = journal \cup {tx[s].entry}
    BY <1>1 DEF CommitPost, PublishEntry
  <2> QED BY <2>1, <2>2 DEF Typed
<1>2. ASSUME NEW s \in Sessions, Call(s) \/ PostStep(s) \/ CloseStep(s) \/ FailPost(s) \/ Abandon(s) \/ CommitCreate(s)
      PROVE  UNCHANGED journal
  BY <1>2 DEF Call, BeginPost, InsertWallet, FindToClose, PostStep, LockAccount, UpdateAccount,
     CheckPostings, InsertEntry, Seal, CloseStep, CloseLockAccount, CloseLockWallet, RefuseClose,
     CommitClose, FailPost, Abandon, CommitCreate, tables
<1>3. ASSUME NEW w \in Wallets, SetFrozen(w) PROVE UNCHANGED journal
  BY <1>3 DEF SetFrozen
<1>4. CASE UNCHANGED vars
  BY <1>4 DEF vars
<1> QED BY <1>1, <1>2, <1>3, <1>4 DEF Next, Step

\* Every step of the book keeps the books.
LEMMA BookStepKeepsBooks ==
    ASSUME IsFiniteSet(Accounts), balance \in [Accounts -> Int], status \in [Wallets -> Statuses],
           BooksInv, Typed(journal'), [Book!Next]_<<balance, status, journal>>
    PROVE  BooksInv'
<1>1. ASSUME NEW e \in journal', Book!Post(e) PROVE BooksInv'
  <2>1. /\ journal' = journal \cup {e} /\ e \notin journal /\ UNCHANGED status
        /\ balance' = [a \in Accounts |-> balance[a] + e.postings[a]]
        /\ \A w \in Wallets : status[w] = "NONE" => w \notin Book!Posted(e)
    BY <1>1 DEF Book!Post
  <2>2. ValidAtCommit(e)
    BY <1>1 DEF Book!Post, Book!ValidAtCommit, ValidAtCommit, Book!Posted, Posted, Book!SumFunction,
       SumFunction, Book!SumFunctionOnSet, SumFunctionOnSet, Book!FoldFunctionOnSet, FoldFunctionOnSet,
       Book!MapThenFoldSet, MapThenFoldSet
  <2>3. e.postings \in [Accounts -> Int]
    BY DEF Typed
  <2>4. Reconciled(balance', journal')
    <3>1. \A a \in Accounts : balance'[a] = balance[a] + e.postings[a]
      BY <2>1
    <3>2. Balanced(e)
      BY <2>2, <2>3, ValidIsBalanced
    <3> QED BY <2>1, <3>1, <3>2, EntryReconciles DEF BooksInv
  <2>5. ASSUME NEW w \in Wallets, status'[w] = "NONE" PROVE balance'[w] = 0
    <3>1. w \in Accounts /\ e.postings[w] = 0 /\ balance[w] = 0
      BY <2>1, <2>5, AccountsAssumption DEF Book!Posted, BooksInv
    <3> QED BY <2>1, <3>1
  <2>6. IsFiniteSet(journal')
    BY <2>1, FS_AddElement DEF BooksInv
  <2> QED BY <2>4, <2>5, <2>6 DEF BooksInv
<1>2. ASSUME NEW w \in Wallets, Book!Create(w) \/ Book!Close(w) \/ Book!SetFrozen(w) PROVE BooksInv'
  <2>1. UNCHANGED journal /\ UNCHANGED balance
    BY <1>2 DEF Book!Create, Book!Close, Book!SetFrozen, Book!Open, BooksInv
  <2>2. \A v \in Wallets : status'[v] = "NONE" => status[v] = "NONE"
    BY <1>2 DEF Book!Create, Book!Close, Book!SetFrozen
  <2> QED BY <2>1, <2>2 DEF BooksInv
<1>3. CASE UNCHANGED <<balance, status, journal>>
  BY <1>3 DEF BooksInv
<1> QED BY <1>1, <1>2, <1>3 DEF Book!Next

\* The services that use the ledger keep the books where they publish a post ...
LEMMA PublishKeepsBooks ==
    ASSUME IsFiniteSet(Accounts), IndInv, BooksInv, NEW s \in Sessions, Ready(s), PublishEntry(s)
    PROVE  BooksInv'
<1>1. balance \in [Accounts -> Int] /\ status \in [Wallets -> Statuses]
  BY DEF IndInv, StoreOK
<1>2. tx[s].entry.postings \in [Accounts -> Int]
  BY DEF IndInv, StoreOK, Transactions, Entries
<1>3. Typed(journal')
  BY <1>2 DEF PublishEntry, Typed, BooksInv
<1>4. Book!Next
  BY PublishIsPost DEF Book!Next
<1> QED BY <1>1, <1>3, <1>4, BookStepKeepsBooks

\* ... and where they leave balances and journal alone.
LEMMA StatusKeepsBooks ==
    ASSUME BooksInv, UNCHANGED <<balance, journal>>,
           \A w \in Wallets : status'[w] = "NONE" => status[w] = "NONE"
    PROVE  BooksInv'
BY DEF BooksInv

\* The ledger audit never finds a difference: every balance is the sum of the
\* postings to its account and the balances of a currency sum to zero, however
\* posts, creates and closes interleave, fail and retry.
THEOREM BooksAlwaysReconcile ==
    ASSUME IsFiniteSet(Accounts)
    PROVE  Spec => []BooksReconcile
<1>1. Init => BooksInv
  BY InitBooks
<1>2. IndInv /\ BooksInv /\ [Next]_vars => BooksInv'
  <2> SUFFICES ASSUME IndInv, BooksInv, [Next]_vars PROVE BooksInv'
    OBVIOUS
  <2>1. balance \in [Accounts -> Int] /\ status \in [Wallets -> Statuses] /\ Typed(journal)
    BY DEF IndInv, StoreOK, BooksInv
  <2>2. Typed(journal') /\ [Book!Next]_<<balance, status, journal>>
    BY <2>1, JournalTyped, StepIsBookStep
  <2> QED BY <2>1, <2>2, BookStepKeepsBooks
<1>3. BooksInv => BooksReconcile
  BY DEF BooksInv, Reconciled, BooksReconcile, InCurrency
<1> QED BY <1>1, <1>2, <1>3, Inductive, PTL DEF Spec
==============================================================================
