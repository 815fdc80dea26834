------------------------------ MODULE MCLedger ------------------------------
(***************************************************************************)
(* One currency, a clearing account, alice's wallet with an opening        *)
(* balance, and two ids of which one can become bob's wallet; two sessions *)
(* create, post to overlapping accounts in either direction, and close.    *)
(***************************************************************************)
EXTENDS Ledger, TLC

\* Sessions are interchangeable: no property tells them apart.
SessionSymmetry == Permutations(Sessions)

Ref(i) == <<"ref", i>>

Pay(from, to, amount, i) ==
    [reference |-> Ref(i), currency |-> "USD",
     postings |-> <<[account |-> from, amount |-> -amount],
                    [account |-> to, amount |-> amount]>>]

MCReferences == {Ref(i) : i \in 1..4}
MCAccounts == {1, 2, 3, 4}
MCWallets == {2, 3, 4}
MCMigrated == {2}
MCCurrencyOf == [a \in MCAccounts |-> "USD"]
MCOwnerOf == [w \in MCWallets |-> IF w = 2 THEN "alice" ELSE "bob"]
MCClearingOf == [c \in {"USD"} |-> 1]
MCMinMinor == -2
MCOpening == [w \in MCWallets |-> IF w = 2 THEN 1 ELSE 0]

\* The wallets pay each other, one is funded from outside up to MaxMinor; the
\* last input breaks the rules for postings.
MCInputs ==
    {Pay(2, 3, 1, 1), Pay(3, 2, 1, 2), Pay(1, 2, 1, 3),
     [Pay(2, 3, 1, 4) EXCEPT !.postings[2].amount = 2]}

\* Three ledger accounts that pay each other in a circle.
CircleAccounts == {1, 2, 3}
CircleInputs == {Pay(1, 2, 1, 1), Pay(2, 3, 1, 2), Pay(3, 1, 1, 3)}
CircleCurrencyOf == [a \in CircleAccounts |-> "USD"]
NoColumn == [w \in {} |-> 0]

\* Two wallets with money that pay each other.
PairWallets == {2, 3}
PairInputs == {Pay(2, 3, 1, 1), Pay(3, 2, 1, 2)}
PairOwnerOf == [w \in PairWallets |-> IF w = 2 THEN "alice" ELSE "bob"]
PairOpening == [w \in PairWallets |-> IF w = 2 THEN 1 ELSE 0]
==============================================================================
