----------------------------- MODULE MCTransfers -----------------------------
(***************************************************************************)
(* Two users, one wallet each, and two sets of calls: payments that alice  *)
(* reverses, and payments that cross each other.                           *)
(***************************************************************************)
EXTENDS Transfers, TLC

\* Sessions are interchangeable: no property tells them apart.
SessionSymmetry == Permutations(Sessions)

MCAccounts == {1, 2, 3}
MCWallets == {2, 3}
MCCurrencyOf == [a \in MCAccounts |-> "USD"]
MCOwnerOf == [w \in MCWallets |-> IF w = 2 THEN "alice" ELSE "bob"]
MCClearingOf == [c \in {"USD"} |-> 1]
MCMinMinor == -3
MCOpening == [w \in MCWallets |-> IF w = 2 THEN 1 ELSE 0]
MCIds == 1..3
MCReferences == {TransferScope, ReversalScope} \X MCIds
MCBeneficiaries == {9}
MCBeneficiaryOwner == [b \in MCBeneficiaries |-> "alice"]
MCBeneficiaryWallet == [b \in MCBeneficiaries |-> 3]

Pay(user, key, from, to, amount) ==
    [scope |-> TransferScope, user |-> user, key |-> key, source |-> from,
     destination |-> to, beneficiary |-> Absent, amount |-> amount, transfer |-> Absent]

PayBeneficiary(user, key, from, b, amount) ==
    [Pay(user, key, from, Absent, amount) EXCEPT !.beneficiary = b]

Undo(user, key, id) ==
    [scope |-> ReversalScope, user |-> user, key |-> key, source |-> Absent,
     destination |-> Absent, beneficiary |-> Absent, amount |-> 0, transfer |-> id]

\* One key used for two requests, and two keys that reverse one transfer.
ReversalCalls ==
    {Pay("alice", "k1", 2, 3, 1), Pay("alice", "k1", 2, 3, 2),
     Undo("alice", "r1", 1), Undo("alice", "r2", 1)}

\* Alice pays a beneficiary she saves and removes; bob, who has nothing until
\* then, pays her back under the same key text.
TransferCalls ==
    {PayBeneficiary("alice", "k1", 2, 9, 1), Pay("bob", "k1", 3, 2, 1)}
==============================================================================
