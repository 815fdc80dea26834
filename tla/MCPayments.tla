----------------------------- MODULE MCPayments -----------------------------
(***************************************************************************)
(* One wallet in naira, and what its owner and the providers may send.     *)
(***************************************************************************)
EXTENDS Payments, TLC

\* Sessions are interchangeable: no property tells them apart.
SessionSymmetry == Permutations(Sessions)

MCAccounts == {1, 2}
MCWallets == {2}
MCCurrencyOf == [a \in MCAccounts |-> "NGN"]
MCOwnerOf == [w \in MCWallets |-> "alice"]
MCClearingOf == [c \in {"NGN"} |-> 1]
MCMinMinor == -3
MCOpening == [w \in MCWallets |-> 0]
MCReferences == {"payment"} \X {1, 2}

Intent(key, amount) == [user |-> "alice", key |-> key, wallet |-> 2, amount |-> amount]

TwoIntents == {Intent("k1", 1), Intent("k2", 1)}
\* One key for two requests, one of an amount that Paystack cannot be told.
KeyReused == {Intent("k1", 1), Intent("k1", 3)}

Callback(id, p, amount, result) ==
    [provider |-> "MOCK", id |-> <<id>>, payment |-> p, amount |-> amount,
     status |-> result, hash |-> <<id, p, amount, result>>]

\* Two successes of one payment, a contradiction, an event id used for two
\* payments, and an amount that was not intended.
MockCallbacks ==
    {Callback("e1", 1, 1, "SUCCEEDED"), Callback("e2", 1, 1, "SUCCEEDED"),
     Callback("e3", 1, 1, "FAILED"), Callback("e1", 2, 1, "SUCCEEDED"),
     Callback("e4", 2, 2, "SUCCEEDED")}
==============================================================================
