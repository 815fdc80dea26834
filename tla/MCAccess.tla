------------------------------ MODULE MCAccess ------------------------------
(***************************************************************************)
(* Two people who want one email, one of whom types it in capitals.        *)
(***************************************************************************)
EXTENDS Access

MCCanonical == [e \in {"Ann@x", "ann@x"} |-> "ann@x"]

Input(kind, client, email, password, currency) ==
    [kind |-> kind, client |-> client, email |-> email, password |-> password,
     currency |-> currency]

MCInputs ==
    {Input("register", "c1", "ann@x", "p1", ""), Input("register", "c2", "Ann@x", "p2", "NGN"),
     Input("login", "c1", "Ann@x", "p1", ""), Input("login", "c2", "ann@x", "p2", "")}
==============================================================================
