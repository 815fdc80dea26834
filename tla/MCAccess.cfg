SPECIFICATION AccessSpec
CONSTANTS
    Requests = {r1, r2}
    Inputs <- MCInputs
    Clients = {"c1", "c2"}
    Canonical <- MCCanonical
    Ids = {1, 2}
    Limit = 2
INVARIANTS
    OneAccountWithItsWallet
    TokensAreOwned
    LimitHolds
PROPERTY
    BlockedIsReadmitted
