SPECIFICATION Spec
CONSTANTS
    Sessions = {s1, s2, s3}
    Accounts <- CircleAccounts
    Wallets = {}
    Currencies = {"USD"}
    Users = {"alice", "bob"}
    CurrencyOf <- CircleCurrencyOf
    OwnerOf <- NoColumn
    ClearingOf <- MCClearingOf
    MinMinor <- MCMinMinor
    MaxMinor = 2
    MaxPostings = 3
    Migrated = {}
    Opening <- NoColumn
    References <- MCReferences
    Inputs <- CircleInputs
INVARIANTS
    BooksReconcile
    NoDeadlock
SYMMETRY SessionSymmetry
