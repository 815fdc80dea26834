SPECIFICATION Spec
CONSTANTS
    Sessions = {s1, s2}
    Accounts <- MCAccounts
    Wallets <- MCWallets
    Currencies = {"USD"}
    Users = {"alice", "bob"}
    CurrencyOf <- MCCurrencyOf
    OwnerOf <- MCOwnerOf
    ClearingOf <- MCClearingOf
    MinMinor <- MCMinMinor
    MaxMinor = 2
    MaxPostings = 3
    Migrated <- MCMigrated
    Opening <- MCOpening
    References <- MCReferences
    Inputs <- MCInputs
INVARIANTS
    TypeOK
    IndInv
    WalletMirrorsAccount
    NeverBroken
    ClosedIsEmpty
    NoDeadlock
PROPERTY
    ImplementsBook
SYMMETRY SessionSymmetry
