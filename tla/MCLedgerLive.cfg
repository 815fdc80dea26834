SPECIFICATION FairSpec
CONSTANTS
    Sessions = {s1, s2}
    Accounts <- CircleAccounts
    Wallets <- PairWallets
    Currencies = {"USD"}
    Users = {"alice", "bob"}
    CurrencyOf <- CircleCurrencyOf
    OwnerOf <- PairOwnerOf
    ClearingOf <- MCClearingOf
    MinMinor <- MCMinMinor
    MaxMinor = 2
    MaxPostings = 3
    Migrated <- PairWallets
    Opening <- PairOpening
    References <- MCReferences
    Inputs <- PairInputs
PROPERTY
    EveryCallEnds
