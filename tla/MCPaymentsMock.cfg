SPECIFICATION PaymentSpec
CONSTANTS
    Sessions = {s1, s2}
    Accounts <- MCAccounts
    Wallets <- MCWallets
    Currencies = {"NGN"}
    Users = {"alice"}
    CurrencyOf <- MCCurrencyOf
    OwnerOf <- MCOwnerOf
    ClearingOf <- MCClearingOf
    MinMinor <- MCMinMinor
    MaxMinor = 3
    MaxPostings = 2
    Migrated <- MCWallets
    Opening <- MCOpening
    References <- MCReferences
    Inputs = {}
    Payments = {1, 2}
    Intents <- TwoIntents
    Callbacks <- MockCallbacks
    Modes = {"MOCK"}
    OtherAmounts = {}
    MaxSafe = 2
    MaxTries = 3
INVARIANTS
    EverySettlementAccounted
    AcksAreFinal
    NoPaymentDeadlock
PROPERTY
    ImplementsFunding
SYMMETRY SessionSymmetry
