SPECIFICATION PaymentFairSpec
CONSTANTS
    Sessions = {s1, s2}
    Accounts <- MCAccounts
    Wallets <- MCWallets
    Currencies = {"NGN"}
    Users = {"alice"}
    CurrencyOf <- MCCurrencyOf
    OwnerOf <- MCOwnerOf
    ClearingOf <- MCClearingOf
    MinMinor <- MCMinMinor
    MaxMinor = 3
    MaxPostings = 2
    Migrated <- MCWallets
    Opening <- MCOpening
    References <- MCReferences
    Inputs = {}
    Payments = {1}
    Intents <- KeyReused
    Callbacks = {}
    Modes = {"MOCK", "PAYSTACK"}
    OtherAmounts = {2}
    MaxSafe = 2
    MaxTries = 2
INVARIANTS
    PaymentTypeOK
    InitializedOnce
    EverySettlementAccounted
PROPERTY
    PaidIsCredited
