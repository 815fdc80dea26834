SPECIFICATION TransferSpec
CONSTANTS
    Sessions = {s1, s2}
    Accounts <- MCAccounts
    Wallets <- MCWallets
    Currencies = {"USD"}
    Users = {"alice", "bob"}
    CurrencyOf <- MCCurrencyOf
    OwnerOf <- MCOwnerOf
    ClearingOf <- MCClearingOf
    MinMinor <- MCMinMinor
    MaxMinor = 3
    MaxPostings = 2
    Migrated <- MCWallets
    Opening <- MCOpening
    References <- MCReferences
    Inputs = {}
    Calls <- TransferCalls
    Ids <- MCIds
    Beneficiaries <- MCBeneficiaries
    BeneficiaryOwner <- MCBeneficiaryOwner
    BeneficiaryWallet <- MCBeneficiaryWallet
INVARIANT
    TransferTypeOK
PROPERTY
    ImplementsPromise
SYMMETRY SessionSymmetry
