SPECIFICATION WebhookSpec
CONSTANTS
    Subscriptions = {w1}
    Events = {e1}
    Dispatchers = {d1, d2}
    Consumers = {c1, c2}
    MaxAttempts = 2
INVARIANTS
    WebhookTypeOK
    AttemptsAgree
    ResultsAreGenuine
    OneRequestPerAttempt
PROPERTY
    TerminalIsFinal
SYMMETRY WebhookSymmetry
CHECK_DEADLOCK FALSE
