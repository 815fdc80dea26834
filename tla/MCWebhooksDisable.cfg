SPECIFICATION WebhookFairSpec
CONSTANTS
    Subscriptions = {w1}
    Events = {e1}
    Dispatchers = {d1}
    Consumers = {c1, c2}
    MaxAttempts = 2
PROPERTY
    NothingStartsOnceDisabled
CHECK_DEADLOCK FALSE
