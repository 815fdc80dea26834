SPECIFICATION WebhookFairSpec
CONSTANTS
    Subscriptions = {w1}
    Events = {e1}
    Dispatchers = {d1}
    Consumers = {c1}
    MaxAttempts = 2
PROPERTY
    EveryDeliverySettles
CHECK_DEADLOCK FALSE
