SPECIFICATION FairOutboxSpec
CONSTANTS
    Events = {1}
    Workers = {w1, w2}
    Consumers = {c1, c2}
    BatchSize = 1
    MaxAttempts = 2
    MaxStalls = 1
INVARIANTS
    OutboxInv
    PublishedIsHandedOver
PROPERTIES
    PublishedIsFinal
    EveryEventPublished
    EveryEventSettles
    PublishedComesToRest
CHECK_DEADLOCK FALSE
