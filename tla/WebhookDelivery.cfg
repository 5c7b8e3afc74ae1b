SPECIFICATION Spec
CONSTANTS
    Webhooks = {w1}
    Events = {e1, e2}
    Batches = {b1, b2}
    MaxAttempts = 3
    FailureLimit = 4
    BatchLimit = 2
    MaxRetries = 1
    NoEvent = NoEvent
INVARIANTS
    HeldByOne
    AbandonedWasTried
PROPERTIES
    SentAtLeastOnce
    DeliveredIsFinal
    WaitingIsClaimed
CHECK_DEADLOCK FALSE
