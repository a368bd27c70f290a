SPECIFICATION Spec
CONSTANTS
    NHooks = 2
    NEvents = 2
    Relays = {relay}
    Retriers = {retrier}
    Admins = {admin}
    MaxAttempts = 2
    OutboxAttempts = 2
    Batch = 1
    MaxTrouble = 1
    MaxQueued = 1
    Most = 3
    Few = 2
INVARIANTS
    PublishedReachedAll
    NotResent
PROPERTIES
    FailedIsRetried
    OutboxSettles
CHECK_DEADLOCK FALSE
