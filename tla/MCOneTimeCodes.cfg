SPECIFICATION CodeSpec
CONSTANTS
    Verifiers = {v1, v2, v3}
    MaxAttempts = 2
    TTL = 1
    MaxAge = 2
    MaxWrong = 6
SYMMETRY Symmetry
INVARIANTS
    GuessesBounded
    LockedForGood
CHECK_DEADLOCK FALSE
