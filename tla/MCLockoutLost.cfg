SPECIFICATION Spec
CONSTANTS
    a1 = a1
    a2 = a2
    p1 = p1
    p2 = p2
    c1 = c1
    c2 = c2
    Attempts <- TwoAttempts
    Passwords <- PasswordPair
    NoPassword = NoPassword
    CredIds <- OneCred
    NoCred = NoCred
    MaxFailures = 2
    LockDuration = 2
    MaxTime = 2
    MaxLost = 0
CHECK_DEADLOCK FALSE
PROPERTIES
    LockIsNotLost
