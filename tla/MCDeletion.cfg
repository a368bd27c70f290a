SPECIFICATION Spec
CONSTANTS
    Requests = {r1, r2}
    Workers = {w1, w2}
    Tokens = {t1}
    Passwords = {p1, p2}
    Graces = {1, 2}
    None = None
    MaxTime = 2
    MaxIds = 2
PROPERTIES
    KeepsPromise
    CurrentPasswordDecides
    DueIsFinished
CHECK_DEADLOCK FALSE
