SPECIFICATION Spec
CONSTANTS
    u1 = u1  s1 = s1  s2 = s2  t1 = t1  t2 = t2  t3 = t3
    NoUser = NoUser  NoSession = NoSession  NoEnv = NoEnv  NoToken = NoToken
    Users <- MCUsers
    Envs <- OneEnv
    Home <- HomeLive
    SessionIds <- OneSession
    TokenIds <- MCTokenIds
    Policies <- ShortPolicy
    TrustDurations <- Trust
    OidcTTLs = {1}
    ActivityThrottle = 0
    MaxBumps = 0
    MaxOwed = 2
    MaxTime = 2
PROPERTIES ImplementsLease ExpiredRowsAreSwept
CHECK_DEADLOCK FALSE
