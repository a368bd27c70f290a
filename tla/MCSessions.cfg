SPECIFICATION CoreSpec
CONSTANTS
    u1 = u1  s1 = s1  s2 = s2  t1 = t1  t2 = t2  t3 = t3
    NoUser = NoUser  NoSession = NoSession  NoEnv = NoEnv  NoToken = NoToken
    Users <- MCUsers
    Envs <- OneEnv
    Home <- HomeLive
    SessionIds <- MCSessionIds
    TokenIds <- MCTokenIds
    Policies <- EditedPolicy
    TrustDurations <- NoTrust
    OidcTTLs = {2}
    ActivityThrottle = 0
    MaxBumps = 1
    MaxOwed = 1
    MaxTime = 3
SYMMETRY Symmetry
INVARIANTS OneActiveToken RevokedSessionHasNoActiveToken AbsoluteDeadline
PROPERTY TimedOutStaysDead
CHECK_DEADLOCK FALSE
