SPECIFICATION Spec
CONSTANTS
    Requests = {r1, r2}
    Challenges = {c1, c2}
    NoChallenge = NoChallenge
    Fake = Fake
    Sessions = {s1, s2, s3}
    NoSession = NoSession
    Plans <- AllPlans
    MaxAttempts = 1
    FlowTTL = 1
    ChallengeTTL = 1
    Cooloff = 1
    MaxTime = 1
SYMMETRY Symmetry
INVARIANTS
    ConsentsBeforeSession
    RecoveryLeavesOneSession
    SecondFactorKept
    EmailStepVerifiable
    SessionOnce
PROPERTIES
    ReturnedLive
CHECK_DEADLOCK FALSE
