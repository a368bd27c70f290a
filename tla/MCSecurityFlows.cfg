SPECIFICATION Spec
CONSTANTS
    Flows = {f1, f2, f3}
    Incidents = {i1}
    Cases = {c1}
    Links = {k1, k2, k3}
    Sessions = {s1, s2}
    Contacts = {home, other}
    Identifiers = {home}
    Totps = {totp}
    Keys = {key}
    Codes = {code}
    Passkeys = {pass}
    None = None
    MaxTime = 1
    Scenarios <- MCScenarios
INVARIANTS
    OneRecoveryPerCase
    ProofBuysOneSession
    NoSessionWhileCleared
    FactorStillRequired
PROPERTIES
    RecoveriesDoNotCross
    RestoresEarlierContact
CHECK_DEADLOCK FALSE
