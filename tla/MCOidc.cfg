SPECIFICATION Spec
CONSTANTS
    s1 = s1  s2 = s2  a1 = a1  r1 = r1  r2 = r2  i1 = i1
    c1 = c1  c2 = c2  d1 = d1  t1 = t1  t2 = t2  p1 = p1
    None = None
    Sessions <- MCSessions
    Accounts <- MCAccounts
    Owner <- MCOwner
    Requests <- MCRequests
    Interactions <- MCInteractions
    Codes <- MCCodes
    Devices <- MCDevices
    Tokens <- MCTokens
    Pushed <- MCPushed
    MaxGrants = 1
SYMMETRY Symmetry
INVARIANTS OneTokenPerCode ClaimantDecides PushedOnce
PROPERTIES QuietStaysQuiet
CHECK_DEADLOCK FALSE
