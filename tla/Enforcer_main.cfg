SPECIFICATION FairSpec
CONSTANTS
    Enforcers = {e1, e2, e3}
    Lists = {l1, l2}
    Null = Null
    Expiries <- MCExpiries
    MaxMessages = 3
CHECK_DEADLOCK FALSE
INVARIANT EnforcersAccounted
INVARIANT RefreshBeforeExpiry
PROPERTY OrphansEnd
