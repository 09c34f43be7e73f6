SPECIFICATION MCSpec
CONSTANTS
    i1 = i1
    i2 = i2
    c1 = c1
    c2 = c2
    Images = {i1, i2}
    Cves = {c1, c2}
    Priority = {i1, i2}
    Fixable = {c1}
    Dated = {c1, c2}
    MaxAge = 3
    MaxRebuilds = 1
    Tier <- MCTier
    Severity <- MCSeverity
    Acknowledge <- MCAcknowledge
    Fix <- MCFix
INVARIANTS OverdueIsReported
PROPERTIES RegisterAccountsForAll
CHECK_DEADLOCK FALSE
