\* One Run of two Steps, the second a checked takeover Step; another session may ask.
CONSTANTS
    None = None
    Workers = {w1}
    Sessions = {me, s2}
    Me = me
    NSteps = 2
    TakeoverSteps = {1}
    CheckedSteps = {1}
    ChallengedSteps = {0}
    MaxInbox = 1
    Budgets <- MCBudgets
SPECIFICATION FairSpec
INVARIANTS ShowsTruth
PROPERTIES KeepsListening ControlEnds
CHECK_DEADLOCK FALSE
