\* One Run with two takeover Steps, one of them checked, two sessions, and
\* hints that are late or lost.
CONSTANTS
    None = None
    Workers = {w1}
    Sessions = {s1, s2}
    NSteps = 2
    TakeoverSteps = {0, 1}
    CheckedSteps = {1}
    MaxAsks = 3
SPECIFICATION FairSpec
INVARIANTS TimelineIsTrue RowFollowsExecutor
PROPERTIES RowIsHeard
CHECK_DEADLOCK FALSE
