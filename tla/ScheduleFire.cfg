\* Two cron expressions, one request at a time, ticks that come late.
SPECIFICATION FairSpec
CONSTANTS
    MaxTime = 6
    Crons = {{1, 2, 3, 4, 5, 6}, {2, 4, 6}}
    GRACE_WINDOW = 1
    OCCURRENCE_PRUNE_DEPTH = 2
    Users = {u1}
    Operations = {"on", "off", "values", "run_now", "delete"}
    MaxAsks = 3
    None = None
INVARIANTS OneOutcome Accounted
PROPERTIES DueHandled NeverCaughtUp
CHECK_DEADLOCK FALSE
