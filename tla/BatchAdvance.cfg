\* Two rows, two users at once, the listener and the minute loop.
SPECIFICATION Spec
CONSTANTS
    NRows = 2
    MaxAttempts = 2
    Users = {u1, u2}
    Operations = {"rerun", "end", "cancel", "delete"}
    MaxAsks = 2
    MaxCrashes = 0
    None = None
SYMMETRY Symmetry
INVARIANTS OneOpenRun RowFollowsLatest
CHECK_DEADLOCK FALSE
