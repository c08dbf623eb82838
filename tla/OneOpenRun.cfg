\* skip_batch_row beside a cancel of the waiting Run and the minute loop.
SPECIFICATION Spec
CONSTANTS
    NRows = 2
    MaxAttempts = 2
    Users = {u1, u2}
    Operations = {"end", "skip"}
    MaxAsks = 2
    MaxCrashes = 0
    None = None
SYMMETRY Symmetry
INVARIANTS OneOpenRun
CHECK_DEADLOCK FALSE
