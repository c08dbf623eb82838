\* One user with one request, a restart of the API, and lost terminal events.
SPECIFICATION FairSpec
CONSTANTS
    NRows = 2
    MaxAttempts = 2
    Users = {u1}
    Operations = {"rerun", "end", "cancel", "skip"}
    MaxAsks = 1
    MaxCrashes = 1
    None = None
PROPERTIES BatchDrains
CHECK_DEADLOCK FALSE
