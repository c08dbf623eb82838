\* A Batch of two rows, each run at most twice.
CONSTANTS
    None = None
    NRows = 2
    MaxAttempts = 2
    MaxInbox = 1
    Budgets <- MCBudgets
SPECIFICATION FairViewSpec
INVARIANTS RowsTrue
PROPERTIES StaysCurrent
CHECK_DEADLOCK FALSE
