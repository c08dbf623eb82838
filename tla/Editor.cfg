SPECIFICATION FairSpec
CONSTANTS
    None = None
    Text = Text
    StepIds = {"s1", "s2", "s3"}
    Names = {"a", "b"}
    Kinds = {"css", "role"}
    Vault = {"v"}
    Typed <- MCTyped
    MaxValue = 3
    MaxCandidates = 2
    MaxFields = 2
    Start <- MCStart
    Recorded <- MCRecorded
    Foreign <- MCForeign
    Budgets <- MCBudgets
INVARIANTS DocumentsFit
PROPERTIES ReferencesKept  OwnWritesLand
CHECK_DEADLOCK FALSE
