CONSTANTS
    None = None
    Origins = {"a", "b"}
    Home = "a"
    Addresses <- MCAddresses
    Version <- MCVersion
    Minimum <- MCMinimum
    MaxClicks = 2
    Budgets <- MCBudgets
    Elements <- MCElements
    Declared <- MCDeclared
    Names = {"", "user", "pass", "pin"}
    Known = {"k1"}
    NewSecret = "k2"
    MaxQueue = 3
SPECIFICATION Spec
INVARIANTS ConnectsAsAsked RecordedAsDone SavedWhole
PROPERTIES ConnectCompletes
CHECK_DEADLOCK FALSE
