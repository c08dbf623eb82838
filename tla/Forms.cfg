\* Three Versions of a Workflow, up to three rows, one Schedule.
CONSTANTS
    None = None
    NoRecurrence = NoRecurrence
    Norm <- MCNorm
    Near <- MCNear
    Versions <- MCVersions
    Typed = {"", " ", "b"}
    Budgets <- MCBudgets
    Files <- MCFiles
    Tables <- MCTables
    PastRows <- MCPast
    MaxRows = 3
    MaxStarts = 2
    MAX_BATCH_ROWS = 2
    Schedules <- MCSchedules
    Crons <- MCCrons
    Times <- MCTimes
    Zones = {"zone1", "zone2"}
    BrowserZone = "zone3"
    DefaultZone = "zone1"
    LastRuns <- MCRuns
    Users = {"a", "b", "c"}
    OrgOrder <- MCOrgs
    FirstRoles <- MCRoles
    FirstUsers = {"a", "b"}
    FirstInvites <- MCInvites
    FirstSessions = {None, "a", "b"}
    MaxInvites = 2
    MaxAsks = 2
    SignupModes = {"open", "invite_only"}
    ATTEMPT_CAP = 1
    ISSUANCE_LIMIT = 2
SPECIFICATION FairSpec
INVARIANTS BatchAsShown SentenceSays OneOwner OwnData
PROPERTIES ValuesAsGiven ScreensCatchUp
CHECK_DEADLOCK FALSE
