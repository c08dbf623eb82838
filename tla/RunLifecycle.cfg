\* One Run with a plain and a checked takeover Step, two Workers, a session that
\* may walk away, the minute loop and a crash.
CONSTANTS
    None = None
    Workers = {w1, w2}
    Sessions = {s1}
    Runs = {r1}
    NSteps = 2
    TakeoverSteps = {1}
    CheckedSteps = {1}
    MaxCopies = 1
    MaxAsks = 2
    MaxCrashes = 1
SPECIFICATION FairSpec
INVARIANTS TypeOK ExecutorInv OneExecutor VerdictMatchesResults
PROPERTIES KeepsPromise EveryRunEnds WorkerLetsGo
