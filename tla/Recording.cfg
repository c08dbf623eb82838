\* A recording with up to two events in the tab and two handlers at work at once,
\* and one lost answer, kill of the service worker or lapse of the token.
CONSTANTS
    None = None
    MaxEvents = 2
    MaxInputs = 5
    MaxBusy = 2
    MaxTroubles = 1
SPECIFICATION FairSpec
PROPERTIES FinalIsFinal LeavesSaved BufferGoesForward TokenHeals
CHECK_DEADLOCK FALSE
