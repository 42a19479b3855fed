SPECIFICATION PFairSpec
CONSTANTS
    Meetings = {m1}
    Tokens = {t1}
    Intents = {default, full}
    DefaultIntent = default
    Selections = {legacy}
    MaxRetries = 1
    Reconciling = TRUE
    MaxCancels = 2
    MaxCrashes = 1
    MaxFaults = 1
    default = default
    full = full
    legacy = legacy
    m1 = m1
    t1 = t1
INVARIANTS PTypeOK RowsOwned CompletedMeansFinished
PROPERTIES InterruptionKeepsRequest CancelSettles RunEnds
CHECK_DEADLOCK FALSE
