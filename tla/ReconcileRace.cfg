SPECIFICATION PSpec
CONSTANTS
    Meetings = {m1}
    Tokens = {t1}
    Intents = {default, full}
    DefaultIntent = default
    Selections = {legacy}
    MaxRetries = 1
    Reconciling = TRUE
    MaxCancels = 1
    MaxCrashes = 1
    MaxFaults = 0
    default = default
    full = full
    legacy = legacy
    m1 = m1
    t1 = t1
CHECK_DEADLOCK FALSE
PROPERTIES ReconcilesOnlyFailed
