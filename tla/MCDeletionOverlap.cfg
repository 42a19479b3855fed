SPECIFICATION DSpec
CONSTANTS
    Meetings = {m1}
    Tokens = {t1, t2}
    Intents = {default}
    DefaultIntent = default
    Selections = {legacy}
    MaxRetries = 0
    WithAudio = {m1}
    ServeBeforeRecovery = TRUE
    MaxCrashes = 1
    MaxFaults = 0
    default = default
    legacy = legacy
    m1 = m1
    t1 = t1
    t2 = t2
SYMMETRY TokenSymmetry
INVARIANT SourceInPlace
CHECK_DEADLOCK FALSE
