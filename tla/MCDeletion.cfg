SPECIFICATION DSpec
CONSTANTS
    Meetings = {m1, m2}
    Tokens = {t1, t2}
    Intents = {default}
    DefaultIntent = default
    Selections = {legacy}
    MaxRetries = 0
    WithAudio = {m1}
    ServeBeforeRecovery = FALSE
    MaxCrashes = 2
    MaxFaults = 2
    default = default
    legacy = legacy
    m1 = m1
    m2 = m2
    t1 = t1
    t2 = t2
SYMMETRY TokenSymmetry
INVARIANTS DTypeOK SourceInPlace AudioNeverLost DeletionComplete CompletedIsSearchable RecoveryResolves
PROPERTIES CommitRollsForward
CHECK_DEADLOCK FALSE
