SPECIFICATION MeetingFilesSpec
CONSTANTS
    Meetings = {m1}
    Tokens = {t1, t2}
    Intents = {default}
    DefaultIntent = default
    Selections = {legacy}
    MaxRetries = 0
    MaxRedos = 2
    MaxRedoFaults = 2
    MaxRedoStarts = 2
    WithAudio = {m1}
    ServeBeforeRecovery = TRUE
    MaxCrashes = 1
    MaxFaults = 1
    default = default
    legacy = legacy
    m1 = m1
    t1 = t1
    t2 = t2
PROPERTIES   HandlersFinish RecoveryFinishes
CHECK_DEADLOCK FALSE
