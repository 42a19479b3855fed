SPECIFICATION IngestSpec
CONSTANTS
    Meetings = {m1}
    Tokens = {t1, t2}
    Intents = {default}
    DefaultIntent = default
    Selections = {legacy}
    MaxRetries = 0
    Self = m1
    MaxWrites = 2
    MaxScans = 1
    MaxRequests = 1
    MaxMoveFaults = 1
    Callers = {user, zoom}
    Zoom = zoom
    MaxRecordings = 2
    MaxDisturbances = 1
    Uploaders = {u1, u2}
    MaxChunks = 2
    MaxForeign = 2
    default = default
    legacy = legacy
    m1 = m1
    t1 = t1
    t2 = t2
    user = user
    zoom = zoom
    u1 = u1
    u2 = u2
INVARIANTS NoOrphanRecorder ZoomRecordingStops
PROPERTIES AdmittedIsFinished OnlyBadMediaLeaves ChangeIsExamined RejectionSettles RecordingEnds UploadsTakeNothing
CHECK_DEADLOCK FALSE
