SPECIFICATION ServicesSpec
CONSTANTS
    Meetings = {m1, m2}
    Tokens = {t1, t2, t3}
    Intents = {default, full}
    DefaultIntent = default
    Full = full
    Selections = {legacy}
    MaxRetries = 0
    StagedMeetings = {m1, m2}
    Sessions = {s1, s2}
    Session = s1
    MaxAttempts = 2
    MaxBulkCancels = 1
    MaxBulkTroubles = 1
    Tests = {t1, t2}
    Transcribed = {t1}
    Source = m1
    MaxABTroubles = 2
    Requests = {r1, r2}
    Listed = {m1, m2}
    Posts = {p1, p2}
    PostsOf <- PostsOfOne
    Moving = {m1}
    MaxBatchStops = 1
    Titled = {m1}
    MaxRowChanges = 1
    MaxTitleStops = 1
    MaxPipelineTroubles = 2
    RetryMax = 2
    MaxUtteranceEdits = 1
    MaxIndexTroubles = 1
    Users = {u1, u2}
    MaxModelLoads = 2
    SpeechModelIds = {sm1, sm2}
    MaxDownloads = 2
    Tabs = {tab1, tab2}
    MaxRequests = 2
    Terms = {a, b}
    MaxSettingChanges = 3
    MaxSettingFaults = 2
    WikiMeetings = {w1}
    Pipeline = pipeline
    Fills = {f1}
    MaxCompilations = 2
    MaxWikiFaults = 1
    AudioNames = {wav, flac, mp3}
    Wav = wav
    Flac = flac
    MaxReplacements = 1
    MaxMaintenance = 2
    Questions = {q1}
    Streamed = q3
    QueueSize = 1
    AnswerLength = 2
    HistoryPairs = 2
    MaxEdits = 1
    ChunkCount = 2
    MaxCloudRuns = 2
    MaxCloudFaults = 2
    MaxRecordings = 2
    FileWriters = {1, 2}
    MaxFileFaults = 1
    MinDuration = 2
    MinMean = 1
    default = default
    full = full
    legacy = legacy
    m1 = m1
    m2 = m2
    t1 = t1
    t2 = t2
    t3 = t3
    s1 = s1
    s2 = s2
    r1 = r1
    r2 = r2
    p1 = p1
    p2 = p2
    u1 = u1
    u2 = u2
    sm1 = sm1
    sm2 = sm2
    tab1 = tab1
    tab2 = tab2
    a = a
    b = b
    w1 = w1
    f1 = f1
    pipeline = pipeline
    wav = wav
    flac = flac
    mp3 = mp3
    q1 = q1
    q3 = q3
INVARIANTS MeetingsComeBack RequestsAreKept ArtifactsAreTrue AnswersAreCurrent ModelsAreSafe StoresStayWhole SoundIsHandled
PROPERTIES TitlesRespectUsers StagesAreEarned
CHECK_DEADLOCK FALSE
