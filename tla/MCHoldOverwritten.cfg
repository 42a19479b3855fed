SPECIFICATION Spec
CONSTANTS
    Meetings = {m1}
    Tokens = {t1}
    Intents = {default, full}
    DefaultIntent = default
    Selections = {legacy}
    MaxRetries = 1
    default = default
    full = full
    legacy = legacy
    m1 = m1
    t1 = t1
PROPERTIES HoldNotOverwritten
