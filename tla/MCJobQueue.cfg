SPECIFICATION Spec
CONSTANTS
    Meetings = {m1}
    Tokens = {t1, t2}
    Intents = {default, full}
    DefaultIntent = default
    Selections = {legacy, local}
    MaxRetries = 1
    default = default
    full = full
    legacy = legacy
    local = local
    m1 = m1
    t1 = t1
    t2 = t2
SYMMETRY TokenSymmetry
INVARIANTS TypeOK ClaimCoherence ClaimsRemember
PROPERTIES ClaimLifecycle HoldKeepsIntent ClaimsAreLeases
