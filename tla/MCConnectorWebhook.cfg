SPECIFICATION Spec
CONSTANTS
    m1 = m1
    m2 = m2
    o1 = o1
    NoSecret = NoSecret
    Messages = {m1, m2}
    Appending = {m2}
    Owners = {o1}
    Tolerance = 1
    NonceTTL = 2
    MaxTracked = 1
    Window = 2
    Skews = {1}
    FirstLimit = 1
    MaxLimit = 2
    PatchedNonces <- MCPatchedNonces
    PatchedStarts = {}
    PatchedCounts = {0}
    MaxEvents = 2
    MaxActivity = 3
    MaxTime = 2
INVARIANTS
    TypeOK
    EffectOnce
    RateLimitHolds
PROPERTIES
    RetiredSecretRefused
CHECK_DEADLOCK FALSE
