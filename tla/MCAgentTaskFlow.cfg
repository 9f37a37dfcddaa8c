SPECIFICATION Spec
CONSTANTS
    w1 = w1
    w2 = w2
    NoLease = NoLease
    Procs = {"api"}
    Api = "api"
    Workers = {w1, w2}
    Supervised = {w1}
    Started <- StartedMixed
    Home <- HomeShared
    FileCount = 2
    ChangeType <- CreateUpdate
    EventStatuses = {"DONE"}
    MaxRetries = 1
INVARIANTS
    TypeOK
    PullRequestComplete
    OneLiveClaim
PROPERTIES
    SupersededIsHarmless
CHECK_DEADLOCK FALSE
