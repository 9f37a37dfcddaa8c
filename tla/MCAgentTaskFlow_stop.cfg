SPECIFICATION Spec
CONSTANTS
    w1 = w1
    w2 = w2
    NoLease = NoLease
    Procs = {"api"}
    Api = "api"
    Workers = {w1, w2}
    Supervised = {w1, w2}
    Started <- StartedFlow
    Home <- HomeShared
    FileCount = 2
    ChangeType <- CreateUpdate
    EventStatuses = {"DONE"}
    MaxRetries = 1
PROPERTIES
    OperatorStopStands
CHECK_DEADLOCK FALSE
