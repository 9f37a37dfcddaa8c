SPECIFICATION GovernedSpec
CONSTANTS
    Run = r
    Runs = {r}
    Threads = {t1, t2}
    Locks = {l1, l2}
    NoLock = NoLock
    StepCount = 1
    MaxAttempts = 2
    MaxResumes = 0
    ActionCount <- MCValidation
    Timeouts = {1, 2}
    MaxRuntime = 4
    MaxRetries = 1
    AttemptBound = 2
    Durations = {2, 4, 5}
SYMMETRY Symmetry
INVARIANTS
    GovernedTypeOK
    
    NoLockLeak
PROPERTIES
    StartedWasAllowed
CHECK_DEADLOCK FALSE
