SPECIFICATION GovernedSpec
CONSTANTS
    Run = r
    Runs = {r}
    Threads = {t1}
    Locks = {l1, l2}
    NoLock = NoLock
    StepCount = 2
    MaxAttempts = 2
    MaxResumes = 0
    ActionCount <- MCSingle
    Timeouts = {1}
    MaxRuntime = 4
    MaxRetries = 1
    AttemptBound = 2
    Durations = {0}
INVARIANT EverySideEffectCharged
CHECK_DEADLOCK FALSE
