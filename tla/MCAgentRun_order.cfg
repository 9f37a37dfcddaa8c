SPECIFICATION FairSpec
CONSTANTS
    Runs = {r1}
    Threads = {t1, t2}
    StepCount = 3
    MaxAttempts = 3
    MaxResumes = 2
INVARIANTS
    StepOrder
    SucceededRunComplete
PROPERTIES
    RunningStepResolves
    LeaseReturns
