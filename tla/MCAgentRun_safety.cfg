SPECIFICATION Spec
CONSTANTS
    Runs = {r1, r2}
    Threads = {t1, t2}
    StepCount = 2
    MaxAttempts = 2
    MaxResumes = 1
SYMMETRY Symmetry
INVARIANTS
    RunningStepIsLeased
    AttemptsBounded
    OneLiveRun
PROPERTIES
    NoFalseSuccess
    TerminalFinal
    ControlHonoured
    ImplementsContract
