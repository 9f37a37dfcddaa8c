SPECIFICATION Spec
CONSTANTS
    e1 = e1
    e2 = e2
    r1 = r1
    r2 = r2
    NoPayload = NoPayload
    Payloads <- MCPayloads
    ToolCalls <- MCToolCalls
    Executors = {e1, e2}
    ToolExecutors = {e1}
    Resolvers = {r1, r2}
    MaxAttempts = 2
    AttemptBound = 2
INVARIANT ForwardedOnce
CHECK_DEADLOCK FALSE
