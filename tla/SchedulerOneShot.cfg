SPECIFICATION FairWorkerSpec
CONSTANTS
    p1 = p1
    p2 = p2
    w1 = w1
    r1 = r1
    r2 = r2
    Process = {p1}
    Run = {r1}
    Thread = {w1}
    Schedule <- MCOnceSchedule
    Lifecycle <- MCFirstRun
    Lease = 1
    Stale = 1
    Horizon = 1
    Llm = {}
    LlmBudget = 0
    Limit = 1
    MaxFailures = 0
PROPERTY OneShotEnds
CHECK_DEADLOCK FALSE
