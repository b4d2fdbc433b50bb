SPECIFICATION FairWorkerSpec
CONSTANTS
    p1 = p1
    p2 = p2
    w1 = w1
    r1 = r1
    r2 = r2
    Process = {p1, p2}
    Run = {r1, r2}
    Thread = {w1}
    Schedule <- MCPollSchedule
    Lifecycle <- MCServed
    Lease = 1
    Stale = 1
    Horizon = 1
    Llm = {p1, p2}
    LlmBudget = 1
    Limit = 2
    MaxFailures = 1
PROPERTIES RunsAreClosed DueIsServed
CHECK_DEADLOCK FALSE
