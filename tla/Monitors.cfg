SPECIFICATION MonitorSpec
CONSTANTS
    p1 = p1
    p2 = p2
    w1 = w1
    w2 = w2
    r1 = r1
    r2 = r2
    o1 = o1
    o2 = o2
    t1 = t1
    t2 = t2
    Process = {p1}
    Run = {r1, r2}
    Thread = {w1, w2}
    Schedule <- MCSchedule
    Lifecycle <- MCLifecycle
    Lease = 1
    Stale = 1
    Horizon = 1
    Llm = {}
    LlmBudget = 0
    Limit = 1
    MaxFailures = 1
    Kinds <- MCKinds
    Offer = {o1, o2}
    Topic = {t1}
    MaxSignals = 2
    MaxCandidates = 2
    MostShown = 1
    MaxActive = 2
INVARIANTS
    ShownIsSound MatchIsShown OneRequestPerMatch SignalsAreWrittenOnce
    ExclusiveWhileLeased TerminalIsQuiet
SYMMETRY MCSymmetry
CHECK_DEADLOCK FALSE
