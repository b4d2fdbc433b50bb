SPECIFICATION MonitorSpec
CONSTANTS
    p1 = p1
    b1 = b1
    b2 = b2
    r1 = r1
    r2 = r2
    n1 = n1
    Process = {p1}
    Run = {r1, r2}
    Thread = {b1, b2}
    News = {n1}
    Schedule <- MCManual
    Lifecycle <- MCExpiring
    Window <- MCWindow
    Lease = 2
    Stale = 2
    Limit = 1
    Horizon = 2
    Passes = 1
    MaxFailures = 1
INVARIANTS WatchedOnce LiveRunsAreSpared
SYMMETRY MCSymmetry
CHECK_DEADLOCK FALSE
