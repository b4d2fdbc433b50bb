SPECIFICATION FairApprovalSpec
CONSTANTS
    buy = buy
    cancel = cancel
    r1 = r1
    owner = owner
    stranger = stranger
    Action = {buy}
    Submits = {buy}
    Reconciler = {r1}
    TTL <- MCTTL
    Shape <- MCDistinct
    Unconfigured = {}
    User = {owner}
    Owner = owner
    Finals = {"filled", "cancelled"}
    HistoryLimit = 3
    MaxTime = 0
    MaxCalls = 3
    MaxFailures = 1
    MaxTaps = 1
    MaxStops = 1
INVARIANT OrdersAreTraced
PROPERTIES PressesAreHandled SubmittedSettles
CHECK_DEADLOCK FALSE
