SPECIFICATION ApprovalSpec
CONSTANTS
    buy = buy
    cancel = cancel
    r1 = r1
    owner = owner
    stranger = stranger
    Action = {buy}
    Submits = {buy}
    Reconciler = {r1}
    TTL <- MCTTL
    Shape <- MCDistinct
    Unconfigured = {}
    User = {owner}
    Owner = owner
    Finals = {"filled"}
    HistoryLimit = 3
    MaxTime = 0
    MaxCalls = 3
    MaxFailures = 0
    MaxTaps = 2
    MaxStops = 0
INVARIANT NoDuplicateOrder
CHECK_DEADLOCK FALSE
