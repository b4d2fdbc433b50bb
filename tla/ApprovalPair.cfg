SPECIFICATION ApprovalSpec
CONSTANTS
    buy = buy
    cancel = cancel
    r1 = r1
    owner = owner
    stranger = stranger
    Action = {buy, cancel}
    Submits = {buy}
    Reconciler = {r1}
    TTL <- MCTTL
    Shape <- MCDistinct
    Unconfigured = {}
    User = {owner, stranger}
    Owner = owner
    Finals = {"filled", "cancelled"}
    HistoryLimit = 1
    MaxTime = 1
    MaxCalls = 3
    MaxFailures = 0
    MaxTaps = 2
    MaxStops = 0
INVARIANT ConclusionIsTrue
PROPERTY OwnerPlacesOrders
CHECK_DEADLOCK FALSE
