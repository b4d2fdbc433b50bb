SPECIFICATION QueueSpec
CONSTANTS
    a1 = a1
    a2 = a2
    r1 = r1
    Action = {a1, a2}
    Reconciler = {r1}
    TTL <- MCTTL
    Unconfigured = {a2}
    MaxTime = 3
    MaxCalls = 2
    MaxFailures = 1
    Limit = 1
INVARIANTS ReconcilerIsCurrent CallsAccounted
PROPERTIES ClosedMakesNoCall FollowsLifecycle NoneIsPassedOver
