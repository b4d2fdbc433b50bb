SPECIFICATION ChatSpec
CONSTANTS
    Caller <- Callers2
    Large = {"action"}
    RecentMessages = 2
    MaxRetries = 2
    ToolCallLimit = 2
    MaxWidth = 2
    MaxMessage = 2
    Forced = {1}
    Plans <- SomePlans
    ChatHistory = 0
    MaxActions = 2
    MaxCrashes = 1
INVARIANTS
    RequestsArePaired
    OffersAreOwn
    LastPreparedIsOffered
PROPERTY
    MessagesAreHandled
CHECK_DEADLOCK FALSE
