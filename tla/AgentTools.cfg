SPECIFICATION AgentSpec
CONSTANTS
    aaa = aaa
    bbb = bbb
    Symbol = {aaa, bbb}
    Day = 3
    Zones <- MCZones
    DefaultZone = "rome"
    DefaultPoll = 4
    CapturePoll = 6
    MinCapturePoll = 3
    MaxEvents = 1
    Forms <- MCForms
    Orders <- MCOrders
    Opening = {3, 12, 14}
    LastTick = 26
    Instruments = {1, 2, 3}
    Score <- MCScore
    Unusual <- MCUnusual
    MinScore = 70
    Margin = 5
    Requests <- MCRequests
    Bids <- MCBids
    Quotes <- MCQuotes
    Holdings <- MCHoldings
    MaxPlaced = 2
    MaxInteractions = 2
    MaxOffers = 2
    Nodes = {n1, n2}
    Contents = {c1, c2}
    EnvFiles <- MCEnvFiles
    MaxSaves = 1
    MaxAsked = 2
    Fragile <- MCFragile
    Reread <- MCReread
    MaxErrors = 1
    Jobs <- MCJobs
    Snapshots <- MCSnapshots
    Histories <- MCHistories
    MaxMissing = 2
    SignalNotes <- MCSignalNotes
    Searches <- MCSearches
    MemoryWindow = 2
    MostShown = 2
    UsuallyShown = 1
    MaxSignalsKept = 3
    LastHour = 2
    Literals <- MCLiterals
    Hundred = 4
    Amounts <- MCAmounts
    MaxTokens = 6
INVARIANTS
    FormsAreRunnable
    ProposalsAreWithinForm
    CancelsWhatWasShown
    OffersAreAsAsked
    GuidelinesSurvive
    OffersWhatWasAssessed
    VerdictsAreSound
    SignalsAreFound
    OwnOrderIsTold
    CalculationsAgree
PROPERTY
    CalendarIsKept
    SavesOnlyWhatWasAsked
CHECK_DEADLOCK FALSE
