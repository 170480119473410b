SPECIFICATION PartSpec
CONSTANTS
    None = None
    Nil = Nil
    Clients = {c1, c2}
    Reads = {r1, r2}
    SlotOf <- MCSlotOf
    MaxFaults = 1
    u1 = u1
    m1 = m1
    s1 = s1
    s2 = s2
    s3 = s3
    d1 = d1
    o1 = o1
    owner = owner
    accrual = accrual
    e1 = e1
    e2 = e2
    m2 = m2
    p1 = p1
    c1 = c1
    c2 = c2
    r1 = r1
    r2 = r2
    Earning <- MCEarning
    HourOf <- MCHourOf
    MintsOf <- MCMintsOf
    EarnersOf <- MCEarnersOf
    EarningsLimit = 1
    Lookback = 2
    MaxHour = 3
    MaxMisses = 1
    w1 = w1
    w2 = w2
    a1 = a1
    Sourced <- MCSourced
    Malformed <- MCMalformed
    BatchSize = 1
    MaxRetries = 1
    MaxOutages = 1
    Economic <- MCEconomic
    EventSlot <- MCEventSlot
    EventTime <- MCEventSlot
    PayloadOf <- MCPayloadOf
    Canonical = TRUE
    ProviderQuotes <- MCQuotes
    References <- MCReferences
    Stable = {}
    BatchLimit = 2
    StatsWindow = 1
    Fresh = 2
    MaxClock = 3
    Measured <- MCMeasured
    MeasuredSlot <- MCMeasuredSlot
    MeasuredTime <- MCMeasuredSlot
    RateWindow = 2
    Cadence = 2
    MaxTicks = 5
    MaxBookSlot = 4
    Histories <- MCHistories
    Levels <- MCLevels
    PerBatch = 3
    Accepts <- MCAccepts
    Fits <- MCFits
    PerRead = 1
    MaxOrders = 2
    Quoters <- MCQuoters
    MaxInFlight = 1
    Attempts = 2
    MaxMargin = 15
    Grid = 3
    Programs <- MCPrograms
    BankHistories <- MCChains
    Leverages <- MCLeverages
    Receipts <- MCReceipts
    Inputs <- MCInputs
    WalletHistories <- MCWallets
    LastState = 3
    FirstCursor = 2
    DetailBatch = 1
    Accounts <- MCAccounts
    OwnerOf <- MCOwnerOf
    Groups <- MCGroups
    GroupOf <- MCGroupOf
    Workers <- MCWorkers
    ReplayLimit = 1
    LastBank = 3
    MaxCaptures = 2
    MaxFailures = 1
INVARIANTS
    NothingForgotten
    ReplicasApart
    CapturesAreTrue
    CompleteIsFinal
    RatesMeasure
    BookIsWhole
    LeverageIsExecutable
    NeverOlder
    StaleIsOnItsWay
    WalkMissesOnlyTies
    PositionsAreWhole
    ExecutedOnce
    OrdersListed
    ClaimsAreWhole
PROPERTIES
    HistoricalIsFinal
    HarvestPaysShown
SYMMETRY Symmetric
CHECK_DEADLOCK FALSE
