SPECIFICATION PartSpec
CONSTANTS
    None = None
    e1 = e1
    e2 = e2
    e3 = e3
    w1 = w1
    w2 = w2
    c1 = c1
    r1 = r1
    r2 = r2
    r3 = r3
    Parts = {"surface"}
    usdc = usdc
    sol = sol
    Logged <- MCLogged
    Charted <- MCCharted
    Rank <- MCRank
    Bucket <- MCBucket
    Walkers <- MCWalkers
    Charts <- MCCharts
    PageLimit = 1
    Markets = {}
    Requests <- ThreeRequests
    CreatedAt <- MCCreatedAt
    MaxSlot = 2
    MaxNotices = 1
    Streams <- MCStreams
    SlotOf <- MCSlotOf
    MaxCuts = 1
    Swaps <- MCSwaps
    TxOf <- MCTxOf
    Enriched <- MCEnriched
    Viewers <- MCViewers
    Capacity = 1
    MaxLag = 1
    MaxDrops = 2
    Pools <- MCPools
    Shown = {"p"}
    TokensOf <- MCTokensOf
    Rows <- MCRows
    Old = {}
    Baseline = 5
    Hour = 2
    Day = 2
    Week = 3
    PreIndexFees = 1
    MaxLate = 1
    Users <- MCUsers
    Lanes <- MCLanes
    FirstHour <- MCFirstHour
    PositionsAt <- MCPositionsAt
    DebtEvents <- MCDebtEvents
    MaxHour = 3
    MaxRuns = 2
    MaxFails = 1
INVARIANTS
    NeverBelowServed
CHECK_DEADLOCK FALSE
