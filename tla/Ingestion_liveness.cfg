SPECIFICATION FairSpec
CONSTANTS
    t0 = t0
    t1 = t1
    t2 = t2
    t3 = t3
    NoTx = NoTx
    NoSlot = NoSlot
    NoWriter = NoWriter
    Txs <- ThreeTxs
    SlotOf <- MCSlotOf
    RowCount <- MCRowCount
    Before <- MCBefore
    Poison <- OnePoison
    FirstSlot = 1
    QueueCap = 1
    MaxMishaps = 1
    MaxAttempts = 2
    MaxFaults = 2
PROPERTIES
    EventuallyStored
\* Once every transaction is confirmed and stored and the faults are used up,
\* the daemon has nothing left to do.
CHECK_DEADLOCK FALSE
