SPECIFICATION Spec
CONSTANTS
    t0 = t0
    t1 = t1
    t2 = t2
    t3 = t3
    NoTx = NoTx
    NoSlot = NoSlot
    NoWriter = NoWriter
    Txs <- AllTxs
    SlotOf <- MCSlotOf
    RowCount <- MCRowCount
    Before <- MCBefore
    Poison <- OnePoison
    FirstSlot = 1
    QueueCap = 1
    MaxMishaps = 1
    MaxAttempts = 2
    MaxFaults = 2
INVARIANTS
    Recoverable
\* As in Ingestion_safety.
CHECK_DEADLOCK FALSE
