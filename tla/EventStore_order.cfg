SPECIFICATION Spec
CONSTANTS
    t1 = t1
    t2 = t2
    t3 = t3
    opened = opened
    updated = updated
    closed = closed
    reopened = reopened
    position = position
    ws = ws
    rpc = rpc
    None = None
    Sessions <- MCSessions
    Txs <- MCTxs
    EventsOf <- MCEventsOf
    HasOrder <- MCHasOrder
    FactsOf <- MCFactsOf
    SlotOf <- MCSlotOf
    ChainIndex <- MCChainIndex
    PositionOf <- MCPositionOf
    MaxDeliveries = 2
    MaxFaults = 2
INVARIANTS
    FoldIsChainOrder
\* As in EventStore.
CHECK_DEADLOCK FALSE
