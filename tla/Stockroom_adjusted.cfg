SPECIFICATION Spec
CONSTANTS
    Requests = {r1}
    Products = {"rice"}
    Purchases = {"u1"}
    Perishable = {}
    Moved <- MCNoMovements
    Lines <- MCRice
    PaidUpFront <- MCPaidUpFront
    Amounts <- MCAmounts
    Entries <- MCEntries
    Deltas <- MCDeltas
    MaxBatches = 2
    MaxCalls = 3
    MaxOverlaps = 0
    MaxFaults = 0
PROPERTIES
    AdjustmentAddsUp
CHECK_DEADLOCK FALSE
