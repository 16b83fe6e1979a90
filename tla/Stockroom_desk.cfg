SPECIFICATION Spec
SYMMETRY Interchangeable
CONSTANTS
    Requests = {r1, r2}
    Products = {"rice", "milk"}
    Purchases = {"u1"}
    Perishable <- MCPerishable
    Moved <- MCMoved
    Lines <- MCLines
    PaidUpFront <- MCPaidUpFront
    Amounts <- MCAmounts
    Entries <- MCEntries
    Deltas <- MCDeltas
    MaxBatches = 3
    MaxCalls = 4
    MaxOverlaps = 1
    MaxFaults = 1
INVARIANTS
    TypeOK
    PaidNeverInvented
    BooksBalance
    CancelledHoldsNothing
    MovementsExplainBatches
    ShortOnlyByCancellation
    OneLegacyBatch
    SummaryIsSellable
CHECK_DEADLOCK FALSE
