SPECIFICATION FairSpec
CONSTANTS
    Requests = {r1, r2}
    Cashiers = {u1}
    Products = {"a", "b"}
    Customers = {"c1"}
    Stock <- MCStock
    Price <- MCPrice
    Mode <- MCMode
    Rate <- MCRate
    Baskets <- MCBaskets
    Limits <- MCLimits
    Amounts <- MCAmounts
    Pool = 3
    MaxSessions = 2
    MaxCalls = 3
    MaxOverlaps = 1
    MaxFaults = 1
INVARIANTS
    TypeOK
    SaleIsBooked
    OrphansNeedCrash
    DebtInRange
    DebtMatchesLedger
    DrawerMatches
    OneOpenSession
    TaxMatchesRate
PROPERTIES
    SaleEnds
CHECK_DEADLOCK FALSE
