SPECIFICATION Spec
SYMMETRY Interchangeable
CONSTANTS
    Requests = {r1, r2}
    Stores = {"s1", "s2"}
    Products = {"p1", "p2"}
    Buyers = {"ana", "leo"}
    MaxDay = 2
    MaxEvents = 3
    MaxOverlaps = 1
    MaxFaults = 1
    MaxOverrides = 1
    c1 = c1
    c2 = c2
    c3 = c3
    k1 = k1
    k2 = k2
    u1 = u1
    u2 = u2
    m1 = m1
    Coupons = {c1, c2, c3}
    CodeOf <- CodeOfCoupon
    CouponStore <- StoreOfCoupon
    CouponEnds <- EndOfCoupon
    MaxUses <- UsesOfCoupon
    Names = {k1, k2, u1, u2, m1}
    KindOf <- KindOfName
    OwnerOf <- OwnerOfName
    t1 = t1
    t2 = t2
    Tabs = {t1, t2}
    Endpoints = {"e1"}
    FirstStores = {"s1"}
    FirstProducts = {"p1", "p2"}
    FirstStore = "s1"
    FirstCategory = k1
    FirstCoupons = {c1}
    RoleOf <- RoleOfUser
    Media = {"variants"}
    FirstOrdered = "p1"
    FirstBuyer = "ana"
INVARIANTS
    TypeOK
    CouponKeepsTerms
    PaidTimeIsKept
    RemovalIsAllOrNothing
    StreamsMatchTabs
    OneOfEach
PROPERTY SalesGoWithTheirStore
CHECK_DEADLOCK FALSE
