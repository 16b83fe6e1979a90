------------------------------ MODULE Promotions ------------------------------
(***************************************************************************)
(* What is paid for or granted for a time: coupons (CouponsService), the   *)
(* orders they are used in (OrdersService.create) and the sales at the     *)
(* counter, advertisements with the nightly job that expires them          *)
(* (AdvertisingService), and the plans that stores subscribe to            *)
(* (SubscriptionsService).                                                 *)
(***************************************************************************)
EXTENDS Storefront

CONSTANTS
    Coupons,       \* ids of coupons there are or may be created
    CodeOf,        \* the code of each
    CouponStore,   \* its store, or "none" for a global coupon
    CouponEnds,    \* its expires_at, or NoDay
    MaxUses        \* its maxUses

ASSUME PromotionsAssumption ==
    /\ IsFiniteSet(Coupons)
    /\ CouponStore \in [Coupons -> Stores \cup {"none"}]
    /\ CouponEnds \in [Coupons -> {NoDay} \cup Days] /\ MaxUses \in [Coupons -> Nat]
    /\ DOMAIN CodeOf = Coupons /\ \A c \in Coupons : CodeOf[c] # "none"

VARIABLES
    coupon,   \* coupons: state of the row, and used_count
    ads,      \* store_advertisements, in order of created_at
    subs      \* store_subscriptions, in order of created_at

promotions == <<coupon, ads, subs>>

\* "GONE" when the row was deleted with its store.
RowStatus == {"ACTIVE", "EXPIRED", "CANCELLED", "GONE"}
CouponRow == [state : {"NEW", "LIVE", "REMOVED"}, used : Nat]
PaidRow == [store : Stores, plan : {"ad", "basic", "premium"}, ends : Days, status : RowStatus]
PaidFor(s, plan, day, status) ==
    [store |-> s, plan |-> plan, ends |-> day, status |-> status]

-----------------------------------------------------------------------------
(* Coupons *)

Codes == {CodeOf[c] : c \in Coupons}
Twins(c) == {d \in Coupons : coupon[d].state = "LIVE" /\ CodeOf[d] = CodeOf[c]
                               /\ CouponStore[d] = CouponStore[c]}

\* create: the code is looked up in the store, then inserted; the unique index covers
\* the coupons of stores and not the global ones.
BeginCreateCoupon(r, c) ==
    /\ coupon[c].state = "NEW" /\ Twins(c) = {}
    /\ \A q \in Requests : req[q].pc = "insertCoupon" => req[q].key # c
    /\ Call(r, [Idle EXCEPT !.pc = "insertCoupon", !.key = c])
    /\ UNCHANGED <<shared, promotions>>

InsertCoupon(r) ==
    LET c == req[r].key
        refused == CouponStore[c] # "none" /\ (Twins(c) # {} \/ ~store[CouponStore[c]].here)
    IN  /\ req[r].pc = "insertCoupon"
        /\ coupon' = IF refused THEN coupon
                     ELSE [coupon EXCEPT ![c].state = "LIVE"]
        /\ Return(r)
        /\ UNCHANGED <<shared, ads, subs>>

RemoveCoupon(r, c) ==
    /\ coupon[c].state = "LIVE"
    /\ coupon' = [coupon EXCEPT ![c].state = "REMOVED"]
    /\ Call(r, Idle)
    /\ UNCHANGED <<shared, ads, subs>>

\* Mutant of HasUsesLeft: the limit is compared as if it were not reached yet.
HasUsesLeftOfOne(c) == coupon[c].used <= MaxUses[c]
HasUsesLeft(c) == coupon[c].used < MaxUses[c]

\* validate for the store of a cart, or "none" while that is not known.
Validates(c, s) ==
    /\ CouponStore[c] \in {"none", s}
    /\ CouponEnds[c] # NoDay => CouponEnds[c] >= today
    /\ HasUsesLeft(c)

Sellable(p) == product[p].here /\ product[p].active /\ rows[p]["batches"] > 0

\* OrdersService.create looks at the product and its stock, not at its store.  The coupon
\* is found by its code alone: whichever row of that code the database returns.
BeginOrder(r, b, p) ==
    /\ Sellable(p)
    /\ Call(r, [Idle EXCEPT !.pc = "place", !.buyer = b, !.product = p])
    /\ UNCHANGED <<shared, promotions>>

BeginOrderWith(r, b, p, c) ==
    /\ Sellable(p) /\ coupon[c].state = "LIVE" /\ Validates(c, product[p].store)
    /\ Call(r, [Idle EXCEPT !.pc = "uses", !.buyer = b, !.product = p, !.key = c])
    /\ UNCHANGED <<shared, promotions>>

UsesBy(b, code) ==
    {o \in Orders : order[o].buyer = b /\ order[o].coupon = code
                      /\ order[o].status # "CANCELLED"}

UsedBefore(b, code) == UsesBy(b, code) # {}

CountUses(r) ==
    LET q == req[r]
    IN  /\ q.pc = "uses"
        /\ IF UsedBefore(q.buyer, CodeOf[q.key]) THEN Return(r)
           ELSE Goto(r, [q EXCEPT !.pc = "place"])
        /\ UNCHANGED <<shared, promotions>>

\* The transaction takes the units from a batch and commits, or rolls back without.
PlaceOrder(r) ==
    LET q == req[r]
    IN  /\ q.pc = "place"
        /\ IF product[q.product].here /\ rows[q.product]["batches"] > 0
           THEN /\ order' = Append(order, NewOrder(q.buyer, q.product,
                                     IF q.key = "none" THEN "none" ELSE CodeOf[q.key]))
                /\ rows' = [rows EXCEPT ![q.product]["movements"] = @ + 1,
                                        ![q.product]["allocations"] = @ + 1]
                /\ IF q.key = "none" THEN Return(r)
                   ELSE Goto(r, [Idle EXCEPT !.pc = "increment", !.key = q.key])
           ELSE Return(r) /\ UNCHANGED <<order, rows>>
        /\ UNCHANGED <<today, store, product, promotions>>

\* SalesService.create: one transaction looks at the product and its stock, then writes
\* the sale and takes its units from a batch, or rolls back.
BeginSale(r, p) ==
    /\ Sellable(p)
    /\ Call(r, [Idle EXCEPT !.pc = "sell", !.product = p])
    /\ UNCHANGED <<shared, promotions>>

Sell(r) ==
    LET p == req[r].product
    IN  /\ req[r].pc = "sell"
        /\ rows' = IF product[p].here /\ rows[p]["batches"] > 0
                   THEN [rows EXCEPT ![p]["sales"] = @ + 1, ![p]["movements"] = @ + 1,
                                     ![p]["allocations"] = @ + 1]
                   ELSE rows
        /\ Return(r)
        /\ UNCHANGED <<today, store, product, order, promotions>>

\* incrementUsage, after the transaction and awaited by nobody.
Increment(r) ==
    LET c == req[r].key
    IN  /\ req[r].pc = "increment"
        /\ coupon' = [coupon EXCEPT ![c].used = IF coupon[c].state = "LIVE" THEN @ + 1 ELSE @]
        /\ Return(r)
        /\ UNCHANGED <<shared, ads, subs>>

-----------------------------------------------------------------------------
(* Advertising *)

BeginRegisterAd(r, s, day) ==
    /\ store[s].here
    /\ Call(r, [Idle EXCEPT !.pc = "insertAd", !.store = s, !.num = day])
    /\ UNCHANGED <<shared, promotions>>

InsertAd(r) ==
    LET q == req[r]
    IN  /\ q.pc = "insertAd"
        /\ IF store[q.store].here
           THEN /\ ads' = Append(ads, PaidFor(q.store, "ad", q.num, "ACTIVE"))
                /\ Goto(r, [q EXCEPT !.pc = "raise"])
           ELSE Return(r) /\ UNCHANGED ads
        /\ UNCHANGED <<shared, coupon, subs>>

\* An UPDATE of a store that is gone changes nothing.
SetFlags(s, premium, day) ==
    store' = [store EXCEPT ![s] = IF store[s].here
                                  THEN [@ EXCEPT !.premium = premium, !.adEnds = day] ELSE @]

Raise(r) ==
    /\ req[r].pc = "raise"
    /\ SetFlags(req[r].store, TRUE, req[r].num)
    /\ Return(r)
    /\ UNCHANGED <<today, product, rows, order, promotions>>

BeginCancelAd(r, a) ==
    /\ ads[a].status # "GONE"
    /\ Call(r, [Idle EXCEPT !.pc = "cancelAd", !.id = a])
    /\ UNCHANGED <<shared, promotions>>

CancelAd(r) ==
    LET a == req[r].id
    IN  /\ req[r].pc = "cancelAd"
        /\ IF ads[a].status = "GONE" THEN Return(r) /\ UNCHANGED ads
           ELSE /\ ads' = [ads EXCEPT ![a].status = "CANCELLED"]
                /\ Goto(r, [Idle EXCEPT !.pc = "lower", !.store = ads[a].store])
        /\ UNCHANGED <<shared, coupon, subs>>

Lower(r) ==
    /\ req[r].pc = "lower"
    /\ SetFlags(req[r].store, FALSE, NoDay)
    /\ Return(r)
    /\ UNCHANGED <<today, product, rows, order, promotions>>

Overdue(s) ==
    /\ store[s].here /\ store[s].premium
    /\ store[s].adEnds # NoDay /\ store[s].adEnds <= today

\* expireOverdueAdvertisements, every night, with the stores that are overdue when it reads.
BeginExpire(r) ==
    LET list == {s \in Stores : Overdue(s)}
    IN  /\ list # {}
        /\ Call(r, [Idle EXCEPT !.pc = "lowerAll", !.list = list])
        /\ UNCHANGED <<shared, promotions>>

LowerAll(r) ==
    /\ req[r].pc = "lowerAll"
    /\ store' = [s \in Stores |-> IF s \in req[r].list
                                  THEN [store[s] EXCEPT !.premium = FALSE] ELSE store[s]]
    /\ Goto(r, [req[r] EXCEPT !.pc = "expireAds"])
    /\ UNCHANGED <<today, product, rows, order, promotions>>

ExpireAds(r) ==
    /\ req[r].pc = "expireAds"
    /\ ads' = [a \in DOMAIN ads |->
          IF ads[a].store \in req[r].list /\ ads[a].status = "ACTIVE"
          THEN [ads[a] EXCEPT !.status = "EXPIRED"] ELSE ads[a]]
    /\ Return(r)
    /\ UNCHANGED <<shared, coupon, subs>>

-----------------------------------------------------------------------------
(* Subscriptions *)

\* registerPayment; a payment may be entered with a status other than ACTIVE.
BeginPay(r, s, plan, day, status) ==
    /\ store[s].here
    /\ Call(r, [Idle EXCEPT !.pc = "insertSub", !.store = s, !.key = plan, !.num = day,
                            !.list = {status}])
    /\ UNCHANGED <<shared, promotions>>

InsertSub(r) ==
    LET q == req[r]
    IN  /\ q.pc = "insertSub"
        /\ IF store[q.store].here
           THEN /\ subs' = Append(subs, PaidFor(q.store, q.key, q.num,
                                                CHOOSE status \in q.list : TRUE))
                /\ Goto(r, [q EXCEPT !.pc = "latest", !.list = {}])
           ELSE Return(r) /\ UNCHANGED subs
        /\ UNCHANGED <<shared, coupon, ads>>

ActiveSubs(s) == {i \in DOMAIN subs : subs[i].store = s /\ subs[i].status = "ACTIVE"}

\* Mutant of LatestEnd: the end of the payment that was entered last.
LatestEndEntered(s) == subs[Max(ActiveSubs(s))].ends
LatestEnd(s) == Max({subs[i].ends : i \in ActiveSubs(s)})

FindLatest(r) ==
    LET q == req[r]
    IN  /\ q.pc = "latest"
        /\ IF ActiveSubs(q.store) = {} THEN Return(r)
           ELSE Goto(r, [q EXCEPT !.pc = "extend", !.num = LatestEnd(q.store)])
        /\ UNCHANGED <<shared, promotions>>

\* The premium flag follows the plan of this payment, whatever else the store has paid.
Extend(r) ==
    LET q == req[r]
    IN  /\ q.pc = "extend"
        /\ store' = [store EXCEPT ![q.store] =
              IF store[q.store].here
              THEN [@ EXCEPT !.subEnds = q.num, !.premium = (q.key = "premium")] ELSE @]
        /\ Return(r)
        /\ UNCHANGED <<today, product, rows, order, promotions>>

\* cancelSubscription: the store keeps its date and its flag.
BeginCancelSub(r, i) ==
    /\ subs[i].status # "GONE"
    /\ Call(r, [Idle EXCEPT !.pc = "cancelSub", !.id = i])
    /\ UNCHANGED <<shared, promotions>>

CancelSub(r) ==
    /\ req[r].pc = "cancelSub"
    /\ subs' = [subs EXCEPT ![req[r].id].status = IF @ = "GONE" THEN @ ELSE "CANCELLED"]
    /\ Return(r)
    /\ UNCHANGED <<shared, coupon, ads>>

CouponsController(r) == \E c \in Coupons : BeginCreateCoupon(r, c) \/ RemoveCoupon(r, c)

OrdersController(r) ==
    \E b \in Buyers, p \in Products :
      BeginOrder(r, b, p) \/ \E c \in Coupons : BeginOrderWith(r, b, p, c)

SalesController(r) == \E p \in Products : BeginSale(r, p)

AdvertisingController(r) ==
    \/ \E s \in Stores, day \in Days : BeginRegisterAd(r, s, day)
    \/ \E a \in DOMAIN ads : BeginCancelAd(r, a)

SubscriptionsController(r) ==
    \/ \E s \in Stores, day \in Days, plan \in {"basic", "premium"},
          status \in {"ACTIVE", "EXPIRED"} : BeginPay(r, s, plan, day, status)
    \/ \E i \in DOMAIN subs : BeginCancelSub(r, i)

PromotionBegin(r) ==
    \/ CouponsController(r) \/ OrdersController(r) \/ SalesController(r)
    \/ AdvertisingController(r) \/ SubscriptionsController(r)
    \/ BeginExpire(r)

PromotionRun(r) ==
    \/ InsertCoupon(r) \/ CountUses(r) \/ PlaceOrder(r) \/ Sell(r) \/ Increment(r)
    \/ InsertAd(r) \/ Raise(r) \/ CancelAd(r) \/ Lower(r) \/ LowerAll(r) \/ ExpireAds(r)
    \/ InsertSub(r) \/ FindLatest(r) \/ Extend(r) \/ CancelSub(r)

-----------------------------------------------------------------------------
(* Properties *)

OrdersWith(code) == {o \in Orders : order[o].coupon = code}
Granted(code) ==
    MapThenSumSet(LAMBDA c : MaxUses[c],
                  {c \in Coupons : CodeOf[c] = code /\ coupon[c].state # "NEW"})

\* The orders with a coupon's code stay within what its rows grant, and each buyer has
\* one that stands, but for one more for each request that overlaps another (the checks
\* and the order are separate statements) or dies before it counted its use.
CouponKeepsTerms ==
    \A code \in Codes :
      /\ Cardinality(OrdersWith(code)) <= Granted(code) + used.overlaps + used.faults
      /\ \A b \in Buyers : Cardinality(UsesBy(b, code)) <= 1 + used.overlaps

\* What a store paid for it gets, as long as requests do not overlap or die and no
\* administrator sets the flags by hand: an open store is visible until the last day of
\* every payment that stands begins; a store with a payment that stands, or with a date left
\* by one that does not, is visible no longer than one of its payments, cancelled since or
\* not; no advertisement is expired before its end unless a later one of the store ended
\* earlier, and a store is sponsored only while a campaign that was paid runs, or after a
\* premium plan was.
PaidTimeIsKept ==
    Clean /\ Quiet /\ used.overrides = 0 =>
      /\ \A s \in Stores : \A i \in ActiveSubs(s) :
           store[s].active /\ subs[i].ends > today => Visible(s)
      /\ \A s \in Stores : Visible(s) /\ (ActiveSubs(s) # {} \/ store[s].subEnds # NoDay) =>
           \E i \in DOMAIN subs :
             subs[i].store = s /\ subs[i].status # "GONE" /\ subs[i].ends > today
      /\ \A a \in DOMAIN ads : ads[a].status = "EXPIRED" =>
           \E b \in a..Len(ads) : ads[b].store = ads[a].store /\ ads[b].ends <= today
      /\ \A s \in Stores : Sponsored(s) =>
           \/ \E a \in DOMAIN ads :
                ads[a].store = s /\ ads[a].status = "ACTIVE" /\ ads[a].ends > today
           \/ \E i \in DOMAIN subs : subs[i].store = s /\ subs[i].plan = "premium"
=============================================================================
