----------------------------- MODULE Marketplace -----------------------------
(***************************************************************************)
(* Promotions, catalogue and notifications over the same stores, products  *)
(* and orders, in one process and with one budget of calls.  Removing a    *)
(* store reaches into the tables of all of them; an order needs a product, *)
(* a coupon and a batch; a review needs an order.                          *)
(***************************************************************************)
EXTENDS Catalogue, Live

CONSTANTS
    FirstStores,    \* the stores there are
    FirstProducts,  \* the products there are, in the first store and category
    FirstStore,
    FirstCategory,
    FirstCoupons,   \* the coupons there are
    FirstOrdered,   \* the product and
    FirstBuyer      \* the buyer of the order there may be

ASSUME MarketplaceAssumption ==
    /\ FirstStore \in FirstStores /\ FirstStores \subseteq Stores
    /\ FirstProducts \subseteq Products /\ FirstOrdered \in FirstProducts
    /\ FirstCategory \in Names /\ KindOf[FirstCategory] = "category"
    /\ OwnerOf[FirstCategory] \in {"none", FirstStore}
    /\ FirstCoupons \subseteq Coupons /\ FirstBuyer \in Buyers
    /\ \A c, d \in FirstCoupons :
         CodeOf[c] = CodeOf[d] /\ CouponStore[c] = CouponStore[d] => c = d

vars == <<shared, promotions, catalogue, live, req, used>>

\* Either the first product was ordered, paid and delivered and the others came in with
\* a purchase, or nothing was ordered yet and the others were sold at the counter.
Init ==
    /\ today = 1
    /\ store = [s \in Stores |-> IF s \in FirstStores THEN NewStore ELSE NoStore]
    /\ product = [p \in Products |->
          IF p \in FirstProducts
          THEN [here |-> TRUE, store |-> FirstStore, category |-> FirstCategory, active |-> TRUE]
          ELSE NoProduct]
    /\ \E ordered \in {{}, {FirstOrdered}} :
         /\ rows = [q \in Products |->
              IF q \in FirstProducts
              THEN [NoRows EXCEPT !["batches"] = 1, !["movements"] = 1,
                      !["allocations"] = IF q \in ordered THEN 1 ELSE 0,
                      ![IF ordered = {} THEN "sales" ELSE "purchases"] =
                            IF q = FirstOrdered THEN 0 ELSE 1]
              ELSE NoRows]
         /\ order = IF ordered = {} THEN << >>
                    ELSE << [NewOrder(FirstBuyer, FirstOrdered, "none") EXCEPT
                                !.paid = TRUE, !.status = "DELIVERED"] >>
    /\ coupon = [c \in Coupons |-> [state |-> IF c \in FirstCoupons THEN "LIVE" ELSE "NEW",
                                    used |-> 0]]
    /\ ads = << >> /\ subs = << >>
    /\ named = [n \in Names |-> IF n = FirstCategory THEN "ACTIVE" ELSE "NEW"]
    /\ favorites = {} /\ reviews = << >> /\ storeReviews = << >>
    /\ tab = [t \in Tabs |-> "none"]
    /\ stream = [u \in Buyers |-> NoStream]
    /\ push = << >>
    /\ req = [r \in Requests |-> Idle]
    /\ used = [events |-> 0, overlaps |-> 0, faults |-> 0, overrides |-> 0]

Begin(r) ==
    \/ StoreBegin(r) /\ UNCHANGED <<promotions, catalogue, live>>
    \/ PromotionBegin(r) /\ UNCHANGED <<catalogue, live>>
    \/ CatalogueBegin(r) /\ UNCHANGED live
    \/ LiveBegin(r) /\ UNCHANGED <<promotions, catalogue>>

Run(r) ==
    \/ StoreRun(r) /\ UNCHANGED <<promotions, catalogue, live>>
    \/ PromotionRun(r) /\ UNCHANGED <<catalogue, live>>
    \/ CatalogueRun(r) /\ UNCHANGED live
    \/ LiveRun(r) /\ UNCHANGED <<promotions, catalogue>>
    \/ Die(r) /\ UNCHANGED <<promotions, catalogue, live>>

Environment ==
    \/ Tick /\ UNCHANGED <<promotions, catalogue, live>>
    \/ (\E t \in Tabs : Finalize(t)) /\ UNCHANGED <<promotions, catalogue>>

Next ==
    \/ Environment
    \/ \E r \in Requests : (Free(r) /\ Begin(r)) \/ (Running(r) /\ Run(r))
Spec == Init /\ [][Next]_vars

-----------------------------------------------------------------------------
(* Properties *)

Pc == {"idle", "insertStore", "saveStore", "insertCoupon", "uses", "place", "sell", "increment",
       "insertAd", "raise", "cancelAd", "lower", "lowerAll", "expireAds", "insertSub",
       "latest", "extend", "cancelSub", "insertName", "saveName", "hide", "insertProduct",
       "saveProduct", "insertRow", "insertFavorite", "deleteRows", "deleteProduct", "erase",
       "saveReview", "saveWithPhotos", "clearPhotos", "insertPhotos", "saveStoreReview",
       "savePush", "send", "drop"}

\* The types of the tables and of the handlers' variables; a product and the rows that
\* refer to a store refer to one that is there.
TypeOK ==
    /\ today \in Days /\ store \in [Stores -> StoreRow] /\ product \in [Products -> ProductRow]
    /\ \A p \in Products : product[p].here => Refers(product[p])
    /\ rows \in [Products -> [Tables -> Nat]]
    /\ order \in Seq([buyer : Buyers, product : Products, status : OrderStatus, paid : BOOLEAN,
                      coupon : Codes \cup {"none"}])
    /\ coupon \in [Coupons -> CouponRow]
    /\ ads \in Seq(PaidRow) /\ subs \in Seq(PaidRow)
    /\ \A i \in DOMAIN subs : subs[i].status # "GONE" => store[subs[i].store].here
    /\ named \in [Names -> NameState]
    /\ favorites \subseteq Buyers \X Products
    /\ reviews \in Seq(ReviewRow) /\ storeReviews \in Seq(StoreReviewRow)
    /\ tab \in [Tabs -> Buyers \cup {"none"}]
    /\ stream \in [Buyers -> [subjects : SUBSET Tabs, role : {"admin", "seller", "none"}]]
    /\ push \in Seq(PushRow)
    /\ \A r \in Requests : req[r].pc \in Pc /\ req[r].row \in StoreRow /\ req[r].item \in ProductRow
    /\ used \in [events : 0..MaxEvents, overlaps : 0..MaxOverlaps, faults : 0..MaxFaults,
                 overrides : 0..MaxOverrides]

\* What the handlers look for before they insert it is there once: a buyer's review of a
\* product with the photos of one call, and of a store; a supplier or global category of a
\* name; a global coupon of a code; the subscription of a browser.  Each request that
\* overlaps another may add one; where an index says so, as for a store's categories and
\* coupons, none.  Reviews name an order of that buyer that was paid, or delivered.
OneOfEach ==
    LET few == 1 + used.overlaps
    IN  /\ \A b \in Buyers, p \in Products :
             /\ Cardinality(ReviewsBy(b, p)) <= few
             /\ \A k \in ReviewsBy(b, p) : /\ Cardinality(reviews[k].images) <= few
                                           /\ order[reviews[k].order].buyer = b
                                           /\ order[reviews[k].order].product = p
                                           /\ order[reviews[k].order].paid
        /\ \A b \in Buyers, s \in Stores :
             /\ Cardinality(StoreReviewsBy(b, s)) <= few
             /\ \A k \in StoreReviewsBy(b, s) :
                  order[storeReviews[k].order].buyer = b
                    /\ order[storeReviews[k].order].status = "DELIVERED"
        /\ \A n \in Names : KindOf[n] # "menu" =>
             Cardinality(SameName(n)) <= IF IsCategory(n) /\ OwnerOf[n] # "none" THEN 1 ELSE few
        /\ \A c \in Coupons : Cardinality(Twins(c)) <= IF CouponStore[c] # "none" THEN 1 ELSE few
        /\ \A e \in Endpoints : Cardinality(RowsOf(e)) <= few
=============================================================================
