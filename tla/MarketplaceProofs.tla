-------------------------- MODULE MarketplaceProofs --------------------------
(***************************************************************************)
(* Proofs about Marketplace for every set of stores, products, users and   *)
(* overlapping requests, and every value of the bounds.                    *)
(***************************************************************************)
EXTENDS Marketplace, Sums, TLAPS

(* What a handler holds between two of its statements.  The types of the tables are *)
(* not inductive without it: the next statement writes what this one kept.          *)

Keys == Coupons \cup Names \cup Endpoints \cup Media \cup {"basic", "premium", "none"}
Request ==
    [pc : Pc, store : Stores \cup {"none"}, row : StoreRow, product : Products \cup {"none"},
     item : ProductRow, buyer : Buyers \cup {"none"}, key : Keys, id : Nat, num : Nat,
     call : Nat, list : SUBSET (Stores \cup Nat \cup RowStatus \cup NameState)]

\* A product that is there, or is about to be written, is in a store and a category.
Placed(item) ==
    item.here /\ item.store \in Stores /\ item.category \in Names /\ IsCategory(item.category)

HoldsStore(q) ==
    /\ q.pc \in {"insertStore", "saveStore", "insertAd", "raise", "lower", "insertSub", "latest",
                 "extend", "erase", "saveStoreReview"} => q.store \in Stores
    /\ q.pc = "saveStore" => q.row.here
HoldsProduct(q) ==
    /\ q.pc \in {"uses", "place", "sell", "insertProduct", "saveProduct", "insertRow", "insertFavorite",
                 "deleteRows", "deleteProduct", "saveReview", "saveWithPhotos"}
         => q.product \in Products
    /\ q.pc \in {"insertProduct", "saveProduct"} => Placed(q.item)
    /\ q.pc = "deleteRows" => q.num \in DOMAIN Deleted
HoldsBuyer(q) ==
    q.pc \in {"uses", "place", "insertFavorite", "saveReview", "saveWithPhotos",
              "saveStoreReview", "savePush"} => q.buyer \in Buyers
HoldsKey(q) ==
    /\ q.pc \in {"insertCoupon", "uses", "increment"} => q.key \in Coupons
    /\ q.pc = "place" => q.key \in Coupons \cup {"none"}
    /\ q.pc \in {"insertName", "saveName", "hide"} => q.key \in Names
    /\ q.pc \in {"insertSub", "latest", "extend"} => q.key \in {"basic", "premium"}
    /\ q.pc = "insertRow" => q.key \in Media
    /\ q.pc = "savePush" => q.key \in Endpoints
HoldsNumber(q) ==
    /\ q.pc \in {"insertAd", "raise", "insertSub", "latest", "extend"} => q.num \in Days
    /\ q.pc \in {"saveReview", "saveWithPhotos", "saveStoreReview"} => q.num > 0
    /\ q.pc \in {"saveReview", "saveWithPhotos", "clearPhotos", "insertPhotos"}
         => q.call \in 1..MaxEvents
HoldsList(q) ==
    /\ q.pc = "insertSub" => q.list # {} /\ q.list \subseteq {"ACTIVE", "EXPIRED"}
    /\ q.pc = "saveName" => q.list # {} /\ q.list \subseteq {"ACTIVE", "INACTIVE"}
    /\ q.pc \in {"saveReview", "saveWithPhotos"} => q.list \subseteq 1..MaxEvents

\* The rows a request has found are there: no table gets shorter.
Sizes ==
    [ads |-> Len(ads), subs |-> Len(subs), reviews |-> Len(reviews),
     storeReviews |-> Len(storeReviews), push |-> Len(push)]
Size == [ads : Nat, subs : Nat, reviews : Nat, storeReviews : Nat, push : Nat]
HoldsRow(q, n) ==
    /\ q.pc = "cancelAd" => q.id \in 1..n.ads
    /\ q.pc = "cancelSub" => q.id \in 1..n.subs
    /\ q.pc \in {"saveReview", "saveWithPhotos"} => q.id \in 0..n.reviews
    /\ q.pc \in {"clearPhotos", "insertPhotos"} => q.id \in 1..n.reviews
    /\ q.pc = "saveStoreReview" => q.id \in 0..n.storeReviews
    /\ q.pc = "savePush" => q.id \in 0..n.push
    /\ q.pc = "send" => q.list \subseteq 1..n.push
    /\ q.pc = "drop" => q.id \in 1..n.push /\ q.list \subseteq 1..n.push

Holding(q, n) ==
    /\ q \in Request
    /\ HoldsStore(q) /\ HoldsProduct(q) /\ HoldsBuyer(q) /\ HoldsKey(q) /\ HoldsNumber(q)
    /\ HoldsList(q) /\ HoldsRow(q, n)

RequestsHold == req \in [Requests -> Request] /\ \A r \in Requests : Holding(req[r], Sizes)

\* The tables, part by part.
OrderRow ==
    [buyer : Buyers, product : Products, status : OrderStatus, paid : BOOLEAN,
     coupon : Codes \cup {"none"}]
ShopOK ==
    /\ today \in Days /\ store \in [Stores -> StoreRow] /\ product \in [Products -> ProductRow]
    /\ rows \in [Products -> [Tables -> Nat]] /\ order \in Seq(OrderRow)
PromotionsOK == coupon \in [Coupons -> CouponRow] /\ ads \in Seq(PaidRow) /\ subs \in Seq(PaidRow)
CatalogueOK ==
    /\ named \in [Names -> NameState] /\ favorites \subseteq Buyers \X Products
    /\ reviews \in Seq(ReviewRow) /\ storeReviews \in Seq(StoreReviewRow)
LiveOK ==
    /\ tab \in [Tabs -> Buyers \cup {"none"}]
    /\ stream \in [Buyers -> [subjects : SUBSET Tabs, role : {"admin", "seller", "none"}]]
    /\ push \in Seq(PushRow)
UsedOK ==
    used \in [events : 0..MaxEvents, overlaps : 0..MaxOverlaps, faults : 0..MaxFaults,
              overrides : 0..MaxOverrides]

\* What a product and the payments of a store refer to is there.
ProductsRefer == \A p \in Products : product[p].here => Placed(product[p]) /\ Refers(product[p])
PaymentsRefer == \A i \in DOMAIN subs : subs[i].status # "GONE" => store[subs[i].store].here

TablesOK ==
    ShopOK /\ PromotionsOK /\ CatalogueOK /\ LiveOK /\ ProductsRefer /\ PaymentsRefer
TypeInv == TablesOK /\ UsedOK /\ RequestsHold

-----------------------------------------------------------------------------
(* The removal of a product against the orders and sales of it *)

SoldAreHere == \A p \in Products : Sold(p) => product[p].here

\* The rows of a product that a removal goes by explain each other.
Explained(p) ==
    /\ rows[p]["movements"] > 0 => rows[p]["batches"] > 0
    /\ rows[p]["allocations"] > 0 => Sold(p)

Selling(p) == \E r \in Requests : req[r].pc \in {"uses", "place", "sell"} /\ req[r].product = p
AtBatches(p) ==
    \E r \in Requests : req[r].pc = "deleteRows" /\ req[r].product = p /\ req[r].num = 3
HasMovement(p) == rows[p]["batches"] > 0 => rows[p]["movements"] > 0

\* The products that lost their batches to a removal that began before the order or sale
\* did, or the other way about, and those that may yet.
Contested ==
    {p \in Products : \/ Sold(p) /\ rows[p]["batches"] = 0
                      \/ BeingRemoved(p) /\ (Selling(p) \/ Sold(p))}

\* The products whose movements are gone with no removal about to take their batches, and
\* those of them that this may still come to: a removal is refused the batches of a product
\* only when it was sold meanwhile.
Torn == Contested \cup {p \in Products : ~HasMovement(p) /\ ~AtBatches(p)}

\* At most n things.
AtMost(S, n) == IsFiniteSet(S) /\ Cardinality(S) <= n

RemovalInv ==
    /\ SoldAreHere
    /\ \A p \in Products : Explained(p)
    /\ AtMost(Contested, used.overlaps)
    /\ AtMost(Torn, used.overlaps + used.faults)

(* The streams of a user are those of the open connections. *)

OpenFor(u) == {t \in Tabs : tab[t] = u}
Entry(u) == IF OpenFor(u) = {} THEN NoStream ELSE [subjects |-> OpenFor(u), role |-> RoleOf[u]]
StreamInv == \A u \in Buyers : stream[u] = Entry(u)

-----------------------------------------------------------------------------
(* Requests and the bounds *)

\* A slot in which nothing runs holds nothing.
LEMMA IdleHolds ==
    ASSUME NEW n
    PROVE  Holding(Idle, n) /\ Idle.pc = "idle"
  BY StorefrontAssumption
  DEF Holding, Idle, Request, HoldsStore, HoldsProduct, HoldsBuyer, HoldsKey, HoldsNumber,
      HoldsList, HoldsRow, NoStore, NoProduct, StoreRow, ProductRow, Pc, Keys, NoDay

\* What a request found stays found.
LEMMA HoldingLonger ==
    ASSUME NEW q, NEW n \in Size, NEW m \in Size, Holding(q, n),
           n.ads <= m.ads, n.subs <= m.subs, n.reviews <= m.reviews,
           n.storeReviews <= m.storeReviews, n.push <= m.push
    PROVE  Holding(q, m)
  BY DEF Holding, HoldsRow, Size, Request

\* A request goes on to hold q, and no table gets shorter.
LEMMA GoesOn ==
    ASSUME TypeInv, TablesOK', NEW r \in Requests, NEW q, Holding(q, Sizes'),
           req' = [req EXCEPT ![r] = q],
           Sizes.ads <= Sizes'.ads, Sizes.subs <= Sizes'.subs, Sizes.reviews <= Sizes'.reviews,
           Sizes.storeReviews <= Sizes'.storeReviews, Sizes.push <= Sizes'.push
    PROVE  RequestsHold'
<1>1. Sizes \in Size /\ Sizes' \in Size
  BY DEF TypeInv, TablesOK, PromotionsOK, CatalogueOK, LiveOK, Sizes, Size
<1>2. \A s \in Requests : Holding(req[s], Sizes')
  BY <1>1, HoldingLonger DEF TypeInv, RequestsHold
<1>3. \A s \in Requests : Holding(req'[s], Sizes') /\ req'[s] \in Request
  BY <1>2 DEF TypeInv, RequestsHold, Holding
<1> QED
  BY <1>3 DEF TypeInv, RequestsHold

TablesVars == <<shared, promotions, catalogue, live>>

\* A call counts as an event, and as an overlap when another request is running.
LEMMA CallCounts ==
    ASSUME UsedOK, NEW r \in Requests, NEW q, NEW k \in {0, 1}, Free(r), CallWith(r, q, k)
    PROVE  /\ UsedOK' /\ req' = [req EXCEPT ![r] = q]
           /\ used'.overlaps = used.overlaps + (IF Overlaps(r) THEN 1 ELSE 0)
           /\ used'.faults = used.faults
<1> DEFINE n == IF Overlaps(r) THEN used.overlaps + 1 ELSE used.overlaps
<1>1. /\ used.events \in 0..MaxEvents /\ used.overlaps \in 0..MaxOverlaps
      /\ used.faults \in 0..MaxFaults /\ used.overrides \in 0..MaxOverrides
  BY DEF UsedOK
<1>2. used.events + 1 \in 0..MaxEvents
  BY <1>1, StorefrontAssumption DEF Free
<1>3. n \in 0..MaxOverlaps
  BY <1>1, StorefrontAssumption DEF Free
<1>4. used.overrides + k \in 0..MaxOverrides
  BY <1>1, StorefrontAssumption DEF CallWith
<1>5. used' = [used EXCEPT !.events = used.events + 1, !.overrides = used.overrides + k,
                           !.overlaps = n]
  BY DEF CallWith
<1>6. n = used.overlaps + (IF Overlaps(r) THEN 1 ELSE 0)
  BY <1>1
<1> HIDE DEF n
<1>7. /\ used' \in [events : 0..MaxEvents, overlaps : 0..MaxOverlaps, faults : 0..MaxFaults,
                     overrides : 0..MaxOverrides]
      /\ used'.overlaps = n /\ used'.faults = used.faults
  BY <1>2, <1>3, <1>4, <1>5 DEF UsedOK
<1> QED
  BY <1>6, <1>7 DEF UsedOK, CallWith

\* Handlers that change no table.
LEMMA TablesSame ==
    ASSUME TablesOK, UNCHANGED TablesVars
    PROVE  TablesOK' /\ Sizes' = Sizes
  BY DEF TablesOK, TablesVars, shared, promotions, catalogue, live, ShopOK, PromotionsOK,
         CatalogueOK, LiveOK, ProductsRefer, PaymentsRefer, Refers, There, Sizes

SizesGrow ==
    /\ Sizes.ads <= Sizes'.ads /\ Sizes.subs <= Sizes'.subs /\ Sizes.reviews <= Sizes'.reviews
    /\ Sizes.storeReviews <= Sizes'.storeReviews /\ Sizes.push <= Sizes'.push

\* Tables whose lists keep their lengths have grown.
LEMMA SizesSameGrow ==
    ASSUME TablesOK, Sizes' = Sizes
    PROVE  SizesGrow
  BY DEF SizesGrow, TablesOK, PromotionsOK, CatalogueOK, LiveOK, Sizes

\* A call that begins, having read or changed the tables.
LEMMA CallTypes ==
    ASSUME TypeInv, TablesOK', SizesGrow, NEW r \in Requests, NEW q, Holding(q, Sizes'),
           NEW k \in {0, 1}, Free(r), CallWith(r, q, k)
    PROVE  TypeInv'
<1>1. UsedOK' /\ req' = [req EXCEPT ![r] = q]
  BY CallCounts DEF TypeInv
<1>2. RequestsHold'
  BY <1>1, GoesOn DEF SizesGrow
<1> QED
  BY <1>1, <1>2 DEF TypeInv

\* A request that goes on.
LEMMA GotoTypes ==
    ASSUME TypeInv, TablesOK', SizesGrow, NEW r \in Requests, NEW q, Holding(q, Sizes'),
           Goto(r, q)
    PROVE  TypeInv'
<1>1. UsedOK' /\ req' = [req EXCEPT ![r] = q]
  BY DEF TypeInv, UsedOK, Goto
<1>2. RequestsHold'
  BY <1>1, GoesOn DEF SizesGrow
<1> QED
  BY <1>1, <1>2 DEF TypeInv

\* A handler that returns frees its slot.
LEMMA ReturnTypes ==
    ASSUME TypeInv, TablesOK', SizesGrow, NEW r \in Requests, Return(r)
    PROVE  TypeInv'
  BY GotoTypes, IdleHolds DEF Return

\* A call that begins and changes no table.
LEMMA CallKeepsTypes ==
    ASSUME TypeInv, UNCHANGED TablesVars, NEW r \in Requests, NEW q, Holding(q, Sizes),
           NEW k \in {0, 1}, Free(r), CallWith(r, q, k)
    PROVE  TypeInv'
<1>1. TablesOK' /\ Sizes' = Sizes
  BY TablesSame DEF TypeInv
<1> QED
  BY <1>1, CallTypes, SizesSameGrow DEF TypeInv

\* A handler that goes on and changes no table.
LEMMA GotoKeepsTypes ==
    ASSUME TypeInv, UNCHANGED TablesVars, NEW r \in Requests, NEW q, Holding(q, Sizes), Goto(r, q)
    PROVE  TypeInv'
<1>1. TablesOK' /\ Sizes' = Sizes
  BY TablesSame DEF TypeInv
<1> QED
  BY <1>1, GotoTypes, SizesSameGrow DEF TypeInv

-----------------------------------------------------------------------------
(* Stores and the life of orders *)

\* A store that is there stays, so what refers to it still does.
LEMMA StoreStays ==
    ASSUME TablesOK, store' \in [Stores -> StoreRow],
           \A s \in Stores : store[s].here => store'[s].here,
           UNCHANGED <<today, product, rows, order, promotions, catalogue, live>>
    PROVE  TablesOK' /\ Sizes' = Sizes
<1>1. ShopOK' /\ PromotionsOK' /\ CatalogueOK' /\ LiveOK' /\ Sizes' = Sizes
  BY DEF TablesOK, promotions, catalogue, live, ShopOK, PromotionsOK, CatalogueOK, LiveOK, Sizes
<1>2. ProductsRefer'
  BY DEF TablesOK, catalogue, ProductsRefer, Placed, Refers, There
<1>3. PaymentsRefer'
  <2>1. \A i \in DOMAIN subs : subs[i] \in PaidRow
    BY DEF TablesOK, PromotionsOK
  <2>2. \A i \in DOMAIN subs : subs[i].store \in Stores
    BY <2>1 DEF PaidRow
  <2> QED
    BY <2>2 DEF TablesOK, promotions, PaymentsRefer
<1> QED
  BY <1>1, <1>2, <1>3 DEF TablesOK

\* A row the store controller holds can be written back.
LEMMA EditTypes ==
    ASSUME TypeInv, NEW r \in Requests, NEW s \in Stores, Free(r),
           BeginCreateStore(r, s) \/ BeginEditStore(r, s) \/ BeginRuleStore(r, s),
           UNCHANGED <<promotions, catalogue, live>>
    PROVE  TypeInv'
<1> USE DEF Call
<1>0. UNCHANGED TablesVars
  BY DEF BeginCreateStore, BeginEditStore, BeginRuleStore, TablesVars
<1>1. CASE BeginCreateStore(r, s)
  <2> DEFINE q == [Idle EXCEPT !.pc = "insertStore", !.store = s]
  <2>1. q \in Request /\ q.pc = "insertStore" /\ q.store = s
    BY IdleHolds DEF Holding, Request, Pc
  <2> HIDE DEF q
  <2>2. Holding(q, Sizes)
    BY <2>1 DEF Holding, HoldsStore, HoldsProduct, HoldsBuyer, HoldsKey, HoldsNumber, HoldsList,
                HoldsRow
  <2> QED
    BY <1>0, <1>1, <2>2, CallKeepsTypes DEF BeginCreateStore, q
<1>2. ASSUME NEW row \in StoreRow, row.here, NEW k \in {0, 1},
             CallWith(r, [Idle EXCEPT !.pc = "saveStore", !.store = s, !.row = row], k)
      PROVE  TypeInv'
  <2> DEFINE q == [Idle EXCEPT !.pc = "saveStore", !.store = s, !.row = row]
  <2>1. q \in Request /\ q.pc = "saveStore" /\ q.store = s /\ q.row = row
    BY IdleHolds DEF Holding, Request, Pc
  <2> HIDE DEF q
  <2>2. Holding(q, Sizes)
    BY <1>2, <2>1 DEF Holding, HoldsStore, HoldsProduct, HoldsBuyer, HoldsKey, HoldsNumber,
                      HoldsList, HoldsRow
  <2> QED
    BY <1>0, <1>2, <2>2, CallKeepsTypes DEF q
<1>3. store[s] \in StoreRow
  BY DEF TypeInv, TablesOK, ShopOK
<1>4. CASE BeginEditStore(r, s)
  BY <1>2, <1>3, <1>4 DEF BeginEditStore
<1>5. CASE BeginRuleStore(r, s)
  <2>1. /\ [store[s] EXCEPT !.active = ~@] \in StoreRow
        /\ [store[s] EXCEPT !.premium = ~@] \in StoreRow
        /\ \A day \in {NoDay} \cup Days : [store[s] EXCEPT !.subEnds = day] \in StoreRow
    BY <1>3 DEF StoreRow
  <2>2. /\ [store[s] EXCEPT !.active = ~@].here = store[s].here
        /\ [store[s] EXCEPT !.premium = ~@].here = store[s].here
        /\ \A day \in {NoDay} \cup Days : [store[s] EXCEPT !.subEnds = day].here = store[s].here
    BY <1>3 DEF StoreRow
  <2> QED
    BY <1>2, <1>5, <2>1, <2>2 DEF BeginRuleStore
<1> QED
  BY <1>1, <1>4, <1>5

\* The rows a store handler writes.
LEMMA StoreRowTypes ==
    /\ NewStore \in StoreRow /\ NewStore.here /\ NoStore \in StoreRow
  BY DEF NewStore, NoStore, StoreRow, NoDay

\* The insert of POST /stores and the save of a store that a handler had loaded.
LEMMA StoreRunTypes ==
    ASSUME TypeInv, NEW r \in Requests, StoreRun(r), UNCHANGED <<promotions, catalogue, live>>
    PROVE  TypeInv'
<1>1. CASE InsertStore(r)
  <2>1. req[r].store \in Stores
    BY <1>1 DEF InsertStore, TypeInv, RequestsHold, Holding, HoldsStore
  <2>2. store' \in [Stores -> StoreRow] /\ \A s \in Stores : store[s].here => store'[s].here
    BY <1>1, <2>1, StoreRowTypes DEF InsertStore, TypeInv, TablesOK, ShopOK
  <2>3. TablesOK' /\ Sizes' = Sizes
    BY <1>1, <2>2, StoreStays DEF InsertStore, TypeInv
  <2> QED
    BY <1>1, <2>3, ReturnTypes, SizesSameGrow DEF InsertStore, TypeInv
<1>2. CASE SaveStore(r)
  <2>1. req[r].store \in Stores /\ req[r].row \in StoreRow /\ req[r].row.here
    BY <1>2 DEF SaveStore, TypeInv, RequestsHold, Holding, HoldsStore, Request
  <2>2. store' \in [Stores -> StoreRow] /\ \A s \in Stores : store[s].here => store'[s].here
    BY <1>2, <2>1 DEF SaveStore, TypeInv, TablesOK, ShopOK
  <2>3. TablesOK' /\ Sizes' = Sizes
    BY <1>2, <2>2, StoreStays DEF SaveStore, TypeInv
  <2> QED
    BY <1>2, <2>3, ReturnTypes, SizesSameGrow DEF SaveStore, TypeInv
<1> QED
  BY <1>1, <1>2 DEF StoreRun

\* An order changes where it is.
LEMMA OrderStays ==
    ASSUME TablesOK, order' \in Seq(OrderRow),
           UNCHANGED <<today, store, product, rows, promotions, catalogue, live>>
    PROVE  TablesOK' /\ Sizes' = Sizes
<1>1. ShopOK' /\ PromotionsOK' /\ CatalogueOK' /\ LiveOK' /\ Sizes' = Sizes
  BY DEF TablesOK, promotions, catalogue, live, ShopOK, PromotionsOK, CatalogueOK, LiveOK, Sizes
<1>2. ProductsRefer' /\ PaymentsRefer'
  BY DEF TablesOK, promotions, catalogue, ProductsRefer, Placed, Refers, There, PaymentsRefer
<1> QED
  BY <1>1, <1>2 DEF TablesOK

\* An order is paid or is no longer OPEN.
LEMMA ProgressTypes ==
    ASSUME TypeInv, NEW r \in Requests, NEW o \in Orders, Free(r), Progress(r, o),
           UNCHANGED <<promotions, catalogue, live>>
    PROVE  TypeInv'
<1>1. order \in Seq(OrderRow) /\ o \in 1..Len(order) /\ order[o] \in OrderRow
  BY DEF TypeInv, TablesOK, ShopOK, Orders
<1>2. [order[o] EXCEPT !.paid = TRUE] \in OrderRow
  BY <1>1 DEF OrderRow
<1>3. \A status \in OrderStatus : [order[o] EXCEPT !.status = status] \in OrderRow
  BY <1>1 DEF OrderRow
<1>4. PICK row \in OrderRow : order' = [order EXCEPT ![o] = row]
  <2>1. CASE order' = [order EXCEPT ![o].paid = TRUE]
    BY <1>2, <2>1
  <2>2. CASE \E status \in OrderStatus \ {"OPEN"} : order' = [order EXCEPT ![o].status = status]
    BY <1>3, <2>2
  <2> QED
    BY <2>1, <2>2 DEF Progress
<1>5. order' \in Seq(OrderRow)
  BY <1>1, <1>4
<1>6. TablesOK' /\ Sizes' = Sizes
  BY <1>5, OrderStays DEF Progress, TypeInv
<1> QED
  BY <1>6, CallTypes, IdleHolds, SizesSameGrow DEF Progress, Call, TypeInv

\* A new day, and a request that dies.
LEMMA TickTypes ==
    ASSUME TypeInv, Tick, UNCHANGED <<promotions, catalogue, live>>
    PROVE  TypeInv'
<1>1. ShopOK' /\ PromotionsOK' /\ CatalogueOK' /\ LiveOK' /\ Sizes' = Sizes
  BY StorefrontAssumption
  DEF Tick, TypeInv, TablesOK, promotions, catalogue, live, ShopOK, PromotionsOK, CatalogueOK,
      LiveOK, Sizes, Days
<1>2. ProductsRefer' /\ PaymentsRefer'
  BY DEF Tick, TypeInv, TablesOK, promotions, catalogue, ProductsRefer, Placed, Refers, There,
         PaymentsRefer
<1>3. UsedOK'
  BY StorefrontAssumption DEF Tick, Happens, TypeInv, UsedOK
<1>4. RequestsHold'
  BY <1>1 DEF Tick, TypeInv, RequestsHold
<1> QED
  BY <1>1, <1>2, <1>3, <1>4 DEF TypeInv, TablesOK

\* The process of a handler stops between two of its statements.
LEMMA DieTypes ==
    ASSUME TypeInv, NEW r \in Requests, Die(r), UNCHANGED <<promotions, catalogue, live>>
    PROVE  TypeInv'
<1>1. TablesOK' /\ Sizes' = Sizes
  BY TablesSame DEF Die, TablesVars, shared, TypeInv
<1>2. UsedOK'
  <2>1. /\ used.events \in 0..MaxEvents /\ used.overlaps \in 0..MaxOverlaps
        /\ used.faults \in 0..MaxFaults /\ used.overrides \in 0..MaxOverrides
    BY DEF TypeInv, UsedOK
  <2>2. used.events + 1 \in 0..MaxEvents /\ used.faults + 1 \in 0..MaxFaults
    BY <2>1, StorefrontAssumption DEF Die
  <2>3. used' = [used EXCEPT !.events = used.events + 1, !.faults = used.faults + 1]
    BY DEF Die
  <2> QED
    BY <2>1, <2>2, <2>3 DEF TypeInv, UsedOK
<1>3. RequestsHold'
  BY <1>1, GoesOn, IdleHolds, SizesSameGrow DEF Die, TypeInv, SizesGrow
<1> QED
  BY <1>1, <1>2, <1>3 DEF TypeInv

-----------------------------------------------------------------------------
(* Promotions *)

\* The table of coupons changes, or one of the two tables of what was paid for.
LEMMA CouponStays ==
    ASSUME TablesOK, coupon' \in [Coupons -> CouponRow],
           UNCHANGED <<shared, ads, subs, catalogue, live>>
    PROVE  TablesOK' /\ Sizes' = Sizes
<1>1. ShopOK' /\ PromotionsOK' /\ CatalogueOK' /\ LiveOK' /\ Sizes' = Sizes
  BY DEF TablesOK, shared, catalogue, live, ShopOK, PromotionsOK, CatalogueOK, LiveOK, Sizes
<1>2. ProductsRefer' /\ PaymentsRefer'
  BY DEF TablesOK, shared, catalogue, ProductsRefer, Placed, Refers, There, PaymentsRefer
<1> QED
  BY <1>1, <1>2 DEF TablesOK

\* A step that appends to the advertisements or rewrites one of them.
LEMMA AdsStay ==
    ASSUME TablesOK, ads' \in Seq(PaidRow), Len(ads) <= Len(ads'),
           UNCHANGED <<shared, coupon, subs, catalogue, live>>
    PROVE  TablesOK' /\ SizesGrow
<1>1. ShopOK' /\ PromotionsOK' /\ CatalogueOK' /\ LiveOK'
  BY DEF TablesOK, shared, catalogue, live, ShopOK, PromotionsOK, CatalogueOK, LiveOK
<1>2. ProductsRefer' /\ PaymentsRefer'
  BY DEF TablesOK, shared, catalogue, ProductsRefer, Placed, Refers, There, PaymentsRefer
<1>3. SizesGrow
  BY DEF SizesGrow, Sizes, TablesOK, PromotionsOK, CatalogueOK, LiveOK, catalogue, live
<1> QED
  BY <1>1, <1>2, <1>3 DEF TablesOK

\* A step that appends to the subscription payments or rewrites one of them.
LEMMA SubsStay ==
    ASSUME TablesOK, subs' \in Seq(PaidRow), Len(subs) <= Len(subs'), PaymentsRefer',
           UNCHANGED <<shared, coupon, ads, catalogue, live>>
    PROVE  TablesOK' /\ SizesGrow
<1>1. ShopOK' /\ PromotionsOK' /\ CatalogueOK' /\ LiveOK'
  BY DEF TablesOK, shared, catalogue, live, ShopOK, PromotionsOK, CatalogueOK, LiveOK
<1>2. ProductsRefer'
  BY DEF TablesOK, shared, catalogue, ProductsRefer, Placed, Refers, There
<1>3. SizesGrow
  BY DEF SizesGrow, Sizes, TablesOK, PromotionsOK, CatalogueOK, LiveOK, catalogue, live
<1> QED
  BY <1>1, <1>2, <1>3 DEF TablesOK

\* Coupons, orders, campaigns and payments as their handlers begin.
LEMMA CouponsTypes ==
    ASSUME TypeInv, NEW r \in Requests, NEW c \in Coupons, Free(r),
           BeginCreateCoupon(r, c) \/ RemoveCoupon(r, c), UNCHANGED <<catalogue, live>>
    PROVE  TypeInv'
<1>1. CASE BeginCreateCoupon(r, c)
  <2> DEFINE q == [Idle EXCEPT !.pc = "insertCoupon", !.key = c]
  <2>1. q \in Request /\ q.pc = "insertCoupon" /\ q.key = c
    BY IdleHolds DEF Holding, Request, Pc, Keys
  <2> HIDE DEF q
  <2>2. Holding(q, Sizes)
    BY <2>1 DEF Holding, HoldsStore, HoldsProduct, HoldsBuyer, HoldsKey, HoldsNumber,
                HoldsList, HoldsRow
  <2> QED
    BY <1>1, <2>2, CallKeepsTypes DEF BeginCreateCoupon, TablesVars, q, Call
<1>2. CASE RemoveCoupon(r, c)
  <2>1. coupon' \in [Coupons -> CouponRow]
    BY <1>2 DEF RemoveCoupon, TypeInv, TablesOK, PromotionsOK, CouponRow
  <2>2. TablesOK' /\ Sizes' = Sizes
    BY <1>2, <2>1, CouponStays DEF RemoveCoupon, TypeInv
  <2> QED
    BY <1>2, <2>2, CallTypes, IdleHolds, SizesSameGrow DEF RemoveCoupon, Call, TypeInv
<1> QED
  BY <1>1, <1>2

\* POST /orders begins, with a coupon or without.
LEMMA OrdersTypes ==
    ASSUME TypeInv, NEW r \in Requests, NEW b \in Buyers, NEW p \in Products, Free(r),
           BeginOrder(r, b, p) \/ \E c \in Coupons : BeginOrderWith(r, b, p, c),
           UNCHANGED <<catalogue, live>>
    PROVE  TypeInv'
<1>1. CASE BeginOrder(r, b, p)
  <2> DEFINE q == [Idle EXCEPT !.pc = "place", !.buyer = b, !.product = p]
  <2>1. q \in Request /\ q.pc = "place" /\ q.buyer = b /\ q.product = p /\ q.key = "none"
    BY IdleHolds DEF Holding, Request, Pc, Idle
  <2> HIDE DEF q
  <2>2. Holding(q, Sizes)
    BY <2>1 DEF Holding, HoldsStore, HoldsProduct, HoldsBuyer, HoldsKey, HoldsNumber,
                HoldsList, HoldsRow
  <2> QED
    BY <1>1, <2>2, CallKeepsTypes DEF BeginOrder, TablesVars, q, Call
<1>2. ASSUME NEW c \in Coupons, BeginOrderWith(r, b, p, c)
      PROVE  TypeInv'
  <2> DEFINE q == [Idle EXCEPT !.pc = "uses", !.buyer = b, !.product = p, !.key = c]
  <2>1. q \in Request /\ q.pc = "uses" /\ q.buyer = b /\ q.product = p /\ q.key = c
    BY IdleHolds DEF Holding, Request, Pc, Keys
  <2> HIDE DEF q
  <2>2. Holding(q, Sizes)
    BY <2>1 DEF Holding, HoldsStore, HoldsProduct, HoldsBuyer, HoldsKey, HoldsNumber,
                HoldsList, HoldsRow
  <2> QED
    BY <1>2, <2>2, CallKeepsTypes DEF BeginOrderWith, TablesVars, q, Call
<1> QED
  BY <1>1, <1>2

\* A sale at the counter begins.
LEMMA SalesTypes ==
    ASSUME TypeInv, NEW r \in Requests, NEW p \in Products, Free(r), BeginSale(r, p),
           UNCHANGED <<catalogue, live>>
    PROVE  TypeInv'
<1> DEFINE q == [Idle EXCEPT !.pc = "sell", !.product = p]
<1>1. q \in Request /\ q.pc = "sell" /\ q.product = p
  BY IdleHolds DEF Holding, Request, Pc
<1> HIDE DEF q
<1>2. Holding(q, Sizes)
  BY <1>1 DEF Holding, HoldsStore, HoldsProduct, HoldsBuyer, HoldsKey, HoldsNumber,
              HoldsList, HoldsRow
<1> QED
  BY <1>2, CallKeepsTypes DEF BeginSale, TablesVars, q, Call

\* Advertisements are registered and cancelled, and the job that expires them starts.
LEMMA AdvertisingTypes ==
    ASSUME TypeInv, NEW r \in Requests, Free(r), AdvertisingController(r) \/ BeginExpire(r),
           UNCHANGED <<catalogue, live>>
    PROVE  TypeInv'
<1>1. ASSUME NEW s \in Stores, NEW day \in Days, BeginRegisterAd(r, s, day)
      PROVE  TypeInv'
  <2> DEFINE q == [Idle EXCEPT !.pc = "insertAd", !.store = s, !.num = day]
  <2>1. day \in Nat
    BY StorefrontAssumption DEF Days
  <2>2. q \in Request /\ q.pc = "insertAd" /\ q.store = s /\ q.num = day
    BY <2>1, IdleHolds DEF Holding, Request, Pc
  <2> HIDE DEF q
  <2>3. Holding(q, Sizes)
    BY <2>2, <2>1 DEF Holding, HoldsStore, HoldsProduct, HoldsBuyer, HoldsKey, HoldsNumber,
                      HoldsList, HoldsRow
  <2> QED
    BY <1>1, <2>3, CallKeepsTypes DEF BeginRegisterAd, TablesVars, q, Call
<1>2. ASSUME NEW a \in DOMAIN ads, BeginCancelAd(r, a)
      PROVE  TypeInv'
  <2> DEFINE q == [Idle EXCEPT !.pc = "cancelAd", !.id = a]
  <2>1. a \in 1..Len(ads) /\ a \in Nat
    BY DEF TypeInv, TablesOK, PromotionsOK
  <2>2. q \in Request /\ q.pc = "cancelAd" /\ q.id = a
    BY <2>1, IdleHolds DEF Holding, Request, Pc
  <2> HIDE DEF q
  <2>3. Holding(q, Sizes)
    BY <2>2, <2>1 DEF Holding, HoldsStore, HoldsProduct, HoldsBuyer, HoldsKey, HoldsNumber,
                      HoldsList, HoldsRow, Sizes
  <2> QED
    BY <1>2, <2>3, CallKeepsTypes DEF BeginCancelAd, TablesVars, q, Call
<1>3. CASE BeginExpire(r)
  <2> DEFINE q == [Idle EXCEPT !.pc = "lowerAll", !.list = {s \in Stores : Overdue(s)}]
  <2>1. q \in Request /\ q.pc = "lowerAll"
    BY IdleHolds DEF Holding, Request, Pc
  <2> HIDE DEF q
  <2>2. Holding(q, Sizes)
    BY <2>1 DEF Holding, HoldsStore, HoldsProduct, HoldsBuyer, HoldsKey, HoldsNumber,
                HoldsList, HoldsRow
  <2> QED
    BY <1>3, <2>2, CallKeepsTypes DEF BeginExpire, TablesVars, q, Call
<1> QED
  BY <1>1, <1>2, <1>3 DEF AdvertisingController

\* A subscription payment is recorded or cancelled.
LEMMA SubscriptionsTypes ==
    ASSUME TypeInv, NEW r \in Requests, Free(r), SubscriptionsController(r),
           UNCHANGED <<catalogue, live>>
    PROVE  TypeInv'
<1>1. ASSUME NEW s \in Stores, NEW day \in Days, NEW plan \in {"basic", "premium"},
             NEW status \in {"ACTIVE", "EXPIRED"}, BeginPay(r, s, plan, day, status)
      PROVE  TypeInv'
  <2> DEFINE q == [Idle EXCEPT !.pc = "insertSub", !.store = s, !.key = plan, !.num = day,
                          !.list = {status}]
  <2>1. day \in Nat /\ plan \in Keys
    BY StorefrontAssumption DEF Days, Keys
  <2>2. {status} \in SUBSET (Stores \cup Nat \cup RowStatus \cup NameState)
    BY DEF RowStatus
  <2>3. q \in Request /\ q.pc = "insertSub" /\ q.store = s /\ q.key = plan /\ q.num = day
        /\ q.list = {status}
    BY <2>1, <2>2, IdleHolds DEF Holding, Request, Pc
  <2> HIDE DEF q
  <2>4. Holding(q, Sizes)
    BY <2>3, <2>1, <2>2 DEF Holding, HoldsStore, HoldsProduct, HoldsBuyer, HoldsKey,
                            HoldsNumber, HoldsList, HoldsRow
  <2> QED
    BY <1>1, <2>4, CallKeepsTypes DEF BeginPay, TablesVars, q, Call
<1>2. ASSUME NEW i \in DOMAIN subs, BeginCancelSub(r, i)
      PROVE  TypeInv'
  <2> DEFINE q == [Idle EXCEPT !.pc = "cancelSub", !.id = i]
  <2>1. i \in 1..Len(subs) /\ i \in Nat
    BY DEF TypeInv, TablesOK, PromotionsOK
  <2>2. q \in Request /\ q.pc = "cancelSub" /\ q.id = i
    BY <2>1, IdleHolds DEF Holding, Request, Pc
  <2> HIDE DEF q
  <2>3. Holding(q, Sizes)
    BY <2>2, <2>1 DEF Holding, HoldsStore, HoldsProduct, HoldsBuyer, HoldsKey, HoldsNumber,
                      HoldsList, HoldsRow, Sizes
  <2> QED
    BY <1>2, <2>3, CallKeepsTypes DEF BeginCancelSub, TablesVars, q, Call
<1> QED
  BY <1>1, <1>2 DEF SubscriptionsController

\* Every call of coupons, orders, advertising and subscriptions.
LEMMA PromotionBeginTypes ==
    ASSUME TypeInv, NEW r \in Requests, Free(r), PromotionBegin(r), UNCHANGED <<catalogue, live>>
    PROVE  TypeInv'
  BY CouponsTypes, OrdersTypes, SalesTypes, AdvertisingTypes, SubscriptionsTypes
  DEF PromotionBegin, CouponsController, OrdersController, SalesController

\* The tables that a product's rows are counted in.
LEMMA TablesAre ==
    /\ {"allocations", "movements", "batches", "reviews", "favorites", "videos", "images",
        "variants", "purchases", "sales"} \subseteq Tables
    /\ DOMAIN Deleted = 1..7 /\ Len(Deleted) = 7
    /\ \A i \in 1..7 : Deleted[i] \in Tables
    /\ Deleted[1] = "allocations" /\ Deleted[2] = "movements" /\ Deleted[3] = "batches"
    /\ \A i \in 4..7 : Deleted[i] \notin {"allocations", "movements", "batches", "sales"}
<1>1. Len(Deleted) = 7 /\ DOMAIN Deleted = 1..7
  BY DEF Deleted
<1>2. /\ Deleted[1] = "allocations" /\ Deleted[2] = "movements" /\ Deleted[3] = "batches"
      /\ Deleted[4] = "reviews" /\ Deleted[5] = "favorites" /\ Deleted[6] = "videos"
      /\ Deleted[7] = "images"
  BY DEF Deleted
<1>3. \A i \in 1..7 : Deleted[i] \in Tables
  BY <1>1 DEF Tables
<1>4. \A i \in 4..7 : i = 4 \/ i = 5 \/ i = 6 \/ i = 7
  OBVIOUS
<1>5. {"variants", "purchases", "sales"} \subseteq Tables
  BY DEF Tables
<1>6. 1 \in 1..7 /\ 2 \in 1..7 /\ 3 \in 1..7 /\ 4 \in 1..7 /\ 5 \in 1..7 /\ 6 \in 1..7 /\ 7 \in 1..7
  OBVIOUS
<1>7. {"allocations", "movements", "batches", "reviews", "favorites", "videos", "images"}
        \subseteq Tables
  BY <1>2, <1>3, <1>6
<1> QED
  BY <1>1, <1>2, <1>3, <1>4, <1>5, <1>7

\* A count is raised, lowered while it can be, or set to 0 or 1.
LEMMA RowSetTypes ==
    ASSUME NEW m \in [Products -> [Tables -> Nat]], NEW p \in Products, NEW t \in Tables
    PROVE  /\ [m EXCEPT ![p][t] = @ + 1] \in [Products -> [Tables -> Nat]]
           /\ \A n \in Nat : [m EXCEPT ![p][t] = n] \in [Products -> [Tables -> Nat]]
           /\ m[p][t] > 0 => [m EXCEPT ![p][t] = @ - 1] \in [Products -> [Tables -> Nat]]
<1>1. m[p] \in [Tables -> Nat] /\ m[p][t] \in Nat
  OBVIOUS
<1>2. ASSUME NEW n \in Nat
      PROVE  [m EXCEPT ![p][t] = n] \in [Products -> [Tables -> Nat]]
  <2>1. [m[p] EXCEPT ![t] = n] \in [Tables -> Nat]
    BY <1>1
  <2> QED
    BY <2>1
<1>3. [m EXCEPT ![p][t] = @ + 1] = [m EXCEPT ![p][t] = m[p][t] + 1]
      /\ [m EXCEPT ![p][t] = @ - 1] = [m EXCEPT ![p][t] = m[p][t] - 1]
  OBVIOUS
<1>4. m[p][t] + 1 \in Nat /\ (m[p][t] > 0 => m[p][t] - 1 \in Nat)
  BY <1>1
<1> QED
  BY <1>2, <1>3, <1>4

\* A step that changes the orders and the counts of rows, but no other table.
LEMMA RowsStay ==
    ASSUME TablesOK, order' \in Seq(OrderRow), rows' \in [Products -> [Tables -> Nat]],
           UNCHANGED <<today, store, product, promotions, catalogue, live>>
    PROVE  TablesOK' /\ Sizes' = Sizes
<1>1. ShopOK' /\ PromotionsOK' /\ CatalogueOK' /\ LiveOK' /\ Sizes' = Sizes
  BY DEF TablesOK, promotions, catalogue, live, ShopOK, PromotionsOK, CatalogueOK, LiveOK, Sizes
<1>2. ProductsRefer' /\ PaymentsRefer'
  BY DEF TablesOK, promotions, catalogue, ProductsRefer, Placed, Refers, There, PaymentsRefer
<1> QED
  BY <1>1, <1>2 DEF TablesOK

\* Coupons.
LEMMA CouponRunTypes ==
    ASSUME TypeInv, NEW r \in Requests, InsertCoupon(r) \/ Increment(r),
           UNCHANGED <<catalogue, live>>
    PROVE  TypeInv'
<1>1. req[r].key \in Coupons
  BY DEF InsertCoupon, Increment, TypeInv, RequestsHold, Holding, HoldsKey
<1>2. coupon[req[r].key] \in CouponRow
  BY <1>1 DEF TypeInv, TablesOK, PromotionsOK
<1>3. coupon' \in [Coupons -> CouponRow]
  <2>1. [coupon[req[r].key] EXCEPT !.state = "LIVE"] \in CouponRow
    BY <1>2 DEF CouponRow
  <2>2. [coupon[req[r].key] EXCEPT !.used = IF coupon[req[r].key].state = "LIVE" THEN @ + 1
                                            ELSE @] \in CouponRow
    BY <1>2 DEF CouponRow
  <2>3. coupon \in [Coupons -> CouponRow]
    BY DEF TypeInv, TablesOK, PromotionsOK
  <2> QED
    BY <1>1, <2>1, <2>2, <2>3 DEF InsertCoupon, Increment
<1>4. TablesOK' /\ Sizes' = Sizes
  BY <1>3, CouponStays DEF InsertCoupon, Increment, TypeInv
<1> QED
  BY <1>4, ReturnTypes, SizesSameGrow DEF InsertCoupon, Increment, TypeInv

\* The order of a customer.
LEMMA CountUsesTypes ==
    ASSUME TypeInv, NEW r \in Requests, CountUses(r), UNCHANGED <<catalogue, live>>
    PROVE  TypeInv'
<1> DEFINE q == [req[r] EXCEPT !.pc = "place"]
<1>1. req[r] \in Request /\ req[r].pc = "uses" /\ Holding(req[r], Sizes)
  BY DEF CountUses, TypeInv, RequestsHold
<1>2. q \in Request /\ q.pc = "place" /\ q.buyer = req[r].buyer /\ q.product = req[r].product
      /\ q.key = req[r].key
  BY <1>1 DEF Request, Pc
<1> HIDE DEF q
<1>3. Holding(q, Sizes)
  BY <1>1, <1>2 DEF Holding, HoldsStore, HoldsProduct, HoldsBuyer, HoldsKey, HoldsNumber,
                    HoldsList, HoldsRow
<1>4. UNCHANGED TablesVars
  BY DEF CountUses, TablesVars
<1> QED
  BY <1>3, <1>4, GotoKeepsTypes, IdleHolds DEF CountUses, Return, q

\* The transaction of POST /orders.
LEMMA PlaceOrderTypes ==
    ASSUME TypeInv, NEW r \in Requests, PlaceOrder(r), UNCHANGED <<catalogue, live>>
    PROVE  TypeInv'
<1> DEFINE q == req[r]
           code == IF q.key = "none" THEN "none" ELSE CodeOf[q.key]
           next == [Idle EXCEPT !.pc = "increment", !.key = q.key]
<1>1. /\ q.pc = "place" /\ q.buyer \in Buyers /\ q.product \in Products
      /\ q.key \in Coupons \cup {"none"} /\ q \in Request
  BY DEF PlaceOrder, TypeInv, RequestsHold, Holding, HoldsBuyer, HoldsProduct, HoldsKey
<1>2. NewOrder(q.buyer, q.product, code) \in OrderRow
  BY <1>1 DEF NewOrder, OrderRow, OrderStatus, Codes
<1>3. q.key # "none" => Holding(next, Sizes)
  <2> SUFFICES ASSUME q.key # "none"
               PROVE  Holding(next, Sizes)
    OBVIOUS
  <2>1. next \in Request /\ next.pc = "increment" /\ next.key \in Coupons
    BY <1>1, IdleHolds, ZenonT(40) DEF Holding, Request, Pc, Keys
  <2> HIDE DEF next
  <2> QED
    BY <2>1 DEF Holding, HoldsStore, HoldsProduct, HoldsBuyer, HoldsKey, HoldsNumber, HoldsList,
                HoldsRow
<1>4. CASE UNCHANGED <<order, rows>> /\ Return(r)
  <2>1. UNCHANGED TablesVars
    BY <1>4 DEF PlaceOrder, TablesVars, shared
  <2> QED
    BY <1>4, <2>1, GotoKeepsTypes, IdleHolds DEF Return
<1>5. CASE /\ order' = Append(order, NewOrder(q.buyer, q.product, code))
           /\ rows' = [rows EXCEPT ![q.product]["movements"] = @ + 1,
                                   ![q.product]["allocations"] = @ + 1]
           /\ IF q.key = "none" THEN Return(r) ELSE Goto(r, next)
  <2>1. order \in Seq(OrderRow) /\ rows \in [Products -> [Tables -> Nat]]
    BY DEF TypeInv, TablesOK, ShopOK
  <2> HIDE DEF code, next
  <2>2. order' \in Seq(OrderRow)
    BY <1>2, <1>5, <2>1
  <2>3. "movements" \in Tables /\ "allocations" \in Tables
    BY TablesAre
  <2>4. rows' \in [Products -> [Tables -> Nat]]
    <3> DEFINE some == [rows EXCEPT ![q.product]["movements"] = @ + 1]
    <3>1. some \in [Products -> [Tables -> Nat]]
      BY <1>1, <2>1, <2>3, RowSetTypes
    <3>2. rows' = [some EXCEPT ![q.product]["allocations"] = @ + 1]
      BY <1>5
    <3> HIDE DEF some
    <3> QED
      BY <1>1, <2>3, <3>1, <3>2, RowSetTypes
  <2>5. TablesOK' /\ Sizes' = Sizes
    BY <2>2, <2>4, RowsStay DEF PlaceOrder, TypeInv
  <2>6. SizesGrow
    BY <2>5, SizesSameGrow DEF TypeInv
  <2>7. CASE q.key = "none"
    BY <1>5, <2>5, <2>6, <2>7, ReturnTypes
  <2>8. CASE q.key # "none"
    BY <1>3, <1>5, <2>5, <2>6, <2>8, GotoTypes
  <2> QED
    BY <2>7, <2>8
<1> QED
  BY <1>4, <1>5 DEF PlaceOrder

\* The transaction of a sale.
LEMMA SellTypes ==
    ASSUME TypeInv, NEW r \in Requests, Sell(r), UNCHANGED <<catalogue, live>>
    PROVE  TypeInv'
<1> DEFINE p == req[r].product
           some == [rows EXCEPT ![p]["sales"] = @ + 1]
           more == [some EXCEPT ![p]["movements"] = @ + 1]
<1>1. p \in Products /\ rows \in [Products -> [Tables -> Nat]] /\ order \in Seq(OrderRow)
  BY DEF Sell, TypeInv, TablesOK, ShopOK, RequestsHold, Holding, HoldsProduct
<1>2. {"sales", "movements", "allocations"} \subseteq Tables
  BY TablesAre
<1>3. rows' = rows \/ rows' = [more EXCEPT ![p]["allocations"] = @ + 1]
  BY DEF Sell
<1> HIDE DEF p
<1>4. some \in [Products -> [Tables -> Nat]]
  BY <1>1, <1>2, RowSetTypes
<1> HIDE DEF some
<1>5. more \in [Products -> [Tables -> Nat]]
  BY <1>1, <1>2, <1>4, RowSetTypes
<1> HIDE DEF more
<1>6. [more EXCEPT ![p]["allocations"] = @ + 1] \in [Products -> [Tables -> Nat]]
  <2>1. p \in Products /\ "allocations" \in Tables
    BY <1>1, <1>2
  <2> QED
    BY <1>5, <2>1, RowSetTypes
<1>7. rows' \in [Products -> [Tables -> Nat]]
  BY <1>1, <1>3, <1>6
<1>8. TablesOK' /\ Sizes' = Sizes
  BY <1>1, <1>7, RowsStay DEF Sell, TypeInv
<1> QED
  BY <1>8, ReturnTypes, SizesSameGrow DEF Sell, TypeInv

\* Advertisements.
LEMMA PaidTypes ==
    ASSUME NEW s \in Stores, NEW plan \in {"ad", "basic", "premium"}, NEW day \in Days,
           NEW status \in RowStatus
    PROVE  PaidFor(s, plan, day, status) \in PaidRow
  BY DEF PaidFor, PaidRow

\* A payment appended to a list of payments.
LEMMA AppendPaid ==
    ASSUME NEW list \in Seq(PaidRow), NEW row \in PaidRow
    PROVE  Append(list, row) \in Seq(PaidRow) /\ Len(list) <= Len(Append(list, row))
  OBVIOUS

\* A payment whose status changes keeps its store, and the other payments stay.
LEMMA PaidStatus ==
    ASSUME NEW list \in Seq(PaidRow), NEW a \in DOMAIN list, NEW status \in RowStatus
    PROVE  /\ [list EXCEPT ![a].status = status] \in Seq(PaidRow)
           /\ Len([list EXCEPT ![a].status = status]) = Len(list)
           /\ \A i \in DOMAIN list :
                /\ [list EXCEPT ![a].status = status][i].store = list[i].store
                /\ i # a => [list EXCEPT ![a].status = status][i] = list[i]
<1>1. list[a] \in PaidRow
  OBVIOUS
<1>2. [list[a] EXCEPT !.status = status] \in PaidRow
  BY <1>1 DEF PaidRow
<1>3. [list EXCEPT ![a].status = status] = [list EXCEPT ![a] = [list[a] EXCEPT !.status = status]]
  OBVIOUS
<1>4. [list[a] EXCEPT !.status = status].store = list[a].store
  BY <1>1 DEF PaidRow
<1> DEFINE row == [list[a] EXCEPT !.status = status]
<1> HIDE DEF row
<1> QED
  BY <1>2, <1>3, <1>4 DEF row

\* A store whose premium flag and end of advertising are set stays a store.
LEMMA FlagsTypes ==
    ASSUME TablesOK, NEW s \in Stores, NEW premium \in BOOLEAN, NEW day \in {NoDay} \cup Days,
           SetFlags(s, premium, day)
    PROVE  store' \in [Stores -> StoreRow] /\ \A x \in Stores : store[x].here => store'[x].here
<1>1. store \in [Stores -> StoreRow] /\ store[s] \in StoreRow
  BY DEF TablesOK, ShopOK
<1> DEFINE row == [store[s] EXCEPT !.premium = premium, !.adEnds = day]
<1>2. row \in StoreRow /\ row.here = store[s].here
  BY <1>1 DEF StoreRow
<1>3. store' = [store EXCEPT ![s] = IF store[s].here THEN row ELSE store[s]]
  BY <1>1 DEF SetFlags
<1> HIDE DEF row
<1> QED
  BY <1>1, <1>2, <1>3

\* The steps that register and cancel an advertisement.
LEMMA AdRunTypes ==
    ASSUME TypeInv, NEW r \in Requests, UNCHANGED <<catalogue, live>>,
           InsertAd(r) \/ Raise(r) \/ CancelAd(r) \/ Lower(r)
    PROVE  TypeInv'
<1> DEFINE q == req[r]
<1>0. q \in Request /\ Holding(q, Sizes) /\ ads \in Seq(PaidRow)
  BY DEF TypeInv, RequestsHold, TablesOK, PromotionsOK
<1>1. CASE InsertAd(r)
  <2> DEFINE next == [q EXCEPT !.pc = "raise"]
  <2>1. q.pc = "insertAd" /\ q.store \in Stores /\ q.num \in Days
    BY <1>0, <1>1 DEF InsertAd, Holding, HoldsStore, HoldsNumber
  <2>2. next \in Request /\ next.pc = "raise" /\ next.store = q.store /\ next.num = q.num
    BY <1>0 DEF Request, Pc
  <2> HIDE DEF next
  <2>3. Holding(next, Sizes')
    BY <2>1, <2>2 DEF Holding, HoldsStore, HoldsProduct, HoldsBuyer, HoldsKey, HoldsNumber,
                      HoldsList, HoldsRow
  <2>4. PaidFor(q.store, "ad", q.num, "ACTIVE") \in PaidRow
    BY <2>1, PaidTypes DEF RowStatus
  <2>5. ads' \in Seq(PaidRow) /\ Len(ads) <= Len(ads')
    BY <1>0, <1>1, <2>4, AppendPaid DEF InsertAd
  <2>6. TablesOK' /\ SizesGrow
    BY <1>1, <2>5, AdsStay DEF InsertAd, TypeInv
  <2> QED
    BY <1>1, <2>3, <2>6, GotoTypes, ReturnTypes DEF InsertAd, next
<1>2. CASE Raise(r)
  <2>1. q.store \in Stores /\ q.num \in Days
    BY <1>0, <1>2 DEF Raise, Holding, HoldsStore, HoldsNumber
  <2>2. store' \in [Stores -> StoreRow] /\ \A x \in Stores : store[x].here => store'[x].here
    BY <1>2, <2>1, FlagsTypes DEF Raise, TypeInv
  <2>3. TablesOK' /\ Sizes' = Sizes
    BY <1>2, <2>2, StoreStays DEF Raise, TypeInv
  <2> QED
    BY <1>2, <2>3, ReturnTypes, SizesSameGrow DEF Raise, TypeInv
<1>3. CASE CancelAd(r)
  <2> DEFINE a == q.id
             next == [Idle EXCEPT !.pc = "lower", !.store = ads[a].store]
  <2>1. q.pc = "cancelAd" /\ a \in DOMAIN ads
    BY <1>0, <1>3 DEF CancelAd, Holding, HoldsRow, Sizes
  <2>2. ads[a].store \in Stores
    <3>1. ads[a] \in PaidRow
      BY <1>0, <2>1
    <3> QED
      BY <3>1 DEF PaidRow
  <2>3. next \in Request /\ next.pc = "lower" /\ next.store = ads[a].store
    BY <2>2, IdleHolds DEF Holding, Request, Pc
  <2> HIDE DEF next
  <2>4. Holding(next, Sizes')
    BY <2>2, <2>3 DEF Holding, HoldsStore, HoldsProduct, HoldsBuyer, HoldsKey, HoldsNumber,
                      HoldsList, HoldsRow
  <2>5. ads' = ads \/ ads' = [ads EXCEPT ![a].status = "CANCELLED"]
    BY <1>3 DEF CancelAd
  <2>6. ads' \in Seq(PaidRow) /\ Len(ads) <= Len(ads')
    <3>1. CASE ads' = ads
      BY <1>0, <3>1
    <3>2. CASE ads' = [ads EXCEPT ![a].status = "CANCELLED"]
      <4>1. "CANCELLED" \in RowStatus
        BY DEF RowStatus
      <4> HIDE DEF a
      <4>2. ads' \in Seq(PaidRow) /\ Len(ads') = Len(ads)
        BY <1>0, <2>1, <3>2, <4>1, PaidStatus
      <4> QED
        BY <1>0, <4>2
    <3> QED
      BY <2>5, <3>1, <3>2
  <2>7. TablesOK' /\ SizesGrow
    BY <1>3, <2>6, AdsStay DEF CancelAd, TypeInv
  <2> QED
    BY <1>3, <2>4, <2>7, GotoTypes, ReturnTypes DEF CancelAd, next
<1>4. CASE Lower(r)
  <2>1. q.store \in Stores
    BY <1>0, <1>4 DEF Lower, Holding, HoldsStore
  <2>2. store' \in [Stores -> StoreRow] /\ \A x \in Stores : store[x].here => store'[x].here
    BY <1>4, <2>1, FlagsTypes DEF Lower, TypeInv
  <2>3. TablesOK' /\ Sizes' = Sizes
    BY <1>4, <2>2, StoreStays DEF Lower, TypeInv
  <2> QED
    BY <1>4, <2>3, ReturnTypes, SizesSameGrow DEF Lower, TypeInv
<1> QED
  BY <1>1, <1>2, <1>3, <1>4

\* The two statements of the job that expires advertisements.
LEMMA ExpireRunTypes ==
    ASSUME TypeInv, NEW r \in Requests, UNCHANGED <<catalogue, live>>,
           LowerAll(r) \/ ExpireAds(r)
    PROVE  TypeInv'
<1> DEFINE q == req[r]
<1>0. q \in Request /\ Holding(q, Sizes) /\ ads \in Seq(PaidRow)
  BY DEF TypeInv, RequestsHold, TablesOK, PromotionsOK
<1>1. CASE LowerAll(r)
  <2> DEFINE next == [q EXCEPT !.pc = "expireAds"]
  <2>1. next \in Request /\ next.pc = "expireAds"
    BY <1>0 DEF Request, Pc
  <2> HIDE DEF next
  <2>2. Holding(next, Sizes')
    BY <2>1 DEF Holding, HoldsStore, HoldsProduct, HoldsBuyer, HoldsKey, HoldsNumber, HoldsList,
                HoldsRow
  <2>3. store' \in [Stores -> StoreRow] /\ \A x \in Stores : store[x].here => store'[x].here
    <3>1. store \in [Stores -> StoreRow]
      BY DEF TypeInv, TablesOK, ShopOK
    <3>2. ASSUME NEW s \in Stores
          PROVE  [store[s] EXCEPT !.premium = FALSE] \in StoreRow
                 /\ [store[s] EXCEPT !.premium = FALSE].here = store[s].here
      <4>1. store[s] \in StoreRow
        BY <3>1
      <4> QED
        BY <4>1 DEF StoreRow
    <3> QED
      BY <1>1, <3>1, <3>2 DEF LowerAll
  <2>4. TablesOK' /\ Sizes' = Sizes
    BY <1>1, <2>3, StoreStays DEF LowerAll, TypeInv
  <2> QED
    BY <1>1, <2>2, <2>4, GotoTypes, SizesSameGrow DEF LowerAll, next, TypeInv
<1>2. CASE ExpireAds(r)
  <2> DEFINE row(a) == IF ads[a].store \in q.list /\ ads[a].status = "ACTIVE"
                       THEN [ads[a] EXCEPT !.status = "EXPIRED"] ELSE ads[a]
  <2>1. \A a \in DOMAIN ads : row(a) \in PaidRow
    <3> SUFFICES ASSUME NEW a \in DOMAIN ads
                 PROVE  row(a) \in PaidRow
      OBVIOUS
    <3>1. ads[a] \in PaidRow
      BY <1>0
    <3> QED
      BY <3>1 DEF PaidRow, RowStatus
  <2>2. ads' = [a \in 1..Len(ads) |-> row(a)]
    BY <1>0, <1>2 DEF ExpireAds
  <2> HIDE DEF row
  <2>3. ads' \in Seq(PaidRow) /\ Len(ads) <= Len(ads')
    BY <1>0, <2>1, <2>2
  <2>4. TablesOK' /\ SizesGrow
    BY <1>2, <2>3, AdsStay DEF ExpireAds, TypeInv
  <2> QED
    BY <1>2, <2>4, ReturnTypes DEF ExpireAds
<1> QED
  BY <1>1, <1>2

\* Subscriptions.
LEMMA LatestEndType ==
    ASSUME TablesOK, NEW s, ActiveSubs(s) # {}
    PROVE  LatestEnd(s) \in Days
<1> DEFINE E == {subs[i].ends : i \in ActiveSubs(s)}
<1>1. subs \in Seq(PaidRow)
  BY DEF TablesOK, PromotionsOK
<1>2. \A i \in DOMAIN subs : subs[i].ends \in Days
  <2>1. \A i \in DOMAIN subs : subs[i] \in PaidRow
    BY <1>1
  <2> QED
    BY <2>1 DEF PaidRow
<1>3. E \subseteq Days /\ E # {}
  BY <1>2 DEF ActiveSubs
<1>4. IsFiniteSet(Days)
  BY FS_Interval, StorefrontAssumption DEF Days
<1>5. IsFiniteSet(E) /\ E \subseteq Int
  <2>1. Days \subseteq Int
    BY DEF Days
  <2> HIDE DEF E
  <2> QED
    BY <1>3, <1>4, <2>1, FS_Subset
<1> HIDE DEF E
<1>6. Max(E) \in E
  BY <1>3, <1>5, MaxIsLargest
<1> QED
  BY <1>3, <1>6 DEF LatestEnd, E

\* The steps that record and cancel a subscription payment.
LEMMA SubRunTypes ==
    ASSUME TypeInv, NEW r \in Requests, UNCHANGED <<catalogue, live>>,
           InsertSub(r) \/ FindLatest(r) \/ Extend(r) \/ CancelSub(r)
    PROVE  TypeInv'
<1> DEFINE q == req[r]
<1>0. q \in Request /\ Holding(q, Sizes) /\ subs \in Seq(PaidRow)
  BY DEF TypeInv, RequestsHold, TablesOK, PromotionsOK
<1>1. CASE InsertSub(r)
  <2> DEFINE next == [q EXCEPT !.pc = "latest", !.list = {}]
             status == CHOOSE x \in q.list : TRUE
  <2>1. q.pc = "insertSub" /\ q.store \in Stores /\ q.num \in Days
        /\ q.key \in {"basic", "premium"} /\ q.list # {} /\ q.list \subseteq {"ACTIVE", "EXPIRED"}
    BY <1>0, <1>1 DEF InsertSub, Holding, HoldsStore, HoldsNumber, HoldsKey, HoldsList
  <2>2. next \in Request /\ next.pc = "latest" /\ next.store = q.store /\ next.num = q.num
        /\ next.key = q.key
    BY <1>0 DEF Request, Pc
  <2> HIDE DEF next
  <2>3. Holding(next, Sizes')
    BY <2>1, <2>2 DEF Holding, HoldsStore, HoldsProduct, HoldsBuyer, HoldsKey, HoldsNumber,
                      HoldsList, HoldsRow
  <2>4. status \in q.list
    BY <2>1
  <2>5. status \in RowStatus
    BY <2>1, <2>4 DEF RowStatus
  <2> HIDE DEF status
  <2>6. PaidFor(q.store, q.key, q.num, status) \in PaidRow
        /\ PaidFor(q.store, q.key, q.num, status).store = q.store
    BY <2>1, <2>5, PaidTypes DEF PaidFor
  <2>7. CASE store[q.store].here
    <3>1. subs' = Append(subs, PaidFor(q.store, q.key, q.num, status)) /\ Goto(r, next)
      BY <1>1, <2>7 DEF InsertSub, next, status
    <3>2. subs' \in Seq(PaidRow) /\ Len(subs) <= Len(subs')
      BY <1>0, <2>6, <3>1, AppendPaid
    <3>3. PaymentsRefer'
      <4>1. UNCHANGED store /\ PaymentsRefer
        BY <1>1 DEF InsertSub, shared, TypeInv, TablesOK
      <4> DEFINE row == PaidFor(q.store, q.key, q.num, status)
      <4> HIDE DEF row
      <4>2. row.store = q.store /\ subs' = Append(subs, row)
        BY <2>6, <3>1 DEF row
      <4>3. \A i \in DOMAIN subs' : \/ i \in DOMAIN subs /\ subs'[i] = subs[i]
                                    \/ subs'[i] = row
        BY <1>0, <4>2
      <4> QED
        BY <2>7, <4>1, <4>2, <4>3 DEF PaymentsRefer
    <3>4. TablesOK' /\ SizesGrow
      BY <1>1, <3>2, <3>3, SubsStay DEF InsertSub, TypeInv
    <3> QED
      BY <2>3, <3>1, <3>4, GotoTypes
  <2>8. CASE ~store[q.store].here
    <3>1. UNCHANGED TablesVars /\ Return(r)
      BY <1>1, <2>8 DEF InsertSub, TablesVars, promotions
    <3> QED
      BY <3>1, GotoKeepsTypes, IdleHolds DEF Return
  <2> QED
    BY <2>7, <2>8
<1>2. CASE FindLatest(r)
  <2>1. q.pc = "latest" /\ q.store \in Stores /\ q.key \in {"basic", "premium"}
    BY <1>0, <1>2 DEF FindLatest, Holding, HoldsStore, HoldsKey
  <2>2. UNCHANGED TablesVars
    BY <1>2 DEF FindLatest, TablesVars
  <2>3. CASE ActiveSubs(q.store) = {}
    BY <1>2, <2>2, <2>3, GotoKeepsTypes, IdleHolds DEF FindLatest, Return
  <2>4. CASE ActiveSubs(q.store) # {}
    <3> DEFINE day == LatestEnd(q.store)
               next == [q EXCEPT !.pc = "extend", !.num = day]
    <3>1. day \in Days
      BY <2>4, LatestEndType DEF TypeInv
    <3>2. day \in Nat
      BY <3>1, StorefrontAssumption DEF Days
    <3> HIDE DEF day
    <3>3. next \in Request /\ next.pc = "extend" /\ next.num = day /\ next.store = q.store
          /\ next.key = q.key
      BY <1>0, <3>2 DEF Request, Pc
    <3> HIDE DEF next
    <3>4. Holding(next, Sizes)
      BY <2>1, <3>1, <3>3 DEF Holding, HoldsStore, HoldsProduct, HoldsBuyer, HoldsKey,
                              HoldsNumber, HoldsList, HoldsRow
    <3> QED
      BY <1>2, <2>2, <2>4, <3>4, GotoKeepsTypes DEF FindLatest, next, day
  <2> QED
    BY <2>3, <2>4
<1>3. CASE Extend(r)
  <2>1. q.store \in Stores /\ q.num \in Days
    BY <1>0, <1>3 DEF Extend, Holding, HoldsStore, HoldsNumber
  <2>2. store' \in [Stores -> StoreRow] /\ \A x \in Stores : store[x].here => store'[x].here
    <3>1. store \in [Stores -> StoreRow] /\ store[q.store] \in StoreRow
      BY <2>1 DEF TypeInv, TablesOK, ShopOK
    <3> DEFINE row == [store[q.store] EXCEPT !.subEnds = q.num, !.premium = (q.key = "premium")]
    <3>2. row \in StoreRow /\ row.here = store[q.store].here
      BY <2>1, <3>1 DEF StoreRow
    <3>3. store' = [store EXCEPT ![q.store] = IF store[q.store].here THEN row
                                              ELSE store[q.store]]
      BY <1>3, <2>1, <3>1 DEF Extend
    <3> HIDE DEF row
    <3> QED
      BY <2>1, <3>1, <3>2, <3>3
  <2>3. TablesOK' /\ Sizes' = Sizes
    BY <1>3, <2>2, StoreStays DEF Extend, TypeInv
  <2> QED
    BY <1>3, <2>3, ReturnTypes, SizesSameGrow DEF Extend, TypeInv
<1>4. CASE CancelSub(r)
  <2> DEFINE i == q.id
             status == IF subs[i].status = "GONE" THEN "GONE" ELSE "CANCELLED"
  <2>1. q.pc = "cancelSub" /\ i \in DOMAIN subs
    BY <1>0, <1>4 DEF CancelSub, Holding, HoldsRow, Sizes
  <2>2. status \in RowStatus /\ (status # "GONE" => subs[i].status # "GONE")
    BY DEF RowStatus
  <2>3. subs' = [subs EXCEPT ![i].status = status]
    <3>1. subs[i] \in PaidRow
      BY <1>0, <2>1
    <3> QED
      BY <1>4, <2>1, <3>1 DEF CancelSub, PaidRow
  <2> HIDE DEF i, status
  <2>4. /\ subs' \in Seq(PaidRow) /\ Len(subs') = Len(subs)
        /\ \A j \in DOMAIN subs : subs'[j].store = subs[j].store
                                  /\ (j # i => subs'[j] = subs[j])
    BY <1>0, <2>1, <2>2, <2>3, PaidStatus
  <2>5. PaymentsRefer'
    <3>1. UNCHANGED store /\ PaymentsRefer
      BY <1>4 DEF CancelSub, shared, TypeInv, TablesOK
    <3>2. DOMAIN subs' = DOMAIN subs
      BY <1>0, <2>4
    <3>3. subs'[i].status = status
      <4>1. subs[i] \in PaidRow
        BY <1>0, <2>1
      <4> QED
        BY <1>0, <2>1, <2>3, <4>1 DEF PaidRow
    <3> QED
      BY <2>1, <2>2, <2>4, <3>1, <3>2, <3>3 DEF PaymentsRefer
  <2>6. TablesOK' /\ SizesGrow
    <3>1. Len(subs) <= Len(subs')
      BY <1>0, <2>4
    <3> QED
      BY <1>4, <2>4, <2>5, <3>1, SubsStay DEF CancelSub, TypeInv
  <2> QED
    BY <1>4, <2>6, ReturnTypes DEF CancelSub
<1> QED
  BY <1>1, <1>2, <1>3, <1>4

\* Every step of coupons, orders, advertising and subscriptions.
LEMMA PromotionRunTypes ==
    ASSUME TypeInv, NEW r \in Requests, PromotionRun(r), UNCHANGED <<catalogue, live>>
    PROVE  TypeInv'
  BY CouponRunTypes, CountUsesTypes, PlaceOrderTypes, SellTypes, AdRunTypes, ExpireRunTypes, SubRunTypes
  DEF PromotionRun

-----------------------------------------------------------------------------
(* The catalogue *)

\* Names change, none of a category that is there being lost.
LEMMA NamedStay ==
    ASSUME TablesOK, named' \in [Names -> NameState],
           \A n \in Names : IsCategory(n) /\ There(n) => There(n)',
           UNCHANGED <<shared, promotions, favorites, reviews, storeReviews, live>>
    PROVE  TablesOK' /\ Sizes' = Sizes
<1>1. ShopOK' /\ PromotionsOK' /\ CatalogueOK' /\ LiveOK' /\ Sizes' = Sizes
  BY DEF TablesOK, shared, promotions, live, ShopOK, PromotionsOK, CatalogueOK, LiveOK, Sizes
<1>2. ProductsRefer'
  BY DEF TablesOK, shared, ProductsRefer, Placed, Refers
<1>3. PaymentsRefer'
  BY DEF TablesOK, shared, promotions, PaymentsRefer
<1> QED
  BY <1>1, <1>2, <1>3 DEF TablesOK

\* Products change, and refer to what is there.
LEMMA ProductStays ==
    ASSUME TablesOK, product' \in [Products -> ProductRow],
           rows' \in [Products -> [Tables -> Nat]], ProductsRefer',
           UNCHANGED <<today, store, order, promotions, catalogue, live>>
    PROVE  TablesOK' /\ Sizes' = Sizes
<1>1. ShopOK' /\ PromotionsOK' /\ CatalogueOK' /\ LiveOK' /\ Sizes' = Sizes
  BY DEF TablesOK, promotions, catalogue, live, ShopOK, PromotionsOK, CatalogueOK, LiveOK, Sizes
<1>2. PaymentsRefer'
  BY DEF TablesOK, promotions, PaymentsRefer
<1> QED
  BY <1>1, <1>2 DEF TablesOK

\* Rows that hang on a product change, and reviews.
LEMMA ReviewsStay ==
    ASSUME TablesOK, rows' \in [Products -> [Tables -> Nat]],
           favorites' \subseteq Buyers \X Products, reviews' \in Seq(ReviewRow),
           storeReviews' \in Seq(StoreReviewRow), Len(reviews) <= Len(reviews'),
           Len(storeReviews) <= Len(storeReviews'),
           UNCHANGED <<today, store, product, order, promotions, named, live>>
    PROVE  TablesOK' /\ SizesGrow
<1>1. ShopOK' /\ PromotionsOK' /\ CatalogueOK' /\ LiveOK'
  BY DEF TablesOK, promotions, live, ShopOK, PromotionsOK, CatalogueOK, LiveOK
<1>2. ProductsRefer' /\ PaymentsRefer'
  BY DEF TablesOK, promotions, ProductsRefer, Placed, Refers, There, PaymentsRefer
<1>3. SizesGrow
  BY DEF SizesGrow, Sizes, TablesOK, PromotionsOK, CatalogueOK, LiveOK, promotions, live
<1> QED
  BY <1>1, <1>2, <1>3 DEF TablesOK

\* Categories and menus are created, switched on and off, and menus removed.
LEMMA NamesTypes ==
    ASSUME TypeInv, NEW r \in Requests, NEW n \in Names, Free(r),
           BeginCreateName(r, n) \/ BeginSwitchName(r, n) \/ RemoveMenu(r, n), UNCHANGED live
    PROVE  TypeInv'
<1>1. CASE BeginCreateName(r, n)
  <2> DEFINE q == [Idle EXCEPT !.pc = "insertName", !.key = n]
  <2>1. q \in Request /\ q.pc = "insertName" /\ q.key = n
    BY IdleHolds DEF Holding, Request, Pc, Keys
  <2> HIDE DEF q
  <2>2. Holding(q, Sizes)
    BY <2>1 DEF Holding, HoldsStore, HoldsProduct, HoldsBuyer, HoldsKey, HoldsNumber,
                HoldsList, HoldsRow
  <2> QED
    BY <1>1, <2>2, CallKeepsTypes DEF BeginCreateName, TablesVars, q, Call
<1>2. ASSUME NEW state \in {"ACTIVE", "INACTIVE"}, BeginSwitchName(r, n),
             Call(r, [Idle EXCEPT !.pc = "saveName", !.key = n, !.list = {state}])
      PROVE  TypeInv'
  <2> DEFINE q == [Idle EXCEPT !.pc = "saveName", !.key = n, !.list = {state}]
  <2>1. {state} \in SUBSET (Stores \cup Nat \cup RowStatus \cup NameState) /\ n \in Keys
    BY DEF NameState, Keys
  <2>2. q \in Request /\ q.pc = "saveName" /\ q.key = n /\ q.list = {state}
    BY <2>1, IdleHolds DEF Holding, Request, Pc
  <2> HIDE DEF q
  <2>3. Holding(q, Sizes)
    BY <2>2, <2>1 DEF Holding, HoldsStore, HoldsProduct, HoldsBuyer, HoldsKey, HoldsNumber,
                      HoldsList, HoldsRow
  <2> QED
    BY <1>2, <2>3, CallKeepsTypes DEF BeginSwitchName, TablesVars, q, Call
<1>3. CASE RemoveMenu(r, n)
  <2>1. named' \in [Names -> NameState]
        /\ \A m \in Names : IsCategory(m) /\ There(m) => There(m)'
    BY <1>3 DEF RemoveMenu, TypeInv, TablesOK, CatalogueOK, NameState, IsCategory, There
  <2>2. TablesOK' /\ Sizes' = Sizes
    BY <1>3, <2>1, NamedStay DEF RemoveMenu, TypeInv
  <2> QED
    BY <1>3, <2>2, CallTypes, IdleHolds, SizesSameGrow DEF RemoveMenu, Call, TypeInv
<1> QED
  BY <1>1, <1>2, <1>3 DEF BeginSwitchName

\* What the product controller's handlers hold.
LEMMA PlacedType ==
    ASSUME NEW item \in ProductRow, Placed(item), NEW active \in BOOLEAN
    PROVE  [item EXCEPT !.active = active] \in ProductRow
           /\ Placed([item EXCEPT !.active = active])
  BY DEF Placed, ProductRow

\* A product is created, updated or removed, with its media and its favourites.
LEMMA ProductsTypes ==
    ASSUME TypeInv, NEW r \in Requests, NEW p \in Products, Free(r), UNCHANGED live,
           \/ BeginRemoveProduct(r, p)
           \/ \E s \in Stores, n \in Names, units \in {0, 1} : BeginCreateProduct(r, p, s, n, units)
           \/ \E active \in BOOLEAN : BeginUpdateProduct(r, p, active)
           \/ \E t \in Media : BeginAddRow(r, p, t) \/ RemoveRow(r, p, t)
           \/ \E b \in Buyers : BeginFavorite(r, b, p) \/ Unfavorite(r, b, p)
    PROVE  TypeInv'
<1>1. CASE BeginRemoveProduct(r, p)
  <2> DEFINE q == [Idle EXCEPT !.pc = "deleteRows", !.product = p, !.num = 1]
  <2>1. 1 \in DOMAIN Deleted
    BY TablesAre
  <2>2. q \in Request /\ q.pc = "deleteRows" /\ q.product = p /\ q.num = 1
    BY <2>1, IdleHolds DEF Holding, Request, Pc
  <2> HIDE DEF q
  <2>3. Holding(q, Sizes)
    BY <2>2, <2>1 DEF Holding, HoldsStore, HoldsProduct, HoldsBuyer, HoldsKey, HoldsNumber,
                      HoldsList, HoldsRow
  <2> QED
    BY <1>1, <2>3, CallKeepsTypes DEF BeginRemoveProduct, TablesVars, q, Call
<1>2. ASSUME NEW s \in Stores, NEW n \in Names, NEW units \in {0, 1},
             BeginCreateProduct(r, p, s, n, units)
      PROVE  TypeInv'
  <2> DEFINE item == [here |-> TRUE, store |-> s, category |-> n, active |-> TRUE]
             q == [Idle EXCEPT !.pc = "insertProduct", !.product = p, !.num = units, !.item = item]
  <2>1. item \in ProductRow /\ Placed(item)
    BY <1>2 DEF BeginCreateProduct, FitsCategory, ProductRow, Placed
  <2>2. units \in Nat /\ item \in ProductRow
    BY <2>1
  <2>4. q = [Idle EXCEPT !.pc = "insertProduct", !.product = p, !.num = units, !.item = item]
    OBVIOUS
  <2> HIDE DEF q, item
  <2>5. q \in Request /\ q.pc = "insertProduct" /\ q.product = p /\ q.item = item
    BY <2>2, <2>4, IdleHolds DEF Holding, Request, Pc
  <2>3. Holding(q, Sizes)
    BY <2>5, <2>1 DEF Holding, HoldsStore, HoldsProduct, HoldsBuyer, HoldsKey, HoldsNumber,
                      HoldsList, HoldsRow
  <2> QED
    BY <1>2, <2>3, CallKeepsTypes DEF BeginCreateProduct, TablesVars, q, Call, item
<1>3. ASSUME NEW active \in BOOLEAN, BeginUpdateProduct(r, p, active)
      PROVE  TypeInv'
  <2> DEFINE item == [product[p] EXCEPT !.active = active]
             q == [Idle EXCEPT !.pc = "saveProduct", !.product = p, !.item = item]
  <2>1. item \in ProductRow /\ Placed(item)
    BY <1>3, PlacedType DEF BeginUpdateProduct, TypeInv, TablesOK, ShopOK, ProductsRefer
  <2>2. q \in Request /\ q.pc = "saveProduct" /\ q.product = p /\ q.item = item
    BY <2>1, IdleHolds DEF Holding, Request, Pc
  <2> HIDE DEF q, item
  <2>3. Holding(q, Sizes)
    BY <2>2, <2>1 DEF Holding, HoldsStore, HoldsProduct, HoldsBuyer, HoldsKey, HoldsNumber,
                      HoldsList, HoldsRow
  <2> QED
    BY <1>3, <2>3, CallKeepsTypes DEF BeginUpdateProduct, TablesVars, q, Call, item
<1>4. ASSUME NEW t \in Media, BeginAddRow(r, p, t)
      PROVE  TypeInv'
  <2> DEFINE q == [Idle EXCEPT !.pc = "insertRow", !.product = p, !.key = t]
  <2>1. q \in Request /\ q.pc = "insertRow" /\ q.product = p /\ q.key = t
    BY IdleHolds DEF Holding, Request, Pc, Keys
  <2> HIDE DEF q
  <2>2. Holding(q, Sizes)
    BY <2>1 DEF Holding, HoldsStore, HoldsProduct, HoldsBuyer, HoldsKey, HoldsNumber,
                HoldsList, HoldsRow
  <2> QED
    BY <1>4, <2>2, CallKeepsTypes DEF BeginAddRow, TablesVars, q, Call
<1>5. ASSUME NEW t \in Media, RemoveRow(r, p, t)
      PROVE  TypeInv'
  <2>1. t \in Tables
    BY TablesAre, CatalogueAssumption
  <2>2. rows' \in [Products -> [Tables -> Nat]]
    BY <1>5, <2>1, RowSetTypes DEF RemoveRow, TypeInv, TablesOK, ShopOK
  <2>3. TablesOK' /\ Sizes' = Sizes
    BY <1>5, <2>2, RowsStay DEF RemoveRow, TypeInv, TablesOK, ShopOK
  <2> QED
    BY <1>5, <2>3, CallTypes, IdleHolds, SizesSameGrow DEF RemoveRow, Call, TypeInv
<1>6. ASSUME NEW b \in Buyers, BeginFavorite(r, b, p)
      PROVE  TypeInv'
  <2> DEFINE q == [Idle EXCEPT !.pc = "insertFavorite", !.buyer = b, !.product = p]
  <2>1. q \in Request /\ q.pc = "insertFavorite" /\ q.buyer = b /\ q.product = p
    BY IdleHolds DEF Holding, Request, Pc
  <2> HIDE DEF q
  <2>2. Holding(q, Sizes)
    BY <2>1 DEF Holding, HoldsStore, HoldsProduct, HoldsBuyer, HoldsKey, HoldsNumber,
                HoldsList, HoldsRow
  <2> QED
    BY <1>6, <2>2, CallKeepsTypes DEF BeginFavorite, TablesVars, q, Call
<1>7. ASSUME NEW b \in Buyers, Unfavorite(r, b, p)
      PROVE  TypeInv'
  <2>1. TablesOK' /\ SizesGrow
    BY <1>7, ReviewsStay DEF Unfavorite, shared, TypeInv, TablesOK, ShopOK, CatalogueOK
  <2> QED
    BY <1>7, <2>1, CallTypes, IdleHolds DEF Unfavorite, Call
<1> QED
  BY <1>1, <1>2, <1>3, <1>4, <1>5, <1>6, <1>7

\* The newest of the orders that count is an order.
LEMMA NewestOrder ==
    ASSUME TablesOK, NEW S, S \subseteq Orders, S # {}
    PROVE  Max(S) \in S /\ Max(S) \in Nat /\ Max(S) > 0
<1>1. S \subseteq 1..Len(order) /\ Len(order) \in Nat
  BY DEF TablesOK, ShopOK, Orders
<1>2. IsFiniteSet(1..Len(order))
  BY <1>1, FS_Interval
<1>3. IsFiniteSet(S)
  BY <1>1, <1>2, FS_Subset
<1>4. S \subseteq Int
  BY <1>1
<1>5. Max(S) \in S
  BY <1>3, <1>4, MaxIsLargest
<1>6. Max(S) \in 1..Len(order)
  BY <1>1, <1>5
<1> HIDE DEF Max
<1> QED
  BY <1>1, <1>5, <1>6

\* A product or a store is reviewed.
LEMMA ReviewsTypes ==
    ASSUME TypeInv, NEW r \in Requests, NEW b \in Buyers, Free(r), UNCHANGED live,
           \/ \E p \in Products, photos \in BOOLEAN : BeginReview(r, b, p, photos)
           \/ \E s \in Stores : BeginStoreReview(r, b, s)
    PROVE  TypeInv'
<1>1. ASSUME NEW p \in Products, NEW photos \in BOOLEAN, BeginReview(r, b, p, photos)
      PROVE  TypeInv'
  <2> DEFINE pc == IF photos THEN "saveWithPhotos" ELSE "saveReview"
             num == Max(BoughtBy(b, p))
             list(k) == IF k = 0 THEN {} ELSE reviews[k].images
             q(k) == [Idle EXCEPT !.pc = pc, !.buyer = b, !.product = p, !.num = num, !.id = k,
                                  !.call = used.events + 1, !.list = list(k)]
  <2>1. PICK k \in Found(ReviewsBy(b, p)) : Call(r, q(k))
    BY <1>1 DEF BeginReview
  <2>2. reviews \in Seq(ReviewRow)
    BY DEF TypeInv, TablesOK, CatalogueOK
  <2>3. k \in 0..Len(reviews) /\ k \in Nat
    BY <2>1, <2>2 DEF Found, ReviewsBy, ReviewsOf
  <2>4. list(k) \subseteq 1..MaxEvents
    <3>1. k # 0 => reviews[k] \in ReviewRow
      BY <2>2, <2>3
    <3> QED
      BY <3>1 DEF ReviewRow
  <2>5. num \in Nat /\ num > 0
    BY <1>1, NewestOrder DEF BeginReview, BoughtBy, OrdersOf, TypeInv
  <2>6. used.events + 1 \in 1..MaxEvents /\ used.events + 1 \in Nat
    BY StorefrontAssumption DEF Free, TypeInv, UsedOK
  <2>7. list(k) \in SUBSET (Stores \cup Nat \cup RowStatus \cup NameState)
    BY <2>4
  <2> HIDE DEF num, list
  <2>8. /\ q(k) \in Request /\ q(k).pc \in {"saveReview", "saveWithPhotos"}
        /\ q(k).buyer = b /\ q(k).product = p /\ q(k).num = num /\ q(k).id = k
        /\ q(k).call = used.events + 1 /\ q(k).list = list(k)
    BY <2>3, <2>5, <2>6, <2>7, IdleHolds, ZenonT(40) DEF Holding, Request, Pc
  <2> HIDE DEF q
  <2>9. Holding(q(k), Sizes)
    BY <2>3, <2>4, <2>5, <2>6, <2>8 DEF Holding, HoldsStore, HoldsProduct, HoldsBuyer, HoldsKey,
                                        HoldsNumber, HoldsList, HoldsRow, Sizes
  <2> QED
    BY <1>1, <2>1, <2>9, CallKeepsTypes DEF BeginReview, Call, TablesVars
<1>2. ASSUME NEW s \in Stores, BeginStoreReview(r, b, s)
      PROVE  TypeInv'
  <2> DEFINE num == Max(DeliveredTo(b, s))
             q(k) == [Idle EXCEPT !.pc = "saveStoreReview", !.buyer = b, !.store = s,
                                  !.num = num, !.id = k]
  <2>1. PICK k \in Found(StoreReviewsBy(b, s)) : Call(r, q(k))
    BY <1>2 DEF BeginStoreReview
  <2>2. storeReviews \in Seq(StoreReviewRow)
    BY DEF TypeInv, TablesOK, CatalogueOK
  <2>3. k \in 0..Len(storeReviews) /\ k \in Nat
    BY <2>1, <2>2 DEF Found, StoreReviewsBy
  <2>4. num \in Nat /\ num > 0
    BY <1>2, NewestOrder DEF BeginStoreReview, DeliveredTo, TypeInv
  <2> HIDE DEF num
  <2>5. /\ q(k) \in Request /\ q(k).pc = "saveStoreReview"
        /\ q(k).buyer = b /\ q(k).store = s /\ q(k).num = num /\ q(k).id = k
    BY <2>3, <2>4, IdleHolds DEF Holding, Request, Pc
  <2> HIDE DEF q
  <2>6. Holding(q(k), Sizes)
    BY <2>3, <2>4, <2>5 DEF Holding, HoldsStore, HoldsProduct, HoldsBuyer, HoldsKey,
                            HoldsNumber, HoldsList, HoldsRow, Sizes
  <2> QED
    BY <1>2, <2>1, <2>6, CallKeepsTypes DEF BeginStoreReview, Call, TablesVars
<1> QED
  BY <1>1, <1>2

\* Every call of stores, categories, menus, products and reviews.
LEMMA CatalogueBeginTypes ==
    ASSUME TypeInv, NEW r \in Requests, Free(r), CatalogueBegin(r), UNCHANGED live
    PROVE  TypeInv'
<1>1. ASSUME NEW s \in Stores, BeginRemoveStore(r, s)
      PROVE  TypeInv'
  <2> DEFINE q == [Idle EXCEPT !.pc = "erase", !.store = s]
  <2>1. q \in Request /\ q.pc = "erase" /\ q.store = s
    BY IdleHolds DEF Holding, Request, Pc
  <2> HIDE DEF q
  <2>2. Holding(q, Sizes)
    BY <2>1 DEF Holding, HoldsStore, HoldsProduct, HoldsBuyer, HoldsKey, HoldsNumber,
                HoldsList, HoldsRow
  <2> QED
    BY <1>1, <2>2, CallKeepsTypes DEF BeginRemoveStore, TablesVars, q, Call
<1> QED
  BY <1>1, NamesTypes, ProductsTypes, ReviewsTypes
  DEF CatalogueBegin, ProductsController, ReviewsController, NamesControllers

\* A name is written by its handler.
LEMMA NameRunTypes ==
    ASSUME TypeInv, NEW r \in Requests, UNCHANGED live, InsertName(r) \/ SaveName(r) \/ Hide(r)
    PROVE  TypeInv'
<1> DEFINE q == req[r]
<1>0. q \in Request /\ Holding(q, Sizes) /\ named \in [Names -> NameState]
  BY DEF TypeInv, RequestsHold, TablesOK, CatalogueOK
<1>1. CASE InsertName(r)
  <2>1. q.key \in Names
    BY <1>0, <1>1 DEF InsertName, Holding, HoldsKey
  <2>2. named' \in [Names -> NameState]
        /\ \A m \in Names : IsCategory(m) /\ There(m) => There(m)'
    BY <1>0, <1>1, <2>1 DEF InsertName, NameState, There
  <2>3. TablesOK' /\ Sizes' = Sizes
    BY <1>1, <2>2, NamedStay DEF InsertName, TypeInv
  <2> QED
    BY <1>1, <2>3, ReturnTypes, SizesSameGrow DEF InsertName, TypeInv
<1>2. CASE SaveName(r)
  <2> DEFINE next == [Idle EXCEPT !.pc = "hide", !.key = q.key]
  <2>1. q.key \in Names /\ q.list # {} /\ q.list \subseteq {"ACTIVE", "INACTIVE"}
    BY <1>0, <1>2 DEF SaveName, Holding, HoldsKey, HoldsList
  <2>2. (CHOOSE state \in q.list : TRUE) \in {"ACTIVE", "INACTIVE"}
    BY <2>1
  <2>3. named' \in [Names -> NameState]
        /\ \A m \in Names : IsCategory(m) /\ There(m) => There(m)'
    BY <1>0, <1>2, <2>1, <2>2 DEF SaveName, NameState, There
  <2>4. TablesOK' /\ Sizes' = Sizes
    BY <1>2, <2>3, NamedStay DEF SaveName, TypeInv
  <2>5. next \in Request /\ next.pc = "hide" /\ next.key = q.key
    BY <2>1, IdleHolds DEF Holding, Request, Pc, Keys
  <2> HIDE DEF next
  <2>6. Holding(next, Sizes')
    BY <2>1, <2>5 DEF Holding, HoldsStore, HoldsProduct, HoldsBuyer, HoldsKey, HoldsNumber,
                      HoldsList, HoldsRow
  <2>7. Goto(r, next) \/ Return(r)
    BY <1>2 DEF SaveName, next
  <2> QED
    BY <2>4, <2>6, <2>7, GotoTypes, ReturnTypes, SizesSameGrow DEF TypeInv
<1>3. CASE Hide(r)
  <2>1. \A p \in Products :
          /\ product'[p] \in ProductRow /\ product'[p].here = product[p].here
          /\ product'[p].store = product[p].store /\ product'[p].category = product[p].category
    <3> SUFFICES ASSUME NEW p \in Products
                 PROVE  /\ product'[p] \in ProductRow /\ product'[p].here = product[p].here
                        /\ product'[p].store = product[p].store
                        /\ product'[p].category = product[p].category
      OBVIOUS
    <3>1. product[p] \in ProductRow
      BY DEF TypeInv, TablesOK, ShopOK
    <3>2. product'[p] = product[p] \/ product'[p] = [product[p] EXCEPT !.active = FALSE]
      BY <1>3 DEF Hide
    <3> QED
      BY <3>1, <3>2 DEF ProductRow
  <2>2. product' \in [Products -> ProductRow]
    BY <1>3, <2>1 DEF Hide
  <2>3. ProductsRefer'
    BY <1>3, <2>1 DEF Hide, TypeInv, TablesOK, catalogue, ProductsRefer, Placed, Refers, There
  <2>4. rows' \in [Products -> [Tables -> Nat]]
    BY <1>3 DEF Hide, TypeInv, TablesOK, ShopOK
  <2>5. TablesOK' /\ Sizes' = Sizes
    BY <1>3, <2>2, <2>3, <2>4, ProductStays DEF Hide, TypeInv
  <2> QED
    BY <1>3, <2>5, ReturnTypes, SizesSameGrow DEF Hide, TypeInv
<1> QED
  BY <1>1, <1>2, <1>3

\* A product is written by its handler.
LEMMA ProductRunTypes ==
    ASSUME TypeInv, NEW r \in Requests, UNCHANGED live,
           InsertProduct(r) \/ SaveProduct(r) \/ InsertRow(r) \/ InsertFavorite(r)
    PROVE  TypeInv'
<1> DEFINE q == req[r]
<1>0. q \in Request /\ Holding(q, Sizes) /\ q.product \in Products
  BY DEF TypeInv, RequestsHold, Holding, HoldsProduct, InsertProduct, SaveProduct, InsertRow,
         InsertFavorite
<1>1. rows \in [Products -> [Tables -> Nat]] /\ product \in [Products -> ProductRow]
  BY DEF TypeInv, TablesOK, ShopOK
<1>2. ASSUME q.pc \in {"insertProduct", "saveProduct"}, Refers(q.item),
             product' = [product EXCEPT ![q.product] = q.item], UNCHANGED <<store, catalogue>>
      PROVE  product' \in [Products -> ProductRow] /\ ProductsRefer'
  <2>1. q.item \in ProductRow /\ Placed(q.item)
    BY <1>0, <1>2 DEF Holding, HoldsProduct, Request
  <2> QED
    BY <1>0, <1>1, <1>2, <2>1 DEF TypeInv, TablesOK, ProductsRefer, Placed, Refers, There, catalogue
<1>3. ASSUME product' = product, UNCHANGED <<store, catalogue>>
      PROVE  product' \in [Products -> ProductRow] /\ ProductsRefer'
  BY <1>1, <1>3 DEF TypeInv, TablesOK, ProductsRefer, Placed, Refers, There, catalogue
<1>4. CASE InsertProduct(r)
  <2>1. product' \in [Products -> ProductRow] /\ ProductsRefer'
    BY <1>2, <1>3, <1>4 DEF InsertProduct
  <2>2. rows' \in [Products -> [Tables -> Nat]]
    <3> DEFINE n == IF q.num > 0 THEN 1 ELSE 0
               one == [rows EXCEPT ![q.product]["batches"] = n]
    <3>1. n \in Nat
      OBVIOUS
    <3>2. rows' = rows \/ rows' = [one EXCEPT ![q.product]["movements"] = n]
      BY <1>4 DEF InsertProduct
    <3> HIDE DEF n
    <3>3. one \in [Products -> [Tables -> Nat]]
      BY <1>0, <1>1, <3>1, RowSetTypes, TablesAre
    <3> HIDE DEF one
    <3>4. "movements" \in Tables
      BY TablesAre
    <3>5. [one EXCEPT ![q.product]["movements"] = n] \in [Products -> [Tables -> Nat]]
      BY <1>0, <3>1, <3>3, <3>4, RowSetTypes
    <3> QED
      BY <1>1, <3>2, <3>5
  <2>3. TablesOK' /\ Sizes' = Sizes
    BY <1>4, <2>1, <2>2, ProductStays DEF InsertProduct, TypeInv
  <2> QED
    BY <1>4, <2>3, ReturnTypes, SizesSameGrow DEF InsertProduct, TypeInv
<1>5. CASE SaveProduct(r)
  <2>1. product' \in [Products -> ProductRow] /\ ProductsRefer'
    BY <1>2, <1>3, <1>5 DEF SaveProduct
  <2>2. TablesOK' /\ Sizes' = Sizes
    BY <1>1, <1>5, <2>1, ProductStays DEF SaveProduct, TypeInv
  <2> QED
    BY <1>5, <2>2, ReturnTypes, SizesSameGrow DEF SaveProduct, TypeInv
<1>6. CASE InsertRow(r)
  <2>1. q.key \in Tables
    BY <1>0, <1>6, TablesAre, CatalogueAssumption DEF InsertRow, Holding, HoldsKey
  <2>2. rows' = [rows EXCEPT ![q.product][q.key] =
                   IF product[q.product].here THEN rows[q.product][q.key] + 1
                   ELSE rows[q.product][q.key]]
    BY <1>0, <1>1, <1>6, <2>1 DEF InsertRow
  <2>3. rows[q.product][q.key] \in Nat
    BY <1>0, <1>1, <2>1
  <2> DEFINE n == IF product[q.product].here THEN rows[q.product][q.key] + 1
                  ELSE rows[q.product][q.key]
  <2>4. n \in Nat
    BY <2>3
  <2> HIDE DEF n
  <2>5. rows' \in [Products -> [Tables -> Nat]]
    BY <1>0, <1>1, <2>1, <2>2, <2>4, RowSetTypes DEF n
  <2>6. TablesOK' /\ Sizes' = Sizes
    BY <1>6, <2>5, RowsStay DEF InsertRow, TypeInv, TablesOK, ShopOK
  <2> QED
    BY <1>6, <2>6, ReturnTypes, SizesSameGrow DEF InsertRow, TypeInv
<1>7. CASE InsertFavorite(r)
  <2>1. q.buyer \in Buyers
    BY <1>0, <1>7 DEF InsertFavorite, Holding, HoldsBuyer
  <2>2. favorites' \subseteq Buyers \X Products
    BY <1>0, <1>7, <2>1 DEF InsertFavorite, TypeInv, TablesOK, CatalogueOK
  <2>3. /\ reviews' \in Seq(ReviewRow) /\ Len(reviews) <= Len(reviews')
        /\ storeReviews' \in Seq(StoreReviewRow) /\ Len(storeReviews) <= Len(storeReviews')
    BY <1>7 DEF InsertFavorite, TypeInv, TablesOK, CatalogueOK
  <2>4. TablesOK' /\ SizesGrow
    BY <1>1, <1>7, <2>2, <2>3, ReviewsStay DEF InsertFavorite, shared, TypeInv
  <2> QED
    BY <1>7, <2>4, ReturnTypes DEF InsertFavorite
<1> QED
  BY <1>4, <1>5, <1>6, <1>7

\* What a removal takes with it.
LEMMA WithoutTypes ==
    ASSUME TablesOK, NEW gone
    PROVE  /\ WithoutReviews(gone) \in Seq(ReviewRow) /\ Len(WithoutReviews(gone)) = Len(reviews)
           /\ WithoutFavorites(gone) \subseteq Buyers \X Products
<1>1. reviews \in Seq(ReviewRow) /\ favorites \subseteq Buyers \X Products
  BY DEF TablesOK, CatalogueOK
<1> DEFINE row(k) == IF reviews[k].product \in gone
                     THEN [reviews[k] EXCEPT !.here = FALSE, !.images = {}] ELSE reviews[k]
<1>2. ASSUME NEW k \in DOMAIN reviews
      PROVE  row(k) \in ReviewRow
  <2>1. reviews[k] \in ReviewRow
    BY <1>1
  <2> QED
    BY <2>1 DEF ReviewRow
<1>3. WithoutReviews(gone) = [k \in 1..Len(reviews) |-> row(k)]
  BY <1>1 DEF WithoutReviews
<1> HIDE DEF row
<1>4. WithoutReviews(gone) \in Seq(ReviewRow) /\ Len(WithoutReviews(gone)) = Len(reviews)
  BY <1>1, <1>2, <1>3
<1> QED
  BY <1>1, <1>4 DEF WithoutFavorites

\* The removal of a product.
LEMMA RemovalTypes ==
    ASSUME TypeInv, NEW r \in Requests, UNCHANGED live, DeleteRows(r) \/ DeleteProduct(r)
    PROVE  TypeInv'
<1> DEFINE q == req[r]
           p == q.product
           t == Deleted[q.num]
<1>0. q \in Request /\ Holding(q, Sizes) /\ p \in Products
  BY DEF TypeInv, RequestsHold, Holding, HoldsProduct, DeleteRows, DeleteProduct
<1>1. rows \in [Products -> [Tables -> Nat]] /\ product \in [Products -> ProductRow]
  BY DEF TypeInv, TablesOK, ShopOK
<1>2. CASE DeleteRows(r)
  <2> DEFINE next == IF q.num < Len(Deleted) THEN [q EXCEPT !.num = q.num + 1]
                     ELSE [q EXCEPT !.pc = "deleteProduct"]
  <2>1. q.pc = "deleteRows" /\ q.num \in 1..7 /\ t \in Tables
    BY <1>0, <1>2, TablesAre DEF DeleteRows, Holding, HoldsProduct
  <2>2. /\ next \in Request /\ next.pc \in {"deleteRows", "deleteProduct"} /\ next.product = p
        /\ next.pc = "deleteRows" => next.num \in 1..7
    <3>1. CASE q.num < 7
      <4>1. q.num + 1 \in Nat /\ q.num + 1 \in 1..7
        BY <2>1, <3>1
      <4>2. next = [q EXCEPT !.num = q.num + 1]
        BY <3>1, TablesAre
      <4> HIDE DEF next
      <4> QED
        BY <1>0, <2>1, <4>1, <4>2 DEF Request
    <3>2. CASE ~(q.num < 7)
      <4>1. next = [q EXCEPT !.pc = "deleteProduct"]
        BY <3>2, TablesAre
      <4> HIDE DEF next
      <4> QED
        BY <1>0, <2>1, <4>1 DEF Request, Pc
    <3> QED
      BY <3>1, <3>2
  <2>3. Return(r) \/ Goto(r, next)
    BY <1>0, <1>2 DEF DeleteRows, Request
  <2> HIDE DEF next
  <2>4. Holding(next, Sizes')
    BY <1>0, <2>2, TablesAre DEF Holding, HoldsStore, HoldsProduct, HoldsBuyer, HoldsKey,
                                 HoldsNumber, HoldsList, HoldsRow
  <2>5. rows' \in [Products -> [Tables -> Nat]]
    <3>1. rows' = rows \/ rows' = [rows EXCEPT ![p][t] = 0]
      BY <1>2 DEF DeleteRows
    <3>2. p \in Products /\ t \in Tables
      BY <1>0, <2>1
    <3> HIDE DEF p, t
    <3>3. [rows EXCEPT ![p][t] = 0] \in [Products -> [Tables -> Nat]]
      BY <1>1, <3>2, RowSetTypes
    <3> QED
      BY <1>1, <3>1, <3>3
  <2>6. /\ favorites' \subseteq Buyers \X Products
        /\ reviews' \in Seq(ReviewRow) /\ Len(reviews') = Len(reviews)
        /\ storeReviews' = storeReviews
    <3>1. /\ reviews' \in {reviews, WithoutReviews({p})}
          /\ favorites' \in {favorites, WithoutFavorites({p})} /\ storeReviews' = storeReviews
      BY <1>2 DEF DeleteRows
    <3> QED
      BY <3>1, WithoutTypes DEF TypeInv, TablesOK, CatalogueOK
  <2>7. /\ storeReviews' \in Seq(StoreReviewRow) /\ Len(storeReviews) <= Len(storeReviews')
        /\ Len(reviews) <= Len(reviews')
    BY <2>6 DEF TypeInv, TablesOK, CatalogueOK
  <2>8. TablesOK' /\ SizesGrow
    BY <1>2, <2>5, <2>6, <2>7, ReviewsStay DEF DeleteRows, TypeInv
  <2> QED
    BY <2>3, <2>4, <2>8, GotoTypes, ReturnTypes
<1>3. CASE DeleteProduct(r)
  <2>1. NoProduct \in ProductRow /\ ~NoProduct.here /\ NoRows \in [Tables -> Nat]
    BY DEF NoProduct, ProductRow, NoRows
  <2>2. product' \in [Products -> ProductRow] /\ rows' \in [Products -> [Tables -> Nat]]
    BY <1>0, <1>1, <1>3, <2>1 DEF DeleteProduct
  <2>3. ProductsRefer'
    BY <1>0, <1>1, <1>3, <2>1 DEF DeleteProduct, TypeInv, TablesOK, ProductsRefer, Placed, Refers,
                                  There, catalogue
  <2>4. TablesOK' /\ Sizes' = Sizes
    BY <1>3, <2>2, <2>3, ProductStays DEF DeleteProduct, TypeInv
  <2> QED
    BY <1>3, <2>4, ReturnTypes, SizesSameGrow DEF DeleteProduct, TypeInv
<1> QED
  BY <1>2, <1>3

\* The removal of a store: it takes the products and payments that refer to it along, and
\* with its categories the products in them, which are its own.
LEMMA EraseTypes ==
    ASSUME TypeInv, NEW r \in Requests, UNCHANGED live, EraseStore(r)
    PROVE  TypeInv'
<1> DEFINE s == req[r].store
           gone == ProductsOf(s)
           lost(n) == OwnerOf[n] = s /\ There(n)
<1>0. req[r] \in Request /\ Holding(req[r], Sizes) /\ s \in Stores
  BY DEF TypeInv, RequestsHold, Holding, HoldsStore, EraseStore
<1>1. /\ store \in [Stores -> StoreRow] /\ product \in [Products -> ProductRow]
      /\ rows \in [Products -> [Tables -> Nat]] /\ named \in [Names -> NameState]
      /\ ads \in Seq(PaidRow) /\ subs \in Seq(PaidRow) /\ storeReviews \in Seq(StoreReviewRow)
      /\ coupon \in [Coupons -> CouponRow] /\ order \in Seq(OrderRow) /\ today \in Days
  BY DEF TypeInv, TablesOK, ShopOK, PromotionsOK, CatalogueOK
<1>2. CASE UNCHANGED <<store, product, rows, ads, subs, catalogue>>
  <2>1. UNCHANGED TablesVars
    BY <1>2 DEF TablesVars, shared, promotions, EraseStore
  <2> QED
    BY <2>1, GotoKeepsTypes, IdleHolds DEF EraseStore, Return
<1>3. CASE ~UNCHANGED <<store, product, rows, ads, subs, catalogue>>
  <2>1. \A p \in Products : product[p].here /\ p \notin gone => OwnerOf[product[p].category] # s
    BY <1>3 DEF EraseStore
  <2>2. /\ store' = [store EXCEPT ![s] = NoStore]
        /\ product' = [p \in Products |-> IF p \in gone THEN NoProduct ELSE product[p]]
        /\ rows' = [p \in Products |-> IF p \in gone THEN NoRows ELSE rows[p]]
        /\ ads' = Cascaded(ads, s) /\ subs' = Cascaded(subs, s)
        /\ named' = [n \in Names |-> IF lost(n) THEN "GONE" ELSE named[n]]
        /\ reviews' = WithoutReviews(gone) /\ favorites' = WithoutFavorites(gone)
        /\ storeReviews' = [k \in DOMAIN storeReviews |->
              IF storeReviews[k].store = s THEN [storeReviews[k] EXCEPT !.here = FALSE]
              ELSE storeReviews[k]]
        /\ Return(r) /\ UNCHANGED <<today, order, coupon>>
    BY <1>3 DEF EraseStore
  <2>3. /\ NoProduct \in ProductRow /\ ~NoProduct.here /\ NoRows \in [Tables -> Nat]
        /\ NoStore \in StoreRow
    BY StoreRowTypes DEF NoProduct, ProductRow, NoRows
  <2>4. ShopOK'
    BY <1>0, <1>1, <2>2, <2>3 DEF ShopOK
  <2>5. ASSUME NEW list \in Seq(PaidRow)
        PROVE  /\ Cascaded(list, s) \in Seq(PaidRow) /\ Len(Cascaded(list, s)) = Len(list)
               /\ \A i \in DOMAIN list :
                    Cascaded(list, s)[i].status # "GONE" => /\ list[i].status # "GONE"
                                                            /\ Cascaded(list, s)[i] = list[i]
                                                            /\ list[i].store # s
    <3> DEFINE row(i) == IF list[i].store = s THEN [list[i] EXCEPT !.status = "GONE"] ELSE list[i]
    <3>1. ASSUME NEW i \in DOMAIN list
          PROVE  /\ row(i) \in PaidRow
                 /\ row(i).status # "GONE" => row(i) = list[i] /\ list[i].store # s
      <4>1. list[i] \in PaidRow
        OBVIOUS
      <4> QED
        BY <4>1 DEF PaidRow, RowStatus
    <3>2. Cascaded(list, s) = [i \in 1..Len(list) |-> row(i)] /\ DOMAIN list = 1..Len(list)
      BY DEF Cascaded
    <3> HIDE DEF row
    <3> QED
      BY <3>1, <3>2
  <2>6. PromotionsOK' /\ Len(ads') = Len(ads) /\ Len(subs') = Len(subs)
    BY <1>1, <2>2, <2>5 DEF PromotionsOK
  <2>7. /\ storeReviews' \in Seq(StoreReviewRow) /\ Len(storeReviews') = Len(storeReviews)
    <3> DEFINE row(k) == IF storeReviews[k].store = s THEN [storeReviews[k] EXCEPT !.here = FALSE]
                         ELSE storeReviews[k]
    <3>1. ASSUME NEW k \in DOMAIN storeReviews
          PROVE  row(k) \in StoreReviewRow
      <4>1. storeReviews[k] \in StoreReviewRow
        BY <1>1
      <4> QED
        BY <4>1 DEF StoreReviewRow
    <3>2. storeReviews' = [k \in 1..Len(storeReviews) |-> row(k)]
      BY <1>1, <2>2
    <3> HIDE DEF row
    <3> QED
      BY <1>1, <3>1, <3>2
  <2>8. CatalogueOK' /\ Len(reviews') = Len(reviews)
    BY <1>1, <2>2, <2>7, WithoutTypes DEF CatalogueOK, NameState, TypeInv
  <2>9. LiveOK'
    BY DEF LiveOK, live, TypeInv, TablesOK
  <2>10. ProductsRefer'
    <3> SUFFICES ASSUME NEW p \in Products, product'[p].here
                 PROVE  Placed(product[p])' /\ Refers(product[p])'
      BY DEF ProductsRefer
    <3>1. p \notin gone /\ product'[p] = product[p] /\ product[p].here
      BY <2>2, <2>3
    <3>2. /\ Placed(product[p]) /\ store[product[p].store].here /\ There(product[p].category)
      BY <3>1 DEF TypeInv, TablesOK, ProductsRefer, Refers
    <3>3. product[p].store # s
      BY <3>1 DEF ProductsOf
    <3>4. ~lost(product[p].category)
      BY <2>1, <3>1
    <3>5. There(product[p].category)'
      BY <2>2, <3>1, <3>2, <3>4 DEF There, Placed
    <3>6. store'[product'[p].store].here
      BY <1>1, <2>2, <3>1, <3>2, <3>3 DEF Placed
    <3> QED
      BY <3>1, <3>2, <3>5, <3>6 DEF Placed, Refers
  <2>11. PaymentsRefer'
    <3> SUFFICES ASSUME NEW i \in DOMAIN subs', subs'[i].status # "GONE"
                 PROVE  store'[subs'[i].store].here
      BY DEF PaymentsRefer
    <3>1. i \in DOMAIN subs
      BY <1>1, <2>6 DEF PromotionsOK
    <3>2. subs'[i] = subs[i] /\ subs[i].store # s /\ subs[i].status # "GONE"
      BY <1>1, <2>2, <2>5, <3>1
    <3>3. store[subs[i].store].here
      BY <3>1, <3>2 DEF TypeInv, TablesOK, PaymentsRefer
    <3>4. subs[i] \in PaidRow
      BY <1>1, <3>1
    <3>5. subs[i].store \in Stores
      BY <3>4 DEF PaidRow
    <3> QED
      BY <1>1, <2>2, <3>2, <3>3, <3>5
  <2>12. TablesOK'
    BY <2>4, <2>6, <2>8, <2>9, <2>10, <2>11 DEF TablesOK
  <2>13. SizesGrow
    BY <2>6, <2>7, <2>8 DEF SizesGrow, Sizes, live, TypeInv, TablesOK, LiveOK, PromotionsOK,
                            CatalogueOK
  <2> QED
    BY <2>2, <2>12, <2>13, ReturnTypes
<1> QED
  BY <1>2, <1>3

\* A row is written over, or a new one.
LEMMA RowWritten ==
    ASSUME NEW T, NEW list \in Seq(T), NEW row \in T
    PROVE  /\ Append(list, row) \in Seq(T) /\ Len(list) <= Len(Append(list, row))
           /\ Len(Append(list, row)) = Len(list) + 1 /\ Len(list) \in Nat
           /\ \A a \in 1..Len(list) : /\ [list EXCEPT ![a] = row] \in Seq(T)
                                     /\ Len([list EXCEPT ![a] = row]) = Len(list)
<1>1. Len(list) \in Nat /\ list \in [1..Len(list) -> T]
  OBVIOUS
<1>2. ASSUME NEW a \in 1..Len(list)
      PROVE  /\ [list EXCEPT ![a] = row] \in Seq(T)
             /\ Len([list EXCEPT ![a] = row]) = Len(list)
  <2>1. [list EXCEPT ![a] = row] \in [1..Len(list) -> T]
    BY <1>1
  <2> QED
    BY <1>1, <2>1
<1>3. Append(list, row) \in Seq(T) /\ Len(Append(list, row)) = Len(list) + 1
  OBVIOUS
<1> QED
  BY <1>1, <1>2, <1>3

\* The reviews.
LEMMA ReviewRunTypes ==
    ASSUME TypeInv, NEW r \in Requests, UNCHANGED live,
           SaveReview(r) \/ ClearPhotos(r) \/ InsertPhotos(r) \/ SaveStoreReview(r)
    PROVE  TypeInv'
<1> DEFINE q == req[r]
<1>0. q \in Request /\ Holding(q, Sizes) /\ reviews \in Seq(ReviewRow)
      /\ storeReviews \in Seq(StoreReviewRow) /\ rows \in [Products -> [Tables -> Nat]]
      /\ favorites \subseteq Buyers \X Products
  BY DEF TypeInv, RequestsHold, TablesOK, CatalogueOK, ShopOK
<1>1. CASE SaveReview(r)
  <2> DEFINE k == IF q.id = 0 THEN Len(reviews) + 1 ELSE q.id
             row == [buyer |-> q.buyer, product |-> q.product, order |-> q.num, here |-> TRUE,
                     images |-> q.list]
             next == [Idle EXCEPT !.pc = "clearPhotos", !.id = k, !.call = q.call]
  <2>1. /\ q.buyer \in Buyers /\ q.product \in Products /\ q.num \in Nat \ {0}
        /\ q.list \subseteq 1..MaxEvents /\ q.id \in 0..Len(reviews) /\ q.call \in 1..MaxEvents
        /\ q.call \in Nat
    BY <1>0, <1>1 DEF SaveReview, Holding, HoldsBuyer, HoldsProduct, HoldsNumber, HoldsList,
                      HoldsRow, Sizes, Request
  <2>2. row \in ReviewRow
    BY <2>1 DEF ReviewRow
  <2>3. reviews' = reviews \/ (q.id = 0 /\ reviews' = Append(reviews, row))
        \/ (q.id # 0 /\ reviews' = [reviews EXCEPT ![q.id] = row])
    BY <1>1 DEF SaveReview
  <2>4. \/ Return(r)
        \/ Goto(r, next) /\ ((q.id = 0 /\ reviews' = Append(reviews, row))
                              \/ (q.id # 0 /\ reviews' = [reviews EXCEPT ![q.id] = row]))
    BY <1>1 DEF SaveReview
  <2> HIDE DEF row
  <2>5. reviews' \in Seq(ReviewRow) /\ Len(reviews) <= Len(reviews')
    <3>1. /\ Append(reviews, row) \in Seq(ReviewRow)
          /\ Len(reviews) <= Len(Append(reviews, row))
          /\ \A a \in 1..Len(reviews) : /\ [reviews EXCEPT ![a] = row] \in Seq(ReviewRow)
                                       /\ Len([reviews EXCEPT ![a] = row]) = Len(reviews)
      BY <1>0, <2>2, RowWritten
    <3>2. Len(reviews) \in Nat
      BY <1>0
    <3>3. q.id = 0 \/ q.id \in 1..Len(reviews)
      BY <2>1, <3>2
    <3>4. reviews \in Seq(ReviewRow) /\ Len(reviews) <= Len(reviews)
      BY <1>0, <3>2
    <3> HIDE DEF q
    <3> QED
      BY <2>3, <3>1, <3>2, <3>3, <3>4
  <2>6. TablesOK' /\ SizesGrow
    BY <1>0, <1>1, <2>5, ReviewsStay DEF SaveReview, shared, TypeInv
  <2>7. CASE Return(r)
    BY <2>6, <2>7, ReturnTypes
  <2>8. CASE Goto(r, next) /\ ((q.id = 0 /\ reviews' = Append(reviews, row))
                                \/ (q.id # 0 /\ reviews' = [reviews EXCEPT ![q.id] = row]))
    <3>1. k \in 1..Len(reviews') /\ k \in Nat
      BY <1>0, <2>1, <2>2, <2>8, RowWritten
    <3> HIDE DEF k
    <3>2. next \in Request /\ next.pc = "clearPhotos" /\ next.id = k /\ next.call = q.call
      BY <2>1, <3>1, IdleHolds DEF Holding, Request, Pc
    <3> HIDE DEF next
    <3>3. Holding(next, Sizes')
      BY <2>1, <3>1, <3>2 DEF Holding, HoldsStore, HoldsProduct, HoldsBuyer, HoldsKey, HoldsNumber,
                              HoldsList, HoldsRow, Sizes
    <3> QED
      BY <2>6, <2>8, <3>3, GotoTypes
  <2> QED
    BY <2>4, <2>7, <2>8
<1>2. ASSUME NEW images \in SUBSET (1..MaxEvents), NEW k \in DOMAIN reviews
      PROVE  /\ [reviews EXCEPT ![k].images = images] \in Seq(ReviewRow)
             /\ Len([reviews EXCEPT ![k].images = images]) = Len(reviews)
  <2> DEFINE row == [reviews[k] EXCEPT !.images = images]
  <2>1. reviews[k] \in ReviewRow
    BY <1>0, <1>2
  <2>2. row \in ReviewRow
    BY <1>2, <2>1 DEF ReviewRow
  <2>3. [reviews EXCEPT ![k].images = images] = [reviews EXCEPT ![k] = row]
    BY <1>0
  <2>4. k \in 1..Len(reviews)
    BY <1>0, <1>2
  <2> HIDE DEF row
  <2>5. \A a \in 1..Len(reviews) : /\ [reviews EXCEPT ![a] = row] \in Seq(ReviewRow)
                                 /\ Len([reviews EXCEPT ![a] = row]) = Len(reviews)
    BY <1>0, <2>2, RowWritten
  <2> QED
    BY <2>3, <2>4, <2>5
<1>3. CASE ClearPhotos(r)
  <2> DEFINE next == [q EXCEPT !.pc = "insertPhotos"]
  <2>1. q.id \in 1..Len(reviews) /\ q.call \in 1..MaxEvents
    BY <1>0, <1>3 DEF ClearPhotos, Holding, HoldsRow, HoldsNumber, Sizes
  <2>2. reviews' \in Seq(ReviewRow) /\ Len(reviews') = Len(reviews)
    <3>1. q.id \in DOMAIN reviews /\ {} \in SUBSET (1..MaxEvents)
      BY <1>0, <2>1
    <3> QED
      BY <1>2, <1>3, <3>1 DEF ClearPhotos
  <2>3. next \in Request /\ next.pc = "insertPhotos" /\ next.id = q.id /\ next.call = q.call
    BY <1>0 DEF Request, Pc
  <2> HIDE DEF next
  <2>4. Holding(next, Sizes')
    BY <2>1, <2>2, <2>3 DEF Holding, HoldsStore, HoldsProduct, HoldsBuyer, HoldsKey, HoldsNumber,
                            HoldsList, HoldsRow, Sizes
  <2>5. TablesOK' /\ SizesGrow
    BY <1>0, <1>3, <2>2, ReviewsStay DEF ClearPhotos, shared, TypeInv
  <2> QED
    BY <1>3, <2>4, <2>5, GotoTypes DEF ClearPhotos, next
<1>4. CASE InsertPhotos(r)
  <2> DEFINE images == IF reviews[q.id].here THEN reviews[q.id].images \cup {q.call}
                       ELSE reviews[q.id].images
  <2>1. q.id \in 1..Len(reviews) /\ q.call \in 1..MaxEvents
    BY <1>0, <1>4 DEF InsertPhotos, Holding, HoldsRow, HoldsNumber, Sizes
  <2>2. reviews[q.id] \in ReviewRow
    BY <1>0, <2>1
  <2>3. images \in SUBSET (1..MaxEvents)
    BY <2>1, <2>2 DEF ReviewRow
  <2>4. reviews' = [reviews EXCEPT ![q.id].images = images]
    BY <1>0, <1>4, <2>1, <2>2 DEF InsertPhotos, ReviewRow
  <2> HIDE DEF images
  <2>5. reviews' \in Seq(ReviewRow) /\ Len(reviews') = Len(reviews)
    <3>1. q.id \in DOMAIN reviews
      BY <1>0, <2>1
    <3> QED
      BY <1>2, <2>3, <2>4, <3>1
  <2>6. TablesOK' /\ SizesGrow
    BY <1>0, <1>4, <2>5, ReviewsStay DEF InsertPhotos, shared, TypeInv
  <2> QED
    BY <1>4, <2>6, ReturnTypes DEF InsertPhotos
<1>5. CASE SaveStoreReview(r)
  <2> DEFINE row == [buyer |-> q.buyer, store |-> q.store, order |-> q.num, here |-> TRUE]
  <2>1. /\ q.buyer \in Buyers /\ q.store \in Stores /\ q.num \in Nat \ {0}
        /\ q.id \in 0..Len(storeReviews)
    BY <1>0, <1>5 DEF SaveStoreReview, Holding, HoldsBuyer, HoldsStore, HoldsNumber, HoldsRow,
                      Sizes, Request
  <2>2. row \in StoreReviewRow
    BY <2>1 DEF StoreReviewRow
  <2>3. storeReviews' = storeReviews \/ (q.id = 0 /\ storeReviews' = Append(storeReviews, row))
        \/ (q.id # 0 /\ storeReviews' = [storeReviews EXCEPT ![q.id] = row])
    BY <1>5 DEF SaveStoreReview
  <2> HIDE DEF row
  <2>4. storeReviews' \in Seq(StoreReviewRow) /\ Len(storeReviews) <= Len(storeReviews')
    <3>1. /\ Append(storeReviews, row) \in Seq(StoreReviewRow)
          /\ Len(storeReviews) <= Len(Append(storeReviews, row))
          /\ \A a \in 1..Len(storeReviews) :
               /\ [storeReviews EXCEPT ![a] = row] \in Seq(StoreReviewRow)
               /\ Len([storeReviews EXCEPT ![a] = row]) = Len(storeReviews)
      BY <1>0, <2>2, RowWritten
    <3>2. Len(storeReviews) \in Nat
      BY <1>0
    <3>3. q.id = 0 \/ q.id \in 1..Len(storeReviews)
      BY <2>1, <3>2
    <3>4. storeReviews \in Seq(StoreReviewRow) /\ Len(storeReviews) <= Len(storeReviews)
      BY <1>0, <3>2
    <3> HIDE DEF q
    <3> QED
      BY <2>3, <3>1, <3>2, <3>3, <3>4
  <2>5. reviews' \in Seq(ReviewRow) /\ Len(reviews) <= Len(reviews')
    BY <1>0, <1>5 DEF SaveStoreReview
  <2>6. TablesOK' /\ SizesGrow
    BY <1>0, <1>5, <2>4, <2>5, ReviewsStay DEF SaveStoreReview, shared, TypeInv
  <2> QED
    BY <1>5, <2>6, ReturnTypes DEF SaveStoreReview
<1> QED
  BY <1>1, <1>3, <1>4, <1>5

\* Every handler of the catalogue, as it goes on.
LEMMA CatalogueRunTypes ==
    ASSUME TypeInv, NEW r \in Requests, CatalogueRun(r), UNCHANGED live
    PROVE  TypeInv'
  BY NameRunTypes, ProductRunTypes, RemovalTypes, EraseTypes, ReviewRunTypes DEF CatalogueRun

-----------------------------------------------------------------------------
(* Notifications *)

\* Streams open and close, and a table of browsers that gets no shorter.
LEMMA LiveStays ==
    ASSUME TablesOK, LiveOK', Len(push) <= Len(push'), UNCHANGED <<shared, promotions, catalogue>>
    PROVE  TablesOK' /\ SizesGrow
<1>1. ShopOK' /\ PromotionsOK' /\ CatalogueOK'
  BY DEF TablesOK, shared, promotions, catalogue, ShopOK, PromotionsOK, CatalogueOK
<1>2. ProductsRefer' /\ PaymentsRefer'
  BY DEF TablesOK, shared, promotions, catalogue, ProductsRefer, Placed, Refers, There,
         PaymentsRefer
<1>3. SizesGrow
  BY DEF SizesGrow, Sizes, TablesOK, PromotionsOK, CatalogueOK, LiveOK, promotions, catalogue
<1> QED
  BY <1>1, <1>2, <1>3 DEF TablesOK

\* A row of push_subscriptions is given up.
LEMMA PushDropped ==
    ASSUME push \in Seq(PushRow), NEW k \in 1..Len(push)
    PROVE  [push[k] EXCEPT !.here = FALSE] \in PushRow
<1>1. push[k] \in PushRow
  OBVIOUS
<1> QED
  BY <1>1 DEF PushRow

\* Connections and browsers as their handlers begin.
LEMMA LiveBeginTypes ==
    ASSUME TypeInv, NEW r \in Requests, Free(r), LiveBegin(r), UNCHANGED <<promotions, catalogue>>
    PROVE  TypeInv'
<1>0. LiveOK /\ push \in Seq(PushRow) /\ Len(push) \in Nat
  BY DEF TypeInv, TablesOK, LiveOK
<1>1. ASSUME NEW t \in Tabs, NEW u \in Buyers, Subscribe(r, t, u)
      PROVE  TypeInv'
  <2>1. stream[u].subjects \cup {t} \in SUBSET Tabs /\ RoleOf[u] \in {"admin", "seller", "none"}
    BY <1>0, LiveAssumption DEF LiveOK
  <2>2. LiveOK'
    BY <1>0, <1>1, <2>1 DEF Subscribe, LiveOK
  <2>3. TablesOK' /\ SizesGrow
    BY <1>0, <1>1, <2>2, LiveStays DEF Subscribe, TypeInv
  <2> QED
    BY <1>1, <2>3, CallTypes, IdleHolds DEF Subscribe, Call
<1>2. ASSUME NEW e \in Endpoints, Unsubscribe(r, e)
      PROVE  TypeInv'
  <2> DEFINE row(k) == IF k \in RowsOf(e) THEN [push[k] EXCEPT !.here = FALSE] ELSE push[k]
  <2>1. \A k \in 1..Len(push) : row(k) \in PushRow
    BY <1>0, PushDropped
  <2>2. push' = [k \in 1..Len(push) |-> row(k)]
    BY <1>0, <1>2 DEF Unsubscribe
  <2> HIDE DEF row
  <2>3. push' \in Seq(PushRow) /\ Len(push') = Len(push)
    BY <1>0, <2>1, <2>2
  <2>4. LiveOK' /\ Len(push) <= Len(push')
    BY <1>0, <1>2, <2>3 DEF Unsubscribe, LiveOK
  <2>5. TablesOK' /\ SizesGrow
    BY <1>2, <2>4, LiveStays DEF Unsubscribe, TypeInv
  <2> QED
    BY <1>2, <2>5, CallTypes, IdleHolds DEF Unsubscribe, Call
<1>3. ASSUME NEW e \in Endpoints, NEW u \in Buyers, BeginSubscribe(r, e, u)
      PROVE  TypeInv'
  <2> DEFINE q(k) == [Idle EXCEPT !.pc = "savePush", !.key = e, !.buyer = u, !.id = k]
  <2>1. PICK k \in IF RowsOf(e) = {} THEN {0} ELSE RowsOf(e) : Call(r, q(k))
    BY <1>3 DEF BeginSubscribe
  <2>2. k \in 0..Len(push) /\ k \in Nat
    BY <1>0, <2>1 DEF RowsOf
  <2>3. q(k) \in Request /\ q(k).pc = "savePush" /\ q(k).key = e /\ q(k).buyer = u /\ q(k).id = k
    BY <2>2, IdleHolds DEF Holding, Request, Pc, Keys
  <2> HIDE DEF q
  <2>4. Holding(q(k), Sizes)
    BY <2>2, <2>3 DEF Holding, HoldsStore, HoldsProduct, HoldsBuyer, HoldsKey, HoldsNumber,
                      HoldsList, HoldsRow, Sizes
  <2> QED
    BY <1>3, <2>1, <2>4, CallKeepsTypes DEF BeginSubscribe, Call, TablesVars
<1>4. ASSUME NEW u \in Buyers, BeginSend(r, u)
      PROVE  TypeInv'
  <2> DEFINE q == [Idle EXCEPT !.pc = "send", !.list = RowsFor(u)]
  <2>1. RowsFor(u) \subseteq 1..Len(push)
        /\ RowsFor(u) \in SUBSET (Stores \cup Nat \cup RowStatus \cup NameState)
    BY <1>0 DEF RowsFor
  <2>2. q \in Request /\ q.pc = "send" /\ q.list = RowsFor(u)
    BY <2>1, IdleHolds DEF Holding, Request, Pc
  <2> HIDE DEF q
  <2>3. Holding(q, Sizes)
    BY <2>1, <2>2 DEF Holding, HoldsStore, HoldsProduct, HoldsBuyer, HoldsKey, HoldsNumber,
                      HoldsList, HoldsRow, Sizes
  <2> QED
    BY <1>4, <2>3, CallKeepsTypes DEF BeginSend, Call, TablesVars, q
<1> QED
  BY <1>1, <1>2, <1>3, <1>4 DEF LiveBegin, NotificationsController, PushController

\* Browsers as their handlers go on.
LEMMA LiveRunTypes ==
    ASSUME TypeInv, NEW r \in Requests, LiveRun(r), UNCHANGED <<promotions, catalogue>>
    PROVE  TypeInv'
<1> DEFINE q == req[r]
<1>0. q \in Request /\ Holding(q, Sizes) /\ LiveOK /\ push \in Seq(PushRow) /\ Len(push) \in Nat
  BY DEF TypeInv, RequestsHold, TablesOK, LiveOK
<1>1. CASE SavePush(r)
  <2> DEFINE row == [endpoint |-> q.key, user |-> q.buyer, here |-> TRUE]
  <2>1. q.key \in Endpoints /\ q.buyer \in Buyers /\ q.id \in 0..Len(push)
    BY <1>0, <1>1 DEF SavePush, Holding, HoldsBuyer, HoldsKey, HoldsRow, Sizes
  <2>2. row \in PushRow
    BY <2>1 DEF PushRow
  <2>3. q.id = 0 \/ q.id \in 1..Len(push)
    BY <1>0, <2>1
  <2>4. (q.id = 0 /\ push' = Append(push, row)) \/ (q.id # 0 /\ push' = [push EXCEPT ![q.id] = row])
    BY <1>1 DEF SavePush
  <2> HIDE DEF row
  <2>5. /\ Append(push, row) \in Seq(PushRow) /\ Len(push) <= Len(Append(push, row))
        /\ \A a \in 1..Len(push) : /\ [push EXCEPT ![a] = row] \in Seq(PushRow)
                                   /\ Len([push EXCEPT ![a] = row]) = Len(push)
    BY <1>0, <2>2, RowWritten
  <2>6. push' \in Seq(PushRow) /\ Len(push) <= Len(push')
    BY <1>0, <2>3, <2>4, <2>5
  <2>7. TablesOK' /\ SizesGrow
    BY <1>0, <1>1, <2>6, LiveStays DEF SavePush, TypeInv, LiveOK
  <2> QED
    BY <1>1, <2>7, ReturnTypes DEF SavePush
<1>2. CASE Send(r)
  <2>1. q.pc = "send" /\ q.list \subseteq 1..Len(push)
    BY <1>0, <1>2 DEF Send, Holding, HoldsRow, Sizes
  <2>2. PICK k \in q.list :
          \/ Goto(r, [q EXCEPT !.pc = "drop", !.id = k])
          \/ Goto(r, IF q.list = {k} THEN Idle ELSE [q EXCEPT !.list = q.list \ {k}])
    BY <1>0, <1>2 DEF Send, Request
  <2> DEFINE a == [q EXCEPT !.pc = "drop", !.id = k]
             b == [q EXCEPT !.list = q.list \ {k}]
  <2>3. k \in 1..Len(push) /\ k \in Nat
    BY <1>0, <2>1
  <2>4. a \in Request /\ a.pc = "drop" /\ a.id = k /\ a.list = q.list
    BY <1>0, <2>3 DEF Request, Pc
  <2>5. b \in Request /\ b.pc = "send" /\ b.list = q.list \ {k}
    BY <1>0, <2>1 DEF Request, Pc
  <2>6. Goto(r, a) \/ Goto(r, b) \/ Return(r)
    BY <2>2 DEF Return
  <2> HIDE DEF a, b
  <2>7. Holding(a, Sizes) /\ Holding(b, Sizes)
    BY <2>1, <2>3, <2>4, <2>5 DEF Holding, HoldsStore, HoldsProduct, HoldsBuyer, HoldsKey,
                                  HoldsNumber, HoldsList, HoldsRow, Sizes
  <2>8. UNCHANGED TablesVars
    BY <1>2 DEF Send, TablesVars
  <2> QED
    BY <2>6, <2>7, <2>8, GotoKeepsTypes, IdleHolds DEF Return
<1>3. CASE Drop(r)
  <2> DEFINE b == [q EXCEPT !.pc = "send", !.id = 0, !.list = q.list \ {q.id}]
             row == [push[q.id] EXCEPT !.here = FALSE]
  <2>1. q.pc = "drop" /\ q.id \in 1..Len(push) /\ q.list \subseteq 1..Len(push)
    BY <1>0, <1>3 DEF Drop, Holding, HoldsRow, Sizes
  <2>2. row \in PushRow
    BY <1>0, <2>1, PushDropped
  <2>3. push' = [push EXCEPT ![q.id] = row]
    BY <1>3 DEF Drop
  <2> HIDE DEF row
  <2>4. \A i \in 1..Len(push) : /\ [push EXCEPT ![i] = row] \in Seq(PushRow)
                                /\ Len([push EXCEPT ![i] = row]) = Len(push)
    BY <1>0, <2>2, RowWritten
  <2>5. push' \in Seq(PushRow) /\ Len(push') = Len(push)
    BY <2>1, <2>3, <2>4
  <2>6. LiveOK' /\ Len(push) <= Len(push')
    BY <1>0, <1>3, <2>5 DEF Drop, LiveOK
  <2>7. TablesOK' /\ SizesGrow
    BY <1>3, <2>6, LiveStays DEF Drop, TypeInv
  <2>8. b \in Request /\ b.pc = "send" /\ b.list = q.list \ {q.id}
    BY <1>0 DEF Request, Pc
  <2>9. Goto(r, b) \/ Return(r)
    BY <1>0, <1>3 DEF Drop, Return, Request
  <2> HIDE DEF b
  <2>10. Holding(b, Sizes')
    BY <2>1, <2>5, <2>8 DEF Holding, HoldsStore, HoldsProduct, HoldsBuyer, HoldsKey, HoldsNumber,
                            HoldsList, HoldsRow, Sizes
  <2> QED
    BY <2>7, <2>9, <2>10, GotoTypes, ReturnTypes
<1> QED
  BY <1>1, <1>2, <1>3 DEF LiveRun

\* A connection is closed, whatever runs.
LEMMA FinalizeTypes ==
    ASSUME TypeInv, NEW t \in Tabs, Finalize(t), UNCHANGED <<promotions, catalogue>>
    PROVE  TypeInv'
<1> DEFINE u == tab[t]
           entry == IF LeftOpen(u, t) = {} THEN NoStream
                    ELSE [stream[u] EXCEPT !.subjects = LeftOpen(u, t)]
<1>0. LiveOK /\ push \in Seq(PushRow) /\ Len(push) \in Nat /\ u \in Buyers
  BY DEF TypeInv, TablesOK, LiveOK, Finalize
<1>1. entry \in [subjects : SUBSET Tabs, role : {"admin", "seller", "none"}]
  <2>1. stream[u] \in [subjects : SUBSET Tabs, role : {"admin", "seller", "none"}]
    BY <1>0 DEF LiveOK
  <2>2. LeftOpen(u, t) \in SUBSET Tabs
    BY <2>1 DEF LeftOpen
  <2> QED
    BY <2>1, <2>2 DEF NoStream
<1>2. stream' = [stream EXCEPT ![u] = entry]
  BY <1>0 DEF Finalize, LiveOK
<1> HIDE DEF entry
<1>3. LiveOK' /\ push' = push
  BY <1>0, <1>1, <1>2 DEF Finalize, LiveOK
<1>4. TablesOK' /\ SizesGrow
  BY <1>0, <1>3, LiveStays DEF Finalize, TypeInv
<1>5. UsedOK'
  <2>1. used.events + 1 \in 0..MaxEvents /\ used' = [used EXCEPT !.events = used.events + 1]
    BY StorefrontAssumption DEF Finalize, Happens, TypeInv, UsedOK
  <2> QED
    BY <2>1 DEF TypeInv, UsedOK
<1>6. RequestsHold'
  <2>1. Sizes' = Sizes /\ req' = req
    BY <1>3 DEF Finalize, Sizes, promotions, catalogue
  <2> QED
    BY <2>1 DEF TypeInv, RequestsHold
<1> QED
  BY <1>4, <1>5, <1>6 DEF TypeInv

-----------------------------------------------------------------------------
(* The types *)

\* The first state.
LEMMA InitTypes == Init => TypeInv
<1> SUFFICES ASSUME Init
             PROVE  TypeInv
  OBVIOUS
<1>1. today \in Days /\ NoProduct \in ProductRow /\ ~NoProduct.here /\ NoRows \in [Tables -> Nat]
  BY StorefrontAssumption DEF Init, Days, NoProduct, ProductRow, NoRows
<1>2. store \in [Stores -> StoreRow] /\ store[FirstStore].here
  BY StoreRowTypes, MarketplaceAssumption DEF Init
<1> DEFINE first == [here |-> TRUE, store |-> FirstStore, category |-> FirstCategory,
                     active |-> TRUE]
<1>3. first \in ProductRow /\ Placed(first)
  BY MarketplaceAssumption DEF ProductRow, Placed, IsCategory
<1>4. product = [p \in Products |-> IF p \in FirstProducts THEN first ELSE NoProduct]
  BY DEF Init
<1>5. product \in [Products -> ProductRow]
  BY <1>1, <1>3, <1>4
<1>6. PICK ordered \in {{}, {FirstOrdered}} :
        /\ rows = [q \in Products |->
             IF q \in FirstProducts
             THEN [NoRows EXCEPT !["batches"] = 1, !["movements"] = 1,
                     !["allocations"] = IF q \in ordered THEN 1 ELSE 0,
                     ![IF ordered = {} THEN "sales" ELSE "purchases"] =
                           IF q = FirstOrdered THEN 0 ELSE 1]
             ELSE NoRows]
        /\ order = IF ordered = {} THEN << >>
                   ELSE << [NewOrder(FirstBuyer, FirstOrdered, "none") EXCEPT
                               !.paid = TRUE, !.status = "DELIVERED"] >>
  BY DEF Init
<1>7. rows \in [Products -> [Tables -> Nat]]
  <2> DEFINE row(q) == [NoRows EXCEPT !["batches"] = 1, !["movements"] = 1,
                          !["allocations"] = IF q \in ordered THEN 1 ELSE 0,
                          ![IF ordered = {} THEN "sales" ELSE "purchases"] =
                                IF q = FirstOrdered THEN 0 ELSE 1]
  <2>1. \A q \in Products : row(q) \in [Tables -> Nat]
    BY <1>1
  <2>2. rows = [q \in Products |-> IF q \in FirstProducts THEN row(q) ELSE NoRows]
    BY <1>6
  <2> HIDE DEF row
  <2> QED
    BY <1>1, <2>1, <2>2
<1>8. order \in Seq(OrderRow)
  <2> DEFINE one == [NewOrder(FirstBuyer, FirstOrdered, "none") EXCEPT
                        !.paid = TRUE, !.status = "DELIVERED"]
  <2>1. one \in OrderRow
    BY MarketplaceAssumption DEF NewOrder, OrderRow, OrderStatus
  <2> HIDE DEF one
  <2>2. << >> \in Seq(OrderRow) /\ << one >> \in Seq(OrderRow)
    BY <2>1
  <2> QED
    BY <1>6, <2>2 DEF one
<1>9. ShopOK
  BY <1>1, <1>2, <1>5, <1>7, <1>8 DEF ShopOK
<1>10. PromotionsOK /\ CatalogueOK /\ LiveOK
  <2>1. coupon \in [Coupons -> CouponRow]
    BY DEF Init, CouponRow
  <2>2. /\ ads = << >> /\ subs = << >> /\ reviews = << >> /\ storeReviews = << >> /\ push = << >>
        /\ favorites = {}
    BY DEF Init
  <2>3. named \in [Names -> NameState]
    BY DEF Init, NameState
  <2>4. /\ tab \in [Tabs -> Buyers \cup {"none"}]
        /\ stream \in [Buyers -> [subjects : SUBSET Tabs, role : {"admin", "seller", "none"}]]
    BY DEF Init, NoStream
  <2> QED
    BY <2>1, <2>2, <2>3, <2>4 DEF PromotionsOK, CatalogueOK, LiveOK
<1>11. ProductsRefer
  <2>1. There(FirstCategory)
    BY MarketplaceAssumption DEF Init, There
  <2> SUFFICES ASSUME NEW p \in Products, product[p].here
               PROVE  Placed(product[p]) /\ Refers(product[p])
    BY DEF ProductsRefer
  <2>2. product[p] = first
    BY <1>1, <1>4
  <2> QED
    BY <1>2, <1>3, <2>1, <2>2 DEF Refers
<1>12. PaymentsRefer
  BY DEF Init, PaymentsRefer
<1>13. UsedOK
  BY StorefrontAssumption DEF Init, UsedOK
<1>14. RequestsHold
  BY IdleHolds DEF Init, RequestsHold, Holding
<1> QED
  BY <1>9, <1>10, <1>11, <1>12, <1>13, <1>14 DEF TypeInv, TablesOK

\* Every step keeps the types.
LEMMA NextTypes ==
    ASSUME TypeInv, [Next]_vars
    PROVE  TypeInv'
<1>1. CASE Environment
  BY <1>1, TickTypes, FinalizeTypes DEF Environment
<1>2. ASSUME NEW r \in Requests, Free(r), Begin(r)
      PROVE  TypeInv'
  <2>1. CASE StoreBegin(r) /\ UNCHANGED <<promotions, catalogue, live>>
    BY <1>2, <2>1, EditTypes, ProgressTypes DEF StoreBegin, StoresController
  <2> QED
    BY <1>2, <2>1, PromotionBeginTypes, CatalogueBeginTypes, LiveBeginTypes DEF Begin
<1>3. ASSUME NEW r \in Requests, Running(r), Run(r)
      PROVE  TypeInv'
  BY <1>3, StoreRunTypes, PromotionRunTypes, CatalogueRunTypes, LiveRunTypes, DieTypes DEF Run
<1>4. CASE UNCHANGED vars
  <2>1. TablesOK' /\ Sizes' = Sizes
    BY <1>4, TablesSame DEF vars, TablesVars, TypeInv
  <2>2. req' = req /\ used' = used
    BY <1>4 DEF vars
  <2> QED
    BY <2>1, <2>2 DEF TypeInv, UsedOK, RequestsHold
<1> QED
  BY <1>1, <1>2, <1>3, <1>4 DEF Next

\* The inductive invariant contains the type invariant of the model.
LEMMA InvTypes == TypeInv => TypeOK
<1> SUFFICES ASSUME TypeInv
             PROVE  TypeOK
  OBVIOUS
<1>1. \A r \in Requests : /\ req[r].pc \in Pc /\ req[r].row \in StoreRow
                          /\ req[r].item \in ProductRow
  BY DEF TypeInv, RequestsHold, Request
<1>2. \A p \in Products : product[p].here => Refers(product[p])
  BY DEF TypeInv, TablesOK, ProductsRefer
<1> QED
  BY <1>1, <1>2 DEF TypeInv, TablesOK, UsedOK, ShopOK, PromotionsOK, CatalogueOK, LiveOK,
                    PaymentsRefer, OrderRow, TypeOK

\* The tables of the shop and the variables of its handlers keep their types, every
\* product refers to a store and a category that are there, and a payment to a store,
\* however requests interleave, fail and remove each other's stores.
THEOREM TypesHold == Spec => []TypeOK
<1>1. Spec => []TypeInv
  BY InitTypes, NextTypes, PTL DEF Spec
<1> QED
  BY <1>1, InvTypes, PTL

-----------------------------------------------------------------------------
(* Streams *)

\* A step of anything but the controller of the stream endpoint.
LEMMA OtherStepsKeepStreams ==
    ASSUME StreamInv, UNCHANGED <<tab, stream>>
    PROVE  StreamInv'
  BY DEF StreamInv, Entry, OpenFor

\* What the entry of a user says.
LEMMA EntrySays ==
    ASSUME NEW u \in Buyers, stream[u] = Entry(u)
    PROVE  /\ stream[u].subjects = OpenFor(u)
           /\ OpenFor(u) = {} <=> stream[u] = NoStream
           /\ stream[u].role = "admin" <=> OpenFor(u) # {} /\ RoleOf[u] = "admin"
<1>1. CASE OpenFor(u) = {}
  <2>1. stream[u] = NoStream
    BY <1>1 DEF Entry
  <2>2. NoStream.subjects = {} /\ NoStream.role = "none"
    BY DEF NoStream
  <2> QED
    BY <1>1, <2>1, <2>2
<1>2. CASE OpenFor(u) # {}
  <2>1. stream[u] = [subjects |-> OpenFor(u), role |-> RoleOf[u]]
    BY <1>2 DEF Entry
  <2>2. stream[u].subjects = OpenFor(u) /\ stream[u].role = RoleOf[u]
    BY <2>1
  <2>3. NoStream.subjects = {}
    BY DEF NoStream
  <2> QED
    BY <1>2, <2>2, <2>3
<1> QED
  BY <1>1, <1>2

\* A tab opens the stream of its user: its subject joins those of the user.
LEMMA SubscribeKeepsStreams ==
    ASSUME StreamInv, LiveOK, NEW r \in Requests, NEW t \in Tabs, NEW u \in Buyers,
           Subscribe(r, t, u)
    PROVE  StreamInv'
<1>1. u # "none" /\ \A v \in Buyers : v # "none"
  BY StorefrontAssumption
<1>2. tab[t] = "none" /\ tab' = [tab EXCEPT ![t] = u]
      /\ stream' = [stream EXCEPT ![u] = [subjects |-> stream[u].subjects \cup {t},
                                          role |-> RoleOf[u]]]
  BY DEF Subscribe, LiveOK
<1>3. ASSUME NEW v \in Buyers, v # u
      PROVE  stream'[v] = Entry(v)'
  <2>1. OpenFor(v)' = OpenFor(v)
    BY <1>1, <1>2, <1>3 DEF OpenFor, LiveOK
  <2> QED
    BY <1>2, <1>3, <2>1 DEF StreamInv, Entry
<1>4. stream'[u] = Entry(u)'
  <2>1. stream[u].subjects = OpenFor(u)
    BY EntrySays DEF StreamInv
  <2>2. OpenFor(u)' = OpenFor(u) \cup {t}
    BY <1>1, <1>2 DEF OpenFor, LiveOK
  <2>3. stream'[u] = [subjects |-> OpenFor(u)', role |-> RoleOf[u]]
    BY <1>2, <2>1, <2>2 DEF LiveOK
  <2> QED
    BY <2>2, <2>3 DEF Entry
<1> QED
  BY <1>3, <1>4 DEF StreamInv

\* A tab closes: its subject goes, and the entry of the user with the last one.
LEMMA FinalizeKeepsStreams ==
    ASSUME StreamInv, LiveOK, NEW t \in Tabs, Finalize(t), NEW u \in Buyers, tab[t] = u
    PROVE  StreamInv'
<1>1. u # "none" /\ \A v \in Buyers : v # "none"
  BY StorefrontAssumption
<1>2. tab' = [tab EXCEPT ![t] = "none"]
      /\ stream' = [stream EXCEPT ![u] = IF LeftOpen(u, t) = {} THEN NoStream
                                         ELSE [stream[u] EXCEPT !.subjects = LeftOpen(u, t)]]
  BY <1>1 DEF Finalize, LiveOK
<1>3. ASSUME NEW v \in Buyers, v # u
      PROVE  stream'[v] = Entry(v)'
  <2>1. OpenFor(v)' = OpenFor(v)
    BY <1>1, <1>2, <1>3 DEF OpenFor, LiveOK
  <2> QED
    BY <1>2, <1>3, <2>1 DEF StreamInv, Entry
<1>4. stream'[u] = Entry(u)'
  <2>1. t \in OpenFor(u)
    BY DEF OpenFor
  <2>2. stream[u] = [subjects |-> OpenFor(u), role |-> RoleOf[u]]
    BY <1>1, <2>1 DEF StreamInv, Entry
  <2>3. OpenFor(u)' = OpenFor(u) \ {t}
    BY <1>1, <1>2 DEF OpenFor, LiveOK
  <2>4. LeftOpen(u, t) = OpenFor(u)'
    BY <2>2, <2>3 DEF LeftOpen
  <2>5. stream'[u] = IF LeftOpen(u, t) = {} THEN NoStream
                     ELSE [stream[u] EXCEPT !.subjects = LeftOpen(u, t)]
    BY <1>1, <1>2 DEF LiveOK
  <2>6. [stream[u] EXCEPT !.subjects = LeftOpen(u, t)]
          = [subjects |-> LeftOpen(u, t), role |-> RoleOf[u]]
    BY <2>2
  <2> QED
    BY <2>4, <2>5, <2>6 DEF Entry
<1> QED
  BY <1>3, <1>4 DEF StreamInv

\* Every step keeps the entries of the stream table those of the open tabs.
LEMMA NextStreams ==
    ASSUME StreamInv, TypeInv, [Next]_vars
    PROVE  StreamInv'
<1>0. LiveOK
  BY DEF TypeInv, TablesOK
<1>1. CASE UNCHANGED <<tab, stream>>
  BY <1>1, OtherStepsKeepStreams
<1>2. CASE Environment
  <2>1. ASSUME NEW t \in Tabs, Finalize(t)
        PROVE  StreamInv'
    BY <1>0, <2>1, FinalizeKeepsStreams DEF Finalize, LiveOK
  <2> QED
    BY <1>1, <1>2, <2>1 DEF Environment, live
<1>3. ASSUME NEW r \in Requests, Begin(r)
      PROVE  StreamInv'
  BY <1>0, <1>1, <1>3, SubscribeKeepsStreams
  DEF Begin, live, LiveBegin, NotificationsController, PushController, Unsubscribe,
      BeginSubscribe, BeginSend
<1>4. ASSUME NEW r \in Requests, Run(r)
      PROVE  StreamInv'
  BY <1>1, <1>4 DEF Run, live, LiveRun, SavePush, Send, Drop
<1>5. CASE UNCHANGED vars
  BY <1>1, <1>5 DEF vars, live
<1> QED
  BY <1>2, <1>3, <1>4, <1>5 DEF Next

\* The entries tell which connections an event is written to.
LEMMA EntriesReach ==
    ASSUME StreamInv, LiveOK
    PROVE  StreamsMatchTabs
<1>1. ASSUME NEW u \in Buyers
      PROVE  /\ stream[u].subjects = OpenFor(u)
             /\ OpenFor(u) = {} <=> stream[u] = NoStream
             /\ stream[u].role = "admin" <=> OpenFor(u) # {} /\ RoleOf[u] = "admin"
  BY EntrySays DEF StreamInv
<1>2. ASSUME NEW t \in ReachedAdmins
      PROVE  t \in Tabs /\ tab[t] # "none" /\ RoleOf[tab[t]] = "admin"
  <2>1. PICK u \in Buyers : stream[u].role = "admin" /\ t \in stream[u].subjects
    BY <1>2 DEF ReachedAdmins
  <2>2. tab[t] = u /\ t \in Tabs /\ RoleOf[u] = "admin"
    BY <1>1, <2>1 DEF OpenFor
  <2> QED
    BY <2>1, <2>2, StorefrontAssumption
<1>3. ASSUME NEW t \in Tabs, tab[t] # "none", RoleOf[tab[t]] = "admin"
      PROVE  t \in ReachedAdmins
  <2>1. tab[t] \in Buyers /\ t \in OpenFor(tab[t])
    BY <1>3 DEF LiveOK, OpenFor
  <2>2. stream[tab[t]].role = "admin" /\ t \in stream[tab[t]].subjects
    BY <1>1, <1>3, <2>1
  <2> QED
    BY <2>1, <2>2 DEF ReachedAdmins
<1>4. ReachedAdmins = {t \in Tabs : tab[t] # "none" /\ RoleOf[tab[t]] = "admin"}
  BY <1>2, <1>3
<1> QED
  BY <1>1, <1>4 DEF StreamsMatchTabs, ReachedOf, OpenFor

\* An event reaches the open connections it is for and no others, and no entry of the map
\* outlives its connections, whatever the order in which they open, close and fail.
THEOREM StreamsHold == Spec => []StreamsMatchTabs
<1>1. Init => StreamInv
  <2> SUFFICES ASSUME Init, NEW u \in Buyers
               PROVE  stream[u] = Entry(u)
    BY DEF StreamInv
  <2>1. OpenFor(u) = {}
    BY StorefrontAssumption DEF Init, OpenFor
  <2> QED
    BY <2>1 DEF Init, Entry
<1>2. TypeInv /\ StreamInv /\ [Next]_vars => StreamInv'
  BY NextStreams
<1>3. TypeInv /\ StreamInv => StreamsMatchTabs
  BY EntriesReach DEF TypeInv, TablesOK
<1> QED
  BY <1>1, <1>2, <1>3, InitTypes, NextTypes, PTL DEF Spec

-----------------------------------------------------------------------------
(* The removal of products that are ordered meanwhile *)

Watched == {"deleteRows", "uses", "place", "sell"}

\* A request in one of these places is running.
LEMMA WatchedRuns ==
    ASSUME NEW r \in Requests, req[r].pc \in Watched
    PROVE  Running(r)
  BY DEF Watched, Running, Idle

\* Fewer things are at most as many.
LEMMA AtMostFewer ==
    ASSUME NEW S, NEW n \in Nat, NEW m \in Nat, AtMost(S, n), n <= m, NEW T, T \subseteq S
    PROVE  AtMost(T, m)
<1>1. IsFiniteSet(T) /\ Cardinality(T) <= Cardinality(S)
  BY FS_Subset DEF AtMost
<1>2. Cardinality(T) \in Nat /\ Cardinality(S) \in Nat
  BY <1>1, FS_CardinalityType DEF AtMost
<1> QED
  BY <1>1, <1>2 DEF AtMost

\* One thing more.
LEMMA AtMostOneMore ==
    ASSUME NEW S, NEW n \in Nat, AtMost(S, n), NEW x, NEW T, T \subseteq S \cup {x}
    PROVE  AtMost(T, n + 1)
<1>0. IsFiniteSet(S) /\ Cardinality(S) \in Nat
  BY FS_CardinalityType DEF AtMost
<1>1. /\ IsFiniteSet(S \cup {x})
      /\ \/ Cardinality(S \cup {x}) = Cardinality(S)
         \/ Cardinality(S \cup {x}) = Cardinality(S) + 1
  BY <1>0, FS_AddElement
<1>2. Cardinality(S \cup {x}) \in Nat
  BY <1>1, FS_CardinalityType
<1>3. AtMost(S \cup {x}, n + 1)
  BY <1>0, <1>1, <1>2 DEF AtMost
<1> QED
  BY <1>3, AtMostFewer

\* Neither what was sold nor the rows of a product that are watched change.
TablesCalm ==
    \A p \in Products :
       /\ Sold(p)' <=> Sold(p)
       /\ product[p].here => product'[p].here
       /\ \A t \in {"batches", "movements", "allocations"} : rows'[p][t] = rows[p][t]

\* Neither set of products grows, nor does what it is charged to.
LEMMA FewerKeepRemoval ==
    ASSUME TypeInv, RemovalInv, SoldAreHere', \A p \in Products : Explained(p)',
           Contested' \subseteq Contested, Torn' \subseteq Torn,
           used'.overlaps = used.overlaps, used'.faults = used.faults
    PROVE  RemovalInv'
<1>1. used.overlaps \in Nat /\ used.overlaps + used.faults \in Nat
  BY DEF TypeInv, UsedOK
<1>2. AtMost(Contested', used.overlaps)
  BY <1>1, AtMostFewer DEF RemovalInv
<1>3. AtMost(Torn', used.overlaps + used.faults)
  BY <1>1, AtMostFewer DEF RemovalInv
<1> QED
  BY <1>2, <1>3 DEF RemovalInv

\* A call begins: an order, a sale, a removal of a product not sold so far, or any other.
LEMMA CallKeepsRemoval ==
    ASSUME TypeInv, TypeInv', RemovalInv, TablesCalm, NEW r \in Requests, NEW q, Free(r),
           req' = [req EXCEPT ![r] = q], used'.faults = used.faults,
           used'.overlaps = used.overlaps + (IF Overlaps(r) THEN 1 ELSE 0),
           q.pc = "deleteRows" => q.num = 1 /\ ~Sold(q.product)
    PROVE  RemovalInv'
<1>1. used'.overlaps = used.overlaps + (IF Overlaps(r) THEN 1 ELSE 0)
  OBVIOUS
<1>2. /\ \A s \in Requests : req'[s] = IF s = r THEN q ELSE req[s]
      /\ used.overlaps \in Nat /\ used.faults \in Nat /\ req[r] = Idle
  BY DEF TypeInv, RequestsHold, UsedOK, Free, Running
<1>3. SoldAreHere' /\ \A p \in Products : Explained(p)'
  BY DEF RemovalInv, SoldAreHere, Explained, TablesCalm
<1>4. ASSUME NEW p \in Contested', p \notin Contested
      PROVE  p = q.product /\ Overlaps(r)
  <2>1. p \in Products /\ ~(Sold(p) /\ rows[p]["batches"] = 0)
        /\ ~(BeingRemoved(p) /\ (Selling(p) \/ Sold(p)))
    BY <1>4 DEF Contested
  <2>2. BeingRemoved(p)' /\ (Selling(p)' \/ Sold(p))
    BY <1>4, <2>1 DEF Contested, TablesCalm
  <2>3. PICK s \in Requests : req'[s].pc = "deleteRows" /\ req'[s].product = p
    BY <2>2 DEF BeingRemoved
  <2>4. CASE s = r
    <3>1. q.product = p /\ ~Sold(p)
      BY <1>2, <2>3, <2>4
    <3>2. PICK u \in Requests : req'[u].pc \in {"uses", "place", "sell"} /\ req'[u].product = p
      BY <2>2, <3>1 DEF Selling
    <3>3. u # r /\ req[u].pc \in Watched
      BY <1>2, <2>3, <2>4, <3>2 DEF Watched
    <3> QED
      BY <3>1, <3>3, WatchedRuns DEF Overlaps
  <2>5. CASE s # r
    <3>1. req[s].pc = "deleteRows" /\ req[s].product = p
      BY <1>2, <2>3, <2>5
    <3>2. BeingRemoved(p) /\ Overlaps(r)
      BY <2>5, <3>1, WatchedRuns DEF BeingRemoved, Overlaps, Watched
    <3>3. PICK u \in Requests : req'[u].pc \in {"uses", "place", "sell"} /\ req'[u].product = p
      BY <2>1, <2>2, <3>2 DEF Selling
    <3>4. u = r
      BY <1>2, <2>1, <3>2, <3>3 DEF Selling
    <3> QED
      BY <1>2, <3>2, <3>3, <3>4
  <2> QED
    BY <2>4, <2>5
<1>5. \A p \in Products : ~HasMovement(p)' /\ ~AtBatches(p)' => ~HasMovement(p) /\ ~AtBatches(p)
  <2>1. \A p \in Products : AtBatches(p) => AtBatches(p)'
    BY <1>2 DEF AtBatches, Idle
  <2> QED
    BY <2>1 DEF HasMovement, TablesCalm
<1>6. CASE Overlaps(r)
  <2>1. Contested' \subseteq Contested \cup {q.product}
    BY <1>4
  <2>2. Torn' \subseteq Torn \cup {q.product}
    BY <1>5, <2>1 DEF Torn
  <2>3. /\ used'.overlaps = used.overlaps + 1
        /\ used'.overlaps + used'.faults = (used.overlaps + used.faults) + 1
        /\ used.overlaps + used.faults \in Nat
    BY <1>1, <1>2, <1>6
  <2>4. AtMost(Contested', used.overlaps + 1)
    BY <1>2, <2>1, AtMostOneMore DEF RemovalInv
  <2>5. AtMost(Torn', (used.overlaps + used.faults) + 1)
    BY <2>2, <2>3, AtMostOneMore DEF RemovalInv
  <2> QED
    BY <1>3, <2>3, <2>4, <2>5 DEF RemovalInv, AtMost
<1>7. CASE ~Overlaps(r)
  <2>1. Contested' \subseteq Contested
    BY <1>4, <1>7
  <2>2. Torn' \subseteq Torn
    BY <1>5, <2>1 DEF Torn
  <2>3. used'.overlaps = used.overlaps
    BY <1>1, <1>2, <1>7
  <2> QED
    BY <1>2, <1>3, <2>1, <2>2, <2>3, FewerKeepRemoval
<1> QED
  BY <1>6, <1>7

\* A request other than the removal of a product goes on, and keeps the batches of what
\* was sold.
LEMMA GotoKeepsRemoval ==
    ASSUME TypeInv, TypeInv', RemovalInv, NEW r \in Requests, NEW q, Running(r),
           req' = [req EXCEPT ![r] = q], used' = used, req[r].pc # "deleteRows",
           q.pc \notin Watched
             \/ (q.pc = "place" /\ req[r].pc = "uses" /\ q.product = req[r].product),
           \A p \in Products :
              /\ Sold(p) /\ Sold(p)' => product'[p].here /\ rows'[p]["batches"] = rows[p]["batches"]
              /\ Sold(p)' =>
                   \/ Sold(p)
                   \/ req[r].pc \in {"place", "sell"} /\ req[r].product = p /\ product'[p].here
                        /\ rows'[p]["batches"] # 0
              /\ HasMovement(p) => HasMovement(p)'
              /\ Explained(p) => Explained(p)'
    PROVE  RemovalInv'
<1>1. /\ \A s \in Requests : req'[s] = IF s = r THEN q ELSE req[s]
      /\ used' = used
  BY DEF TypeInv, RequestsHold
<1>2. SoldAreHere' /\ \A p \in Products : Explained(p)'
  BY DEF RemovalInv, SoldAreHere
<1>3. ASSUME NEW p \in Contested'
      PROVE  p \in Contested
  <2>1. p \in Products
    BY <1>3 DEF Contested
  <2>2. ASSUME BeingRemoved(p)'
        PROVE  BeingRemoved(p)
    BY <1>1, <2>2 DEF BeingRemoved, Watched
  <2>3. ASSUME Selling(p)'
        PROVE  Selling(p)
    BY <1>1, <2>3 DEF Selling, Watched
  <2>4. ASSUME Sold(p)'
        PROVE  \/ Sold(p) /\ rows'[p]["batches"] = rows[p]["batches"]
               \/ Selling(p) /\ rows'[p]["batches"] # 0
    BY <2>1, <2>4 DEF Selling
  <2> QED
    BY <1>3, <2>1, <2>2, <2>3, <2>4 DEF Contested
<1>4. \A p \in Products : AtBatches(p) => AtBatches(p)'
  BY <1>1 DEF AtBatches
<1>5. Torn' \subseteq Torn
  BY <1>3, <1>4 DEF Torn
<1> QED
  BY <1>1, <1>2, <1>3, <1>5, FewerKeepRemoval

\* A request dies: the product whose rows it was deleting may stay without its movements.
LEMMA DieKeepsRemoval ==
    ASSUME TypeInv, TypeInv', RemovalInv, NEW r \in Requests, Die(r)
    PROVE  RemovalInv'
<1> DEFINE x == req[r].product
<1>1. /\ \A s \in Requests : req'[s] = IF s = r THEN Idle ELSE req[s]
      /\ used.overlaps \in Nat /\ used.faults \in Nat
      /\ used'.overlaps = used.overlaps /\ used'.faults = used.faults + 1
      /\ order' = order /\ rows' = rows /\ product' = product
  BY DEF Die, TypeInv, RequestsHold, UsedOK
<1>2. \A p : Sold(p)' <=> Sold(p)
  BY <1>1 DEF Sold, OrdersOf, Orders
<1>3. SoldAreHere' /\ \A p \in Products : Explained(p)' /\ (HasMovement(p)' <=> HasMovement(p))
  BY <1>1, <1>2 DEF RemovalInv, SoldAreHere, Explained, HasMovement
<1>4. Contested' \subseteq Contested
  <2>1. Idle.pc = "idle"
    BY DEF Idle
  <2>2. \A p \in Products :
          (BeingRemoved(p)' => BeingRemoved(p)) /\ (Selling(p)' => Selling(p))
    BY <1>1, <2>1 DEF BeingRemoved, Selling
  <2> QED
    BY <1>1, <1>2, <2>2 DEF Contested
<1>5. \A p \in Products : p # x /\ AtBatches(p) => AtBatches(p)'
  BY <1>1 DEF AtBatches
<1>6. Torn' \subseteq Torn \cup {x}
  BY <1>3, <1>4, <1>5 DEF Torn
<1> HIDE DEF x
<1>7. AtMost(Contested', used.overlaps)
  BY <1>1, <1>4, AtMostFewer DEF RemovalInv
<1>8. used.overlaps + used.faults \in Nat
  BY <1>1
<1>9. AtMost(Torn', (used.overlaps + used.faults) + 1)
  BY <1>6, <1>8, AtMostOneMore DEF RemovalInv
<1>10. used'.overlaps + used'.faults = (used.overlaps + used.faults) + 1
  BY <1>1
<1> QED
  BY <1>1, <1>3, <1>7, <1>9, <1>10 DEF RemovalInv

\* Nothing of this changes.
LEMMA CalmKeepsRemoval ==
    ASSUME TypeInv, TypeInv', RemovalInv, UNCHANGED <<order, product, rows, req>>,
           used'.overlaps = used.overlaps, used'.faults = used.faults
    PROVE  RemovalInv'
<1>1. \A p : /\ Sold(p)' <=> Sold(p)
             /\ BeingRemoved(p)' <=> BeingRemoved(p)
             /\ Selling(p)' <=> Selling(p)
             /\ AtBatches(p)' <=> AtBatches(p)
             /\ HasMovement(p)' <=> HasMovement(p)
  BY DEF Sold, OrdersOf, Orders, BeingRemoved, Selling, AtBatches, HasMovement
<1>2. SoldAreHere' /\ \A p \in Products : Explained(p)'
  BY <1>1 DEF RemovalInv, SoldAreHere, Explained
<1>3. Contested' \subseteq Contested
  BY <1>1 DEF Contested
<1>4. Torn' \subseteq Torn
  BY <1>1, <1>3 DEF Torn
<1> QED
  BY <1>2, <1>3, <1>4, FewerKeepRemoval

\* What the removal of products goes by is left alone.
LEMMA CalmTables ==
    ASSUME UNCHANGED <<order, product, rows>>
    PROVE  TablesCalm
  BY DEF TablesCalm, Sold, OrdersOf, Orders

\* A call begins in slot r and is counted, and hands on anything but a removal of a product.
OtherCall(r) ==
    /\ req' = [req EXCEPT ![r] = req'[r]] /\ req'[r].pc # "deleteRows"
    /\ used'.faults = used.faults
    /\ used'.overlaps = used.overlaps + (IF Overlaps(r) THEN 1 ELSE 0)

\* A call that touches no product that is being removed.
LEMMA OtherCallKeepsRemoval ==
    ASSUME TypeInv, TypeInv', RemovalInv, TablesCalm, NEW r \in Requests, Free(r), OtherCall(r)
    PROVE  RemovalInv'
  BY CallKeepsRemoval DEF OtherCall

\* What a call may count on.
LEMMA CallDoes ==
    TypeInv => /\ DOMAIN req = Requests /\ req = [r \in Requests |-> req[r]]
               /\ used.overlaps \in Nat
               /\ used = [events |-> used.events, overlaps |-> used.overlaps,
                          faults |-> used.faults, overrides |-> used.overrides]
  BY DEF TypeInv, RequestsHold, UsedOK

\* The calls of the stores' controllers.
LEMMA StoreCalls ==
    ASSUME TypeInv, NEW r \in Requests, StoreBegin(r)
    PROVE  OtherCall(r) /\ TablesCalm
<1>1. ASSUME NEW s \in Stores, BeginCreateStore(r, s) \/ BeginEditStore(r, s)
      PROVE  OtherCall(r) /\ TablesCalm
  <2>1. BeginCreateStore(r, s) => OtherCall(r)
    BY CallDoes DEF OtherCall, CallWith, Idle, BeginCreateStore, Call
  <2>2. BeginEditStore(r, s) => OtherCall(r)
    BY CallDoes DEF OtherCall, CallWith, Idle, BeginEditStore, Call
  <2> QED
    BY <1>1, <2>1, <2>2, CalmTables DEF BeginCreateStore, BeginEditStore, shared
<1>2. ASSUME NEW s \in Stores, BeginRuleStore(r, s)
      PROVE  OtherCall(r) /\ TablesCalm
  <2>1. ASSUME NEW row, NEW k \in {0, 1},
               CallWith(r, [Idle EXCEPT !.pc = "saveStore", !.store = s, !.row = row], k)
        PROVE  OtherCall(r)
    BY <2>1, CallDoes DEF OtherCall, CallWith, Idle
  <2> QED
    BY <1>2, <2>1, CalmTables DEF BeginRuleStore, Call, shared
<1>3. ASSUME NEW o \in Orders, Progress(r, o)
      PROVE  OtherCall(r) /\ TablesCalm
  <2>1. OtherCall(r)
    BY <1>3, CallDoes DEF OtherCall, CallWith, Idle, Progress, Call
  <2>2. \A p : Sold(p)' <=> Sold(p)
    <3>1. order \in Seq(OrderRow)
      BY DEF TypeInv, TablesOK, ShopOK
    <3>2. PICK row : order' = [order EXCEPT ![o] = row] /\ row.product = order[o].product
      <4>1. order[o] \in OrderRow
        BY <3>1 DEF Orders
      <4>2. CASE order' = [order EXCEPT ![o].paid = TRUE]
        <5>1. [order[o] EXCEPT !.paid = TRUE].product = order[o].product
          BY <4>1 DEF OrderRow
        <5> QED
          BY <4>2, <5>1
      <4>3. ASSUME NEW status, order' = [order EXCEPT ![o].status = status]
            PROVE  \E row : order' = [order EXCEPT ![o] = row] /\ row.product = order[o].product
        <5>1. [order[o] EXCEPT !.status = status].product = order[o].product
          BY <4>1 DEF OrderRow
        <5> QED
          BY <4>3, <5>1
      <4> QED
        BY <1>3, <4>2, <4>3 DEF Progress
    <3>3. DOMAIN order' = DOMAIN order /\ \A i \in DOMAIN order : order'[i].product = order[i].product
      BY <3>1, <3>2
    <3>4. rows' = rows
      BY <1>3 DEF Progress
    <3> QED
      BY <3>3, <3>4 DEF Sold, OrdersOf, Orders
  <2> QED
    BY <1>3, <2>1, <2>2 DEF TablesCalm, Progress
<1> QED
  BY <1>1, <1>2, <1>3 DEF StoreBegin, StoresController

\* The calls about coupons, orders, campaigns and payments.
LEMMA PromotionCalls ==
    ASSUME TypeInv, NEW r \in Requests, PromotionBegin(r)
    PROVE  OtherCall(r) /\ TablesCalm
<1> USE DEF Call
<1>1. ASSUME NEW c \in Coupons, BeginCreateCoupon(r, c)
      PROVE  OtherCall(r)
  BY <1>1, CallDoes DEF OtherCall, CallWith, Idle, BeginCreateCoupon
<1>2. ASSUME NEW c \in Coupons, RemoveCoupon(r, c)
      PROVE  OtherCall(r)
  BY <1>2, CallDoes DEF OtherCall, CallWith, Idle, RemoveCoupon
<1>3. ASSUME NEW b \in Buyers, NEW p \in Products, BeginOrder(r, b, p)
      PROVE  OtherCall(r)
  BY <1>3, CallDoes DEF OtherCall, CallWith, Idle, BeginOrder
<1>4. ASSUME NEW b \in Buyers, NEW p \in Products, NEW c \in Coupons,
             BeginOrderWith(r, b, p, c)
      PROVE  OtherCall(r)
  BY <1>4, CallDoes DEF OtherCall, CallWith, Idle, BeginOrderWith
<1>5. ASSUME NEW s \in Stores, NEW day \in Days, BeginRegisterAd(r, s, day)
      PROVE  OtherCall(r)
  BY <1>5, CallDoes DEF OtherCall, CallWith, Idle, BeginRegisterAd
<1>6. ASSUME NEW a \in DOMAIN ads, BeginCancelAd(r, a)
      PROVE  OtherCall(r)
  BY <1>6, CallDoes DEF OtherCall, CallWith, Idle, BeginCancelAd
<1>7. ASSUME NEW s \in Stores, NEW day \in Days, NEW plan, NEW status,
             BeginPay(r, s, plan, day, status)
      PROVE  OtherCall(r)
  BY <1>7, CallDoes DEF OtherCall, CallWith, Idle, BeginPay
<1>8. ASSUME NEW i \in DOMAIN subs, BeginCancelSub(r, i)
      PROVE  OtherCall(r)
  BY <1>8, CallDoes DEF OtherCall, CallWith, Idle, BeginCancelSub
<1>9. ASSUME BeginExpire(r)
      PROVE  OtherCall(r)
  BY <1>9, CallDoes DEF OtherCall, CallWith, Idle, BeginExpire
<1>10. ASSUME NEW p \in Products, BeginSale(r, p)
       PROVE  OtherCall(r)
  BY <1>10, CallDoes DEF OtherCall, CallWith, Idle, BeginSale
<1>11. TablesCalm
  BY CalmTables
  DEF PromotionBegin, CouponsController, OrdersController, SalesController, AdvertisingController,
      SubscriptionsController, BeginCreateCoupon, RemoveCoupon, BeginOrder, BeginOrderWith, BeginSale,
      BeginRegisterAd, BeginCancelAd, BeginPay, BeginCancelSub, BeginExpire, shared
<1> QED
  BY <1>1, <1>2, <1>3, <1>4, <1>5, <1>6, <1>7, <1>8, <1>9, <1>10, <1>11
  DEF PromotionBegin, CouponsController, OrdersController, SalesController, AdvertisingController,
      SubscriptionsController

\* The calls about products, but for their removal.
LEMMA ProductCalls ==
    ASSUME TypeInv, NEW r \in Requests, ProductsController(r),
           ~\E x \in Products : BeginRemoveProduct(r, x)
    PROVE  OtherCall(r) /\ TablesCalm
<1> USE DEF Call
<1>1. ASSUME NEW x \in Products, NEW s \in Stores, NEW n \in Names, NEW units \in {0, 1},
             BeginCreateProduct(r, x, s, n, units)
      PROVE  OtherCall(r) /\ TablesCalm
  BY <1>1, CallDoes, CalmTables DEF OtherCall, CallWith, Idle, BeginCreateProduct, shared
<1>2. ASSUME NEW x \in Products, NEW active, BeginUpdateProduct(r, x, active)
      PROVE  OtherCall(r) /\ TablesCalm
  BY <1>2, CallDoes, CalmTables DEF OtherCall, CallWith, Idle, BeginUpdateProduct, shared
<1>3. ASSUME NEW x \in Products, NEW t, BeginAddRow(r, x, t)
      PROVE  OtherCall(r) /\ TablesCalm
  BY <1>3, CallDoes, CalmTables DEF OtherCall, CallWith, Idle, BeginAddRow, shared
<1>4. ASSUME NEW x \in Products, NEW t \in Media, RemoveRow(r, x, t)
      PROVE  OtherCall(r) /\ TablesCalm
  <2>1. OtherCall(r)
    BY <1>4, CallDoes DEF OtherCall, CallWith, Idle, RemoveRow
  <2>2. t \in {"images", "videos", "variants"}
    BY CatalogueAssumption
  <2>3. rows \in [Products -> [Tables -> Nat]]
    BY DEF TypeInv, TablesOK, ShopOK
  <2>4. \A y \in Products : \A u \in {"batches", "movements", "allocations", "sales"} :
          rows'[y][u] = rows[y][u]
    BY <1>4, <2>2, <2>3, TablesAre DEF RemoveRow
  <2> QED
    BY <1>4, <2>1, <2>4 DEF TablesCalm, RemoveRow, Sold, OrdersOf, Orders
<1>5. ASSUME NEW x \in Products, NEW b \in Buyers, BeginFavorite(r, b, x)
      PROVE  OtherCall(r) /\ TablesCalm
  BY <1>5, CallDoes, CalmTables DEF OtherCall, CallWith, Idle, BeginFavorite, shared
<1>6. ASSUME NEW x \in Products, NEW b \in Buyers, Unfavorite(r, b, x)
      PROVE  OtherCall(r) /\ TablesCalm
  BY <1>6, CallDoes, CalmTables DEF OtherCall, CallWith, Idle, Unfavorite, shared
<1> QED
  BY <1>1, <1>2, <1>3, <1>4, <1>5, <1>6 DEF ProductsController

\* The calls about reviews and names, and the removal of a store.
LEMMA CatalogueCalls ==
    ASSUME TypeInv, NEW r \in Requests,
           \/ ReviewsController(r) \/ NamesControllers(r)
           \/ \E s \in Stores : BeginRemoveStore(r, s)
    PROVE  OtherCall(r) /\ TablesCalm
<1> USE DEF Call
<1>1. ASSUME NEW b \in Buyers, NEW p \in Products, NEW photos, BeginReview(r, b, p, photos)
      PROVE  OtherCall(r) /\ TablesCalm
  BY <1>1, CallDoes, CalmTables DEF OtherCall, CallWith, Idle, BeginReview, shared
<1>2. ASSUME NEW b \in Buyers, NEW s \in Stores, BeginStoreReview(r, b, s)
      PROVE  OtherCall(r) /\ TablesCalm
  BY <1>2, CallDoes, CalmTables DEF OtherCall, CallWith, Idle, BeginStoreReview, shared
<1>3. ASSUME NEW n \in Names, BeginCreateName(r, n)
      PROVE  OtherCall(r) /\ TablesCalm
  BY <1>3, CallDoes, CalmTables DEF OtherCall, CallWith, Idle, BeginCreateName, shared
<1>4. ASSUME NEW n \in Names, BeginSwitchName(r, n)
      PROVE  OtherCall(r) /\ TablesCalm
  BY <1>4, CallDoes, CalmTables DEF OtherCall, CallWith, Idle, BeginSwitchName, shared
<1>5. ASSUME NEW n \in Names, RemoveMenu(r, n)
      PROVE  OtherCall(r) /\ TablesCalm
  BY <1>5, CallDoes, CalmTables DEF OtherCall, CallWith, Idle, RemoveMenu, shared
<1>6. ASSUME NEW s \in Stores, BeginRemoveStore(r, s)
      PROVE  OtherCall(r) /\ TablesCalm
  <2>1. TablesCalm
    BY <1>6, CalmTables DEF BeginRemoveStore, shared
  <2>2. OtherCall(r)
    <3> DEFINE q == [Idle EXCEPT !.pc = "erase", !.store = s]
    <3>1. q.pc = "erase"
      BY DEF Idle
    <3>2. CallWith(r, q, 0)
      BY <1>6 DEF BeginRemoveStore
    <3> HIDE DEF q
    <3> QED
      BY <3>1, <3>2, CallDoes DEF OtherCall, CallWith
  <2> QED
    BY <2>1, <2>2
<1> QED
  BY <1>1, <1>2, <1>3, <1>4, <1>5, <1>6 DEF ReviewsController, NamesControllers

\* The calls about connections and browsers.
LEMMA LiveCalls ==
    ASSUME TypeInv, NEW r \in Requests, LiveBegin(r)
    PROVE  OtherCall(r) /\ TablesCalm
<1> USE DEF Call
<1>1. ASSUME NEW t, NEW u, Subscribe(r, t, u)
      PROVE  OtherCall(r) /\ TablesCalm
  BY <1>1, CallDoes, CalmTables DEF OtherCall, CallWith, Idle, Subscribe, shared
<1>2. ASSUME NEW e, NEW u, BeginSubscribe(r, e, u)
      PROVE  OtherCall(r) /\ TablesCalm
  BY <1>2, CallDoes, CalmTables DEF OtherCall, CallWith, Idle, BeginSubscribe, shared
<1>3. ASSUME NEW e, Unsubscribe(r, e)
      PROVE  OtherCall(r) /\ TablesCalm
  BY <1>3, CallDoes, CalmTables DEF OtherCall, CallWith, Idle, Unsubscribe, shared
<1>4. ASSUME NEW u, BeginSend(r, u)
      PROVE  OtherCall(r) /\ TablesCalm
  BY <1>4, CallDoes, CalmTables DEF OtherCall, CallWith, Idle, BeginSend, shared
<1> QED
  BY <1>1, <1>2, <1>3, <1>4 DEF LiveBegin, NotificationsController, PushController

\* Whatever call begins.
LEMMA BeginKeepsRemoval ==
    ASSUME TypeInv, TypeInv', RemovalInv, NEW r \in Requests, Free(r), Begin(r)
    PROVE  RemovalInv'
<1>1. ASSUME OtherCall(r) /\ TablesCalm
      PROVE  RemovalInv'
  BY <1>1, OtherCallKeepsRemoval
<1>2. ASSUME NEW p \in Products, BeginRemoveProduct(r, p)
      PROVE  RemovalInv'
  <2> DEFINE q == [Idle EXCEPT !.pc = "deleteRows", !.product = p, !.num = 1]
  <2>1. q.num = 1 /\ q.product = p
    BY DEF Idle
  <2>2. req' = [req EXCEPT ![r] = q] /\ used'.faults = used.faults
        /\ used'.overlaps = used.overlaps + (IF Overlaps(r) THEN 1 ELSE 0)
    BY <1>2, CallDoes DEF BeginRemoveProduct, Call, CallWith
  <2>3. TablesCalm
    BY <1>2, CalmTables DEF BeginRemoveProduct, shared
  <2>4. ~Sold(p)
    BY <1>2 DEF BeginRemoveProduct, NeverSold, Sold
  <2> HIDE DEF q
  <2> QED
    BY <2>1, <2>2, <2>3, <2>4, CallKeepsRemoval
<1>3. CASE CatalogueBegin(r)
  BY <1>1, <1>2, <1>3, ProductCalls, CatalogueCalls DEF CatalogueBegin
<1> QED
  BY <1>1, <1>3, StoreCalls, PromotionCalls, LiveCalls DEF Begin

\* A request goes on, and neither sells a product nor removes one.
OtherStep(r) ==
    /\ req' = [req EXCEPT ![r] = req'[r]] /\ used' = used
    /\ req[r].pc # "deleteRows" /\ req'[r].pc \notin Watched

\* Nor touches the tables its removal goes by.
LEMMA OtherStepKeepsRemoval ==
    ASSUME TypeInv, TypeInv', RemovalInv, TablesCalm, NEW r \in Requests, Running(r), OtherStep(r)
    PROVE  RemovalInv'
<1>1. \A p \in Products :
        /\ Sold(p) => product'[p].here /\ rows'[p]["batches"] = rows[p]["batches"]
        /\ Sold(p)' => Sold(p)
        /\ HasMovement(p) => HasMovement(p)'
        /\ Explained(p) => Explained(p)'
  BY DEF RemovalInv, SoldAreHere, TablesCalm, HasMovement, Explained
<1> QED
  BY <1>1, GotoKeepsRemoval DEF OtherStep

\* What a request that goes on may count on.
LEMMA StepDoes ==
    ASSUME TypeInv, NEW r \in Requests
    PROVE  /\ DOMAIN req = Requests /\ req = [s \in Requests |-> req[s]]
           /\ req[r] \in Request
  BY DEF TypeInv, RequestsHold

\* A request goes on to hold q, or returns.
LEMMA StepTo ==
    ASSUME TypeInv, NEW r \in Requests, NEW q, Goto(r, q) \/ Return(r),
           req[r].pc # "deleteRows", q.pc \notin Watched
    PROVE  OtherStep(r)
<1>1. Idle.pc \notin Watched
  BY DEF Idle, Watched
<1> QED
  BY <1>1, StepDoes DEF OtherStep, Goto, Return

\* Stores are written.
LEMMA StoreSteps ==
    ASSUME TypeInv, NEW r \in Requests, StoreRun(r)
    PROVE  OtherStep(r) /\ TablesCalm
<1> USE DEF Return, Goto, Watched
<1>1. CASE InsertStore(r)
  BY <1>1, StepDoes, CalmTables DEF OtherStep, Request, Idle, InsertStore, shared
<1>2. CASE SaveStore(r)
  BY <1>2, StepDoes, CalmTables DEF OtherStep, Request, Idle, SaveStore, shared
<1> QED
  BY <1>1, <1>2 DEF StoreRun

\* Coupons, campaigns and payments are.
LEMMA PromotionSteps ==
    ASSUME TypeInv, NEW r \in Requests,
           \/ InsertCoupon(r) \/ Increment(r) \/ InsertAd(r) \/ Raise(r) \/ CancelAd(r) \/ Lower(r)
           \/ LowerAll(r) \/ ExpireAds(r) \/ InsertSub(r) \/ FindLatest(r) \/ Extend(r) \/ CancelSub(r)
    PROVE  OtherStep(r) /\ TablesCalm
<1> USE DEF Return, Goto, Watched
<1>1. CASE InsertCoupon(r)
  BY <1>1, StepDoes, CalmTables DEF OtherStep, Request, Idle, InsertCoupon, shared
<1>2. CASE Increment(r)
  BY <1>2, StepDoes, CalmTables DEF OtherStep, Request, Idle, Increment, shared
<1>3. CASE InsertAd(r)
  BY <1>3, StepDoes, CalmTables DEF OtherStep, Request, Idle, InsertAd, shared
<1>4. CASE Raise(r)
  BY <1>4, StepDoes, CalmTables DEF OtherStep, Request, Idle, Raise, shared
<1>5. CASE CancelAd(r)
  <2> DEFINE next == [Idle EXCEPT !.pc = "lower", !.store = ads[req[r].id].store]
  <2>1. next.pc \notin Watched
    BY StepDoes DEF Request, Idle
  <2>2. Goto(r, next) \/ Return(r)
    BY <1>5 DEF CancelAd
  <2>3. TablesCalm /\ req[r].pc # "deleteRows"
    BY <1>5, CalmTables DEF CancelAd, shared
  <2> HIDE DEF next
  <2> QED
    BY <2>1, <2>2, <2>3, StepTo
<1>6. CASE Lower(r)
  BY <1>6, StepDoes, CalmTables DEF OtherStep, Request, Idle, Lower, shared
<1>7. CASE LowerAll(r)
  BY <1>7, StepDoes, CalmTables DEF OtherStep, Request, Idle, LowerAll, shared
<1>8. CASE ExpireAds(r)
  BY <1>8, StepDoes, CalmTables DEF OtherStep, Request, Idle, ExpireAds, shared
<1>9. CASE InsertSub(r)
  <2> DEFINE next == [req[r] EXCEPT !.pc = "latest", !.list = {}]
  <2>1. next.pc \notin Watched
    BY StepDoes DEF Request, Idle
  <2>2. Goto(r, next) \/ Return(r)
    BY <1>9 DEF InsertSub
  <2>3. TablesCalm /\ req[r].pc # "deleteRows"
    BY <1>9, CalmTables DEF InsertSub, shared
  <2> HIDE DEF next
  <2> QED
    BY <2>1, <2>2, <2>3, StepTo
<1>10. CASE FindLatest(r)
  <2> DEFINE next == [req[r] EXCEPT !.pc = "extend", !.num = LatestEnd(req[r].store)]
  <2>1. next.pc \notin Watched
    BY StepDoes DEF Request, Idle
  <2>2. Goto(r, next) \/ Return(r)
    BY <1>10 DEF FindLatest
  <2>3. TablesCalm /\ req[r].pc # "deleteRows"
    BY <1>10, CalmTables DEF FindLatest, shared
  <2> HIDE DEF next
  <2> QED
    BY <2>1, <2>2, <2>3, StepTo
<1>11. CASE Extend(r)
  BY <1>11, StepDoes, CalmTables DEF OtherStep, Request, Idle, Extend, shared
<1>12. CASE CancelSub(r)
  BY <1>12, StepDoes, CalmTables DEF OtherStep, Request, Idle, CancelSub, shared
<1> QED
  BY <1>1, <1>2, <1>3, <1>4, <1>5, <1>6, <1>7, <1>8, <1>9, <1>10, <1>11, <1>12

\* Names, favorites and reviews are.
LEMMA ReviewSteps ==
    ASSUME TypeInv, NEW r \in Requests,
           \/ InsertName(r) \/ SaveName(r) \/ InsertFavorite(r) \/ SaveReview(r)
           \/ ClearPhotos(r) \/ InsertPhotos(r) \/ SaveStoreReview(r)
    PROVE  OtherStep(r) /\ TablesCalm
<1> USE DEF Return, Goto, Watched
<1>1. CASE InsertName(r)
  BY <1>1, StepDoes, CalmTables DEF OtherStep, Request, Idle, InsertName, shared
<1>2. CASE SaveName(r)
  <2> DEFINE next == [Idle EXCEPT !.pc = "hide", !.key = req[r].key]
  <2>1. next.pc \notin Watched
    BY StepDoes DEF Request, Idle
  <2>2. Goto(r, next) \/ Return(r)
    BY <1>2 DEF SaveName
  <2>3. TablesCalm /\ req[r].pc # "deleteRows"
    BY <1>2, CalmTables DEF SaveName, shared
  <2> HIDE DEF next
  <2> QED
    BY <2>1, <2>2, <2>3, StepTo
<1>3. CASE InsertFavorite(r)
  BY <1>3, StepDoes, CalmTables DEF OtherStep, Request, Idle, InsertFavorite, shared
<1>4. CASE SaveReview(r)
  <2> DEFINE next == [Idle EXCEPT !.pc = "clearPhotos", !.call = req[r].call,
                    !.id = IF req[r].id = 0 THEN Len(reviews) + 1 ELSE req[r].id]
  <2>1. next.pc \notin Watched
    BY StepDoes DEF Request, Idle
  <2>2. Goto(r, next) \/ Return(r)
    BY <1>4 DEF SaveReview
  <2>3. TablesCalm /\ req[r].pc # "deleteRows"
    BY <1>4, CalmTables DEF SaveReview, shared
  <2> HIDE DEF next
  <2> QED
    BY <2>1, <2>2, <2>3, StepTo
<1>5. CASE ClearPhotos(r)
  BY <1>5, StepDoes, CalmTables DEF OtherStep, Request, Idle, ClearPhotos, shared
<1>6. CASE InsertPhotos(r)
  BY <1>6, StepDoes, CalmTables DEF OtherStep, Request, Idle, InsertPhotos, shared
<1>7. CASE SaveStoreReview(r)
  BY <1>7, StepDoes, CalmTables DEF OtherStep, Request, Idle, SaveStoreReview, shared
<1> QED
  BY <1>1, <1>2, <1>3, <1>4, <1>5, <1>6, <1>7

\* Browsers are.
LEMMA LiveSteps ==
    ASSUME TypeInv, NEW r \in Requests, LiveRun(r)
    PROVE  OtherStep(r) /\ TablesCalm
<1> USE DEF Return, Goto, Watched
<1>1. CASE SavePush(r)
  BY <1>1, StepDoes, CalmTables DEF OtherStep, Request, Idle, SavePush, shared
<1>2. CASE Send(r)
  <2>1. TablesCalm /\ req[r].pc = "send"
    BY <1>2, CalmTables DEF Send, shared
  <2>2. PICK k \in req[r].list :
          \/ Goto(r, [req[r] EXCEPT !.pc = "drop", !.id = k])
          \/ Goto(r, IF req[r].list = {k} THEN Idle ELSE [req[r] EXCEPT !.list = @ \ {k}])
    BY <1>2 DEF Send
  <2> DEFINE a == [req[r] EXCEPT !.pc = "drop", !.id = k]
             b == [req[r] EXCEPT !.list = @ \ {k}]
  <2>3. a.pc \notin Watched /\ b.pc \notin Watched
    BY <2>1, StepDoes DEF Request
  <2>4. Goto(r, a) \/ Goto(r, b) \/ Return(r)
    BY <2>2
  <2> HIDE DEF a, b
  <2> QED
    BY <2>1, <2>3, <2>4, StepTo
<1>3. CASE Drop(r)
  BY <1>3, StepDoes, CalmTables DEF OtherStep, Request, Idle, Drop, shared
<1> QED
  BY <1>1, <1>2, <1>3 DEF LiveRun

\* A product is hidden, saved again, or gets a row the removal does not wait for.
LEMMA EditKeepsRemoval ==
    ASSUME TypeInv, TypeInv', RemovalInv, NEW r \in Requests, Running(r),
           Hide(r) \/ SaveProduct(r) \/ InsertRow(r)
    PROVE  RemovalInv'
<1> USE DEF Return, Goto, Watched
<1>0. /\ rows \in [Products -> [Tables -> Nat]] /\ product \in [Products -> ProductRow]
      /\ req[r] \in Request /\ Holding(req[r], Sizes)
  BY DEF TypeInv, TablesOK, ShopOK, RequestsHold
<1>1. OtherStep(r)
  BY StepDoes DEF OtherStep, Idle, Hide, SaveProduct, InsertRow
<1>2. order' = order
  BY DEF Hide, SaveProduct, InsertRow
<1>3. \A p \in Products : product[p].here => product'[p].here
  <2> SUFFICES ASSUME NEW p \in Products, product[p].here
               PROVE  product'[p].here
    OBVIOUS
  <2>1. CASE Hide(r)
    <3>1. product[p] \in ProductRow
      BY <1>0
    <3> QED
      BY <2>1, <3>1 DEF Hide, ProductRow
  <2>2. CASE SaveProduct(r)
    BY <1>0, <2>2 DEF SaveProduct, Holding, HoldsProduct, Placed
  <2>3. CASE InsertRow(r)
    BY <2>3 DEF InsertRow
  <2> QED
    BY <2>1, <2>2, <2>3
<1>4. \A p \in Products : \A t \in {"batches", "movements", "allocations", "sales"} :
        rows'[p][t] = rows[p][t]
  <2>1. CASE InsertRow(r)
    <3>1. req[r].key \in {"images", "videos", "variants"}
      BY <1>0, <2>1, CatalogueAssumption DEF InsertRow, Holding, HoldsKey
    <3> QED
      BY <1>0, <2>1, <3>1, TablesAre DEF InsertRow
  <2> QED
    BY <2>1 DEF Hide, SaveProduct
<1>5. TablesCalm
  BY <1>2, <1>3, <1>4 DEF TablesCalm, Sold, OrdersOf, Orders
<1> QED
  BY <1>1, <1>5, OtherStepKeepsRemoval

\* A product is created, or removed once it has no orders, alone or with its store.
LEMMA ProductsKeepRemoval ==
    ASSUME TypeInv, TypeInv', RemovalInv, NEW r \in Requests, Running(r),
           InsertProduct(r) \/ DeleteProduct(r) \/ EraseStore(r)
    PROVE  RemovalInv'
<1> USE DEF Return, Goto, Watched
<1>0. /\ rows \in [Products -> [Tables -> Nat]] /\ product \in [Products -> ProductRow]
      /\ req[r].product \in Products \/ EraseStore(r)
  BY DEF TypeInv, TablesOK, ShopOK, RequestsHold, Holding, HoldsProduct, InsertProduct, DeleteProduct
<1>1. OtherStep(r)
  BY StepDoes DEF OtherStep, Idle, InsertProduct, DeleteProduct, EraseStore
<1>2. \A p : OrdersOf(p)' = OrdersOf(p)
  BY DEF OrdersOf, Orders, InsertProduct, DeleteProduct, EraseStore
<1>3. {"batches", "movements", "allocations", "sales"} \subseteq Tables
  BY TablesAre
<1> DEFINE Stays(p) ==
             /\ Sold(p) => product'[p].here /\ rows'[p] = rows[p]
             /\ Sold(p)' => Sold(p)
             /\ HasMovement(p) => HasMovement(p)'
             /\ Explained(p) => Explained(p)'
<1>4. ASSUME NEW p \in Products, rows'[p] = rows[p], product[p].here => product'[p].here
      PROVE  Stays(p)
  <2>1. Sold(p)' <=> Sold(p)
    BY <1>2, <1>4 DEF Sold
  <2> QED
    BY <1>4, <2>1 DEF RemovalInv, SoldAreHere, HasMovement, Explained
<1>5. ASSUME NEW p \in Products, OrdersOf(p) = {}, rows'[p] = NoRows
      PROVE  ~Sold(p)' /\ HasMovement(p)' /\ Explained(p)'
  <2>1. \A t \in Tables : rows'[p][t] = 0
    BY <1>5 DEF NoRows
  <2>2. ~Sold(p)'
    BY <1>2, <1>3, <1>5, <2>1 DEF Sold
  <2> QED
    BY <1>3, <2>1, <2>2 DEF HasMovement, Explained
<1>6. \A p \in Products :
        /\ Sold(p) /\ Sold(p)' => product'[p].here /\ rows'[p]["batches"] = rows[p]["batches"]
        /\ Sold(p)' => Sold(p)
        /\ HasMovement(p) => HasMovement(p)'
        /\ Explained(p) => Explained(p)'
  <2> SUFFICES ASSUME NEW p \in Products
               PROVE  Stays(p) \/ (~Sold(p)' /\ HasMovement(p)' /\ Explained(p)')
    OBVIOUS
  <2> HIDE DEF Stays
  <2>1. CASE UNCHANGED <<product, rows>>
    BY <1>4, <2>1
  <2>2. CASE InsertProduct(r) /\ ~UNCHANGED <<product, rows>>
    <3> DEFINE x == req[r].product
               n == IF req[r].num > 0 THEN 1 ELSE 0
    <3>1. /\ ~product[x].here /\ product' = [product EXCEPT ![x] = req[r].item]
          /\ rows' = [rows EXCEPT ![x]["batches"] = n, ![x]["movements"] = n]
      BY <2>2 DEF InsertProduct
    <3>2. x \in Products
      BY <1>0, <2>2 DEF InsertProduct, EraseStore
    <3> HIDE DEF x, n
    <3>3. CASE p # x
      BY <1>0, <1>4, <3>1, <3>2, <3>3
    <3>4. CASE p = x
      <4>1. /\ rows'[p]["batches"] = n /\ rows'[p]["movements"] = n
            /\ rows'[p]["allocations"] = rows[p]["allocations"]
            /\ rows'[p]["sales"] = rows[p]["sales"]
        BY <1>0, <1>3, <3>1, <3>2, <3>4
      <4>2. ~Sold(p)
        BY <3>1, <3>4 DEF RemovalInv, SoldAreHere
      <4>3. ~Sold(p)'
        BY <1>2, <4>1, <4>2 DEF Sold
      <4>4. HasMovement(p)'
        BY <4>1 DEF HasMovement
      <4>5. Explained(p)'
        BY <4>1, <4>2, <4>3 DEF RemovalInv, Explained
      <4> QED
        BY <4>3, <4>4, <4>5
    <3> QED
      BY <3>3, <3>4
  <2>3. CASE DeleteProduct(r) /\ ~UNCHANGED <<product, rows>>
    <3>1. /\ OrdersOf(req[r].product) = {}
          /\ product' = [product EXCEPT ![req[r].product] = NoProduct]
          /\ rows' = [rows EXCEPT ![req[r].product] = NoRows]
      BY <2>3 DEF DeleteProduct
    <3>2. CASE p # req[r].product
      BY <1>0, <1>4, <3>1, <3>2
    <3>3. CASE p = req[r].product
      <4>1. rows'[p] = NoRows
        BY <1>0, <3>1, <3>3
      <4> QED
        BY <1>5, <3>1, <3>3, <4>1
    <3> QED
      BY <3>2, <3>3
  <2>4. CASE EraseStore(r) /\ ~UNCHANGED <<product, rows>>
    <3> DEFINE gone == ProductsOf(req[r].store)
    <3>1. /\ \A x \in gone : OrdersOf(x) = {}
          /\ product' = [x \in Products |-> IF x \in gone THEN NoProduct ELSE product[x]]
          /\ rows' = [x \in Products |-> IF x \in gone THEN NoRows ELSE rows[x]]
      BY <2>4 DEF EraseStore, NeverOrdered
    <3> HIDE DEF gone
    <3>2. CASE p \in gone
      BY <1>5, <3>1, <3>2
    <3>3. CASE p \notin gone
      BY <1>4, <3>1, <3>3
    <3> QED
      BY <3>2, <3>3
  <2> QED
    BY <2>1, <2>2, <2>3, <2>4
<1> QED
  BY <1>1, <1>6, GotoKeepsRemoval DEF OtherStep

\* Rows of a product are added to those that a sale or an order took from.
LEMMA RowsTaken ==
    ASSUME TypeInv, RemovalInv, NEW x \in Products, rows[x]["batches"] > 0,
           \/ rows' = [rows EXCEPT ![x]["movements"] = @ + 1, ![x]["allocations"] = @ + 1]
           \/ rows' = [rows EXCEPT ![x]["sales"] = @ + 1, ![x]["movements"] = @ + 1,
                                   ![x]["allocations"] = @ + 1],
           \A p \in Products : Sold(p) => Sold(p)', Sold(x)'
    PROVE  /\ \A p \in Products : rows'[p]["batches"] = rows[p]["batches"]
           /\ \A p \in Products : p # x => rows'[p] = rows[p]
           /\ \A p \in Products : HasMovement(p) => HasMovement(p)'
           /\ \A p \in Products : Explained(p) => Explained(p)'
<1>1. /\ {"batches", "movements", "allocations", "sales"} \subseteq Tables
      /\ rows \in [Products -> [Tables -> Nat]]
  BY TablesAre DEF TypeInv, TablesOK, ShopOK
<1>2. \A p \in Products : p # x => rows'[p] = rows[p]
  BY <1>1
<1>3. rows'[x]["batches"] = rows[x]["batches"] /\ rows'[x]["movements"] = rows[x]["movements"] + 1
  BY <1>1
<1>4. rows[x]["movements"] \in Nat /\ rows[x]["batches"] \in Nat
  BY <1>1
<1>5. ASSUME NEW p \in Products
      PROVE  /\ HasMovement(p) => HasMovement(p)'
             /\ Explained(p) => Explained(p)'
  <2>1. CASE p # x
    BY <1>2, <2>1 DEF HasMovement, Explained
  <2>2. CASE p = x
    BY <1>3, <1>4, <2>2 DEF HasMovement, Explained
  <2> QED
    BY <2>1, <2>2
<1> QED
  BY <1>2, <1>3, <1>5

\* An order or a sale finds its product there and takes from a batch of it.
LEMMA OrderKeepsRemoval ==
    ASSUME TypeInv, TypeInv', RemovalInv, NEW r \in Requests, Running(r),
           CountUses(r) \/ PlaceOrder(r) \/ Sell(r)
    PROVE  RemovalInv'
<1>a. PICK x \in Products : x = req[r].product
  BY DEF TypeInv, RequestsHold, Holding, HoldsProduct, CountUses, PlaceOrder, Sell
<1> DEFINE Taken(p) ==
             /\ Sold(p) => product'[p].here /\ rows'[p]["batches"] = rows[p]["batches"]
             /\ Sold(p)' => Sold(p) \/ (p = x /\ product'[p].here /\ rows'[p]["batches"] # 0)
             /\ HasMovement(p) => HasMovement(p)'
             /\ Explained(p) => Explained(p)'
<1>0. /\ rows \in [Products -> [Tables -> Nat]] /\ order \in Seq(OrderRow)
      /\ req[r] \in Request /\ x \in Products
  BY DEF TypeInv, TablesOK, ShopOK, RequestsHold
<1>1. ASSUME UNCHANGED <<order, rows, product>>, NEW p \in Products
      PROVE  /\ Sold(p) => product'[p].here /\ rows'[p]["batches"] = rows[p]["batches"]
             /\ Sold(p)' => Sold(p)
             /\ HasMovement(p) => HasMovement(p)'
             /\ Explained(p) => Explained(p)'
  BY <1>1 DEF Sold, OrdersOf, Orders, HasMovement, Explained, RemovalInv, SoldAreHere
<1>2. ASSUME product' = product, product[x].here, rows[x]["batches"] > 0,
             \/ rows' = [rows EXCEPT ![x]["movements"] = @ + 1, ![x]["allocations"] = @ + 1]
             \/ rows' = [rows EXCEPT ![x]["sales"] = @ + 1, ![x]["movements"] = @ + 1,
                                     ![x]["allocations"] = @ + 1],
             \A p \in Products : Sold(p) => Sold(p)', Sold(x)',
             \A p \in Products : p # x => OrdersOf(p)' = OrdersOf(p)
      PROVE  \A p \in Products : Taken(p)
  <2>1. /\ \A p \in Products : rows'[p]["batches"] = rows[p]["batches"]
        /\ \A p \in Products : p # x => rows'[p] = rows[p]
        /\ \A p \in Products : HasMovement(p) => HasMovement(p)'
        /\ \A p \in Products : Explained(p) => Explained(p)'
    BY <1>0, <1>2, RowsTaken
  <2>2. \A p \in Products : Sold(p)' => Sold(p) \/ p = x
    BY <1>2, <2>1 DEF Sold
  <2>3. \A p \in Products : Sold(p) => product'[p].here
    BY <1>2 DEF RemovalInv, SoldAreHere
  <2>4. product'[x].here /\ rows'[x]["batches"] # 0
    <3>1. rows'[x]["batches"] = rows[x]["batches"]
      BY <1>0, <2>1
    <3> QED
      BY <1>2, <3>1
  <2> QED
    BY <2>1, <2>2, <2>3, <2>4
<1>3. CASE CountUses(r)
  <2> DEFINE q == [req[r] EXCEPT !.pc = "place"]
  <2>1. req[r].pc = "uses" /\ q.pc = "place" /\ q.product = x /\ Idle.pc = "idle"
    BY <1>0, <1>a, <1>3 DEF CountUses, Request, Idle
  <2>2. Goto(r, q) \/ Goto(r, Idle)
    BY <1>3 DEF CountUses, Return
  <2>3. UNCHANGED <<order, rows, product>>
    BY <1>3 DEF CountUses, shared
  <2> HIDE DEF q, Taken
  <2> QED
    BY <1>a, <1>1, <2>1, <2>2, <2>3, GotoKeepsRemoval DEF Goto, Watched
<1>4. CASE PlaceOrder(r)
  <2> DEFINE next == [Idle EXCEPT !.pc = "increment", !.key = req[r].key]
  <2>1. req[r].pc = "place" /\ next.pc = "increment" /\ Idle.pc = "idle"
    BY <1>4 DEF PlaceOrder, Idle
  <2>2. Goto(r, next) \/ Goto(r, Idle)
    BY <1>4 DEF PlaceOrder, Return
  <2>3. \A p \in Products : Taken(p)
    <3>1. CASE UNCHANGED <<order, rows>>
      <4>1. product' = product
        BY <1>4 DEF PlaceOrder
      <4> QED
        BY <1>1, <3>1, <4>1
    <3>2. CASE ~UNCHANGED <<order, rows>>
      <4> DEFINE row == NewOrder(req[r].buyer, x, IF req[r].key = "none" THEN "none"
                                                  ELSE CodeOf[req[r].key])
      <4>1. /\ order' = Append(order, row) /\ product[x].here /\ rows[x]["batches"] > 0
            /\ rows' = [rows EXCEPT ![x]["movements"] = @ + 1, ![x]["allocations"] = @ + 1]
            /\ product' = product
        BY <1>a, <1>4, <3>2 DEF PlaceOrder
      <4>2. row.product = x
        BY DEF NewOrder
      <4> HIDE DEF row, Taken
      <4>3. \A p : OrdersOf(p) # {} => OrdersOf(p)' # {}
        <5> SUFFICES ASSUME NEW p, NEW o \in OrdersOf(p)
                     PROVE  o \in OrdersOf(p)'
          OBVIOUS
        <5> QED
          BY <1>0, <4>1 DEF OrdersOf, Orders
      <4>4. \A p \in Products : p # x => OrdersOf(p)' = OrdersOf(p)
        <5> SUFFICES ASSUME NEW p \in Products, p # x
                     PROVE  OrdersOf(p)' = OrdersOf(p)
          OBVIOUS
        <5>1. \A o : o \in DOMAIN order' <=> o \in DOMAIN order \/ o = Len(order) + 1
          BY <1>0, <4>1
        <5>2. order'[Len(order) + 1].product = x
          BY <1>0, <4>1, <4>2
        <5>3. \A o \in DOMAIN order : order'[o] = order[o]
          BY <1>0, <4>1
        <5> QED
          BY <5>1, <5>2, <5>3 DEF OrdersOf, Orders
      <4>5. OrdersOf(x)' # {}
        <5>1. Len(order) + 1 \in DOMAIN order' /\ order'[Len(order) + 1].product = x
          BY <1>0, <4>1, <4>2
        <5> QED
          BY <5>1 DEF OrdersOf, Orders
      <4>6. \A p \in Products : rows'[p]["sales"] = rows[p]["sales"]
        BY <1>0, <4>1, TablesAre
      <4>7. (\A p \in Products : Sold(p) => Sold(p)') /\ Sold(x)'
        BY <4>3, <4>5, <4>6 DEF Sold
      <4> QED
        BY <1>2, <4>1, <4>4, <4>7
    <3> QED
      BY <3>1, <3>2
  <2> HIDE DEF next
  <2> QED
    BY <1>a, <2>1, <2>2, <2>3, GotoKeepsRemoval DEF Goto, Watched
<1>5. CASE Sell(r)
  <2>1. req[r].pc = "sell" /\ Idle.pc = "idle" /\ Goto(r, Idle) /\ product' = product
        /\ order' = order
    BY <1>5 DEF Sell, Return, Idle
  <2>2. \A p \in Products : Taken(p)
    <3>1. CASE rows' = rows
      BY <1>1, <2>1, <3>1
    <3>2. CASE rows' # rows
      <4>1. /\ product[x].here /\ rows[x]["batches"] > 0
            /\ rows' = [rows EXCEPT ![x]["sales"] = @ + 1, ![x]["movements"] = @ + 1,
                                    ![x]["allocations"] = @ + 1]
        BY <1>a, <1>5, <3>2 DEF Sell
      <4> HIDE DEF Taken
      <4>2. \A p : OrdersOf(p)' = OrdersOf(p)
        BY <2>1 DEF OrdersOf, Orders
      <4>3. /\ \A p \in Products : p # x => rows'[p] = rows[p]
            /\ rows'[x]["sales"] = rows[x]["sales"] + 1 /\ rows[x]["sales"] \in Nat
        BY <1>0, <4>1, TablesAre
      <4>4. rows'[x]["sales"] > 0
        BY <4>3
      <4>5. (\A p \in Products : Sold(p) => Sold(p)') /\ Sold(x)'
        BY <4>2, <4>3, <4>4 DEF Sold
      <4> QED
        BY <1>2, <2>1, <4>1, <4>2, <4>5
    <3> QED
      BY <3>1, <3>2
  <2> QED
    BY <1>a, <2>1, <2>2, GotoKeepsRemoval DEF Goto, Watched
<1> QED
  BY <1>3, <1>4, <1>5

\* A removal deletes the rows of one table, if nothing holds them.
LEMMA DeleteKeepsRemoval ==
    ASSUME TypeInv, TypeInv', RemovalInv, NEW r \in Requests, Running(r), DeleteRows(r)
    PROVE  RemovalInv'
<1> DEFINE q == req[r]
           x == q.product
           t == Deleted[q.num]
           next == req'[r]
<1>0. /\ rows \in [Products -> [Tables -> Nat]] /\ q \in Request /\ x \in Products
      /\ q.pc = "deleteRows" /\ q.num \in 1..7 /\ t \in Tables
  BY TablesAre DEF TypeInv, TablesOK, ShopOK, RequestsHold, Holding, HoldsProduct, DeleteRows
<1>1. /\ \A s \in Requests : req'[s] = IF s = r THEN next ELSE req[s]
      /\ used' = used /\ used.overlaps \in Nat /\ order' = order /\ product' = product
  BY DEF DeleteRows, Goto, Return, TypeInv, RequestsHold, UsedOK
<1>2. \/ next = Idle /\ rows' = rows /\ Holds(x, t)
      \/ /\ next = [q EXCEPT !.num = q.num + 1] /\ q.num < 7
         /\ rows' = [rows EXCEPT ![x][t] = 0] /\ ~Holds(x, t)
      \/ /\ next = [q EXCEPT !.pc = "deleteProduct"] /\ q.num = 7
         /\ rows' = [rows EXCEPT ![x][t] = 0] /\ ~Holds(x, t)
  <2> DEFINE a == [q EXCEPT !.num = q.num + 1]
             b == [q EXCEPT !.pc = "deleteProduct"]
  <2>1. \/ Goto(r, Idle) /\ rows' = rows /\ Holds(x, t)
        \/ Goto(r, a) /\ q.num < 7 /\ rows' = [rows EXCEPT ![x][t] = 0] /\ ~Holds(x, t)
        \/ Goto(r, b) /\ ~(q.num < 7) /\ rows' = [rows EXCEPT ![x][t] = 0] /\ ~Holds(x, t)
    <3>1. a = [q EXCEPT !.num = @ + 1]
      BY <1>0 DEF Request
    <3> HIDE DEF a
    <3> QED
      BY <1>0, <3>1, TablesAre DEF DeleteRows, Return
  <2>2. ~(q.num < 7) => q.num = 7
    BY <1>0
  <2> HIDE DEF a, b
  <2>3. \A y : Goto(r, y) => next = y
    BY StepDoes DEF Goto
  <2> HIDE DEF q, x, t, next
  <2>4. \/ next = Idle /\ rows' = rows /\ Holds(x, t)
        \/ next = a /\ q.num < 7 /\ rows' = [rows EXCEPT ![x][t] = 0] /\ ~Holds(x, t)
        \/ next = b /\ ~(q.num < 7) /\ rows' = [rows EXCEPT ![x][t] = 0] /\ ~Holds(x, t)
    BY <2>1, <2>3
  <2> QED
    BY <2>2, <2>4 DEF a, b
<1>3. next.pc \notin {"uses", "place", "sell"}
      /\ (next.pc = "deleteRows" =>
            /\ next.product = x /\ next.num = q.num + 1 /\ q.num < 7
            /\ rows' = [rows EXCEPT ![x][t] = 0])
  BY <1>0, <1>2 DEF Request, Idle
<1>4. \A p \in Products : \A u \in Tables :
        rows'[p][u] = rows[p][u] \/ (p = x /\ u = t /\ rows'[p][u] = 0)
  BY <1>0, <1>2
<1>5. {"batches", "movements", "allocations", "sales"} \subseteq Tables /\ t # "sales"
      /\ (q.num = 2 => t = "movements") /\ (q.num = 3 => t = "batches")
      /\ (q.num \notin {2, 3} => t # "batches" /\ t # "movements")
  <2>1. q.num = 1 \/ q.num = 2 \/ q.num = 3 \/ q.num \in 4..7
    BY <1>0
  <2> HIDE DEF q
  <2> QED
    BY <2>1, TablesAre
<1>6. \A p \in Products : Sold(p)' <=> Sold(p)
  BY <1>1, <1>4, <1>5 DEF Sold, OrdersOf, Orders
<1>7. \A p \in Products : /\ rows[p]["batches"] \in Nat /\ rows[p]["movements"] \in Nat
                          /\ rows[p]["allocations"] \in Nat
  BY <1>0, <1>5
<1>8. SoldAreHere' /\ \A p \in Products : Explained(p)'
  <2>1. SoldAreHere'
    BY <1>1, <1>6 DEF RemovalInv, SoldAreHere
  <2>2. ASSUME NEW p \in Products
        PROVE  Explained(p)'
    <3>1. Explained(p)
      BY DEF RemovalInv
    <3>2. rows'[p]["allocations"] > 0 => rows[p]["allocations"] > 0
      BY <1>4, <1>5, <1>7
    <3>3. rows'[p]["movements"] > 0 => rows[p]["movements"] > 0
      BY <1>4, <1>5, <1>7
    <3>4. rows'[p]["movements"] > 0 => rows'[p]["batches"] = rows[p]["batches"]
      <4>1. CASE t = "batches" /\ p = x /\ ~Holds(x, t)
        <5>1. ~(rows[p]["movements"] > 0)
          BY <1>7, <4>1 DEF Holds
        <5> QED
          BY <3>3, <5>1
      <4>2. CASE t # "batches" \/ p # x
        BY <1>4, <1>5, <4>2
      <4>3. CASE Holds(x, t)
        BY <1>2, <4>3
      <4> QED
        BY <4>1, <4>2, <4>3
    <3> QED
      BY <1>6, <3>1, <3>2, <3>3, <3>4 DEF Explained
  <2> QED
    BY <2>1, <2>2
<1>9. BeingRemoved(x)
  BY <1>0 DEF BeingRemoved
<1>10. Contested' \subseteq Contested
  <2>1. \A p : BeingRemoved(p)' => BeingRemoved(p)
    BY <1>0, <1>1, <1>3 DEF BeingRemoved
  <2>2. \A p : Selling(p)' => Selling(p)
    BY <1>1, <1>3 DEF Selling
  <2>3. \A p \in Products : rows'[p]["batches"] = 0 => rows[p]["batches"] = 0 \/ BeingRemoved(p)
    BY <1>4, <1>5, <1>9
  <2> QED
    BY <1>6, <2>1, <2>2, <2>3 DEF Contested
<1>11. ASSUME NEW p \in Products, ~HasMovement(p)', ~AtBatches(p)'
       PROVE  p \in Torn
  <2> HIDE DEF q, x, t, next
  <2>1. rows'[p]["batches"] > 0 /\ ~(rows'[p]["movements"] > 0)
    BY <1>11 DEF HasMovement
  <2>2. \A s \in Requests :
          s # r /\ req[s].pc = "deleteRows" /\ req[s].product = p => req[s].num # 3
    BY <1>1, <1>11 DEF AtBatches
  <2>3. CASE p # x
    <3>1. ~AtBatches(p)
      BY <2>2, <2>3 DEF AtBatches, q, x
    <3>2. ~HasMovement(p)
      BY <1>4, <1>5, <1>11, <2>3 DEF HasMovement
    <3> QED
      BY <3>1, <3>2 DEF Torn
  <2>4. CASE p = x /\ q.num \notin {2, 3}
    <3>1. ~AtBatches(p)
      BY <2>2, <2>4 DEF AtBatches, q, x
    <3>2. ~HasMovement(p)
      BY <1>4, <1>5, <1>11, <2>4 DEF HasMovement
    <3> QED
      BY <3>1, <3>2 DEF Torn
  <2>5. CASE p = x /\ q.num = 2
    <3>1. next.pc # "deleteRows"
      <4>1. next.pc = "deleteRows" => next.product = x /\ next.num = 3
        BY <1>3, <2>5
      <4> QED
        BY <1>1, <1>11, <2>5, <4>1 DEF AtBatches
    <3>2. rows' = rows
      BY <1>0, <1>2, <2>5, <3>1 DEF Request
    <3>3. ~AtBatches(p)
      BY <2>2, <2>5 DEF AtBatches, q, x
    <3>4. ~HasMovement(p)
      BY <1>11, <3>2 DEF HasMovement
    <3> QED
      BY <3>3, <3>4 DEF Torn
  <2>6. CASE p = x /\ q.num = 3
    <3>1. rows' = rows /\ Holds(x, "batches")
      <4>1. rows' = [rows EXCEPT ![x][t] = 0] => rows'[x]["batches"] = 0
        BY <1>0, <1>5, <2>6
      <4> QED
        BY <1>2, <1>5, <2>1, <2>6, <4>1
    <3>2. rows[p]["allocations"] > 0
      BY <1>7, <2>1, <2>6, <3>1 DEF Holds
    <3>3. Sold(p)
      BY <3>2 DEF RemovalInv, Explained
    <3> QED
      BY <1>9, <2>6, <3>3 DEF Torn, Contested
  <2> QED
    BY <2>3, <2>4, <2>5, <2>6
<1>12. Torn' \subseteq Torn
  BY <1>10, <1>11 DEF Torn
<1> QED
  BY <1>1, <1>8, <1>10, <1>12, FewerKeepRemoval

\* Whatever goes on.
LEMMA RunKeepsRemoval ==
    ASSUME TypeInv, TypeInv', RemovalInv, NEW r \in Requests, Running(r), Run(r)
    PROVE  RemovalInv'
<1>1. ASSUME OtherStep(r) /\ TablesCalm
      PROVE  RemovalInv'
  BY <1>1, OtherStepKeepsRemoval
<1>2. CASE StoreRun(r)
  BY <1>1, <1>2, StoreSteps
<1>3. CASE PromotionRun(r)
  BY <1>1, <1>3, PromotionSteps, OrderKeepsRemoval DEF PromotionRun
<1>4. CASE CatalogueRun(r)
  BY <1>1, <1>4, ReviewSteps, EditKeepsRemoval, ProductsKeepRemoval, DeleteKeepsRemoval
  DEF CatalogueRun
<1>5. CASE LiveRun(r)
  BY <1>1, <1>5, LiveSteps
<1> QED
  BY <1>2, <1>3, <1>4, <1>5, DieKeepsRemoval DEF Run

\* Every step keeps what a removal under way has deleted so far.
LEMMA NextRemoval ==
    ASSUME TypeInv, TypeInv', RemovalInv, [Next]_vars
    PROVE  RemovalInv'
<1>1. CASE Environment
  BY <1>1, CalmKeepsRemoval, CallDoes DEF Environment, Tick, Finalize, Happens, shared
<1>2. CASE UNCHANGED vars
  BY <1>2, CalmKeepsRemoval DEF vars, shared
<1> QED
  BY <1>1, <1>2, BeginKeepsRemoval, RunKeepsRemoval DEF Next

\* The first state.
LEMMA InitRemoval == Init => RemovalInv
<1> SUFFICES ASSUME Init
             PROVE  RemovalInv
  OBVIOUS
<1>1. \A r \in Requests : req[r] = Idle /\ Idle.pc = "idle"
  BY DEF Init, Idle
<1>2. PICK ordered \in {{}, {FirstOrdered}} :
        /\ rows = [q \in Products |->
             IF q \in FirstProducts
             THEN [NoRows EXCEPT !["batches"] = 1, !["movements"] = 1,
                     !["allocations"] = IF q \in ordered THEN 1 ELSE 0,
                     ![IF ordered = {} THEN "sales" ELSE "purchases"] =
                           IF q = FirstOrdered THEN 0 ELSE 1]
             ELSE NoRows]
        /\ order = IF ordered = {} THEN << >>
                   ELSE << [NewOrder(FirstBuyer, FirstOrdered, "none") EXCEPT
                               !.paid = TRUE, !.status = "DELIVERED"] >>
  BY DEF Init
<1>3. \A p : OrdersOf(p) # {} => p = FirstOrdered /\ order # << >>
  <2> SUFFICES ASSUME NEW p, OrdersOf(p) # {}
               PROVE  p = FirstOrdered /\ order # << >>
    OBVIOUS
  <2>1. PICK o \in DOMAIN order : order[o].product = p
    BY DEF OrdersOf, Orders
  <2> DEFINE one == [NewOrder(FirstBuyer, FirstOrdered, "none") EXCEPT
                        !.paid = TRUE, !.status = "DELIVERED"]
  <2>2. one.product = FirstOrdered
    BY DEF NewOrder
  <2>3. order = << >> \/ order = << one >>
    BY <1>2
  <2> HIDE DEF one
  <2> QED
    BY <2>1, <2>2, <2>3
<1>4. /\ FirstOrdered \in FirstProducts /\ FirstProducts \subseteq Products
      /\ {"batches", "movements", "allocations", "purchases", "sales"} \subseteq Tables
  BY MarketplaceAssumption, TablesAre
<1>5. \A p \in Products :
        /\ p \in FirstProducts => rows[p]["batches"] = 1 /\ rows[p]["movements"] = 1
        /\ p \notin FirstProducts => \A t \in Tables : rows[p][t] = 0
        /\ rows[p]["allocations"] > 0 => p \in ordered
  BY <1>2, <1>4 DEF NoRows
<1>6. \A p \in Products : Sold(p) => p \in FirstProducts
  BY <1>3, <1>4, <1>5 DEF Sold
<1>7. SoldAreHere
  <2>1. \A p \in FirstProducts : product[p].here
    BY <1>4 DEF Init
  <2> QED
    BY <1>6, <2>1 DEF SoldAreHere
<1>8. \A p \in ordered : Sold(p)
  <2> SUFFICES ASSUME NEW p \in ordered
               PROVE  OrdersOf(p) # {}
    BY DEF Sold
  <2> DEFINE one == [NewOrder(FirstBuyer, FirstOrdered, "none") EXCEPT
                        !.paid = TRUE, !.status = "DELIVERED"]
  <2>1. one.product = FirstOrdered
    BY DEF NewOrder
  <2>2. p = FirstOrdered /\ order = << one >>
    BY <1>2
  <2> HIDE DEF one
  <2>3. 1 \in DOMAIN order /\ order[1].product = p
    BY <2>1, <2>2
  <2> QED
    BY <2>3 DEF OrdersOf, Orders
<1>9. \A p \in Products : Explained(p)
  BY <1>4, <1>5, <1>8 DEF Explained
<1>10. Contested = {}
  BY <1>1, <1>5, <1>6 DEF Contested, BeingRemoved
<1>11. Torn = {}
  BY <1>4, <1>5, <1>10 DEF Torn, HasMovement
<1>12. AtMost({}, 0)
  BY FS_EmptySet DEF AtMost
<1>13. used.overlaps = 0 /\ used.faults = 0
  BY DEF Init
<1> QED
  BY <1>7, <1>9, <1>10, <1>11, <1>12, <1>13 DEF RemovalInv

\* The part of it that the shop shows.
LEMMA InvRemoval ==
    ASSUME TypeInv, RemovalInv
    PROVE  RemovalIsAllOrNothing
<1> DEFINE lost == {p \in Products : Sold(p) /\ rows[p]["batches"] = 0}
           half == {p \in Products : /\ (rows[p]["batches"] > 0) # (rows[p]["movements"] > 0)
                                      /\ ~BeingRemoved(p)}
<1>1. used.overlaps \in Nat /\ used.overlaps + used.faults \in Nat
  BY DEF TypeInv, UsedOK
<1>2. Cardinality(lost) <= used.overlaps
  <2>1. lost \subseteq Contested
    BY DEF Contested
  <2>2. AtMost(lost, used.overlaps)
    BY <1>1, <2>1, AtMostFewer DEF RemovalInv
  <2> QED
    BY <2>2 DEF AtMost
<1>3. Cardinality(half) <= used.overlaps + used.faults
  <2>1. half \subseteq Torn
    BY DEF RemovalInv, Explained, HasMovement, AtBatches, BeingRemoved, Torn
  <2>2. AtMost(half, used.overlaps + used.faults)
    BY <1>1, <2>1, AtMostFewer DEF RemovalInv
  <2> QED
    BY <2>2 DEF AtMost
<1>4. \A p \in Products : Sold(p) => product[p].here
  BY DEF RemovalInv, SoldAreHere
<1> QED
  BY <1>2, <1>3, <1>4 DEF RemovalIsAllOrNothing

\* A product that was ordered or sold stays in the catalogue, and with it, but for one
\* product for every call that overlaps another one, the batches its units came from; once
\* nothing removes a product it has batches and movements or neither, but for one product
\* for every call that overlaps another one or dies.
THEOREM RemovalHolds == Spec => []RemovalIsAllOrNothing
<1>1. TypeInv /\ RemovalInv /\ [Next]_vars => TypeInv' /\ RemovalInv'
  BY NextTypes, NextRemoval
<1>2. Init => TypeInv /\ RemovalInv
  BY InitTypes, InitRemoval
<1>3. TypeInv /\ RemovalInv => RemovalIsAllOrNothing
  BY InvRemoval
<1> QED
  BY <1>1, <1>2, <1>3, PTL DEF Spec

\* What changes the rows of a product.
LEMMA RowsTouched ==
    ASSUME NEW r \in Requests, Begin(r) \/ Run(r)
    PROVE  \/ rows' = rows
           \/ \E p \in Products, t \in Media : RemoveRow(r, p, t)
           \/ InsertRow(r) \/ InsertProduct(r) \/ PlaceOrder(r) \/ Sell(r)
           \/ DeleteRows(r) \/ DeleteProduct(r) \/ EraseStore(r)
<1>1. CASE Begin(r)
  BY <1>1 DEF Begin, shared, StoreBegin, StoresController, BeginCreateStore, BeginEditStore,
              BeginRuleStore, Progress, PromotionBegin, CouponsController, OrdersController,
              SalesController, AdvertisingController, SubscriptionsController, BeginCreateCoupon,
              RemoveCoupon, BeginOrder, BeginOrderWith, BeginSale, BeginRegisterAd, BeginCancelAd,
              BeginPay, BeginCancelSub, BeginExpire, CatalogueBegin, ProductsController,
              ReviewsController, NamesControllers, BeginRemoveProduct, BeginCreateProduct,
              BeginUpdateProduct, BeginAddRow, BeginFavorite, Unfavorite, BeginReview,
              BeginStoreReview, BeginCreateName, BeginSwitchName, RemoveMenu, BeginRemoveStore,
              LiveBegin, NotificationsController, PushController, Subscribe, Unsubscribe,
              BeginSubscribe, BeginSend
<1>2. CASE StoreRun(r)
  BY <1>2 DEF StoreRun, InsertStore, SaveStore
<1>3. CASE PromotionRun(r)
  BY <1>3 DEF PromotionRun, InsertCoupon, CountUses, Increment, InsertAd, Raise, CancelAd, Lower,
              LowerAll, ExpireAds, InsertSub, FindLatest, Extend, CancelSub, shared
<1>4. CASE CatalogueRun(r)
  BY <1>4 DEF CatalogueRun, InsertName, SaveName, Hide, SaveProduct, InsertFavorite, SaveReview,
              ClearPhotos, InsertPhotos, SaveStoreReview, shared
<1>5. CASE LiveRun(r)
  BY <1>5 DEF LiveRun, SavePush, Send, Drop, shared
<1>6. CASE Die(r)
  BY <1>6 DEF Die, shared
<1> QED
  BY <1>1, <1>2, <1>3, <1>4, <1>5, <1>6 DEF Run

\* None of these deletes a sale, but for the removals: that of a product runs into it.
LEMMA SalesStay ==
    ASSUME TypeInv, NEW r \in Requests, NEW p \in Products,
           \/ \E x \in Products, t \in Media : RemoveRow(r, x, t)
           \/ InsertRow(r) \/ InsertProduct(r) \/ PlaceOrder(r) \/ Sell(r)
           \/ DeleteRows(r) \/ DeleteProduct(r)
    PROVE  ~(rows'[p]["sales"] < rows[p]["sales"])
<1>1. /\ rows \in [Products -> [Tables -> Nat]] /\ "sales" \in Tables /\ Media \subseteq Tables \ {"sales"}
      /\ req[r] \in Request /\ rows[p]["sales"] \in Nat
  BY TablesAre, CatalogueAssumption DEF TypeInv, TablesOK, ShopOK, RequestsHold
<1>0. {"batches", "movements", "allocations"} \subseteq Tables
  BY TablesAre
<1>2. ASSUME NEW x \in Products, NEW t \in Tables, t # "sales", NEW n,
             rows' = [rows EXCEPT ![x][t] = n]
      PROVE  rows'[p]["sales"] = rows[p]["sales"]
  BY <1>1, <1>2
<1>3. CASE \E x \in Products, t \in Media : RemoveRow(r, x, t)
  <2>1. PICK x \in Products, t \in Media : rows' = [rows EXCEPT ![x][t] = @ - 1]
    BY <1>3 DEF RemoveRow
  <2> QED
    BY <1>1, <1>2, <2>1
<1>4. CASE InsertRow(r)
  <2>1. rows' = [rows EXCEPT ![req[r].product][req[r].key] =
                   IF product[req[r].product].here THEN @ + 1 ELSE @]
    BY <1>4 DEF InsertRow
  <2>2. req[r].product \in Products /\ req[r].key \in Media
    BY <1>4 DEF TypeInv, RequestsHold, Holding, HoldsProduct, HoldsKey, InsertRow
  <2>3. rows'[p]["sales"] = rows[p]["sales"]
    BY <1>1, <2>1, <2>2
  <2> QED
    BY <1>1, <2>3
<1>5. CASE InsertProduct(r)
  <2> DEFINE n == IF req[r].num > 0 THEN 1 ELSE 0
  <2>1. \/ rows' = rows
        \/ rows' = [rows EXCEPT ![req[r].product]["batches"] = n, ![req[r].product]["movements"] = n]
    BY <1>5 DEF InsertProduct
  <2> HIDE DEF n
  <2>2. rows'[p]["sales"] = rows[p]["sales"]
    BY <1>0, <1>1, <2>1
  <2> QED
    BY <1>1, <2>2
<1>6. CASE PlaceOrder(r)
  <2>1. \/ rows' = rows
        \/ rows' = [rows EXCEPT ![req[r].product]["movements"] = @ + 1,
                                 ![req[r].product]["allocations"] = @ + 1]
    BY <1>6 DEF PlaceOrder
  <2>2. rows'[p]["sales"] = rows[p]["sales"]
    BY <1>0, <1>1, <2>1
  <2> QED
    BY <1>1, <2>2
<1>7. CASE Sell(r)
  <2>1. \/ rows' = rows
        \/ rows' = [rows EXCEPT ![req[r].product]["sales"] = @ + 1,
                                 ![req[r].product]["movements"] = @ + 1,
                                 ![req[r].product]["allocations"] = @ + 1]
    BY <1>7 DEF Sell
  <2>2. rows'[p]["sales"] \in {rows[p]["sales"], rows[p]["sales"] + 1}
    BY <1>0, <1>1, <2>1
  <2> QED
    BY <1>1, <2>2
<1>8. CASE DeleteRows(r)
  <2> DEFINE x == req[r].product
             t == Deleted[req[r].num]
  <2>1. rows' = rows \/ rows' = [rows EXCEPT ![x][t] = 0]
    BY <1>8 DEF DeleteRows
  <2>2. x \in Products /\ req[r].num \in 1..7
    BY <1>8, TablesAre DEF TypeInv, RequestsHold, Holding, HoldsProduct, HoldsNumber, DeleteRows
  <2>3. t \in Tables /\ t # "sales"
    BY <2>2, TablesAre
  <2> HIDE DEF x, t
  <2> QED
    BY <1>1, <1>2, <2>1, <2>2, <2>3
<1>9. CASE DeleteProduct(r)
  <2>1. \/ rows' = rows
        \/ /\ rows' = [rows EXCEPT ![req[r].product] = NoRows]
           /\ ~(rows[req[r].product]["sales"] > 0)
    BY <1>1, <1>9 DEF DeleteProduct
  <2>2. NoRows["sales"] = 0
    BY <1>1 DEF NoRows
  <2> QED
    BY <1>1, <2>1, <2>2
<1> QED
  BY <1>3, <1>4, <1>5, <1>6, <1>7, <1>8, <1>9

\* The removal of a store deletes the sales of its products, and it finds no orders.
LEMMA SalesErased ==
    ASSUME TypeInv, NEW r \in Requests, EraseStore(r), NEW p \in Products,
           rows'[p]["sales"] < rows[p]["sales"]
    PROVE  LET s == product[p].store
           IN  /\ store[s].here /\ ~store'[s].here
               /\ \A x \in ProductsOf(s) : OrdersOf(x) = {} /\ ~product'[x].here
<1> DEFINE s == req[r].store
<1>1. /\ s \in Stores /\ store \in [Stores -> StoreRow]
      /\ rows \in [Products -> [Tables -> Nat]] /\ "sales" \in Tables
  BY TablesAre DEF TypeInv, TablesOK, ShopOK, RequestsHold, Holding, HoldsStore, EraseStore
<1>2. rows' # rows
  BY <1>1
<1>3. /\ NeverOrdered(s) /\ store' = [store EXCEPT ![s] = NoStore]
      /\ product' = [x \in Products |-> IF x \in ProductsOf(s) THEN NoProduct ELSE product[x]]
      /\ rows' = [x \in Products |-> IF x \in ProductsOf(s) THEN NoRows ELSE rows[x]]
  BY <1>2 DEF EraseStore
<1>4. p \in ProductsOf(s)
  BY <1>1, <1>3
<1> HIDE DEF s
<1>5. product[p].here /\ product[p].store = s
  BY <1>4 DEF ProductsOf
<1>6. store[s].here
  BY <1>5 DEF TypeInv, TablesOK, ProductsRefer, Refers
<1>7. ~store'[s].here
  BY <1>1, <1>3 DEF NoStore
<1>8. \A x \in ProductsOf(s) : OrdersOf(x) = {} /\ ~product'[x].here
  BY <1>3 DEF NeverOrdered, NoProduct, ProductsOf
<1> QED
  BY <1>5, <1>6, <1>7, <1>8

\* What was sold at the counter is deleted only with its whole store, and of no store that has
\* an order, whatever sales, orders and removals overlap.
THEOREM SalesHold == Spec => SalesGoWithTheirStore
<1> DEFINE SalesKept == \A p \in Products : rows'[p]["sales"] < rows[p]["sales"] =>
              LET s == product[p].store
              IN  /\ store[s].here /\ ~store'[s].here
                  /\ \A x \in ProductsOf(s) : OrdersOf(x) = {} /\ ~product'[x].here
<1>1. TypeInv /\ [Next]_vars => [SalesKept]_<<store, product, rows, order>>
  <2> SUFFICES ASSUME TypeInv, [Next]_vars
               PROVE  SalesKept \/ UNCHANGED <<store, product, rows, order>>
    OBVIOUS
  <2>1. ASSUME rows' = rows
        PROVE  SalesKept
    <3>1. \A p \in Products : rows[p]["sales"] \in Nat
      BY TablesAre DEF TypeInv, TablesOK, ShopOK
    <3> QED
      BY <2>1, <3>1
  <2>2. ASSUME NEW r \in Requests, Begin(r) \/ Run(r)
        PROVE  SalesKept
    BY <2>1, <2>2, RowsTouched, SalesStay, SalesErased
  <2>3. CASE Environment \/ UNCHANGED vars
    BY <2>1, <2>3 DEF Environment, Tick, Finalize, shared, vars
  <2> QED
    BY <2>2, <2>3 DEF Next
<1>2. TypeInv /\ [Next]_vars => TypeInv'
  BY NextTypes
<1>3. Init => TypeInv
  BY InitTypes
<1> QED
  BY <1>1, <1>2, <1>3, PTL DEF Spec, SalesGoWithTheirStore

-----------------------------------------------------------------------------
(* What handlers look for before they insert it *)

Runners == {r \in Requests : Running(r)}

\* A handler that found nothing will insert a row, one that found a row will write it.
ClaimOf(q, r) == IF q.id = 0 THEN <<"new", r>> ELSE <<"row", q.id>>
Claims(found, callers, qs) ==
    {<<"row", k>> : k \in found} \cup {ClaimOf(qs[r], r) : r \in callers}

ReviewCaller(q, b, p) == q.pc \in {"saveReview", "saveWithPhotos"} /\ q.buyer = b /\ q.product = p
StoreReviewCaller(q, b, s) == q.pc = "saveStoreReview" /\ q.buyer = b /\ q.store = s
NameCaller(q, n) ==
    q.pc = "insertName" /\ KindOf[q.key] = KindOf[n] /\ OwnerOf[q.key] = OwnerOf[n]
CouponCaller(q, c) ==
    q.pc = "insertCoupon" /\ CodeOf[q.key] = CodeOf[c] /\ CouponStore[q.key] = CouponStore[c]
PushCaller(q, e) == q.pc = "savePush" /\ q.key = e
UseCaller(q, b, code) == q.pc = "place" /\ q.buyer = b /\ q.key # "none" /\ CodeOf[q.key] = code

ReviewCallers(b, p) == {r \in Requests : ReviewCaller(req[r], b, p)}
StoreReviewCallers(b, s) == {r \in Requests : StoreReviewCaller(req[r], b, s)}
NameCallers(n) == {r \in Requests : NameCaller(req[r], n)}
CouponCallers(c) == {r \in Requests : CouponCaller(req[r], c)}
PushCallers(e) == {r \in Requests : PushCaller(req[r], e)}
UseCallers(b, code) == {r \in Requests : UseCaller(req[r], b, code)}

\* Rows that are there and rows that handlers are about to write: one, and one more for
\* each call that began while another was running.
ReviewsOnce ==
    \A b \in Buyers, p \in Products :
      AtMost(Claims(ReviewsBy(b, p), ReviewCallers(b, p), req), 1 + used.overlaps)
StoreReviewsOnce ==
    \A b \in Buyers, s \in Stores :
      AtMost(Claims(StoreReviewsBy(b, s), StoreReviewCallers(b, s), req), 1 + used.overlaps)
NamesOnce ==
    \A n \in Names : KindOf[n] # "menu" =>
      AtMost(Claims(SameName(n), NameCallers(n), req), 1 + used.overlaps)
CouponsOnce ==
    \A c \in Coupons :
      AtMost(Claims(Twins(c), CouponCallers(c), req), 1 + used.overlaps)
BrowsersOnce ==
    \A e \in Endpoints :
      AtMost(Claims(RowsOf(e), PushCallers(e), req), 1 + used.overlaps)
UsesOnce ==
    \A b \in Buyers, code \in Codes :
      AtMost(Claims(UsesBy(b, code), UseCallers(b, code), req), 1 + used.overlaps)

\* Where an index says so, one.
IndexedOnce ==
    /\ \A n \in Names : IsCategory(n) /\ OwnerOf[n] # "none" => AtMost(SameName(n), 1)
    /\ \A c \in Coupons : CouponStore[c] # "none" => AtMost(Twins(c), 1)

\* Handlers that insert what they looked for, and have no id yet.
FindsNothing(q) ==
    /\ q.pc \in {"insertName", "insertCoupon", "uses", "place"} => q.id = 0
    /\ q.pc \in {"saveReview", "saveWithPhotos"} /\ q.id = 0 => q.list = {}

\* A review names an order of its buyer, paid for or delivered.
Bought(o, b, p) == o \in Orders /\ order[o].buyer = b /\ order[o].product = p /\ order[o].paid
Delivered(o, b) == o \in Orders /\ order[o].buyer = b /\ order[o].status = "DELIVERED"
ReviewsBought ==
    /\ \A k \in DOMAIN reviews : Bought(reviews[k].order, reviews[k].buyer, reviews[k].product)
    /\ \A k \in DOMAIN storeReviews : Delivered(storeReviews[k].order, storeReviews[k].buyer)
    /\ \A r \in Requests :
         /\ req[r].pc \in {"saveReview", "saveWithPhotos"} =>
              Bought(req[r].num, req[r].buyer, req[r].product)
         /\ req[r].pc = "saveStoreReview" => Delivered(req[r].num, req[r].buyer)

\* The photos in list and those about to be inserted for review k; with them the calls
\* other than r that will clear the photos before they insert theirs.
Inserter(q, k) == q.pc = "insertPhotos" /\ q.id = k
Clearer(q, k) == q.pc \in {"saveWithPhotos", "clearPhotos"} /\ q.id = k
Shown(list, k, qs) ==
    {<<"photo", i>> : i \in list}
    \cup {<<"photo", qs[s].call>> : s \in {t \in Requests : Inserter(qs[t], k)}}
Photos(list, k, r, qs) ==
    Shown(list, k, qs) \cup {<<"call", s>> : s \in {t \in Requests \ {r} : Clearer(qs[t], k)}}
Saver(q, k) == q.pc \in {"saveReview", "saveWithPhotos"} /\ q.id = k
Few(images, k, qs, n) ==
    /\ AtMost(Shown(images, k, qs), n)
    /\ \A r \in Requests :
         /\ Clearer(qs[r], k) => AtMost(Photos(images, k, r, qs), n)
         /\ Saver(qs[r], k) => AtMost(Photos(qs[r].list, k, r, qs), n)
PhotosOnce == \A k \in DOMAIN reviews : Few(reviews[k].images, k, req, 1 + used.overlaps)

OnceInv ==
    /\ AtMost(Runners, 1 + used.overlaps)
    /\ \A r \in Requests : FindsNothing(req[r])
    /\ ReviewsOnce /\ StoreReviewsOnce /\ NamesOnce /\ CouponsOnce /\ BrowsersOnce /\ UsesOnce
    /\ IndexedOnce /\ ReviewsBought /\ PhotosOnce

-----------------------------------------------------------------------------
(* Counting what handlers claim *)

\* One thing for another.
LEMMA AtMostSwap ==
    ASSUME NEW S, NEW n \in Nat, AtMost(S, n), NEW x \in S, NEW y, NEW T,
           T \subseteq (S \ {x}) \cup {y}
    PROVE  AtMost(T, n)
<1>1. IsFiniteSet(S \ {x}) /\ Cardinality(S \ {x}) = Cardinality(S) - 1
      /\ Cardinality(S) \in Nat
  BY FS_RemoveElement, FS_CardinalityType DEF AtMost
<1>2. Cardinality(S \ {x}) \in Nat
  BY <1>1, FS_CardinalityType
<1>3. n - 1 \in Nat /\ AtMost(S \ {x}, n - 1)
  BY <1>1, <1>2 DEF AtMost
<1>4. AtMost(T, (n - 1) + 1)
  BY <1>3, AtMostOneMore
<1> QED
  BY <1>4

\* One thing for each of some others.
LEMMA AtMostImage ==
    ASSUME NEW S, NEW n \in Nat, AtMost(S, n), NEW f, NEW T, T \subseteq {f[x] : x \in S}
    PROVE  AtMost(T, n)
<1> DEFINE U == {f[x] : x \in S}
           g == [x \in S |-> f[x]]
<1>1. g \in Surjection(S, U)
  BY DEF Surjection
<1> HIDE DEF g
<1>2. IsFiniteSet(U) /\ Cardinality(U) <= Cardinality(S) /\ Cardinality(S) \in Nat
  BY <1>1, FS_Surjection, FS_CardinalityType DEF AtMost
<1>3. Cardinality(U) \in Nat
  BY <1>2, FS_CardinalityType
<1>4. AtMost(U, n)
  BY <1>2, <1>3 DEF AtMost
<1> QED
  BY <1>4, AtMostFewer

\* Nobody new claims a row, and no row appears.
LEMMA ClaimsLast ==
    ASSUME NEW found, NEW callers, NEW qs, NEW n \in Nat, AtMost(Claims(found, callers, qs), n),
           NEW more, more \subseteq found, NEW others, others \subseteq callers, NEW ps,
           \A s \in others : ps[s] = qs[s], NEW m \in Nat, n <= m
    PROVE  AtMost(Claims(more, others, ps), m)
<1>1. Claims(more, others, ps) \subseteq Claims(found, callers, qs)
  BY DEF Claims
<1> QED
  BY <1>1, AtMostFewer

\* Where nothing is there, each claim is that of a request that runs.
LEMMA ClaimsOfRunners ==
    ASSUME NEW S, NEW n \in Nat, AtMost(S, n), NEW callers, callers \subseteq S, NEW qs
    PROVE  AtMost(Claims({}, callers, qs), n)
<1> DEFINE f == [r \in S |-> ClaimOf(qs[r], r)]
<1>1. Claims({}, callers, qs) \subseteq {f[r] : r \in S}
  BY DEF Claims
<1> HIDE DEF f
<1> QED
  BY <1>1, AtMostImage

\* A request that claimed a row writes it.
LEMMA ClaimsWritten ==
    ASSUME NEW found, NEW callers, NEW qs, NEW n \in Nat, AtMost(Claims(found, callers, qs), n),
           NEW r \in callers, qs[r].id # 0, NEW more, more \subseteq found \cup {qs[r].id},
           NEW others, others \subseteq callers \ {r}, NEW ps, \A s \in others : ps[s] = qs[s]
    PROVE  AtMost(Claims(more, others, ps), n)
<1>1. <<"row", qs[r].id>> \in Claims(found, callers, qs)
  BY DEF Claims, ClaimOf
<1>2. Claims(more, others, ps) \subseteq Claims(found, callers, qs)
  BY <1>1 DEF Claims
<1> QED
  BY <1>2, AtMostFewer

\* A request that looked for rows claims one that is there.
LEMMA ClaimsFound ==
    ASSUME NEW found, NEW callers, NEW qs, NEW n \in Nat, AtMost(Claims(found, callers, qs), n),
           NEW r, NEW others, others \subseteq callers \cup {r}, NEW ps,
           \A s \in others \ {r} : ps[s] = qs[s], ps[r].id # 0, ps[r].id \in found,
           NEW m \in Nat, n <= m
    PROVE  AtMost(Claims(found, others, ps), m)
<1>1. ClaimOf(ps[r], r) \in Claims(found, callers, qs)
  BY DEF Claims, ClaimOf
<1>2. Claims(found, others, ps) \subseteq Claims(found, callers, qs)
  BY <1>1 DEF Claims
<1> QED
  BY <1>2, AtMostFewer

-----------------------------------------------------------------------------
(* The calls and steps that bring a handler to a statement that counts, or that writes  *)
(* what a store is given for what it paid                                               *)

Counted ==
    {"uses", "place", "increment", "insertCoupon", "insertName", "saveReview", "saveWithPhotos",
     "clearPhotos", "insertPhotos", "saveStoreReview", "savePush",
     "saveStore", "raise", "lower", "latest", "extend", "lowerAll", "expireAds"}
Plain(r) == req'[r].pc \notin Counted

\* The calls about stores and the progress of orders.
LEMMA StoreCallsPlain ==
    ASSUME TypeInv, NEW r \in Requests, StoreBegin(r)
    PROVE  Plain(r) \/ \E s \in Stores : BeginEditStore(r, s) \/ BeginRuleStore(r, s)
<1> USE DEF Call
<1>1. ASSUME NEW s \in Stores, BeginCreateStore(r, s)
      PROVE  Plain(r)
  BY <1>1, CallDoes DEF Plain, Counted, CallWith, Idle, BeginCreateStore
<1>2. ASSUME NEW o \in Orders, Progress(r, o)
      PROVE  Plain(r)
  BY <1>2, CallDoes DEF Plain, Counted, CallWith, Idle, Progress
<1> QED
  BY <1>1, <1>2 DEF StoreBegin, StoresController

\* The calls about coupons, orders, campaigns and payments.
LEMMA PromotionCallsPlain ==
    ASSUME TypeInv, NEW r \in Requests, PromotionBegin(r)
    PROVE  \/ Plain(r)
           \/ \E c \in Coupons : BeginCreateCoupon(r, c)
           \/ \E b \in Buyers, p \in Products : BeginOrder(r, b, p)
           \/ \E b \in Buyers, p \in Products, c \in Coupons : BeginOrderWith(r, b, p, c)
           \/ BeginExpire(r)
<1> USE DEF Call
<1>1. ASSUME NEW c \in Coupons, RemoveCoupon(r, c)
      PROVE  Plain(r)
  BY <1>1, CallDoes DEF Plain, Counted, CallWith, Idle, RemoveCoupon
<1>2. ASSUME NEW s \in Stores, NEW day \in Days, BeginRegisterAd(r, s, day)
      PROVE  Plain(r)
  BY <1>2, CallDoes DEF Plain, Counted, CallWith, Idle, BeginRegisterAd
<1>3. ASSUME NEW a \in DOMAIN ads, BeginCancelAd(r, a)
      PROVE  Plain(r)
  BY <1>3, CallDoes DEF Plain, Counted, CallWith, Idle, BeginCancelAd
<1>4. ASSUME NEW s \in Stores, NEW day \in Days, NEW plan, NEW status, BeginPay(r, s, plan, day, status)
      PROVE  Plain(r)
  BY <1>4, CallDoes DEF Plain, Counted, CallWith, Idle, BeginPay
<1>5. ASSUME NEW i \in DOMAIN subs, BeginCancelSub(r, i)
      PROVE  Plain(r)
  BY <1>5, CallDoes DEF Plain, Counted, CallWith, Idle, BeginCancelSub
<1>6. ASSUME NEW p \in Products, BeginSale(r, p)
      PROVE  Plain(r)
  BY <1>6, CallDoes DEF Plain, Counted, CallWith, Idle, BeginSale
<1> QED
  BY <1>1, <1>2, <1>3, <1>4, <1>5, <1>6 DEF PromotionBegin, CouponsController, OrdersController,
      SalesController, AdvertisingController,
      SubscriptionsController

\* The calls about products, reviews and names, and the removal of a store.
LEMMA CatalogueCallsPlain ==
    ASSUME TypeInv, NEW r \in Requests, CatalogueBegin(r)
    PROVE  \/ Plain(r)
           \/ \E b \in Buyers, p \in Products, photos \in BOOLEAN : BeginReview(r, b, p, photos)
           \/ \E b \in Buyers, s \in Stores : BeginStoreReview(r, b, s)
           \/ \E n \in Names : BeginCreateName(r, n)
<1> USE DEF Call
<1>1. ASSUME NEW p \in Products, BeginRemoveProduct(r, p)
      PROVE  Plain(r)
  BY <1>1, CallDoes DEF Plain, Counted, CallWith, Idle, BeginRemoveProduct
<1>2. ASSUME NEW p \in Products, NEW s \in Stores, NEW n \in Names, NEW units \in {0, 1}, BeginCreateProduct(r, p, s, n, units)
      PROVE  Plain(r)
  BY <1>2, CallDoes DEF Plain, Counted, CallWith, Idle, BeginCreateProduct
<1>3. ASSUME NEW p \in Products, NEW active, BeginUpdateProduct(r, p, active)
      PROVE  Plain(r)
  BY <1>3, CallDoes DEF Plain, Counted, CallWith, Idle, BeginUpdateProduct
<1>4. ASSUME NEW p \in Products, NEW t, BeginAddRow(r, p, t)
      PROVE  Plain(r)
  BY <1>4, CallDoes DEF Plain, Counted, CallWith, Idle, BeginAddRow
<1>5. ASSUME NEW p \in Products, NEW t, RemoveRow(r, p, t)
      PROVE  Plain(r)
  BY <1>5, CallDoes DEF Plain, Counted, CallWith, Idle, RemoveRow
<1>6. ASSUME NEW p \in Products, NEW b \in Buyers, BeginFavorite(r, b, p)
      PROVE  Plain(r)
  BY <1>6, CallDoes DEF Plain, Counted, CallWith, Idle, BeginFavorite
<1>7. ASSUME NEW p \in Products, NEW b \in Buyers, Unfavorite(r, b, p)
      PROVE  Plain(r)
  BY <1>7, CallDoes DEF Plain, Counted, CallWith, Idle, Unfavorite
<1>8. ASSUME NEW n \in Names, BeginSwitchName(r, n)
      PROVE  Plain(r)
  BY <1>8, CallDoes DEF Plain, Counted, CallWith, Idle, BeginSwitchName
<1>9. ASSUME NEW n \in Names, RemoveMenu(r, n)
      PROVE  Plain(r)
  BY <1>9, CallDoes DEF Plain, Counted, CallWith, Idle, RemoveMenu
<1>10. ASSUME NEW s \in Stores, BeginRemoveStore(r, s)
      PROVE  Plain(r)
  BY <1>10, CallDoes DEF Plain, Counted, CallWith, Idle, BeginRemoveStore
<1> QED
  BY <1>1, <1>2, <1>3, <1>4, <1>5, <1>6, <1>7, <1>8, <1>9, <1>10 DEF CatalogueBegin, ProductsController, ReviewsController, NamesControllers

\* The calls about connections and browsers.
LEMMA LiveCallsPlain ==
    ASSUME TypeInv, NEW r \in Requests, LiveBegin(r)
    PROVE  \/ Plain(r)
           \/ \E e \in Endpoints, u \in Buyers : BeginSubscribe(r, e, u)
<1> USE DEF Call
<1>1. ASSUME NEW t, NEW u, Subscribe(r, t, u)
      PROVE  Plain(r)
  BY <1>1, CallDoes DEF Plain, Counted, CallWith, Idle, Subscribe
<1>2. ASSUME NEW e, Unsubscribe(r, e)
      PROVE  Plain(r)
  BY <1>2, CallDoes DEF Plain, Counted, CallWith, Idle, Unsubscribe
<1>3. ASSUME NEW u, BeginSend(r, u)
      PROVE  Plain(r)
  BY <1>3, CallDoes DEF Plain, Counted, CallWith, Idle, BeginSend
<1> QED
  BY <1>1, <1>2, <1>3 DEF LiveBegin, NotificationsController, PushController

\* Steps that bring a running handler to a statement that counts.
LEMMA StepsPlain ==
    ASSUME TypeInv, NEW r \in Requests, Run(r)
    PROVE  \/ Plain(r) \/ CountUses(r) \/ PlaceOrder(r) \/ SaveReview(r) \/ ClearPhotos(r)
           \/ InsertAd(r) \/ CancelAd(r) \/ InsertSub(r) \/ FindLatest(r) \/ LowerAll(r)
<1> USE DEF Return, Goto, Counted, Plain
<1>1. CASE StoreRun(r)
  BY <1>1, StepDoes DEF Idle, StoreRun, InsertStore, SaveStore
<1>2. ASSUME NEW q, Goto(r, q) \/ Return(r), q.pc \notin Counted
      PROVE  Plain(r)
  BY <1>2, StepDoes DEF Idle
<1>3. CASE InsertCoupon(r) \/ Sell(r) \/ Increment(r) \/ Raise(r) \/ Lower(r) \/ ExpireAds(r)
             \/ Extend(r) \/ CancelSub(r)
  <2>1. Return(r)
    BY <1>3 DEF InsertCoupon, Sell, Increment, Raise, Lower, ExpireAds, Extend, CancelSub
  <2>2. Idle.pc = "idle"
    BY DEF Idle
  <2> QED
    BY <1>2, <2>1, <2>2
<1>5. CASE LiveRun(r)
  <2>1. CASE SavePush(r)
    BY <2>1, StepDoes DEF Idle, SavePush
  <2>2. CASE Send(r)
    <3>1. req[r].pc = "send"
      BY <2>2 DEF Send
    <3>2. PICK k \in req[r].list :
            \/ Goto(r, [req[r] EXCEPT !.pc = "drop", !.id = k])
            \/ Goto(r, IF req[r].list = {k} THEN Idle ELSE [req[r] EXCEPT !.list = @ \ {k}])
      BY <2>2 DEF Send
    <3> DEFINE a == [req[r] EXCEPT !.pc = "drop", !.id = k]
               b == [req[r] EXCEPT !.list = @ \ {k}]
    <3>3. a.pc \notin Counted /\ b.pc \notin Counted
      BY <3>1, StepDoes DEF Request
    <3>4. Goto(r, a) \/ Goto(r, b) \/ Return(r)
      BY <3>2
    <3> HIDE DEF a, b
    <3> QED
      BY <1>2, <3>3, <3>4
  <2>3. CASE Drop(r)
    BY <2>3, StepDoes DEF Request, Idle, Drop
  <2> QED
    BY <1>5, <2>1, <2>2, <2>3 DEF LiveRun
<1>6. CASE Die(r)
  BY <1>6, StepDoes DEF Die, Idle
<1>7. CASE SaveName(r) \/ DeleteRows(r)
  <2> DEFINE a == [Idle EXCEPT !.pc = "hide", !.key = req[r].key]
             b == [req[r] EXCEPT !.num = @ + 1]
             c == [req[r] EXCEPT !.pc = "deleteProduct"]
  <2>1. a.pc = "hide" /\ (DeleteRows(r) => b.pc = "deleteRows") /\ c.pc = "deleteProduct"
    BY StepDoes DEF Idle, Request, DeleteRows
  <2>2. Return(r) \/ Goto(r, a) \/ (DeleteRows(r) /\ (Goto(r, b) \/ Goto(r, c)))
    BY <1>7 DEF SaveName, DeleteRows
  <2> HIDE DEF a, b, c
  <2> QED
    BY <1>2, <2>1, <2>2
<1>8. CASE InsertName(r) \/ Hide(r) \/ InsertProduct(r) \/ SaveProduct(r) \/ InsertRow(r)
             \/ InsertFavorite(r) \/ DeleteProduct(r) \/ EraseStore(r) \/ InsertPhotos(r)
             \/ SaveStoreReview(r)
  <2>1. Return(r)
    BY <1>8 DEF InsertName, Hide, InsertProduct, SaveProduct, InsertRow, InsertFavorite,
                DeleteProduct, EraseStore, InsertPhotos, SaveStoreReview
  <2> QED
    BY <2>1, StepDoes DEF Idle
<1> QED
  BY <1>1, <1>3, <1>5, <1>6, <1>7, <1>8 DEF Run, PromotionRun, CatalogueRun

\* A step is the environment's, a call's or a handler's.
Slot(r) == req' = [req EXCEPT ![r] = req'[r]]
Calls(r) ==
    /\ Slot(r) /\ req[r] = Idle /\ used'.faults = used.faults
    /\ used'.overlaps = used.overlaps + (IF Overlaps(r) THEN 1 ELSE 0)
Goes(r) == Slot(r) /\ Running(r) /\ used' = used

\* Every call fills an idle slot and is counted.
LEMMA BeginCalls ==
    ASSUME TypeInv, NEW r \in Requests, Free(r), Begin(r)
    PROVE  Calls(r)
<1>1. \E q, k : CallWith(r, q, k)
  BY DEF Begin, StoreBegin, StoresController, BeginCreateStore, BeginEditStore, BeginRuleStore,
         Progress, PromotionBegin, CouponsController, OrdersController, SalesController, AdvertisingController,
         SubscriptionsController, BeginCreateCoupon, RemoveCoupon, BeginOrder, BeginOrderWith, BeginSale,
         BeginRegisterAd, BeginCancelAd, BeginPay, BeginCancelSub, BeginExpire,
         CatalogueBegin, ProductsController, ReviewsController, NamesControllers,
         BeginRemoveProduct, BeginCreateProduct, BeginUpdateProduct, BeginAddRow, RemoveRow,
         BeginFavorite, Unfavorite, BeginReview, BeginStoreReview, BeginCreateName, BeginSwitchName,
         RemoveMenu, BeginRemoveStore, LiveBegin, NotificationsController, PushController,
         Subscribe, Unsubscribe, BeginSubscribe, BeginSend, Call
<1>2. PICK q, k : CallWith(r, q, k)
  BY <1>1
<1> QED
  BY <1>2, CallDoes DEF Calls, Slot, CallWith, Free, Running

\* Every statement of a handler changes its own slot.
LEMMA RunGoes ==
    ASSUME TypeInv, NEW r \in Requests, Running(r), Run(r)
    PROVE  Goes(r) \/ Die(r)
<1>1. CASE \E q : Goto(r, q)
  <2>1. PICK q : Goto(r, q)
    BY <1>1
  <2> QED
    BY <2>1, StepDoes DEF Goes, Slot, Goto
<1>2. (\E q : Goto(r, q)) \/ Die(r)
  BY DEF Run, StoreRun, InsertStore, SaveStore, PromotionRun, InsertCoupon, CountUses, PlaceOrder,
         Sell, Increment, InsertAd, Raise, CancelAd, Lower, LowerAll, ExpireAds, InsertSub, FindLatest,
         Extend, CancelSub, CatalogueRun, InsertName, SaveName, Hide, InsertProduct, SaveProduct,
         InsertRow, InsertFavorite, DeleteRows, DeleteProduct, EraseStore, SaveReview, ClearPhotos,
         InsertPhotos, SaveStoreReview, LiveRun, SavePush, Send, Drop, Return
<1> QED
  BY <1>1, <1>2

\* What the calls that matter here put into their slot.
LEMMA SlotIs ==
    ASSUME TypeInv, NEW r \in Requests, NEW q, NEW k, CallWith(r, q, k)
    PROVE  req'[r] = q
  BY CallDoes DEF CallWith

\* A review holds the order it is for, and the review it found with its photos.
LEMMA ReviewCalled ==
    ASSUME TypeInv, NEW r \in Requests, NEW b, NEW p, NEW photos, BeginReview(r, b, p, photos)
    PROVE  /\ req'[r].pc = (IF photos THEN "saveWithPhotos" ELSE "saveReview")
           /\ req'[r].buyer = b /\ req'[r].product = p /\ req'[r].num = Max(BoughtBy(b, p))
           /\ req'[r].id \in Found(ReviewsBy(b, p))
           /\ req'[r].list = (IF req'[r].id = 0 THEN {} ELSE reviews[req'[r].id].images)
<1>1. PICK k \in Found(ReviewsBy(b, p)) :
        Call(r, [Idle EXCEPT !.pc = IF photos THEN "saveWithPhotos" ELSE "saveReview",
                   !.buyer = b, !.product = p, !.num = Max(BoughtBy(b, p)), !.id = k,
                   !.call = used.events + 1, !.list = IF k = 0 THEN {} ELSE reviews[k].images])
  BY DEF BeginReview
<1>2. req'[r] = [Idle EXCEPT !.pc = IF photos THEN "saveWithPhotos" ELSE "saveReview",
                   !.buyer = b, !.product = p, !.num = Max(BoughtBy(b, p)), !.id = k,
                   !.call = used.events + 1, !.list = IF k = 0 THEN {} ELSE reviews[k].images]
  BY <1>1, SlotIs DEF Call
<1> QED
  BY <1>2 DEF Idle

\* A review of a store holds the order it is for, and the review it found.
LEMMA StoreReviewCalled ==
    ASSUME TypeInv, NEW r \in Requests, NEW b, NEW s, BeginStoreReview(r, b, s)
    PROVE  /\ req'[r].pc = "saveStoreReview" /\ req'[r].buyer = b /\ req'[r].store = s
           /\ req'[r].num = Max(DeliveredTo(b, s)) /\ req'[r].id \in Found(StoreReviewsBy(b, s))
<1>1. PICK k \in Found(StoreReviewsBy(b, s)) :
        req'[r] = [Idle EXCEPT !.pc = "saveStoreReview", !.buyer = b, !.store = s,
                    !.num = Max(DeliveredTo(b, s)), !.id = k]
  BY SlotIs DEF BeginStoreReview, Call
<1> QED
  BY <1>1 DEF Idle

\* A subscription holds the row of the browser it found, or none.
LEMMA BrowserCalled ==
    ASSUME TypeInv, NEW r \in Requests, NEW e, NEW u, BeginSubscribe(r, e, u)
    PROVE  /\ req'[r].pc = "savePush" /\ req'[r].key = e
           /\ req'[r].id \in (IF RowsOf(e) = {} THEN {0} ELSE RowsOf(e))
<1>1. PICK k \in IF RowsOf(e) = {} THEN {0} ELSE RowsOf(e) :
        req'[r] = [Idle EXCEPT !.pc = "savePush", !.key = e, !.buyer = u, !.id = k]
  BY SlotIs DEF BeginSubscribe, Call
<1> QED
  BY <1>1 DEF Idle

\* A name that was free is inserted.
LEMMA NameCalled ==
    ASSUME TypeInv, NEW r \in Requests, NEW n, BeginCreateName(r, n)
    PROVE  req'[r].pc = "insertName" /\ req'[r].key = n /\ req'[r].id = 0
  BY SlotIs DEF BeginCreateName, Call, Idle

\* A coupon whose code was free is inserted.
LEMMA CouponCalled ==
    ASSUME TypeInv, NEW r \in Requests, NEW c, BeginCreateCoupon(r, c)
    PROVE  req'[r].pc = "insertCoupon" /\ req'[r].key = c /\ req'[r].id = 0
  BY SlotIs DEF BeginCreateCoupon, Call, Idle

\* An order without a coupon is placed at once; one with a coupon counts its uses first.
LEMMA OrderCalled ==
    ASSUME TypeInv, NEW r \in Requests, NEW b, NEW p
    PROVE  /\ BeginOrder(r, b, p) =>
                req'[r].pc = "place" /\ req'[r].key = "none" /\ req'[r].id = 0
           /\ \A c : BeginOrderWith(r, b, p, c) =>
                req'[r].pc = "uses" /\ req'[r].key = c /\ req'[r].buyer = b /\ req'[r].id = 0
<1>1. BeginOrder(r, b, p) => req'[r] = [Idle EXCEPT !.pc = "place", !.buyer = b, !.product = p]
  BY SlotIs DEF BeginOrder, Call
<1>2. ASSUME NEW c, BeginOrderWith(r, b, p, c)
      PROVE  req'[r].pc = "uses" /\ req'[r].key = c /\ req'[r].buyer = b /\ req'[r].id = 0
  <2>1. req'[r] = [Idle EXCEPT !.pc = "uses", !.buyer = b, !.product = p, !.key = c]
    BY <1>2, SlotIs DEF BeginOrderWith, Call
  <2> QED
    BY <2>1 DEF Idle
<1>3. BeginOrder(r, b, p) => req'[r].pc = "place" /\ req'[r].key = "none" /\ req'[r].id = 0
  BY <1>1 DEF Idle
<1> QED
  BY <1>2, <1>3

\* A call begins, or a handler runs.
Moves(r) == (Free(r) /\ Begin(r)) \/ (Running(r) /\ Run(r))

\* An update of a store holds the row it read, but for what it changes of it.
LEMMA StoreCalled ==
    ASSUME TypeInv, NEW r \in Requests, NEW s \in Stores, BeginEditStore(r, s) \/ BeginRuleStore(r, s)
    PROVE  /\ req'[r].pc = "saveStore" /\ req'[r].store = s
           /\ used'.overrides = used.overrides =>
                req'[r].row = [store[s] EXCEPT !.active = req'[r].row.active]
<1>0. store[s] \in StoreRow /\ used.overrides \in Nat
  BY StorefrontAssumption DEF TypeInv, TablesOK, ShopOK, UsedOK
<1>1. ASSUME NEW row, NEW k, CallWith(r, [Idle EXCEPT !.pc = "saveStore", !.store = s, !.row = row], k)
      PROVE  /\ req'[r].pc = "saveStore" /\ req'[r].store = s /\ req'[r].row = row
             /\ used'.overrides = used.overrides + k
  <2>1. req'[r] = [Idle EXCEPT !.pc = "saveStore", !.store = s, !.row = row]
    BY <1>1, SlotIs
  <2> QED
    BY <1>1, <2>1, CallDoes DEF Idle, CallWith
<1>2. ASSUME NEW row, row = [store[s] EXCEPT !.active = row.active],
             CallWith(r, [Idle EXCEPT !.pc = "saveStore", !.store = s, !.row = row], 0)
      PROVE  /\ req'[r].pc = "saveStore" /\ req'[r].store = s
             /\ req'[r].row = [store[s] EXCEPT !.active = req'[r].row.active]
  <2>1. req'[r].pc = "saveStore" /\ req'[r].store = s /\ req'[r].row = row
    BY <1>1, <1>2
  <2> QED
    BY <1>2, <2>1
<1>3. ASSUME NEW row, CallWith(r, [Idle EXCEPT !.pc = "saveStore", !.store = s, !.row = row], 1)
      PROVE  req'[r].pc = "saveStore" /\ req'[r].store = s /\ used'.overrides # used.overrides
  <2>1. /\ req'[r].pc = "saveStore" /\ req'[r].store = s
        /\ used'.overrides = used.overrides + 1
    BY <1>1, <1>3
  <2> QED
    BY <1>0, <2>1
<1> DEFINE flipped == [store[s] EXCEPT !.active = ~@]
<1>4. /\ store[s] = [store[s] EXCEPT !.active = store[s].active]
      /\ flipped = [store[s] EXCEPT !.active = flipped.active]
  BY <1>0 DEF StoreRow
<1>5. BeginRuleStore(r, s) =>
        \/ CallWith(r, [Idle EXCEPT !.pc = "saveStore", !.store = s, !.row = flipped], 0)
        \/ \E row : CallWith(r, [Idle EXCEPT !.pc = "saveStore", !.store = s, !.row = row], 1)
  BY DEF BeginRuleStore, Call
<1>6. BeginEditStore(r, s) =>
        CallWith(r, [Idle EXCEPT !.pc = "saveStore", !.store = s, !.row = store[s]], 0)
  BY DEF BeginEditStore, Call
<1> HIDE DEF flipped
<1> QED
  BY <1>2, <1>3, <1>4, <1>5, <1>6

\* The nightly job holds the stores that are overdue.
LEMMA ExpiryCalled ==
    ASSUME TypeInv, NEW r \in Requests, BeginExpire(r)
    PROVE  req'[r].pc = "lowerAll" /\ req'[r].list = {s \in Stores : Overdue(s)}
<1>1. req'[r] = [Idle EXCEPT !.pc = "lowerAll", !.list = {s \in Stores : Overdue(s)}]
  BY SlotIs DEF BeginExpire, Call
<1> QED
  BY <1>1 DEF Idle

\* Each statement that counts is reached by one call, or from one statement before it.
LEMMA Entering ==
    ASSUME TypeInv, NEW r \in Requests, Moves(r)
    PROVE  /\ req'[r].pc \in {"saveReview", "saveWithPhotos"} =>
                \E b \in Buyers, p \in Products, photos \in BOOLEAN :
                  Free(r) /\ BeginReview(r, b, p, photos)
           /\ req'[r].pc = "saveStoreReview" =>
                \E b \in Buyers, s \in Stores : Free(r) /\ BeginStoreReview(r, b, s)
           /\ req'[r].pc = "insertName" => \E n \in Names : Free(r) /\ BeginCreateName(r, n)
           /\ req'[r].pc = "insertCoupon" => \E c \in Coupons : Free(r) /\ BeginCreateCoupon(r, c)
           /\ req'[r].pc = "savePush" =>
                \E e \in Endpoints, u \in Buyers : Free(r) /\ BeginSubscribe(r, e, u)
           /\ req'[r].pc = "uses" =>
                \E b \in Buyers, p \in Products, c \in Coupons :
                  Free(r) /\ BeginOrderWith(r, b, p, c)
           /\ req'[r].pc = "place" =>
                \/ \E b \in Buyers, p \in Products : Free(r) /\ BeginOrder(r, b, p)
                \/ Running(r) /\ CountUses(r)
           /\ req'[r].pc = "increment" => Running(r) /\ PlaceOrder(r)
           /\ req'[r].pc = "clearPhotos" => Running(r) /\ SaveReview(r)
           /\ req'[r].pc = "insertPhotos" => Running(r) /\ ClearPhotos(r)
           /\ req'[r].pc = "saveStore" =>
                \E s \in Stores : Free(r) /\ (BeginEditStore(r, s) \/ BeginRuleStore(r, s))
           /\ req'[r].pc = "lowerAll" => Free(r) /\ BeginExpire(r)
           /\ req'[r].pc = "raise" => Running(r) /\ InsertAd(r)
           /\ req'[r].pc = "lower" => Running(r) /\ CancelAd(r)
           /\ req'[r].pc = "latest" => Running(r) /\ InsertSub(r)
           /\ req'[r].pc = "extend" => Running(r) /\ FindLatest(r)
           /\ req'[r].pc = "expireAds" => Running(r) /\ LowerAll(r)
<1>1. CASE Plain(r)
  BY <1>1 DEF Plain, Counted
<1>2. ASSUME NEW b \in Buyers, NEW p \in Products, NEW photos \in BOOLEAN, Free(r),
             BeginReview(r, b, p, photos)
      PROVE  req'[r].pc \in {"saveReview", "saveWithPhotos"}
  BY <1>2, ReviewCalled
<1>3. CASE Free(r) /\ Begin(r)
  <2>1. CASE StoreBegin(r)
    BY <1>1, <1>3, <2>1, StoreCallsPlain, StoreCalled
  <2>2. CASE PromotionBegin(r)
    BY <1>1, <1>3, <2>2, PromotionCallsPlain, CouponCalled, OrderCalled, ExpiryCalled
  <2>3. CASE CatalogueBegin(r)
    BY <1>1, <1>2, <1>3, <2>3, CatalogueCallsPlain, StoreReviewCalled, NameCalled
  <2>4. CASE LiveBegin(r)
    BY <1>1, <1>3, <2>4, LiveCallsPlain, BrowserCalled
  <2> QED
    BY <1>3, <2>1, <2>2, <2>3, <2>4 DEF Begin
<1>4. CASE Running(r) /\ CountUses(r)
  <2>1. Return(r) \/ Goto(r, [req[r] EXCEPT !.pc = "place"])
    BY <1>4 DEF CountUses
  <2>2. req'[r].pc \in {"idle", "place"}
    BY <2>1, StepDoes DEF Return, Goto, Idle, Request
  <2> QED
    BY <1>4, <2>2
<1>5. CASE Running(r) /\ SaveReview(r)
  <2> DEFINE a == [Idle EXCEPT !.pc = "clearPhotos", !.call = req[r].call,
                    !.id = IF req[r].id = 0 THEN Len(reviews) + 1 ELSE req[r].id]
  <2>1. Return(r) \/ Goto(r, a)
    BY <1>5 DEF SaveReview
  <2>2. a.pc = "clearPhotos" /\ Idle.pc = "idle"
    BY DEF Idle
  <2> HIDE DEF a
  <2>3. req'[r].pc \in {"idle", "clearPhotos"}
    BY <2>1, <2>2, StepDoes DEF Return, Goto
  <2> QED
    BY <1>5, <2>3
<1>6. CASE Running(r) /\ ClearPhotos(r)
  <2>1. req'[r].pc = "insertPhotos"
    BY <1>6, StepDoes DEF ClearPhotos, Goto, Request
  <2> QED
    BY <1>6, <2>1
<1>7. CASE Running(r) /\ PlaceOrder(r)
  <2> DEFINE next == [Idle EXCEPT !.pc = "increment", !.key = req[r].key]
  <2>1. Return(r) \/ Goto(r, next)
    BY <1>7 DEF PlaceOrder
  <2>3. next.pc = "increment" /\ Idle.pc = "idle"
    BY DEF Idle
  <2> HIDE DEF next
  <2>2. req'[r].pc \in {"idle", "increment"}
    BY <2>1, <2>3, StepDoes DEF Return, Goto
  <2> QED
    BY <1>7, <2>2
<1>8. CASE Running(r) /\ (InsertAd(r) \/ CancelAd(r) \/ InsertSub(r) \/ FindLatest(r) \/ LowerAll(r))
  <2> DEFINE a == [req[r] EXCEPT !.pc = "raise"]
             b == [Idle EXCEPT !.pc = "lower", !.store = ads[req[r].id].store]
             c == [req[r] EXCEPT !.pc = "latest", !.list = {}]
             d == [req[r] EXCEPT !.pc = "extend", !.num = LatestEnd(req[r].store)]
             e == [req[r] EXCEPT !.pc = "expireAds"]
  <2>1. a.pc = "raise" /\ b.pc = "lower" /\ c.pc = "latest" /\ d.pc = "extend"
        /\ e.pc = "expireAds" /\ Idle.pc = "idle"
    BY StepDoes DEF Idle, Request
  <2>2. /\ InsertAd(r) => Return(r) \/ Goto(r, a)
        /\ CancelAd(r) => Return(r) \/ Goto(r, b)
        /\ InsertSub(r) => Return(r) \/ Goto(r, c)
        /\ FindLatest(r) => Return(r) \/ Goto(r, d)
        /\ LowerAll(r) => Goto(r, e)
    BY DEF InsertAd, CancelAd, InsertSub, FindLatest, LowerAll
  <2> HIDE DEF a, b, c, d, e
  <2>3. /\ InsertAd(r) => req'[r].pc \in {"idle", "raise"}
        /\ CancelAd(r) => req'[r].pc \in {"idle", "lower"}
        /\ InsertSub(r) => req'[r].pc \in {"idle", "latest"}
        /\ FindLatest(r) => req'[r].pc \in {"idle", "extend"}
        /\ LowerAll(r) => req'[r].pc = "expireAds"
    BY <2>1, <2>2, StepDoes DEF Return, Goto
  <2>4. CASE InsertAd(r)
    BY <1>8, <2>3, <2>4
  <2>5. CASE CancelAd(r)
    BY <1>8, <2>3, <2>5
  <2>6. CASE InsertSub(r)
    BY <1>8, <2>3, <2>6
  <2>7. CASE FindLatest(r)
    BY <1>8, <2>3, <2>7
  <2>8. CASE LowerAll(r)
    BY <1>8, <2>3, <2>8
  <2> QED
    BY <1>8, <2>4, <2>5, <2>6, <2>7, <2>8
<1> QED
  BY <1>1, <1>3, <1>4, <1>5, <1>6, <1>7, <1>8, StepsPlain DEF Moves

\* Which tables a call changes by itself, and which a handler's statement does.
LEMMA CallTouches ==
    ASSUME NEW r \in Requests, Begin(r)
    PROVE  /\ UNCHANGED <<today, store, product, ads, subs, reviews, storeReviews>>
           /\ named' = named \/ \E n \in Names : RemoveMenu(r, n)
           /\ coupon' = coupon \/ \E c \in Coupons : RemoveCoupon(r, c)
           /\ push' = push \/ \E e \in Endpoints : Unsubscribe(r, e)
           /\ order' = order \/ \E o \in Orders : Progress(r, o)
  BY DEF Begin, shared, promotions, catalogue, live, StoreBegin, StoresController,
         BeginCreateStore, BeginEditStore, BeginRuleStore,
         Progress, PromotionBegin, CouponsController, OrdersController, SalesController, AdvertisingController,
         SubscriptionsController, BeginCreateCoupon, RemoveCoupon, BeginOrder, BeginOrderWith, BeginSale,
         BeginRegisterAd, BeginCancelAd, BeginPay, BeginCancelSub, BeginExpire,
         CatalogueBegin, ProductsController, ReviewsController, NamesControllers,
         BeginRemoveProduct, BeginCreateProduct, BeginUpdateProduct, BeginAddRow, RemoveRow,
         BeginFavorite, Unfavorite, BeginReview, BeginStoreReview, BeginCreateName, BeginSwitchName,
         RemoveMenu, BeginRemoveStore, LiveBegin, NotificationsController, PushController,
         Subscribe, Unsubscribe, BeginSubscribe, BeginSend

\* And which statements of handlers change which table.
LEMMA RunTouches ==
    ASSUME NEW r \in Requests, Run(r)
    PROVE  /\ today' = today
           /\ reviews' = reviews \/ DeleteRows(r) \/ EraseStore(r) \/ SaveReview(r)
                \/ ClearPhotos(r) \/ InsertPhotos(r)
           /\ storeReviews' = storeReviews \/ EraseStore(r) \/ SaveStoreReview(r)
           /\ named' = named \/ InsertName(r) \/ SaveName(r) \/ EraseStore(r)
           /\ coupon' = coupon \/ InsertCoupon(r) \/ Increment(r)
           /\ push' = push \/ SavePush(r) \/ Drop(r)
           /\ order' = order \/ PlaceOrder(r)
           /\ ads' = ads \/ InsertAd(r) \/ CancelAd(r) \/ ExpireAds(r) \/ EraseStore(r)
           /\ subs' = subs \/ InsertSub(r) \/ CancelSub(r) \/ EraseStore(r)
           /\ store' = store \/ StoreRun(r) \/ Raise(r) \/ Lower(r) \/ LowerAll(r) \/ Extend(r)
                \/ EraseStore(r)
<1>1. CASE StoreRun(r) /\ UNCHANGED <<promotions, catalogue, live>>
  BY <1>1 DEF StoreRun, InsertStore, SaveStore, promotions, catalogue, live
<1>2. CASE PromotionRun(r) /\ UNCHANGED <<catalogue, live>>
  <2>1. UNCHANGED <<today, reviews, storeReviews, named, push>>
    BY <1>2 DEF PromotionRun, InsertCoupon, CountUses, PlaceOrder, Sell, Increment, InsertAd, Raise,
                CancelAd, Lower, LowerAll, ExpireAds, InsertSub, FindLatest, Extend, CancelSub,
                shared, catalogue, live
  <2>2. (coupon' = coupon \/ InsertCoupon(r) \/ Increment(r)) /\ (order' = order \/ PlaceOrder(r))
    BY <1>2 DEF PromotionRun, CountUses, InsertAd, Raise, PlaceOrder, Sell, InsertCoupon, Increment,
                CancelAd, Lower, LowerAll, ExpireAds, InsertSub, FindLatest, Extend, CancelSub,
                shared, promotions
  <2>3. (ads' = ads \/ InsertAd(r) \/ CancelAd(r) \/ ExpireAds(r))
    BY <1>2 DEF PromotionRun, InsertCoupon, CountUses, PlaceOrder, Sell, Increment, Raise,
                Lower, LowerAll, InsertSub, FindLatest, Extend, CancelSub, promotions
  <2>4. (subs' = subs \/ InsertSub(r) \/ CancelSub(r))
    BY <1>2 DEF PromotionRun, InsertCoupon, CountUses, PlaceOrder, Sell, Increment, InsertAd, Raise,
                CancelAd, Lower, LowerAll, ExpireAds, FindLatest, Extend, promotions
  <2>5. (store' = store \/ Raise(r) \/ Lower(r) \/ LowerAll(r) \/ Extend(r))
    BY <1>2 DEF PromotionRun, InsertCoupon, CountUses, PlaceOrder, Sell, Increment, InsertAd,
                CancelAd, ExpireAds, InsertSub, FindLatest, CancelSub, shared
  <2> QED
    BY <2>1, <2>2, <2>3, <2>4, <2>5
<1>3. CASE CatalogueRun(r) /\ UNCHANGED live
  <2>1. CASE EraseStore(r)
    BY <1>3, <2>1 DEF EraseStore, live
  <2>2. CASE ~EraseStore(r)
    <3>1. UNCHANGED <<today, store, order, coupon, ads, subs, push>>
      BY <1>3, <2>2 DEF CatalogueRun, InsertName, SaveName, Hide, InsertProduct, SaveProduct,
                  InsertRow, InsertFavorite, DeleteRows, DeleteProduct, SaveReview, ClearPhotos,
                  InsertPhotos, SaveStoreReview, shared, promotions, live
    <3>2. reviews' = reviews \/ DeleteRows(r) \/ SaveReview(r) \/ ClearPhotos(r) \/ InsertPhotos(r)
      BY <1>3, <2>2 DEF CatalogueRun, InsertName, SaveName, Hide, InsertProduct, SaveProduct,
                  InsertRow, InsertFavorite, DeleteProduct, SaveStoreReview, catalogue
    <3>3. storeReviews' = storeReviews \/ SaveStoreReview(r)
      BY <1>3, <2>2 DEF CatalogueRun, InsertName, SaveName, Hide, InsertProduct, SaveProduct,
                  InsertRow, InsertFavorite, DeleteRows, DeleteProduct, SaveReview, ClearPhotos,
                  InsertPhotos, catalogue
    <3>4. named' = named \/ InsertName(r) \/ SaveName(r)
      BY <1>3, <2>2 DEF CatalogueRun, Hide, InsertProduct, SaveProduct,
                  InsertRow, InsertFavorite, DeleteRows, DeleteProduct, SaveReview, ClearPhotos,
                  InsertPhotos, SaveStoreReview, catalogue
    <3> QED
      BY <3>1, <3>2, <3>3, <3>4
  <2> QED
    BY <2>1, <2>2
<1>4. CASE LiveRun(r) /\ UNCHANGED <<promotions, catalogue>>
  <2>1. UNCHANGED <<shared, promotions, catalogue>>
    BY <1>4 DEF LiveRun, SavePush, Send, Drop
  <2>2. push' = push \/ SavePush(r) \/ Drop(r)
    BY <1>4 DEF LiveRun, Send, live
  <2> QED
    BY <2>1, <2>2 DEF shared, promotions, catalogue
<1>5. CASE Die(r) /\ UNCHANGED <<promotions, catalogue, live>>
  BY <1>5 DEF Die, promotions, catalogue, live
<1> QED
  BY <1>1, <1>2, <1>3, <1>4, <1>5 DEF Run

\* What the environment leaves alone.
LEMMA EnvironmentTouches ==
    ASSUME Environment \/ UNCHANGED vars
    PROVE  /\ UNCHANGED <<store, product, order, coupon, ads, subs, named, reviews, storeReviews, push>>
           /\ req' = req /\ (today' = today \/ Tick)
  BY DEF Environment, vars, shared, promotions, catalogue, live, Tick, Finalize

\* Overlaps are never taken back, and each step has a slot.
LEMMA MovesCount ==
    ASSUME TypeInv, NEW r \in Requests, Moves(r)
    PROVE  /\ Slot(r) /\ \A s \in Requests : s # r => req'[s] = req[s]
           /\ used.overlaps \in Nat /\ used'.overlaps \in Nat /\ used.overlaps <= used'.overlaps
           /\ Calls(r) \/ Goes(r) \/ Die(r)
<1>0. used.overlaps \in Nat /\ used \in [events : 0..MaxEvents, overlaps : 0..MaxOverlaps,
                                        faults : 0..MaxFaults, overrides : 0..MaxOverrides]
  BY StorefrontAssumption DEF TypeInv, UsedOK
<1>1. CASE Calls(r)
  BY <1>0, <1>1, CallDoes DEF Calls, Slot
<1>2. CASE Goes(r)
  BY <1>0, <1>2, CallDoes DEF Goes, Slot
<1>3. CASE Die(r)
  <2>1. used'.overlaps = used.overlaps
    BY <1>0, <1>3 DEF Die
  <2> QED
    BY <1>0, <1>3, <2>1, CallDoes DEF Die, Slot
<1> QED
  BY <1>1, <1>2, <1>3, BeginCalls, RunGoes DEF Moves

\* Every request that runs beside another has been counted.
LEMMA RunnersStep ==
    ASSUME TypeInv, NEW r \in Requests, Moves(r), AtMost(Runners, 1 + used.overlaps)
    PROVE  AtMost(Runners', 1 + used'.overlaps)
<1>0. /\ \A s \in Requests : s # r => req'[s] = req[s]
      /\ used.overlaps \in Nat /\ used'.overlaps \in Nat /\ used.overlaps <= used'.overlaps
      /\ 1 + used.overlaps \in Nat /\ 1 + used'.overlaps \in Nat
      /\ 1 + used.overlaps <= 1 + used'.overlaps
  BY MovesCount
<1>1. CASE Calls(r) /\ ~Overlaps(r)
  <2>1. Runners' \subseteq {r}
    BY <1>0, <1>1 DEF Runners, Running, Overlaps
  <2>2. AtMost({r}, 1)
    BY FS_Singleton DEF AtMost
  <2> HIDE DEF Runners
  <2> QED
    BY <1>0, <2>1, <2>2, AtMostFewer
<1>2. CASE Calls(r) /\ Overlaps(r)
  <2>1. Runners' \subseteq Runners \cup {r} /\ 1 + used'.overlaps = (1 + used.overlaps) + 1
    BY <1>0, <1>2 DEF Runners, Running, Calls
  <2> HIDE DEF Runners
  <2> QED
    BY <1>0, <2>1, AtMostOneMore
<1>3. CASE Goes(r) \/ Die(r)
  <2>1. Runners' \subseteq Runners
    BY <1>0, <1>3 DEF Runners, Running, Goes, Die
  <2> HIDE DEF Runners
  <2> QED
    BY <1>0, <2>1, AtMostFewer
<1> QED
  BY <1>1, <1>2, <1>3, MovesCount

\* One step of one request, as far as the rows of one kind go: no row or claim appears; a
\* call claims what it found; a handler writes what it claimed.
LEMMA ClaimsMove ==
    ASSUME TypeInv, NEW r \in Requests, Moves(r), AtMost(Runners, 1 + used.overlaps),
           NEW found, NEW callers, NEW more, NEW others,
           AtMost(Claims(found, callers, req), 1 + used.overlaps),
           others \subseteq callers \cup {r}, others \subseteq Runners',
           \/ more \subseteq found /\ r \notin others
           \/ more \subseteq found /\ r \in callers /\ req'[r] = req[r]
           \/ more \subseteq found /\ req'[r].id = 0 /\ found = {}
           \/ more \subseteq found /\ req'[r].id # 0 /\ req'[r].id \in found
           \/ /\ r \in callers /\ r \notin others
              /\ \E k : req[r].id = 0 /\ more \subseteq found \cup {k}
           \/ /\ r \in callers /\ r \notin others
              /\ req[r].id # 0 /\ more \subseteq found \cup {req[r].id}
    PROVE  AtMost(Claims(more, others, req'), 1 + used'.overlaps)
<1> DEFINE n == 1 + used.overlaps
           m == 1 + used'.overlaps
<1>1. n \in Nat /\ m \in Nat /\ n <= m
  BY MovesCount
<1>2. AtMost(Runners', m)
  BY RunnersStep
<1>3. \A s \in others \ {r} : req'[s] = req[s]
  BY MovesCount DEF Runners
<1>4. AtMost(Claims(found, callers, req), n)
  OBVIOUS
<1>5. SUFFICES AtMost(Claims(more, others, req'), m)
  OBVIOUS
<1> HIDE DEF Runners, Claims, AtMost, n, m
<1>6. CASE more \subseteq found /\ (r \notin others \/ (r \in callers /\ req'[r] = req[r]))
  <2>1. others \subseteq callers /\ \A s \in others : req'[s] = req[s]
    BY <1>3, <1>6
  <2> QED
    BY <1>1, <1>4, <1>6, <2>1, ClaimsLast
<1>7. CASE more \subseteq found /\ req'[r].id = 0 /\ found = {}
  <2>1. more = {}
    BY <1>7
  <2> QED
    BY <1>1, <1>2, <2>1, ClaimsOfRunners
<1>8. CASE more \subseteq found /\ req'[r].id # 0 /\ req'[r].id \in found
  <2>1. AtMost(Claims(found, others, req'), m)
    BY <1>1, <1>3, <1>4, <1>8, ClaimsFound, SMTT(30)
  <2>2. Claims(more, others, req') \subseteq Claims(found, others, req')
    BY <1>8 DEF Claims
  <2> QED
    BY <1>1, <2>1, <2>2, AtMostFewer
<1>9. ASSUME r \in callers, r \notin others, NEW k, req[r].id = 0, more \subseteq found \cup {k}
      PROVE  AtMost(Claims(more, others, req'), m)
  <2>1. others \subseteq callers \ {r} /\ \A s \in others : req'[s] = req[s]
    BY <1>3, <1>9
  <2> DEFINE S == Claims(found, callers, req)
             x == <<"new", r>>
             y == <<"row", k>>
             T == Claims(more, others, req')
  <2>2. x \in S /\ T \subseteq (S \ {x}) \cup {y}
    <3>1. x \in S
      BY <1>9 DEF Claims, ClaimOf
    <3>2. \A s \in others : ClaimOf(req'[s], s) \in S \ {x}
      BY <2>1 DEF Claims, ClaimOf
    <3>3. \A i \in more : i = k \/ <<"row", i>> \in S \ {x}
      BY <1>9 DEF Claims
    <3> QED
      BY <3>1, <3>2, <3>3 DEF Claims
  <2>3. AtMost(S, n)
    BY <1>4
  <2> HIDE DEF S, T, x, y
  <2>4. AtMost(T, n)
    BY <1>1, <2>2, <2>3, AtMostSwap, SMTT(30)
  <2> QED
    BY <1>1, <2>4, AtMostFewer DEF T
<1>10. CASE r \in callers /\ r \notin others /\ req[r].id # 0 /\ more \subseteq found \cup {req[r].id}
  <2>1. others \subseteq callers \ {r} /\ \A s \in others : req'[s] = req[s]
    BY <1>3, <1>10
  <2>2. AtMost(Claims(more, others, req'), n)
    BY <1>1, <1>4, <1>10, <2>1, ClaimsWritten
  <2> QED
    BY <1>1, <2>2, AtMostFewer
<1> QED
  BY <1>6, <1>7, <1>8, <1>9, <1>10

-----------------------------------------------------------------------------
(* Reviews, names, coupons, browsers and uses of a coupon are single *)

\* Whoever is at a statement is running.
LEMMA AtRuns ==
    ASSUME NEW r \in Requests, req[r].pc # "idle"
    PROVE  Running(r)
  BY DEF Running, Idle

\* Callers do not become more, but for the request that moves; all of them run.
LEMMA CallersMove ==
    ASSUME TypeInv, NEW r \in Requests, Moves(r)
    PROVE  /\ \A b, p : ReviewCallers(b, p)' \subseteq ReviewCallers(b, p) \cup {r}
                        /\ ReviewCallers(b, p)' \subseteq Runners'
           /\ \A b, s : StoreReviewCallers(b, s)' \subseteq StoreReviewCallers(b, s) \cup {r}
                        /\ StoreReviewCallers(b, s)' \subseteq Runners'
           /\ \A n : NameCallers(n)' \subseteq NameCallers(n) \cup {r}
                     /\ NameCallers(n)' \subseteq Runners'
           /\ \A c : CouponCallers(c)' \subseteq CouponCallers(c) \cup {r}
                     /\ CouponCallers(c)' \subseteq Runners'
           /\ \A e : PushCallers(e)' \subseteq PushCallers(e) \cup {r}
                     /\ PushCallers(e)' \subseteq Runners'
           /\ \A b, code : UseCallers(b, code)' \subseteq UseCallers(b, code) \cup {r}
                           /\ UseCallers(b, code)' \subseteq Runners'
<1>1. \A s \in Requests : s # r => req'[s] = req[s]
  BY MovesCount
<1>2. \A s \in Requests : req'[s].pc # "idle" => s \in Runners'
  BY DEF Runners, Running, Idle
<1>3. \A b, p : ReviewCallers(b, p)' \subseteq ReviewCallers(b, p) \cup {r}
                        /\ ReviewCallers(b, p)' \subseteq Runners'
  BY <1>1, <1>2 DEF ReviewCallers, ReviewCaller
<1>4. \A b, s : StoreReviewCallers(b, s)' \subseteq StoreReviewCallers(b, s) \cup {r}
                        /\ StoreReviewCallers(b, s)' \subseteq Runners'
  BY <1>1, <1>2 DEF StoreReviewCallers, StoreReviewCaller
<1>5. \A n : NameCallers(n)' \subseteq NameCallers(n) \cup {r} /\ NameCallers(n)' \subseteq Runners'
  BY <1>1, <1>2 DEF NameCallers, NameCaller
<1>6. \A c : CouponCallers(c)' \subseteq CouponCallers(c) \cup {r}
             /\ CouponCallers(c)' \subseteq Runners'
  BY <1>1, <1>2 DEF CouponCallers, CouponCaller
<1>7. \A e : PushCallers(e)' \subseteq PushCallers(e) \cup {r} /\ PushCallers(e)' \subseteq Runners'
  BY <1>1, <1>2 DEF PushCallers, PushCaller
<1>8. \A b, code : UseCallers(b, code)' \subseteq UseCallers(b, code) \cup {r}
                   /\ UseCallers(b, code)' \subseteq Runners'
  BY <1>1, <1>2 DEF UseCallers, UseCaller
<1> QED
  BY <1>3, <1>4, <1>5, <1>6, <1>7, <1>8

\* Deleting reviews, and changing their photos, adds none to those that are there.
LEMMA ReviewsFewer ==
    ASSUME TypeInv, NEW r \in Requests, Moves(r), ~SaveReview(r), NEW b, NEW p
    PROVE  ReviewsBy(b, p)' \subseteq ReviewsBy(b, p)
<1>1. reviews \in Seq(ReviewRow)
  BY DEF TypeInv, TablesOK, CatalogueOK
<1>2. CASE reviews' = reviews
  BY <1>2 DEF ReviewsBy, ReviewsOf
<1>3. ASSUME NEW gone, reviews' = WithoutReviews(gone)
      PROVE  ReviewsBy(b, p)' \subseteq ReviewsBy(b, p)
  <2> SUFFICES ASSUME NEW k \in ReviewsBy(b, p)'
               PROVE  k \in ReviewsBy(b, p)
    OBVIOUS
  <2>1. /\ k \in DOMAIN reviews /\ reviews'[k].here /\ reviews'[k].product = p
        /\ reviews'[k].buyer = b
    BY <1>3 DEF ReviewsBy, ReviewsOf, WithoutReviews
  <2>2. reviews[k] \in ReviewRow
    BY <1>1, <2>1
  <2>3. reviews'[k] = reviews[k]
    BY <1>3, <2>1, <2>2 DEF WithoutReviews, ReviewRow
  <2> QED
    BY <2>1, <2>3 DEF ReviewsBy, ReviewsOf
<1>4. ASSUME NEW k \in DOMAIN reviews, NEW photos, reviews' = [reviews EXCEPT ![k].images = photos]
      PROVE  ReviewsBy(b, p)' \subseteq ReviewsBy(b, p)
  <2>1. /\ DOMAIN reviews' = DOMAIN reviews
        /\ \A i \in DOMAIN reviews : /\ reviews'[i].here = reviews[i].here
                                     /\ reviews'[i].product = reviews[i].product
                                     /\ reviews'[i].buyer = reviews[i].buyer
    <3>1. \A i \in DOMAIN reviews : reviews[i] \in ReviewRow
      BY <1>1
    <3> QED
      BY <1>1, <1>4, <3>1 DEF ReviewRow
  <2> QED
    BY <2>1 DEF ReviewsBy, ReviewsOf
<1>5. CASE DeleteRows(r) \/ EraseStore(r)
  BY <1>2, <1>3, <1>5 DEF DeleteRows, EraseStore, catalogue
<1>6. CASE ClearPhotos(r) \/ InsertPhotos(r)
  <2>1. req[r].id \in DOMAIN reviews
    BY <1>6 DEF ClearPhotos, InsertPhotos, TypeInv, RequestsHold, Holding, HoldsRow, Sizes,
                TablesOK, CatalogueOK
  <2>2. ClearPhotos(r) => reviews' = [reviews EXCEPT ![req[r].id].images = {}]
    BY DEF ClearPhotos
  <2>3. InsertPhotos(r) =>
          reviews' = [reviews EXCEPT ![req[r].id].images =
                        IF reviews[req[r].id].here THEN @ \cup {req[r].call} ELSE @]
    BY DEF InsertPhotos
  <2> QED
    BY <1>4, <1>6, <2>1, <2>2, <2>3
<1> QED
  BY <1>2, <1>5, <1>6, CallTouches, RunTouches DEF Moves

\* Reviews of a product by a buyer, and those about to be saved, stay few.
LEMMA ReviewsMove ==
    ASSUME TypeInv, NEW r \in Requests, Moves(r), AtMost(Runners, 1 + used.overlaps),
           NEW b \in Buyers, NEW p \in Products,
           AtMost(Claims(ReviewsBy(b, p), ReviewCallers(b, p), req), 1 + used.overlaps)
    PROVE  AtMost(Claims(ReviewsBy(b, p), ReviewCallers(b, p), req)', 1 + used'.overlaps)
<1> DEFINE found == ReviewsBy(b, p)
           callers == ReviewCallers(b, p)
<1>1. /\ callers' \subseteq callers \cup {r} /\ callers' \subseteq Runners'
  BY CallersMove
<1>2. \/ found' \subseteq found /\ r \notin callers'
      \/ found' \subseteq found /\ req'[r].id = 0 /\ found = {}
      \/ found' \subseteq found /\ req'[r].id # 0 /\ req'[r].id \in found
      \/ /\ r \in callers /\ r \notin callers'
         /\ \E k : req[r].id = 0 /\ found' \subseteq found \cup {k}
      \/ /\ r \in callers /\ r \notin callers'
         /\ req[r].id # 0 /\ found' \subseteq found \cup {req[r].id}
  <2>1. CASE r \in callers'
    <3>1. req'[r].pc \in {"saveReview", "saveWithPhotos"} /\ req'[r].buyer = b /\ req'[r].product = p
      BY <2>1 DEF ReviewCallers, ReviewCaller
    <3>2. PICK u \in Buyers, x \in Products, photos \in BOOLEAN :
            Free(r) /\ BeginReview(r, u, x, photos)
      BY <3>1, Entering
    <3>3. u = b /\ x = p /\ req'[r].id \in Found(ReviewsBy(b, p))
      BY <3>1, <3>2, ReviewCalled
    <3>4. ~SaveReview(r)
      BY <3>2 DEF SaveReview, Free, Running, Idle
    <3>5. found' \subseteq found
      BY <3>4, ReviewsFewer
    <3>6. \A k \in found : k # 0
      BY DEF ReviewsBy, ReviewsOf, TypeInv, TablesOK, CatalogueOK
    <3> QED
      BY <3>3, <3>5, <3>6 DEF Found
  <2>2. CASE r \notin callers' /\ ~SaveReview(r)
    BY <2>2, ReviewsFewer
  <2>3. CASE r \notin callers' /\ SaveReview(r)
    <3> DEFINE q == req[r]
               k == IF q.id = 0 THEN Len(reviews) + 1 ELSE q.id
               row == [buyer |-> q.buyer, product |-> q.product, order |-> q.num, here |-> TRUE,
                       images |-> q.list]
    <3>1. /\ q.pc \in {"saveReview", "saveWithPhotos"}
          /\ \/ reviews' = reviews
             \/ reviews' = IF q.id = 0 THEN Append(reviews, row) ELSE [reviews EXCEPT ![k] = row]
      BY <2>3 DEF SaveReview
    <3>2. reviews \in Seq(ReviewRow) /\ q.id \in 0..Len(reviews)
      BY <3>1 DEF TypeInv, TablesOK, CatalogueOK, RequestsHold, Holding, HoldsRow, Sizes
    <3>3. \A i \in DOMAIN reviews' : i # k => i \in DOMAIN reviews /\ reviews'[i] = reviews[i]
      BY <3>1, <3>2
    <3>4. found' \subseteq found \cup {k}
      BY <3>3 DEF ReviewsBy, ReviewsOf
    <3>5. k \in DOMAIN reviews' => reviews'[k] = row \/ reviews' = reviews
      BY <3>1, <3>2
    <3>6. r \notin callers => found' \subseteq found
      BY <3>1, <3>4, <3>5 DEF ReviewsBy, ReviewsOf, ReviewCallers, ReviewCaller
    <3> QED
      BY <2>3, <3>4, <3>6
  <2> QED
    BY <2>1, <2>2, <2>3
<1> HIDE DEF found, callers
<1>3. AtMost(Claims(found, callers, req), 1 + used.overlaps)
  BY DEF found, callers
<1>4. AtMost(Claims(found', callers', req'), 1 + used'.overlaps)
  BY <1>1, <1>2, <1>3, ClaimsMove
<1> QED
  BY <1>4 DEF found, callers, Claims

\* Store reviews that are deleted or stay as they are.
LEMMA StoreReviewsFewer ==
    ASSUME TypeInv, NEW r \in Requests, Moves(r), ~SaveStoreReview(r), NEW b, NEW s
    PROVE  StoreReviewsBy(b, s)' \subseteq StoreReviewsBy(b, s)
<1>1. storeReviews \in Seq(StoreReviewRow)
  BY DEF TypeInv, TablesOK, CatalogueOK
<1>2. CASE storeReviews' = storeReviews
  BY <1>2 DEF StoreReviewsBy
<1>3. ASSUME NEW x, storeReviews' = [k \in DOMAIN storeReviews |->
                      IF storeReviews[k].store = x THEN [storeReviews[k] EXCEPT !.here = FALSE]
                      ELSE storeReviews[k]]
      PROVE  StoreReviewsBy(b, s)' \subseteq StoreReviewsBy(b, s)
  <2> SUFFICES ASSUME NEW k \in StoreReviewsBy(b, s)'
               PROVE  k \in StoreReviewsBy(b, s)
    OBVIOUS
  <2>1. k \in DOMAIN storeReviews /\ storeReviews'[k].here
        /\ storeReviews'[k].buyer = b /\ storeReviews'[k].store = s
    BY <1>3 DEF StoreReviewsBy
  <2>2. storeReviews[k] \in StoreReviewRow
    BY <1>1, <2>1
  <2>3. storeReviews'[k] = storeReviews[k]
    BY <1>3, <2>1, <2>2 DEF StoreReviewRow
  <2> QED
    BY <2>1, <2>3 DEF StoreReviewsBy
<1>4. CASE EraseStore(r)
  BY <1>2, <1>3, <1>4 DEF EraseStore, catalogue
<1> QED
  BY <1>2, <1>4, CallTouches, RunTouches DEF Moves

\* So do reviews of a store by a buyer.
LEMMA StoreReviewsMove ==
    ASSUME TypeInv, NEW r \in Requests, Moves(r), AtMost(Runners, 1 + used.overlaps),
           NEW b \in Buyers, NEW s \in Stores,
           AtMost(Claims(StoreReviewsBy(b, s), StoreReviewCallers(b, s), req), 1 + used.overlaps)
    PROVE  AtMost(Claims(StoreReviewsBy(b, s), StoreReviewCallers(b, s), req)', 1 + used'.overlaps)
<1> DEFINE found == StoreReviewsBy(b, s)
           callers == StoreReviewCallers(b, s)
<1>1. /\ callers' \subseteq callers \cup {r} /\ callers' \subseteq Runners'
  BY CallersMove
<1>2. \/ found' \subseteq found /\ r \notin callers'
      \/ found' \subseteq found /\ req'[r].id = 0 /\ found = {}
      \/ found' \subseteq found /\ req'[r].id # 0 /\ req'[r].id \in found
      \/ /\ r \in callers /\ r \notin callers'
         /\ \E k : req[r].id = 0 /\ found' \subseteq found \cup {k}
      \/ /\ r \in callers /\ r \notin callers'
         /\ req[r].id # 0 /\ found' \subseteq found \cup {req[r].id}
  <2>1. CASE r \in callers'
    <3>1. req'[r].pc = "saveStoreReview" /\ req'[r].buyer = b /\ req'[r].store = s
      BY <2>1 DEF StoreReviewCallers, StoreReviewCaller
    <3>2. PICK u \in Buyers, x \in Stores : Free(r) /\ BeginStoreReview(r, u, x)
      BY <3>1, Entering
    <3>3. u = b /\ x = s /\ req'[r].id \in Found(StoreReviewsBy(b, s))
      BY <3>1, <3>2, StoreReviewCalled
    <3>4. ~SaveStoreReview(r)
      BY <3>2 DEF SaveStoreReview, Free, Running, Idle
    <3>5. found' \subseteq found
      BY <3>4, StoreReviewsFewer
    <3>6. \A k \in found : k # 0
      BY DEF StoreReviewsBy, TypeInv, TablesOK, CatalogueOK
    <3> QED
      BY <3>3, <3>5, <3>6 DEF Found
  <2>2. CASE r \notin callers' /\ ~SaveStoreReview(r)
    BY <2>2, StoreReviewsFewer
  <2>3. CASE r \notin callers' /\ SaveStoreReview(r)
    <3> DEFINE q == req[r]
               k == IF q.id = 0 THEN Len(storeReviews) + 1 ELSE q.id
               row == [buyer |-> q.buyer, store |-> q.store, order |-> q.num, here |-> TRUE]
    <3>1. /\ q.pc = "saveStoreReview"
          /\ \/ storeReviews' = storeReviews
             \/ q.id = 0 /\ storeReviews' = Append(storeReviews, row)
             \/ q.id # 0 /\ storeReviews' = [storeReviews EXCEPT ![k] = row]
      BY <2>3 DEF SaveStoreReview
    <3>2. storeReviews \in Seq(StoreReviewRow) /\ q.id \in 0..Len(storeReviews)
      BY <3>1 DEF TypeInv, TablesOK, CatalogueOK, RequestsHold, Holding, HoldsRow, Sizes
    <3>3. \A i \in DOMAIN storeReviews' :
            i # k => i \in DOMAIN storeReviews /\ storeReviews'[i] = storeReviews[i]
      BY <3>1, <3>2
    <3>4. found' \subseteq found \cup {k}
      BY <3>3 DEF StoreReviewsBy
    <3>5. k \in DOMAIN storeReviews' => storeReviews'[k] = row \/ storeReviews' = storeReviews
      BY <3>1, <3>2
    <3>6. r \notin callers => found' \subseteq found
      BY <3>1, <3>4, <3>5 DEF StoreReviewsBy, StoreReviewCallers, StoreReviewCaller
    <3> QED
      BY <2>3, <3>4, <3>6
  <2> QED
    BY <2>1, <2>2, <2>3
<1> HIDE DEF found, callers
<1>3. AtMost(Claims(found, callers, req), 1 + used.overlaps)
  BY DEF found, callers
<1>4. AtMost(Claims(found', callers', req'), 1 + used'.overlaps)
  BY <1>1, <1>2, <1>3, ClaimsMove
<1> QED
  BY <1>4 DEF found, callers, Claims

\* A name is taken when it is inserted, and only then.
LEMMA NamesFewer ==
    ASSUME TypeInv, NEW r \in Requests, Moves(r)
    PROVE  \/ \A m \in Names : There(m)' => There(m)
           \/ /\ InsertName(r) /\ req'[r] = Idle
              /\ \A m \in Names : There(m)' => There(m) \/ m = req[r].key
              /\ (IsCategory(req[r].key) /\ OwnerOf[req[r].key] # "none"
                    => SameName(req[r].key) = {})
<1>0. named \in [Names -> NameState]
  BY DEF TypeInv, TablesOK, CatalogueOK
<1>1. CASE named' = named
  BY <1>1 DEF There
<1>2. ASSUME NEW n \in Names, RemoveMenu(r, n)
      PROVE  \A m \in Names : There(m)' => There(m)
  BY <1>0, <1>2 DEF RemoveMenu, There
<1>3. CASE SaveName(r)
  BY <1>0, <1>3 DEF SaveName, There
<1>4. CASE EraseStore(r)
  BY <1>0, <1>1, <1>4 DEF EraseStore, There, catalogue
<1>5. CASE InsertName(r)
  <2>1. req'[r] = Idle
    BY <1>5, StepDoes DEF InsertName, Return, Goto
  <2> QED
    BY <1>0, <1>5, <2>1 DEF InsertName, There
<1> QED
  BY <1>1, <1>2, <1>3, <1>4, <1>5, CallTouches, RunTouches DEF Moves

\* So do names of one kind and owner.
LEMMA NamesMove ==
    ASSUME TypeInv, NEW r \in Requests, Moves(r), AtMost(Runners, 1 + used.overlaps),
           FindsNothing(req[r]), NEW n \in Names, KindOf[n] # "menu",
           AtMost(Claims(SameName(n), NameCallers(n), req), 1 + used.overlaps)
    PROVE  AtMost(Claims(SameName(n), NameCallers(n), req)', 1 + used'.overlaps)
<1> DEFINE found == SameName(n)
           callers == NameCallers(n)
<1>1. /\ callers' \subseteq callers \cup {r} /\ callers' \subseteq Runners'
  BY CallersMove
<1>2. \/ found' \subseteq found /\ r \notin callers'
      \/ found' \subseteq found /\ req'[r].id = 0 /\ found = {}
      \/ found' \subseteq found /\ req'[r].id # 0 /\ req'[r].id \in found
      \/ /\ r \in callers /\ r \notin callers'
         /\ \E k : req[r].id = 0 /\ found' \subseteq found \cup {k}
      \/ /\ r \in callers /\ r \notin callers'
         /\ req[r].id # 0 /\ found' \subseteq found \cup {req[r].id}
  <2>1. CASE r \in callers'
    <3>1. /\ req'[r].pc = "insertName" /\ KindOf[req'[r].key] = KindOf[n]
          /\ OwnerOf[req'[r].key] = OwnerOf[n]
      BY <2>1 DEF NameCallers, NameCaller
    <3>2. PICK m \in Names : Free(r) /\ BeginCreateName(r, m)
      BY <3>1, Entering
    <3>3. req'[r].key = m /\ req'[r].id = 0 /\ SameName(m) = {}
      BY <3>1, <3>2, NameCalled DEF BeginCreateName
    <3>4. found = {}
      BY <3>1, <3>3 DEF SameName
    <3>5. ~InsertName(r)
      BY <3>2 DEF InsertName, Free, Running, Idle
    <3>6. found' \subseteq found
      BY <3>5, NamesFewer DEF SameName
    <3> QED
      BY <3>3, <3>4, <3>6
  <2>2. CASE r \notin callers'
    <3>1. CASE InsertName(r)
      <4>1. found' \subseteq found \cup {req[r].key} /\ (r \notin callers => found' \subseteq found)
        BY <3>1, NamesFewer DEF SameName, NameCallers, NameCaller, InsertName
      <4>2. req[r].id = 0
        BY <3>1 DEF FindsNothing, InsertName
      <4> QED
        BY <2>2, <4>1, <4>2
    <3>2. CASE ~InsertName(r)
      BY <2>2, <3>2, NamesFewer DEF SameName
    <3> QED
      BY <3>1, <3>2
  <2> QED
    BY <2>1, <2>2
<1> HIDE DEF found, callers
<1>3. AtMost(Claims(found, callers, req), 1 + used.overlaps)
  BY DEF found, callers
<1>4. AtMost(Claims(found', callers', req'), 1 + used'.overlaps)
  BY <1>1, <1>2, <1>3, ClaimsMove
<1> QED
  BY <1>4 DEF found, callers, Claims

\* A coupon is live when it is inserted, and only then.
LEMMA CouponsFewer ==
    ASSUME TypeInv, NEW r \in Requests, Moves(r)
    PROVE  \/ \A d \in Coupons : coupon'[d].state = "LIVE" => coupon[d].state = "LIVE"
           \/ /\ InsertCoupon(r) /\ req'[r] = Idle
              /\ \A d \in Coupons :
                   coupon'[d].state = "LIVE" => coupon[d].state = "LIVE" \/ d = req[r].key
              /\ (CouponStore[req[r].key] # "none" => Twins(req[r].key) = {})
<1>0. coupon \in [Coupons -> CouponRow]
  BY DEF TypeInv, TablesOK, PromotionsOK
<1>1. CASE coupon' = coupon
  BY <1>1
<1>2. ASSUME NEW c \in Coupons, RemoveCoupon(r, c)
      PROVE  \A d \in Coupons : coupon'[d].state = "LIVE" => coupon[d].state = "LIVE"
  BY <1>0, <1>2 DEF RemoveCoupon, CouponRow
<1>3. CASE Increment(r)
  <2>1. \A d \in Coupons : coupon[d] \in CouponRow
    BY <1>0
  <2> QED
    BY <1>0, <1>3, <2>1 DEF Increment, CouponRow
<1>4. CASE InsertCoupon(r)
  <2>1. req'[r] = Idle
    BY <1>4, StepDoes DEF InsertCoupon, Return, Goto
  <2>2. \A d \in Coupons : d # req[r].key => coupon'[d] = coupon[d]
    BY <1>0, <1>4 DEF InsertCoupon
  <2> QED
    BY <1>1, <1>4, <2>1, <2>2 DEF InsertCoupon
<1> QED
  BY <1>1, <1>2, <1>3, <1>4, CallTouches, RunTouches DEF Moves

\* So do coupons of one code and store.
LEMMA CouponsMove ==
    ASSUME TypeInv, NEW r \in Requests, Moves(r), AtMost(Runners, 1 + used.overlaps),
           FindsNothing(req[r]), NEW c \in Coupons,
           AtMost(Claims(Twins(c), CouponCallers(c), req), 1 + used.overlaps)
    PROVE  AtMost(Claims(Twins(c), CouponCallers(c), req)', 1 + used'.overlaps)
<1> DEFINE found == Twins(c)
           callers == CouponCallers(c)
<1>1. /\ callers' \subseteq callers \cup {r} /\ callers' \subseteq Runners'
  BY CallersMove
<1>2. \/ found' \subseteq found /\ r \notin callers'
      \/ found' \subseteq found /\ req'[r].id = 0 /\ found = {}
      \/ found' \subseteq found /\ req'[r].id # 0 /\ req'[r].id \in found
      \/ /\ r \in callers /\ r \notin callers'
         /\ \E k : req[r].id = 0 /\ found' \subseteq found \cup {k}
      \/ /\ r \in callers /\ r \notin callers'
         /\ req[r].id # 0 /\ found' \subseteq found \cup {req[r].id}
  <2>1. CASE r \in callers'
    <3>1. /\ req'[r].pc = "insertCoupon" /\ CodeOf[req'[r].key] = CodeOf[c]
          /\ CouponStore[req'[r].key] = CouponStore[c]
      BY <2>1 DEF CouponCallers, CouponCaller
    <3>2. PICK d \in Coupons : Free(r) /\ BeginCreateCoupon(r, d)
      BY <3>1, Entering
    <3>3. req'[r].key = d /\ req'[r].id = 0 /\ Twins(d) = {}
      BY <3>1, <3>2, CouponCalled DEF BeginCreateCoupon
    <3>4. found = {}
      BY <3>1, <3>3 DEF Twins
    <3>5. ~InsertCoupon(r)
      BY <3>2 DEF InsertCoupon, Free, Running, Idle
    <3>6. found' \subseteq found
      BY <3>5, CouponsFewer DEF Twins
    <3> QED
      BY <3>3, <3>4, <3>6
  <2>2. CASE r \notin callers'
    <3>1. CASE InsertCoupon(r)
      <4>1. found' \subseteq found \cup {req[r].key} /\ (r \notin callers => found' \subseteq found)
        BY <3>1, CouponsFewer DEF Twins, CouponCallers, CouponCaller, InsertCoupon
      <4>2. req[r].id = 0
        BY <3>1 DEF FindsNothing, InsertCoupon
      <4> QED
        BY <2>2, <4>1, <4>2
    <3>2. CASE ~InsertCoupon(r)
      BY <2>2, <3>2, CouponsFewer DEF Twins
    <3> QED
      BY <3>1, <3>2
  <2> QED
    BY <2>1, <2>2
<1> HIDE DEF found, callers
<1>3. AtMost(Claims(found, callers, req), 1 + used.overlaps)
  BY DEF found, callers
<1>4. AtMost(Claims(found', callers', req'), 1 + used'.overlaps)
  BY <1>1, <1>2, <1>3, ClaimsMove
<1> QED
  BY <1>4 DEF found, callers, Claims

\* The rows of a browser are saved by whoever found one, or none.
LEMMA BrowsersFewer ==
    ASSUME TypeInv, NEW r \in Requests, Moves(r), ~SavePush(r), NEW e
    PROVE  RowsOf(e)' \subseteq RowsOf(e)
<1>0. push \in Seq(PushRow)
  BY DEF TypeInv, TablesOK, LiveOK
<1>1. CASE push' = push
  BY <1>1 DEF RowsOf
<1>2. ASSUME NEW gone, push' = [k \in DOMAIN push |-> IF k \in gone
                                THEN [push[k] EXCEPT !.here = FALSE] ELSE push[k]]
      PROVE  RowsOf(e)' \subseteq RowsOf(e)
  <2> SUFFICES ASSUME NEW k \in RowsOf(e)'
               PROVE  k \in RowsOf(e)
    OBVIOUS
  <2>1. k \in DOMAIN push /\ push'[k].here /\ push'[k].endpoint = e
    BY <1>2 DEF RowsOf
  <2>2. push[k] \in PushRow
    BY <1>0, <2>1
  <2>3. push'[k] = push[k]
    BY <1>2, <2>1, <2>2 DEF PushRow
  <2> QED
    BY <2>1, <2>3 DEF RowsOf
<1>3. ASSUME NEW d \in Endpoints, Unsubscribe(r, d)
      PROVE  RowsOf(e)' \subseteq RowsOf(e)
  BY <1>2, <1>3 DEF Unsubscribe
<1>4. CASE Drop(r)
  <2>1. push' = [push EXCEPT ![req[r].id].here = FALSE]
    BY <1>4 DEF Drop
  <2>2. push' = [k \in DOMAIN push |-> IF k \in {req[r].id}
                                THEN [push[k] EXCEPT !.here = FALSE] ELSE push[k]]
    BY <1>0, <2>1
  <2> QED
    BY <1>2, <2>2
<1> QED
  BY <1>1, <1>3, <1>4, CallTouches, RunTouches DEF Moves

\* So do the rows of a browser.
LEMMA BrowsersMove ==
    ASSUME TypeInv, NEW r \in Requests, Moves(r), AtMost(Runners, 1 + used.overlaps),
           NEW e \in Endpoints, AtMost(Claims(RowsOf(e), PushCallers(e), req), 1 + used.overlaps)
    PROVE  AtMost(Claims(RowsOf(e), PushCallers(e), req)', 1 + used'.overlaps)
<1> DEFINE found == RowsOf(e)
           callers == PushCallers(e)
<1>1. /\ callers' \subseteq callers \cup {r} /\ callers' \subseteq Runners'
  BY CallersMove
<1>2. \/ found' \subseteq found /\ r \notin callers'
      \/ found' \subseteq found /\ req'[r].id = 0 /\ found = {}
      \/ found' \subseteq found /\ req'[r].id # 0 /\ req'[r].id \in found
      \/ /\ r \in callers /\ r \notin callers'
         /\ \E k : req[r].id = 0 /\ found' \subseteq found \cup {k}
      \/ /\ r \in callers /\ r \notin callers'
         /\ req[r].id # 0 /\ found' \subseteq found \cup {req[r].id}
  <2>1. CASE r \in callers'
    <3>1. req'[r].pc = "savePush" /\ req'[r].key = e
      BY <2>1 DEF PushCallers, PushCaller
    <3>2. PICK d \in Endpoints, u \in Buyers : Free(r) /\ BeginSubscribe(r, d, u)
      BY <3>1, Entering
    <3>3. req'[r].id \in IF found = {} THEN {0} ELSE found
      BY <3>1, <3>2, BrowserCalled
    <3>4. ~SavePush(r)
      BY <3>2 DEF SavePush, Free, Running, Idle
    <3>5. found' \subseteq found
      BY <3>4, BrowsersFewer
    <3>6. \A k \in found : k # 0
      BY DEF RowsOf, TypeInv, TablesOK, LiveOK
    <3> QED
      BY <3>3, <3>5, <3>6
  <2>2. CASE r \notin callers' /\ ~SavePush(r)
    BY <2>2, BrowsersFewer
  <2>3. CASE r \notin callers' /\ SavePush(r)
    <3> DEFINE q == req[r]
               k == IF q.id = 0 THEN Len(push) + 1 ELSE q.id
               row == [endpoint |-> q.key, user |-> q.buyer, here |-> TRUE]
    <3>1. /\ q.pc = "savePush"
          /\ push' = IF q.id = 0 THEN Append(push, row) ELSE [push EXCEPT ![k] = row]
      BY <2>3 DEF SavePush
    <3>2. push \in Seq(PushRow) /\ q.id \in 0..Len(push)
      BY <3>1 DEF TypeInv, TablesOK, LiveOK, RequestsHold, Holding, HoldsRow, Sizes
    <3>3. \A i \in DOMAIN push' : i # k => i \in DOMAIN push /\ push'[i] = push[i]
      BY <3>1, <3>2
    <3>4. found' \subseteq found \cup {k}
      BY <3>3 DEF RowsOf
    <3>5. k \in DOMAIN push' => push'[k] = row
      BY <3>1, <3>2
    <3>6. r \notin callers => found' \subseteq found
      BY <3>1, <3>4, <3>5 DEF RowsOf, PushCallers, PushCaller
    <3> QED
      BY <2>3, <3>4, <3>6
  <2> QED
    BY <2>1, <2>2, <2>3
<1> HIDE DEF found, callers
<1>3. AtMost(Claims(found, callers, req), 1 + used.overlaps)
  BY DEF found, callers
<1>4. AtMost(Claims(found', callers', req'), 1 + used'.overlaps)
  BY <1>1, <1>2, <1>3, ClaimsMove
<1> QED
  BY <1>4 DEF found, callers, Claims

\* Orders are placed one by one; those that are there can only be cancelled.
LEMMA UsesFewer ==
    ASSUME TypeInv, NEW r \in Requests, Moves(r), ~PlaceOrder(r), NEW b, NEW code
    PROVE  UsesBy(b, code)' \subseteq UsesBy(b, code)
<1>1. CASE order' = order
  BY <1>1 DEF UsesBy, Orders
<1>2. ASSUME NEW o \in Orders, Progress(r, o)
      PROVE  UsesBy(b, code)' \subseteq UsesBy(b, code)
  <2>1. order \in Seq(OrderRow)
    BY DEF TypeInv, TablesOK, ShopOK
  <2>2. /\ DOMAIN order' = DOMAIN order
        /\ \A i \in DOMAIN order :
             /\ order'[i].buyer = order[i].buyer /\ order'[i].coupon = order[i].coupon
             /\ order[i].status = "CANCELLED" => order'[i].status = "CANCELLED"
    <3>1. \A i \in DOMAIN order : order[i] \in OrderRow
      BY <2>1
    <3>2. CASE order' = [order EXCEPT ![o].paid = TRUE]
      BY <1>2, <2>1, <3>1, <3>2 DEF OrderRow, Orders
    <3>3. ASSUME NEW status, order[o].status = "OPEN", order' = [order EXCEPT ![o].status = status]
          PROVE  /\ DOMAIN order' = DOMAIN order
                 /\ \A i \in DOMAIN order :
                      /\ order'[i].buyer = order[i].buyer /\ order'[i].coupon = order[i].coupon
                      /\ order[i].status = "CANCELLED" => order'[i].status = "CANCELLED"
      BY <1>2, <2>1, <3>1, <3>3 DEF OrderRow, Orders
    <3> QED
      BY <1>2, <3>2, <3>3 DEF Progress
  <2> QED
    BY <2>2 DEF UsesBy, Orders
<1> QED
  BY <1>1, <1>2, CallTouches, RunTouches DEF Moves

\* Nor do the uses of a coupon by one buyer.
LEMMA UsesMove ==
    ASSUME TypeInv, NEW r \in Requests, Moves(r), AtMost(Runners, 1 + used.overlaps),
           FindsNothing(req[r]), NEW b \in Buyers, NEW code \in Codes,
           AtMost(Claims(UsesBy(b, code), UseCallers(b, code), req), 1 + used.overlaps)
    PROVE  AtMost(Claims(UsesBy(b, code), UseCallers(b, code), req)', 1 + used'.overlaps)
<1> DEFINE found == UsesBy(b, code)
           callers == UseCallers(b, code)
<1>1. /\ callers' \subseteq callers \cup {r} /\ callers' \subseteq Runners'
  BY CallersMove
<1>2. \/ found' \subseteq found /\ r \notin callers'
      \/ found' \subseteq found /\ req'[r].id = 0 /\ found = {}
      \/ found' \subseteq found /\ req'[r].id # 0 /\ req'[r].id \in found
      \/ /\ r \in callers /\ r \notin callers'
         /\ \E k : req[r].id = 0 /\ found' \subseteq found \cup {k}
      \/ /\ r \in callers /\ r \notin callers'
         /\ req[r].id # 0 /\ found' \subseteq found \cup {req[r].id}
  <2>1. CASE r \in callers'
    <3>1. /\ req'[r].pc = "place" /\ req'[r].buyer = b /\ req'[r].key # "none"
          /\ CodeOf[req'[r].key] = code
      BY <2>1 DEF UseCallers, UseCaller
    <3>2. Running(r) /\ CountUses(r)
      BY <3>1, Entering, OrderCalled
    <3>3. /\ req[r].pc = "uses"
          /\ Return(r) \/ (UsesBy(req[r].buyer, CodeOf[req[r].key]) = {}
                             /\ Goto(r, [req[r] EXCEPT !.pc = "place"]))
      BY <3>2 DEF CountUses, UsedBefore
    <3>4. req'[r] = [req[r] EXCEPT !.pc = "place"]
      BY <3>1, <3>3, StepDoes DEF Return, Goto, Idle
    <3>5. /\ req'[r].buyer = req[r].buyer /\ req'[r].key = req[r].key /\ req'[r].id = req[r].id
      BY <3>4, StepDoes DEF Request
    <3>6. found = {} /\ req'[r].id = 0
      <4>1. ~Return(r)
        BY <3>1, StepDoes DEF Return, Goto, Idle
      <4> QED
        BY <3>1, <3>3, <3>5, <4>1 DEF FindsNothing
    <3>7. ~PlaceOrder(r)
      BY <3>3 DEF PlaceOrder
    <3> QED
      BY <3>6, <3>7, UsesFewer
  <2>2. CASE r \notin callers' /\ ~PlaceOrder(r)
    BY <2>2, UsesFewer
  <2>3. CASE r \notin callers' /\ PlaceOrder(r)
    <3> DEFINE q == req[r]
               o == NewOrder(q.buyer, q.product, IF q.key = "none" THEN "none" ELSE CodeOf[q.key])
    <3>1. q.pc = "place" /\ q.id = 0 /\ (order' = order \/ order' = Append(order, o))
      BY <2>3 DEF PlaceOrder, FindsNothing
    <3>2. order \in Seq(OrderRow)
      BY DEF TypeInv, TablesOK, ShopOK
    <3>3. \A i \in DOMAIN order' : i # Len(order) + 1 => i \in DOMAIN order /\ order'[i] = order[i]
      BY <3>1, <3>2
    <3>4. found' \subseteq found \cup {Len(order) + 1}
      BY <3>3 DEF UsesBy, Orders
    <3>5. Len(order) + 1 \in DOMAIN order' => order'[Len(order) + 1] = o
      BY <3>1, <3>2
    <3>6. o.buyer = q.buyer /\ o.coupon = (IF q.key = "none" THEN "none" ELSE CodeOf[q.key])
      BY DEF NewOrder
    <3>7. code # "none"
      BY PromotionsAssumption DEF Codes
    <3>8. r \notin callers => found' \subseteq found
      BY <3>1, <3>4, <3>5, <3>6, <3>7 DEF UsesBy, UseCallers, UseCaller, Orders
    <3> QED
      BY <2>3, <3>1, <3>4, <3>8
  <2> QED
    BY <2>1, <2>2, <2>3
<1> HIDE DEF found, callers
<1>3. AtMost(Claims(found, callers, req), 1 + used.overlaps)
  BY DEF found, callers
<1>4. AtMost(Claims(found', callers', req'), 1 + used'.overlaps)
  BY <1>1, <1>2, <1>3, ClaimsMove
<1> QED
  BY <1>4 DEF found, callers, Claims

\* Whoever inserts what it looked for has no id yet.
LEMMA FindsNothingStep ==
    ASSUME TypeInv, NEW r \in Requests, Moves(r), FindsNothing(req[r])
    PROVE  FindsNothing(req'[r])
<1>1. req'[r].pc = "insertName" => req'[r].id = 0
  BY Entering, NameCalled
<1>2. req'[r].pc = "insertCoupon" => req'[r].id = 0
  BY Entering, CouponCalled
<1>3. req'[r].pc = "uses" => req'[r].id = 0
  BY Entering, OrderCalled
<1>4. ASSUME req'[r].pc = "place"
      PROVE  req'[r].id = 0
  <2>1. CASE Running(r) /\ CountUses(r)
    <3>1. req[r].pc = "uses" /\ req[r].id = 0
      BY <2>1 DEF CountUses, FindsNothing
    <3>2. req'[r] = Idle \/ req'[r] = [req[r] EXCEPT !.pc = "place"]
      BY <2>1, StepDoes DEF CountUses, Return, Goto
    <3>3. [req[r] EXCEPT !.pc = "place"].id = req[r].id /\ Idle.id = 0
      BY StepDoes DEF Request, Idle
    <3> QED
      BY <3>1, <3>2, <3>3
  <2> QED
    BY <1>4, <2>1, Entering, OrderCalled
<1>5. req'[r].pc \in {"saveReview", "saveWithPhotos"} /\ req'[r].id = 0 => req'[r].list = {}
  BY Entering, ReviewCalled
<1> QED
  BY <1>1, <1>2, <1>3, <1>4, <1>5 DEF FindsNothing

\* What an index keeps single is inserted only where there is none.
LEMMA IndexedStep ==
    ASSUME TypeInv, NEW r \in Requests, Moves(r), IndexedOnce
    PROVE  IndexedOnce'
<1>1. AtMost({req[r].key}, 1)
  <2>1. ASSUME NEW x PROVE AtMost({x}, 1)
    <3>1. IsFiniteSet({x}) /\ Cardinality({x}) = 1
      BY FS_Singleton
    <3> QED
      BY <3>1 DEF AtMost
  <2> QED
    BY <2>1
<1>2. ASSUME NEW n \in Names, IsCategory(n), OwnerOf[n] # "none"
      PROVE  AtMost(SameName(n)', 1)
  <2>1. AtMost(SameName(n), 1)
    BY <1>2 DEF IndexedOnce
  <2>2. SameName(n)' \subseteq SameName(n) \/ SameName(n)' \subseteq {req[r].key}
    <3>1. CASE \A m \in Names : There(m)' => There(m)
      BY <3>1 DEF SameName
    <3>2. CASE /\ \A m \in Names : There(m)' => There(m) \/ m = req[r].key
               /\ (IsCategory(req[r].key) /\ OwnerOf[req[r].key] # "none"
                     => SameName(req[r].key) = {})
      <4>1. SameName(n)' \subseteq SameName(n) \cup {req[r].key}
        BY <3>2 DEF SameName
      <4>2. req[r].key \in SameName(n)' => SameName(n) = {}
        BY <1>2, <3>2 DEF SameName, IsCategory
      <4> QED
        BY <4>1, <4>2
    <3> QED
      BY <3>1, <3>2, NamesFewer
  <2> QED
    BY <1>1, <2>1, <2>2, AtMostFewer
<1>3. ASSUME NEW c \in Coupons, CouponStore[c] # "none"
      PROVE  AtMost(Twins(c)', 1)
  <2>1. AtMost(Twins(c), 1)
    BY <1>3 DEF IndexedOnce
  <2>2. Twins(c)' \subseteq Twins(c) \/ Twins(c)' \subseteq {req[r].key}
    <3>1. CASE \A d \in Coupons : coupon'[d].state = "LIVE" => coupon[d].state = "LIVE"
      BY <3>1 DEF Twins
    <3>2. CASE /\ \A d \in Coupons :
                    coupon'[d].state = "LIVE" => coupon[d].state = "LIVE" \/ d = req[r].key
               /\ (CouponStore[req[r].key] # "none" => Twins(req[r].key) = {})
      <4>1. Twins(c)' \subseteq Twins(c) \cup {req[r].key}
        BY <3>2 DEF Twins
      <4>2. req[r].key \in Twins(c)' => Twins(c) = {}
        BY <1>3, <3>2 DEF Twins
      <4> QED
        BY <4>1, <4>2
    <3> QED
      BY <3>1, <3>2, CouponsFewer
  <2> QED
    BY <1>1, <2>1, <2>2, AtMostFewer
<1> QED
  BY <1>2, <1>3 DEF IndexedOnce

\* Orders keep their buyer and product; what was paid or delivered stays so.
LEMMA OrdersLast ==
    ASSUME TypeInv, NEW r \in Requests, Moves(r), NEW o \in Orders
    PROVE  /\ o \in Orders' /\ order'[o].buyer = order[o].buyer
           /\ order'[o].product = order[o].product /\ (order[o].paid => order'[o].paid)
           /\ order[o].status = "DELIVERED" => order'[o].status = "DELIVERED"
           /\ order'[o].coupon = order[o].coupon
<1>1. order \in Seq(OrderRow) /\ order[o] \in OrderRow
  BY DEF TypeInv, TablesOK, ShopOK, Orders
<1>2. CASE order' = order
  BY <1>2 DEF Orders
<1>3. CASE PlaceOrder(r)
  <2>1. PICK x : order' = Append(order, x) \/ order' = order
    BY <1>3 DEF PlaceOrder
  <2> QED
    BY <1>1, <2>1 DEF Orders
<1>4. ASSUME NEW i \in Orders, Progress(r, i)
      PROVE  /\ o \in Orders' /\ order'[o].buyer = order[o].buyer
             /\ order'[o].product = order[o].product /\ (order[o].paid => order'[o].paid)
             /\ order[o].status = "DELIVERED" => order'[o].status = "DELIVERED"
             /\ order'[o].coupon = order[o].coupon
  <2>1. CASE order' = [order EXCEPT ![i].paid = TRUE]
    BY <1>1, <2>1 DEF OrderRow, Orders
  <2>2. ASSUME NEW status, order[i].status = "OPEN", order' = [order EXCEPT ![i].status = status]
        PROVE  /\ o \in Orders' /\ order'[o].buyer = order[o].buyer
               /\ order'[o].product = order[o].product /\ (order[o].paid => order'[o].paid)
               /\ order[o].status = "DELIVERED" => order'[o].status = "DELIVERED"
               /\ order'[o].coupon = order[o].coupon
    BY <1>1, <2>2 DEF OrderRow, Orders
  <2> QED
    BY <1>4, <2>1, <2>2 DEF Progress
<1> QED
  BY <1>2, <1>3, <1>4, CallTouches, RunTouches DEF Moves

\* A review is written by whoever holds it, and keeps its buyer, product and order otherwise.
LEMMA ReviewsKeep ==
    ASSUME TypeInv, NEW r \in Requests, Moves(r), NEW k \in DOMAIN reviews'
    PROVE  \/ /\ k \in DOMAIN reviews /\ reviews'[k].buyer = reviews[k].buyer
              /\ reviews'[k].product = reviews[k].product /\ reviews'[k].order = reviews[k].order
           \/ /\ SaveReview(r) /\ k = (IF req[r].id = 0 THEN Len(reviews) + 1 ELSE req[r].id)
              /\ reviews'[k] = [buyer |-> req[r].buyer, product |-> req[r].product,
                                order |-> req[r].num, here |-> TRUE, images |-> req[r].list]
<1>0. reviews \in Seq(ReviewRow) /\ \A i \in DOMAIN reviews : reviews[i] \in ReviewRow
  BY DEF TypeInv, TablesOK, CatalogueOK
<1>1. CASE reviews' = reviews
  BY <1>1
<1>2. ASSUME NEW gone, reviews' = WithoutReviews(gone)
      PROVE  /\ k \in DOMAIN reviews /\ reviews'[k].buyer = reviews[k].buyer
             /\ reviews'[k].product = reviews[k].product /\ reviews'[k].order = reviews[k].order
  BY <1>0, <1>2 DEF WithoutReviews, ReviewRow
<1>3. CASE DeleteRows(r) \/ EraseStore(r)
  BY <1>1, <1>2, <1>3 DEF DeleteRows, EraseStore, catalogue
<1>4. CASE ClearPhotos(r) \/ InsertPhotos(r)
  <2>1. PICK i, photos : reviews' = [reviews EXCEPT ![i].images = photos]
    BY <1>4 DEF ClearPhotos, InsertPhotos
  <2> QED
    BY <1>0, <2>1 DEF ReviewRow
<1>5. CASE SaveReview(r)
  <2> DEFINE q == req[r]
             i == IF q.id = 0 THEN Len(reviews) + 1 ELSE q.id
             row == [buyer |-> q.buyer, product |-> q.product, order |-> q.num, here |-> TRUE,
                     images |-> q.list]
  <2>1. \/ reviews' = reviews
        \/ reviews' = IF q.id = 0 THEN Append(reviews, row) ELSE [reviews EXCEPT ![i] = row]
    BY <1>5 DEF SaveReview
  <2>2. q.id \in 0..Len(reviews)
    BY <1>5 DEF SaveReview, TypeInv, TablesOK, CatalogueOK, RequestsHold, Holding, HoldsRow, Sizes
  <2>3. k = i => reviews' = reviews \/ reviews'[k] = row
    BY <1>0, <2>1, <2>2
  <2>4. k # i => k \in DOMAIN reviews /\ reviews'[k] = reviews[k]
    BY <1>0, <2>1, <2>2
  <2> QED
    BY <1>1, <1>5, <2>3, <2>4
<1> QED
  BY <1>1, <1>3, <1>4, <1>5, CallTouches, RunTouches DEF Moves

\* So is a review of a store.
LEMMA StoreReviewsKeep ==
    ASSUME TypeInv, NEW r \in Requests, Moves(r), NEW k \in DOMAIN storeReviews'
    PROVE  \/ /\ k \in DOMAIN storeReviews /\ storeReviews'[k].buyer = storeReviews[k].buyer
              /\ storeReviews'[k].order = storeReviews[k].order
           \/ /\ req[r].pc = "saveStoreReview" /\ storeReviews'[k].buyer = req[r].buyer
              /\ storeReviews'[k].order = req[r].num
<1>0. storeReviews \in Seq(StoreReviewRow) /\ \A i \in DOMAIN storeReviews : storeReviews[i] \in StoreReviewRow
  BY DEF TypeInv, TablesOK, CatalogueOK
<1>1. CASE storeReviews' = storeReviews
  BY <1>1
<1>2. ASSUME NEW x, storeReviews' = [i \in DOMAIN storeReviews |->
                      IF storeReviews[i].store = x THEN [storeReviews[i] EXCEPT !.here = FALSE]
                      ELSE storeReviews[i]]
      PROVE  /\ k \in DOMAIN storeReviews /\ storeReviews'[k].buyer = storeReviews[k].buyer
             /\ storeReviews'[k].order = storeReviews[k].order
  BY <1>0, <1>2 DEF StoreReviewRow
<1>3. CASE EraseStore(r)
  BY <1>1, <1>2, <1>3, ZenonT(40) DEF EraseStore, catalogue
<1>4. CASE SaveStoreReview(r)
  <2> DEFINE q == req[r]
             row == [buyer |-> q.buyer, store |-> q.store, order |-> q.num, here |-> TRUE]
  <2>1. q.pc = "saveStoreReview"
        /\ \/ storeReviews' = storeReviews
           \/ storeReviews' = Append(storeReviews, row)
           \/ storeReviews' = [storeReviews EXCEPT ![q.id] = row]
    BY <1>4 DEF SaveStoreReview
  <2>2. (k \in DOMAIN storeReviews /\ storeReviews'[k] = storeReviews[k]) \/ storeReviews'[k] = row
    BY <1>0, <2>1
  <2> QED
    BY <2>1, <2>2
<1> QED
  BY <1>1, <1>3, <1>4, CallTouches, RunTouches DEF Moves

\* Reviews go on naming an order of their buyer that was paid for, or delivered.
LEMMA ReviewsBoughtStep ==
    ASSUME TypeInv, NEW r \in Requests, Moves(r), ReviewsBought
    PROVE  ReviewsBought'
<1>1. \A o, b, p : Bought(o, b, p) => Bought(o, b, p)'
  BY OrdersLast DEF Bought
<1>2. \A o, b : Delivered(o, b) => Delivered(o, b)'
  BY OrdersLast DEF Delivered
<1>3. ASSUME NEW k \in DOMAIN reviews'
      PROVE  Bought(reviews[k].order, reviews[k].buyer, reviews[k].product)'
  <2>1. CASE k \in DOMAIN reviews /\ reviews'[k].buyer = reviews[k].buyer
              /\ reviews'[k].product = reviews[k].product /\ reviews'[k].order = reviews[k].order
    BY <1>1, <2>1 DEF ReviewsBought, Bought
  <2>2. CASE SaveReview(r)
              /\ reviews'[k] = [buyer |-> req[r].buyer, product |-> req[r].product,
                                order |-> req[r].num, here |-> TRUE, images |-> req[r].list]
    <3>1. Bought(req[r].num, req[r].buyer, req[r].product)
      BY <2>2 DEF SaveReview, ReviewsBought
    <3> QED
      BY <1>1, <2>2, <3>1 DEF Bought
  <2> QED
    BY <2>1, <2>2, ReviewsKeep
<1>4. ASSUME NEW k \in DOMAIN storeReviews'
      PROVE  Delivered(storeReviews[k].order, storeReviews[k].buyer)'
  <2>1. CASE k \in DOMAIN storeReviews /\ storeReviews'[k].buyer = storeReviews[k].buyer
              /\ storeReviews'[k].order = storeReviews[k].order
    BY <1>2, <2>1 DEF ReviewsBought, Delivered
  <2>2. CASE req[r].pc = "saveStoreReview" /\ storeReviews'[k].buyer = req[r].buyer
              /\ storeReviews'[k].order = req[r].num
    BY <1>2, <2>2 DEF ReviewsBought, Delivered
  <2> QED
    BY <2>1, <2>2, StoreReviewsKeep
<1>5. ASSUME NEW s \in Requests, s # r
      PROVE  /\ req'[s].pc \in {"saveReview", "saveWithPhotos"} =>
                  Bought(req[s].num, req[s].buyer, req[s].product)'
             /\ req'[s].pc = "saveStoreReview" => Delivered(req[s].num, req[s].buyer)'
  <2>1. req'[s] = req[s]
    BY <1>5, MovesCount
  <2> QED
    BY <1>1, <1>2, <2>1 DEF ReviewsBought, Bought, Delivered
<1>6. ASSUME req'[r].pc \in {"saveReview", "saveWithPhotos"}
      PROVE  Bought(req[r].num, req[r].buyer, req[r].product)'
  <2>1. PICK b \in Buyers, p \in Products, photos \in BOOLEAN :
          Free(r) /\ BeginReview(r, b, p, photos)
    BY <1>6, Entering
  <2>2. req'[r].buyer = b /\ req'[r].product = p /\ req'[r].num = Max(BoughtBy(b, p))
    BY <2>1, ReviewCalled
  <2>3. BoughtBy(b, p) # {} /\ BoughtBy(b, p) \subseteq Orders /\ TablesOK
    BY <2>1 DEF BeginReview, BoughtBy, OrdersOf, TypeInv
  <2>4. Max(BoughtBy(b, p)) \in BoughtBy(b, p)
    BY <2>3, NewestOrder
  <2>5. Bought(req'[r].num, b, p)
    BY <2>2, <2>4 DEF BoughtBy, OrdersOf, Bought
  <2> QED
    BY <1>1, <2>2, <2>5 DEF Bought
<1>7. ASSUME req'[r].pc = "saveStoreReview"
      PROVE  Delivered(req[r].num, req[r].buyer)'
  <2>1. PICK b \in Buyers, s \in Stores : Free(r) /\ BeginStoreReview(r, b, s)
    BY <1>7, Entering
  <2>2. req'[r].buyer = b /\ req'[r].num = Max(DeliveredTo(b, s))
    BY <2>1, StoreReviewCalled
  <2>3. DeliveredTo(b, s) # {} /\ DeliveredTo(b, s) \subseteq Orders /\ TablesOK
    BY <2>1 DEF BeginStoreReview, DeliveredTo, TypeInv
  <2>4. Max(DeliveredTo(b, s)) \in DeliveredTo(b, s)
    BY <2>3, NewestOrder
  <2>5. Delivered(req'[r].num, b)
    BY <2>2, <2>4 DEF DeliveredTo, Delivered
  <2> QED
    BY <1>2, <2>2, <2>5 DEF Delivered
<1> QED
  BY <1>3, <1>4, <1>5, <1>6, <1>7 DEF ReviewsBought, Bought, Delivered

-----------------------------------------------------------------------------
(* The photos of a review are those of one call *)

\* A request that has nothing to do with the photos of review k.
Apart(q, k) == ~Inserter(q, k) /\ ~Clearer(q, k) /\ ~Saver(q, k)

\* r does what leaves at most the photos that are there or are about to come.
LEMMA PhotosFewer ==
    ASSUME NEW images, NEW k, NEW qs, NEW n \in Nat, Few(images, k, qs, n), NEW r \in Requests,
           NEW ps, \A s \in Requests : s # r => ps[s] = qs[s], Apart(ps[r], k),
           NEW more, \A i \in more : i \in images \/ (Inserter(qs[r], k) /\ i = qs[r].call),
           NEW m \in Nat, n <= m
    PROVE  Few(more, k, ps, m)
<1>1. Shown(more, k, ps) \subseteq Shown(images, k, qs)
  BY DEF Shown, Apart
<1>2. \A t, list : Photos(list, k, t, ps) \subseteq Photos(list, k, t, qs)
  BY DEF Photos, Shown, Apart
<1>3. \A t : Photos(more, k, t, ps) \subseteq Photos(images, k, t, qs)
  BY <1>1 DEF Photos, Apart
<1>4. AtMost(Shown(more, k, ps), m)
  BY <1>1, AtMostFewer DEF Few
<1>5. ASSUME NEW t \in Requests, Clearer(ps[t], k)
      PROVE  AtMost(Photos(more, k, t, ps), m)
  <2>1. AtMost(Photos(images, k, t, qs), n)
    BY <1>5 DEF Few, Apart
  <2> QED
    BY <1>3, <2>1, AtMostFewer
<1>6. ASSUME NEW t \in Requests, Saver(ps[t], k)
      PROVE  AtMost(Photos(ps[t].list, k, t, ps), m)
  <2>1. ps[t] = qs[t] /\ AtMost(Photos(qs[t].list, k, t, qs), n)
    BY <1>6 DEF Few, Apart
  <2>2. Photos(ps[t].list, k, t, ps) \subseteq Photos(qs[t].list, k, t, qs)
    BY <1>2, <2>1
  <2> QED
    BY <2>1, <2>2, AtMostFewer
<1> QED
  BY <1>4, <1>5, <1>6 DEF Few

\* r begins to review again what it found; whoever runs beside it is counted once more.
LEMMA PhotosFound ==
    ASSUME NEW images, NEW k, NEW qs, NEW n \in Nat, Few(images, k, qs, n), NEW r \in Requests,
           NEW ps, \A s \in Requests : s # r => ps[s] = qs[s],
           Apart(qs[r], k), Saver(ps[r], k), ps[r].list = images,
           NEW m \in Nat, n <= m,
           (\E s \in Requests \ {r} : ~Apart(qs[s], k)) => n + 1 <= m
    PROVE  Few(images, k, ps, m)
<1>1. Shown(images, k, ps) = Shown(images, k, qs) /\ ~Inserter(ps[r], k)
      /\ \A list : Shown(list, k, ps) = Shown(list, k, qs)
  BY DEF Shown, Apart, Saver, Inserter
<1>2. AtMost(Shown(images, k, ps), m)
  BY <1>1, AtMostFewer DEF Few
<1>3. AtMost(Photos(images, k, r, ps), m)
  <2>1. CASE \E t \in Requests \ {r} : Clearer(qs[t], k)
    <3>1. PICK t \in Requests \ {r} : Clearer(qs[t], k)
      BY <2>1
    <3>2. Photos(images, k, r, ps) \subseteq Photos(images, k, t, qs) \cup {<<"call", t>>}
      BY <1>1 DEF Photos, Apart
    <3>3. AtMost(Photos(images, k, t, qs), n) /\ n + 1 <= m /\ n + 1 \in Nat
      BY <3>1 DEF Few, Apart
    <3>4. AtMost(Photos(images, k, r, ps), n + 1)
      BY <3>2, <3>3, AtMostOneMore
    <3> QED
      BY <3>3, <3>4, AtMostFewer
  <2>2. CASE ~\E t \in Requests \ {r} : Clearer(qs[t], k)
    <3>1. Photos(images, k, r, ps) \subseteq Shown(images, k, ps)
      BY <2>2 DEF Photos
    <3> QED
      BY <1>2, <3>1, AtMostFewer
  <2> QED
    BY <2>1, <2>2
<1>4. ASSUME NEW t \in Requests, t # r, NEW list, AtMost(Photos(list, k, t, qs), n), n + 1 <= m
      PROVE  AtMost(Photos(list, k, t, ps), m)
  <2>1. Photos(list, k, t, ps) \subseteq Photos(list, k, t, qs) \cup {<<"call", r>>}
    BY <1>1 DEF Photos
  <2>2. n + 1 \in Nat
    OBVIOUS
  <2>3. AtMost(Photos(list, k, t, ps), n + 1)
    BY <1>4, <2>1, AtMostOneMore
  <2> QED
    BY <1>4, <2>2, <2>3, AtMostFewer
<1>5. ASSUME NEW t \in Requests, Clearer(ps[t], k)
      PROVE  AtMost(Photos(images, k, t, ps), m)
  BY <1>3, <1>4, <1>5 DEF Few, Apart
<1>6. ASSUME NEW t \in Requests, Saver(ps[t], k)
      PROVE  AtMost(Photos(ps[t].list, k, t, ps), m)
  BY <1>3, <1>4, <1>6 DEF Few, Apart
<1> QED
  BY <1>2, <1>5, <1>6 DEF Few

\* r saves the review with the photos it had found.
LEMMA PhotosSaved ==
    ASSUME NEW images, NEW k, NEW qs, NEW n \in Nat, Few(images, k, qs, n), NEW r \in Requests,
           NEW ps, \A s \in Requests : s # r => ps[s] = qs[s],
           Saver(qs[r], k), ~Saver(ps[r], k), ~Inserter(ps[r], k),
           Clearer(ps[r], k) => Clearer(qs[r], k)
    PROVE  Few(qs[r].list, k, ps, n)
<1> DEFINE list == qs[r].list
<1>1. AtMost(Photos(list, k, r, qs), n)
  BY DEF Few
<1> HIDE DEF list
<1>2. \A l : Shown(l, k, ps) \subseteq Shown(l, k, qs)
  BY DEF Shown
<1>3. AtMost(Photos(list, k, r, ps), n)
  <2>1. Photos(list, k, r, ps) \subseteq Photos(list, k, r, qs)
    BY <1>2 DEF Photos
  <2> QED
    BY <1>1, <2>1, AtMostFewer
<1>4. AtMost(Shown(list, k, ps), n)
  <2>1. Shown(list, k, ps) \subseteq Photos(list, k, r, ps)
    BY DEF Photos
  <2> QED
    BY <1>3, <2>1, AtMostFewer
<1>5. ASSUME NEW t \in Requests, Clearer(ps[t], k)
      PROVE  AtMost(Photos(list, k, t, ps), n)
  <2>1. CASE t # r
    <3>1. <<"call", t>> \in Photos(list, k, r, qs)
      BY <1>5, <2>1 DEF Photos
    <3> DEFINE S == Photos(list, k, r, qs)
    <3>2. Photos(list, k, t, ps) \subseteq (S \ {<<"call", t>>}) \cup {<<"call", r>>}
      <4>1. \A x \in Shown(list, k, ps) : x \in S /\ x # <<"call", t>>
        BY <1>2 DEF Photos, Shown
      <4>2. \A s \in Requests \ {t} : Clearer(ps[s], k) =>
              s = r \/ (<<"call", s>> \in S /\ <<"call", s>> # <<"call", t>>)
        BY DEF Photos
      <4> HIDE DEF S
      <4> QED
        BY <4>1, <4>2 DEF Photos
    <3> HIDE DEF S
    <3> QED
      BY <1>1, <3>1, <3>2, AtMostSwap DEF S
  <2> QED
    BY <1>3, <2>1
<1>6. ASSUME NEW t \in Requests, Saver(ps[t], k)
      PROVE  AtMost(Photos(ps[t].list, k, t, ps), n)
  <2>1. t # r /\ ps[t] = qs[t] /\ AtMost(Photos(qs[t].list, k, t, qs), n)
    BY <1>6 DEF Few
  <2>2. Photos(ps[t].list, k, t, ps) \subseteq Photos(qs[t].list, k, t, qs)
    BY <1>2, <2>1 DEF Photos
  <2> QED
    BY <2>1, <2>2, AtMostFewer
<1> QED
  BY <1>4, <1>5, <1>6 DEF Few, list

\* r deletes the photos: what comes now is of requests that run.
LEMMA PhotosCleared ==
    ASSUME NEW images, NEW k, NEW qs, NEW n \in Nat, Few(images, k, qs, n), NEW r \in Requests,
           NEW ps, \A s \in Requests : s # r => ps[s] = qs[s],
           Clearer(qs[r], k), Inserter(ps[r], k), ~Clearer(ps[r], k), ~Saver(ps[r], k),
           NEW S, S = {s \in Requests : ps[s] # Idle}, AtMost(S, n)
    PROVE  Few({}, k, ps, n)
<1> DEFINE f == [s \in S |-> IF Inserter(ps[s], k) THEN <<"photo", ps[s].call>> ELSE <<"call", s>>]
<1>1. \A s \in Requests : Inserter(ps[s], k) \/ Clearer(ps[s], k) => s \in S
  BY DEF Inserter, Clearer, Idle
<1>2. \A t : Photos({}, k, t, ps) \subseteq {f[s] : s \in S}
  <2>1. \A s \in Requests : Inserter(ps[s], k) => f[s] = <<"photo", ps[s].call>>
    BY <1>1
  <2>2. \A s \in Requests : Clearer(ps[s], k) => f[s] = <<"call", s>>
    BY <1>1 DEF Inserter, Clearer
  <2> HIDE DEF f
  <2> QED
    BY <1>1, <2>1, <2>2 DEF Photos, Shown
<1> HIDE DEF f
<1>3. \A t : AtMost(Photos({}, k, t, ps), n)
  BY <1>2, AtMostImage
<1>4. AtMost(Shown({}, k, ps), n)
  <2>1. Shown({}, k, ps) \subseteq Photos({}, k, r, ps)
    BY DEF Photos
  <2> QED
    BY <1>3, <2>1, AtMostFewer
<1>5. ASSUME NEW t \in Requests, Saver(ps[t], k)
      PROVE  AtMost(Photos(ps[t].list, k, t, ps), n)
  <2> DEFINE T == Photos(qs[t].list, k, t, qs)
  <2>1. t # r /\ ps[t] = qs[t] /\ AtMost(T, n)
    BY <1>5 DEF Few
  <2>2. <<"call", r>> \in T
    BY <2>1 DEF Photos
  <2>3. Photos(ps[t].list, k, t, ps) \subseteq (T \ {<<"call", r>>}) \cup {<<"photo", ps[r].call>>}
    <3>1. \A x \in Shown(qs[t].list, k, ps) :
            x = <<"photo", ps[r].call>> \/ (x \in T /\ x # <<"call", r>>)
      BY DEF Photos, Shown
    <3>2. \A s \in Requests \ {t} : Clearer(ps[s], k) =>
            <<"call", s>> \in T /\ <<"call", s>> # <<"call", r>>
      BY DEF Photos
    <3> HIDE DEF T
    <3> QED
      BY <2>1, <3>1, <3>2 DEF Photos
  <2> HIDE DEF T
  <2> QED
    BY <2>1, <2>2, <2>3, AtMostSwap
<1> QED
  BY <1>3, <1>4, <1>5 DEF Few

\* Which photos a review has after a step that saves or clears none.
LEMMA PhotosKeep ==
    ASSUME TypeInv, NEW r \in Requests, Moves(r), ~SaveReview(r), ~ClearPhotos(r),
           NEW k \in DOMAIN reviews'
    PROVE  /\ k \in DOMAIN reviews
           /\ \A i \in reviews'[k].images :
                i \in reviews[k].images \/ (Inserter(req[r], k) /\ i = req[r].call)
<1>0. reviews \in Seq(ReviewRow) /\ \A i \in DOMAIN reviews : reviews[i] \in ReviewRow
  BY DEF TypeInv, TablesOK, CatalogueOK
<1>1. CASE reviews' = reviews
  BY <1>1
<1>2. ASSUME NEW gone, reviews' = WithoutReviews(gone)
      PROVE  k \in DOMAIN reviews /\ \A i \in reviews'[k].images : i \in reviews[k].images
  BY <1>0, <1>2 DEF WithoutReviews, ReviewRow
<1>3. CASE DeleteRows(r) \/ EraseStore(r)
  BY <1>1, <1>2, <1>3 DEF DeleteRows, EraseStore, catalogue
<1>4. CASE InsertPhotos(r)
  <2>1. /\ req[r].pc = "insertPhotos"
        /\ reviews' = [reviews EXCEPT ![req[r].id].images =
                         IF reviews[req[r].id].here THEN @ \cup {req[r].call} ELSE @]
    BY <1>4 DEF InsertPhotos
  <2>2. k \in DOMAIN reviews /\ (k # req[r].id => reviews'[k] = reviews[k])
    BY <1>0, <2>1
  <2>3. k = req[r].id => reviews'[k].images \subseteq reviews[k].images \cup {req[r].call}
    BY <1>0, <2>1, <2>2 DEF ReviewRow
  <2> QED
    BY <2>1, <2>2, <2>3 DEF Inserter
<1> QED
  BY <1>1, <1>3, <1>4, CallTouches, RunTouches DEF Moves

\* Each request that overlaps another adds the photos of one call at most.
LEMMA PhotosMove ==
    ASSUME TypeInv, NEW r \in Requests, Moves(r), AtMost(Runners, 1 + used.overlaps),
           \A s \in Requests : FindsNothing(req[s]), PhotosOnce
    PROVE  PhotosOnce'
<1> DEFINE n == 1 + used.overlaps
           m == 1 + used'.overlaps
<1>0. /\ n \in Nat /\ m \in Nat /\ n <= m
      /\ \A s \in Requests : s # r => req'[s] = req[s]
  BY MovesCount
<1>1. SUFFICES ASSUME NEW k \in DOMAIN reviews'
               PROVE  Few(reviews'[k].images, k, req', m)
  BY DEF PhotosOnce, Few, Shown, Photos
<1>2. \A i \in DOMAIN reviews : Few(reviews[i].images, i, req, n)
  BY DEF PhotosOnce
<1>3. reviews \in Seq(ReviewRow) /\ \A i \in DOMAIN reviews : reviews[i] \in ReviewRow
  BY DEF TypeInv, TablesOK, CatalogueOK
<1> HIDE DEF n, m
<1>4. CASE SaveReview(r)
  <2> DEFINE q == req[r]
             i == IF q.id = 0 THEN Len(reviews) + 1 ELSE q.id
             row == [buyer |-> q.buyer, product |-> q.product, order |-> q.num, here |-> TRUE,
                     images |-> q.list]
             go == [Idle EXCEPT !.pc = "clearPhotos", !.id = i, !.call = q.call]
  <2>1. /\ q.pc \in {"saveReview", "saveWithPhotos"} /\ q.id \in 0..Len(reviews)
    BY <1>4 DEF SaveReview, TypeInv, TablesOK, CatalogueOK, RequestsHold, Holding, HoldsRow, Sizes
  <2>2. \/ reviews' = reviews /\ req'[r] = Idle
        \/ /\ reviews' = IF q.id = 0 THEN Append(reviews, row) ELSE [reviews EXCEPT ![i] = row]
           /\ q.pc = "saveReview" => req'[r] = Idle
           /\ q.pc = "saveWithPhotos" => req'[r] = go
    BY <1>4, <2>1, StepDoes DEF SaveReview, Return, Goto
  <2>3. \A j : Apart(Idle, j)
    BY DEF Apart, Inserter, Clearer, Saver, Idle
  <2>4. go.pc = "clearPhotos" /\ go.id = i
    BY DEF Idle
  <2> HIDE DEF go
  <2>5. used' = used
    BY <1>4 DEF SaveReview, Return, Goto
  <2>6. CASE k # i
    <3>1. k \in DOMAIN reviews /\ reviews'[k] = reviews[k]
      BY <1>3, <2>1, <2>2, <2>6
    <3>2. Apart(req'[r], k)
      BY <2>1, <2>2, <2>3, <2>4, <2>6 DEF Apart, Inserter, Clearer, Saver
    <3> QED
      BY <1>0, <1>2, <3>1, <3>2, PhotosFewer
  <2>7. CASE k = i /\ reviews' = reviews /\ req'[r] = Idle
    BY <1>0, <1>2, <2>3, <2>7, PhotosFewer
  <2>8. CASE /\ k = i
             /\ reviews' = IF q.id = 0 THEN Append(reviews, row) ELSE [reviews EXCEPT ![i] = row]
             /\ q.pc = "saveReview" => req'[r] = Idle
             /\ q.pc = "saveWithPhotos" => req'[r] = go
    <3>1. reviews'[k] = row
      BY <1>3, <2>1, <2>8
    <3>2. /\ ~Saver(req'[r], k) /\ ~Inserter(req'[r], k)
          /\ (Clearer(req'[r], k) => q.pc = "saveWithPhotos")
      BY <2>1, <2>3, <2>4, <2>8 DEF Apart, Inserter, Clearer, Saver
    <3>3. CASE q.id # 0
      <4>1. Saver(q, k) /\ (Clearer(req'[r], k) => Clearer(q, k))
        BY <2>1, <2>8, <3>2, <3>3 DEF Saver, Clearer
      <4>2. Few(reviews[k].images, k, req, n)
        BY <1>2, <2>1, <2>8, <3>3
      <4>3. Few(q.list, k, req', n)
        BY <1>0, <3>2, <4>1, <4>2, PhotosSaved
      <4> QED
        BY <2>5, <3>1, <4>3 DEF n, m
    <3>4. CASE q.id = 0
      <4>1. q.list = {} /\ k = Len(reviews) + 1
        BY <2>1, <2>8, <3>4 DEF FindsNothing
      <4>2. \A s \in Requests : s # r => Apart(req'[s], k)
        <5>1. \A s \in Requests : HoldsRow(req[s], Sizes)
          BY DEF TypeInv, RequestsHold, Holding
        <5>2. Sizes.reviews = Len(reviews) /\ Len(reviews) \in Nat
          BY <1>3 DEF Sizes
        <5> QED
          BY <1>0, <4>1, <5>1, <5>2 DEF Apart, Inserter, Clearer, Saver, HoldsRow
      <4>3. Shown({}, k, req') = {} /\ Photos({}, k, r, req') = {}
        BY <3>2, <4>2 DEF Shown, Photos, Apart
      <4>4. AtMost({}, m)
        BY <1>0, FS_EmptySet DEF AtMost
      <4>5. reviews'[k].images = {}
        BY <3>1, <4>1
      <4>6. \A t \in Requests : ~Saver(req'[t], k) /\ (Clearer(req'[t], k) => t = r)
        BY <3>2, <4>2 DEF Apart
      <4>7. Few({}, k, req', m)
        BY <4>3, <4>4, <4>6 DEF Few
      <4> QED
        BY <4>5, <4>7
    <3> QED
      BY <3>3, <3>4
  <2> QED
    BY <2>2, <2>6, <2>7, <2>8
<1>5. CASE ClearPhotos(r)
  <2>1. /\ req[r].pc = "clearPhotos" /\ req[r].id \in DOMAIN reviews
        /\ reviews' = [reviews EXCEPT ![req[r].id].images = {}]
        /\ req'[r] = [req[r] EXCEPT !.pc = "insertPhotos"] /\ used' = used
    BY <1>3, <1>5, StepDoes DEF ClearPhotos, Goto, TypeInv, TablesOK, CatalogueOK, RequestsHold,
                           Holding, HoldsRow, Sizes
  <2>2. req'[r].pc = "insertPhotos" /\ req'[r].id = req[r].id
    BY <2>1, StepDoes DEF Request
  <2>3. CASE k # req[r].id
    <3>1. k \in DOMAIN reviews /\ reviews'[k] = reviews[k] /\ Apart(req'[r], k)
      BY <1>3, <2>1, <2>2, <2>3 DEF Apart, Inserter, Clearer, Saver
    <3> QED
      BY <1>0, <1>2, <3>1, PhotosFewer
  <2>4. CASE k = req[r].id
    <3>1. reviews'[k].images = {} /\ Few(reviews[k].images, k, req, n)
      BY <1>2, <1>3, <2>1, <2>4 DEF ReviewRow
    <3>2. /\ Clearer(req[r], k) /\ Inserter(req'[r], k) /\ ~Clearer(req'[r], k)
          /\ ~Saver(req'[r], k)
      BY <2>1, <2>2, <2>4 DEF Inserter, Clearer, Saver
    <3>3. AtMost(Runners', m) /\ Runners' = {s \in Requests : req'[s] # Idle} /\ m = n
      BY <2>1, RunnersStep DEF Runners, Running, m, n
    <3>4. Few({}, k, req', n)
      BY <1>0, <3>1, <3>2, <3>3, PhotosCleared
    <3> QED
      BY <3>1, <3>3, <3>4
  <2> QED
    BY <2>3, <2>4
<1>6. CASE ~SaveReview(r) /\ ~ClearPhotos(r)
  <2>1. /\ k \in DOMAIN reviews
        /\ \A i \in reviews'[k].images :
             i \in reviews[k].images \/ (Inserter(req[r], k) /\ i = req[r].call)
    BY <1>6, PhotosKeep
  <2>2. ~Inserter(req'[r], k) /\ (Clearer(req'[r], k) => Saver(req'[r], k))
    BY <1>6, Entering DEF Inserter, Clearer, Saver
  <2>3. CASE ~Saver(req'[r], k)
    <3>1. Apart(req'[r], k)
      BY <2>2, <2>3 DEF Apart
    <3> QED
      BY <1>0, <1>2, <2>1, <3>1, PhotosFewer
  <2>4. CASE Saver(req'[r], k)
    <3>1. PICK b \in Buyers, p \in Products, photos \in BOOLEAN :
            Free(r) /\ BeginReview(r, b, p, photos)
      BY <2>4, Entering DEF Saver
    <3>2. req[r] = Idle /\ reviews' = reviews /\ used'.overlaps = used.overlaps
                                    + (IF Overlaps(r) THEN 1 ELSE 0)
      BY <3>1, CallDoes DEF Free, Running, BeginReview, Call, CallWith, catalogue
    <3>3. req'[r].id = k /\ k # 0
      BY <2>1, <2>4, <1>3 DEF Saver
    <3>4. req'[r].list = reviews[k].images
      BY <3>1, <3>3, ReviewCalled
    <3>5. \A j : Apart(req[r], j)
      BY <3>2 DEF Apart, Inserter, Clearer, Saver, Idle
    <3>6. (\E s \in Requests \ {r} : ~Apart(req[s], k)) => n + 1 <= m
      <4>1. \A s \in Requests : ~Apart(req[s], k) => Running(s)
        BY DEF Apart, Inserter, Clearer, Saver, Running, Idle
      <4>2. Overlaps(r) => m = n + 1
        BY <3>2, CallDoes DEF n, m
      <4> QED
        BY <1>0, <4>1, <4>2 DEF Overlaps
    <3>7. Few(reviews[k].images, k, req', m)
      BY <1>0, <1>2, <2>1, <2>4, <3>4, <3>5, <3>6, PhotosFound
    <3> QED
      BY <3>2, <3>7
  <2> QED
    BY <2>3, <2>4
<1> QED
  BY <1>4, <1>5, <1>6

-----------------------------------------------------------------------------
(* One of each *)

\* A step of a request keeps the invariant.
LEMMA OnceStep ==
    ASSUME TypeInv, NEW r \in Requests, Moves(r), OnceInv
    PROVE  OnceInv'
<1> USE DEF OnceInv
<1>1. AtMost(Runners', 1 + used'.overlaps)
  BY RunnersStep
<1>2. \A s \in Requests : FindsNothing(req'[s])
  BY FindsNothingStep, MovesCount
<1>3. ReviewsOnce'
  <2>1. ASSUME NEW b \in Buyers, NEW p \in Products
        PROVE  AtMost(Claims(ReviewsBy(b, p), ReviewCallers(b, p), req)', 1 + used'.overlaps)
    BY ReviewsMove DEF ReviewsOnce
  <2> QED
    BY <2>1 DEF ReviewsOnce
<1>4. StoreReviewsOnce'
  <2>1. ASSUME NEW b \in Buyers, NEW s \in Stores
        PROVE  AtMost(Claims(StoreReviewsBy(b, s), StoreReviewCallers(b, s), req)', 1 + used'.overlaps)
    BY StoreReviewsMove DEF StoreReviewsOnce
  <2> QED
    BY <2>1 DEF StoreReviewsOnce
<1>5. NamesOnce'
  <2>1. ASSUME NEW n \in Names, KindOf[n] # "menu"
        PROVE  AtMost(Claims(SameName(n), NameCallers(n), req)', 1 + used'.overlaps)
    BY <2>1, NamesMove DEF NamesOnce
  <2> QED
    BY <2>1 DEF NamesOnce
<1>6. CouponsOnce'
  <2>1. ASSUME NEW c \in Coupons
        PROVE  AtMost(Claims(Twins(c), CouponCallers(c), req)', 1 + used'.overlaps)
    BY CouponsMove DEF CouponsOnce
  <2> QED
    BY <2>1 DEF CouponsOnce
<1>7. BrowsersOnce'
  <2>1. ASSUME NEW e \in Endpoints
        PROVE  AtMost(Claims(RowsOf(e), PushCallers(e), req)', 1 + used'.overlaps)
    BY BrowsersMove DEF BrowsersOnce
  <2> QED
    BY <2>1 DEF BrowsersOnce
<1>8. UsesOnce'
  <2>1. ASSUME NEW b \in Buyers, NEW code \in Codes
        PROVE  AtMost(Claims(UsesBy(b, code), UseCallers(b, code), req)', 1 + used'.overlaps)
    BY UsesMove DEF UsesOnce
  <2> QED
    BY <2>1 DEF UsesOnce
<1>9. IndexedOnce' /\ ReviewsBought' /\ PhotosOnce'
  BY IndexedStep, ReviewsBoughtStep, PhotosMove
<1> QED
  BY <1>1, <1>2, <1>3, <1>4, <1>5, <1>6, <1>7, <1>8, <1>9

\* A new day and a closed tab change none of it.
LEMMA OnceLasts ==
    ASSUME TypeInv, Environment \/ UNCHANGED vars, OnceInv
    PROVE  OnceInv'
<1>1. /\ UNCHANGED <<order, coupon, named, reviews, storeReviews, push>> /\ req' = req
  BY EnvironmentTouches
<1>2. used'.overlaps = used.overlaps
  BY CallDoes DEF Environment, vars, Tick, Finalize, Happens
<1>3. UNCHANGED <<Runners, ReviewsOnce, StoreReviewsOnce, NamesOnce, CouponsOnce>>
  BY <1>1, <1>2
  DEF Runners, Running, ReviewsOnce, StoreReviewsOnce, NamesOnce, CouponsOnce,
      ReviewsBy, ReviewsOf, StoreReviewsBy, SameName, There, Twins,
      ReviewCallers, StoreReviewCallers, NameCallers, CouponCallers
<1>4. UNCHANGED <<BrowsersOnce, UsesOnce, IndexedOnce>>
  BY <1>1, <1>2
  DEF BrowsersOnce, UsesOnce, IndexedOnce, RowsOf, UsesBy, Orders, PushCallers, UseCallers,
      SameName, There, Twins
<1>5. UNCHANGED <<ReviewsBought, PhotosOnce>>
  BY <1>1, <1>2 DEF ReviewsBought, Bought, Delivered, Orders, PhotosOnce
<1> QED
  BY <1>1, <1>2, <1>3, <1>4, <1>5 DEF OnceInv

\* Rows are no more than claims.
LEMMA RowsFewer ==
    ASSUME NEW found, NEW callers, NEW qs, NEW n \in Nat, AtMost(Claims(found, callers, qs), n)
    PROVE  Cardinality(found) <= n
<1> DEFINE S == Claims(found, callers, qs)
           f == [x \in S |-> x[2]]
<1>1. found \subseteq {f[x] : x \in S}
  <2>1. ASSUME NEW k \in found
        PROVE  k \in {f[x] : x \in S}
    <3>1. <<"row", k>> \in S /\ f[<<"row", k>>] = k
      BY DEF Claims
    <3> QED
      BY <3>1
  <2> QED
    BY <2>1
<1> HIDE DEF S, f
<1>2. AtMost(found, n)
  BY <1>1, AtMostImage DEF S
<1> QED
  BY <1>2 DEF AtMost

\* Photos that are there are no more than those shown.
LEMMA ImagesFewer ==
    ASSUME NEW images, NEW k, NEW qs, NEW n \in Nat, Few(images, k, qs, n)
    PROVE  Cardinality(images) <= n
<1> DEFINE S == Shown(images, k, qs)
           f == [x \in S |-> x[2]]
<1>1. images \subseteq {f[x] : x \in S}
  <2>1. ASSUME NEW i \in images
        PROVE  i \in {f[x] : x \in S}
    <3>1. <<"photo", i>> \in S /\ f[<<"photo", i>>] = i
      BY DEF Shown
    <3> QED
      BY <3>1
  <2> QED
    BY <2>1
<1>0. AtMost(S, n)
  BY DEF Few
<1> HIDE DEF S, f
<1>2. AtMost(images, n)
  BY <1>0, <1>1, AtMostImage
<1> QED
  BY <1>2 DEF AtMost

\* The invariant says what it is for.
LEMMA OnceIsOneOfEach == ASSUME TypeInv, OnceInv PROVE OneOfEach
<1> DEFINE n == 1 + used.overlaps
<1>0. n \in Nat
  BY CallDoes
<1>1. ASSUME NEW b \in Buyers, NEW p \in Products
      PROVE  /\ Cardinality(ReviewsBy(b, p)) <= n
             /\ \A k \in ReviewsBy(b, p) : /\ Cardinality(reviews[k].images) <= n
                                           /\ order[reviews[k].order].buyer = b
                                           /\ order[reviews[k].order].product = p
                                           /\ order[reviews[k].order].paid
  <2>1. Cardinality(ReviewsBy(b, p)) <= n
    <3>1. AtMost(Claims(ReviewsBy(b, p), ReviewCallers(b, p), req), n)
      BY DEF OnceInv, ReviewsOnce
    <3> QED
      BY <1>0, <3>1, RowsFewer
  <2>2. ASSUME NEW k \in ReviewsBy(b, p)
        PROVE  /\ Cardinality(reviews[k].images) <= n
               /\ order[reviews[k].order].buyer = b /\ order[reviews[k].order].product = p
               /\ order[reviews[k].order].paid
    <3>1. k \in DOMAIN reviews /\ reviews[k].buyer = b /\ reviews[k].product = p
      BY DEF ReviewsBy, ReviewsOf
    <3>2. Few(reviews[k].images, k, req, n)
      BY <3>1 DEF OnceInv, PhotosOnce
    <3>3. Bought(reviews[k].order, b, p)
      BY <3>1 DEF OnceInv, ReviewsBought
    <3> QED
      BY <1>0, <3>2, <3>3, ImagesFewer DEF Bought
  <2> QED
    BY <2>1, <2>2
<1>2. ASSUME NEW b \in Buyers, NEW s \in Stores
      PROVE  /\ Cardinality(StoreReviewsBy(b, s)) <= n
             /\ \A k \in StoreReviewsBy(b, s) :
                  order[storeReviews[k].order].buyer = b
                    /\ order[storeReviews[k].order].status = "DELIVERED"
  <2>1. AtMost(Claims(StoreReviewsBy(b, s), StoreReviewCallers(b, s), req), n)
    BY DEF OnceInv, StoreReviewsOnce
  <2>2. Cardinality(StoreReviewsBy(b, s)) <= n
    BY <1>0, <2>1, RowsFewer
  <2>3. \A k \in StoreReviewsBy(b, s) : Delivered(storeReviews[k].order, b)
    BY DEF OnceInv, ReviewsBought, StoreReviewsBy
  <2> QED
    BY <2>2, <2>3 DEF Delivered
<1>3. ASSUME NEW c \in Names, KindOf[c] # "menu"
      PROVE  Cardinality(SameName(c)) <= IF IsCategory(c) /\ OwnerOf[c] # "none" THEN 1 ELSE n
  <2>1. AtMost(Claims(SameName(c), NameCallers(c), req), n)
    BY <1>3 DEF OnceInv, NamesOnce
  <2>2. Cardinality(SameName(c)) <= n
    BY <1>0, <2>1, RowsFewer
  <2>3. IsCategory(c) /\ OwnerOf[c] # "none" => Cardinality(SameName(c)) <= 1
    BY DEF OnceInv, IndexedOnce, AtMost
  <2> QED
    BY <2>2, <2>3
<1>4. ASSUME NEW c \in Coupons
      PROVE  Cardinality(Twins(c)) <= IF CouponStore[c] # "none" THEN 1 ELSE n
  <2>1. AtMost(Claims(Twins(c), CouponCallers(c), req), n)
    BY DEF OnceInv, CouponsOnce
  <2>2. Cardinality(Twins(c)) <= n
    BY <1>0, <2>1, RowsFewer
  <2>3. CouponStore[c] # "none" => Cardinality(Twins(c)) <= 1
    BY DEF OnceInv, IndexedOnce, AtMost
  <2> QED
    BY <2>2, <2>3
<1>5. ASSUME NEW e \in Endpoints
      PROVE  Cardinality(RowsOf(e)) <= n
  <2>1. AtMost(Claims(RowsOf(e), PushCallers(e), req), n)
    BY DEF OnceInv, BrowsersOnce
  <2> QED
    BY <1>0, <2>1, RowsFewer
<1> QED
  BY <1>1, <1>2, <1>3, <1>4, <1>5 DEF OneOfEach

\* At first there is one category, the coupons that differ, and perhaps an order.
LEMMA InitOnce == Init => OnceInv
<1> SUFFICES ASSUME Init
             PROVE  OnceInv
  OBVIOUS
<1>1. \A r \in Requests : req[r] = Idle
  BY DEF Init
<1>2. used.overlaps = 0 /\ 1 + used.overlaps = 1
  BY DEF Init
<1>3. reviews = << >> /\ storeReviews = << >> /\ push = << >>
  BY DEF Init
<1>4. \A S : S = {} \/ (\E x : S = {x}) => AtMost(S, 1)
  <2>1. AtMost({}, 1)
    BY FS_EmptySet DEF AtMost
  <2>2. ASSUME NEW x PROVE AtMost({x}, 1)
    <3>1. IsFiniteSet({x}) /\ Cardinality({x}) = 1
      BY FS_Singleton
    <3> QED
      BY <3>1 DEF AtMost
  <2> QED
    BY <2>1, <2>2
<1>5. \A S : (\A x, y \in S : x = y) => AtMost(S, 1)
  BY <1>4
<1>6. ASSUME NEW found, \A x, y \in found : x = y
      PROVE  AtMost(Claims(found, {}, req), 1 + used.overlaps)
  <2>1. \A x, y \in Claims(found, {}, req) : x = y
    BY <1>6 DEF Claims
  <2> QED
    BY <1>2, <1>5, <2>1
<1>7. Runners = {} /\ AtMost(Runners, 1 + used.overlaps)
  BY <1>1, <1>2, <1>4 DEF Runners, Running
<1>8. \A r \in Requests : FindsNothing(req[r])
  BY <1>1 DEF FindsNothing, Idle
<1>9. /\ \A b, p : ReviewsBy(b, p) = {} /\ ReviewCallers(b, p) = {}
      /\ \A b, s : StoreReviewsBy(b, s) = {} /\ StoreReviewCallers(b, s) = {}
      /\ \A e : RowsOf(e) = {} /\ PushCallers(e) = {}
  <2>1. \A b, p : ReviewsBy(b, p) = {} /\ ReviewCallers(b, p) = {}
    BY <1>1, <1>3 DEF ReviewsBy, ReviewsOf, ReviewCallers, ReviewCaller, Idle
  <2>2. \A b, s : StoreReviewsBy(b, s) = {} /\ StoreReviewCallers(b, s) = {}
    BY <1>1, <1>3 DEF StoreReviewsBy, StoreReviewCallers, StoreReviewCaller, Idle
  <2>3. \A e : RowsOf(e) = {} /\ PushCallers(e) = {}
    BY <1>1, <1>3 DEF RowsOf, PushCallers, PushCaller, Idle
  <2> QED
    BY <2>1, <2>2, <2>3
<1>10. ReviewsOnce /\ StoreReviewsOnce /\ BrowsersOnce
  BY <1>6, <1>9 DEF ReviewsOnce, StoreReviewsOnce, BrowsersOnce
<1>11. \A n \in Names : NameCallers(n) = {} /\ \A x, y \in SameName(n) : x = y
  BY <1>1 DEF Init, NameCallers, NameCaller, Idle, SameName, There
<1>12. \A c \in Coupons : CouponCallers(c) = {} /\ \A x, y \in Twins(c) : x = y
  BY <1>1, MarketplaceAssumption DEF Init, CouponCallers, CouponCaller, Idle, Twins
<1>13. \A b, code : UseCallers(b, code) = {}
  BY <1>1 DEF UseCallers, UseCaller, Idle
<1>14. ASSUME NEW b \in Buyers, NEW code \in Codes
       PROVE  \A x, y \in UsesBy(b, code) : x = y
  BY PromotionsAssumption DEF Init, UsesBy, Orders, Codes, NewOrder
<1>15. NamesOnce /\ CouponsOnce /\ UsesOnce
  BY <1>6, <1>11, <1>12, <1>13, <1>14 DEF NamesOnce, CouponsOnce, UsesOnce
<1>16. IndexedOnce
  BY <1>5, <1>11, <1>12 DEF IndexedOnce
<1>17. ReviewsBought
  BY <1>1, <1>3 DEF ReviewsBought, Idle
<1>18. PhotosOnce
  BY <1>3 DEF PhotosOnce
<1> QED
  BY <1>7, <1>8, <1>10, <1>15, <1>16, <1>17, <1>18 DEF OnceInv

\* What the handlers look for before they insert it is there once, but for one more for
\* each request that overlaps another.
THEOREM OneOfEachHolds == Spec => []OneOfEach
<1>1. Init => OnceInv
  BY InitOnce
<1>2. TypeInv /\ OnceInv /\ [Next]_vars => OnceInv'
  <2> SUFFICES ASSUME TypeInv, OnceInv, [Next]_vars
               PROVE  OnceInv'
    OBVIOUS
  <2>1. ASSUME NEW r \in Requests, (Free(r) /\ Begin(r)) \/ (Running(r) /\ Run(r))
        PROVE  OnceInv'
    BY <2>1, OnceStep DEF Moves
  <2> QED
    BY <2>1, OnceLasts DEF Next
<1>3. TypeInv /\ OnceInv => OneOfEach
  BY OnceIsOneOfEach
<1> QED
  BY <1>1, <1>2, <1>3, InitTypes, NextTypes, PTL DEF Spec

-----------------------------------------------------------------------------
(* What a coupon grants *)

\* Requests that validated coupon c and did not count its use yet; those of them that will
\* place an order with the code.
User(q, c) == q.pc \in {"uses", "place", "increment"} /\ q.key = c /\ q.key # "none"
Users(c, qs) == {r \in Requests : User(qs[r], c)}
Asks(q, code) == q.pc \in {"uses", "place"} /\ q.key # "none" /\ CodeOf[q.key] = code
Held(code) ==
    {<<"order", o>> : o \in OrdersWith(code)}
    \cup {<<"request", r>> : r \in {s \in Requests : Asks(req[s], code)}}

\* What of a coupon is used up, or will be by the requests that validated it.
SpentOf(row, limit, users) ==
    LET n == row.used + Cardinality(users)
    IN  CASE row.state = "NEW"     -> 0
          [] row.state = "REMOVED" -> limit
          [] OTHER                 -> IF n < limit THEN n ELSE limit
SpentOn(c) == SpentOf(coupon[c], MaxUses[c], Users(c, req))
SpentEach == [c \in Coupons |-> SpentOn(c)]
OfCode(code) == {c \in Coupons : CodeOf[c] = code}
Spent(code) == SumOf(SpentEach, OfCode(code))
Terms(code) == Spent(code) + used.overlaps + used.faults

\* Orders with a code and requests that will place one spend what its coupons grant, but
\* for those that overlapped another or died before they counted their use.
InsertsNew ==
    \A r \in Requests : req[r].pc = "insertCoupon" =>
      /\ coupon[req[r].key].state = "NEW"
      /\ \A s \in Requests : req[s].pc = "insertCoupon" /\ req[s].key = req[r].key => s = r
TermsInv == InsertsNew /\ \A code \in Codes : AtMost(Held(code), Terms(code))

\* Those who use a coupon are running.
LEMMA UsersAreFew ==
    ASSUME NEW qs, NEW n, AtMost({r \in Requests : qs[r] # Idle}, n), NEW c
    PROVE  IsFiniteSet(Users(c, qs)) /\ Cardinality(Users(c, qs)) \in Nat
<1>1. Users(c, qs) \subseteq {r \in Requests : qs[r] # Idle}
  BY DEF Users, User, Idle
<1> QED
  BY <1>1, FS_Subset, FS_CardinalityType DEF AtMost

\* What is spent of a coupon is between nothing and its limit.
LEMMA SpentRange ==
    ASSUME NEW row \in CouponRow, NEW limit \in Nat, NEW users, Cardinality(users) \in Nat
    PROVE  SpentOf(row, limit, users) \in 0..limit
  BY DEF SpentOf, CouponRow

\* A request that validated a coupon spends one use of it, unless others were about to use
\* up the rest.
LEMMA SpentMore ==
    ASSUME NEW row \in CouponRow, NEW limit \in Nat, NEW users, IsFiniteSet(users),
           row.state = "LIVE", row.used < limit, NEW r, r \notin users
    PROVE  \/ SpentOf(row, limit, users \cup {r}) = SpentOf(row, limit, users) + 1
           \/ SpentOf(row, limit, users \cup {r}) = SpentOf(row, limit, users) /\ users # {}
<1>1. /\ Cardinality(users) \in Nat /\ Cardinality(users \cup {r}) = Cardinality(users) + 1
      /\ (users = {} => Cardinality(users) = 0)
  BY FS_AddElement, FS_CardinalityType, FS_EmptySet
<1> QED
  BY <1>1 DEF SpentOf, CouponRow

\* One that gives up, or dies, gives back one use at most.
LEMMA SpentLess ==
    ASSUME NEW row \in CouponRow, NEW limit \in Nat, NEW users, IsFiniteSet(users),
           NEW r \in users
    PROVE  SpentOf(row, limit, users) - 1 <= SpentOf(row, limit, users \ {r})
<1>1. /\ Cardinality(users) \in Nat /\ Cardinality(users \ {r}) = Cardinality(users) - 1
      /\ Cardinality(users \ {r}) \in Nat
  BY FS_RemoveElement, FS_CardinalityType, FS_Subset
<1> QED
  BY <1>1 DEF SpentOf, CouponRow

\* One that counts its use leaves what is spent as it was.
LEMMA SpentCounted ==
    ASSUME NEW row \in CouponRow, NEW limit \in Nat, NEW users, IsFiniteSet(users),
           NEW r \in users
    PROVE  SpentOf([row EXCEPT !.used = IF row.state = "LIVE" THEN @ + 1 ELSE @],
                   limit, users \ {r})
             = SpentOf(row, limit, users)
<1>1. /\ Cardinality(users) \in Nat /\ Cardinality(users \ {r}) = Cardinality(users) - 1
      /\ Cardinality(users \ {r}) \in Nat
  BY FS_RemoveElement, FS_CardinalityType, FS_Subset
<1> QED
  BY <1>1 DEF SpentOf, CouponRow

\* A coupon that is inserted, removed or used by others spends no less.
LEMMA SpentNoLess ==
    ASSUME NEW row \in CouponRow, NEW next \in CouponRow, NEW limit \in Nat, NEW users,
           Cardinality(users) \in Nat,
           \/ row.state = "NEW"
           \/ next = [row EXCEPT !.state = "REMOVED"]
           \/ next = [row EXCEPT !.used = IF row.state = "LIVE" THEN @ + 1 ELSE @]
    PROVE  SpentOf(row, limit, users) <= SpentOf(next, limit, users)
  BY DEF SpentOf, CouponRow

\* The sums, with the types they have when few requests run.
LEMMA SpentTypes ==
    ASSUME TypeInv, AtMost(Runners, 1 + used.overlaps)
    PROVE  /\ \A c \in Coupons : coupon[c] \in CouponRow /\ MaxUses[c] \in Nat
                                 /\ IsFiniteSet(Users(c, req))
                                 /\ Cardinality(Users(c, req)) \in Nat /\ SpentOn(c) \in Nat
                                 /\ SpentOn(c) <= MaxUses[c]
           /\ \A code : IsFiniteSet(OfCode(code)) /\ Spent(code) \in Nat
           /\ used.overlaps \in Nat /\ used.faults \in Nat
           /\ \A code : Terms(code) \in Nat
<1>1. /\ \A c \in Coupons : coupon[c] \in CouponRow /\ MaxUses[c] \in Nat
      /\ IsFiniteSet(Coupons)
  BY PromotionsAssumption DEF TypeInv, TablesOK, PromotionsOK
<1>2. used.overlaps \in Nat /\ used.faults \in Nat
  BY StorefrontAssumption DEF TypeInv, UsedOK
<1>3. \A c : IsFiniteSet(Users(c, req)) /\ Cardinality(Users(c, req)) \in Nat
  BY UsersAreFew DEF Runners, Running
<1>4. \A c \in Coupons : SpentOn(c) \in Nat /\ SpentOn(c) <= MaxUses[c]
  <2>1. ASSUME NEW c \in Coupons
        PROVE  SpentOn(c) \in 0..MaxUses[c]
    BY <1>1, <1>3, SpentRange DEF SpentOn
  <2> QED
    BY <1>1, <2>1
<1>5. ASSUME NEW code
      PROVE  IsFiniteSet(OfCode(code)) /\ Spent(code) \in Nat
  <2>1. IsFiniteSet(OfCode(code))
    BY <1>1, FS_Subset DEF OfCode
  <2>2. \A c \in OfCode(code) : SpentEach[c] \in Nat
    BY <1>4 DEF OfCode, SpentEach
  <2> QED
    BY <2>1, <2>2, SumOfNats DEF Spent
<1> QED
  BY <1>1, <1>2, <1>3, <1>4, <1>5 DEF Terms

\* When one coupon changes, so does what is spent of its code, by as much.
LEMMA SpentMoves ==
    ASSUME TypeInv, AtMost(Runners, 1 + used.overlaps),
           TypeInv', AtMost(Runners', 1 + used'.overlaps),
           NEW c, \A d \in Coupons : d # c => SpentOn(d)' = SpentOn(d), NEW code
    PROVE  /\ Spent(code)' = Spent(code)
                              + (IF c \in OfCode(code) THEN SpentOn(c)' - SpentOn(c) ELSE 0)
           /\ Spent(code)' \in Nat /\ \A d \in Coupons : SpentOn(d)' \in Nat
<1> DEFINE f == SpentEach
           g == SpentEach'
           S == OfCode(code)
<1>1. IsFiniteSet(S) /\ S \subseteq Coupons
  BY SpentTypes DEF OfCode
<1>2. /\ \A d \in Coupons : f[d] = SpentOn(d) /\ SpentOn(d) \in Nat
      /\ \A d \in Coupons : g[d] = SpentOn(d)'
  BY SpentTypes DEF SpentEach
<1>3. \A d \in Coupons : SpentOn(d)' \in Nat
  <2>1. \A d \in Coupons : /\ coupon'[d] \in CouponRow /\ MaxUses[d] \in Nat
    BY PromotionsAssumption DEF TypeInv, TablesOK, PromotionsOK
  <2>2. \A d : IsFiniteSet(Users(d, req')) /\ Cardinality(Users(d, req')) \in Nat
    BY UsersAreFew DEF Runners, Running
  <2>3. ASSUME NEW d \in Coupons
        PROVE  SpentOn(d)' \in 0..MaxUses[d]
    <3>1. SpentOf(coupon'[d], MaxUses[d], Users(d, req')) \in 0..MaxUses[d]
      BY <2>1, <2>2, SpentRange
    <3> QED
      BY <3>1 DEF SpentOn
  <2> QED
    BY <2>1, <2>3
<1>4. Spent(code) = SumOf(f, S) /\ Spent(code)' = SumOf(g, S)
  BY DEF Spent, OfCode
<1>5. SumOf(f, S) \in Int
  BY SpentTypes DEF Spent
<1>6. \A d \in S : d # c => g[d] = f[d]
  BY <1>1, <1>2
<1>7. \A d \in S : f[d] \in Int /\ g[d] \in Int
  BY <1>1, <1>2, <1>3
<1>8. c \in S => f[c] = SpentOn(c) /\ g[c] = SpentOn(c)'
  BY <1>1, <1>2
<1>11. Spent(code)' \in Nat
  <2>1. \A d \in S : g[d] \in Nat
    BY <1>1, <1>2, <1>3
  <2> QED
    BY <1>1, <1>4, <2>1, SumOfNats
<1> HIDE DEF f, g, S
<1>9. c \in S => SumOf(g, S) = SumOf(f, S) + (g[c] - f[c])
  BY <1>1, <1>6, <1>7, SumChange
<1>10. c \notin S => SumOf(g, S) = SumOf(f, S)
  BY <1>1, <1>6, SumSame
<1>12. Spent(code)' = Spent(code) + (IF c \in S THEN SpentOn(c)' - SpentOn(c) ELSE 0)
  BY <1>4, <1>5, <1>8, <1>9, <1>10
<1> QED
  BY <1>3, <1>11, <1>12 DEF S

\* A request that uses a coupon goes through these statements.
LEMMA UserRuns ==
    ASSUME TypeInv, NEW r \in Requests, Moves(r), NEW c, User(req[r], c)
    PROVE  /\ c \in Coupons /\ c # "none" /\ req[r].key = c /\ Running(r)
           /\ \/ CountUses(r) /\ req[r].pc = "uses"
              \/ PlaceOrder(r) /\ req[r].pc = "place"
              \/ Increment(r) /\ req[r].pc = "increment"
              \/ Die(r)
<1>1. req[r].pc \in {"uses", "place", "increment"} /\ req[r].key = c /\ c # "none"
  BY DEF User
<1>2. c \in Coupons
  BY <1>1 DEF TypeInv, RequestsHold, Holding, HoldsKey
<1>3. Running(r) /\ Run(r)
  BY <1>1 DEF Moves, Free, Running, Idle
<1>4. PromotionRun(r) \/ Die(r)
  BY <1>1, <1>3 DEF Run, StoreRun, InsertStore, SaveStore, CatalogueRun, InsertName, SaveName, Hide,
         InsertProduct, SaveProduct,
         InsertRow, InsertFavorite, DeleteRows, DeleteProduct, EraseStore, SaveReview, ClearPhotos,
         InsertPhotos, SaveStoreReview, LiveRun, SavePush, Send, Drop
<1>5. CASE PromotionRun(r)
  BY <1>1, <1>2, <1>3, <1>5 DEF PromotionRun, InsertCoupon, CountUses, PlaceOrder, Sell,
         Increment, InsertAd, Raise, CancelAd, Lower, LowerAll, ExpireAds, InsertSub, FindLatest,
         Extend, CancelSub
<1> QED
  BY <1>1, <1>2, <1>3, <1>4, <1>5

\* A request that did not use a coupon comes to use one by validating it.
LEMMA UserComes ==
    ASSUME TypeInv, NEW r \in Requests, Moves(r), \A c : ~User(req[r], c), NEW c, User(req'[r], c)
    PROVE  /\ Free(r) /\ c \in Coupons /\ c # "none" /\ req'[r].pc = "uses"
           /\ \E b \in Buyers, p \in Products : BeginOrderWith(r, b, p, c)
<1>1. req'[r].pc \in {"uses", "place", "increment"} /\ req'[r].key = c /\ c # "none"
  BY DEF User
<1>2. CASE req'[r].pc = "uses"
  <2>1. PICK b \in Buyers, p \in Products, d \in Coupons : Free(r) /\ BeginOrderWith(r, b, p, d)
    BY <1>2, Entering
  <2>2. d = c
    BY <1>1, <2>1, OrderCalled
  <2> QED
    BY <1>1, <1>2, <2>1, <2>2
<1>3. ~(Running(r) /\ CountUses(r) /\ req'[r].pc = "place")
  <2> SUFFICES ASSUME Running(r), CountUses(r), req'[r].pc = "place"
               PROVE  FALSE
    OBVIOUS
  <2>1. req'[r] = [req[r] EXCEPT !.pc = "place"] /\ req[r].pc = "uses"
    BY StepDoes DEF CountUses, Return, Goto, Idle
  <2>2. req[r].key = c
    BY <1>1, <2>1, StepDoes DEF Request
  <2> QED
    BY <1>1, <2>1, <2>2 DEF User
<1>4. CASE req'[r].pc = "place"
  BY <1>1, <1>3, <1>4, Entering, OrderCalled
<1>5. CASE req'[r].pc = "increment"
  <2>1. PlaceOrder(r)
    BY <1>5, Entering
  <2>2. req'[r] = [Idle EXCEPT !.pc = "increment", !.key = req[r].key] /\ req[r].pc = "place"
    BY <1>5, <2>1, StepDoes DEF PlaceOrder, Return, Goto, Idle
  <2>3. req[r].key = c
    BY <1>1, <2>2 DEF Idle
  <2> QED
    BY <1>1, <2>2, <2>3 DEF User
<1> QED
  BY <1>1, <1>2, <1>4, <1>5

\* Orders with a code are placed one by one.
LEMMA OrdersWithMove ==
    ASSUME TypeInv, NEW r \in Requests, Moves(r), NEW code \in Codes
    PROVE  \/ OrdersWith(code)' \subseteq OrdersWith(code)
           \/ /\ PlaceOrder(r) /\ req[r].key # "none" /\ CodeOf[req[r].key] = code
              /\ req'[r] = [Idle EXCEPT !.pc = "increment", !.key = req[r].key]
              /\ \E o : OrdersWith(code)' \subseteq OrdersWith(code) \cup {o}
<1>1. order \in Seq(OrderRow)
  BY DEF TypeInv, TablesOK, ShopOK
<1>2. CASE order' = order
  BY <1>2 DEF OrdersWith, Orders
<1>3. CASE PlaceOrder(r)
  <2> DEFINE q == req[r]
             o == NewOrder(q.buyer, q.product, IF q.key = "none" THEN "none" ELSE CodeOf[q.key])
  <2>1. \/ order' = order
        \/ /\ order' = Append(order, o)
           /\ q.key # "none" => req'[r] = [Idle EXCEPT !.pc = "increment", !.key = q.key]
    BY <1>3, StepDoes DEF PlaceOrder, Goto
  <2>2. o.coupon = (IF q.key = "none" THEN "none" ELSE CodeOf[q.key]) /\ code # "none"
    BY PromotionsAssumption DEF NewOrder, Codes
  <2> HIDE DEF o
  <2>3. CASE order' = Append(order, o)
    <3>1. \A i \in DOMAIN order' : \/ i = Len(order) + 1 /\ order'[i] = o
                                   \/ i \in DOMAIN order /\ order'[i] = order[i]
      BY <1>1, <2>3
    <3>2. OrdersWith(code)' \subseteq OrdersWith(code) \cup {Len(order) + 1}
      BY <3>1 DEF OrdersWith, Orders
    <3>3. o.coupon # code => OrdersWith(code)' \subseteq OrdersWith(code)
      BY <3>1 DEF OrdersWith, Orders
    <3> QED
      BY <1>2, <1>3, <2>1, <2>2, <3>2, <3>3
  <2> QED
    BY <1>2, <2>1, <2>3
<1>4. ASSUME NEW o \in Orders, Progress(r, o)
      PROVE  OrdersWith(code)' \subseteq OrdersWith(code)
  <2>1. DOMAIN order' = DOMAIN order
    BY <1>1, <1>4 DEF Progress
  <2>2. \A i \in DOMAIN order : order'[i].coupon = order[i].coupon
    BY OrdersLast DEF Orders
  <2> QED
    BY <2>1, <2>2 DEF OrdersWith, Orders
<1> QED
  BY <1>2, <1>3, <1>4, CallTouches, RunTouches DEF Moves

\* Overlaps and deaths are counted.
LEMMA CountsGrow ==
    ASSUME TypeInv, NEW r \in Requests, Moves(r)
    PROVE  /\ used.overlaps \in Nat /\ used.faults \in Nat
           /\ used'.overlaps \in Nat /\ used'.faults \in Nat
           /\ used.overlaps <= used'.overlaps /\ used.faults <= used'.faults
           /\ Free(r) /\ Begin(r) /\ Overlaps(r) => used'.overlaps = used.overlaps + 1
           /\ Running(r) /\ Die(r) => used'.faults = used.faults + 1
<1>1. /\ used.overlaps \in Nat /\ used.faults \in Nat /\ used'.overlaps \in Nat
      /\ used.overlaps <= used'.overlaps
  BY MovesCount, StorefrontAssumption DEF TypeInv, UsedOK
<1>2. CASE Free(r) /\ Begin(r)
  <2>1. Calls(r)
    BY <1>2, BeginCalls
  <2>2. ~Die(r)
    BY <1>2 DEF Die, Free
  <2> QED
    BY <1>1, <2>1, <2>2 DEF Calls
<1>3. CASE Running(r) /\ Goes(r) /\ ~Die(r)
  BY <1>1, <1>3 DEF Goes, Free
<1>4. CASE Running(r) /\ Die(r)
  BY <1>1, <1>4, CallDoes DEF Die, Free
<1> QED
  BY <1>2, <1>3, <1>4, RunGoes DEF Moves

\* What may happen to a coupon but for a use that is counted.
CouponGoes(c) ==
    \/ coupon'[c] = coupon[c]
    \/ coupon[c].state = "NEW"
    \/ coupon'[c] = [coupon[c] EXCEPT !.state = "REMOVED"]
    \/ coupon'[c] = [coupon[c] EXCEPT !.used = IF coupon[c].state = "LIVE" THEN @ + 1 ELSE @]

\* One step changes one coupon.
LEMMA CouponsMoveAlone ==
    ASSUME TypeInv, InsertsNew, NEW r \in Requests, Moves(r)
    PROVE  \E c : \A d \in Coupons : IF d = c THEN CouponGoes(c) ELSE coupon'[d] = coupon[d]
<1>0. coupon \in [Coupons -> CouponRow] /\ \A c \in Coupons : coupon[c] \in CouponRow
  BY DEF TypeInv, TablesOK, PromotionsOK
<1>1. CASE coupon' = coupon
  BY <1>1 DEF CouponGoes
<1>2. ASSUME NEW c \in Coupons, RemoveCoupon(r, c)
      PROVE  \A d \in Coupons : IF d = c THEN CouponGoes(c) ELSE coupon'[d] = coupon[d]
  BY <1>0, <1>2 DEF RemoveCoupon, CouponGoes
<1>3. CASE InsertCoupon(r)
  <2>1. coupon[req[r].key].state = "NEW"
    BY <1>3 DEF InsertCoupon, InsertsNew
  <2>2. \A d \in Coupons : d # req[r].key => coupon'[d] = coupon[d]
    BY <1>0, <1>3 DEF InsertCoupon
  <2> QED
    BY <2>1, <2>2 DEF CouponGoes
<1>4. CASE Increment(r)
  <2>1. coupon' = [coupon EXCEPT ![req[r].key].used =
                     IF coupon[req[r].key].state = "LIVE" THEN @ + 1 ELSE @]
    BY <1>4 DEF Increment
  <2> QED
    BY <1>0, <2>1 DEF CouponGoes
<1> QED
  BY <1>1, <1>2, <1>3, <1>4, CallTouches, RunTouches DEF Moves

\* Other steps: no coupon and no order of its code is used less.
LEMMA TermsBeside ==
    ASSUME TypeInv, AtMost(Runners, 1 + used.overlaps),
           TypeInv', AtMost(Runners', 1 + used'.overlaps), InsertsNew,
           NEW r \in Requests, Moves(r), \A c : ~User(req[r], c) /\ ~User(req'[r], c),
           NEW code \in Codes, AtMost(Held(code), Terms(code))
    PROVE  AtMost(Held(code)', Terms(code)')
<1>1. \A s \in Requests : s # r => req'[s] = req[s]
  BY MovesCount
<1>2. \A c : Users(c, req') = Users(c, req)
  BY <1>1 DEF Users
<1>4. PICK c : \A d \in Coupons : IF d = c THEN CouponGoes(c) ELSE coupon'[d] = coupon[d]
  BY CouponsMoveAlone
<1>5. \A d \in Coupons : d # c => SpentOn(d)' = SpentOn(d)
  BY <1>2, <1>4 DEF SpentOn
<1>6. c \in Coupons => SpentOn(c) <= SpentOn(c)'
  <2> SUFFICES ASSUME c \in Coupons
               PROVE  SpentOn(c) <= SpentOn(c)'
    OBVIOUS
  <2>1. coupon[c] \in CouponRow /\ coupon'[c] \in CouponRow /\ MaxUses[c] \in Nat
        /\ Cardinality(Users(c, req)) \in Nat
    BY SpentTypes DEF TypeInv, TablesOK, PromotionsOK
  <2>2. SpentOf(coupon[c], MaxUses[c], Users(c, req))
          <= SpentOf(coupon'[c], MaxUses[c], Users(c, req))
    <3>1. CASE coupon'[c] = coupon[c]
      <4>1. SpentOf(coupon[c], MaxUses[c], Users(c, req)) \in 0..MaxUses[c]
        BY <2>1, SpentRange
      <4> QED
        BY <2>1, <3>1, <4>1
    <3>2. CASE coupon'[c] # coupon[c]
      BY <1>4, <2>1, <3>2, SpentNoLess DEF CouponGoes
    <3> QED
      BY <3>1, <3>2
  <2> QED
    BY <1>2, <2>2 DEF SpentOn
<1>7. Terms(code) \in Nat /\ Terms(code)' \in Nat /\ Terms(code) <= Terms(code)'
  <2>1. used.faults <= used'.faults /\ used.overlaps <= used'.overlaps
        /\ used'.overlaps \in Nat /\ used'.faults \in Nat
    BY CountsGrow
  <2>2. /\ Spent(code)' = Spent(code)
                          + (IF c \in OfCode(code) THEN SpentOn(c)' - SpentOn(c) ELSE 0)
        /\ Spent(code)' \in Nat /\ \A d \in Coupons : SpentOn(d)' \in Nat
    BY <1>5, SpentMoves
  <2>3. c \in OfCode(code) => SpentOn(c) \in Nat /\ SpentOn(c)' \in Nat /\ SpentOn(c) <= SpentOn(c)'
    BY <1>6, <2>2, SpentTypes DEF OfCode
  <2>4. Spent(code) \in Nat /\ used.overlaps \in Nat /\ used.faults \in Nat
    BY SpentTypes
  <2>5. Spent(code)' \in Nat /\ Spent(code) <= Spent(code)'
    BY <2>2, <2>3, <2>4
  <2> QED
    BY <2>1, <2>4, <2>5 DEF Terms
<1>8. Held(code)' \subseteq Held(code)
  <2>1. OrdersWith(code)' \subseteq OrdersWith(code)
    BY OrdersWithMove DEF User, PlaceOrder
  <2>2. \A s \in Requests : Asks(req'[s], code) => Asks(req[s], code)
    BY <1>1 DEF Asks, User
  <2> QED
    BY <2>1, <2>2 DEF Held
<1> QED
  BY <1>7, <1>8, AtMostFewer

\* A request validates a coupon.
LEMMA TermsValidated ==
    ASSUME TypeInv, AtMost(Runners, 1 + used.overlaps),
           TypeInv', AtMost(Runners', 1 + used'.overlaps),
           NEW r \in Requests, Moves(r), \A c : ~User(req[r], c), NEW c, User(req'[r], c),
           NEW code \in Codes, AtMost(Held(code), Terms(code))
    PROVE  AtMost(Held(code)', Terms(code)')
<1>1. \A s \in Requests : s # r => req'[s] = req[s]
  BY MovesCount
<1>2. /\ Free(r) /\ c \in Coupons /\ c # "none" /\ req'[r].pc = "uses"
      /\ \E b \in Buyers, p \in Products : BeginOrderWith(r, b, p, c)
  BY UserComes
<1>3. /\ coupon' = coupon /\ coupon[c].state = "LIVE" /\ coupon[c].used < MaxUses[c]
      /\ req'[r].key = c /\ Begin(r)
  BY <1>2, OrderCalled DEF BeginOrderWith, Validates, HasUsesLeft, promotions, User, Moves, Free
<1>4. Users(c, req') = Users(c, req) \cup {r} /\ r \notin Users(c, req)
  BY <1>1 DEF Users
<1>5. \A d : d # c => Users(d, req') = Users(d, req)
  BY <1>1, <1>3 DEF Users, User
<1>6. \A d \in Coupons : d # c => SpentOn(d)' = SpentOn(d)
  BY <1>3, <1>5 DEF SpentOn
<1>7. \/ SpentOn(c)' = SpentOn(c) + 1
      \/ SpentOn(c)' = SpentOn(c) /\ used'.overlaps = used.overlaps + 1
  <2>1. \/ SpentOf(coupon[c], MaxUses[c], Users(c, req) \cup {r})
             = SpentOf(coupon[c], MaxUses[c], Users(c, req)) + 1
        \/ /\ SpentOf(coupon[c], MaxUses[c], Users(c, req) \cup {r})
                = SpentOf(coupon[c], MaxUses[c], Users(c, req))
           /\ Users(c, req) # {}
    BY <1>2, <1>3, <1>4, SpentTypes, SpentMore
  <2>2. Users(c, req) # {} => Overlaps(r)
    BY <1>4 DEF Users, User, Overlaps, Running, Idle
  <2> QED
    BY <1>2, <1>3, <1>4, <2>1, <2>2, CountsGrow DEF SpentOn
<1>8. /\ Spent(code)' = Spent(code)
                        + (IF c \in OfCode(code) THEN SpentOn(c)' - SpentOn(c) ELSE 0)
      /\ Spent(code)' \in Nat /\ SpentOn(c)' \in Nat
  BY <1>2, <1>6, SpentMoves
<1>9. /\ Spent(code) \in Nat /\ SpentOn(c) \in Nat
      /\ used.overlaps \in Nat /\ used'.overlaps \in Nat /\ used.faults \in Nat
      /\ used'.faults \in Nat /\ used.overlaps <= used'.overlaps /\ used.faults <= used'.faults
  BY <1>2, SpentTypes, CountsGrow
<1>10. OrdersWith(code)' \subseteq OrdersWith(code)
  <2>1. ~PlaceOrder(r)
    BY <1>2 DEF PlaceOrder, Free, Running, Idle
  <2> QED
    BY <2>1, OrdersWithMove
<1>11. CASE CodeOf[c] = code
  <2>1. Terms(code) \in Nat /\ Terms(code)' \in Nat /\ Terms(code) + 1 <= Terms(code)'
    BY <1>2, <1>7, <1>8, <1>9, <1>11 DEF Terms, OfCode
  <2>2. Held(code)' \subseteq Held(code) \cup {<<"request", r>>}
    BY <1>1, <1>10 DEF Held
  <2>3. AtMost(Held(code)', Terms(code) + 1)
    BY <2>1, <2>2, AtMostOneMore
  <2> QED
    BY <2>1, <2>3, AtMostFewer
<1>12. CASE CodeOf[c] # code
  <2>1. Terms(code) \in Nat /\ Terms(code)' \in Nat /\ Terms(code) <= Terms(code)'
    BY <1>8, <1>9, <1>12 DEF Terms, OfCode
  <2>2. \A s \in Requests : Asks(req'[s], code) => Asks(req[s], code)
    BY <1>1, <1>3, <1>12 DEF Asks
  <2>3. Held(code)' \subseteq Held(code)
    BY <1>10, <2>2 DEF Held
  <2> QED
    BY <2>1, <2>3, AtMostFewer
<1> QED
  BY <1>11, <1>12

\* One thing less.
LEMMA AtMostOneLess ==
    ASSUME NEW S, NEW n \in Nat, AtMost(S, n), NEW x \in S, NEW T, T \subseteq S \ {x}
    PROVE  n - 1 \in Nat /\ AtMost(T, n - 1)
<1>1. /\ IsFiniteSet(S \ {x}) /\ Cardinality(S \ {x}) = Cardinality(S) - 1
      /\ Cardinality(S) \in Nat /\ Cardinality(S \ {x}) \in Nat
  BY FS_RemoveElement, FS_CardinalityType DEF AtMost
<1>2. n - 1 \in Nat /\ AtMost(S \ {x}, n - 1)
  BY <1>1 DEF AtMost
<1> QED
  BY <1>2, AtMostFewer

\* What becomes of a request that uses a coupon.
LEMMA UserGoes ==
    ASSUME TypeInv, NEW r \in Requests, Moves(r), NEW c, User(req[r], c)
    PROVE  /\ c \in Coupons /\ c # "none" /\ req[r].key = c
           /\ \/ /\ req'[r] = [req[r] EXCEPT !.pc = "place"] /\ req[r].pc = "uses"
                 /\ coupon' = coupon
              \/ /\ req'[r] = [Idle EXCEPT !.pc = "increment", !.key = c] /\ req[r].pc = "place"
                 /\ coupon' = coupon
              \/ /\ req'[r] = Idle /\ coupon' = coupon
                 /\ req[r].pc \in {"uses", "place"} \/ (Running(r) /\ Die(r))
              \/ req'[r] = Idle /\ req[r].pc = "increment" /\ Increment(r)
<1>1. /\ c \in Coupons /\ c # "none" /\ req[r].key = c /\ Running(r)
      /\ \/ CountUses(r) /\ req[r].pc = "uses"
         \/ PlaceOrder(r) /\ req[r].pc = "place"
         \/ Increment(r) /\ req[r].pc = "increment"
         \/ Die(r)
  BY UserRuns
<1>2. Increment(r) \/ coupon' = coupon
  <2>1. Run(r) /\ ~InsertCoupon(r)
    BY <1>1 DEF Moves, Free, User, InsertCoupon
  <2> QED
    BY <2>1, RunTouches
<1>3. CASE CountUses(r) /\ req[r].pc = "uses"
  <2>1. coupon' = coupon
    BY <1>2, <1>3 DEF Increment
  <2> QED
    BY <1>1, <1>3, <2>1, StepDoes DEF CountUses, Goto, Return
<1>4. CASE PlaceOrder(r) /\ req[r].pc = "place"
  <2>1. coupon' = coupon
    BY <1>2, <1>4 DEF Increment
  <2>2. req'[r] = Idle \/ req'[r] = [Idle EXCEPT !.pc = "increment", !.key = c]
    BY <1>1, <1>4, StepDoes DEF PlaceOrder, Goto, Return
  <2> QED
    BY <1>1, <1>4, <2>1, <2>2
<1>5. CASE Increment(r) /\ req[r].pc = "increment"
  BY <1>1, <1>5, StepDoes DEF Increment, Goto, Return
<1>6. CASE Die(r) /\ ~Increment(r)
  BY <1>1, <1>2, <1>6, StepDoes DEF Die
<1>7. CASE Die(r) /\ Increment(r)
  BY <1>1, <1>7, StepDoes DEF Increment, Die
<1> QED
  BY <1>1, <1>3, <1>4, <1>5, <1>6, <1>7

\* While it uses the coupon, an order takes its place, or nothing does.
LEMMA TermsUsed ==
    ASSUME TypeInv, AtMost(Runners, 1 + used.overlaps),
           TypeInv', AtMost(Runners', 1 + used'.overlaps),
           NEW r \in Requests, Moves(r), NEW c, User(req[r], c), req'[r] # Idle,
           NEW code \in Codes, AtMost(Held(code), Terms(code))
    PROVE  AtMost(Held(code)', Terms(code)')
<1>1. \A s \in Requests : s # r => req'[s] = req[s]
  BY MovesCount
<1>2. /\ c \in Coupons /\ c # "none" /\ req[r].key = c /\ coupon' = coupon
      /\ \/ req'[r] = [req[r] EXCEPT !.pc = "place"] /\ req[r].pc = "uses"
         \/ req'[r] = [Idle EXCEPT !.pc = "increment", !.key = c] /\ req[r].pc = "place"
  BY UserGoes
<1>3. req'[r].key = c /\ req'[r].pc \in {"place", "increment"}
      /\ (req'[r].pc = "place" => req[r].pc = "uses")
  BY <1>2, StepDoes DEF Request, Idle
<1>4. \A d : Users(d, req') = Users(d, req)
  BY <1>1, <1>2, <1>3 DEF Users, User
<1>5. \A d \in Coupons : SpentOn(d)' = SpentOn(d)
  BY <1>2, <1>4 DEF SpentOn
<1>6. Terms(code) \in Nat /\ Terms(code)' \in Nat /\ Terms(code) <= Terms(code)'
  <2>1. Spent(code)' = Spent(code) + (IF c \in OfCode(code) THEN SpentOn(c)' - SpentOn(c) ELSE 0)
    BY <1>5, SpentMoves
  <2>2. Spent(code) \in Nat /\ SpentOn(c) \in Nat
    BY <1>2, SpentTypes
  <2>3. Spent(code)' = Spent(code)
    BY <1>2, <1>5, <2>1, <2>2
  <2> QED
    BY <2>2, <2>3, CountsGrow DEF Terms
<1>7. \A s \in Requests : Asks(req'[s], code) => Asks(req[s], code)
  BY <1>1, <1>2, <1>3 DEF Asks
<1>8. CASE OrdersWith(code)' \subseteq OrdersWith(code)
  <2>1. Held(code)' \subseteq Held(code)
    BY <1>7, <1>8 DEF Held
  <2> QED
    BY <1>6, <2>1, AtMostFewer
<1>9. CASE /\ PlaceOrder(r) /\ CodeOf[req[r].key] = code
           /\ req'[r] = [Idle EXCEPT !.pc = "increment", !.key = req[r].key]
           /\ \E o : OrdersWith(code)' \subseteq OrdersWith(code) \cup {o}
  <2>1. PICK o : OrdersWith(code)' \subseteq OrdersWith(code) \cup {o}
    BY <1>9
  <2>2. req'[r].pc = "increment" /\ req[r].pc = "place"
    BY <1>9 DEF Idle, PlaceOrder
  <2>3. Asks(req[r], code) /\ ~Asks(req'[r], code)
    BY <1>2, <1>9, <2>2 DEF Asks
  <2>4. <<"request", r>> \in Held(code)
    BY <2>3 DEF Held
  <2>5. Held(code)' \subseteq (Held(code) \ {<<"request", r>>}) \cup {<<"order", o>>}
    <3>1. ASSUME NEW x \in Held(code)', x # <<"order", o>>
          PROVE  x \in Held(code) \ {<<"request", r>>}
      <4>1. CASE \E p \in OrdersWith(code)' : x = <<"order", p>>
        BY <2>1, <3>1, <4>1 DEF Held
      <4>2. CASE \E s \in Requests : Asks(req'[s], code) /\ x = <<"request", s>>
        BY <1>7, <2>3, <4>2 DEF Held
      <4> QED
        BY <4>1, <4>2 DEF Held
    <3> QED
      BY <3>1
  <2>6. AtMost(Held(code)', Terms(code))
    BY <1>6, <2>4, <2>5, AtMostSwap
  <2> QED
    BY <1>6, <2>6, AtMostFewer
<1> QED
  BY <1>8, <1>9, OrdersWithMove

\* When it is through, its use is counted or given back.
LEMMA TermsGiven ==
    ASSUME TypeInv, AtMost(Runners, 1 + used.overlaps),
           TypeInv', AtMost(Runners', 1 + used'.overlaps),
           NEW r \in Requests, Moves(r), NEW c, User(req[r], c), req'[r] = Idle,
           NEW code \in Codes, AtMost(Held(code), Terms(code))
    PROVE  AtMost(Held(code)', Terms(code)')
<1>1. \A s \in Requests : s # r => req'[s] = req[s]
  BY MovesCount
<1>2. /\ c \in Coupons /\ c # "none" /\ req[r].key = c
      /\ \/ coupon' = coupon /\ (req[r].pc \in {"uses", "place"} \/ (Running(r) /\ Die(r)))
         \/ req[r].pc = "increment" /\ Increment(r)
  BY UserGoes DEF Idle
<1>3. Users(c, req') = Users(c, req) \ {r} /\ r \in Users(c, req)
  BY <1>1 DEF Users, User, Idle
<1>4. \A d : d # c => Users(d, req') = Users(d, req)
  BY <1>1, <1>2 DEF Users, User, Idle
<1>5. OrdersWith(code)' \subseteq OrdersWith(code)
  <2>1. Idle.pc # [Idle EXCEPT !.pc = "increment", !.key = c].pc
    BY DEF Idle
  <2> QED
    BY <1>2, <2>1, OrdersWithMove
<1>6. \A s \in Requests : Asks(req'[s], code) => Asks(req[s], code) /\ s # r
  BY <1>1 DEF Asks, Idle
<1>7. Held(code)' \subseteq Held(code) \ {<<"request", r>>}
  BY <1>5, <1>6 DEF Held
<1>8. coupon[c] \in CouponRow /\ MaxUses[c] \in Nat /\ IsFiniteSet(Users(c, req))
      /\ coupon \in [Coupons -> CouponRow]
  BY <1>2, SpentTypes DEF TypeInv, TablesOK, PromotionsOK
<1>9. /\ Spent(code) \in Nat /\ SpentOn(c) \in Nat /\ Terms(code) \in Nat
      /\ used.overlaps \in Nat /\ used'.overlaps \in Nat /\ used.faults \in Nat
      /\ used'.faults \in Nat /\ used.overlaps <= used'.overlaps /\ used.faults <= used'.faults
  BY <1>2, SpentTypes, CountsGrow
<1>10. CASE Increment(r)
  <2>1. coupon' = [coupon EXCEPT ![c].used = IF coupon[c].state = "LIVE" THEN @ + 1 ELSE @]
    BY <1>2, <1>10 DEF Increment
  <2>2. \A d \in Coupons : d # c => SpentOn(d)' = SpentOn(d)
    BY <1>4, <1>8, <2>1 DEF SpentOn
  <2>3. SpentOn(c)' = SpentOn(c)
    <3>1. coupon'[c] = [coupon[c] EXCEPT !.used = IF coupon[c].state = "LIVE" THEN @ + 1 ELSE @]
      BY <1>2, <1>8, <2>1
    <3>2. SpentOf(coupon'[c], MaxUses[c], Users(c, req'))
            = SpentOf(coupon[c], MaxUses[c], Users(c, req))
      BY <1>3, <1>8, <3>1, SpentCounted
    <3> QED
      BY <3>2 DEF SpentOn
  <2>4. Spent(code)' = Spent(code) + (IF c \in OfCode(code) THEN SpentOn(c)' - SpentOn(c) ELSE 0)
    BY <2>2, SpentMoves
  <2>5. Spent(code)' = Spent(code)
    BY <1>9, <2>3, <2>4
  <2>6. Terms(code)' \in Nat /\ Terms(code) <= Terms(code)'
    BY <1>9, <2>5 DEF Terms
  <2> QED
    BY <1>7, <1>9, <2>6, AtMostFewer
<1>11. CASE coupon' = coupon
  <2>1. \A d \in Coupons : d # c => SpentOn(d)' = SpentOn(d)
    BY <1>4, <1>11 DEF SpentOn
  <2>2. SpentOn(c) - 1 <= SpentOn(c)'
    BY <1>3, <1>8, <1>11, SpentLess DEF SpentOn
  <2>3. /\ Spent(code)' = Spent(code)
                          + (IF c \in OfCode(code) THEN SpentOn(c)' - SpentOn(c) ELSE 0)
        /\ Spent(code)' \in Nat /\ SpentOn(c)' \in Nat
    BY <1>2, <2>1, SpentMoves
  <2>4. CASE c \notin OfCode(code)
    <3>1. Terms(code)' \in Nat /\ Terms(code) <= Terms(code)'
      BY <1>9, <2>3, <2>4 DEF Terms
    <3> QED
      BY <1>7, <1>9, <3>1, AtMostFewer
  <2>5. CASE c \in OfCode(code) /\ req[r].pc \in {"uses", "place"}
    <3>1. <<"request", r>> \in Held(code)
      BY <1>2, <2>5 DEF Held, Asks, OfCode
    <3>2. Terms(code) - 1 \in Nat /\ AtMost(Held(code)', Terms(code) - 1)
      BY <1>7, <1>9, <3>1, AtMostOneLess
    <3>3. Terms(code)' \in Nat /\ Terms(code) - 1 <= Terms(code)'
      BY <1>9, <2>2, <2>3, <2>5 DEF Terms
    <3> QED
      BY <3>2, <3>3, AtMostFewer
  <2>6. CASE Running(r) /\ Die(r)
    <3>1. used'.faults = used.faults + 1
      BY <2>6, CountsGrow
    <3>2. Terms(code)' \in Nat /\ Terms(code) <= Terms(code)'
      BY <1>9, <2>2, <2>3, <3>1 DEF Terms
    <3> QED
      BY <1>7, <1>9, <3>2, AtMostFewer
  <2>7. CASE Increment(r)
    BY <1>10, <2>7
  <2> QED
    BY <1>2, <2>4, <2>5, <2>6, <2>7
<1> QED
  BY <1>2, <1>10, <1>11

\* A coupon row is inserted by the one request that has it.
LEMMA InsertsNewStep ==
    ASSUME TypeInv, InsertsNew, NEW r \in Requests, Moves(r)
    PROVE  InsertsNew'
<1>0. coupon \in [Coupons -> CouponRow] /\ \A c \in Coupons : coupon[c] \in CouponRow
  BY DEF TypeInv, TablesOK, PromotionsOK
<1>1. \A s \in Requests : s # r => req'[s] = req[s]
  BY MovesCount
<1>2. CASE req'[r].pc = "insertCoupon"
  <2>1. PICK c \in Coupons : Free(r) /\ BeginCreateCoupon(r, c)
    BY <1>2, Entering
  <2>2. req'[r].key = c /\ coupon' = coupon
    BY <2>1, CouponCalled DEF BeginCreateCoupon, promotions
  <2>3. coupon[c].state = "NEW" /\ \A q \in Requests : req[q].pc = "insertCoupon" => req[q].key # c
    BY <2>1 DEF BeginCreateCoupon
  <2> QED
    BY <1>1, <2>2, <2>3 DEF InsertsNew
<1>3. ASSUME req'[r].pc # "insertCoupon", NEW s \in Requests, req'[s].pc = "insertCoupon"
      PROVE  coupon'[req'[s].key].state = "NEW"
  <2>1. s # r /\ req'[s] = req[s] /\ coupon[req[s].key].state = "NEW"
    BY <1>1, <1>3 DEF InsertsNew
  <2>2. req[s].key \in Coupons
    BY <2>1, <1>3 DEF TypeInv, RequestsHold, Holding, HoldsKey
  <2>3. CASE coupon' = coupon
    BY <2>1, <2>3
  <2>4. ASSUME NEW c \in Coupons, RemoveCoupon(r, c)
        PROVE  coupon'[req[s].key] = coupon[req[s].key]
    BY <1>0, <2>1, <2>2, <2>4 DEF RemoveCoupon
  <2>5. CASE InsertCoupon(r)
    <3>1. req[r].key # req[s].key
      BY <1>3, <2>1, <2>5 DEF InsertCoupon, InsertsNew
    <3> QED
      BY <1>0, <2>1, <2>2, <2>5, <3>1 DEF InsertCoupon
  <2>6. CASE Increment(r)
    <3>1. coupon' = [coupon EXCEPT ![req[r].key].used =
                       IF coupon[req[r].key].state = "LIVE" THEN @ + 1 ELSE @]
      BY <2>6 DEF Increment
    <3>2. coupon'[req[s].key].state = coupon[req[s].key].state
      BY <1>0, <2>2, <3>1 DEF CouponRow
    <3> QED
      BY <2>1, <3>2
  <2> QED
    BY <2>1, <2>3, <2>4, <2>5, <2>6, CallTouches, RunTouches DEF Moves
<1>4. CASE req'[r].pc # "insertCoupon"
  BY <1>1, <1>3, <1>4 DEF InsertsNew
<1> QED
  BY <1>2, <1>4

\* A call begins or a handler runs: what is held stays within the terms.
LEMMA TermsStep ==
    ASSUME TypeInv, AtMost(Runners, 1 + used.overlaps),
           TypeInv', AtMost(Runners', 1 + used'.overlaps),
           NEW r \in Requests, Moves(r), TermsInv
    PROVE  TermsInv'
<1>1. InsertsNew'
  BY InsertsNewStep DEF TermsInv
<1>2. ASSUME NEW code \in Codes
      PROVE  AtMost(Held(code)', Terms(code)')
  <2>1. AtMost(Held(code), Terms(code)) /\ InsertsNew
    BY DEF TermsInv
  <2>2. CASE \E c : User(req[r], c)
    BY <2>1, <2>2, TermsUsed, TermsGiven
  <2>3. CASE (\A c : ~User(req[r], c)) /\ \E c : User(req'[r], c)
    BY <2>1, <2>3, TermsValidated
  <2>4. CASE \A c : ~User(req[r], c) /\ ~User(req'[r], c)
    BY <2>1, <2>4, TermsBeside
  <2> QED
    BY <2>2, <2>3, <2>4
<1> QED
  BY <1>1, <1>2 DEF TermsInv

\* The day passes, a connection ends, or nothing happens.
LEMMA TermsLast ==
    ASSUME TypeInv, Environment \/ UNCHANGED vars, TermsInv
    PROVE  TermsInv'
<1>1. order' = order /\ coupon' = coupon /\ req' = req
  BY EnvironmentTouches
<1>2. used'.overlaps = used.overlaps /\ used'.faults = used.faults
  BY CallDoes DEF Environment, vars, Tick, Finalize, Happens
<1>3. InsertsNew' = InsertsNew
  BY <1>1 DEF InsertsNew
<1>4. ASSUME NEW code
      PROVE  Held(code)' = Held(code) /\ Terms(code)' = Terms(code)
  <2>1. Held(code)' = Held(code)
    BY <1>1 DEF Held, OrdersWith, Orders
  <2>2. SpentEach' = SpentEach
    BY <1>1 DEF SpentEach, SpentOn
  <2> QED
    BY <1>2, <2>1, <2>2 DEF Terms, Spent, OfCode
<1> QED
  BY <1>3, <1>4 DEF TermsInv

\* Nothing is held at first.
LEMMA InitTerms == Init => TermsInv
<1> SUFFICES ASSUME Init
             PROVE  TermsInv
  OBVIOUS
<1>1. \A r \in Requests : req[r] = Idle
  BY DEF Init
<1>2. InsertsNew
  BY <1>1 DEF InsertsNew, Idle
<1>3. ASSUME NEW code \in Codes
      PROVE  AtMost(Held(code), Terms(code))
  <2>1. OrdersWith(code) = {}
    <3> DEFINE first == [NewOrder(FirstBuyer, FirstOrdered, "none") EXCEPT
                           !.paid = TRUE, !.status = "DELIVERED"]
    <3>1. order = << >> \/ order = << first >>
      BY DEF Init
    <3>2. first.coupon = "none"
      BY DEF NewOrder
    <3> HIDE DEF first
    <3>3. \A o \in Orders : order[o].coupon = "none"
      BY <3>1, <3>2 DEF Orders
    <3>4. code # "none"
      BY PromotionsAssumption DEF Codes
    <3> QED
      BY <3>3, <3>4 DEF OrdersWith
  <2>2. Held(code) = {}
    BY <1>1, <2>1 DEF Held, Asks, Idle
  <2>3. AtMost(Runners, 1 + used.overlaps)
    BY InitOnce DEF OnceInv
  <2>4. Terms(code) \in Nat
    BY <2>3, InitTypes, SpentTypes
  <2> QED
    BY <2>2, <2>4, FS_EmptySet DEF AtMost
<1> QED
  BY <1>2, <1>3 DEF TermsInv

\* No coupon spends more than it grants.
LEMMA SpentIsGranted ==
    ASSUME TypeInv, AtMost(Runners, 1 + used.overlaps), NEW code
    PROVE  Granted(code) \in Nat /\ Spent(code) <= Granted(code)
<1> DEFINE S == OfCode(code)
           T == {c \in Coupons : CodeOf[c] = code /\ coupon[c].state # "NEW"}
           g == [c \in S |-> IF c \in T THEN MaxUses[c] ELSE 0]
<1>1. Granted(code) = SumOf(MaxUses, T)
  BY DEF Granted, SumOf
<1>2. IsFiniteSet(S) /\ T \in SUBSET S /\ S \subseteq Coupons
  BY SpentTypes DEF OfCode
<1>3. \A c \in S : SpentEach[c] \in Nat /\ g[c] \in Nat /\ SpentEach[c] <= g[c]
  <2> SUFFICES ASSUME NEW c \in S
               PROVE  SpentEach[c] \in Nat /\ g[c] \in Nat /\ SpentEach[c] <= g[c]
    OBVIOUS
  <2>1. SpentEach[c] = SpentOn(c) /\ SpentOn(c) \in Nat /\ SpentOn(c) <= MaxUses[c]
        /\ MaxUses[c] \in Nat
    BY <1>2, SpentTypes DEF SpentEach
  <2>2. c \notin T => SpentOn(c) = 0
    BY DEF SpentOn, SpentOf, OfCode
  <2> QED
    BY <2>1, <2>2
<1>4. \A c \in T : MaxUses[c] \in Nat
  BY SpentTypes
<1>5. \A c \in S : g[c] = IF c \in T THEN MaxUses[c] ELSE 0
  OBVIOUS
<1> HIDE DEF S, T, g
<1>6. SumOf(g, S) = SumOf(MaxUses, T)
  BY <1>2, <1>4, <1>5, SumWhere
<1>7. SumOf(SpentEach, S) <= SumOf(g, S)
  <2>1. \A c \in S : SpentEach[c] \in Int /\ g[c] \in Int /\ SpentEach[c] <= g[c]
    BY <1>3
  <2> QED
    BY <1>2, <2>1, SumLess
<1>8. SumOf(g, S) \in Nat
  BY <1>2, <1>3, SumOfNats
<1> QED
  BY <1>1, <1>6, <1>7, <1>8 DEF Spent, S

\* Orders are no more than what is held.
LEMMA OrdersFewer ==
    ASSUME NEW code, NEW n \in Nat, AtMost(Held(code), n)
    PROVE  Cardinality(OrdersWith(code)) <= n
<1> DEFINE f == [x \in Held(code) |-> x[2]]
<1>1. OrdersWith(code) \subseteq {f[x] : x \in Held(code)}
  <2>1. ASSUME NEW o \in OrdersWith(code)
        PROVE  o \in {f[x] : x \in Held(code)}
    <3>1. <<"order", o>> \in Held(code) /\ f[<<"order", o>>] = o
      BY DEF Held
    <3> QED
      BY <3>1
  <2> QED
    BY <2>1
<1> HIDE DEF f
<1>2. AtMost(OrdersWith(code), n)
  BY <1>1, AtMostImage
<1> QED
  BY <1>2 DEF AtMost

\* The invariants say what was promised.
LEMMA TermsAreKept ==
    ASSUME TypeInv, OnceInv, TermsInv
    PROVE  CouponKeepsTerms
<1>0. AtMost(Runners, 1 + used.overlaps)
  BY DEF OnceInv
<1>1. ASSUME NEW code \in Codes
      PROVE  Cardinality(OrdersWith(code)) <= Granted(code) + used.overlaps + used.faults
  <2>1. AtMost(Held(code), Terms(code))
    BY DEF TermsInv
  <2>2. /\ Terms(code) \in Nat /\ Spent(code) \in Nat /\ used.overlaps \in Nat
        /\ used.faults \in Nat
    BY <1>0, SpentTypes
  <2>3. Granted(code) \in Nat /\ Spent(code) <= Granted(code)
    BY <1>0, SpentIsGranted
  <2>4. /\ Granted(code) + used.overlaps + used.faults \in Nat
        /\ Terms(code) <= Granted(code) + used.overlaps + used.faults
    BY <2>2, <2>3 DEF Terms
  <2>5. AtMost(Held(code), Granted(code) + used.overlaps + used.faults)
    BY <2>1, <2>2, <2>4, AtMostFewer
  <2> QED
    BY <2>4, <2>5, OrdersFewer
<1>2. ASSUME NEW code \in Codes, NEW b \in Buyers
      PROVE  Cardinality(UsesBy(b, code)) <= 1 + used.overlaps
  <2>1. AtMost(Claims(UsesBy(b, code), UseCallers(b, code), req), 1 + used.overlaps)
    BY DEF OnceInv, UsesOnce
  <2>2. 1 + used.overlaps \in Nat
    BY <1>0, SpentTypes
  <2> QED
    BY <2>1, <2>2, RowsFewer
<1> QED
  BY <1>1, <1>2 DEF CouponKeepsTerms

\* The orders with a coupon's code stay within what its rows grant, and each buyer has one
\* that stands, but for one more for each request that overlaps another or dies before it
\* counted its use.
THEOREM CouponsHold == Spec => []CouponKeepsTerms
<1>1. Init => OnceInv /\ TermsInv
  BY InitOnce, InitTerms
<1>2. TypeInv /\ TypeInv' /\ OnceInv /\ TermsInv /\ [Next]_vars => OnceInv' /\ TermsInv'
  <2> SUFFICES ASSUME TypeInv, TypeInv', OnceInv, TermsInv, [Next]_vars
               PROVE  OnceInv' /\ TermsInv'
    OBVIOUS
  <2>1. ASSUME NEW r \in Requests, Moves(r)
        PROVE  OnceInv' /\ TermsInv'
    <3>1. OnceInv'
      BY <2>1, OnceStep
    <3> QED
      BY <2>1, <3>1, TermsStep DEF OnceInv
  <2>2. CASE Environment \/ UNCHANGED vars
    BY <2>2, OnceLasts, TermsLast
  <2> QED
    BY <2>1, <2>2 DEF Next, Moves
<1>3. TypeInv /\ OnceInv /\ TermsInv => CouponKeepsTerms
  BY TermsAreKept
<1> QED
  BY <1>1, <1>2, <1>3, InitTypes, NextTypes, PTL DEF Spec

-----------------------------------------------------------------------------
(* What a store paid for *)

\* Nothing overlaps, dies or is set by hand.
Kept == Clean /\ used.overrides = 0
OneAtATime == \A r, s \in Requests : Running(r) /\ Running(s) => r = s

\* A store's last campaign, whatever became of it, and what the flags of a store refer to.
IsLastAd(s, b) ==
    b \in DOMAIN ads /\ ads[b].store = s /\ \A a \in DOMAIN ads : ads[a].store = s => a <= b
LastAdEnds(s, day) == \E b \in DOMAIN ads : IsLastAd(s, b) /\ ads[b].ends = day
Campaign(s, day) ==
    \E a \in DOMAIN ads : ads[a].store = s /\ ads[a].status = "ACTIVE" /\ ads[a].ends = day
HasPremium(s) == \E i \in DOMAIN subs : subs[i].store = s /\ subs[i].plan = "premium"
PaidUntil(s, day) == \A i \in ActiveSubs(s) : subs[i].ends <= day
PaysEnd(s, day) ==
    \E i \in DOMAIN subs : subs[i].store = s /\ subs[i].status # "GONE" /\ subs[i].ends = day
Due(s) == s \in Stores /\ store[s].here /\ store[s].adEnds # NoDay /\ store[s].adEnds <= today

\* What a handler knows of the store whose flags it will set.
PaidSlot(q) ==
    /\ q.pc = "saveStore" => q.row = [store[q.store] EXCEPT !.active = q.row.active]
    /\ q.pc = "raise" => LastAdEnds(q.store, q.num) /\ Campaign(q.store, q.num)
    /\ q.pc \in {"latest", "extend"} /\ q.key = "premium" => HasPremium(q.store)
    /\ q.pc = "extend" => PaidUntil(q.store, q.num) /\ PaysEnd(q.store, q.num)
    /\ q.pc \in {"lowerAll", "expireAds"} => \A s \in q.list : Due(s)
    /\ q.pc = "expireAds" => \A s \in q.list : ~store[s].premium

\* What the flags of the other stores say.
PaidSubs(q) ==
    \A s \in Stores : ~(q.pc \in {"latest", "extend"} /\ q.store = s) =>
      PaidUntil(s, store[s].subEnds)
PaidAds(q) ==
    \A s \in Stores : ~(q.pc = "raise" /\ q.store = s) /\ store[s].here /\ store[s].adEnds # NoDay =>
      LastAdEnds(s, store[s].adEnds)
PaidFlags(q) ==
    \A s \in Stores : ~(q.pc = "lower" /\ q.store = s) /\ store[s].here /\ store[s].premium =>
      HasPremium(s) \/ Campaign(s, store[s].adEnds)
ExpiredAds ==
    \A a \in DOMAIN ads : ads[a].status = "EXPIRED" =>
      \E b \in a..Len(ads) : ads[b].store = ads[a].store /\ ads[b].ends <= today
EndsPaid == \A s \in Stores : store[s].subEnds # NoDay => PaysEnd(s, store[s].subEnds)
Paid(q) == PaidSlot(q) /\ PaidSubs(q) /\ PaidAds(q) /\ PaidFlags(q) /\ ExpiredAds /\ EndsPaid

PaidInv ==
    Kept => /\ OneAtATime
            /\ \A r \in Requests : Running(r) => Paid(req[r])
            /\ Quiet => Paid(Idle)

\* Calls count what is set by hand.
LEMMA OverridesGrow ==
    ASSUME TypeInv, NEW r \in Requests, Free(r), Begin(r)
    PROVE  used.overrides \in Nat /\ used'.overrides \in Nat /\ used.overrides <= used'.overrides
<1>1. \E q : CallWith(r, q, 0) \/ CallWith(r, q, 1)
  BY DEF Begin, StoreBegin, StoresController, BeginCreateStore, BeginEditStore, BeginRuleStore,
         Progress, PromotionBegin, CouponsController, OrdersController, SalesController, AdvertisingController,
         SubscriptionsController, BeginCreateCoupon, RemoveCoupon, BeginOrder, BeginOrderWith, BeginSale,
         BeginRegisterAd, BeginCancelAd, BeginPay, BeginCancelSub, BeginExpire,
         CatalogueBegin, ProductsController, ReviewsController, NamesControllers,
         BeginRemoveProduct, BeginCreateProduct, BeginUpdateProduct, BeginAddRow, RemoveRow,
         BeginFavorite, Unfavorite, BeginReview, BeginStoreReview, BeginCreateName, BeginSwitchName,
         RemoveMenu, BeginRemoveStore, LiveBegin, NotificationsController, PushController,
         Subscribe, Unsubscribe, BeginSubscribe, BeginSend, Call
<1>2. used.overrides \in Nat
  BY StorefrontAssumption DEF TypeInv, UsedOK
<1>3. ASSUME NEW q, NEW k \in {0, 1}, CallWith(r, q, k)
      PROVE  used'.overrides = used.overrides + k
  BY <1>3, CallDoes DEF CallWith
<1> QED
  BY <1>1, <1>2, <1>3

\* As long as they are kept, requests follow each other and none dies.
LEMMA KeptBefore ==
    ASSUME TypeInv, NEW r \in Requests, Moves(r), Kept'
    PROVE  /\ Kept /\ used'.overrides = used.overrides
           /\ (Free(r) /\ Begin(r) /\ Quiet) \/ (Running(r) /\ Run(r) /\ ~Die(r))
<1>1. /\ used.overlaps \in Nat /\ used.faults \in Nat
      /\ used'.overlaps \in Nat /\ used'.faults \in Nat
      /\ used.overlaps <= used'.overlaps /\ used.faults <= used'.faults
      /\ Free(r) /\ Begin(r) /\ Overlaps(r) => used'.overlaps = used.overlaps + 1
      /\ Running(r) /\ Die(r) => used'.faults = used.faults + 1
  BY CountsGrow
<1>2. used'.overlaps = 0 /\ used'.faults = 0 /\ used'.overrides = 0
  BY DEF Kept, Clean
<1>3. Clean
  BY <1>1, <1>2 DEF Clean
<1>4. CASE Free(r) /\ Begin(r)
  <2>1. used.overrides \in Nat /\ used.overrides <= used'.overrides
    BY <1>4, OverridesGrow
  <2>2. ~Overlaps(r)
    BY <1>1, <1>2, <1>4
  <2>3. Quiet
    BY <1>4, <2>2 DEF Quiet, Overlaps, Free
  <2> QED
    BY <1>2, <1>3, <1>4, <2>1, <2>3 DEF Kept
<1>5. CASE Running(r) /\ Run(r)
  <2>1. ~Die(r)
    BY <1>1, <1>2, <1>5
  <2>2. used' = used
    BY <1>5, <2>1, RunGoes DEF Goes
  <2> QED
    BY <1>2, <1>3, <1>5, <2>1, <2>2 DEF Kept
<1> QED
  BY <1>4, <1>5 DEF Moves

\* The types of what the steps below write.
LEMMA PaymentTypes ==
    ASSUME TypeInv
    PROVE  /\ store \in [Stores -> StoreRow] /\ today \in Nat
           /\ ads \in Seq(PaidRow) /\ subs \in Seq(PaidRow)
           /\ \A i \in DOMAIN ads : ads[i] \in PaidRow
           /\ \A i \in DOMAIN subs : subs[i] \in PaidRow
           /\ \A r \in Requests : req[r] \in Request /\ HoldsStore(req[r]) /\ HoldsNumber(req[r])
                                  /\ HoldsList(req[r]) /\ HoldsRow(req[r], Sizes)
<1>1. store \in [Stores -> StoreRow] /\ today \in Nat /\ ads \in Seq(PaidRow) /\ subs \in Seq(PaidRow)
  BY DEF TypeInv, TablesOK, ShopOK, PromotionsOK, Days
<1>2. \A r \in Requests : req[r] \in Request /\ HoldsStore(req[r]) /\ HoldsNumber(req[r])
                            /\ HoldsList(req[r]) /\ HoldsRow(req[r], Sizes)
  BY DEF TypeInv, RequestsHold, Holding
<1>3. \A i \in DOMAIN ads : ads[i] \in PaidRow
  BY <1>1
<1>4. \A i \in DOMAIN subs : subs[i] \in PaidRow
  BY <1>1
<1> QED
  BY <1>1, <1>2, <1>3, <1>4

\* As long as flags and payments stay, what a request knows of them stays.
LEMMA PaidPasses ==
    ASSUME TypeInv, TypeInv', UNCHANGED <<store, ads, subs>>, today <= today', NEW q, Paid(q)
    PROVE  Paid(q)'
<1>0. /\ today \in Nat /\ store \in [Stores -> StoreRow]
      /\ ads \in Seq(PaidRow) /\ \A a \in DOMAIN ads : ads[a] \in PaidRow
  BY PaymentTypes
<1>1. /\ today \in Nat /\ today' \in Nat
      /\ \A s \in Stores : store[s].adEnds \in Nat
      /\ \A i \in DOMAIN ads : ads[i].ends \in Nat
  <2>1. today' \in Nat
    BY DEF TypeInv, TablesOK, ShopOK, Days
  <2>2. \A s \in Stores : store[s].adEnds \in Nat
    BY <1>0 DEF NoDay, StoreRow, Days
  <2>3. \A i \in DOMAIN ads : ads[i].ends \in Nat
    BY <1>0 DEF Days, PaidRow
  <2> QED
    BY <1>0, <2>1, <2>2, <2>3
<1>2. PaidSubs(q)'
  BY DEF Paid, PaidSubs, PaidUntil, ActiveSubs
<1>3. PaidAds(q)'
  BY DEF Paid, PaidAds, LastAdEnds, IsLastAd
<1>4. PaidFlags(q)'
  BY DEF Paid, PaidFlags, HasPremium, Campaign
<1>5. ExpiredAds'
  <2>1. ASSUME NEW a \in DOMAIN ads, ads[a].status = "EXPIRED"
        PROVE  \E b \in a..Len(ads) : ads[b].store = ads[a].store /\ ads[b].ends <= today'
    <3>1. PICK b \in a..Len(ads) : ads[b].store = ads[a].store /\ ads[b].ends <= today
      BY <2>1 DEF Paid, ExpiredAds
    <3>2. b \in DOMAIN ads
      BY <1>0, <2>1, <3>1
    <3> QED
      BY <1>1, <3>1, <3>2
  <2> QED
    BY <2>1 DEF ExpiredAds
<1>6. PaidSlot(q)'
  <2>1. \A s : Due(s) => Due(s)'
    BY <1>1 DEF Due
  <2> QED
    BY <2>1 DEF Paid, PaidSlot, LastAdEnds, IsLastAd, Campaign, HasPremium, PaidUntil, PaysEnd,
                ActiveSubs
<1>7. EndsPaid'
  BY DEF Paid, EndsPaid, PaysEnd
<1> QED
  BY <1>2, <1>3, <1>4, <1>5, <1>6, <1>7 DEF Paid

\* A step that changes no flag and no payment.
LEMMA PaidCalm ==
    ASSUME TypeInv, TypeInv', UNCHANGED <<store, ads, subs>>, today <= today',
           NEW r \in Requests, Paid(req[r]),
           req[r].pc \notin {"raise", "latest", "extend", "lower"}, PaidSlot(req[r])'
    PROVE  Paid(req[r])'
<1> PICK q : q = req[r]
  OBVIOUS
<1>1. Paid(q)'
  BY PaidPasses
<1> QED
  BY <1>1 DEF Paid, PaidSubs, PaidAds, PaidFlags

\* The flags of one store are written as its payments ask for.
LEMMA PaidWritten ==
    ASSUME TypeInv, UNCHANGED <<today, ads, subs>>, NEW r \in Requests, Paid(req[r]),
           req'[r] = Idle, NEW s \in Stores, req[r].store = s,
           \A t \in Stores : t # s => store'[t] = store[t],
           PaidUntil(s, store'[s].subEnds),
           store'[s].subEnds # NoDay => PaysEnd(s, store'[s].subEnds),
           store'[s].here /\ store'[s].adEnds # NoDay => LastAdEnds(s, store'[s].adEnds),
           store'[s].here /\ store'[s].premium => HasPremium(s) \/ Campaign(s, store'[s].adEnds)
    PROVE  Paid(req[r])'
<1>1. \A t \in Stores : t # s => store'[t] = store[t]
  OBVIOUS
<1>2. PaidSlot(req[r])'
  BY DEF PaidSlot, Idle
<1>3. PaidSubs(req[r])'
  BY <1>1 DEF Paid, PaidSubs, PaidUntil, ActiveSubs
<1>4. PaidAds(req[r])'
  BY <1>1 DEF Paid, PaidAds, LastAdEnds, IsLastAd
<1>5. PaidFlags(req[r])'
  BY <1>1 DEF Paid, PaidFlags, HasPremium, Campaign
<1>6. ExpiredAds'
  BY DEF Paid, ExpiredAds
<1>7. EndsPaid'
  BY <1>1 DEF Paid, EndsPaid, PaysEnd
<1> QED
  BY <1>2, <1>3, <1>4, <1>5, <1>6, <1>7 DEF Paid

\* A handler writes the flags of one store.
LEMMA FlagsSet ==
    ASSUME TypeInv, UNCHANGED <<ads, subs>>, NEW r \in Requests, Paid(req[r]),
           \/ InsertStore(r) \/ SaveStore(r) \/ Raise(r) \/ Lower(r) \/ Extend(r)
    PROVE  Paid(req[r])'
<1> DEFINE q == req[r]
           s == req[r].store
<1>0. store \in [Stores -> StoreRow] /\ store[s] \in StoreRow /\ s \in Stores
  <2>1. s \in Stores
    BY PaymentTypes DEF HoldsStore, InsertStore, SaveStore, Raise, Lower, Extend
  <2> QED
    BY <2>1, PaymentTypes
<1>1. req'[r] = Idle /\ today' = today
  BY StepDoes DEF InsertStore, SaveStore, Raise, Lower, Extend, Return, Goto
<1>2. ASSUME NEW row, store' = [store EXCEPT ![s] = row],
             PaidUntil(s, row.subEnds), row.subEnds # NoDay => PaysEnd(s, row.subEnds),
             row.here /\ row.adEnds # NoDay => LastAdEnds(s, row.adEnds),
             row.here /\ row.premium => HasPremium(s) \/ Campaign(s, row.adEnds)
      PROVE  Paid(req[r])'
  <2>1. store'[s] = row /\ \A t \in Stores : t # s => store'[t] = store[t]
    BY <1>0, <1>2
  <2> QED
    BY <1>0, <1>1, <1>2, <2>1, PaidWritten
<1>3. /\ q.pc \notin {"latest", "extend"} => PaidUntil(s, store[s].subEnds)
      /\ store[s].subEnds # NoDay => PaysEnd(s, store[s].subEnds)
      /\ q.pc # "raise" /\ store[s].here /\ store[s].adEnds # NoDay
           => LastAdEnds(s, store[s].adEnds)
      /\ q.pc # "lower" /\ store[s].here /\ store[s].premium
           => HasPremium(s) \/ Campaign(s, store[s].adEnds)
  BY <1>0 DEF Paid, PaidSubs, PaidAds, PaidFlags, EndsPaid
<1>4. ~store[s].here => \A day : PaidUntil(s, day)
  BY PaymentTypes DEF PaidUntil, ActiveSubs, TypeInv, TablesOK, PaymentsRefer
<1>5. CASE InsertStore(r)
  <2>1. q.pc = "insertStore" /\ store' = [store EXCEPT ![s] = IF store[s].here THEN store[s] ELSE NewStore]
    BY <1>5 DEF InsertStore
  <2>2. NewStore.subEnds = NoDay /\ NewStore.adEnds = NoDay /\ ~NewStore.premium
    BY DEF NewStore, NoStore
  <2>3. CASE store[s].here
    BY <1>2, <1>3, <2>1, <2>3
  <2>4. CASE ~store[s].here
    BY <1>2, <1>4, <2>1, <2>2, <2>4
  <2> QED
    BY <2>3, <2>4
<1>6. CASE SaveStore(r)
  <2>1. q.pc = "saveStore" /\ store' = [store EXCEPT ![s] = q.row]
    BY <1>6 DEF SaveStore
  <2>2. q.row = [store[s] EXCEPT !.active = q.row.active]
    BY <2>1 DEF Paid, PaidSlot
  <2>3. q.row.subEnds = store[s].subEnds /\ q.row.adEnds = store[s].adEnds
        /\ q.row.premium = store[s].premium /\ q.row.here = store[s].here
    BY <1>0, <2>2 DEF StoreRow
  <2> QED
    BY <1>2, <1>3, <2>1, <2>3
<1>7. CASE Raise(r) \/ Lower(r) \/ Extend(r)
  <2> DEFINE raised == [store[s] EXCEPT !.premium = TRUE, !.adEnds = q.num]
             lowered == [store[s] EXCEPT !.premium = FALSE, !.adEnds = NoDay]
             extended == [store[s] EXCEPT !.subEnds = q.num, !.premium = (q.key = "premium")]
  <2>1. /\ raised.subEnds = store[s].subEnds /\ raised.adEnds = q.num
        /\ lowered.subEnds = store[s].subEnds /\ lowered.adEnds = NoDay /\ ~lowered.premium
        /\ extended.subEnds = q.num /\ extended.adEnds = store[s].adEnds
        /\ extended.here = store[s].here /\ (extended.premium => q.key = "premium")
    BY <1>0 DEF StoreRow
  <2>2. /\ Raise(r) => store' = [store EXCEPT ![s] = IF store[s].here THEN raised ELSE store[s]]
        /\ Lower(r) => store' = [store EXCEPT ![s] = IF store[s].here THEN lowered ELSE store[s]]
        /\ Extend(r) => store' = [store EXCEPT ![s] = IF store[s].here THEN extended ELSE store[s]]
    BY DEF Raise, Lower, Extend, SetFlags
  <2>3. /\ q.pc = "raise" => LastAdEnds(s, q.num) /\ Campaign(s, q.num)
        /\ q.pc = "extend" => /\ PaidUntil(s, q.num) /\ PaysEnd(s, q.num)
                              /\ q.key = "premium" => HasPremium(s)
    BY DEF Paid, PaidSlot
  <2> HIDE DEF raised, lowered, extended
  <2>4. CASE ~store[s].here
    <3>1. store' = [store EXCEPT ![s] = store[s]]
      BY <1>7, <2>2, <2>4
    <3> QED
      BY <1>2, <1>3, <1>4, <2>4, <3>1
  <2>5. CASE store[s].here /\ Raise(r)
    <3>1. q.pc = "raise"
      BY <2>5 DEF Raise
    <3> QED
      BY <1>2, <1>3, <2>1, <2>2, <2>3, <2>5, <3>1
  <2>6. CASE store[s].here /\ Lower(r)
    <3>1. q.pc = "lower"
      BY <2>6 DEF Lower
    <3> QED
      BY <1>2, <1>3, <2>1, <2>2, <2>6, <3>1
  <2>7. CASE store[s].here /\ Extend(r)
    <3>1. q.pc = "extend"
      BY <2>7 DEF Extend
    <3> QED
      BY <1>2, <1>3, <2>1, <2>2, <2>3, <2>7, <3>1
  <2> QED
    BY <1>7, <2>4, <2>5, <2>6, <2>7
<1> QED
  BY <1>5, <1>6, <1>7

\* The nightly job lowers the flags of the stores it found.
LEMMA FlagsLowered ==
    ASSUME TypeInv, UNCHANGED subs, NEW r \in Requests, Paid(req[r]), LowerAll(r)
    PROVE  Paid(req[r])'
<1>0. store \in [Stores -> StoreRow] /\ \A s \in Stores : store[s] \in StoreRow
  BY PaymentTypes
<1>1. /\ req[r].pc = "lowerAll" /\ today' = today /\ ads' = ads
      /\ req'[r] = [req[r] EXCEPT !.pc = "expireAds"]
  BY StepDoes DEF LowerAll, Goto, promotions
<1>2. req'[r].pc = "expireAds" /\ req'[r].list = req[r].list
  BY <1>1, StepDoes DEF Request
<1>3. ASSUME NEW s \in Stores
      PROVE  /\ store'[s].here = store[s].here /\ store'[s].adEnds = store[s].adEnds
             /\ store'[s].subEnds = store[s].subEnds /\ (store'[s].premium => store[s].premium)
             /\ s \in req[r].list => ~store'[s].premium
  BY <1>0 DEF LowerAll, StoreRow
<1>4. \A s \in req[r].list : Due(s) /\ s \in Stores
  BY <1>1 DEF Paid, PaidSlot, Due
<1>5. PaidSlot(req[r])'
  BY <1>1, <1>2, <1>3, <1>4 DEF PaidSlot, Due
<1>6. PaidSubs(req[r])'
  BY <1>1, <1>2, <1>3 DEF Paid, PaidSubs, PaidUntil, ActiveSubs
<1>7. PaidAds(req[r])'
  BY <1>1, <1>2, <1>3 DEF Paid, PaidAds, LastAdEnds, IsLastAd
<1>8. PaidFlags(req[r])'
  BY <1>1, <1>2, <1>3 DEF Paid, PaidFlags, HasPremium, Campaign
<1>9. ExpiredAds'
  BY <1>1 DEF Paid, ExpiredAds
<1>10. EndsPaid'
  BY <1>3 DEF Paid, EndsPaid, PaysEnd
<1> QED
  BY <1>5, <1>6, <1>7, <1>8, <1>9, <1>10 DEF Paid

\* A campaign is paid for.
LEMMA AdInserted ==
    ASSUME TypeInv, TypeInv', UNCHANGED <<store, subs>>, NEW r \in Requests, Paid(req[r]), InsertAd(r)
    PROVE  Paid(req[r])'
<1> PICK s, n : s = req[r].store /\ n = Len(ads) + 1
  OBVIOUS
<1> DEFINE ad == PaidFor(s, "ad", req[r].num, "ACTIVE")
<1>0. ads \in Seq(PaidRow) /\ \A a \in DOMAIN ads : ads[a] \in PaidRow
  BY PaymentTypes
<1>1. req[r].pc = "insertAd" /\ today' = today
  BY DEF InsertAd, shared
<1>2. CASE req'[r] = Idle /\ ads' = ads
  <2>1. PaidSlot(req[r])'
    BY <1>2 DEF PaidSlot, Idle
  <2> QED
    BY <1>1, <1>2, <2>1, PaidCalm, PaymentTypes
<1>3. CASE req'[r] = [req[r] EXCEPT !.pc = "raise"] /\ ads' = Append(ads, ad)
  <2>1. req'[r].pc = "raise" /\ req'[r].store = s /\ req'[r].num = req[r].num
    BY <1>3, StepDoes DEF Request
  <2>2. ad.store = s /\ ad.ends = req[r].num /\ ad.status = "ACTIVE"
    BY DEF PaidFor
  <2> HIDE DEF ad
  <2>3. /\ Len(ads) \in Nat /\ DOMAIN ads = 1..Len(ads) /\ DOMAIN ads' = 1..n /\ Len(ads') = n
        /\ ads'[n] = ad /\ \A a \in DOMAIN ads : ads'[a] = ads[a]
        /\ \A a \in DOMAIN ads' : a = n \/ a \in DOMAIN ads
    BY <1>0, <1>3
  <2>4. IsLastAd(s, n)' /\ n \in DOMAIN ads'
    <3>1. n \in DOMAIN ads' /\ \A a \in DOMAIN ads' : a <= n
      BY <2>3
    <3> QED
      BY <2>2, <2>3, <3>1 DEF IsLastAd
  <2>5. PaidSlot(req[r])'
    BY <2>1, <2>2, <2>3, <2>4 DEF PaidSlot, LastAdEnds, Campaign
  <2>6. PaidSubs(req[r])'
    BY <1>1, <2>1 DEF Paid, PaidSubs, PaidUntil, ActiveSubs
  <2>7. \A t \in Stores : \A b \in DOMAIN ads : t # s /\ IsLastAd(t, b) => IsLastAd(t, b)'
    BY <2>2, <2>3 DEF IsLastAd
  <2>8. PaidAds(req[r])'
    <3>1. \A t \in Stores : \A day : t # s /\ LastAdEnds(t, day) => LastAdEnds(t, day)'
      BY <2>3, <2>7 DEF LastAdEnds
    <3> QED
      BY <1>1, <2>1, <3>1 DEF Paid, PaidAds
  <2>9. PaidFlags(req[r])'
    <3>1. \A t, day : Campaign(t, day) => Campaign(t, day)'
      BY <2>3 DEF Campaign
    <3> QED
      BY <1>1, <2>1, <3>1 DEF Paid, PaidFlags, HasPremium
  <2>10. ExpiredAds'
    <3>1. ASSUME NEW a \in DOMAIN ads', ads'[a].status = "EXPIRED"
          PROVE  \E b \in a..Len(ads') : ads'[b].store = ads'[a].store /\ ads'[b].ends <= today
      <4>1. a \in DOMAIN ads /\ ads'[a] = ads[a]
        BY <2>2, <2>3, <3>1
      <4>2. PICK b \in a..Len(ads) : ads[b].store = ads[a].store /\ ads[b].ends <= today
        BY <3>1, <4>1 DEF Paid, ExpiredAds
      <4>3. b \in DOMAIN ads /\ b \in a..Len(ads') /\ ads'[b] = ads[b]
        BY <2>3, <4>1, <4>2
      <4> QED
        BY <4>1, <4>2, <4>3
    <3> QED
      BY <1>1, <3>1 DEF ExpiredAds
  <2>11. EndsPaid'
    BY DEF Paid, EndsPaid, PaysEnd
  <2> QED
    BY <2>5, <2>6, <2>8, <2>9, <2>10, <2>11 DEF Paid
<1> QED
  BY <1>2, <1>3, StepDoes DEF InsertAd, Return, Goto

\* Campaigns that are there change their status only.
LEMMA AdsKeepEnds ==
    ASSUME TypeInv, TypeInv', UNCHANGED <<today, store, subs>>, NEW r \in Requests, Paid(req[r]),
           Len(ads') = Len(ads), DOMAIN ads' = DOMAIN ads,
           \A a \in DOMAIN ads : ads'[a].store = ads[a].store /\ ads'[a].ends = ads[a].ends,
           \A a \in DOMAIN ads : ads'[a].status = "EXPIRED" =>
             \E b \in a..Len(ads) : ads[b].store = ads[a].store /\ ads[b].ends <= today,
           req[r].pc \notin {"raise", "latest", "extend", "lower"},
           PaidSlot(req[r])', PaidFlags(req[r])'
    PROVE  Paid(req[r])'
<1>1. PaidSubs(req[r])'
  BY DEF Paid, PaidSubs, PaidUntil, ActiveSubs
<1>2. PaidAds(req[r])'
  <2>1. \A t, day : LastAdEnds(t, day) => LastAdEnds(t, day)'
    BY DEF LastAdEnds, IsLastAd
  <2> QED
    BY <2>1 DEF Paid, PaidAds
<1>3. ExpiredAds'
  <2>1. \A a \in DOMAIN ads : a..Len(ads) \subseteq DOMAIN ads
    BY PaymentTypes
  <2> QED
    BY <2>1 DEF ExpiredAds
<1>4. EndsPaid'
  BY DEF Paid, EndsPaid, PaysEnd
<1> QED
  BY <1>1, <1>2, <1>3, <1>4 DEF Paid

\* A campaign is cancelled.
LEMMA AdCancelled ==
    ASSUME TypeInv, TypeInv', UNCHANGED <<store, subs>>, NEW r \in Requests, Paid(req[r]), CancelAd(r)
    PROVE  Paid(req[r])'
<1> DEFINE a == req[r].id
           next == [Idle EXCEPT !.pc = "lower", !.store = ads[a].store]
<1>0. ads \in Seq(PaidRow) /\ \A b \in DOMAIN ads : ads[b] \in PaidRow
  BY PaymentTypes
<1>1. req[r].pc = "cancelAd" /\ today' = today
  BY DEF CancelAd, shared
<1>2. CASE req'[r] = Idle /\ ads' = ads
  <2>1. PaidSlot(req[r])'
    BY <1>2 DEF PaidSlot, Idle
  <2> QED
    BY <1>1, <1>2, <2>1, PaidCalm, PaymentTypes
<1>3. CASE req'[r] = next /\ ads' = [ads EXCEPT ![a].status = "CANCELLED"]
  <2>1. req'[r].pc = "lower" /\ req'[r].store = ads[a].store
    BY <1>3 DEF Idle
  <2>2. /\ DOMAIN ads' = DOMAIN ads /\ Len(ads') = Len(ads)
        /\ \A b \in DOMAIN ads : ads'[b].store = ads[b].store /\ ads'[b].ends = ads[b].ends
        /\ \A b \in DOMAIN ads : b # a => ads'[b] = ads[b]
        /\ \A b \in DOMAIN ads : b = a => ads'[b].status = "CANCELLED"
    BY <1>0, <1>3 DEF PaidRow
  <2>3. PaidSlot(req[r])'
    BY <2>1 DEF PaidSlot
  <2>4. PaidFlags(req[r])'
    <3>1. \A t \in Stores : \A day : t # ads[a].store /\ Campaign(t, day) => Campaign(t, day)'
      BY <2>2 DEF Campaign
    <3> QED
      BY <1>1, <2>1, <3>1 DEF Paid, PaidFlags, HasPremium
  <2>5. \A b \in DOMAIN ads : ads'[b].status = "EXPIRED" =>
          \E c \in b..Len(ads) : ads[c].store = ads[b].store /\ ads[c].ends <= today
    BY <2>2 DEF Paid, ExpiredAds
  <2> QED
    BY <1>1, <2>2, <2>3, <2>4, <2>5, AdsKeepEnds
<1> QED
  BY <1>2, <1>3, StepDoes DEF CancelAd, Return, Goto

\* The campaigns of the stores that were overdue expire.
LEMMA AdsExpired ==
    ASSUME TypeInv, TypeInv', UNCHANGED <<store, subs>>, NEW r \in Requests, Paid(req[r]), ExpireAds(r)
    PROVE  Paid(req[r])'
<1> DEFINE list == req[r].list
<1>0. ads \in Seq(PaidRow) /\ \A a \in DOMAIN ads : ads[a] \in PaidRow
  BY PaymentTypes
<1>1. req[r].pc = "expireAds" /\ today' = today /\ req'[r] = Idle
  BY StepDoes DEF ExpireAds, shared, Return, Goto
<1>2. /\ DOMAIN ads' = DOMAIN ads /\ Len(ads') = Len(ads)
      /\ \A a \in DOMAIN ads : ads'[a].store = ads[a].store /\ ads'[a].ends = ads[a].ends
      /\ \A a \in DOMAIN ads : ads[a].store \notin list => ads'[a] = ads[a]
      /\ \A a \in DOMAIN ads : ads'[a].status = ads[a].status \/ ads[a].store \in list
  <2>1. ads' = [a \in DOMAIN ads |->
          IF ads[a].store \in list /\ ads[a].status = "ACTIVE"
          THEN [ads[a] EXCEPT !.status = "EXPIRED"] ELSE ads[a]]
    BY DEF ExpireAds
  <2>2. DOMAIN ads' = DOMAIN ads /\ DOMAIN ads = 1..Len(ads) /\ Len(ads) \in Nat
    BY <1>0, <2>1
  <2>3. Len(ads') = Len(ads)
    BY <2>2, PaymentTypes DEF TypeInv, TablesOK, PromotionsOK
  <2> QED
    BY <1>0, <2>1, <2>2, <2>3 DEF PaidRow
<1>3. \A s \in list : Due(s) /\ ~store[s].premium
  BY <1>1 DEF Paid, PaidSlot
<1>4. PaidSlot(req[r])'
  BY <1>1 DEF PaidSlot, Idle
<1>5. PaidFlags(req[r])'
  <2>1. \A t, day : t \notin list /\ Campaign(t, day) => Campaign(t, day)'
    BY <1>2 DEF Campaign
  <2> QED
    BY <1>1, <1>3, <2>1 DEF Paid, PaidFlags, HasPremium
<1>6. ASSUME NEW a \in DOMAIN ads, ads'[a].status = "EXPIRED"
      PROVE  \E b \in a..Len(ads) : ads[b].store = ads[a].store /\ ads[b].ends <= today
  <2>1. CASE ads[a].status = "EXPIRED"
    BY <2>1 DEF Paid, ExpiredAds
  <2>2. CASE ads[a].store \in list
    <3> DEFINE s == ads[a].store
    <3>1. Due(s)
      BY <1>3, <2>2
    <3>2. LastAdEnds(s, store[s].adEnds)
      BY <1>1, <3>1 DEF Paid, PaidAds, Due
    <3>3. PICK b \in DOMAIN ads : IsLastAd(s, b) /\ ads[b].ends = store[s].adEnds
      BY <3>2 DEF LastAdEnds
    <3>4. a <= b /\ ads[b].store = s /\ ads[b].ends <= today
      BY <3>1, <3>3 DEF IsLastAd, Due
    <3>5. b \in a..Len(ads)
      BY <1>0, <3>4
    <3> QED
      BY <3>4, <3>5
  <2> QED
    BY <1>2, <1>6, <2>1, <2>2
<1> QED
  BY <1>1, <1>2, <1>4, <1>5, <1>6, AdsKeepEnds

\* A payment is entered.
LEMMA SubInserted ==
    ASSUME TypeInv, TypeInv', UNCHANGED <<store, ads>>, NEW r \in Requests, Paid(req[r]), InsertSub(r)
    PROVE  Paid(req[r])'
<1> PICK s, n, plan : s = req[r].store /\ n = Len(subs) + 1 /\ plan = req[r].key
  OBVIOUS
<1> DEFINE status == CHOOSE x \in req[r].list : TRUE
           sub == PaidFor(s, plan, req[r].num, status)
           next == [req[r] EXCEPT !.pc = "latest", !.list = {}]
<1>0. subs \in Seq(PaidRow) /\ \A i \in DOMAIN subs : subs[i] \in PaidRow
  BY PaymentTypes
<1>1. req[r].pc = "insertSub" /\ today' = today
  BY DEF InsertSub, shared
<1>2. CASE req'[r] = Idle /\ subs' = subs
  <2>1. PaidSlot(req[r])'
    BY <1>2 DEF PaidSlot, Idle
  <2> QED
    BY <1>1, <1>2, <2>1, PaidCalm, PaymentTypes
<1>3. CASE req'[r] = next /\ subs' = Append(subs, sub)
  <2>1. req'[r].pc = "latest" /\ req'[r].store = s /\ req'[r].key = plan
    BY <1>3, StepDoes DEF Request
  <2>2. sub.store = s /\ sub.plan = plan
    BY DEF PaidFor
  <2> HIDE DEF sub
  <2>3. /\ n \in DOMAIN subs' /\ subs'[n] = sub
        /\ \A i \in DOMAIN subs : i \in DOMAIN subs' /\ subs'[i] = subs[i]
        /\ \A i \in DOMAIN subs' : i = n \/ i \in DOMAIN subs
    BY <1>0, <1>3
  <2>4. PaidSlot(req[r])'
    BY <2>1, <2>2, <2>3 DEF PaidSlot, HasPremium
  <2>5. PaidSubs(req[r])'
    <3>1. \A t \in Stores : \A day : t # s /\ PaidUntil(t, day) => PaidUntil(t, day)'
      BY <2>2, <2>3 DEF PaidUntil, ActiveSubs
    <3> QED
      BY <1>1, <2>1, <3>1 DEF Paid, PaidSubs
  <2>6. PaidAds(req[r])'
    BY <1>1, <2>1 DEF Paid, PaidAds, LastAdEnds, IsLastAd
  <2>7. PaidFlags(req[r])'
    <3>1. \A t : HasPremium(t) => HasPremium(t)'
      BY <2>3 DEF HasPremium
    <3> QED
      BY <1>1, <2>1, <3>1 DEF Paid, PaidFlags, Campaign
  <2>8. ExpiredAds'
    BY <1>1 DEF Paid, ExpiredAds
  <2>9. EndsPaid'
    <3>1. \A t, day : PaysEnd(t, day) => PaysEnd(t, day)'
      BY <2>3 DEF PaysEnd
    <3> QED
      BY <3>1 DEF Paid, EndsPaid
  <2> QED
    BY <2>4, <2>5, <2>6, <2>7, <2>8, <2>9 DEF Paid
<1> HIDE DEF next, sub
<1>4. \/ req'[r] = Idle /\ subs' = subs
      \/ req'[r] = next /\ subs' = Append(subs, sub)
  BY StepDoes DEF InsertSub, Return, Goto, next, sub
<1> QED
  BY <1>2, <1>3, <1>4

\* The latest end of what a store paid.
LEMMA LatestFound ==
    ASSUME TypeInv, TypeInv', UNCHANGED <<store, ads, subs>>, NEW r \in Requests, Paid(req[r]),
           FindLatest(r)
    PROVE  Paid(req[r])'
<1> PICK s : s = req[r].store
  OBVIOUS
<1> DEFINE ends == {subs[i].ends : i \in ActiveSubs(s)}
           next == [req[r] EXCEPT !.pc = "extend", !.num = Max(ends)]
<1>0. subs \in Seq(PaidRow) /\ \A i \in DOMAIN subs : subs[i] \in PaidRow
  BY PaymentTypes
<1>1. req[r].pc = "latest" /\ today' = today
  BY DEF FindLatest, shared
<1>2. \/ ActiveSubs(s) = {} /\ req'[r] = Idle
      \/ ActiveSubs(s) # {} /\ req'[r] = next
  BY StepDoes DEF FindLatest, Return, Goto, LatestEnd
<1>3. PaidAds(req[r])' /\ PaidFlags(req[r])' /\ ExpiredAds' /\ EndsPaid'
  <2>0. next.pc = "extend" /\ Idle.pc = "idle"
    BY StepDoes DEF Idle, Request
  <2> HIDE DEF next
  <2>1. req'[r].pc \in {"idle", "extend"}
    BY <1>2, <2>0
  <2>2. PaidAds(req[r])'
    BY <1>1, <2>1 DEF Paid, PaidAds, LastAdEnds, IsLastAd
  <2>3. PaidFlags(req[r])'
    BY <1>1, <2>1 DEF Paid, PaidFlags, Campaign, HasPremium
  <2> QED
    BY <1>1, <2>2, <2>3 DEF Paid, ExpiredAds, EndsPaid, PaysEnd
<1>4. CASE ActiveSubs(s) = {} /\ req'[r] = Idle
  <2>1. PaidSlot(req[r])'
    BY <1>4 DEF PaidSlot, Idle
  <2>2. PaidSubs(req[r])'
    BY <1>1, <1>4 DEF Paid, PaidSubs, PaidUntil, ActiveSubs
  <2> QED
    BY <1>3, <2>1, <2>2 DEF Paid
<1>5. CASE ActiveSubs(s) # {} /\ req'[r] = next
  <2>1. req'[r].pc = "extend" /\ req'[r].store = s /\ req'[r].key = req[r].key
        /\ req'[r].num = Max(ends)
    BY <1>5, StepDoes DEF Request
  <2>2. Max(ends) \in ends /\ \A y \in ends : y <= Max(ends)
    <3>1. IsFiniteSet(Days) /\ Days \subseteq Int
      BY FS_Interval, StorefrontAssumption DEF Days
    <3>2. ends # {} /\ ends \subseteq Days
      BY <1>0, <1>5 DEF ActiveSubs, PaidRow
    <3>3. IsFiniteSet(ends) /\ ends \subseteq Int
      <4> HIDE DEF ends
      <4> QED
        BY <3>1, <3>2, FS_Subset
    <3> HIDE DEF ends
    <3> QED
      BY <3>2, <3>3, MaxIsLargest
  <2>3. PaidUntil(s, Max(ends)) /\ PaysEnd(s, Max(ends))
    BY <2>2 DEF PaidUntil, PaysEnd, ActiveSubs
  <2> HIDE DEF ends
  <2>4. PaidSlot(req[r])'
    BY <1>1, <2>1, <2>3 DEF Paid, PaidSlot, HasPremium, PaidUntil, PaysEnd, ActiveSubs
  <2>5. PaidSubs(req[r])'
    BY <1>1, <2>1 DEF Paid, PaidSubs, PaidUntil, ActiveSubs
  <2> QED
    BY <1>3, <2>4, <2>5 DEF Paid
<1> QED
  BY <1>2, <1>4, <1>5

\* A payment is cancelled: the store keeps its date.
LEMMA SubCancelled ==
    ASSUME TypeInv, TypeInv', UNCHANGED <<store, ads>>, NEW r \in Requests, Paid(req[r]), CancelSub(r)
    PROVE  Paid(req[r])'
<1>0. subs \in Seq(PaidRow) /\ \A i \in DOMAIN subs : subs[i] \in PaidRow
  BY PaymentTypes
<1>1. req[r].pc = "cancelSub" /\ today' = today /\ req'[r] = Idle
  BY StepDoes DEF CancelSub, shared, Return, Goto
<1>2. /\ DOMAIN subs' = DOMAIN subs
      /\ \A i \in DOMAIN subs : /\ subs'[i].store = subs[i].store /\ subs'[i].ends = subs[i].ends
                                /\ subs'[i].plan = subs[i].plan
                                /\ subs'[i].status = "ACTIVE" => subs[i].status = "ACTIVE"
                                /\ subs'[i].status = "GONE" => subs[i].status = "GONE"
  <2>1. subs' = [subs EXCEPT ![req[r].id].status = IF @ = "GONE" THEN @ ELSE "CANCELLED"]
    BY DEF CancelSub
  <2> QED
    BY <1>0, <2>1 DEF PaidRow
<1>3. PaidSlot(req[r])'
  BY <1>1 DEF PaidSlot, Idle
<1>4. PaidSubs(req[r])'
  BY <1>1, <1>2 DEF Paid, PaidSubs, PaidUntil, ActiveSubs
<1>5. PaidAds(req[r])'
  BY <1>1 DEF Paid, PaidAds, LastAdEnds, IsLastAd
<1>6. PaidFlags(req[r])'
  BY <1>1, <1>2 DEF Paid, PaidFlags, Campaign, HasPremium
<1>7. ExpiredAds'
  BY <1>1 DEF Paid, ExpiredAds
<1>8. EndsPaid'
  <2>1. \A t, day : PaysEnd(t, day) => PaysEnd(t, day)'
    BY <1>2 DEF PaysEnd
  <2> QED
    BY <2>1 DEF Paid, EndsPaid
<1> QED
  BY <1>3, <1>4, <1>5, <1>6, <1>7, <1>8 DEF Paid

\* A store is erased, with its campaigns and payments.
LEMMA PaidErased ==
    ASSUME TypeInv, TypeInv', NEW r \in Requests, Paid(req[r]), EraseStore(r)
    PROVE  Paid(req[r])'
<1> PICK s : s = req[r].store
  OBVIOUS
<1>0. /\ ads \in Seq(PaidRow) /\ \A a \in DOMAIN ads : ads[a] \in PaidRow
      /\ subs \in Seq(PaidRow) /\ \A i \in DOMAIN subs : subs[i] \in PaidRow
      /\ store \in [Stores -> StoreRow]
  BY PaymentTypes
<1>1. req[r].pc = "erase" /\ today' = today /\ req'[r] = Idle
  BY StepDoes DEF EraseStore, Return, Goto
<1>2. PaidSlot(req[r])'
  BY <1>1 DEF PaidSlot, Idle
<1>3. CASE UNCHANGED <<store, ads, subs>>
  BY <1>1, <1>2, <1>3, PaidCalm, PaymentTypes
<1>4. CASE /\ store' = [store EXCEPT ![s] = NoStore]
           /\ ads' = Cascaded(ads, s) /\ subs' = Cascaded(subs, s)
  <2>1. \A t \in Stores : t # s => store'[t] = store[t]
    BY <1>0, <1>4
  <2>2. \A t \in Stores : t = s =>
          store'[t].subEnds = NoDay /\ store'[t].adEnds = NoDay /\ ~store'[t].premium
    BY <1>0, <1>4 DEF NoStore
  <2>3. /\ DOMAIN ads' = DOMAIN ads
        /\ \A a \in DOMAIN ads : /\ ads'[a].store = ads[a].store /\ ads'[a].ends = ads[a].ends
                                 /\ ads[a].store # s => ads'[a] = ads[a]
                                 /\ ads'[a].status = "EXPIRED" => ads[a].status = "EXPIRED"
    BY <1>0, <1>4 DEF Cascaded, PaidRow
  <2>4. /\ DOMAIN subs' = DOMAIN subs
        /\ \A i \in DOMAIN subs : /\ subs'[i].store = subs[i].store /\ subs'[i].ends = subs[i].ends
                                  /\ subs'[i].plan = subs[i].plan
                                  /\ subs[i].store # s => subs'[i] = subs[i]
                                  /\ subs[i].store = s => subs'[i].status = "GONE"
    BY <1>0, <1>4 DEF Cascaded, PaidRow
  <2>5. PaidSubs(req[r])'
    <3>1. \A day : PaidUntil(s, day)'
      BY <2>4 DEF PaidUntil, ActiveSubs
    <3>2. \A t, day : t # s /\ PaidUntil(t, day) => PaidUntil(t, day)'
      BY <2>4 DEF PaidUntil, ActiveSubs
    <3> QED
      BY <1>1, <2>1, <3>1, <3>2 DEF Paid, PaidSubs
  <2>6. PaidAds(req[r])'
    <3>1. \A t, day : LastAdEnds(t, day) => LastAdEnds(t, day)'
      BY <2>3 DEF LastAdEnds, IsLastAd
    <3> QED
      BY <1>1, <2>1, <2>2, <3>1 DEF Paid, PaidAds
  <2>7. PaidFlags(req[r])'
    <3>1. \A t, day : t # s /\ Campaign(t, day) => Campaign(t, day)'
      BY <2>3 DEF Campaign
    <3>2. \A t : HasPremium(t) => HasPremium(t)'
      BY <2>4 DEF HasPremium
    <3> QED
      BY <1>1, <2>1, <2>2, <3>1, <3>2 DEF Paid, PaidFlags
  <2>8. ExpiredAds'
    <3>1. Len(ads') = Len(ads) /\ \A a \in DOMAIN ads : a..Len(ads) \subseteq DOMAIN ads
      <4>1. Len(ads) \in Nat /\ DOMAIN ads = 1..Len(ads)
        BY <1>0
      <4>2. Len(ads') = Len(ads)
        BY <1>4, <4>1 DEF Cascaded
      <4> QED
        BY <4>1, <4>2
    <3> QED
      BY <1>1, <2>3, <3>1 DEF Paid, ExpiredAds
  <2>9. EndsPaid'
    <3>1. \A t, day : t # s /\ PaysEnd(t, day) => PaysEnd(t, day)'
      BY <2>4 DEF PaysEnd
    <3> QED
      BY <2>1, <2>2, <3>1 DEF Paid, EndsPaid
  <2> QED
    BY <1>2, <2>5, <2>6, <2>7, <2>8, <2>9 DEF Paid
<1> QED
  BY <1>3, <1>4 DEF EraseStore

\* A call begins while no request runs.
LEMMA PaidCalled ==
    ASSUME TypeInv, TypeInv', NEW r \in Requests, Free(r), Begin(r),
           used'.overrides = used.overrides, Paid(req[r])
    PROVE  Paid(req[r])'
<1>1. UNCHANGED <<today, store, ads, subs>> /\ today \in Nat
  BY CallTouches, PaymentTypes
<1>2. ~Running(r) /\ req[r].pc = "idle"
  BY DEF Free, Running, Idle
<1>3. Moves(r)
  BY DEF Moves
<1>4. req'[r].pc \notin {"raise", "lower", "latest", "extend", "expireAds"}
  BY <1>2, <1>3, Entering
<1>5. req'[r].pc = "saveStore" =>
        req'[r].row = [store[req'[r].store] EXCEPT !.active = req'[r].row.active]
  BY <1>3, Entering, StoreCalled
<1>6. req'[r].pc = "lowerAll" => req'[r].list = {s \in Stores : Overdue(s)}
  BY <1>3, Entering, ExpiryCalled
<1>7. \A s \in Stores : Overdue(s) => Due(s)'
  BY <1>1 DEF Overdue, Due
<1>8. PaidSlot(req[r])'
  BY <1>1, <1>4, <1>5, <1>6, <1>7 DEF PaidSlot
<1> QED
  BY <1>1, <1>2, <1>8, PaidCalm

\* The statements that write flags or payments.
Pays(r) ==
    \/ InsertStore(r) \/ SaveStore(r) \/ Raise(r) \/ Lower(r) \/ Extend(r) \/ LowerAll(r)
    \/ InsertAd(r) \/ CancelAd(r) \/ ExpireAds(r)
    \/ InsertSub(r) \/ FindLatest(r) \/ CancelSub(r) \/ EraseStore(r)

\* The statement that a request has come to.
LEMMA PaysAt ==
    ASSUME NEW r \in Requests
    PROVE  /\ InsertStore(r) => req[r].pc = "insertStore"
           /\ SaveStore(r) => req[r].pc = "saveStore"
           /\ Raise(r) => req[r].pc = "raise"
           /\ Lower(r) => req[r].pc = "lower"
           /\ Extend(r) => req[r].pc = "extend"
           /\ LowerAll(r) => req[r].pc = "lowerAll"
           /\ InsertAd(r) => req[r].pc = "insertAd"
           /\ CancelAd(r) => req[r].pc = "cancelAd"
           /\ ExpireAds(r) => req[r].pc = "expireAds"
           /\ InsertSub(r) => req[r].pc = "insertSub"
           /\ FindLatest(r) => req[r].pc = "latest"
           /\ CancelSub(r) => req[r].pc = "cancelSub"
           /\ EraseStore(r) => req[r].pc = "erase"
  BY DEF InsertStore, SaveStore, Raise, Lower, Extend, LowerAll, InsertAd, CancelAd, ExpireAds,
         InsertSub, FindLatest, CancelSub, EraseStore

\* What each of them leaves alone.
LEMMA PaysTouch ==
    ASSUME NEW r \in Requests, Run(r)
    PROVE  /\ today' = today
           /\ InsertStore(r) \/ SaveStore(r) \/ Raise(r) \/ Lower(r) \/ Extend(r) \/ LowerAll(r)
                => UNCHANGED <<ads, subs>>
           /\ InsertAd(r) \/ CancelAd(r) \/ ExpireAds(r) => UNCHANGED <<store, subs>>
           /\ InsertSub(r) \/ CancelSub(r) => UNCHANGED <<store, ads>>
           /\ FindLatest(r) \/ ~Pays(r) => UNCHANGED <<store, ads, subs>>
<1>1. /\ today' = today
      /\ ads' = ads \/ InsertAd(r) \/ CancelAd(r) \/ ExpireAds(r) \/ EraseStore(r)
      /\ subs' = subs \/ InsertSub(r) \/ CancelSub(r) \/ EraseStore(r)
      /\ store' = store \/ StoreRun(r) \/ Raise(r) \/ Lower(r) \/ LowerAll(r) \/ Extend(r)
           \/ EraseStore(r)
  BY RunTouches
<1>2. ~Pays(r) => UNCHANGED <<store, ads, subs>>
  BY <1>1 DEF Pays, StoreRun
<1> QED
  BY <1>1, <1>2, PaysAt DEF StoreRun

\* Any other statement is no step of a payment.
LEMMA PaysNot ==
    ASSUME NEW r \in Requests, Run(r), ~Die(r), ~Pays(r)
    PROVE  req[r].pc \notin {"saveStore", "raise", "lower", "latest", "extend", "lowerAll",
                             "expireAds", "insertAd", "cancelAd", "insertSub"}
<1>1. \/ InsertCoupon(r) \/ CountUses(r) \/ PlaceOrder(r) \/ Sell(r) \/ Increment(r)
      \/ InsertName(r) \/ SaveName(r) \/ Hide(r) \/ InsertProduct(r) \/ SaveProduct(r)
      \/ InsertRow(r) \/ InsertFavorite(r) \/ DeleteRows(r) \/ DeleteProduct(r)
      \/ SaveReview(r) \/ ClearPhotos(r) \/ InsertPhotos(r) \/ SaveStoreReview(r)
      \/ SavePush(r) \/ Send(r) \/ Drop(r)
  BY DEF Run, StoreRun, PromotionRun, CatalogueRun, LiveRun, Pays
<1> QED
  BY <1>1 DEF InsertCoupon, CountUses, PlaceOrder, Sell, Increment, InsertName, SaveName, Hide,
              InsertProduct, SaveProduct, InsertRow, InsertFavorite, DeleteRows, DeleteProduct,
              SaveReview, ClearPhotos, InsertPhotos, SaveStoreReview, SavePush, Send, Drop

\* A handler's statement while no other request runs.
LEMMA PaidRan ==
    ASSUME TypeInv, TypeInv', NEW r \in Requests, Running(r), Run(r), ~Die(r), Paid(req[r])
    PROVE  Paid(req[r])'
<1>1. CASE InsertStore(r) \/ SaveStore(r) \/ Raise(r) \/ Lower(r) \/ Extend(r)
  BY <1>1, FlagsSet, PaysTouch
<1>2. CASE LowerAll(r)
  BY <1>2, FlagsLowered, PaysTouch
<1>3. CASE InsertAd(r) \/ CancelAd(r) \/ ExpireAds(r)
  BY <1>3, AdInserted, AdCancelled, AdsExpired, PaysTouch
<1>4. CASE InsertSub(r) \/ CancelSub(r)
  BY <1>4, SubInserted, SubCancelled, PaysTouch
<1>5. CASE FindLatest(r)
  BY <1>5, LatestFound, PaysTouch
<1>6. CASE EraseStore(r)
  BY <1>6, PaidErased
<1>7. CASE ~Pays(r)
  <2>1. UNCHANGED <<today, store, ads, subs>> /\ today \in Nat
    BY <1>7, PaysTouch, PaymentTypes
  <2>2. Moves(r)
    BY DEF Moves
  <2>3. req'[r].pc \notin {"raise", "lower", "latest", "extend", "expireAds"}
    BY <1>7, <2>2, Entering DEF Pays
  <2>4. req'[r].pc \notin {"saveStore", "lowerAll"}
    BY <2>2, Entering DEF Free
  <2>5. PaidSlot(req[r])'
    BY <2>3, <2>4 DEF PaidSlot
  <2>6. req[r].pc \notin {"raise", "latest", "extend", "lower"}
    BY <1>7, PaysNot
  <2> QED
    BY <2>1, <2>5, <2>6, PaidCalm
<1> QED
  BY <1>1, <1>2, <1>3, <1>4, <1>5, <1>6, <1>7 DEF Pays

\* A request moves.
LEMMA PaidStep ==
    ASSUME TypeInv, TypeInv', PaidInv, NEW r \in Requests, Moves(r)
    PROVE  PaidInv'
<1> SUFFICES ASSUME Kept'
             PROVE  /\ OneAtATime'
                    /\ \A q \in Requests : Running(q)' => Paid(req[q])'
                    /\ Quiet' => Paid(Idle)'
  BY DEF PaidInv
<1>1. /\ Kept /\ used'.overrides = used.overrides
      /\ (Free(r) /\ Begin(r) /\ Quiet) \/ (Running(r) /\ Run(r) /\ ~Die(r))
  BY KeptBefore
<1>2. OneAtATime /\ (Running(r) => Paid(req[r])) /\ (Quiet => Paid(Idle))
  BY <1>1 DEF PaidInv
<1>3. \A s \in Requests : s # r => ~Running(s)
  BY <1>1, <1>2 DEF Quiet, OneAtATime
<1>4. \A s \in Requests : s # r => ~Running(s)'
  BY <1>3, MovesCount DEF Running
<1>5. OneAtATime'
  BY <1>4 DEF OneAtATime
<1>6. Paid(req[r])'
  <2>1. CASE Free(r) /\ Begin(r) /\ Quiet
    <3>1. req[r] = Idle
      BY <2>1 DEF Quiet, Running
    <3>2. Paid(req[r])
      BY <1>2, <2>1, <3>1
    <3> QED
      BY <1>1, <2>1, <3>2, PaidCalled
  <2>2. CASE Running(r) /\ Run(r) /\ ~Die(r)
    BY <1>2, <2>2, PaidRan
  <2> QED
    BY <1>1, <2>1, <2>2
<1>7. ASSUME Quiet'
      PROVE  Paid(Idle)'
  <2>1. req'[r] = Idle
    BY <1>7 DEF Quiet, Running
  <2> QED
    BY <1>6, <2>1 DEF Paid, PaidSlot, PaidSubs, PaidAds, PaidFlags
<1> QED
  BY <1>4, <1>5, <1>6, <1>7

\* The day passes, a connection ends, or nothing happens.
LEMMA PaidLasts ==
    ASSUME TypeInv, TypeInv', PaidInv, Environment \/ UNCHANGED vars
    PROVE  PaidInv'
<1>1. UNCHANGED <<store, ads, subs>> /\ req' = req /\ (today' = today \/ Tick)
  BY EnvironmentTouches
<1>2. today <= today'
  BY <1>1, PaymentTypes DEF Tick
<1>3. /\ used'.overlaps = used.overlaps /\ used'.faults = used.faults
      /\ used'.overrides = used.overrides
  BY CallDoes DEF Environment, vars, Tick, Finalize, Happens
<1>4. Kept' = Kept /\ OneAtATime' = OneAtATime /\ Quiet' = Quiet
  BY <1>1, <1>3 DEF Kept, Clean, OneAtATime, Quiet, Running
<1>5. ASSUME NEW q, Paid(q)
      PROVE  Paid(q)'
  BY <1>1, <1>2, <1>5, PaidPasses
<1>6. ASSUME NEW r \in Requests, Running(r)', Running(r) => Paid(req[r])
      PROVE  Paid(req[r])'
  <2> PICK q : q = req[r]
    OBVIOUS
  <2>1. Running(r)
    BY <1>1, <1>6 DEF Running
  <2>2. Paid(q)'
    BY <1>5, <1>6, <2>1
  <2> QED
    BY <1>1, <2>2 DEF Paid, PaidSlot, PaidSubs, PaidAds, PaidFlags
<1>7. Paid(Idle) => Paid(Idle)'
  BY <1>5
<1> QED
  BY <1>4, <1>6, <1>7 DEF PaidInv

\* No store has flags or payments at first.
LEMMA InitPaid == Init => PaidInv
<1> SUFFICES ASSUME Init
             PROVE  PaidInv
  OBVIOUS
<1>1. \A r \in Requests : ~Running(r)
  BY DEF Init, Running
<1>2. \A s \in Stores : store[s].subEnds = NoDay /\ store[s].adEnds = NoDay /\ ~store[s].premium
  BY DEF Init, NewStore, NoStore
<1>3. DOMAIN ads = {} /\ DOMAIN subs = {}
  BY DEF Init
<1>4. Paid(Idle)
  BY <1>2, <1>3
  DEF Paid, PaidSlot, PaidSubs, PaidUntil, ActiveSubs, PaidAds, PaidFlags, ExpiredAds, EndsPaid, Idle
<1> QED
  BY <1>1, <1>4 DEF PaidInv, OneAtATime

\* What a store paid for it gets, once no request runs.
LEMMA PaidIsKept ==
    ASSUME TypeInv, PaidInv
    PROVE  PaidTimeIsKept
<1> SUFFICES ASSUME Clean, Quiet, used.overrides = 0
             PROVE  /\ \A s \in Stores : \A i \in ActiveSubs(s) :
                         store[s].active /\ subs[i].ends > today => Visible(s)
                    /\ \A s \in Stores :
                         Visible(s) /\ (ActiveSubs(s) # {} \/ store[s].subEnds # NoDay) =>
                           \E i \in DOMAIN subs : subs[i].store = s /\ subs[i].status # "GONE"
                                                    /\ subs[i].ends > today
                    /\ \A a \in DOMAIN ads : ads[a].status = "EXPIRED" =>
                         \E b \in a..Len(ads) : ads[b].store = ads[a].store /\ ads[b].ends <= today
                    /\ \A s \in Stores : Sponsored(s) =>
                         \/ \E a \in DOMAIN ads :
                              ads[a].store = s /\ ads[a].status = "ACTIVE" /\ ads[a].ends > today
                         \/ \E i \in DOMAIN subs : subs[i].store = s /\ subs[i].plan = "premium"
  BY DEF PaidTimeIsKept
<1>1. Paid(Idle) /\ Idle.pc = "idle"
  BY DEF PaidInv, Kept, Idle
<1>2. ASSUME NEW s \in Stores, NEW i \in ActiveSubs(s)
      PROVE  /\ subs[i].ends <= store[s].subEnds /\ store[s].subEnds # NoDay
             /\ subs[i].ends \in Nat /\ today \in Nat /\ store[s].subEnds \in Nat
  <2>1. subs[i].ends <= store[s].subEnds
    BY <1>1 DEF Paid, PaidSubs, PaidUntil
  <2>2. subs[i] \in PaidRow /\ store[s] \in StoreRow /\ today \in Nat
    BY PaymentTypes DEF ActiveSubs
  <2>3. subs[i].ends \in Nat /\ subs[i].ends > 0 /\ store[s].subEnds \in Nat
    BY <2>2 DEF PaidRow, StoreRow, Days, NoDay
  <2> QED
    BY <2>1, <2>2, <2>3 DEF NoDay
<1>3. ASSUME NEW s \in Stores, NEW i \in ActiveSubs(s), store[s].active, subs[i].ends > today
      PROVE  Visible(s)
  BY <1>2, <1>3 DEF Visible
<1>4. ASSUME NEW s \in Stores, Visible(s), ActiveSubs(s) # {} \/ store[s].subEnds # NoDay
      PROVE  \E i \in DOMAIN subs : subs[i].store = s /\ subs[i].status # "GONE"
                                      /\ subs[i].ends > today
  <2>1. store[s].subEnds # NoDay
    BY <1>2, <1>4
  <2>2. PaysEnd(s, store[s].subEnds)
    BY <1>1, <2>1 DEF Paid, EndsPaid
  <2> QED
    BY <1>4, <2>1, <2>2 DEF Visible, PaysEnd
<1>5. ASSUME NEW s \in Stores, Sponsored(s)
      PROVE  \/ \E a \in DOMAIN ads :
                  ads[a].store = s /\ ads[a].status = "ACTIVE" /\ ads[a].ends > today
             \/ \E i \in DOMAIN subs : subs[i].store = s /\ subs[i].plan = "premium"
  <2>1. HasPremium(s) \/ Campaign(s, store[s].adEnds)
    BY <1>1, <1>5 DEF Paid, PaidFlags, Sponsored
  <2>2. CASE HasPremium(s)
    BY <2>2 DEF HasPremium
  <2>3. CASE Campaign(s, store[s].adEnds)
    <3>1. PICK a \in DOMAIN ads : ads[a].store = s /\ ads[a].status = "ACTIVE"
                                    /\ ads[a].ends = store[s].adEnds
      BY <2>3 DEF Campaign
    <3>2. ads[a].ends # NoDay
      <4>1. ads[a] \in PaidRow
        BY PaymentTypes
      <4> QED
        BY <4>1 DEF PaidRow, Days, NoDay
    <3> QED
      BY <1>5, <3>1, <3>2 DEF Sponsored
  <2> QED
    BY <2>1, <2>2, <2>3
<1> QED
  BY <1>1, <1>3, <1>4, <1>5 DEF Paid, ExpiredAds

\* As long as requests do not overlap or die and nobody sets the flags by hand, an open store
\* is visible until the last day of every payment that stands begins, and a store that paid
\* no longer than one of its payments; no campaign expires before its end unless a later one
\* ended earlier, and a store is sponsored only while a campaign that was paid runs, or after
\* a premium plan was.
THEOREM PaidTimeHolds == Spec => []PaidTimeIsKept
<1>1. TypeInv /\ TypeInv' /\ PaidInv /\ [Next]_vars => PaidInv'
  <2> SUFFICES ASSUME TypeInv, TypeInv', PaidInv, [Next]_vars
               PROVE  PaidInv'
    OBVIOUS
  <2>1. ASSUME NEW r \in Requests, Moves(r)
        PROVE  PaidInv'
    BY <2>1, PaidStep
  <2>2. CASE Environment \/ UNCHANGED vars
    BY <2>2, PaidLasts
  <2> QED
    BY <2>1, <2>2 DEF Next, Moves
<1>2. TypeInv /\ PaidInv => PaidTimeIsKept
  BY PaidIsKept
<1> QED
  BY <1>1, <1>2, InitPaid, InitTypes, NextTypes, PTL DEF Spec
=============================================================================
