------------------------------ MODULE Catalogue ------------------------------
(***************************************************************************)
(* Products and what hangs on them: ProductsService, CategoriesService,    *)
(* SuppliersService, MenuCategoriesService, ReviewsService, and the        *)
(* removal of a whole store (StoresService.remove).                        *)
(*                                                                         *)
(* The foreign keys are ON DELETE NO ACTION but for the rows that the      *)
(* schema deletes along (images, videos and variants of a product;         *)
(* categories, advertisements and subscriptions of a store).               *)
(***************************************************************************)
EXTENDS Promotions

CONSTANTS
    Names,       \* ids of categories, suppliers and menu categories there are or may be
    KindOf,      \* which of the three each is
    OwnerOf,     \* its store, or "none": a global one.  One kind and owner, one name.
    Media        \* of images, videos and variants, those that are added and removed

ASSUME CatalogueAssumption ==
    /\ KindOf \in [Names -> {"category", "supplier", "menu"}]
    /\ OwnerOf \in [Names -> Stores \cup {"none"}]
    /\ Media \subseteq {"images", "videos", "variants"}
    /\ \A n \in Names : KindOf[n] = "menu" => OwnerOf[n] # "none"

VARIABLES
    named,         \* state of each row of Names
    favorites,     \* product_favorites, unique by customer and product
    reviews,       \* reviews and, as the calls that uploaded them, their review_images
    storeReviews   \* store_reviews, unique by customer and order

catalogue == <<named, favorites, reviews, storeReviews>>

NameState == {"NEW", "ACTIVE", "INACTIVE", "GONE"}
ProductRow ==
    [here : BOOLEAN, store : Stores \cup {"none"}, category : Names \cup {"none"},
     active : BOOLEAN]
ReviewRow ==
    [buyer : Buyers, product : Products, order : Nat \ {0}, here : BOOLEAN,
     images : SUBSET (1..MaxEvents)]
StoreReviewRow == [buyer : Buyers, store : Stores, order : Nat \ {0}, here : BOOLEAN]

There(n) == named[n] \in {"ACTIVE", "INACTIVE"}
IsCategory(n) == KindOf[n] = "category"

-----------------------------------------------------------------------------
(* Categories, suppliers and menu categories *)

SameName(n) == {m \in Names : There(m) /\ KindOf[m] = KindOf[n] /\ OwnerOf[m] = OwnerOf[n]}
OwnerIsThere(n) == OwnerOf[n] # "none" => store[OwnerOf[n]].here

\* create: the name is looked up first, but not that of a menu category.
BeginCreateName(r, n) ==
    /\ named[n] = "NEW" /\ \A q \in Requests : req[q].pc = "insertName" => req[q].key # n
    /\ IF KindOf[n] = "menu" THEN OwnerIsThere(n) ELSE SameName(n) = {}
    /\ Call(r, [Idle EXCEPT !.pc = "insertName", !.key = n])
    /\ UNCHANGED <<shared, promotions, catalogue>>

\* Only categories have a unique index, (name, store_id), which a NULL store escapes.
InsertName(r) ==
    LET n == req[r].key
        refused == \/ ~OwnerIsThere(n)
                   \/ IsCategory(n) /\ OwnerOf[n] # "none" /\ SameName(n) # {}
    IN  /\ req[r].pc = "insertName"
        /\ named' = IF refused THEN named ELSE [named EXCEPT ![n] = "ACTIVE"]
        /\ Return(r)
        /\ UNCHANGED <<shared, promotions, favorites, reviews, storeReviews>>

\* update of a category or supplier, which opens or closes it.
BeginSwitchName(r, n) ==
    /\ There(n) /\ KindOf[n] # "menu"
    /\ \E state \in {"ACTIVE", "INACTIVE"} :
         Call(r, [Idle EXCEPT !.pc = "saveName", !.key = n, !.list = {state}])
    /\ UNCHANGED <<shared, promotions, catalogue>>

SaveName(r) ==
    LET q == req[r]
    IN  /\ q.pc = "saveName"
        /\ IF There(q.key)
           THEN /\ named' = [named EXCEPT ![q.key] = CHOOSE state \in q.list : TRUE]
                /\ IF IsCategory(q.key) /\ "INACTIVE" \in q.list
                   THEN Goto(r, [Idle EXCEPT !.pc = "hide", !.key = q.key]) ELSE Return(r)
           ELSE Return(r) /\ UNCHANGED named
        /\ UNCHANGED <<shared, promotions, favorites, reviews, storeReviews>>

\* A category that is closed takes its products off the shop, in a second statement.
Hide(r) ==
    /\ req[r].pc = "hide"
    /\ product' = [p \in Products |->
          IF product[p].here /\ product[p].category = req[r].key
          THEN [product[p] EXCEPT !.active = FALSE] ELSE product[p]]
    /\ Return(r)
    /\ UNCHANGED <<today, store, rows, order, promotions, catalogue>>

RemoveMenu(r, n) ==
    /\ There(n) /\ KindOf[n] = "menu"
    /\ named' = [named EXCEPT ![n] = "GONE"]
    /\ Call(r, Idle)
    /\ UNCHANGED <<shared, promotions, favorites, reviews, storeReviews>>

-----------------------------------------------------------------------------
(* Products *)

\* ensureCategoryExists: global, or of the product's store.
FitsCategory(n, s) == There(n) /\ IsCategory(n) /\ OwnerOf[n] \in {"none", s}

BeginCreateProduct(r, p, s, n, units) ==
    /\ ~product[p].here /\ store[s].here /\ FitsCategory(n, s)
    /\ Call(r, [Idle EXCEPT !.pc = "insertProduct", !.product = p, !.num = units,
                  !.item = [here |-> TRUE, store |-> s, category |-> n, active |-> TRUE]])
    /\ UNCHANGED <<shared, promotions, catalogue>>

Refers(item) == store[item.store].here /\ There(item.category)

\* The product and, for an initial stock, its batch and movement in one transaction; the
\* sku is unique.
InsertProduct(r) ==
    LET q == req[r]
    IN  /\ q.pc = "insertProduct"
        /\ IF product[q.product].here \/ ~Refers(q.item) THEN UNCHANGED <<product, rows>>
           ELSE /\ product' = [product EXCEPT ![q.product] = q.item]
                /\ rows' = [rows EXCEPT ![q.product]["batches"] = IF q.num > 0 THEN 1 ELSE 0,
                                        ![q.product]["movements"] = IF q.num > 0 THEN 1 ELSE 0]
        /\ Return(r)
        /\ UNCHANGED <<today, store, order, promotions, catalogue>>

\* update and updateStatus.  A category or store the call names is checked, and has no
\* effect: the product was loaded with its relations, and save takes these over the columns.
BeginUpdateProduct(r, p, active) ==
    /\ product[p].here
    /\ Call(r, [Idle EXCEPT !.pc = "saveProduct", !.product = p,
                  !.item = [product[p] EXCEPT !.active = active]])
    /\ UNCHANGED <<shared, promotions, catalogue>>

\* The row is written again with the store and category it had, even one removed since.
SaveProduct(r) ==
    LET q == req[r]
    IN  /\ q.pc = "saveProduct"
        /\ product' = IF Refers(q.item) THEN [product EXCEPT ![q.product] = q.item] ELSE product
        /\ Return(r)
        /\ UNCHANGED <<today, store, rows, order, promotions, catalogue>>

\* addGalleryImage, addVideo and createVariant, and their removals.
BeginAddRow(r, p, t) ==
    /\ product[p].here
    /\ Call(r, [Idle EXCEPT !.pc = "insertRow", !.product = p, !.key = t])
    /\ UNCHANGED <<shared, promotions, catalogue>>

InsertRow(r) ==
    LET q == req[r]
    IN  /\ q.pc = "insertRow"
        /\ rows' = [rows EXCEPT ![q.product][q.key] = IF product[q.product].here THEN @ + 1 ELSE @]
        /\ Return(r)
        /\ UNCHANGED <<today, store, product, order, promotions, catalogue>>

RemoveRow(r, p, t) ==
    /\ product[p].here /\ rows[p][t] > 0
    /\ rows' = [rows EXCEPT ![p][t] = @ - 1]
    /\ Call(r, Idle)
    /\ UNCHANGED <<today, store, product, order, promotions, catalogue>>

BeginFavorite(r, b, p) ==
    /\ product[p].here /\ product[p].active /\ <<b, p>> \notin favorites
    /\ Call(r, [Idle EXCEPT !.pc = "insertFavorite", !.buyer = b, !.product = p])
    /\ UNCHANGED <<shared, promotions, catalogue>>

InsertFavorite(r) ==
    LET q == req[r]
    IN  /\ q.pc = "insertFavorite"
        /\ favorites' = IF product[q.product].here THEN favorites \cup {<<q.buyer, q.product>>}
                        ELSE favorites
        /\ Return(r)
        /\ UNCHANGED <<shared, promotions, named, reviews, storeReviews>>

Unfavorite(r, b, p) ==
    /\ <<b, p>> \in favorites
    /\ favorites' = favorites \ {<<b, p>>}
    /\ Call(r, Idle)
    /\ UNCHANGED <<shared, promotions, named, reviews, storeReviews>>

-----------------------------------------------------------------------------
(* Removal of a product *)

OrdersOf(p) == {o \in Orders : order[o].product = p}
ReviewsOf(p) == {k \in DOMAIN reviews : reviews[k].here /\ reviews[k].product = p}

\* Mutant of NeverSold: only the orders of the panel are counted, not those that are open.
NeverDelivered(p) ==
    rows[p]["sales"] = 0 /\ \A o \in OrdersOf(p) : order[o].status # "DELIVERED"
NeverSold(p) == rows[p]["sales"] = 0 /\ OrdersOf(p) = {}

BeginRemoveProduct(r, p) ==
    /\ product[p].here /\ NeverSold(p)
    /\ Call(r, [Idle EXCEPT !.pc = "deleteRows", !.product = p, !.num = 1])
    /\ UNCHANGED <<shared, promotions, catalogue>>

\* What keeps a DELETE from table t from going through.
Holds(p, t) ==
    CASE t = "batches" -> rows[p]["movements"] + rows[p]["allocations"] > 0
      [] t = "reviews" -> \E k \in ReviewsOf(p) : reviews[k].images # {}
      [] OTHER         -> FALSE

WithoutReviews(gone) ==
    [k \in DOMAIN reviews |-> IF reviews[k].product \in gone
                              THEN [reviews[k] EXCEPT !.here = FALSE, !.images = {}]
                              ELSE reviews[k]]
WithoutFavorites(gone) == {f \in favorites : f[2] \notin gone}

\* One DELETE after another, each of them a transaction of its own.
DeleteRows(r) ==
    LET q == req[r]
        p == q.product
        t == Deleted[q.num]
    IN  /\ q.pc = "deleteRows"
        /\ IF Holds(p, t) THEN Return(r) /\ UNCHANGED <<rows, reviews, favorites>>
           ELSE /\ rows' = [rows EXCEPT ![p][t] = 0]
                /\ reviews' = IF t = "reviews" THEN WithoutReviews({p}) ELSE reviews
                /\ favorites' = IF t = "favorites" THEN WithoutFavorites({p}) ELSE favorites
                /\ Goto(r, IF q.num < Len(Deleted) THEN [q EXCEPT !.num = @ + 1]
                           ELSE [q EXCEPT !.pc = "deleteProduct"])
        /\ UNCHANGED <<today, store, product, order, promotions, named, storeReviews>>

DeleteProduct(r) ==
    LET p == req[r].product
        held == \/ OrdersOf(p) # {} \/ ReviewsOf(p) # {}
                \/ \E b \in Buyers : <<b, p>> \in favorites
                \/ \E t \in Tables \ {"images", "videos", "variants"} : rows[p][t] > 0
    IN  /\ req[r].pc = "deleteProduct"
        /\ IF held THEN UNCHANGED <<product, rows>>
           ELSE /\ product' = [product EXCEPT ![p] = NoProduct]
                /\ rows' = [rows EXCEPT ![p] = NoRows]
        /\ Return(r)
        /\ UNCHANGED <<today, store, order, promotions, catalogue>>

-----------------------------------------------------------------------------
(* Removal of a store *)

\* Mutant of NeverOrdered: orders that were delivered do not count.
NeverAwaited(s) ==
    \A p \in ProductsOf(s) : \A o \in OrdersOf(p) : order[o].status = "DELIVERED"
NeverOrdered(s) == \A p \in ProductsOf(s) : OrdersOf(p) = {}

BeginRemoveStore(r, s) ==
    /\ store[s].here /\ NeverOrdered(s)
    /\ Call(r, [Idle EXCEPT !.pc = "erase", !.store = s])
    /\ UNCHANGED <<shared, promotions, catalogue>>

\* Mutant of Cascaded: the foreign keys do not take the rows of the store along.
CascadedNowhere(list, s) == list
Cascaded(list, s) ==
    [i \in DOMAIN list |-> IF list[i].store = s THEN [list[i] EXCEPT !.status = "GONE"]
                           ELSE list[i]]

\* One transaction deletes what belongs to the store, the sales at its counter included.
\* It fails on the rows it does not know of (its coupons; products of another store in one
\* of its categories), on the batches of a purchase, whose item it deletes before them, and
\* on the orders placed since it looked for them.
EraseStore(r) ==
    LET s == req[r].store
        gone == ProductsOf(s)
        held == \/ ~NeverOrdered(s)
                \/ \E p \in gone : rows[p]["purchases"] > 0 /\ rows[p]["batches"] > 0
                \/ \E c \in Coupons : coupon[c].state = "LIVE" /\ CouponStore[c] = s
                \/ \E p \in Products \ gone : /\ product[p].here
                                              /\ OwnerOf[product[p].category] = s
    IN  /\ req[r].pc = "erase"
        /\ IF held THEN UNCHANGED <<store, product, rows, ads, subs, catalogue>>
           ELSE /\ store' = [store EXCEPT ![s] = NoStore]
                /\ product' = [p \in Products |-> IF p \in gone THEN NoProduct ELSE product[p]]
                /\ rows' = [p \in Products |-> IF p \in gone THEN NoRows ELSE rows[p]]
                /\ ads' = Cascaded(ads, s) /\ subs' = Cascaded(subs, s)
                /\ named' = [n \in Names |-> IF OwnerOf[n] = s /\ There(n) THEN "GONE"
                                             ELSE named[n]]
                /\ reviews' = WithoutReviews(gone)
                /\ favorites' = WithoutFavorites(gone)
                /\ storeReviews' = [k \in DOMAIN storeReviews |->
                      IF storeReviews[k].store = s THEN [storeReviews[k] EXCEPT !.here = FALSE]
                      ELSE storeReviews[k]]
        /\ Return(r)
        /\ UNCHANGED <<today, order, coupon>>

-----------------------------------------------------------------------------
(* Reviews *)

\* findValidOrderForReview and findValidOrderForStoreReview: the newest order that counts.
BoughtBy(b, p) ==
    {o \in OrdersOf(p) : order[o].buyer = b /\ order[o].paid /\ order[o].status # "CANCELLED"}
DeliveredTo(b, s) ==
    {o \in Orders : order[o].buyer = b /\ order[o].status = "DELIVERED"
                      /\ order[o].product \in ProductsOf(s)}

ReviewsBy(b, p) == {k \in ReviewsOf(p) : reviews[k].buyer = b}
StoreReviewsBy(b, s) ==
    {k \in DOMAIN storeReviews :
       storeReviews[k].here /\ storeReviews[k].buyer = b /\ storeReviews[k].store = s}

\* Mutant of Found: an answer to a find is not looked at, a new row is written.
FoundNothing(S) == {0}
Found(S) == IF S = {} THEN {0} ELSE S

\* createOrUpdateReview, with or without photos; num: the order, id: the review found.
BeginReview(r, b, p, photos) ==
    /\ product[p].here /\ BoughtBy(b, p) # {}
    /\ \E k \in Found(ReviewsBy(b, p)) :
         Call(r, [Idle EXCEPT !.pc = IF photos THEN "saveWithPhotos" ELSE "saveReview",
                    !.buyer = b, !.product = p, !.num = Max(BoughtBy(b, p)), !.id = k,
                    !.call = used.events + 1, !.list = IF k = 0 THEN {} ELSE reviews[k].images])
    /\ UNCHANGED <<shared, promotions, catalogue>>

\* The review was loaded with its photos: the save fails when there are others by now
\* (their review_id would have to be NULL) and restores those that were deleted.
SaveReview(r) ==
    LET q == req[r]
        k == IF q.id = 0 THEN Len(reviews) + 1 ELSE q.id
        row == [buyer |-> q.buyer, product |-> q.product, order |-> q.num, here |-> TRUE,
                images |-> q.list]
        fails == ~product[q.product].here \/ (q.id # 0 /\ ~(reviews[q.id].images \subseteq q.list))
    IN  /\ q.pc \in {"saveReview", "saveWithPhotos"}
        /\ IF fails THEN Return(r) /\ UNCHANGED reviews
           ELSE /\ reviews' = IF q.id = 0 THEN Append(reviews, row)
                              ELSE [reviews EXCEPT ![k] = row]
                /\ IF q.pc = "saveReview" THEN Return(r)
                   ELSE Goto(r, [Idle EXCEPT !.pc = "clearPhotos", !.id = k, !.call = q.call])
        /\ UNCHANGED <<shared, promotions, named, favorites, storeReviews>>

ClearPhotos(r) ==
    /\ req[r].pc = "clearPhotos"
    /\ reviews' = [reviews EXCEPT ![req[r].id].images = {}]
    /\ Goto(r, [req[r] EXCEPT !.pc = "insertPhotos"])
    /\ UNCHANGED <<shared, promotions, named, favorites, storeReviews>>

InsertPhotos(r) ==
    LET q == req[r]
    IN  /\ q.pc = "insertPhotos"
        /\ reviews' = [reviews EXCEPT ![q.id].images =
              IF reviews[q.id].here THEN @ \cup {q.call} ELSE @]
        /\ Return(r)
        /\ UNCHANGED <<shared, promotions, named, favorites, storeReviews>>

BeginStoreReview(r, b, s) ==
    /\ store[s].here /\ DeliveredTo(b, s) # {}
    /\ \E k \in Found(StoreReviewsBy(b, s)) :
         Call(r, [Idle EXCEPT !.pc = "saveStoreReview", !.buyer = b, !.store = s,
                    !.num = Max(DeliveredTo(b, s)), !.id = k])
    /\ UNCHANGED <<shared, promotions, catalogue>>

SaveStoreReview(r) ==
    LET q == req[r]
        row == [buyer |-> q.buyer, store |-> q.store, order |-> q.num, here |-> TRUE]
        twice == \E k \in DOMAIN storeReviews \ {q.id} :
                   storeReviews[k].here /\ storeReviews[k].buyer = q.buyer
                     /\ storeReviews[k].order = q.num
    IN  /\ q.pc = "saveStoreReview"
        /\ storeReviews' = CASE twice \/ ~store[q.store].here -> storeReviews
                             [] ~twice /\ store[q.store].here /\ q.id = 0 -> Append(storeReviews, row)
                             [] OTHER -> [storeReviews EXCEPT ![q.id] = row]
        /\ Return(r)
        /\ UNCHANGED <<shared, promotions, named, favorites, reviews>>

ProductsController(r) ==
    \E p \in Products :
      \/ BeginRemoveProduct(r, p)
      \/ \E s \in Stores, n \in Names, units \in {0, 1} : BeginCreateProduct(r, p, s, n, units)
      \/ \E active \in BOOLEAN : BeginUpdateProduct(r, p, active)
      \/ \E t \in Media : BeginAddRow(r, p, t) \/ RemoveRow(r, p, t)
      \/ \E b \in Buyers : BeginFavorite(r, b, p) \/ Unfavorite(r, b, p)

ReviewsController(r) ==
    \E b \in Buyers :
      \/ \E p \in Products, photos \in BOOLEAN : BeginReview(r, b, p, photos)
      \/ \E s \in Stores : BeginStoreReview(r, b, s)

\* Categories, suppliers and menu categories.
NamesControllers(r) ==
    \E n \in Names : BeginCreateName(r, n) \/ BeginSwitchName(r, n) \/ RemoveMenu(r, n)

CatalogueBegin(r) ==
    \/ ProductsController(r) \/ ReviewsController(r) \/ NamesControllers(r)
    \/ \E s \in Stores : BeginRemoveStore(r, s)

CatalogueRun(r) ==
    \/ InsertName(r) \/ SaveName(r) \/ Hide(r) \/ InsertProduct(r) \/ SaveProduct(r)
    \/ InsertRow(r) \/ InsertFavorite(r) \/ DeleteRows(r) \/ DeleteProduct(r) \/ EraseStore(r)
    \/ SaveReview(r) \/ ClearPhotos(r) \/ InsertPhotos(r) \/ SaveStoreReview(r)

-----------------------------------------------------------------------------
(* Properties *)

Sold(p) == OrdersOf(p) # {} \/ rows[p]["sales"] > 0
BeingRemoved(p) == \E r \in Requests : req[r].pc = "deleteRows" /\ req[r].product = p

\* A product that has orders or sales is there, and keeps the batches its units came from,
\* but for one product for each request that overlaps another.  Once no removal is deleting
\* a product's rows, it has both batches and movements or neither, but for one product for
\* each request that overlaps another or dies between two of the deletes.
RemovalIsAllOrNothing ==
    /\ \A p \in Products : Sold(p) => product[p].here
    /\ Cardinality({p \in Products : Sold(p) /\ rows[p]["batches"] = 0}) <= used.overlaps
    /\ Cardinality({p \in Products : /\ (rows[p]["batches"] > 0) # (rows[p]["movements"] > 0)
                                     /\ ~BeingRemoved(p)})
         <= used.overlaps + used.faults

\* What was sold at the counter is deleted only with its whole store, and of no store that
\* has an order, whatever sales, orders and removals overlap.  The comment of the removal
\* of a store says more (a paid transaction can never be erased by mistake); it counts the
\* orders and deletes the sales.
SalesGoWithTheirStore ==
    [][\A p \in Products : rows'[p]["sales"] < rows[p]["sales"] =>
         LET s == product[p].store
         IN  /\ store[s].here /\ ~store'[s].here
             /\ \A x \in ProductsOf(s) : OrdersOf(x) = {} /\ ~product'[x].here
      ]_<<store, product, rows, order>>
=============================================================================
