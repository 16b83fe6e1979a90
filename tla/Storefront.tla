------------------------------ MODULE Storefront ------------------------------
(***************************************************************************)
(* The rows that all parts of the marketplace share: stores, with the      *)
(* flags that advertising and subscriptions set, products and orders; and  *)
(* StoresService's own writes to a store.                                  *)
(*                                                                         *)
(* A request is a sequence of statements, req[r].pc the next one.  Reads   *)
(* that follow one another are one step with the handler's entry.  save()  *)
(* writes the entity the handler holds: every column that differs from the *)
(* row by then, and the whole row again if it was deleted meanwhile.       *)
(***************************************************************************)
EXTENDS Integers, Sequences, FiniteSets, FiniteSetsExt

CONSTANTS
    Requests,      \* slots in which a handler may be running
    Stores,        \* stores, named by their slug
    Products,      \* products, named by their sku
    Buyers,        \* customers, named by their email
    MaxDay,        \* bound: the days a behaviour lasts
    MaxEvents,     \* bound: calls, crashes, new days and closed tabs in a behaviour
    MaxOverlaps,   \* bound: calls that begin while another one is running
    MaxFaults,     \* bound: requests that die midway
    MaxOverrides   \* bound: administrators setting the flags of a store by hand

ASSUME StorefrontAssumption ==
    /\ "none" \notin Stores \cup Products \cup Buyers
    /\ MaxDay \in Nat \ {0} /\ MaxEvents \in Nat /\ MaxOverlaps \in Nat /\ MaxFaults \in Nat
    /\ MaxOverrides \in Nat

VARIABLES
    today,     \* the date
    store,     \* stores
    product,   \* products
    rows,      \* how many rows of each table depend on a product
    order,     \* orders of one item each
    req,       \* the local variables of the request in each slot
    used       \* how much of the bounds is used up

-----------------------------------------------------------------------------
(* Rows and the local state of a request *)

NoDay == 0
Days == 1..MaxDay

StoreRow ==
    [here : BOOLEAN, active : BOOLEAN, premium : BOOLEAN,
     adEnds : {NoDay} \cup Days, subEnds : {NoDay} \cup Days]
NoStore == [here |-> FALSE, active |-> FALSE, premium |-> FALSE, adEnds |-> NoDay,
            subEnds |-> NoDay]
NewStore == [NoStore EXCEPT !.here = TRUE, !.active = TRUE]

\* category is the id of a row, or "none" in a product that is not there.
NoProduct == [here |-> FALSE, store |-> "none", category |-> "none", active |-> FALSE]

\* The tables with a product_id that products.remove deletes from, in its order, and
\* the two that it does not mention.
Deleted == <<"allocations", "movements", "batches", "reviews", "favorites", "videos", "images">>
Tables == {Deleted[i] : i \in DOMAIN Deleted} \cup {"variants", "purchases", "sales"}
NoRows == [t \in Tables |-> 0]

\* OPEN stands for PENDING, PAID, PREPARING and SHIPPED.
OrderStatus == {"OPEN", "DELIVERED", "CANCELLED"}
NewOrder(b, p, code) ==
    [buyer |-> b, product |-> p, status |-> "OPEN", paid |-> FALSE, coupon |-> code]

Idle ==
    [pc |-> "idle", store |-> "none", row |-> NoStore, product |-> "none",
     item |-> NoProduct, buyer |-> "none", key |-> "none", id |-> 0, num |-> 0, call |-> 0, list |-> {}]

Orders == DOMAIN order
ProductsOf(s) == {p \in Products : product[p].here /\ product[p].store = s}

-----------------------------------------------------------------------------
(* Requests *)

Running(r) == req[r] # Idle
Overlaps(r) == \E q \in Requests \ {r} : Running(q)
Quiet == \A r \in Requests : ~Running(r)
Clean == used.overlaps = 0 /\ used.faults = 0

\* A slot in which another call may begin.
Free(r) ==
    /\ ~Running(r) /\ used.events < MaxEvents
    /\ Overlaps(r) => used.overlaps < MaxOverlaps

CallWith(r, q, overrides) ==
    /\ used.overrides + overrides <= MaxOverrides
    /\ used' = [used EXCEPT !.events = @ + 1, !.overrides = @ + overrides,
                            !.overlaps = IF Overlaps(r) THEN @ + 1 ELSE @]
    /\ req' = [req EXCEPT ![r] = q]
Call(r, q) == CallWith(r, q, 0)

Goto(r, q) == req' = [req EXCEPT ![r] = q] /\ UNCHANGED used
Return(r) == Goto(r, Idle)

\* What happens that is not a call.
Happens == used.events < MaxEvents /\ used' = [used EXCEPT !.events = @ + 1]

\* The process or a connection fails; an open transaction is rolled back.
Die(r) ==
    /\ Running(r) /\ used.faults < MaxFaults /\ used.events < MaxEvents
    /\ used' = [used EXCEPT !.events = @ + 1, !.faults = @ + 1]
    /\ req' = [req EXCEPT ![r] = Idle]
    /\ UNCHANGED <<today, store, product, rows, order>>

Tick ==
    /\ today < MaxDay /\ Happens
    /\ today' = today + 1
    /\ UNCHANGED <<store, product, rows, order, req>>

-----------------------------------------------------------------------------
(* StoresService *)

shared == <<today, store, product, rows, order>>

\* What findOneBySlug and the list of stores show the public.  The end of a payment is a
\* date, in the store it is the instant at which that day begins: the store is hidden all
\* of that day.
Visible(s) == store[s].active /\ (store[s].subEnds # NoDay => store[s].subEnds > today)

\* sponsoredOnly in the catalogue: the flag alone is not believed.
Sponsored(s) ==
    store[s].here /\ store[s].premium
      /\ (store[s].adEnds # NoDay => store[s].adEnds > today)

\* create: ensureUniqueSlug, then the insert, which the unique slug may refuse.
BeginCreateStore(r, s) ==
    /\ ~store[s].here
    /\ Call(r, [Idle EXCEPT !.pc = "insertStore", !.store = s])
    /\ UNCHANGED shared

InsertStore(r) ==
    /\ req[r].pc = "insertStore"
    /\ LET s == req[r].store
       IN  store' = [store EXCEPT ![s] = IF store[s].here THEN @ ELSE NewStore]
    /\ Return(r)
    /\ UNCHANGED <<today, product, rows, order>>

\* update, updateNotifications, uploadLogo and uploadBanner hold the row they read
\* until the save; an owner cannot change what is modelled of it.
BeginEditStore(r, s) ==
    /\ store[s].here
    /\ Call(r, [Idle EXCEPT !.pc = "saveStore", !.store = s, !.row = store[s]])
    /\ UNCHANGED shared

\* update by an administrator, who may also open and close the store or set its flags.
BeginRuleStore(r, s) ==
    /\ store[s].here
    /\ \/ Call(r, [Idle EXCEPT !.pc = "saveStore", !.store = s,
                       !.row = [store[s] EXCEPT !.active = ~@]])
       \/ \E row \in {[store[s] EXCEPT !.premium = ~@]}
                     \cup {[store[s] EXCEPT !.subEnds = day] : day \in {NoDay} \cup Days} :
            CallWith(r, [Idle EXCEPT !.pc = "saveStore", !.store = s, !.row = row], 1)
    /\ UNCHANGED shared

SaveStore(r) ==
    /\ req[r].pc = "saveStore"
    /\ store' = [store EXCEPT ![req[r].store] = req[r].row]
    /\ Return(r)
    /\ UNCHANGED <<today, product, rows, order>>

-----------------------------------------------------------------------------
(* What OrdersService does with an order after it was placed, in one statement: its     *)
(* payment is confirmed, whatever its status; it is delivered or cancelled.             *)

Progress(r, o) ==
    /\ \/ ~order[o].paid /\ order' = [order EXCEPT ![o].paid = TRUE]
       \/ /\ order[o].status = "OPEN"
          /\ \E status \in OrderStatus \ {"OPEN"} :
               order' = [order EXCEPT ![o].status = status]
    /\ Call(r, Idle)
    /\ UNCHANGED <<today, store, product, rows>>

\* The routes of the controllers that change state, whoever may call them; the removal of
\* a store is in Catalogue.
StoresController(r) ==
    \E s \in Stores : BeginCreateStore(r, s) \/ BeginEditStore(r, s) \/ BeginRuleStore(r, s)
StoreBegin(r) == StoresController(r) \/ \E o \in Orders : Progress(r, o)
StoreRun(r) == InsertStore(r) \/ SaveStore(r)
=============================================================================
