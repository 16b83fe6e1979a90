---------------------------- MODULE StockPromise ----------------------------
(***************************************************************************)
(* What OrdersService promises about stock when requests do not overlap    *)
(* and none dies: every unit on sale is either free or held by a line of   *)
(* an order, and moves between the two only as the order's life allows.    *)
(* Batches, allocations, statements and transactions are not visible here. *)
(***************************************************************************)
EXTENDS Integers, Sequences, FiniteSetsExt

CONSTANTS Products, Orders, Cart, Supply

VARIABLES free,   \* units of each product on sale
          held,   \* units held by each line of each order
          stage   \* status of each order

vars == <<free, held, stage>>

Lines(o) == DOMAIN Cart[o]
HoldsNothing(o) == \A i \in Lines(o) : held[o][i] = 0
Whole(o) == [i \in Lines(o) |-> Cart[o][i].qty]
Demand(o, p) ==
    MapThenSumSet(LAMBDA i : Cart[o][i].qty, {i \in Lines(o) : Cart[o][i].product = p})

Init ==
    /\ free = Supply
    /\ held = [o \in Orders |-> [i \in Lines(o) |-> 0]]
    /\ stage = [o \in Orders |-> "ABSENT"]

\* All the lines of an order that holds nothing are taken at once.
TakeWhole(o) ==
    /\ HoldsNothing(o)
    /\ \A p \in Products : free[p] >= Demand(o, p)
    /\ free' = [p \in Products |-> free[p] - Demand(o, p)]
    /\ held' = [held EXCEPT ![o] = Whole(o)]

\* An order appears only with all of its stock held.
Place(o) ==
    /\ stage[o] = "ABSENT" /\ TakeWhole(o)
    /\ stage' = [stage EXCEPT ![o] = "PENDING"]

\* A store advancing an unpaid order takes its stock piece by piece.
Take(o, i) ==
    LET p == Cart[o][i].product
    IN  /\ stage[o] = "PENDING"
        /\ \E n \in 1..(Cart[o][i].qty - held[o][i]) :
             /\ n <= free[p]
             /\ held' = [held EXCEPT ![o][i] = @ + n]
             /\ free' = [free EXCEPT ![p] = @ - n]
    /\ UNCHANGED stage

\* Stock comes back, piece by piece, from orders that can still be cancelled.
GiveBack(o, i) ==
    /\ stage[o] \in {"PENDING", "PAID", "PREPARING"}
    /\ \E n \in 1..held[o][i] :
         /\ held' = [held EXCEPT ![o][i] = @ - n]
         /\ free' = [free EXCEPT ![Cart[o][i].product] = @ + n]
    /\ UNCHANGED stage

\* A confirmation takes the whole order if it holds nothing.  It does not look at
\* the status: confirming a cancelled order takes stock too.
Confirm(o) ==
    /\ stage[o] # "ABSENT"
    /\ \/ TakeWhole(o)
       \/ ~HoldsNothing(o) /\ UNCHANGED <<free, held>>
    /\ stage' = [stage EXCEPT ![o] = IF @ = "PENDING" THEN "PAID" ELSE @]

\* An order moves on holding stock, and is cancelled holding none.
Move(o) ==
    /\ \/ stage[o] = "PENDING" /\ ~HoldsNothing(o) /\ stage'[o] \in {"PAID", "PREPARING"}
       \/ stage[o] = "PAID" /\ stage'[o] = "PREPARING"
       \/ stage[o] = "PREPARING" /\ stage'[o] = "SHIPPED"
       \/ stage[o] = "SHIPPED" /\ stage'[o] = "DELIVERED"
       \/ /\ stage[o] \in {"PENDING", "PAID", "PREPARING"} /\ HoldsNothing(o)
          /\ stage'[o] = "CANCELLED"
    /\ stage' = [stage EXCEPT ![o] = stage'[o]]
    /\ UNCHANGED <<free, held>>

Next ==
    \E o \in Orders :
      \/ Place(o) \/ Confirm(o) \/ Move(o)
      \/ \E i \in Lines(o) : Take(o, i) \/ GiveBack(o, i)

Spec == Init /\ [][Next]_vars
=============================================================================
