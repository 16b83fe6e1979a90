--------------------------- MODULE MCReservations ---------------------------
(* Finite instances of Reservations. *)
EXTENDS Reservations, TLC

CONSTANTS o1, o2, r1, r2, fruit, shirt

\* Two orders that name the same two products in opposite order; one unit of each.
RaceCart ==
    o1 :> << [product |-> shirt, qty |-> 1], [product |-> fruit, qty |-> 1] >>
    @@ o2 :> << [product |-> fruit, qty |-> 1], [product |-> shirt, qty |-> 1] >>
RaceProductOf == 1 :> shirt @@ 2 :> fruit @@ 3 :> shirt @@ 4 :> shirt
RaceReceived == 1 :> 1 @@ 2 :> 1 @@ 3 :> 0 @@ 4 :> 0
RaceMoved == shirt :> 1 @@ fruit :> 1

\* Two batches of each product; the first order needs both batches of shirts.
LineCart ==
    o1 :> << [product |-> shirt, qty |-> 2], [product |-> fruit, qty |-> 1] >>
    @@ o2 :> << [product |-> fruit, qty |-> 1] >>
LineProductOf == 1 :> shirt @@ 2 :> shirt @@ 3 :> fruit @@ 4 :> fruit @@ 5 :> shirt
LineReceived == 1 :> 1 @@ 2 :> 1 @@ 3 :> 1 @@ 4 :> 1 @@ 5 :> 0
LineMoved == shirt :> 2 @@ fruit :> 2

\* One order's line is larger than any batch of it; one batch of fruit.
CrashCart ==
    o1 :> << [product |-> shirt, qty |-> 1] >>
    @@ o2 :> << [product |-> shirt, qty |-> 2], [product |-> fruit, qty |-> 1] >>
CrashProductOf == 1 :> shirt @@ 2 :> shirt @@ 3 :> fruit @@ 4 :> shirt @@ 5 :> fruit
CrashReceived == 1 :> 1 @@ 2 :> 1 @@ 3 :> 1 @@ 4 :> 0 @@ 5 :> 0
CrashMoved == shirt :> 2 @@ fruit :> 1

\* Two orders for the same single shirt.
SameCart == [o \in Orders |-> << [product |-> shirt, qty |-> 1] >>]

Slots == Permutations(Requests)
=============================================================================
