----------------------------- MODULE MCStockroom -----------------------------
(***************************************************************************)
(* Instances of Stockroom for TLC: one product without expiry, some of     *)
(* whose stock is only in movements, one perishable product; a purchase of *)
(* both, part of it paid up front.                                         *)
(***************************************************************************)
EXTENDS Stockroom, TLC

MCPerishable == {"milk"}
MCMoved == [p \in Products |-> IF p = "milk" THEN 0 ELSE 1]
MCLines == [u \in Purchases |->
    << [product |-> "rice", qty |-> 2, cost |-> 1, dated |-> FALSE],
       [product |-> "milk", qty |-> 1, cost |-> 1, dated |-> TRUE] >>]
MCPaidUpFront == [u \in Purchases |-> 1]
MCAmounts == {1, 2}
MCEntries == {1, 2}
MCDeltas == {-1, 1}
MCNoMovements == [p \in Products |-> 0]
MCRice == [u \in Purchases |-> << [product |-> "rice", qty |-> 2, cost |-> 1, dated |-> FALSE] >>]

Interchangeable == Permutations(Requests)
=============================================================================
