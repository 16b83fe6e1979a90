------------------------------- MODULE MCTill -------------------------------
(***************************************************************************)
(* Instance of Till for TLC: two products with tax in the two modes, sales *)
(* that take them in opposite orders, one customer whose limit a single    *)
(* sale reaches, one cashier, three connections for two requests.          *)
(***************************************************************************)
EXTENDS Till, TLC

MCStock == [p \in Products |-> 2]
MCPrice == [p \in Products |-> IF p = "a" THEN 100 ELSE 200]
MCMode == [p \in Products |-> IF p = "a" THEN "INCLUDED" ELSE "EXCLUDED"]
MCRate == [p \in Products |-> 5]
MCBaskets == {<< [product |-> "a", qty |-> 2], [product |-> "b", qty |-> 1] >>,
              << [product |-> "b", qty |-> 1], [product |-> "a", qty |-> 1] >>}
MCLimits == {300, 400}
MCAmounts == {100}
=============================================================================
