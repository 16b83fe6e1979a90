---------------------------- MODULE MCMarketplace ----------------------------
(***************************************************************************)
(* Instance of Marketplace for TLC: a store with two products and a global *)
(* coupon; room for a second store, a second global coupon and one of the  *)
(* store, all of the same code, and for a category, two suppliers and a    *)
(* menu category.                                                          *)
(***************************************************************************)
EXTENDS Marketplace, TLC

CONSTANTS c1, c2, c3, k1, k2, u1, u2, m1, t1, t2

CodeOfCoupon == c1 :> "X" @@ c2 :> "X" @@ c3 :> "X"
StoreOfCoupon == c1 :> "none" @@ c2 :> "none" @@ c3 :> "s1"
EndOfCoupon == c1 :> 1 @@ c2 :> NoDay @@ c3 :> NoDay
UsesOfCoupon == c1 :> 1 @@ c2 :> 1 @@ c3 :> 1
KindOfName == k1 :> "category" @@ k2 :> "category" @@ u1 :> "supplier" @@ u2 :> "supplier"
                @@ m1 :> "menu"
OwnerOfName == k1 :> "none" @@ k2 :> "none" @@ u1 :> "s1" @@ u2 :> "s1" @@ m1 :> "s1"
RoleOfUser == "ana" :> "seller" @@ "leo" :> "admin"

Interchangeable == Permutations(Requests) \cup Permutations(Tabs) \cup Permutations({u1, u2})
=============================================================================
