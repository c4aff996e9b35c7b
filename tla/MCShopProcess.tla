---------------------------- MODULE MCShopProcess ----------------------------
(* A process with two requests, two signals and one outage.               *)
EXTENDS ShopProcess

AllKinds == {"order", "keyed", "read"}

FairSpec == Spec /\ ProcessFairness
=============================================================================
