------------------------------- MODULE MCCart -------------------------------
(***************************************************************************)
(* A small instance of Cart for TLC: a user with one item in the cart and  *)
(* a user without a cart.                                                  *)
(***************************************************************************)
EXTENDS Cart, TLC

CONSTANTS p1, p2, u1, u2, r1, r2, r3, k1

MCStock == (p1 :> 3 @@ p2 :> 1)

MCRows == (u1 :> [Empty EXCEPT ![p1] = [id |-> 1, quantity |-> 1]] @@ u2 :> Empty)

\* The first user sends everything, with the id of the item there is; the
\* second one sends the requests that create a cart and check it out.
MCBodies ==
       [op : {"add"}, user : {u1}, product : Products, quantity : {1}]
  \cup [op : {"update"}, user : {u1}, item : {1}, quantity : {2}]
  \cup [op : {"remove"}, user : {u1}, item : {1}]
  \cup [op : {"checkout"}, user : {u1}, key : Keys \cup {NoKey}]
  \cup [op : {"get", "clear"}, user : {u1}]
  \cup [op : {"add"}, user : {u2}, product : {p1}, quantity : {2}]
  \cup [op : {"get"}, user : {u2}]
  \cup [op : {"checkout"}, user : {u2}, key : Keys]

Spec == CartInit(MCBodies) /\ [][Next]_cvars

Symmetry == Permutations(Requests)
=============================================================================
