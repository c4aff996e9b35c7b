--------------------------- MODULE MCOrderSystem ---------------------------
(***************************************************************************)
(* Small instances of OrderSystem for TLC.                                 *)
(***************************************************************************)
EXTENDS OrderSystem, TLC

CONSTANTS p1

MCBaskets == {(p1 :> [line |-> 1, again |-> 0])}
MCStock == (p1 :> 2)
MCTxs == OrderIds \cup Cancels
=============================================================================
