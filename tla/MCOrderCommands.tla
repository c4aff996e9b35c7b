-------------------------- MODULE MCOrderCommands --------------------------
(***************************************************************************)
(* Small instances of OrderCommands for TLC.                               *)
(***************************************************************************)
EXTENDS OrderCommands, TLC

CONSTANTS p1, p2, r1, r2, c1, c2, u1, u2, k1

Line(q) == [line |-> q, again |-> 0]
None == Line(0)

\* One unit of each product; an over-limit quantity of p2.
OnePlusOne == (p1 :> Line(1) @@ p2 :> Line(1))
TooMany == (p1 :> None @@ p2 :> Line(3))

MCBasketsLimit == {OnePlusOne, TooMany}
MCStockLow == (p1 :> 1 @@ p2 :> 1)
MCTxs == OrderIds \cup Cancels
=============================================================================
