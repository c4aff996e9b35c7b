--------------------------- MODULE MCOrderWorker ---------------------------
(***************************************************************************)
(* Small instances of OrderWorker for TLC.                                 *)
(***************************************************************************)
EXTENDS OrderWorker, TLC

CONSTANTS o1, w1, w2, p1

MCBaskets == {(p1 :> [line |-> 1, again |-> 0])}

\* An invalid body, and one that names no order and has no usable attempt.
MCJunk == {[kind |-> "invalid", order |-> NoOrder, attempt |-> 1],
           [kind |-> "order", order |-> NoOrder, attempt |-> 0]}
=============================================================================
