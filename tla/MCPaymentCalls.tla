--------------------------- MODULE MCPaymentCalls ---------------------------
(***************************************************************************)
(* A small instance of PaymentCalls for TLC.                               *)
(***************************************************************************)
EXTENDS PaymentCalls

CONSTANTS o1, c1, c2, c3, e1

\* Two concurrent authorizations and a status query or another attempt.
MCInit ==
  /\ PInit
  /\ req[c1] = [method |-> "authorize", order |-> o1, amount |-> 1]
  /\ req[c2].method = "authorize"
  /\ req[c3].method = "status" => req[c3].amount = 1

Spec == MCInit /\ [][Next]_pvars /\ Fairness
=============================================================================
