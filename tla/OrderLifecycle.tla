--------------------------- MODULE OrderLifecycle ---------------------------
(***************************************************************************)
(* What the orders domain promises about the status of an order: it is     *)
(* placed as PENDING, processed once, paid once, and may be cancelled from *)
(* each of these states, after which it does not change any more.  The     *)
(* status values are those of the OrderStatus enum; CREATED is a value no  *)
(* operation of the code assigns.                                          *)
(***************************************************************************)
CONSTANTS Orders

VARIABLE status

Absent == "ABSENT"

Statuses == {"CREATED", "PENDING", "PROCESSED", "PAID", "CANCELLED"}

\* An order is observed from any point of its life.
Init == status \in [Orders -> Statuses \cup {Absent}]

Move(o, from, to) ==
  /\ status[o] \in from
  /\ status' = [status EXCEPT ![o] = to]

Place(o) == Move(o, {Absent}, "PENDING")
Process(o) == Move(o, {"PENDING"}, "PROCESSED")
Pay(o) == Move(o, {"PROCESSED"}, "PAID")
Cancel(o) == Move(o, {"PENDING", "PROCESSED", "PAID"}, "CANCELLED")

Next == \E o \in Orders : Place(o) \/ Process(o) \/ Pay(o) \/ Cancel(o)

Spec == Init /\ [][Next]_status
=============================================================================
