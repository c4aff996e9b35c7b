------------------------------- MODULE ShopDb -------------------------------
(***************************************************************************)
(* The rows of the shop's PostgreSQL database that the order flow reads    *)
(* and writes: products, orders (with their items) and the row locks.      *)
(*                                                                         *)
(* Transactions run at READ COMMITTED.  The variables below hold committed *)
(* rows only; what a transaction has written but not committed is kept in  *)
(* its own state (writes, and the program counter of its request) and is   *)
(* copied here by its commit.  A row locked FOR UPDATE by one transaction  *)
(* cannot be locked or updated by another until that one ends.             *)
(***************************************************************************)
EXTENDS Integers, FiniteSetsExt

CONSTANTS
  Products,       \* product ids
  Users,          \* user ids
  Keys,           \* idempotency keys a client may send
  NoKey,          \* the NULL idempotency key
  OrderIds,       \* order ids: the requests that create them
  NoOrder,        \* "no such row"
  Payments,       \* payment ids
  NoPayment,      \* the NULL payment id
  Txs,            \* every transaction that locks product rows
  Baskets         \* the item lists of the modelled requests

(***************************************************************************)
(* A basket gives, for every product, the quantity of its line and of a    *)
(* second line naming the same product (0: no such line).  Item lists are  *)
(* not required to name a product once, and the code treats every line on  *)
(* its own, so two lines are what tells "per line" from "per product".     *)
(***************************************************************************)
BasketType == [Products -> [line : Nat, again : Nat]]

ASSUME BasketsAssumption ==
  /\ Baskets \subseteq BasketType
  /\ NoKey \notin Keys
  /\ NoPayment \notin Payments

Wanted(b) == {p \in Products : b[p].line > 0 \/ b[p].again > 0}

Total(b, p) == b[p].line + b[p].again

\* A basket that names every product at most once, as the cart always does:
\* its items are unique per (cart_id, product_id).
NoRepeats == \A b \in Baskets : \A p \in Products : b[p].again = 0

OrderStatus == {"CREATED", "PENDING", "PROCESSED", "PAID", "CANCELLED"}

Order == [userId : Users, key : Keys \cup {NoKey}, items : Baskets,
          status : OrderStatus, paymentId : Payments \cup {NoPayment}]

VARIABLES
  stock,      \* products.stock
  inactive,   \* products with is_active = false
  deleted,    \* products with deleted_at set
  orders,     \* the orders table: id -> row or NoOrder
  held        \* row locks: transaction -> the product rows it has locked

dbVars == <<stock, inactive, deleted, orders, held>>

DbTypeOK ==
  /\ stock \in [Products -> Int]
  /\ inactive \subseteq Products
  /\ deleted \subseteq Products
  /\ orders \in [OrderIds -> Order \cup {NoOrder}]
  /\ held \in [Txs -> SUBSET Products]

Exists(o) == orders[o] # NoOrder

\* The status column as OrderLifecycle sees it.
StatusOf == [o \in OrderIds |-> IF Exists(o) THEN orders[o].status ELSE "ABSENT"]

\* A variant of RowFree: the rows are read without FOR UPDATE.
RowFree_PlainSelect(t, p) == TRUE

\* Row p is not locked by a transaction other than t.
RowFree(t, p) == \A q \in Txs \ {t} : p \notin held[q]

\* ordersRepository.findByIdempotencyKey: the committed orders with key k.
WithKey(k) == {o \in OrderIds : Exists(o) /\ orders[o].key = k}
=============================================================================
