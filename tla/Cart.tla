-------------------------------- MODULE Cart --------------------------------
(***************************************************************************)
(* The shopping cart: CartService and the checkout that turns a cart into  *)
(* an order.                                                               *)
(*                                                                         *)
(* Every awaited statement of a request is a step.  None of them runs in a *)
(* transaction with another, so the requests of one user (two tabs, a      *)
(* client that retries) interleave at every step.  createOrder is one step *)
(* here: OrderCommands shows that it commits an order and its stock        *)
(* together or not at all, and answers a known idempotency key with the    *)
(* order that has it.  The id of a placed order is the checkout request.   *)
(***************************************************************************)
EXTENDS Integers, FiniteSetsExt

CONSTANTS
  Products, Users,
  Requests,           \* HTTP requests of the modelled users
  Keys, NoKey,        \* idempotency keys a checkout may carry
  NoOrder,
  InitialStock,       \* products.stock when the behaviour starts
  InitialRows,        \* the cart items of each user when it starts
  InitialLastId,      \* the last id given to a cart item by then
  MaxQuantity,        \* bound: quantities a request may ask for
  MaxOrderQuantity,   \* MAX_ORDER_QUANTITY
  MaxChanges          \* bound: changes of the products by others meanwhile

(***************************************************************************)
(* cart_items: a row has an id of its own and, by the unique index, there  *)
(* is one per cart and product.  Id 0 stands for "no row".                 *)
(***************************************************************************)
NoRow == [id |-> 0, quantity |-> 0]

Row == [id : Nat, quantity : Nat]

Rows == [Products -> Row]

Empty == [p \in Products |-> NoRow]

Present(rs) == {p \in Products : rs[p].id # 0}

\* What checkout hands to createOrder.
Order == [user : Users, key : Keys \cup {NoKey}, items : Rows]

ASSUME CartAssumption ==
  /\ IsFiniteSet(Requests)
  /\ InitialStock \in [Products -> Nat]
  /\ InitialRows \in [Users -> Rows]
  /\ \A u \in Users, p \in Products :
       /\ InitialRows[u][p].id = 0 <=> InitialRows[u][p].quantity = 0
       /\ InitialRows[u][p].quantity <= InitialStock[p]
       /\ InitialRows[u][p].id <= InitialLastId
  /\ \A u, v \in Users, p, q \in Products :
       InitialRows[u][p].id = InitialRows[v][q].id /\ InitialRows[u][p].id # 0 => u = v /\ p = q
  /\ InitialLastId \in Nat
  /\ MaxQuantity \in Nat /\ MaxOrderQuantity \in Nat /\ MaxChanges \in Nat
  /\ NoKey \notin Keys
  /\ NoOrder \notin Requests /\ NoOrder \notin Order

VARIABLES
  stock, status,   \* products: units and "live", "inactive" or "deleted"
  carts,           \* rows in carts per user
  rows,            \* rows in cart_items per user
  lastId,          \* the last id given to a cart item
  orders,          \* placed orders: request -> row or NoOrder
  changes,         \* changes of the products by others so far
  pc, req,         \* where each request stands, and its body
  seen,            \* products.stock as the request read it
  snap,            \* the cart items the request has in memory
  answer,          \* the order a checkout is answered with
  revived          \* history: ids that were given before and came into a cart again

tables == <<stock, status, carts, rows, lastId, orders, changes>>

locals == <<pc, req, seen, snap, answer>>

cvars == <<tables, locals, revived>>

\* The validated bodies: AddCartItemDto, UpdateCartItemDto, CartCheckoutDto
\* and the requests without one.
Bodies ==
       [op : {"add"}, user : Users, product : Products, quantity : 1..MaxQuantity]
  \cup [op : {"update"}, user : Users, item : Nat, quantity : 1..MaxQuantity]
  \cup [op : {"remove"}, user : Users, item : Nat]
  \cup [op : {"checkout"}, user : Users, key : Keys \cup {NoKey}]
  \cup [op : {"get", "clear"}, user : Users]

Done == {"answered", "failed"}

CartInit(bodies) ==
  /\ stock = InitialStock
  /\ status = [p \in Products |-> "live"]
  /\ carts = [u \in Users |-> IF Present(InitialRows[u]) = {} THEN 0 ELSE 1]
  /\ rows = InitialRows
  /\ lastId = InitialLastId
  /\ orders = [r \in Requests |-> NoOrder]
  /\ changes = 0
  /\ pc = [r \in Requests |-> "new"]
  /\ bodies \subseteq Bodies /\ req \in [Requests -> bodies]
  /\ seen = [r \in Requests |-> 0]
  /\ snap = [r \in Requests |-> Empty]
  /\ answer = [r \in Requests |-> NoOrder]
  /\ revived = {}

-----------------------------------------------------------------------------
(* Shared pieces *)

User(r) == req[r].user

Goto(r, label) == pc' = [pc EXCEPT ![r] = label]

\* The request moves on and nothing else changes.
Go(r, label) == Goto(r, label) /\ UNCHANGED <<tables, req, seen, snap, answer>>

\* findCartWithItems: the items as they are now.
Load(r, label) ==
  /\ snap' = [snap EXCEPT ![r] = rows[User(r)]]
  /\ Goto(r, label)
  /\ UNCHANGED <<tables, req, seen, answer>>

PutRow(r, p, row) == rows' = [rows EXCEPT ![User(r)][p] = row]

\* toCartResponse: a soft-deleted product is not joined, so that its item has
\* no product and reading the price throws.
Respond(r) ==
  IF \E p \in Present(rows[User(r)]) : status[p] = "deleted"
    THEN Go(r, "failed")
    ELSE Go(r, "answered")

-----------------------------------------------------------------------------
(* getCart and addItem *)

\* addItem: the product is read first and its stock kept for the later check.
FindProduct(r) ==
  /\ pc[r] = "new" /\ req[r].op = "add"
  /\ LET p == req[r].product IN
       IF status[p] = "live" /\ stock[p] > 0
         THEN /\ seen' = [seen EXCEPT ![r] = stock[p]]
              /\ Goto(r, "cart")
              /\ UNCHANGED <<tables, req, snap, answer>>
         ELSE Go(r, "failed")

\* getOrCreateCartEntity: the lookup, again after the insert.
FindCart(r) ==
  /\ pc[r] = "cart" \/ (pc[r] = "new" /\ req[r].op = "get")
  /\ \/ carts[User(r)] = 0 /\ Go(r, "insertCart")
     \/ carts[User(r)] > 0 /\ req[r].op = "add" /\ Load(r, "write")
     \/ carts[User(r)] > 0 /\ req[r].op = "get" /\ Respond(r)

CartTaken(u) == carts[u] > 0

\* The unique index on carts.user_id refuses a second cart.
InsertCart(r) ==
  /\ pc[r] = "insertCart"
  /\ IF CartTaken(User(r))
       THEN Go(r, "failed")
       ELSE /\ carts' = [carts EXCEPT ![User(r)] = @ + 1]
            /\ Goto(r, "cart")
            /\ UNCHANGED <<stock, status, rows, lastId, orders, changes, req, seen, snap, answer>>

\* A variant of NewQuantity: the sum is added to what the row holds by then.
NewQuantity_Twice(r) == rows[User(r)][req[r].product].quantity
                        + snap[r][req[r].product].quantity + req[r].quantity

NewQuantity(r) == snap[r][req[r].product].quantity + req[r].quantity

FitsStock(r) == NewQuantity(r) <= seen[r]

\* The upsert on (cart_id, product_id): a row that is there keeps its id.
Upsert(r) ==
  /\ pc[r] = "write"
  /\ LET p == req[r].product
         isNew == rows[User(r)][p].id = 0
     IN IF FitsStock(r)
          THEN /\ lastId' = lastId + (IF isNew THEN 1 ELSE 0)
               /\ PutRow(r, p, [id |-> IF isNew THEN lastId' ELSE rows[User(r)][p].id,
                                quantity |-> NewQuantity(r)])
               /\ Goto(r, "respond")
               /\ UNCHANGED <<stock, status, carts, orders, changes, req, seen, snap, answer>>
          ELSE Go(r, "failed")

Answer(r) == pc[r] = "respond" /\ Respond(r)

-----------------------------------------------------------------------------
(* updateItem, removeItem, clearCart *)

\* The products whose row in rs has the id the request names.
Target(r, rs) == {p \in Products : rs[p].id # 0 /\ rs[p].id = req[r].item}

\* findOwnedCartItem, with the stock check of updateItem.
FindOwnedItem(r) ==
  /\ pc[r] = "new" /\ req[r].op \in {"update", "remove"}
  /\ LET found == Target(r, rows[User(r)]) IN
       \/ found = {} /\ Go(r, "failed")
       \/ found # {} /\ req[r].op = "remove" /\ Load(r, "delete")
       \/ \E p \in found :
            /\ req[r].op = "update"
            /\ IF status[p] # "deleted" /\ req[r].quantity <= stock[p]
                 THEN Load(r, "diff")
                 ELSE Go(r, "failed")

(***************************************************************************)
(* cartItemRepository.save(item): the row is read again by its id.  It is  *)
(* updated if it is there and differs, and inserted under its old id if it *)
(* was deleted in between.                                                 *)
(***************************************************************************)
SaveDiff(r) ==
  /\ pc[r] = "diff"
  /\ LET now == Target(r, rows[User(r)]) IN
       \/ now = {} /\ Go(r, "insertRow")
       \/ \E p \in now : rows[User(r)][p].quantity = req[r].quantity /\ Go(r, "respond")
       \/ \E p \in now : rows[User(r)][p].quantity # req[r].quantity /\ Go(r, "updateRow")

\* UPDATE ... WHERE id: no row, no effect.
UpdateRow(r) ==
  /\ pc[r] = "updateRow"
  /\ rows' = [rows EXCEPT ![User(r)] =
                [p \in Products |-> IF p \in Target(r, @)
                                      THEN [@[p] EXCEPT !.quantity = req[r].quantity]
                                      ELSE @[p]]]
  /\ Goto(r, "respond")
  /\ UNCHANGED <<stock, status, carts, lastId, orders, changes, req, seen, snap, answer>>

\* INSERT with the old id: the unique index refuses it when the product has
\* been added to the cart again.
InsertRow(r) ==
  /\ pc[r] = "insertRow"
  /\ \E p \in Target(r, snap[r]) :
       IF rows[User(r)][p].id # 0
         THEN Go(r, "failed")
         ELSE /\ PutRow(r, p, [id |-> req[r].item, quantity |-> req[r].quantity])
              /\ Goto(r, "respond")
              /\ UNCHANGED <<stock, status, carts, lastId, orders, changes, req, seen, snap, answer>>

\* clearCart, called by the controller or at the end of checkout: the items
\* are read (again) and an empty cart is left as it is.
ReadForClear(r) ==
  /\ pc[r] = "clear" \/ (pc[r] = "new" /\ req[r].op = "clear")
  /\ IF Present(rows[User(r)]) = {} THEN Go(r, "answered") ELSE Load(r, "delete")

\* A variant of Doomed: DELETE ... WHERE cart_id.
Doomed_WholeCart(r) == {rows[User(r)][p].id : p \in Products}

\* The ids the request deletes: those of its snapshot, or the one it names.
Doomed(r) ==
  LET ids == {snap[r][p].id : p \in Present(snap[r])} IN
    IF req[r].op = "remove" THEN ids \cap {req[r].item} ELSE ids

\* cartItemRepository.remove: DELETE ... WHERE id.
DeleteRows(r) ==
  /\ pc[r] = "delete"
  /\ rows' = [rows EXCEPT ![User(r)] =
                [p \in Products |-> IF @[p].id \in Doomed(r) THEN NoRow ELSE @[p]]]
  /\ Goto(r, IF req[r].op = "remove" THEN "respond" ELSE "answered")
  /\ UNCHANGED <<stock, status, carts, lastId, orders, changes, req, seen, snap, answer>>

-----------------------------------------------------------------------------
(* checkout *)

ReadForCheckout(r) ==
  /\ pc[r] = "new" /\ req[r].op = "checkout"
  /\ IF Present(rows[User(r)]) = {} THEN Go(r, "failed") ELSE Load(r, "order")

WithKey(k) == {o \in Requests : orders[o] # NoOrder /\ orders[o].key = k /\ k # NoKey}

\* What createOrder checks of every line.
Orderable(r) ==
  \A p \in Present(snap[r]) :
    /\ status[p] = "live"
    /\ snap[r][p].quantity <= MaxOrderQuantity
    /\ snap[r][p].quantity <= stock[p]

\* createOrder answers a known key with the order that has it.
KnownKey(r) ==
  /\ pc[r] = "order"
  /\ \E o \in WithKey(req[r].key) :
       /\ answer' = [answer EXCEPT ![r] = o]
       /\ Goto(r, "clear")
       /\ UNCHANGED <<tables, req, seen, snap>>

PlacedOrder(r) == [user |-> User(r), key |-> req[r].key, items |-> snap[r]]

\* A variant of AfterOrder: the cart is not cleared.
AfterOrder_NoClear == {"answered", "failed"}

\* When publishing the message throws, the order is there and the request
\* fails before clearCart.
AfterOrder == {"clear", "failed"}

\* createOrder commits the order and its stock.
PlaceOrder(r) ==
  /\ pc[r] = "order" /\ WithKey(req[r].key) = {} /\ Orderable(r)
  /\ orders' = [orders EXCEPT ![r] = PlacedOrder(r)]
  /\ stock' = [p \in Products |-> stock[p] - snap[r][p].quantity]
  /\ answer' = [answer EXCEPT ![r] = r]
  /\ \E label \in AfterOrder : Goto(r, label)
  /\ UNCHANGED <<status, carts, rows, lastId, changes, req, seen, snap>>

OrderRefused(r) ==
  /\ pc[r] = "order" /\ WithKey(req[r].key) = {} /\ ~Orderable(r)
  /\ Go(r, "failed")

-----------------------------------------------------------------------------
(* Surroundings *)

\* A statement fails, or the process dies: nothing was started that would be
\* rolled back, so whatever was written before stays.
EndsEarly(r) == pc[r] \notin Done \cup {"new"} /\ Go(r, "failed")

\* Another customer buys a unit of the product, or an administrator takes it
\* off the shop (update with isActive = false, or the soft delete).
ProductChanges(p) ==
  /\ changes < MaxChanges
  /\ changes' = changes + 1
  /\ \/ /\ stock[p] > 0
        /\ stock' = [stock EXCEPT ![p] = @ - 1]
        /\ UNCHANGED status
     \/ /\ \E s \in {"inactive", "deleted"} \ {status[p]} : status' = [status EXCEPT ![p] = s]
        /\ UNCHANGED stock
  /\ UNCHANGED <<carts, rows, lastId, orders, locals>>

RequestStep(r) ==
  \/ FindProduct(r) \/ FindCart(r) \/ InsertCart(r) \/ Upsert(r) \/ Answer(r)
  \/ FindOwnedItem(r) \/ SaveDiff(r) \/ UpdateRow(r) \/ InsertRow(r)
  \/ ReadForClear(r) \/ DeleteRows(r)
  \/ ReadForCheckout(r) \/ KnownKey(r) \/ PlaceOrder(r) \/ OrderRefused(r)

\* The history: an id comes into a cart that is not a new one.
Track ==
  revived' = revived \cup
    {i \in 1..lastId : \E u \in Users, p \in Products : rows'[u][p].id = i /\ rows[u][p].id # i}

Next ==
  /\ \/ \E r \in Requests : RequestStep(r) \/ EndsEarly(r)
     \/ \E p \in Products : ProductChanges(p)
  /\ Track

CartSpec(bodies) == CartInit(bodies) /\ [][Next]_cvars

-----------------------------------------------------------------------------
(* Properties *)

\* Once a checkout is answered, no item of its order is in the cart, so that
\* sending it again finds an empty cart (a 400) or orders other items, whether
\* the order was its own or that of an earlier checkout with its key. The one
\* exception is an item that an update, overtaken by the clearing, has inserted
\* again under its old id (checkout, clearCart, updateItem).
OrderedItemsLeave ==
  \A r \in Requests, p \in Products :
    pc[r] = "answered" /\ answer[r] # NoOrder =>
      LET order == orders[answer[r]] IN
        order.user = User(r) /\ order.items[p].id # 0
          /\ rows[User(r)][p].id = order.items[p].id => order.items[p].id \in revived

\* The most a row can come to: one quantity it was set to (as it was at the
\* start, or by an update) and every addition of its product once.
Adders(u, p) ==
  {r \in Requests : req[r].op = "add" /\ User(r) = u /\ req[r].product = p}

Quantities(u, p) == [r \in Adders(u, p) |-> req[r].quantity]

Additions(u, p) == SumFunctionOnSet(Quantities(u, p), Adders(u, p))

SetTo(u, p) ==
  {0, InitialRows[u][p].quantity} \cup
  {req[r].quantity : r \in {q \in Requests : req[q].op = "update" /\ User(q) = u}}

\* Concurrent additions of a product may lose one another but never count
\* one twice, whatever is updated, removed and checked out meanwhile (addItem
\* writes a sum it computed from an earlier read).
NeverOvercounts ==
  \A u \in Users, p \in Products : rows[u][p].quantity <= Max(SetTo(u, p)) + Additions(u, p)

\* An item leaves a cart only for a request of its owner that had read it
\* under that id and that removes it, clears the cart, or has an order to be
\* answered with: a checkout that fails before the order leaves the cart
\* alone, and so does an item added after the last read (clearCart).
ItemsLeaveOnlyOnPurpose ==
  [][\A u \in Users, p \in Products :
       rows[u][p].id # 0 /\ rows'[u][p].id # rows[u][p].id =>
         \E r \in Requests :
           /\ User(r) = u /\ pc[r] = "delete"
           /\ snap[r][p].id = rows[u][p].id
           /\ \/ req[r].op = "clear"
              \/ req[r].op = "remove" /\ req[r].item = rows[u][p].id
              \/ req[r].op = "checkout" /\ answer[r] # NoOrder
    ]_cvars

-----------------------------------------------------------------------------
(* The inductive invariant behind the theorems of CartProofs *)

Labels == {"new", "cart", "insertCart", "write", "respond", "diff", "updateRow", "insertRow",
           "clear", "delete", "order"} \cup Done

CTypeOK ==
  /\ rows \in [Users -> Rows]
  /\ lastId \in Nat
  /\ orders \in [Requests -> Order \cup {NoOrder}]
  /\ pc \in [Requests -> Labels]
  /\ req \in [Requests -> Bodies]
  /\ snap \in [Requests -> Rows]
  /\ answer \in [Requests -> Requests \cup {NoOrder}]

\* Every place belongs to the handlers that reach it, and a checkout that
\* clears the cart has its order.
PlacesConsistent ==
  \A r \in Requests :
    /\ pc[r] = "write" => req[r].op = "add"
    /\ pc[r] \in {"cart", "insertCart"} => req[r].op \in {"add", "get"}
    /\ pc[r] \in {"diff", "updateRow", "insertRow"} => req[r].op = "update"
    /\ pc[r] \in {"order", "clear"} => req[r].op = "checkout"
    /\ pc[r] = "delete" => req[r].op \in {"remove", "clear", "checkout"}
    /\ pc[r] \in {"clear", "delete"} /\ req[r].op = "checkout" => answer[r] # NoOrder

\* No id was given that is larger than lastId, and in the cart of a user and
\* in every copy of it an id stands for one product.
IdsNameProducts ==
  /\ \A u \in Users, p \in Products : rows[u][p].id <= lastId
  /\ \A r \in Requests, p \in Products : snap[r][p].id <= lastId
  /\ \A u \in Users, p, q \in Products :
       rows[u][p].id = rows[u][q].id /\ rows[u][p].id # 0 => p = q
  /\ \A r \in Requests, p, q \in Products :
       snap[r][p].id = rows[User(r)][q].id /\ snap[r][p].id # 0 => p = q
  /\ \A r, s \in Requests, p, q \in Products :
       User(r) = User(s) /\ snap[r][p].id = snap[s][q].id /\ snap[r][p].id # 0 => p = q

\* An order has the key of its checkout, a key one order, and a checkout is
\* answered with an order that has its key.
OrdersConsistent ==
  /\ \A r \in Requests : orders[r] # NoOrder => req[r].op = "checkout" /\ orders[r].key = req[r].key
  /\ \A r, s \in Requests :
       orders[r] # NoOrder /\ orders[s] # NoOrder /\ orders[r].key = orders[s].key
         /\ orders[r].key # NoKey => r = s
  /\ \A r \in Requests : answer[r] # NoOrder =>
       /\ req[r].op = "checkout"
       /\ orders[answer[r]] # NoOrder /\ orders[answer[r]].key = req[r].key

\* The additions that are past their write, and what they add up to.
PastWrite(u, p) == {r \in Adders(u, p) : pc[r] \in Done \cup {"respond"}}

Counted(u, p) == SumFunctionOnSet(Quantities(u, p), PastWrite(u, p))

\* Neither the cart nor the copy an addition computes its sum from has more
\* than the additions before: its own is not among them.
CountsConsistent ==
  /\ \A u \in Users, p \in Products : rows[u][p].quantity <= Max(SetTo(u, p)) + Counted(u, p)
  /\ \A r \in Requests, p \in Products : pc[r] = "write" =>
       snap[r][p].quantity <= Max(SetTo(User(r), p)) + Counted(User(r), p)

\* An order is there from its checkout's answer on, with items whose ids were
\* given; an item of it that is still in the cart, and not by a revival, is
\* there because the cart has not been cleared yet, or never will be.
ClearingConsistent ==
  /\ \A r \in Requests : orders[r] # NoOrder =>
       answer[r] = r /\ \A p \in Products : orders[r].items[p].id <= lastId
  /\ \A r \in Requests : answer[r] # NoOrder => pc[r] \in {"clear", "delete"} \cup Done
  /\ \A r \in Requests, p \in Products : answer[r] # NoOrder =>
       LET order == orders[answer[r]] IN
         order.user = User(r) /\ order.items[p].id # 0 /\ rows[User(r)][p].id = order.items[p].id =>
           \/ order.items[p].id \in revived
           \/ pc[r] \in {"clear", "failed"}
           \/ pc[r] = "delete" /\ snap[r][p].id = order.items[p].id

CIInv == CTypeOK /\ PlacesConsistent /\ IdsNameProducts /\ OrdersConsistent
=============================================================================
