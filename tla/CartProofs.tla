----------------------------- MODULE CartProofs -----------------------------
(***************************************************************************)
(* Theorems about Cart, for every number of users, products and requests   *)
(* and every set of request bodies.                                        *)
(***************************************************************************)
EXTENDS Cart, SetSums

-----------------------------------------------------------------------------
(* Facts about the data *)

\* What a validated body has, by its operation.
LEMMA BodyFacts ==
  ASSUME CTypeOK, NEW r \in Requests
  PROVE  /\ User(r) \in Users
         /\ req[r].op = "add" => req[r].product \in Products /\ req[r].quantity \in Nat
         /\ req[r].op = "update" => req[r].item \in Nat /\ req[r].quantity \in Nat
         /\ req[r].op = "checkout" => req[r].key \in Keys \cup {NoKey}
<1>1. req[r] \in Bodies
  BY DEF CTypeOK
<1> QED
  BY <1>1, CartAssumption DEF Bodies, User

\* The rows of a user, one by one.
LEMMA RowFacts ==
  ASSUME CTypeOK
  PROVE  /\ \A u \in Users : rows[u] \in Rows
         /\ \A u \in Users, p \in Products :
              rows[u][p] \in Row /\ rows[u][p].id \in Nat /\ rows[u][p].quantity \in Nat
         /\ \A r \in Requests : snap[r] \in Rows
         /\ \A r \in Requests, p \in Products :
              snap[r][p] \in Row /\ snap[r][p].id \in Nat /\ snap[r][p].quantity \in Nat
<1>1. rows \in [Users -> [Products -> Row]] /\ snap \in [Requests -> [Products -> Row]]
  BY DEF CTypeOK, Rows
<1>2. \A u \in Users, p \in Products : rows[u][p] \in Row
  BY <1>1
<1>3. \A r \in Requests, p \in Products : snap[r][p] \in Row
  BY <1>1
<1> QED
  BY <1>1, <1>2, <1>3 DEF Rows, Row

\* Where the other requests and the mover stand after a move.
LEMMA MoveFacts ==
  ASSUME CTypeOK, NEW r \in Requests, NEW label, Goto(r, label)
  PROVE  /\ pc'[r] = label
         /\ \A s \in Requests \ {r} : pc'[s] = pc[s]
         /\ label \in Labels => pc' \in [Requests -> Labels]
  BY DEF CTypeOK, Goto

\* The places a label may be reached from: the conditions of PlacesConsistent
\* on the request that goes there.
MayStand(r, label, ans) ==
  /\ label \in Labels
  /\ label = "write" => req[r].op = "add"
  /\ label \in {"cart", "insertCart"} => req[r].op \in {"add", "get"}
  /\ label \in {"diff", "updateRow", "insertRow"} => req[r].op = "update"
  /\ label \in {"order", "clear"} => req[r].op = "checkout"
  /\ label = "delete" => req[r].op \in {"remove", "clear", "checkout"}
  /\ label \in {"clear", "delete"} /\ req[r].op = "checkout" => ans # NoOrder

\* A move to such a place keeps PlacesConsistent.
LEMMA MoveKeepsPlaces ==
  ASSUME CIInv, NEW r \in Requests, NEW label, Goto(r, label), UNCHANGED req,
         MayStand(r, label, answer'[r]),
         \A s \in Requests \ {r} : answer'[s] = answer[s]
  PROVE  PlacesConsistent'
<1>1. pc'[r] = label /\ \A s \in Requests \ {r} : pc'[s] = pc[s]
  BY MoveFacts DEF CIInv
<1> QED
  BY <1>1 DEF CIInv, PlacesConsistent, MayStand

-----------------------------------------------------------------------------
(* Steps *)

\* A request that only moves keeps the invariant.
LEMMA GoKeeps ==
  ASSUME CIInv, NEW r \in Requests, NEW label, Go(r, label), MayStand(r, label, answer[r])
  PROVE  CIInv'
<1>1. /\ Goto(r, label) /\ UNCHANGED <<rows, lastId, orders, req, snap, answer>>
  BY DEF Go, tables
<1>2. PlacesConsistent'
  BY <1>1, MoveKeepsPlaces
<1>3. CTypeOK'
  BY <1>1, MoveFacts DEF CIInv, CTypeOK, MayStand
<1>4. IdsNameProducts' /\ OrdersConsistent'
  BY <1>1 DEF CIInv, IdsNameProducts, OrdersConsistent, User
<1> QED
  BY <1>2, <1>3, <1>4 DEF CIInv

\* So does one that takes a copy of the cart.
LEMMA LoadKeeps ==
  ASSUME CIInv, NEW r \in Requests, NEW label, Load(r, label), MayStand(r, label, answer[r])
  PROVE  CIInv'
<1>1. /\ Goto(r, label) /\ UNCHANGED <<rows, lastId, orders, req, answer>>
      /\ snap' = [snap EXCEPT ![r] = rows[User(r)]]
  BY DEF Load, tables
<1>2. PlacesConsistent'
  BY <1>1, MoveKeepsPlaces
<1>3. /\ CTypeOK /\ User(r) \in Users /\ snap \in [Requests -> Rows] /\ rows[User(r)] \in Rows
  BY BodyFacts, RowFacts DEF CIInv, CTypeOK
<1>4. /\ snap'[r] = rows[User(r)] /\ \A s \in Requests \ {r} : snap'[s] = snap[s]
      /\ snap' \in [Requests -> Rows]
  BY <1>1, <1>3
<1>5. CTypeOK'
  BY <1>1, <1>4, MoveFacts DEF CIInv, CTypeOK, MayStand
<1>6. \A s \in Requests : User(s)' = User(s)
  BY <1>1 DEF User
<1>7. IdsNameProducts'
  <2>1. /\ \A u \in Users, p \in Products : rows'[u][p].id <= lastId'
        /\ \A u \in Users, p, q \in Products :
             rows'[u][p].id = rows'[u][q].id /\ rows'[u][p].id # 0 => p = q
    BY <1>1 DEF CIInv, IdsNameProducts
  <2>2. \A s \in Requests, p \in Products : snap'[s][p].id <= lastId'
    BY <1>1, <1>3, <1>4 DEF CIInv, IdsNameProducts
  <2>3. \A s \in Requests, p, q \in Products :
          snap'[s][p].id = rows'[User(s)][q].id /\ snap'[s][p].id # 0 => p = q
    BY <1>1, <1>3, <1>4 DEF CIInv, IdsNameProducts
  <2>4. \A s, t \in Requests, p, q \in Products :
          User(s) = User(t) /\ snap'[s][p].id = snap'[t][q].id /\ snap'[s][p].id # 0 => p = q
    BY <1>1, <1>3, <1>4 DEF CIInv, IdsNameProducts
  <2> QED
    BY <1>6, <2>1, <2>2, <2>3, <2>4 DEF IdsNameProducts
<1>8. OrdersConsistent'
  BY <1>1 DEF CIInv, OrdersConsistent
<1> QED
  BY <1>2, <1>5, <1>7, <1>8 DEF CIInv

\* A write to one row of the cart keeps the invariant when the id it leaves
\* there is the one that was there, a new one, or the one a copy has.
LEMMA PutKeeps ==
  ASSUME CIInv, NEW r \in Requests, NEW p \in Products, NEW row \in Row,
         PutRow(r, p, row), Goto(r, "respond"), lastId' \in Nat, lastId' >= lastId,
         row.id <= lastId',
         \/ row.id = rows[User(r)][p].id
         \/ row.id > lastId
         \/ row.id = snap[r][p].id,
         UNCHANGED <<orders, req, snap, answer>>
  PROVE  CIInv'
<1> DEFINE u0 == User(r)
<1>1. /\ CTypeOK /\ u0 \in Users /\ rows \in [Users -> Rows] /\ lastId \in Nat
      /\ \A u \in Users, q \in Products : rows[u][q].id \in Nat
      /\ \A s \in Requests, q \in Products : snap[s][q].id \in Nat
  BY BodyFacts, RowFacts DEF CIInv, CTypeOK
<1>2. /\ rows'[u0][p] = row
      /\ \A u \in Users, q \in Products : u # u0 \/ q # p => rows'[u][q] = rows[u][q]
      /\ rows' \in [Users -> Rows]
  BY <1>1 DEF PutRow, Rows
<1>3. row.id \in Nat
  BY DEF Row
<1>4. CTypeOK'
  BY <1>2, MoveFacts DEF CIInv, CTypeOK, Labels
<1>5. MayStand(r, "respond", answer'[r])
  BY DEF MayStand, Labels
<1>6. PlacesConsistent'
  BY <1>5, MoveKeepsPlaces
<1>7. OrdersConsistent'
  BY DEF CIInv, OrdersConsistent
<1>8. IdsNameProducts'
  <2>0. \A s \in Requests : User(s)' = User(s)
    BY DEF User
  <2> HIDE DEF u0
  <2>1. \A u \in Users, q \in Products : rows'[u][q].id <= lastId'
    BY <1>1, <1>2, <1>3 DEF CIInv, IdsNameProducts
  <2>2. \A s \in Requests, q \in Products : snap'[s][q].id <= lastId'
    BY <1>1 DEF CIInv, IdsNameProducts
  <2>3. \A q \in Products : rows[u0][q].id = row.id /\ row.id # 0 => q = p
    BY <1>1, <1>3 DEF CIInv, IdsNameProducts, u0
  <2>4. \A s \in Requests, q \in Products : User(s) = u0 /\ snap[s][q].id = row.id /\ row.id # 0 => q = p
    BY <1>1, <1>3 DEF CIInv, IdsNameProducts, u0
  <2>5. \A u \in Users, a, b \in Products :
          rows'[u][a].id = rows'[u][b].id /\ rows'[u][a].id # 0 => a = b
    BY <1>1, <1>2, <2>3 DEF CIInv, IdsNameProducts
  <2>6. \A s \in Requests, a, b \in Products :
          snap'[s][a].id = rows'[User(s)][b].id /\ snap'[s][a].id # 0 => a = b
    <3>1. \A s \in Requests : User(s) \in Users
      BY <1>1, BodyFacts
    <3> QED
      BY <1>1, <1>2, <2>4, <3>1 DEF CIInv, IdsNameProducts
  <2>7. \A s, t \in Requests, a, b \in Products :
          User(s) = User(t) /\ snap'[s][a].id = snap'[t][b].id /\ snap'[s][a].id # 0 => a = b
    BY DEF CIInv, IdsNameProducts
  <2> QED
    BY <2>0, <2>1, <2>2, <2>5, <2>6, <2>7 DEF IdsNameProducts
<1> QED
  BY <1>4, <1>6, <1>7, <1>8 DEF CIInv

\* A statement that gives no row another id than its own or none keeps the
\* invariant (UpdateRow, DeleteRows).
LEMMA ThinningKeeps ==
  ASSUME CIInv, NEW r \in Requests, NEW label, Goto(r, label), MayStand(r, label, answer[r]),
         NEW new \in Rows, rows' = [rows EXCEPT ![User(r)] = new],
         \A p \in Products : new[p].id \in {0, rows[User(r)][p].id},
         UNCHANGED <<lastId, orders, req, snap, answer>>
  PROVE  CIInv'
<1>1. /\ CTypeOK /\ User(r) \in Users /\ rows \in [Users -> Rows] /\ lastId \in Nat
      /\ \A s \in Requests : User(s) \in Users
  BY BodyFacts DEF CIInv, CTypeOK
<1>2. /\ rows' \in [Users -> Rows]
      /\ \A u \in Users, p \in Products : rows'[u][p].id \in {0, rows[u][p].id}
  BY <1>1
<1>3. CTypeOK'
  BY <1>2, MoveFacts DEF CIInv, CTypeOK, MayStand
<1>4. PlacesConsistent'
  BY MoveKeepsPlaces
<1>5. OrdersConsistent'
  BY DEF CIInv, OrdersConsistent
<1>6. IdsNameProducts'
  <2>1. \A s \in Requests : User(s)' = User(s)
    BY DEF User
  <2> QED
    BY <1>1, <1>2, <2>1 DEF CIInv, IdsNameProducts
<1> QED
  BY <1>3, <1>4, <1>5, <1>6 DEF CIInv

\* toCartResponse only ends the request.
LEMMA RespondKeeps ==
  ASSUME CIInv, NEW r \in Requests, Respond(r)
  PROVE  CIInv'
<1>1. Go(r, "failed") \/ Go(r, "answered")
  BY DEF Respond
<1> QED
  BY <1>1, GoKeeps DEF MayStand, Labels, Done

\* addItem and getCart: the upsert leaves the id of a row in place, or gives
\* a new one.
LEMMA AddKeeps ==
  ASSUME CIInv, NEW r \in Requests,
         FindProduct(r) \/ FindCart(r) \/ InsertCart(r) \/ Upsert(r) \/ Answer(r)
  PROVE  CIInv'
<1> USE DEF MayStand, Labels, Done
<1>1. CASE FindProduct(r)
  <2>1. CASE Go(r, "failed")
    BY <2>1, GoKeeps
  <2>2. CASE /\ Goto(r, "cart") /\ UNCHANGED <<tables, req, snap, answer>>
    <3>1. MayStand(r, "cart", answer'[r]) /\ Goto(r, "cart")
          /\ UNCHANGED <<rows, lastId, orders, req, snap, answer>>
      BY <1>1, <2>2 DEF FindProduct, tables
    <3>2. PlacesConsistent'
      BY <3>1, MoveKeepsPlaces
    <3>3. CTypeOK'
      BY <3>1, MoveFacts DEF CIInv, CTypeOK
    <3>4. IdsNameProducts' /\ OrdersConsistent'
      BY <3>1 DEF CIInv, IdsNameProducts, OrdersConsistent, User
    <3> QED
      BY <3>2, <3>3, <3>4 DEF CIInv
  <2> QED
    BY <1>1, <2>1, <2>2 DEF FindProduct
<1>2. CASE FindCart(r)
  <2>1. req[r].op \in {"add", "get"}
    BY <1>2 DEF FindCart, CIInv, PlacesConsistent
  <2>2. CASE Go(r, "insertCart")
    BY <2>1, <2>2, GoKeeps
  <2>3. CASE req[r].op = "add" /\ Load(r, "write")
    BY <2>3, LoadKeeps
  <2>4. CASE Respond(r)
    BY <2>4, RespondKeeps
  <2> QED
    BY <1>2, <2>2, <2>3, <2>4 DEF FindCart
<1>3. CASE InsertCart(r)
  <2>1. CASE Go(r, "failed")
    BY <2>1, GoKeeps
  <2>2. CASE Goto(r, "cart") /\ UNCHANGED <<stock, status, rows, lastId, orders, changes, req, seen, snap, answer>>
    <3>1. MayStand(r, "cart", answer'[r])
      BY <1>3 DEF InsertCart, CIInv, PlacesConsistent
    <3>2. PlacesConsistent'
      BY <2>2, <3>1, MoveKeepsPlaces
    <3>3. CTypeOK'
      BY <2>2, MoveFacts DEF CIInv, CTypeOK
    <3>4. IdsNameProducts' /\ OrdersConsistent'
      BY <2>2 DEF CIInv, IdsNameProducts, OrdersConsistent, User
    <3> QED
      BY <3>2, <3>3, <3>4 DEF CIInv
  <2> QED
    BY <1>3, <2>1, <2>2 DEF InsertCart
<1>4. CASE Upsert(r)
  <2>1. CASE Go(r, "failed")
    BY <2>1, GoKeeps
  <2>2. CASE FitsStock(r)
    <3> DEFINE p == req[r].product
    <3> DEFINE isNew == rows[User(r)][p].id = 0
    <3> DEFINE row == [id |-> IF isNew THEN lastId' ELSE rows[User(r)][p].id,
                       quantity |-> NewQuantity(r)]
    <3>1. /\ lastId' = lastId + (IF isNew THEN 1 ELSE 0)
          /\ PutRow(r, p, row) /\ Goto(r, "respond")
          /\ UNCHANGED <<orders, req, snap, answer>>
      BY <1>4, <2>2 DEF Upsert
    <3>2. CTypeOK /\ req[r].op = "add" /\ lastId \in Nat
      BY <1>4 DEF Upsert, CIInv, PlacesConsistent, CTypeOK
    <3>3. /\ p \in Products /\ req[r].quantity \in Nat /\ User(r) \in Users
          /\ snap[r][p].quantity \in Nat /\ rows[User(r)][p].id \in Nat
      BY <3>2, BodyFacts, RowFacts
    <3>4. NewQuantity(r) \in Nat
      BY <3>3 DEF NewQuantity
    <3>5. lastId' \in Nat /\ lastId' >= lastId
      BY <3>1, <3>2
    <3>6. rows[User(r)][p].id <= lastId
      BY <3>3 DEF CIInv, IdsNameProducts
    <3>7. /\ row \in Row /\ row.id <= lastId'
          /\ row.id = rows[User(r)][p].id \/ row.id > lastId
      BY <3>1, <3>2, <3>3, <3>4, <3>5, <3>6 DEF Row
    <3> HIDE DEF p, row, isNew
    <3> QED
      BY <3>1, <3>3, <3>5, <3>7, PutKeeps
  <2> QED
    BY <1>4, <2>1, <2>2 DEF Upsert
<1>5. CASE Answer(r)
  BY <1>5, RespondKeeps DEF Answer
<1> QED
  BY <1>1, <1>2, <1>3, <1>4, <1>5

\* updateItem, removeItem and clearCart: a row that was deleted in between
\* comes back under its old id and for its old product.
LEMMA EditKeeps ==
  ASSUME CIInv, NEW r \in Requests,
         FindOwnedItem(r) \/ SaveDiff(r) \/ UpdateRow(r) \/ InsertRow(r)
           \/ ReadForClear(r) \/ DeleteRows(r)
  PROVE  CIInv'
<1> USE DEF MayStand, Labels, Done
<1>0. CTypeOK /\ User(r) \in Users /\ rows[User(r)] \in Rows
  BY BodyFacts, RowFacts DEF CIInv
<1>1. CASE FindOwnedItem(r)
  <2>1. CASE Go(r, "failed")
    BY <2>1, GoKeeps
  <2>2. CASE req[r].op = "remove" /\ Load(r, "delete")
    BY <2>2, LoadKeeps
  <2>3. CASE req[r].op = "update" /\ Load(r, "diff")
    BY <2>3, LoadKeeps
  <2> QED
    BY <1>1, <2>1, <2>2, <2>3 DEF FindOwnedItem
<1>2. CASE SaveDiff(r)
  <2>1. req[r].op = "update"
    BY <1>2 DEF SaveDiff, CIInv, PlacesConsistent
  <2>2. Go(r, "insertRow") \/ Go(r, "respond") \/ Go(r, "updateRow")
    BY <1>2 DEF SaveDiff
  <2> QED
    BY <2>1, <2>2, GoKeeps
<1>3. CASE UpdateRow(r)
  <2> DEFINE new == [p \in Products |-> IF p \in Target(r, rows[User(r)])
                                          THEN [rows[User(r)][p] EXCEPT !.quantity = req[r].quantity]
                                          ELSE rows[User(r)][p]]
  <2>1. req[r].op = "update" /\ req[r].quantity \in Nat
    BY <1>0, <1>3, BodyFacts DEF UpdateRow, CIInv, PlacesConsistent
  <2>2. rows' = [rows EXCEPT ![User(r)] = new]
    BY <1>0, <1>3 DEF UpdateRow, CTypeOK
  <2>3. \A p \in Products :
          LET row == [rows[User(r)][p] EXCEPT !.quantity = req[r].quantity]
          IN row \in Row /\ row.id = rows[User(r)][p].id
    BY <1>0, <2>1 DEF Rows, Row
  <2>4. new \in Rows /\ \A p \in Products : new[p].id \in {0, rows[User(r)][p].id}
    BY <1>0, <2>3 DEF Rows
  <2>5. Goto(r, "respond") /\ UNCHANGED <<lastId, orders, req, snap, answer>>
    BY <1>3 DEF UpdateRow
  <2> HIDE DEF new
  <2> QED
    BY <2>2, <2>4, <2>5, ThinningKeeps
<1>4. CASE InsertRow(r)
  <2>1. PICK p \in Target(r, snap[r]) :
          \/ Go(r, "failed")
          \/ /\ rows[User(r)][p].id = 0
             /\ PutRow(r, p, [id |-> req[r].item, quantity |-> req[r].quantity])
             /\ Goto(r, "respond")
             /\ UNCHANGED <<stock, status, carts, lastId, orders, changes, req, seen, snap, answer>>
    BY <1>4 DEF InsertRow
  <2>2. CASE Go(r, "failed")
    BY <2>2, GoKeeps
  <2>3. CASE /\ PutRow(r, p, [id |-> req[r].item, quantity |-> req[r].quantity])
             /\ Goto(r, "respond")
             /\ UNCHANGED <<stock, status, carts, lastId, orders, changes, req, seen, snap, answer>>
    <3>1. p \in Products /\ snap[r][p].id = req[r].item
      BY DEF Target
    <3>2. req[r].op = "update" /\ req[r].item \in Nat /\ req[r].quantity \in Nat
      BY <1>0, <1>4, BodyFacts DEF InsertRow, CIInv, PlacesConsistent
    <3>3. req[r].item <= lastId /\ lastId \in Nat
      BY <1>0, <3>1 DEF CIInv, IdsNameProducts, CTypeOK
    <3> DEFINE row == [id |-> req[r].item, quantity |-> req[r].quantity]
    <3>4. row \in Row /\ row.id = snap[r][p].id /\ row.id <= lastId
      BY <3>1, <3>2, <3>3 DEF Row
    <3>5. lastId' \in Nat /\ lastId' >= lastId /\ lastId' = lastId
      BY <2>3, <3>3
    <3>6. PutRow(r, p, row) /\ Goto(r, "respond") /\ UNCHANGED <<orders, req, snap, answer>>
      BY <2>3
    <3> HIDE DEF row
    <3> QED
      BY <3>1, <3>4, <3>5, <3>6, PutKeeps
  <2> QED
    BY <2>1, <2>2, <2>3
<1>5. CASE ReadForClear(r)
  <2>1. /\ req[r].op \in {"clear", "checkout"}
        /\ req[r].op = "checkout" => answer[r] # NoOrder
    BY <1>5 DEF ReadForClear, CIInv, PlacesConsistent
  <2>2. Go(r, "answered") \/ Load(r, "delete")
    BY <1>5 DEF ReadForClear
  <2> QED
    BY <2>1, <2>2, GoKeeps, LoadKeeps
<1>6. CASE DeleteRows(r)
  <2> DEFINE new == [p \in Products |-> IF rows[User(r)][p].id \in Doomed(r)
                                          THEN NoRow ELSE rows[User(r)][p]]
  <2>1. rows' = [rows EXCEPT ![User(r)] = new]
    BY <1>0, <1>6 DEF DeleteRows, CTypeOK
  <2>2. NoRow \in Row /\ NoRow.id = 0
    BY DEF NoRow, Row
  <2>3. new \in Rows /\ \A p \in Products : new[p].id \in {0, rows[User(r)][p].id}
    BY <1>0, <2>2 DEF Rows
  <2>4. UNCHANGED <<lastId, orders, req, snap, answer>>
    BY <1>6 DEF DeleteRows
  <2> HIDE DEF new
  <2>5. CASE Goto(r, "respond")
    BY <2>1, <2>3, <2>4, <2>5, ThinningKeeps
  <2>6. CASE Goto(r, "answered")
    BY <2>1, <2>3, <2>4, <2>6, ThinningKeeps
  <2> QED
    BY <1>6, <2>5, <2>6 DEF DeleteRows
<1> QED
  BY <1>1, <1>2, <1>3, <1>4, <1>5, <1>6

\* checkout: an order is placed only while no order has its key.
LEMMA CheckoutKeeps ==
  ASSUME CIInv, NEW r \in Requests,
         ReadForCheckout(r) \/ KnownKey(r) \/ PlaceOrder(r) \/ OrderRefused(r)
  PROVE  CIInv'
<1> USE DEF MayStand, Labels, Done
<1>1. CASE ReadForCheckout(r)
  <2>1. req[r].op = "checkout" /\ (Go(r, "failed") \/ Load(r, "order"))
    BY <1>1 DEF ReadForCheckout
  <2> QED
    BY <2>1, GoKeeps, LoadKeeps
<1>2. CASE OrderRefused(r)
  BY <1>2, GoKeeps DEF OrderRefused
<1>3. CASE KnownKey(r)
  <2>1. PICK o \in WithKey(req[r].key) :
          /\ answer' = [answer EXCEPT ![r] = o]
          /\ Goto(r, "clear")
          /\ UNCHANGED <<tables, req, seen, snap>>
    BY <1>3 DEF KnownKey
  <2>2. /\ o \in Requests /\ orders[o] # NoOrder /\ orders[o].key = req[r].key
        /\ req[r].op = "checkout" /\ NoOrder \notin Requests
    BY <1>3, CartAssumption DEF WithKey, KnownKey, CIInv, PlacesConsistent
  <2>3. /\ answer'[r] = o /\ \A s \in Requests \ {r} : answer'[s] = answer[s]
        /\ answer' \in [Requests -> Requests \cup {NoOrder}]
        /\ UNCHANGED <<rows, lastId, orders, req, snap>>
    BY <2>1, <2>2 DEF CIInv, CTypeOK, tables
  <2>4. PlacesConsistent'
    <3>1. MayStand(r, "clear", answer'[r])
      BY <2>2, <2>3
    <3> QED
      BY <2>1, <2>3, <3>1, MoveKeepsPlaces
  <2>5. CTypeOK'
    BY <2>1, <2>3, MoveFacts DEF CIInv, CTypeOK
  <2>6. IdsNameProducts'
    BY <2>3 DEF CIInv, IdsNameProducts, User
  <2>7. OrdersConsistent'
    BY <2>2, <2>3 DEF CIInv, OrdersConsistent
  <2> QED
    BY <2>4, <2>5, <2>6, <2>7 DEF CIInv
<1>4. CASE PlaceOrder(r)
  <2>1. /\ pc[r] = "order" /\ WithKey(req[r].key) = {}
        /\ orders' = [orders EXCEPT ![r] = PlacedOrder(r)]
        /\ answer' = [answer EXCEPT ![r] = r]
        /\ UNCHANGED <<rows, lastId, req, snap>>
    BY <1>4 DEF PlaceOrder
  <2>2. PICK label \in AfterOrder : Goto(r, label)
    BY <1>4 DEF PlaceOrder
  <2>3. CTypeOK /\ req[r].op = "checkout" /\ NoOrder \notin Requests /\ NoOrder \notin Order
    BY <2>1, CartAssumption DEF CIInv, PlacesConsistent
  <2>4. PlacedOrder(r) \in Order /\ PlacedOrder(r).key = req[r].key
    BY <2>3, BodyFacts, RowFacts DEF PlacedOrder, Order
  <2>5. /\ orders'[r] = PlacedOrder(r) /\ \A s \in Requests \ {r} : orders'[s] = orders[s]
        /\ orders' \in [Requests -> Order \cup {NoOrder}]
        /\ answer'[r] = r /\ \A s \in Requests \ {r} : answer'[s] = answer[s]
        /\ answer' \in [Requests -> Requests \cup {NoOrder}]
    BY <2>1, <2>3, <2>4 DEF CTypeOK
  <2>6. PlacesConsistent'
    <3>1. MayStand(r, label, answer'[r])
      BY <2>3, <2>5 DEF AfterOrder
    <3> QED
      BY <2>1, <2>2, <2>5, <3>1, MoveKeepsPlaces
  <2>7. CTypeOK'
    BY <2>1, <2>2, <2>5, MoveFacts DEF CIInv, CTypeOK, AfterOrder
  <2>8. IdsNameProducts'
    BY <2>1 DEF CIInv, IdsNameProducts, User
  <2>9. \A s \in Requests : orders[s] # NoOrder /\ orders[s].key # NoKey => orders[s].key # req[r].key
    BY <2>1 DEF WithKey
  <2>10. OrdersConsistent'
    <3>1. \A s \in Requests : orders'[s] # NoOrder => req'[s].op = "checkout" /\ orders'[s].key = req'[s].key
      BY <2>1, <2>3, <2>4, <2>5 DEF CIInv, OrdersConsistent
    <3>2. \A s, t \in Requests :
            orders'[s] # NoOrder /\ orders'[t] # NoOrder /\ orders'[s].key = orders'[t].key
              /\ orders'[s].key # NoKey => s = t
      BY <2>4, <2>5, <2>9 DEF CIInv, OrdersConsistent
    <3>3. \A s \in Requests : answer'[s] # NoOrder =>
            /\ req'[s].op = "checkout"
            /\ orders'[answer'[s]] # NoOrder /\ orders'[answer'[s]].key = req'[s].key
      <4>1. ASSUME NEW s \in Requests \ {r}, answer[s] # NoOrder
            PROVE  /\ req[s].op = "checkout" /\ orders'[answer[s]] # NoOrder
                   /\ orders'[answer[s]].key = req[s].key
        <5>1. /\ answer[s] \in Requests /\ req[s].op = "checkout"
              /\ orders[answer[s]] # NoOrder /\ orders[answer[s]].key = req[s].key
          BY <4>1 DEF CIInv, CTypeOK, OrdersConsistent
        <5>2. CASE answer[s] = r
          BY <2>3, <2>4, <2>5, <5>1, <5>2 DEF CIInv, OrdersConsistent
        <5>3. CASE answer[s] # r
          BY <2>5, <5>1, <5>3
        <5> QED
          BY <5>2, <5>3
      <4> QED
        BY <2>1, <2>3, <2>4, <2>5, <4>1
    <3> QED
      BY <3>1, <3>2, <3>3 DEF OrdersConsistent
  <2> QED
    BY <2>6, <2>7, <2>8, <2>10 DEF CIInv
<1> QED
  BY <1>1, <1>2, <1>3, <1>4

-----------------------------------------------------------------------------
(* The theorems *)

\* The invariant holds before the first request.
LEMMA InitCIInv == ASSUME NEW bodies, CartInit(bodies) PROVE CIInv
<1> USE CartAssumption DEF CartInit
<1>1. NoRow \in Row /\ NoRow.id = 0
  BY DEF NoRow, Row
<1>2. Empty \in Rows /\ \A p \in Products : Empty[p].id = 0
  BY <1>1 DEF Empty, Rows
<1>3. CTypeOK
  BY <1>2 DEF CTypeOK, Labels
<1>4. PlacesConsistent /\ OrdersConsistent
  BY DEF PlacesConsistent, OrdersConsistent
<1>5. IdsNameProducts
  BY <1>2 DEF IdsNameProducts
<1> QED
  BY <1>3, <1>4, <1>5 DEF CIInv

\* Every step keeps it.
LEMMA NextCIInv == CIInv /\ [Next]_cvars => CIInv'
<1> SUFFICES ASSUME CIInv, [Next]_cvars PROVE CIInv'
  OBVIOUS
<1>1. ASSUME NEW r \in Requests, EndsEarly(r) PROVE CIInv'
  BY <1>1, GoKeeps DEF EndsEarly, MayStand, Labels, Done
<1>2. ASSUME UNCHANGED <<rows, lastId, orders, pc, req, snap, answer>> PROVE CIInv'
  BY <1>2 DEF CIInv, CTypeOK, PlacesConsistent, IdsNameProducts, OrdersConsistent, User
<1> QED
  BY <1>1, <1>2, AddKeeps, EditKeeps, CheckoutKeeps
     DEF Next, RequestStep, ProductChanges, cvars, tables, locals

\* Places, ids, orders and answers stay consistent.
THEOREM CIInvIsInvariant == ASSUME NEW CONSTANT bodies PROVE CartSpec(bodies) => []CIInv
<1>1. CartInit(bodies) => CIInv
  BY InitCIInv
<1> QED
  BY <1>1, NextCIInv, PTL DEF CartSpec

\* An item leaves a cart only through a DELETE of the owner's own request,
\* which had read it under that id, and never through a checkout that has no
\* order (removeItem, clearCart, checkout).
THEOREM NoItemVanishes ==
  ASSUME NEW CONSTANT bodies PROVE CartSpec(bodies) => ItemsLeaveOnlyOnPurpose
<1> DEFINE OnPurpose ==
      \A u \in Users, p \in Products :
        rows[u][p].id # 0 /\ rows'[u][p].id # rows[u][p].id =>
          \E r \in Requests :
            /\ User(r) = u /\ pc[r] = "delete"
            /\ snap[r][p].id = rows[u][p].id
            /\ \/ req[r].op = "clear"
               \/ req[r].op = "remove" /\ req[r].item = rows[u][p].id
               \/ req[r].op = "checkout" /\ answer[r] # NoOrder
<1>1. ASSUME CIInv, [Next]_cvars PROVE [OnPurpose]_cvars
  <2> SUFFICES ASSUME Next, NEW u \in Users, NEW p \in Products,
                      rows[u][p].id # 0, rows'[u][p].id # rows[u][p].id
               PROVE  \E r \in Requests :
                        /\ User(r) = u /\ pc[r] = "delete"
                        /\ snap[r][p].id = rows[u][p].id
                        /\ \/ req[r].op = "clear"
                           \/ req[r].op = "remove" /\ req[r].item = rows[u][p].id
                           \/ req[r].op = "checkout" /\ answer[r] # NoOrder
    BY <1>1
  <2>0. CTypeOK /\ rows \in [Users -> Rows] /\ \A v \in Users : rows[v] \in Rows
    BY <1>1, RowFacts DEF CIInv, CTypeOK
  <2>1. ASSUME NEW r \in Requests, UpdateRow(r) PROVE FALSE
    <3>1. User(r) \in Users /\ req[r].op = "update"
      BY <1>1, <2>0, <2>1, BodyFacts DEF CIInv, PlacesConsistent, UpdateRow
    <3>2. \A q \in Products : rows[User(r)][q] \in Row
      BY <2>0, <3>1 DEF Rows
    <3>3. \A q \in Products :
            [rows[User(r)][q] EXCEPT !.quantity = req[r].quantity].id = rows[User(r)][q].id
      BY <3>2 DEF Row
    <3>4. \A q \in Products : rows'[User(r)][q].id = rows[User(r)][q].id
      BY <2>0, <2>1, <3>1, <3>3 DEF UpdateRow
    <3> QED
      BY <2>0, <2>1, <3>1, <3>4 DEF UpdateRow
  <2>2. ASSUME NEW r \in Requests, Upsert(r) PROVE FALSE
    <3>1. User(r) \in Users /\ req[r].op = "add" /\ req[r].product \in Products
      BY <1>1, <2>0, <2>2, BodyFacts DEF CIInv, PlacesConsistent, Upsert
    <3>2. rows' # rows
      OBVIOUS
    <3>3. \E row : PutRow(r, req[r].product, row)
                     /\ (rows[User(r)][req[r].product].id # 0
                           => row.id = rows[User(r)][req[r].product].id)
      BY <2>2, <3>2 DEF Upsert, Go, tables
    <3> QED
      BY <2>0, <3>1, <3>3 DEF PutRow, Rows
  <2>3. ASSUME NEW r \in Requests, InsertRow(r) PROVE FALSE
    <3>1. User(r) \in Users /\ rows' # rows
      BY <2>0, BodyFacts
    <3>2. \E q \in Products : \E row : rows[User(r)][q].id = 0 /\ PutRow(r, q, row)
      BY <2>3, <3>1 DEF InsertRow, Go, tables, Target
    <3> QED
      BY <2>0, <3>1, <3>2 DEF PutRow, Rows
  <2>4. ASSUME NEW r \in Requests, DeleteRows(r)
        PROVE  /\ User(r) = u /\ pc[r] = "delete"
               /\ snap[r][p].id = rows[u][p].id
               /\ \/ req[r].op = "clear"
                  \/ req[r].op = "remove" /\ req[r].item = rows[u][p].id
                  \/ req[r].op = "checkout" /\ answer[r] # NoOrder
    <3>1. User(r) \in Users /\ pc[r] = "delete"
      BY <2>0, <2>4, BodyFacts DEF DeleteRows
    <3>2. User(r) = u /\ rows[u][p].id \in Doomed(r)
      BY <2>0, <2>4, <3>1 DEF DeleteRows, Rows
    <3>3. PICK q \in Products : snap[r][q].id = rows[u][p].id
      BY <3>2 DEF Doomed, Present
    <3>4. q = p
      BY <1>1, <3>2, <3>3 DEF CIInv, IdsNameProducts
    <3>5. req[r].op = "remove" => req[r].item = rows[u][p].id
      BY <3>2 DEF Doomed
    <3> QED
      BY <1>1, <3>1, <3>2, <3>3, <3>4, <3>5 DEF CIInv, PlacesConsistent
  <2>5. ASSUME NEW r \in Requests,
               FindProduct(r) \/ FindCart(r) \/ InsertCart(r) \/ Answer(r) \/ FindOwnedItem(r)
                 \/ SaveDiff(r) \/ ReadForClear(r)
        PROVE  FALSE
    BY <2>5 DEF FindProduct, FindCart, InsertCart, Answer, FindOwnedItem, SaveDiff, ReadForClear,
                Respond, Go, Load, tables
  <2>6. ASSUME NEW r \in Requests,
               ReadForCheckout(r) \/ KnownKey(r) \/ PlaceOrder(r) \/ OrderRefused(r) \/ EndsEarly(r)
        PROVE  FALSE
    BY <2>6 DEF ReadForCheckout, KnownKey, PlaceOrder, OrderRefused, EndsEarly, Go, Load, tables
  <2>7. ASSUME NEW q \in Products, ProductChanges(q) PROVE FALSE
    BY <2>7 DEF ProductChanges
  <2> QED
    BY <2>1, <2>2, <2>3, <2>4, <2>5, <2>6, <2>7 DEF Next, RequestStep
<1> QED
  BY <1>1, CIInvIsInvariant, PTL DEF CartSpec, ItemsLeaveOnlyOnPurpose

-----------------------------------------------------------------------------
(* Quantities *)

\* No step changes what a request asks for, and an addition that is past its
\* write stays there.
LEMMA StepFacts ==
  ASSUME CIInv, [Next]_cvars
  PROVE  /\ UNCHANGED req
         /\ \A s \in Requests : pc[s] \in Done \cup {"respond"} => pc'[s] \in Done \cup {"respond"}
<1> USE DEF Done
<1>0. CTypeOK /\ pc \in [Requests -> Labels]
  BY DEF CIInv, CTypeOK
<1>1. ASSUME UNCHANGED <<pc, req>>
      PROVE  /\ UNCHANGED req
             /\ \A s \in Requests : pc[s] \in Done \cup {"respond"} => pc'[s] \in Done \cup {"respond"}
  BY <1>1
<1>2. ASSUME NEW r \in Requests, NEW label, Goto(r, label), UNCHANGED req,
             pc[r] \notin Done \cup {"respond"} \/ label \in Done
      PROVE  /\ UNCHANGED req
             /\ \A s \in Requests : pc[s] \in Done \cup {"respond"} => pc'[s] \in Done \cup {"respond"}
  BY <1>0, <1>2, MoveFacts
<1>3. ASSUME NEW r \in Requests, RequestStep(r) \/ EndsEarly(r)
      PROVE  \E label : /\ Goto(r, label) /\ UNCHANGED req
                        /\ pc[r] \notin Done \cup {"respond"} \/ label \in Done
  <2>1. ASSUME FindProduct(r) \/ FindCart(r) \/ InsertCart(r)
        PROVE  \E label : /\ Goto(r, label) /\ UNCHANGED req
                          /\ pc[r] \notin Done \cup {"respond"} \/ label \in Done
    BY <2>1 DEF FindProduct, FindCart, InsertCart, Respond, Go, Load
  <2>2. ASSUME Upsert(r) \/ Answer(r) \/ EndsEarly(r)
        PROVE  \E label : /\ Goto(r, label) /\ UNCHANGED req
                          /\ pc[r] \notin Done \cup {"respond"} \/ label \in Done
    BY <2>2 DEF Upsert, Answer, EndsEarly, Respond, Go
  <2>3. ASSUME FindOwnedItem(r) \/ SaveDiff(r) \/ UpdateRow(r) \/ InsertRow(r)
        PROVE  \E label : /\ Goto(r, label) /\ UNCHANGED req
                          /\ pc[r] \notin Done \cup {"respond"} \/ label \in Done
    BY <2>3 DEF FindOwnedItem, SaveDiff, UpdateRow, InsertRow, Go, Load
  <2>4. ASSUME ReadForClear(r) \/ DeleteRows(r) \/ ReadForCheckout(r)
        PROVE  \E label : /\ Goto(r, label) /\ UNCHANGED req
                          /\ pc[r] \notin Done \cup {"respond"} \/ label \in Done
    BY <2>4 DEF ReadForClear, DeleteRows, ReadForCheckout, Go, Load
  <2>5. ASSUME KnownKey(r) \/ PlaceOrder(r) \/ OrderRefused(r)
        PROVE  \E label : /\ Goto(r, label) /\ UNCHANGED req
                          /\ pc[r] \notin Done \cup {"respond"} \/ label \in Done
    BY <2>5 DEF KnownKey, PlaceOrder, OrderRefused, Go
  <2> QED
    BY <1>3, <2>1, <2>2, <2>3, <2>4, <2>5 DEF RequestStep
<1>4. ASSUME NEW p \in Products, ProductChanges(p) PROVE UNCHANGED <<pc, req>>
  BY <1>4 DEF ProductChanges, locals
<1>5. UNCHANGED cvars => UNCHANGED <<pc, req>>
  BY DEF cvars, locals
<1> QED
  BY <1>1, <1>2, <1>3, <1>4, <1>5 DEF Next

\* What a row can be set to has a largest value.
LEMMA SetToFacts ==
  ASSUME CTypeOK, NEW u \in Users, NEW p \in Products
  PROVE  /\ Max(SetTo(u, p)) \in Nat
         /\ \A q \in SetTo(u, p) : q \in Nat /\ q <= Max(SetTo(u, p))
<1>1. InitialRows[u][p].quantity \in Nat /\ MaxQuantity \in Nat
  BY CartAssumption DEF Rows, Row
<1>2. \A r \in Requests : req[r].op = "update" => req[r].quantity \in 1..MaxQuantity
  BY DEF CTypeOK, Bodies
<1> DEFINE b == InitialRows[u][p].quantity + MaxQuantity
<1>3. b \in Nat
  BY <1>1
<1>4. \A q \in SetTo(u, p) : q \in Nat /\ q <= b
  BY <1>1, <1>2 DEF SetTo
<1>5. 0 \in SetTo(u, p)
  BY DEF SetTo
<1> HIDE DEF b
<1>6. SetTo(u, p) \in SUBSET Nat /\ SetTo(u, p) # {}
  BY <1>4, <1>5
<1>7. Max(SetTo(u, p)) \in SetTo(u, p) /\ \A q \in SetTo(u, p) : q <= Max(SetTo(u, p))
  BY <1>3, <1>4, <1>6, MaxIsLargest
<1> QED
  BY <1>4, <1>7

\* The additions of a product are finitely many numbers.
LEMMA AddersFacts ==
  ASSUME CTypeOK, NEW u \in Users, NEW p \in Products
  PROVE  /\ IsFiniteSet(Adders(u, p))
         /\ \A r \in Adders(u, p) : Quantities(u, p)[r] = req[r].quantity
         /\ \A r \in Adders(u, p) : Quantities(u, p)[r] \in Nat
         /\ \A S \in SUBSET Adders(u, p) : IsFiniteSet(S)
<1>1. Adders(u, p) \subseteq Requests
  BY DEF Adders
<1>2. \A S \in SUBSET Adders(u, p) : IsFiniteSet(S)
  BY <1>1, CartAssumption, FS_Subset
<1>3. \A r \in Adders(u, p) : r \in Requests /\ req[r].op = "add"
  BY DEF Adders
<1>4. \A r \in Adders(u, p) : Quantities(u, p)[r] = req[r].quantity
  BY DEF Quantities
<1> QED
  BY <1>2, <1>3, <1>4, BodyFacts

\* What is counted is a number, and at most what is added in all.
LEMMA CountedFacts ==
  ASSUME CTypeOK, NEW u \in Users, NEW p \in Products
  PROVE  /\ Counted(u, p) \in Int /\ Counted(u, p) >= 0
         /\ Additions(u, p) \in Int /\ Counted(u, p) <= Additions(u, p)
<1> DEFINE f == Quantities(u, p)
<1> DEFINE A == Adders(u, p)
<1> DEFINE W == PastWrite(u, p)
<1>1. IsFiniteSet(A) /\ \A r \in A : f[r] \in Nat
  BY AddersFacts
<1>2. W \in SUBSET A /\ {} \in SUBSET W
  BY DEF PastWrite
<1>3. IsFiniteSet(W) /\ \A r \in W : f[r] \in Nat
  BY <1>1, <1>2, FS_Subset
<1>4. Counted(u, p) = SumFunctionOnSet(f, W) /\ Additions(u, p) = SumFunctionOnSet(f, A)
  BY DEF Counted, Additions
<1> HIDE DEF f, A, W
<1>5. (\A r \in A : f[r] \in Int) /\ (\A r \in W : f[r] \in Int)
  BY <1>1, <1>3
<1>6. SumFunctionOnSet(f, W) \in Int /\ SumFunctionOnSet(f, A) \in Int
  BY <1>1, <1>3, <1>5, SumType
<1>7. SumFunctionOnSet(f, W) <= SumFunctionOnSet(f, A)
  BY <1>1, <1>2, SumMonotone
<1>8. SumFunctionOnSet(f, {}) <= SumFunctionOnSet(f, W)
  BY <1>2, <1>3, SumMonotone
<1>9. SumFunctionOnSet(f, {}) = 0
  BY SumEmpty
<1> QED
  BY <1>4, <1>6, <1>7, <1>8, <1>9

\* Nothing that was counted is forgotten.
LEMMA CountedGrows ==
  ASSUME CIInv, [Next]_cvars, CTypeOK', NEW u \in Users, NEW p \in Products
  PROVE  /\ SetTo(u, p)' = SetTo(u, p)
         /\ Counted(u, p) <= Counted(u, p)'
         /\ Counted(u, p) \in Int /\ Counted(u, p)' \in Int
<1>0. CTypeOK
  BY DEF CIInv
<1>1. UNCHANGED req /\ \A s \in Requests : pc[s] \in Done \cup {"respond"} => pc'[s] \in Done \cup {"respond"}
  BY StepFacts
<1>2. SetTo(u, p)' = SetTo(u, p) /\ Adders(u, p)' = Adders(u, p)
  BY <1>1 DEF SetTo, Adders, User
<1>3. Quantities(u, p)' = Quantities(u, p)
  BY <1>1, <1>2 DEF Quantities
<1> DEFINE f == Quantities(u, p)
<1> DEFINE W == PastWrite(u, p)'
<1>4. PastWrite(u, p) \in SUBSET W /\ W \in SUBSET Adders(u, p)
  BY <1>1, <1>2 DEF PastWrite, Adders
<1>5. IsFiniteSet(W) /\ \A r \in W : f[r] \in Nat
  BY <1>0, <1>4, AddersFacts
<1>6. Counted(u, p) = SumFunctionOnSet(f, PastWrite(u, p)) /\ Counted(u, p)' = SumFunctionOnSet(f, W)
  BY <1>3 DEF Counted
<1> HIDE DEF f, W
<1>7. Counted(u, p) <= Counted(u, p)'
  BY <1>4, <1>5, <1>6, SumMonotone
<1>8. Counted(u, p) \in Int
  BY <1>0, CountedFacts
<1>9. SumFunctionOnSet(f, W) \in Int
  <2>1. \A r \in W : f[r] \in Int
    BY <1>5
  <2> QED
    BY <1>5, <2>1, SumType
<1> QED
  BY <1>2, <1>6, <1>7, <1>8, <1>9

\* A step that sets rows only to quantities they may be set to or to what is
\* counted after it, and gives an addition no other copy than the cart as it
\* is, keeps the counts.
LEMMA StepKeepsCounts ==
  ASSUME CIInv, CountsConsistent, [Next]_cvars, CIInv',
         \A u \in Users, p \in Products :
           \/ rows'[u][p].quantity = rows[u][p].quantity
           \/ rows'[u][p].quantity \in SetTo(u, p)
           \/ rows'[u][p].quantity <= Max(SetTo(u, p)) + Counted(u, p)',
         \A s \in Requests : pc'[s] = "write" =>
           (pc[s] = "write" /\ snap'[s] = snap[s]) \/ snap'[s] = rows[User(s)]
  PROVE  CountsConsistent'
<1>0. CTypeOK /\ CTypeOK' /\ UNCHANGED req
  BY StepFacts DEF CIInv
<1>1. \A u \in Users, p \in Products :
        /\ SetTo(u, p)' = SetTo(u, p) /\ Max(SetTo(u, p)) \in Nat
        /\ \A q \in SetTo(u, p) : q \in Nat /\ q <= Max(SetTo(u, p))
        /\ Counted(u, p) \in Int /\ Counted(u, p) >= 0
        /\ Counted(u, p) <= Counted(u, p)' /\ Counted(u, p)' \in Int
  BY <1>0, SetToFacts, CountedFacts, CountedGrows
<1>2. \A s \in Requests : User(s) \in Users /\ User(s)' = User(s)
  BY <1>0, BodyFacts DEF User
<1>3. /\ \A u \in Users, p \in Products : rows[u][p].quantity \in Nat
      /\ \A s \in Requests, p \in Products : snap[s][p].quantity \in Nat
  BY <1>0, RowFacts
<1>4. ASSUME NEW u \in Users, NEW p \in Products
      PROVE  rows'[u][p].quantity <= Max(SetTo(u, p)') + Counted(u, p)'
  <2>1. rows[u][p].quantity <= Max(SetTo(u, p)) + Counted(u, p)
    BY DEF CountsConsistent
  <2> QED
    BY <1>1, <1>3, <2>1
<1>5. ASSUME NEW s \in Requests, NEW p \in Products, pc'[s] = "write"
      PROVE  snap'[s][p].quantity <= Max(SetTo(User(s), p)') + Counted(User(s), p)'
  <2>1. CASE pc[s] = "write" /\ snap'[s] = snap[s]
    <3>1. snap[s][p].quantity <= Max(SetTo(User(s), p)) + Counted(User(s), p)
      BY <2>1 DEF CountsConsistent
    <3> QED
      BY <1>1, <1>2, <1>3, <2>1, <3>1
  <2>2. CASE snap'[s] = rows[User(s)]
    <3>1. rows[User(s)][p].quantity <= Max(SetTo(User(s), p)) + Counted(User(s), p)
      BY <1>2 DEF CountsConsistent
    <3> QED
      BY <1>1, <1>2, <1>3, <2>2, <3>1
  <2> QED
    BY <1>5, <2>1, <2>2
<1>6. \A u \in Users, p \in Products : Max(SetTo(u, p)') = Max(SetTo(u, p))'
  BY DEF Max
<1> QED
  BY <1>2, <1>4, <1>5, <1>6 DEF CountsConsistent

\* A step that leaves the carts alone, with a copy taken at most of the cart
\* as it is.
Reads(r) ==
  /\ UNCHANGED rows
  /\ \E label : /\ Goto(r, label)
                /\ \/ label # "write" /\ \A s \in Requests \ {r} : snap'[s] = snap[s]
                   \/ snap' = [snap EXCEPT ![r] = rows[User(r)]]

\* What every step is: a read, one of the three writes, or none of these.
LEMMA StepKinds ==
  ASSUME CIInv, [Next]_cvars
  PROVE  \/ UNCHANGED <<rows, snap, pc>>
         \/ \E r \in Requests : Reads(r) \/ Upsert(r) \/ UpdateRow(r) \/ InsertRow(r) \/ DeleteRows(r)
<1> USE DEF Reads
<1>1. ASSUME NEW r \in Requests, NEW label, Go(r, label), label # "write" PROVE Reads(r)
  BY <1>1 DEF Go, tables
<1>2. ASSUME NEW r \in Requests, NEW label, Load(r, label) PROVE Reads(r)
  BY <1>2 DEF Load, tables
<1>3. ASSUME NEW r \in Requests, FindProduct(r) \/ InsertCart(r) PROVE Reads(r)
  BY <1>1, <1>3 DEF FindProduct, InsertCart, tables
<1>4. ASSUME NEW r \in Requests, FindCart(r) \/ Answer(r) \/ EndsEarly(r) PROVE Reads(r)
  BY <1>1, <1>2, <1>4 DEF FindCart, Answer, EndsEarly, Respond
<1>5. ASSUME NEW r \in Requests, FindOwnedItem(r) \/ SaveDiff(r) \/ ReadForClear(r) PROVE Reads(r)
  BY <1>1, <1>2, <1>5 DEF FindOwnedItem, SaveDiff, ReadForClear
<1>6. ASSUME NEW r \in Requests, ReadForCheckout(r) \/ OrderRefused(r) PROVE Reads(r)
  BY <1>1, <1>2, <1>6 DEF ReadForCheckout, OrderRefused
<1>7. ASSUME NEW r \in Requests, KnownKey(r) \/ PlaceOrder(r) PROVE Reads(r)
  BY <1>7 DEF KnownKey, PlaceOrder, AfterOrder, tables
<1>8. ASSUME NEW p \in Products, ProductChanges(p) PROVE UNCHANGED <<rows, snap, pc>>
  BY <1>8 DEF ProductChanges, locals
<1>9. UNCHANGED cvars => UNCHANGED <<rows, snap, pc>>
  BY DEF cvars, tables, locals
<1> QED
  BY <1>3, <1>4, <1>5, <1>6, <1>7, <1>8, <1>9 DEF Next, RequestStep

\* An addition that writes is counted from then on.
LEMMA UpsertCounts ==
  ASSUME CIInv, [Next]_cvars, CTypeOK', NEW r \in Requests, Upsert(r), FitsStock(r),
         NEW u \in Users, u = User(r), NEW p \in Products, p = req[r].product
  PROVE  Counted(u, p)' = req[r].quantity + Counted(u, p)
<1>0. CTypeOK /\ UNCHANGED req /\ req[r].op = "add"
  BY StepFacts DEF CIInv, PlacesConsistent, Upsert
<1>1. req[r].quantity \in Nat
  BY <1>0, BodyFacts
<1>2. pc[r] = "write" /\ Goto(r, "respond")
  BY DEF Upsert
<1>3. pc'[r] = "respond" /\ \A s \in Requests \ {r} : pc'[s] = pc[s]
  BY <1>0, <1>2, MoveFacts
<1>4. r \in Adders(u, p) /\ Adders(u, p)' = Adders(u, p) /\ Quantities(u, p)' = Quantities(u, p)
  BY <1>0 DEF Adders, Quantities, User
<1>5. r \notin PastWrite(u, p) /\ PastWrite(u, p)' = PastWrite(u, p) \cup {r}
  BY <1>2, <1>3, <1>4 DEF PastWrite, Adders, Done
<1> DEFINE f == Quantities(u, p)
<1> DEFINE W == PastWrite(u, p)
<1>6. W \in SUBSET Adders(u, p)
  BY DEF PastWrite
<1>7. IsFiniteSet(W) /\ (\A s \in W : f[s] \in Int) /\ f[r] \in Int /\ f[r] = req[r].quantity
  BY <1>0, <1>1, <1>4, <1>6, AddersFacts
<1>8. Counted(u, p) = SumFunctionOnSet(f, W) /\ Counted(u, p)' = SumFunctionOnSet(f, W \cup {r})
  BY <1>4, <1>5 DEF Counted
<1>9. r \notin W
  BY <1>5
<1> HIDE DEF f, W
<1>10. SumFunctionOnSet(f, W \cup {r}) = f[r] + SumFunctionOnSet(f, W)
  BY <1>7, <1>9, SumAdd
<1> QED
  BY <1>7, <1>8, <1>10

\* Every step keeps the counts.
LEMMA NextKeepsCounts ==
  ASSUME CIInv, CountsConsistent, [Next]_cvars, CIInv'
  PROVE  CountsConsistent'
<1>0. CTypeOK /\ CTypeOK' /\ UNCHANGED req /\ snap \in [Requests -> Rows]
  BY StepFacts DEF CIInv, CTypeOK
<1>1. CASE UNCHANGED <<rows, snap, pc>>
  BY <1>1, StepKeepsCounts
<1>2. ASSUME NEW r \in Requests, Reads(r) PROVE CountsConsistent'
  <2>1. PICK label : /\ UNCHANGED rows /\ Goto(r, label)
                     /\ \/ label # "write" /\ \A s \in Requests \ {r} : snap'[s] = snap[s]
                        \/ snap' = [snap EXCEPT ![r] = rows[User(r)]]
    BY <1>2 DEF Reads
  <2>2. pc'[r] = label /\ \A s \in Requests \ {r} : pc'[s] = pc[s]
    BY <1>0, <2>1, MoveFacts
  <2>3. \A s \in Requests : pc'[s] = "write" =>
          (pc[s] = "write" /\ snap'[s] = snap[s]) \/ snap'[s] = rows[User(s)]
    BY <1>0, <2>1, <2>2
  <2> QED
    BY <2>1, <2>3, StepKeepsCounts
<1>3. ASSUME NEW r \in Requests, Goto(r, "respond") \/ Goto(r, "answered"), UNCHANGED snap
      PROVE  \A s \in Requests : pc'[s] = "write" =>
               (pc[s] = "write" /\ snap'[s] = snap[s]) \/ snap'[s] = rows[User(s)]
  BY <1>0, <1>3, MoveFacts
<1>4. ASSUME NEW r \in Requests, Upsert(r) PROVE CountsConsistent'
  <2>1. CASE ~FitsStock(r)
    <3>1. Reads(r)
      BY <1>4, <2>1 DEF Upsert, Reads, Go, tables
    <3> QED
      BY <1>2, <3>1
  <2>2. CASE FitsStock(r)
    <3>1. /\ Goto(r, "respond") /\ UNCHANGED snap /\ pc[r] = "write"
          /\ \E row : PutRow(r, req[r].product, row) /\ row.quantity = NewQuantity(r)
      BY <1>4, <2>2 DEF Upsert
    <3>2. req[r].op = "add"
      BY <3>1 DEF CIInv, PlacesConsistent
    <3> PICK u \in Users, p \in Products : u = User(r) /\ p = req[r].product
      BY <1>0, <3>2, BodyFacts
    <3>3. req[r].quantity \in Nat /\ snap[r][p].quantity \in Nat
      BY <1>0, <3>2, BodyFacts, RowFacts
    <3>4. /\ rows'[u][p].quantity = snap[r][p].quantity + req[r].quantity
          /\ \A v \in Users, q \in Products : (v # u \/ q # p) => rows'[v][q] = rows[v][q]
      BY <1>0, <3>1, <3>3 DEF PutRow, NewQuantity, CTypeOK, Rows
    <3>5. Counted(u, p)' = req[r].quantity + Counted(u, p)
      BY <1>0, <1>4, <2>2, UpsertCounts
    <3>6. snap[r][p].quantity <= Max(SetTo(u, p)) + Counted(u, p)
      BY <3>1, <3>3 DEF CountsConsistent
    <3>7. Max(SetTo(u, p)) \in Nat /\ Counted(u, p) \in Int
      BY <1>0, <3>3, SetToFacts, CountedFacts
    <3>8. rows'[u][p].quantity <= Max(SetTo(u, p)) + Counted(u, p)'
      BY <3>3, <3>4, <3>5, <3>6, <3>7
    <3>9. \A v \in Users, q \in Products :
            \/ rows'[v][q].quantity = rows[v][q].quantity
            \/ rows'[v][q].quantity <= Max(SetTo(v, q)) + Counted(v, q)'
      BY <3>4, <3>8
    <3> QED
      BY <1>3, <3>1, <3>9, StepKeepsCounts
  <2> QED
    BY <2>1, <2>2
<1>5. ASSUME NEW r \in Requests, UpdateRow(r) PROVE CountsConsistent'
  <2>1. Goto(r, "respond") /\ UNCHANGED snap /\ req[r].op = "update" /\ User(r) \in Users
    BY <1>0, <1>5, BodyFacts DEF UpdateRow, CIInv, PlacesConsistent
  <2>2. \A q \in Products :
          [rows[User(r)][q] EXCEPT !.quantity = req[r].quantity].quantity = req[r].quantity
    BY <1>0, <2>1, RowFacts DEF Row
  <2>3. \A v \in Users, q \in Products :
          rows'[v][q].quantity = rows[v][q].quantity
            \/ (v = User(r) /\ rows'[v][q].quantity = req[r].quantity)
    BY <1>0, <1>5, <2>1, <2>2 DEF UpdateRow, CTypeOK, Rows
  <2>4. \A q \in Products : req[r].quantity \in SetTo(User(r), q)
    BY <2>1 DEF SetTo
  <2>5. \A v \in Users, q \in Products :
          rows'[v][q].quantity = rows[v][q].quantity \/ rows'[v][q].quantity \in SetTo(v, q)
    BY <2>3, <2>4
  <2> QED
    BY <1>3, <2>1, <2>5, StepKeepsCounts
<1>6. ASSUME NEW r \in Requests, InsertRow(r) PROVE CountsConsistent'
  <2>1. PICK p \in Target(r, snap[r]) :
          \/ Go(r, "failed")
          \/ /\ PutRow(r, p, [id |-> req[r].item, quantity |-> req[r].quantity])
             /\ Goto(r, "respond") /\ UNCHANGED snap
    BY <1>6 DEF InsertRow
  <2>2. CASE Go(r, "failed")
    <3>1. Reads(r)
      BY <2>2 DEF Reads, Go, tables
    <3> QED
      BY <1>2, <3>1
  <2>3. CASE /\ PutRow(r, p, [id |-> req[r].item, quantity |-> req[r].quantity])
             /\ Goto(r, "respond") /\ UNCHANGED snap
    <3>1. req[r].op = "update" /\ User(r) \in Users /\ p \in Products
      BY <1>0, <1>6, BodyFacts DEF InsertRow, CIInv, PlacesConsistent, Target
    <3> DEFINE row == [id |-> req[r].item, quantity |-> req[r].quantity]
    <3>0. row.quantity = req[r].quantity /\ PutRow(r, p, row)
      BY <2>3
    <3> HIDE DEF row
    <3>2. \A v \in Users, q \in Products :
            rows'[v][q].quantity = rows[v][q].quantity
              \/ (v = User(r) /\ rows'[v][q].quantity = req[r].quantity)
      BY <1>0, <3>0, <3>1 DEF PutRow, CTypeOK, Rows
    <3>3. \A q \in Products : req[r].quantity \in SetTo(User(r), q)
      BY <3>1 DEF SetTo
    <3>4. \A v \in Users, q \in Products :
            rows'[v][q].quantity = rows[v][q].quantity \/ rows'[v][q].quantity \in SetTo(v, q)
      BY <3>2, <3>3
    <3> QED
      BY <1>3, <2>3, <3>4, StepKeepsCounts
  <2> QED
    BY <2>1, <2>2, <2>3
<1>7. ASSUME NEW r \in Requests, DeleteRows(r) PROVE CountsConsistent'
  <2>1. (Goto(r, "respond") \/ Goto(r, "answered")) /\ UNCHANGED snap /\ User(r) \in Users
    BY <1>0, <1>7, BodyFacts DEF DeleteRows
  <2>2. NoRow.quantity = 0
    BY DEF NoRow
  <2>3. \A v \in Users, q \in Products :
          rows'[v][q].quantity = rows[v][q].quantity \/ rows'[v][q].quantity = 0
    BY <1>0, <1>7, <2>1, <2>2 DEF DeleteRows, CTypeOK, Rows
  <2>4. \A v \in Users, q \in Products : 0 \in SetTo(v, q)
    BY DEF SetTo
  <2>5. \A v \in Users, q \in Products :
          rows'[v][q].quantity = rows[v][q].quantity \/ rows'[v][q].quantity \in SetTo(v, q)
    BY <2>3, <2>4
  <2> QED
    BY <1>3, <2>1, <2>5, StepKeepsCounts
<1> QED
  BY <1>1, <1>2, <1>4, <1>5, <1>6, <1>7, StepKinds

\* Additions of one product that run at the same time may lose one another,
\* but none is counted twice: a row never has more than what it was last set
\* to and every addition once (addItem, updateItem, clearCart).
THEOREM AdditionsCountOnce ==
  ASSUME NEW CONSTANT bodies PROVE CartSpec(bodies) => []NeverOvercounts
<1>1. CartInit(bodies) => CountsConsistent
  <2> SUFFICES ASSUME CartInit(bodies) PROVE CountsConsistent
    OBVIOUS
  <2>1. CTypeOK
    BY InitCIInv DEF CIInv
  <2>2. ASSUME NEW u \in Users, NEW p \in Products
        PROVE  rows[u][p].quantity <= Max(SetTo(u, p)) + Counted(u, p)
    <3>1. rows[u][p].quantity \in SetTo(u, p)
      BY DEF CartInit, SetTo
    <3>2. /\ Max(SetTo(u, p)) \in Nat
          /\ rows[u][p].quantity \in Nat /\ rows[u][p].quantity <= Max(SetTo(u, p))
      BY <2>1, <3>1, SetToFacts
    <3>3. Counted(u, p) \in Int /\ Counted(u, p) >= 0
      BY <2>1, CountedFacts
    <3> QED
      BY <3>2, <3>3
  <2>3. \A r \in Requests : pc[r] = "new"
    BY DEF CartInit
  <2> QED
    BY <2>2, <2>3 DEF CountsConsistent
<1>2. CIInv /\ CIInv' /\ CountsConsistent /\ [Next]_cvars => CountsConsistent'
  BY NextKeepsCounts
<1>3. CIInv /\ CountsConsistent => NeverOvercounts
  <2> SUFFICES ASSUME CIInv, CountsConsistent, NEW u \in Users, NEW p \in Products
               PROVE  rows[u][p].quantity <= Max(SetTo(u, p)) + Additions(u, p)
    BY DEF NeverOvercounts
  <2>0. CTypeOK
    BY DEF CIInv
  <2>1. rows[u][p].quantity <= Max(SetTo(u, p)) + Counted(u, p)
    BY DEF CountsConsistent
  <2>2. /\ Max(SetTo(u, p)) \in Nat /\ rows[u][p].quantity \in Nat
        /\ Counted(u, p) \in Int /\ Additions(u, p) \in Int /\ Counted(u, p) <= Additions(u, p)
    BY <2>0, SetToFacts, CountedFacts, RowFacts
  <2> QED
    BY <2>1, <2>2
<1> QED
  BY <1>1, <1>2, <1>3, CIInvIsInvariant, PTL DEF CartSpec

-----------------------------------------------------------------------------
(* What a checkout leaves behind *)

\* What a step does to a checkout that has its order: it clears the cart as it
\* is, or gives up.
ClearStep(r) ==
  \/ pc'[r] = pc[r] /\ snap'[r] = snap[r]
  \/ pc[r] \notin Done /\ pc'[r] = "failed"
  \/ pc[r] = "clear" /\ pc'[r] = "answered" /\ Present(rows[User(r)]) = {} /\ UNCHANGED rows
  \/ pc[r] = "clear" /\ pc'[r] = "delete" /\ snap'[r] = rows[User(r)] /\ UNCHANGED rows
  \/ pc[r] = "delete" /\ DeleteRows(r)

\* A step either gives a request its answer, and with it perhaps an order, or
\* leaves answers and orders alone; a request that has its answer clears.
LEMMA AnswerSteps ==
  ASSUME CIInv, ClearingConsistent, Next
  PROVE  \/ \E r \in Requests :
              /\ pc[r] = "order" /\ pc'[r] \in {"clear", "failed"} /\ answer'[r] \in Requests
              /\ \A s \in Requests \ {r} : pc'[s] = pc[s] /\ answer'[s] = answer[s]
              /\ \/ UNCHANGED orders /\ orders[answer'[r]] # NoOrder
                 \/ /\ answer'[r] = r
                    /\ orders'[r] = PlacedOrder(r)
                    /\ \A s \in Requests \ {r} : orders'[s] = orders[s]
              /\ UNCHANGED <<rows, lastId, req, snap>>
         \/ /\ UNCHANGED <<answer, orders, req>> /\ lastId' \in Nat /\ lastId <= lastId'
            /\ \A r \in Requests : answer[r] # NoOrder => ClearStep(r)
<1> USE DEF Done
<1>0. /\ CTypeOK /\ pc \in [Requests -> Labels] /\ snap \in [Requests -> Rows]
      /\ answer \in [Requests -> Requests \cup {NoOrder}]
      /\ orders \in [Requests -> Order \cup {NoOrder}] /\ lastId \in Nat
      /\ \A r \in Requests : answer[r] # NoOrder =>
           pc[r] \in {"clear", "delete"} \cup Done /\ req[r].op = "checkout"
  BY DEF CIInv, CTypeOK, ClearingConsistent, OrdersConsistent
<1> DEFINE Quiet == /\ UNCHANGED <<answer, orders, req>> /\ lastId' \in Nat /\ lastId <= lastId'
                    /\ \A r \in Requests : answer[r] # NoOrder => ClearStep(r)
<1>1. ASSUME NEW r \in Requests, NEW label, Goto(r, label),
             UNCHANGED <<answer, orders, req>>, lastId' \in Nat, lastId <= lastId',
             \A s \in Requests \ {r} : snap'[s] = snap[s], answer[r] # NoOrder => ClearStep(r)
      PROVE  Quiet
  BY <1>0, <1>1, MoveFacts DEF ClearStep
<1>2. ASSUME NEW r \in Requests, NEW label, Go(r, label),
             answer[r] # NoOrder => label = "failed" /\ pc[r] \notin Done
      PROVE  Quiet
  <2>1. Goto(r, label) /\ UNCHANGED <<answer, orders, req, snap, lastId, rows>>
    BY <1>2 DEF Go, tables
  <2>2. pc'[r] = label
    BY <1>0, <2>1, MoveFacts
  <2>3. answer[r] # NoOrder => ClearStep(r)
    BY <1>2, <2>2 DEF ClearStep
  <2> QED
    BY <1>0, <1>1, <2>1, <2>3
<1>3. ASSUME NEW r \in Requests, NEW label, Load(r, label), answer[r] = NoOrder
      PROVE  Quiet
  <2>1. Goto(r, label) /\ UNCHANGED <<answer, orders, req, lastId>>
        /\ \A s \in Requests \ {r} : snap'[s] = snap[s]
    BY <1>0, <1>3 DEF Load, tables
  <2> QED
    BY <1>0, <1>1, <1>3, <2>1
<1>4. ASSUME NEW r \in Requests, Goto(r, "cart") \/ Goto(r, "respond"),
             UNCHANGED <<answer, orders, req, snap>>, lastId' \in Nat, lastId <= lastId',
             answer[r] = NoOrder
      PROVE  Quiet
  BY <1>1, <1>4
<1>5. ASSUME NEW r \in Requests, FindProduct(r) \/ FindCart(r) \/ InsertCart(r) \/ Upsert(r) \/ Answer(r)
      PROVE  Quiet
  <2>1. answer[r] = NoOrder
    BY <1>0, <1>5 DEF FindProduct, FindCart, InsertCart, Upsert, Answer
  <2>2. CASE FindProduct(r) \/ InsertCart(r)
    BY <1>0, <1>2, <1>4, <2>1, <2>2 DEF FindProduct, InsertCart, tables
  <2>3. CASE FindCart(r) \/ Answer(r)
    BY <1>2, <1>3, <2>1, <2>3 DEF FindCart, Answer, Respond
  <2>4. CASE Upsert(r)
    <3>1. \/ Go(r, "failed")
          \/ /\ \E d \in {0, 1} : lastId' = lastId + d
             /\ Goto(r, "respond") /\ UNCHANGED <<answer, orders, req, snap>>
      BY <2>4 DEF Upsert
    <3> QED
      BY <1>0, <1>2, <1>4, <2>1, <3>1
  <2> QED
    BY <1>5, <2>2, <2>3, <2>4
<1>6. ASSUME NEW r \in Requests, FindOwnedItem(r) \/ SaveDiff(r) \/ UpdateRow(r) \/ InsertRow(r)
      PROVE  Quiet
  <2>1. answer[r] = NoOrder
    BY <1>0, <1>6 DEF FindOwnedItem, SaveDiff, UpdateRow, InsertRow
  <2>2. CASE FindOwnedItem(r) \/ SaveDiff(r)
    BY <1>2, <1>3, <2>1, <2>2 DEF FindOwnedItem, SaveDiff
  <2>3. CASE UpdateRow(r) \/ InsertRow(r)
    BY <1>0, <1>2, <1>4, <2>1, <2>3 DEF UpdateRow, InsertRow
  <2> QED
    BY <1>6, <2>2, <2>3
<1>7. ASSUME NEW r \in Requests, ReadForClear(r)
      PROVE  Quiet
  <2>1. CASE Go(r, "answered") /\ Present(rows[User(r)]) = {}
    <3>1. Goto(r, "answered") /\ UNCHANGED <<answer, orders, req, snap, lastId, rows>>
      BY <2>1 DEF Go, tables
    <3>2. pc'[r] = "answered"
      BY <1>0, <3>1, MoveFacts
    <3>3. answer[r] # NoOrder => pc[r] = "clear"
      BY <1>0, <1>7 DEF ReadForClear
    <3>4. answer[r] # NoOrder => ClearStep(r)
      BY <2>1, <3>1, <3>2, <3>3 DEF ClearStep
    <3> QED
      BY <1>0, <1>1, <3>1, <3>4
  <2>2. CASE Load(r, "delete")
    <3>1. /\ Goto(r, "delete") /\ UNCHANGED <<answer, orders, req, lastId, rows>>
          /\ snap'[r] = rows[User(r)] /\ \A s \in Requests \ {r} : snap'[s] = snap[s]
      BY <1>0, <2>2 DEF Load, tables
    <3>2. pc'[r] = "delete"
      BY <1>0, <3>1, MoveFacts
    <3>3. answer[r] # NoOrder => pc[r] = "clear"
      BY <1>0, <1>7 DEF ReadForClear
    <3>4. answer[r] # NoOrder => ClearStep(r)
      BY <3>1, <3>2, <3>3 DEF ClearStep
    <3> QED
      BY <1>0, <1>1, <3>1, <3>4
  <2> QED
    BY <1>7, <2>1, <2>2 DEF ReadForClear
<1>8. ASSUME NEW r \in Requests, DeleteRows(r)
      PROVE  Quiet
  <2>1. ClearStep(r) /\ UNCHANGED <<answer, orders, req, snap, lastId>> /\ \E label : Goto(r, label)
    BY <1>8 DEF DeleteRows, ClearStep
  <2> QED
    BY <1>0, <1>1, <2>1
<1>9. ASSUME NEW r \in Requests, ReadForCheckout(r) \/ OrderRefused(r) \/ EndsEarly(r)
      PROVE  Quiet
  <2>1. CASE ReadForCheckout(r)
    <3>1. answer[r] = NoOrder
      BY <1>0, <2>1 DEF ReadForCheckout
    <3> QED
      BY <1>2, <1>3, <2>1, <3>1 DEF ReadForCheckout
  <2>2. CASE OrderRefused(r) \/ EndsEarly(r)
    BY <1>2, <2>2 DEF OrderRefused, EndsEarly
  <2> QED
    BY <1>9, <2>1, <2>2
<1>10. ASSUME NEW r \in Requests, KnownKey(r)
       PROVE  /\ pc[r] = "order" /\ pc'[r] = "clear" /\ answer'[r] \in Requests
              /\ \A s \in Requests \ {r} : pc'[s] = pc[s] /\ answer'[s] = answer[s]
              /\ UNCHANGED orders /\ orders[answer'[r]] # NoOrder
              /\ UNCHANGED <<rows, lastId, req, snap>>
  <2>1. PICK o \in WithKey(req[r].key) :
          /\ pc[r] = "order" /\ answer' = [answer EXCEPT ![r] = o] /\ Goto(r, "clear")
          /\ UNCHANGED <<tables, req, seen, snap>>
    BY <1>10 DEF KnownKey
  <2>2. o \in Requests /\ orders[o] # NoOrder
    BY DEF WithKey
  <2> QED
    BY <1>0, <2>1, <2>2, MoveFacts DEF tables
<1>11. ASSUME NEW r \in Requests, PlaceOrder(r)
       PROVE  /\ pc[r] = "order" /\ pc'[r] \in {"clear", "failed"} /\ answer'[r] = r
              /\ \A s \in Requests \ {r} : pc'[s] = pc[s] /\ answer'[s] = answer[s]
              /\ orders'[r] = PlacedOrder(r) /\ \A s \in Requests \ {r} : orders'[s] = orders[s]
              /\ UNCHANGED <<rows, lastId, req, snap>>
  <2>1. PICK label \in {"clear", "failed"} : Goto(r, label)
    BY <1>11 DEF PlaceOrder, AfterOrder
  <2> QED
    BY <1>0, <1>11, <2>1, MoveFacts DEF PlaceOrder
<1>12. ASSUME NEW p \in Products, ProductChanges(p)
       PROVE  Quiet
  BY <1>0, <1>12 DEF ProductChanges, locals, ClearStep
<1>13. (\E r \in Requests : RequestStep(r) \/ EndsEarly(r)) \/ (\E p \in Products : ProductChanges(p))
  BY DEF Next
<1>14. CASE \E r \in Requests : KnownKey(r)
  BY <1>10, <1>14
<1>15. CASE \E r \in Requests : PlaceOrder(r)
  BY <1>11, <1>15
<1>16. CASE ~(\E r \in Requests : KnownKey(r) \/ PlaceOrder(r))
  <2>1. Quiet
    BY <1>5, <1>6, <1>7, <1>8, <1>9, <1>12, <1>13, <1>16 DEF RequestStep
  <2> QED
    BY <2>1
<1> QED
  BY <1>14, <1>15, <1>16

\* Every step keeps what is left of an order in the cart on its way out.
LEMMA NextKeepsClearing ==
  ASSUME CIInv, CIInv', ClearingConsistent, [Next]_cvars
  PROVE  ClearingConsistent'
<1> USE DEF Done
<1>0. /\ CTypeOK /\ CTypeOK' /\ lastId \in Nat /\ NoOrder \notin Requests /\ NoOrder \notin Order
      /\ answer \in [Requests -> Requests \cup {NoOrder}]
      /\ \A r \in Requests : answer[r] # NoOrder => orders[answer[r]] # NoOrder /\ req[r].op = "checkout"
      /\ \A u \in Users, p \in Products : rows[u][p].id \in Nat /\ rows'[u][p].id \in Nat
      /\ \A r \in Requests, p \in Products : snap[r][p].id \in Nat /\ snap[r][p].id <= lastId
      /\ \A r \in Requests : User(r) \in Users
  <2>1. CTypeOK /\ CTypeOK'
    BY DEF CIInv
  <2>2. \A u \in Users, p \in Products : rows'[u][p].id \in Nat
    <3>1. rows' \in [Users -> [Products -> Row]]
      BY <2>1 DEF CTypeOK, Rows
    <3> QED
      BY <3>1 DEF Row
  <2> QED
    BY <2>1, <2>2, RowFacts, BodyFacts, CartAssumption DEF CIInv, CTypeOK, OrdersConsistent, IdsNameProducts
<1>1. CASE UNCHANGED cvars
  BY <1>1 DEF cvars, tables, locals, ClearingConsistent, User
<1>2. CASE Next
  <2>1. \A r \in Requests, p \in Products : orders[r] # NoOrder =>
          orders[r].items[p].id \in Nat /\ orders[r].items[p].id <= lastId
    <3>1. \A r \in Requests : orders[r] # NoOrder => orders[r].items \in [Products -> Row]
      BY <1>0 DEF CTypeOK, Order, Rows
    <3> QED
      BY <3>1 DEF ClearingConsistent, Row
  <2>2. \A u \in Users, p \in Products :
          rows'[u][p].id \in 1..lastId /\ rows[u][p].id # rows'[u][p].id => rows'[u][p].id \in revived'
    BY <1>2 DEF Next, Track
  <2>3. revived \subseteq revived'
    BY <1>2 DEF Next, Track
  <2>4. \A r \in Requests : pc[r] = "order" => answer[r] = NoOrder /\ orders[r] = NoOrder
    <3>1. \A r \in Requests : pc[r] = "order" => answer[r] = NoOrder
      BY DEF ClearingConsistent
    <3> QED
      BY <1>0, <3>1 DEF ClearingConsistent
  <2>5. CASE \E r \in Requests :
               /\ pc[r] = "order" /\ pc'[r] \in {"clear", "failed"} /\ answer'[r] \in Requests
               /\ \A s \in Requests \ {r} : pc'[s] = pc[s] /\ answer'[s] = answer[s]
               /\ \/ UNCHANGED orders /\ orders[answer'[r]] # NoOrder
                  \/ /\ answer'[r] = r
                     /\ orders'[r] = PlacedOrder(r)
                     /\ \A s \in Requests \ {r} : orders'[s] = orders[s]
               /\ UNCHANGED <<rows, lastId, req, snap>>
    <3>1. PICK r \in Requests :
               /\ pc[r] = "order" /\ pc'[r] \in {"clear", "failed"} /\ answer'[r] \in Requests
               /\ \A s \in Requests \ {r} : pc'[s] = pc[s] /\ answer'[s] = answer[s]
               /\ \/ UNCHANGED orders /\ orders[answer'[r]] # NoOrder
                  \/ /\ answer'[r] = r
                     /\ orders'[r] = PlacedOrder(r)
                     /\ \A s \in Requests \ {r} : orders'[s] = orders[s]
               /\ UNCHANGED <<rows, lastId, req, snap>>
      BY <2>5
    <3>2. \A s \in Requests : orders[s] # NoOrder => s # r /\ orders'[s] = orders[s]
      BY <2>4, <3>1
    <3>3. \A s \in Requests : orders'[s] # NoOrder =>
            answer'[s] = s /\ \A p \in Products : orders'[s].items[p].id <= lastId'
      <4>1. ASSUME NEW s \in Requests, s # r, orders'[s] # NoOrder
            PROVE  answer'[s] = s /\ \A p \in Products : orders'[s].items[p].id <= lastId'
        BY <3>1, <4>1 DEF ClearingConsistent
      <4>2. ASSUME orders'[r] # NoOrder
            PROVE  answer'[r] = r /\ \A p \in Products : orders'[r].items[p].id <= lastId'
        <5>1. answer'[r] = r /\ orders'[r] = PlacedOrder(r)
          BY <2>4, <3>1, <4>2
        <5> QED
          BY <1>0, <3>1, <5>1 DEF PlacedOrder
      <4> QED
        BY <4>1, <4>2
    <3>4. \A s \in Requests : answer'[s] # NoOrder => pc'[s] \in {"clear", "delete"} \cup Done
      BY <3>1 DEF ClearingConsistent
    <3>5. ASSUME NEW s \in Requests, NEW p \in Products, answer'[s] # NoOrder,
                 orders'[answer'[s]].user = User(s), orders'[answer'[s]].items[p].id # 0,
                 rows'[User(s)][p].id = orders'[answer'[s]].items[p].id
          PROVE  \/ orders'[answer'[s]].items[p].id \in revived'
                 \/ pc'[s] \in {"clear", "failed"}
                 \/ pc'[s] = "delete" /\ snap'[s][p].id = orders'[answer'[s]].items[p].id
      <4>1. CASE s = r
        BY <3>1, <4>1
      <4>2. CASE s # r
        <5>1. answer'[s] = answer[s] /\ answer[s] \in Requests /\ orders[answer[s]] # NoOrder
          BY <1>0, <3>1, <3>5, <4>2
        <5>2. orders'[answer[s]] = orders[answer[s]]
          BY <3>2, <5>1
        <5> QED
          BY <2>3, <3>1, <3>5, <4>2, <5>1, <5>2 DEF ClearingConsistent
      <4> QED
        BY <4>1, <4>2
    <3>6. \A s \in Requests : User(s)' = User(s)
      BY <3>1 DEF User
    <3> QED
      BY <3>3, <3>4, <3>5, <3>6 DEF ClearingConsistent
  <2>6. CASE /\ UNCHANGED <<answer, orders, req>> /\ lastId' \in Nat /\ lastId <= lastId'
             /\ \A r \in Requests : answer[r] # NoOrder => ClearStep(r)
    <3>1. \A s \in Requests : orders'[s] # NoOrder =>
            answer'[s] = s /\ \A p \in Products : orders'[s].items[p].id <= lastId'
      BY <1>0, <2>1, <2>6 DEF ClearingConsistent
    <3>2. \A s \in Requests : answer'[s] # NoOrder => pc'[s] \in {"clear", "delete"} \cup Done
      <4> SUFFICES ASSUME NEW s \in Requests, answer[s] # NoOrder PROVE pc'[s] \in {"clear", "delete"} \cup Done
        BY <2>6
      <4>1. ClearStep(s) /\ pc[s] \in {"clear", "delete"} \cup Done /\ req[s].op = "checkout"
        BY <1>0, <2>6 DEF ClearingConsistent
      <4>2. DeleteRows(s) => pc'[s] = "answered"
        BY <1>0, <4>1, MoveFacts DEF DeleteRows
      <4> QED
        BY <4>1, <4>2 DEF ClearStep
    <3>3. ASSUME NEW s \in Requests, NEW p \in Products, NEW i \in Nat, answer[s] # NoOrder,
                 i = orders[answer[s]].items[p].id,
                 orders[answer[s]].user = User(s), i # 0, rows'[User(s)][p].id = i
          PROVE  \/ i \in revived'
                 \/ pc'[s] \in {"clear", "failed"}
                 \/ pc'[s] = "delete" /\ snap'[s][p].id = i
      <4>0. answer[s] \in Requests /\ orders[answer[s]] # NoOrder /\ i \in 1..lastId
            /\ req[s].op = "checkout" /\ User(s) \in Users
        <5>1. answer[s] \in Requests /\ orders[answer[s]] # NoOrder /\ req[s].op = "checkout" /\ User(s) \in Users
          BY <1>0, <3>3
        <5>2. i <= lastId
          BY <2>1, <3>3, <5>1
        <5> QED
          BY <1>0, <3>3, <5>1, <5>2
      <4>1. CASE rows[User(s)][p].id # i
        BY <2>2, <3>3, <4>0, <4>1
      <4>2. CASE i \in revived
        BY <2>3, <4>2
      <4>3. CASE rows[User(s)][p].id = i /\ i \notin revived
        <5>1. pc[s] \in {"clear", "failed"} \/ (pc[s] = "delete" /\ snap[s][p].id = i)
          BY <3>3, <4>3 DEF ClearingConsistent
        <5>2. ClearStep(s)
          BY <2>6, <3>3
        <5>3. Present(rows[User(s)]) # {}
          BY <3>3, <4>3 DEF Present
        <5>4. ~(pc[s] = "delete" /\ DeleteRows(s))
          <6> SUFFICES ASSUME pc[s] = "delete", DeleteRows(s) PROVE FALSE
            OBVIOUS
          <6>1. snap[s][p].id = i /\ i \in Doomed(s)
            BY <3>3, <4>0, <5>1 DEF Doomed, Present
          <6>2. rows'[User(s)][p] = NoRow
            BY <1>0, <4>0, <4>3, <6>1 DEF DeleteRows, CTypeOK
          <6> QED
            BY <3>3, <6>2 DEF NoRow
        <5> QED
          BY <3>3, <4>3, <5>1, <5>2, <5>3, <5>4 DEF ClearStep
      <4> QED
        BY <4>1, <4>2, <4>3
    <3>4. \A s \in Requests : User(s)' = User(s)
      BY <2>6 DEF User
    <3>5. \A s \in Requests, p \in Products : answer[s] # NoOrder => orders[answer[s]].items[p].id \in Nat
      BY <1>0, <2>1
    <3> QED
      BY <2>6, <3>1, <3>2, <3>3, <3>4, <3>5 DEF ClearingConsistent
  <2> QED
    BY <1>2, <2>5, <2>6, AnswerSteps
<1> QED
  BY <1>1, <1>2

\* An answered checkout leaves no item of its order in the cart: a second one,
\* sent by whatever client at whatever moment after that, cannot order it
\* again, unless an update that was overtaken put it back (checkout, clearCart,
\* updateItem).
THEOREM OrderedItemsAreGone ==
  ASSUME NEW CONSTANT bodies PROVE CartSpec(bodies) => []OrderedItemsLeave
<1>1. CartInit(bodies) => ClearingConsistent
  BY DEF CartInit, ClearingConsistent
<1>2. CIInv /\ CIInv' /\ ClearingConsistent /\ [Next]_cvars => ClearingConsistent'
  BY NextKeepsClearing
<1>3. ClearingConsistent => OrderedItemsLeave
  BY DEF ClearingConsistent, OrderedItemsLeave
<1> QED
  BY <1>1, <1>2, <1>3, CIInvIsInvariant, PTL DEF CartSpec
=============================================================================
