------------------------- MODULE OrderSystemProofs -------------------------
(***************************************************************************)
(* Theorems about OrderCommands, for every set of products, users, keys,   *)
(* baskets and concurrent requests, and about OrderSystem: the requests    *)
(* and the queue consumers over one database, for every number of each.    *)
(*                                                                         *)
(* The first part is about the commands by themselves and uses nothing of  *)
(* OrderSystem.  The second part shows that a step of either side keeps    *)
(* what the other one relies on.                                           *)
(***************************************************************************)
EXTENDS OrderSystem, SetSums

-----------------------------------------------------------------------------
(* The commands: facts about the data *)

\* The quantities of a basket are natural numbers, and a product it does not
\* name has quantity 0 (StockItem).
LEMMA BasketFacts ==
  ASSUME NEW b \in Baskets, NEW p \in Products
  PROVE  /\ b[p].line \in Nat /\ b[p].again \in Nat
         /\ Total(b, p) \in Nat
         /\ p \notin Wanted(b) => Total(b, p) = 0
         /\ NoRepeats => Total(b, p) = b[p].line
<1>1. b \in BasketType
  BY BasketsAssumption
<1>2. b[p] \in [line : Nat, again : Nat]
  BY <1>1 DEF BasketType
<1> QED
  BY <1>2 DEF Total, Wanted, NoRepeats

\* The row createOrder inserts is an order row.
LEMMA NewOrderType ==
  ASSUME NEW r \in Creates, req \in [Creates -> CreateRequest]
  PROVE  NewOrder(r) \in Order /\ NewOrder(r).items = req[r].items
<1>1. req[r] \in CreateRequest
  OBVIOUS
<1> QED
  BY <1>1 DEF NewOrder, Order, CreateRequest, OrderStatus

\* save(order) leaves an order row behind, with the items it had.
LEMMA SavedType ==
  ASSUME NEW c \in Cancels, orders[creq[c].order] \in Order, loaded[c] \in Order
  PROVE  Saved(c) \in Order /\ Saved(c).items = orders[creq[c].order].items
  BY DEF Saved, Entity, Order, OrderStatus

-----------------------------------------------------------------------------
(* The commands: the inductive invariant *)

\* IInv holds before the first request.
LEMMA InitIInv == Init => IInv
<1> SUFFICES ASSUME Init PROVE IInv
  OBVIOUS
<1> USE CommandsAssumption, BasketsAssumption DEF Init
<1>1. TypeOK
  BY DEF TypeOK, DbTypeOK, Requests, CreatePcs, CancelPcs, Creates, Zero
<1>2. LocksExclusive
  BY DEF LocksExclusive
<1>3. RequestsConsistent
  BY DEF RequestsConsistent, CreatePcs, CancelPcs, Done, Requests, Creates
<1>4. RowOnlyAfterCommit
  BY DEF RowOnlyAfterCommit, Exists, Creates
<1>5. WritesCurrent
  BY DEF WritesCurrent, Requests
<1>6. StockNeverNegative
  BY DEF StockNeverNegative
<1> QED
  BY <1>1, <1>2, <1>3, <1>4, <1>5, <1>6 DEF IInv

\* A step that only moves a request, and stores an answer, keeps IInv.
LEMMA LocalStep ==
  ASSUME IInv, NEW t \in Requests, NEW label \in CreatePcs \cup CancelPcs,
         held[t] = {},
         Goto(t, label),
         UNCHANGED <<dbVars, req, creq, writes, loaded, dirty, published>>,
         answer' \in [Requests -> OrderIds \cup {NoOrder}],
         t \in Creates => /\ label \in CreatePcs \ {"insert", "inserted"}
                          /\ Exists(t) => label \in {"publish"} \cup Done,
         t \in Cancels => label \in {"loadFull"} \cup Done
                          /\ (label = "loadFull" => Exists(creq[t].order))
  PROVE  IInv'
<1> USE CommandsAssumption
<1>1. TypeOK'
  BY DEF IInv, TypeOK, DbTypeOK, dbVars, Goto
<1>2. LocksExclusive'
  BY DEF IInv, LocksExclusive, TypeOK, DbTypeOK, dbVars, Goto, Requests
<1>3. RequestsConsistent'
  BY DEF IInv, RequestsConsistent, TypeOK, DbTypeOK, dbVars, Goto, Requests, Exists, Done, CancelPcs
<1>4. RowOnlyAfterCommit'
  BY DEF IInv, RowOnlyAfterCommit, TypeOK, DbTypeOK, dbVars, Goto, Requests, Exists
<1>5. WritesCurrent'
  BY DEF IInv, WritesCurrent, TypeOK, DbTypeOK, dbVars, Goto, Requests, Done
<1>6. StockNeverNegative' = StockNeverNegative
  BY DEF StockNeverNegative, dbVars
<1> QED
  BY <1>1, <1>2, <1>3, <1>4, <1>5, <1>6 DEF IInv

\* A rolled back transaction keeps IInv.
LEMMA RollbackStep ==
  ASSUME IInv, NEW t \in Requests, NEW label \in {"failed", "conflict", "crashed"},
         Goto(t, label), Rollback(t),
         label = "conflict" => t \in Creates /\ ~Exists(t)
  PROVE  IInv'
<1> USE CommandsAssumption DEF Rollback, Release, Goto
<1>1. TypeOK'
  BY DEF IInv, TypeOK, DbTypeOK, CreatePcs, CancelPcs, Done, Zero, Requests
<1>2. LocksExclusive'
  BY DEF IInv, LocksExclusive, TypeOK, DbTypeOK, Requests
<1>3. RequestsConsistent'
  BY DEF IInv, RequestsConsistent, TypeOK, DbTypeOK, Requests, Exists, Done, CancelPcs, CreatePcs
<1>4. RowOnlyAfterCommit'
  BY DEF IInv, RowOnlyAfterCommit, TypeOK, DbTypeOK, Requests, Exists, Done
<1>5. WritesCurrent'
  BY DEF IInv, WritesCurrent, TypeOK, DbTypeOK, Requests, Done
<1>6. StockNeverNegative' = StockNeverNegative
  BY DEF StockNeverNegative
<1> QED
  BY <1>1, <1>2, <1>3, <1>4, <1>5, <1>6 DEF IInv

\* findByIdsWithLock keeps IInv: a row is locked only while nobody else
\* holds it.
LEMMA LockKeepsIInv ==
  ASSUME IInv, NEW t \in Requests, NEW p \in Products, LockProduct(t, p)
  PROVE  IInv'
<1> USE CommandsAssumption DEF LockProduct, reqVars
<1>1. TypeOK'
  BY DEF IInv, TypeOK, DbTypeOK, Requests
<1>2. LocksExclusive'
  BY DEF IInv, LocksExclusive, TypeOK, DbTypeOK, Requests, RowFree, InTx
<1>3. RequestsConsistent'
  BY DEF IInv, RequestsConsistent, TypeOK, DbTypeOK, Requests, Exists, ToLock, ItemsOf
<1>4. RowOnlyAfterCommit'
  BY DEF IInv, RowOnlyAfterCommit, Exists
<1>5. WritesCurrent'
  BY DEF IInv, WritesCurrent, TypeOK, DbTypeOK, Requests
<1>6. StockNeverNegative' = StockNeverNegative
  BY DEF StockNeverNegative
<1> QED
  BY <1>1, <1>2, <1>3, <1>4, <1>5, <1>6 DEF IInv

\* The in-memory decrement under lock keeps IInv.
LEMMA DecrementKeepsIInv ==
  ASSUME IInv, NEW r \in Creates, DecrementStock(r)
  PROVE  IInv'
<1> USE CommandsAssumption
<1>1. CASE ~Available(r)
  <2>1. Goto(r, "failed") /\ Rollback(r)
    BY <1>1 DEF DecrementStock
  <2> QED
    BY <2>1, RollbackStep DEF Requests
<1>2. CASE Available(r)
  <2> DEFINE w == [p \in Products |->
                     IF p \in held[r] THEN stock[p] - Total(req[r].items, p) ELSE 0]
  <2>1. /\ pc[r] = "locking"
        /\ writes' = [writes EXCEPT ![r] = w]
        /\ Goto(r, "insert")
        /\ UNCHANGED <<dbVars, req, creq, answer, loaded, dirty, published>>
    BY <1>2 DEF DecrementStock, AllLocked
  <2>2. req[r].items \in Baskets
    BY DEF IInv, TypeOK, CreateRequest
  <2>3. \A p \in Products : Total(req[r].items, p) \in Nat
    BY <2>2, BasketFacts
  <2>4. w \in [Products -> Int]
    BY <2>3 DEF IInv, TypeOK, DbTypeOK
  <2>5. NoRepeats => \A p \in held[r] : w[p] >= 0
    <3> SUFFICES ASSUME NoRepeats, NEW p \in held[r] PROVE w[p] >= 0
      OBVIOUS
    <3>1. p \in Products /\ p \in Wanted(req[r].items) /\ stock[p] \in Int
      BY DEF IInv, TypeOK, DbTypeOK, RequestsConsistent, Wanted, Requests
    <3>2. req[r].items[p].line <= stock[p]
      BY <1>2, <3>1 DEF Available, EnoughStock
    <3>3. Total(req[r].items, p) = req[r].items[p].line /\ req[r].items[p].line \in Nat
      BY <2>2, <3>1, BasketFacts
    <3> QED
      BY <3>1, <3>2, <3>3
  <2>6. held[r] = Wanted(req[r].items)
    BY <1>2 DEF Available, IInv, RequestsConsistent
  <2> HIDE DEF w
  <2> USE <2>1 DEF Goto, dbVars
  <2>7. TypeOK'
    BY <2>4 DEF IInv, TypeOK, DbTypeOK, CreatePcs, Requests
  <2>8. LocksExclusive'
    BY DEF IInv, LocksExclusive, TypeOK, DbTypeOK, Requests, InTx
  <2>9. RequestsConsistent'
    BY DEF IInv, RequestsConsistent, TypeOK, DbTypeOK, Requests, Exists, CreatePcs
  <2>10. RowOnlyAfterCommit'
    BY DEF IInv, RowOnlyAfterCommit, TypeOK, Requests, Exists, CreatePcs, Done
  <2>11. WritesCurrent'
    <3>1. \A p \in held[r] : w[p] = stock[p] - Total(req[r].items, p)
      BY DEF w, IInv, TypeOK, DbTypeOK, Requests
    <3> QED
      BY <2>5, <2>6, <3>1 DEF IInv, WritesCurrent, TypeOK, DbTypeOK, Requests
  <2>12. StockNeverNegative' = StockNeverNegative
    BY DEF StockNeverNegative
  <2> QED
    BY <2>7, <2>8, <2>9, <2>10, <2>11, <2>12 DEF IInv
<1> QED
  BY <1>1, <1>2

\* What the commit of an order does to stock: exactly its quantities are
\* taken from the current values, because the locks kept them in place.
LEMMA CommitOrderStock ==
  ASSUME IInv, NEW r \in Creates, CommitOrder(r), NEW p \in Products
  PROVE  /\ stock'[p] = stock[p] - Total(req[r].items, p)
         /\ orders'[r] = NewOrder(r)
         /\ NoRepeats => stock'[p] >= 0
<1> USE CommandsAssumption
<1>1. req[r].items \in Baskets /\ stock[p] \in Int /\ r \in OrderIds
  BY DEF IInv, TypeOK, DbTypeOK, CreateRequest, Creates
<1>2. Total(req[r].items, p) \in Nat /\ (p \notin Wanted(req[r].items) => Total(req[r].items, p) = 0)
  BY <1>1, BasketFacts
<1>3. stock'[p] = IF p \in held[r] THEN writes[r][p] ELSE stock[p]
  BY DEF CommitOrder, CommitStock
<1>4. held[r] = Wanted(req[r].items)
  BY DEF IInv, WritesCurrent, CommitOrder
<1>5. p \in held[r] => writes[r][p] = stock[p] - Total(req[r].items, p) /\ (NoRepeats => writes[r][p] >= 0)
  BY DEF IInv, WritesCurrent, CommitOrder
<1>6. NoRepeats => stock[p] >= 0
  BY DEF IInv, StockNeverNegative
<1>7. orders'[r] = NewOrder(r)
  BY <1>1 DEF CommitOrder, IInv, TypeOK, DbTypeOK
<1> QED
  BY <1>1, <1>2, <1>3, <1>4, <1>5, <1>6, <1>7

\* The commit of an order keeps IInv: the stock values it writes are still
\* computed from the current ones (executeOrderTransaction).
LEMMA CommitOrderKeepsIInv ==
  ASSUME IInv, NEW r \in Creates, CommitOrder(r)
  PROVE  IInv'
<1> USE CommandsAssumption
<1>1. /\ pc[r] = "inserted"
      /\ orders' = [orders EXCEPT ![r] = NewOrder(r)]
      /\ held' = [held EXCEPT ![r] = {}]
      /\ writes' = [writes EXCEPT ![r] = Zero]
      /\ Goto(r, "publish")
      /\ UNCHANGED <<inactive, deleted, req, creq, answer, loaded, dirty, published>>
  BY DEF CommitOrder, CommitStock, Release
<1>2. NewOrder(r) \in Order
  BY NewOrderType DEF IInv, TypeOK
<1>3. stock' \in [Products -> Int]
  BY DEF CommitOrder, CommitStock, IInv, TypeOK, DbTypeOK, Requests
<1>4. \A q \in Txs \ {r} : \A p \in held[q] : stock'[p] = stock[p]
  BY DEF CommitOrder, CommitStock, IInv, LocksExclusive, TypeOK, DbTypeOK, Requests
<1>5. ~Exists(r) /\ r \in OrderIds /\ NewOrder(r) # NoOrder
  BY <1>1, <1>2 DEF IInv, RowOnlyAfterCommit, CreatePcs, Done, Creates
<1> USE <1>1 DEF Goto
<1>6. TypeOK'
  BY <1>2, <1>3 DEF IInv, TypeOK, DbTypeOK, CreatePcs, Requests, Creates, Zero
<1>7. LocksExclusive'
  BY DEF IInv, LocksExclusive, TypeOK, DbTypeOK, Requests
<1>8. RequestsConsistent'
  <2>1. ASSUME NEW q \in Creates
        PROVE  pc'[q] \in CreatePcs /\ held'[q] \subseteq Wanted(req'[q].items)
    BY DEF IInv, RequestsConsistent, TypeOK, DbTypeOK, Requests, CreatePcs
  <2>2. ASSUME NEW c \in Cancels
        PROVE  /\ pc'[c] \in CancelPcs
               /\ pc'[c] \in CancelPcs \ ({"new"} \cup Done) => Exists(creq[c].order)'
               /\ pc'[c] \in {"locking", "diff", "update"} =>
                    loaded'[c] \in Order /\ loaded'[c].items = orders'[creq'[c].order].items
    <3>1. pc'[c] = pc[c] /\ creq[c].order \in OrderIds
      BY DEF IInv, TypeOK, Requests, CancelRequest
    <3>2. Exists(creq[c].order) => orders'[creq[c].order] = orders[creq[c].order]
      BY <1>5, <3>1 DEF IInv, TypeOK, DbTypeOK
    <3>3. pc[c] \in {"locking", "diff", "update"} => Exists(creq[c].order)
      BY DEF IInv, RequestsConsistent, CancelPcs, Done
    <3> QED
      BY <3>1, <3>2, <3>3 DEF IInv, RequestsConsistent, Exists
  <2> QED
    BY <2>1, <2>2 DEF RequestsConsistent
<1>9. RowOnlyAfterCommit'
  BY DEF IInv, RowOnlyAfterCommit, TypeOK, DbTypeOK, Requests, Exists
<1>10. WritesCurrent'
  <2>1. ASSUME NEW q \in Creates, pc'[q] \in {"insert", "inserted"}
        PROVE  /\ held'[q] = Wanted(req'[q].items)
               /\ \A p \in held'[q] : /\ writes'[q][p] = stock'[p] - Total(req'[q].items, p)
                                      /\ NoRepeats => writes'[q][p] >= 0
    <3>1. q # r /\ q \in Txs /\ r \in Requests /\ pc'[q] = pc[q]
      BY <2>1 DEF IInv, TypeOK, Requests
    <3>2. held'[q] = held[q] /\ writes'[q] = writes[q]
      BY <3>1 DEF IInv, TypeOK, DbTypeOK, Requests
    <3> QED
      BY <1>4, <2>1, <3>1, <3>2 DEF IInv, WritesCurrent
  <2>2. ASSUME NEW c \in Cancels, pc'[c] \in {"diff", "update"}
        PROVE  \A p \in held'[c] : writes'[c][p] = stock'[p] + Total(loaded'[c].items, p)
    <3>1. c # r /\ c \in Txs /\ r \in Requests /\ pc'[c] = pc[c]
      BY <2>2 DEF IInv, TypeOK, Requests
    <3>2. held'[c] = held[c] /\ writes'[c] = writes[c]
      BY <3>1 DEF IInv, TypeOK, DbTypeOK, Requests
    <3> QED
      BY <1>4, <2>2, <3>1, <3>2 DEF IInv, WritesCurrent
  <2> QED
    BY <2>1, <2>2 DEF WritesCurrent
<1>11. NoRepeats => StockNeverNegative'
  BY CommitOrderStock DEF StockNeverNegative
<1> QED
  BY <1>6, <1>7, <1>8, <1>9, <1>10, <1>11 DEF IInv

\* Loading the order with its items keeps IInv (executeCancelTransaction).
LEMMA LoadFullKeepsIInv ==
  ASSUME IInv, NEW c \in Cancels, LoadFull(c)
  PROVE  IInv'
<1> USE CommandsAssumption DEF LoadFull, Goto, dbVars
<1>1. c \in Requests /\ creq[c].order \in OrderIds /\ orders[creq[c].order] \in Order
  BY DEF IInv, TypeOK, DbTypeOK, CancelRequest, RequestsConsistent, Exists, CancelPcs, Done, Requests
<1>2. held[c] = {}
  BY <1>1 DEF IInv, LocksExclusive, InTx, Requests
<1>3. TypeOK'
  BY <1>1 DEF IInv, TypeOK, DbTypeOK, CancelPcs
<1>4. LocksExclusive'
  BY <1>1, <1>2 DEF IInv, LocksExclusive, TypeOK, DbTypeOK, Requests
<1>5. RequestsConsistent'
  BY <1>1 DEF IInv, RequestsConsistent, TypeOK, DbTypeOK, Requests, Exists, CancelPcs, Done
<1>6. RowOnlyAfterCommit'
  BY DEF IInv, RowOnlyAfterCommit, TypeOK, Requests, Exists
<1>7. WritesCurrent'
  BY DEF IInv, WritesCurrent, TypeOK, DbTypeOK, Requests
<1>8. StockNeverNegative' = StockNeverNegative
  BY DEF StockNeverNegative
<1> QED
  BY <1>3, <1>4, <1>5, <1>6, <1>7, <1>8 DEF IInv

\* The in-memory restore under lock keeps IInv (lockAndRestore).
LEMMA RestoreKeepsIInv ==
  ASSUME IInv, NEW c \in Cancels, RestoreStock(c)
  PROVE  IInv'
<1> USE CommandsAssumption
<1> DEFINE w == [p \in Products |->
                   IF p \in held[c] THEN stock[p] + Total(loaded[c].items, p) ELSE 0]
<1>1. /\ pc[c] = "locking"
      /\ writes' = [writes EXCEPT ![c] = w]
      /\ Goto(c, "diff")
      /\ UNCHANGED <<dbVars, req, creq, answer, loaded, dirty, published>>
  BY DEF RestoreStock, AllLocked
<1>2. loaded[c].items \in Baskets /\ held[c] \subseteq Products
  BY <1>1 DEF IInv, RequestsConsistent, Order, TypeOK, DbTypeOK, Requests
<1>3. \A p \in Products : Total(loaded[c].items, p) \in Nat
  BY <1>2, BasketFacts
<1>4. w \in [Products -> Int]
  BY <1>3 DEF IInv, TypeOK, DbTypeOK
<1>5. \A p \in held[c] : w[p] = stock[p] + Total(loaded[c].items, p)
  BY <1>2
<1> HIDE DEF w
<1> USE <1>1 DEF Goto, dbVars
<1>6. TypeOK'
  BY <1>4 DEF IInv, TypeOK, DbTypeOK, CancelPcs, Requests
<1>7. LocksExclusive'
  BY DEF IInv, LocksExclusive, TypeOK, DbTypeOK, Requests, InTx
<1>8. RequestsConsistent'
  BY DEF IInv, RequestsConsistent, TypeOK, DbTypeOK, Requests, Exists, CancelPcs, Done
<1>9. RowOnlyAfterCommit'
  BY DEF IInv, RowOnlyAfterCommit, TypeOK, Requests, Exists
<1>10. WritesCurrent'
  BY <1>5 DEF IInv, WritesCurrent, TypeOK, DbTypeOK, Requests
<1>11. StockNeverNegative' = StockNeverNegative
  BY DEF StockNeverNegative
<1> QED
  BY <1>6, <1>7, <1>8, <1>9, <1>10, <1>11 DEF IInv

\* The read of save(order) keeps IInv (executeCancelTransaction).
LEMMA SaveDiffKeepsIInv ==
  ASSUME IInv, NEW c \in Cancels, SaveDiff(c)
  PROVE  IInv'
<1> USE CommandsAssumption DEF SaveDiff, Goto, dbVars
<1>1. TypeOK'
  BY DEF IInv, TypeOK, DbTypeOK, CancelPcs, Requests
<1>2. LocksExclusive'
  BY DEF IInv, LocksExclusive, TypeOK, DbTypeOK, Requests, InTx
<1>3. RequestsConsistent'
  BY DEF IInv, RequestsConsistent, TypeOK, DbTypeOK, Requests, Exists, CancelPcs, Done
<1>4. RowOnlyAfterCommit'
  BY DEF IInv, RowOnlyAfterCommit, TypeOK, Requests, Exists
<1>5. WritesCurrent'
  BY DEF IInv, WritesCurrent, TypeOK, DbTypeOK, Requests
<1>6. StockNeverNegative' = StockNeverNegative
  BY DEF StockNeverNegative
<1> QED
  BY <1>1, <1>2, <1>3, <1>4, <1>5, <1>6 DEF IInv

\* What the commit of a cancellation does to stock: the quantities of its
\* order go back to every row it could lock, the others stay.
LEMMA CommitCancelStock ==
  ASSUME IInv, NEW c \in Cancels, CommitCancel(c), NEW p \in Products
  PROVE  /\ stock'[p] # stock[p] => stock'[p] = stock[p] + Total(orders[creq[c].order].items, p)
         /\ stock'[p] \in Int
         /\ stock'[p] >= stock[p]
<1>1. loaded[c] \in Order /\ loaded[c].items = orders[creq[c].order].items
  BY DEF IInv, RequestsConsistent, CommitCancel
<1>2. Total(loaded[c].items, p) \in Nat
  BY <1>1, BasketFacts DEF Order
<1>3. stock'[p] = IF p \in held[c] THEN writes[c][p] ELSE stock[p]
  BY DEF CommitCancel, CommitStock
<1>4. p \in held[c] => writes[c][p] = stock[p] + Total(loaded[c].items, p)
  BY DEF IInv, WritesCurrent, CommitCancel
<1>5. stock[p] \in Int
  BY DEF IInv, TypeOK, DbTypeOK
<1> QED
  BY <1>1, <1>2, <1>3, <1>4, <1>5

\* The commit of a cancellation keeps IInv (executeCancelTransaction).
LEMMA CommitCancelKeepsIInv ==
  ASSUME IInv, NEW c \in Cancels, CommitCancel(c)
  PROVE  IInv'
<1> USE CommandsAssumption
<1> DEFINE o == creq[c].order
<1>1. /\ pc[c] = "update"
      /\ orders' = [orders EXCEPT ![o] = Saved(c)]
      /\ held' = [held EXCEPT ![c] = {}]
      /\ writes' = [writes EXCEPT ![c] = Zero]
      /\ answer' = [answer EXCEPT ![c] = o]
      /\ Goto(c, "answered")
      /\ UNCHANGED <<inactive, deleted, req, creq, loaded, dirty, published>>
  BY DEF CommitCancel, CommitStock, Release
<1>2. o \in OrderIds /\ Exists(o) /\ orders[o] \in Order /\ loaded[c] \in Order
  BY <1>1 DEF IInv, TypeOK, DbTypeOK, CancelRequest, RequestsConsistent, Exists, CancelPcs, Done
<1>3. Saved(c) \in Order /\ Saved(c).items = orders[o].items /\ Saved(c) # NoOrder
  BY <1>2, SavedType
<1>4. stock' \in [Products -> Int]
  BY CommitCancelStock DEF CommitCancel, CommitStock
<1>5. \A q \in Txs \ {c} : \A p \in held[q] : stock'[p] = stock[p]
  BY DEF CommitCancel, CommitStock, IInv, LocksExclusive, TypeOK, DbTypeOK, Requests
<1>6. \A i \in OrderIds : /\ Exists(i)' = Exists(i)
                         /\ orders'[i].items = orders[i].items
  BY <1>1, <1>2, <1>3 DEF Exists, IInv, TypeOK, DbTypeOK
<1> HIDE DEF o
<1> USE <1>1 DEF Goto
<1>7. TypeOK'
  BY <1>2, <1>3, <1>4 DEF IInv, TypeOK, DbTypeOK, CancelPcs, Done, Requests, Zero
<1>8. LocksExclusive'
  BY DEF IInv, LocksExclusive, TypeOK, DbTypeOK, Requests
<1>9. RequestsConsistent'
  <2>1. ASSUME NEW q \in Creates
        PROVE  pc'[q] \in CreatePcs /\ held'[q] \subseteq Wanted(req'[q].items)
    BY DEF IInv, RequestsConsistent, TypeOK, DbTypeOK, Requests
  <2>2. ASSUME NEW d \in Cancels
        PROVE  /\ pc'[d] \in CancelPcs
               /\ pc'[d] \in CancelPcs \ ({"new"} \cup Done) => Exists(creq[d].order)'
               /\ pc'[d] \in {"locking", "diff", "update"} =>
                    loaded'[d] \in Order /\ loaded'[d].items = orders'[creq'[d].order].items
    <3>1. creq[d].order \in OrderIds /\ c \in Requests /\ d \in Requests
      BY DEF IInv, TypeOK, Requests, CancelRequest
    <3>2. d # c => pc'[d] = pc[d]
      BY <3>1 DEF IInv, TypeOK
    <3>3. pc'[c] = "answered"
      BY <3>1 DEF IInv, TypeOK
    <3>4. Exists(creq[d].order)' = Exists(creq[d].order)
      BY <1>6, <3>1 DEF Exists
    <3> QED
      BY <1>6, <3>1, <3>2, <3>3, <3>4 DEF IInv, RequestsConsistent, CancelPcs, Done
  <2> QED
    BY <2>1, <2>2 DEF RequestsConsistent
<1>10. RowOnlyAfterCommit'
  BY <1>6 DEF IInv, RowOnlyAfterCommit, TypeOK, Requests, Creates
<1>11. WritesCurrent'
  <2>1. ASSUME NEW q \in Creates, pc'[q] \in {"insert", "inserted"}
        PROVE  /\ held'[q] = Wanted(req'[q].items)
               /\ \A p \in held'[q] : /\ writes'[q][p] = stock'[p] - Total(req'[q].items, p)
                                      /\ NoRepeats => writes'[q][p] >= 0
    <3>1. q # c /\ q \in Txs /\ pc'[q] = pc[q]
      BY <2>1 DEF IInv, TypeOK, Requests
    <3>2. held'[q] = held[q] /\ writes'[q] = writes[q]
      BY <3>1 DEF IInv, TypeOK, DbTypeOK, Requests
    <3> QED
      BY <1>5, <2>1, <3>1, <3>2 DEF IInv, WritesCurrent
  <2>2. ASSUME NEW d \in Cancels, pc'[d] \in {"diff", "update"}
        PROVE  \A p \in held'[d] : writes'[d][p] = stock'[p] + Total(loaded'[d].items, p)
    <3>1. d # c /\ d \in Txs /\ pc'[d] = pc[d]
      BY <2>2 DEF IInv, TypeOK, Requests
    <3>2. held'[d] = held[d] /\ writes'[d] = writes[d]
      BY <3>1 DEF IInv, TypeOK, DbTypeOK, Requests
    <3> QED
      BY <1>5, <2>2, <3>1, <3>2 DEF IInv, WritesCurrent
  <2> QED
    BY <2>1, <2>2 DEF WritesCurrent
<1>12. StockNeverNegative => StockNeverNegative'
  BY CommitCancelStock DEF StockNeverNegative, IInv, TypeOK, DbTypeOK
<1> QED
  BY <1>7, <1>8, <1>9, <1>10, <1>11, <1>12 DEF IInv

\* Soft-deleting a product keeps IInv (ProductsService.remove).
LEMMA RemoveProductKeepsIInv ==
  ASSUME IInv, NEW p \in Products, RemoveProduct(p)
  PROVE  IInv'
<1> USE DEF RemoveProduct, reqVars
<1>1. TypeOK'
  BY DEF IInv, TypeOK, DbTypeOK
<1>2. LocksExclusive'
  BY DEF IInv, LocksExclusive
<1>3. RequestsConsistent' /\ RowOnlyAfterCommit' /\ WritesCurrent'
  BY DEF IInv, RequestsConsistent, RowOnlyAfterCommit, WritesCurrent, Exists
<1>4. StockNeverNegative' = StockNeverNegative
  BY DEF StockNeverNegative
<1> QED
  BY <1>1, <1>2, <1>3, <1>4 DEF IInv

\* Every step of a creation request keeps IInv.
LEMMA CreateStepKeepsIInv ==
  ASSUME IInv, NEW r \in Creates, CreateStep(r)
  PROVE  IInv'
<1> USE CommandsAssumption
<1>1. r \in Requests /\ r \in Txs /\ r \notin Cancels
  BY DEF Requests
<1>2. pc[r] \notin InTx => held[r] = {}
  BY <1>1 DEF IInv, LocksExclusive
<1>3. pc[r] \notin {"publish"} \cup Done => ~Exists(r)
  BY DEF IInv, RowOnlyAfterCommit, RequestsConsistent
<1>4. answer \in [Requests -> OrderIds \cup {NoOrder}]
  BY DEF IInv, TypeOK
<1>5. ASSUME NEW label \in CreatePcs \ {"insert", "inserted"}, held[r] = {},
             Exists(r) => label \in {"publish"} \cup Done,
             Goto(r, label),
             UNCHANGED <<dbVars, req, creq, writes, loaded, dirty, published>>,
             answer' \in [Requests -> OrderIds \cup {NoOrder}]
      PROVE  IInv'
  BY <1>1, <1>5, LocalStep
<1>6. ASSUME NEW label \in CreatePcs \ {"insert", "inserted"}, pc[r] \notin InTx,
             pc[r] \in {"publish"} \cup Done => label \in {"publish"} \cup Done,
             Advance(r, label)
      PROVE  IInv'
  BY <1>2, <1>3, <1>4, <1>5, <1>6 DEF Advance
<1>7. ASSUME pc[r] \notin InTx, Fail(r) PROVE IInv'
  BY <1>2, <1>4, <1>5, <1>7 DEF Fail, CreatePcs, Done
<1>8. ASSUME NEW o \in OrderIds, pc[r] \notin InTx, AnswerWith(r, o) PROVE IInv'
  <2>1. answer' \in [Requests -> OrderIds \cup {NoOrder}]
    BY <1>1, <1>4, <1>8 DEF AnswerWith
  <2> QED
    BY <1>2, <1>5, <1>8, <2>1 DEF AnswerWith, CreatePcs, Done
<1>9. CASE ValidateRequest(r)
  BY <1>6, <1>7, <1>9 DEF ValidateRequest, CreatePcs, InTx, Done
<1>10. CASE CheckIdempotency(r)
  BY <1>6, <1>8, <1>10 DEF CheckIdempotency, CreatePcs, InTx, Done, WithKey
<1>11. CASE ValidateExist(r)
  BY <1>6, <1>7, <1>11 DEF ValidateExist, CreatePcs, InTx, Done
<1>12. CASE DecrementStock(r)
  BY <1>12, DecrementKeepsIInv
<1>13. CASE InsertOrder(r)
  <2>1. CASE Goto(r, "conflict") /\ Rollback(r)
    BY <1>1, <1>3, <1>13, <2>1, RollbackStep DEF InsertOrder, Done
  <2>2. CASE Advance(r, "inserted")
    <3> USE <1>13, <2>2 DEF InsertOrder, Advance, Goto, dbVars
    <3>1. TypeOK'
      BY <1>1 DEF IInv, TypeOK, DbTypeOK, CreatePcs
    <3>2. LocksExclusive'
      BY <1>1 DEF IInv, LocksExclusive, TypeOK, DbTypeOK, InTx
    <3>3. RequestsConsistent'
      BY <1>1 DEF IInv, RequestsConsistent, TypeOK, DbTypeOK, Requests, Exists, CreatePcs
    <3>4. RowOnlyAfterCommit'
      BY <1>1 DEF IInv, RowOnlyAfterCommit, TypeOK, Requests, Exists, CreatePcs, Done
    <3>5. WritesCurrent'
      BY <1>1 DEF IInv, WritesCurrent, TypeOK, DbTypeOK, Requests
    <3>6. StockNeverNegative' = StockNeverNegative
      BY DEF StockNeverNegative
    <3> QED
      BY <3>1, <3>2, <3>3, <3>4, <3>5, <3>6 DEF IInv
  <2> QED
    BY <1>13, <2>1, <2>2 DEF InsertOrder
<1>14. CASE CommitOrder(r)
  BY <1>14, CommitOrderKeepsIInv
<1>15. CASE PublishLost(r) \/ PublishThrows(r)
  BY <1>7, <1>8, <1>15 DEF PublishLost, PublishThrows, InTx, Creates
<1>16. CASE HandleConflict(r)
  BY <1>7, <1>8, <1>16 DEF HandleConflict, InTx, WithKey
<1>17. CASE Publish(r)
  <2> USE <1>17 DEF Publish, Goto, dbVars
  <2>1. TypeOK'
    BY <1>1, <1>4 DEF IInv, TypeOK, DbTypeOK, CreatePcs, Done, Creates
  <2>2. LocksExclusive'
    BY <1>1, <1>2 DEF IInv, LocksExclusive, TypeOK, DbTypeOK, InTx
  <2>3. RequestsConsistent'
    BY <1>1 DEF IInv, RequestsConsistent, TypeOK, DbTypeOK, Requests, Exists, CreatePcs, Done
  <2>4. RowOnlyAfterCommit'
    BY <1>1 DEF IInv, RowOnlyAfterCommit, TypeOK, Requests, Exists, Done
  <2>5. WritesCurrent'
    BY <1>1 DEF IInv, WritesCurrent, TypeOK, DbTypeOK, Requests
  <2>6. StockNeverNegative' = StockNeverNegative
    BY DEF StockNeverNegative
  <2> QED
    BY <2>1, <2>2, <2>3, <2>4, <2>5, <2>6 DEF IInv
<1> QED
  BY <1>9, <1>10, <1>11, <1>12, <1>13, <1>14, <1>15, <1>16, <1>17 DEF CreateStep

\* Every step of a cancellation request keeps IInv.
LEMMA CancelStepKeepsIInv ==
  ASSUME IInv, NEW c \in Cancels, CancelStep(c)
  PROVE  IInv'
<1> USE CommandsAssumption
<1>1. CASE LoadShallow(c)
  <2>1. c \in Requests /\ c \in Txs /\ c \notin Creates
    BY DEF Requests
  <2>2. held[c] = {}
    BY <1>1, <2>1 DEF LoadShallow, IInv, LocksExclusive, InTx
  <2>3. answer \in [Requests -> OrderIds \cup {NoOrder}]
    BY DEF IInv, TypeOK
  <2>4. CASE Fail(c)
    BY <2>1, <2>2, <2>3, <2>4, LocalStep DEF Fail, CancelPcs, Done
  <2>5. CASE Exists(creq[c].order) /\ Advance(c, "loadFull")
    BY <2>1, <2>2, <2>3, <2>5, LocalStep DEF Advance, CancelPcs
  <2> QED
    BY <1>1, <2>4, <2>5 DEF LoadShallow
<1> QED
  BY <1>1, LoadFullKeepsIInv, RestoreKeepsIInv, SaveDiffKeepsIInv, CommitCancelKeepsIInv
     DEF CancelStep

\* Every step of the command side keeps IInv.
LEMMA NextIInv == IInv /\ [Next]_vars => IInv'
<1> SUFFICES ASSUME IInv, [Next]_vars PROVE IInv'
  OBVIOUS
<1>1. ASSUME NEW t \in Requests, WaitAborted(t) \/ StatementFails(t) \/ Crash(t)
      PROVE  IInv'
  <2>1. \E label \in {"failed", "crashed"} : Goto(t, label) /\ Rollback(t)
    BY <1>1 DEF WaitAborted, StatementFails, Crash
  <2> QED
    BY <2>1, RollbackStep
<1>2. CASE UNCHANGED vars
  BY <1>2 DEF vars, dbVars, reqVars, IInv, TypeOK, DbTypeOK, LocksExclusive,
       RequestsConsistent, RowOnlyAfterCommit, WritesCurrent, StockNeverNegative, Exists
<1> QED
  BY <1>1, <1>2, CreateStepKeepsIInv, CancelStepKeepsIInv, LockKeepsIInv,
     RemoveProductKeepsIInv DEF Next, LockStep

\* The inductive invariant of createOrder and cancelOrder.
THEOREM IInvIsInvariant == Spec => []IInv
<1> QED
  BY InitIInv, NextIInv, PTL DEF Spec

-----------------------------------------------------------------------------
(* The commands: stock *)

\* The tables and the local state of every request stay well typed
\* (createOrder, cancelOrder and their failures).
THEOREM TypeCorrect == Spec => []TypeOK
<1>1. IInv => TypeOK
  BY DEF IInv
<1> QED
  BY <1>1, IInvIsInvariant, PTL

\* With item lists that name a product once, no interleaving of any number
\* of order creations, cancellations, aborts and crashes sells more units
\* than there are in stock (lockValidateAndDecrement).
THEOREM NeverOversold == ASSUME NoRepeats PROVE Spec => []StockNeverNegative
<1>1. IInv => StockNeverNegative
  BY DEF IInv
<1> QED
  BY <1>1, IInvIsInvariant, PTL

\* No stock update is lost: every change of stock is the commit of one order
\* or of one cancellation and moves the current stock by exactly that
\* order's quantities (executeOrderTransaction, executeCancelTransaction).
THEOREM StockMoves == Spec => StockMovesWithOrders
<1> DEFINE Moves ==
      /\ \A r \in Creates : OrderCommitted(r) =>
           \A p \in Products : stock'[p] = stock[p] - Total(orders'[r].items, p)
      /\ \A p \in Products : stock'[p] # stock[p] =>
           \/ \E r \in Creates : OrderCommitted(r)
           \/ \E c \in Cancels :
                CancelCommitted(c) /\ stock'[p] = stock[p] + Total(orders[creq[c].order].items, p)
<1>1. ASSUME IInv, [Next]_vars PROVE [Moves]_vars
  <2> USE CommandsAssumption
  <2>1. CASE UNCHANGED <<stock, orders>>
    BY <2>1 DEF OrderCommitted, Exists
  <2>2. ASSUME NEW r \in Creates, CommitOrder(r) PROVE Moves
    <3>1. /\ r \in OrderIds /\ NewOrder(r) \in Order /\ ~Exists(r)
          /\ NewOrder(r).items = req[r].items
      BY <1>1, <2>2, NewOrderType DEF CommitOrder, IInv, TypeOK, RowOnlyAfterCommit, CreatePcs, Done, Creates
    <3>2. \A q \in Creates : OrderCommitted(q) => q = r
      BY <1>1, <2>2, <3>1 DEF OrderCommitted, Exists, CommitOrder, IInv, TypeOK, DbTypeOK, Creates
    <3>3. OrderCommitted(r) /\ orders'[r] = NewOrder(r)
      BY <1>1, <2>2, <3>1 DEF OrderCommitted, CommitOrder, IInv, TypeOK, DbTypeOK
    <3>4. \A p \in Products : stock'[p] = stock[p] - Total(orders'[r].items, p)
      BY <1>1, <2>2, <3>1, <3>3, CommitOrderStock
    <3> QED
      BY <3>2, <3>3, <3>4
  <2>3. ASSUME NEW c \in Cancels, CommitCancel(c) PROVE Moves
    <3>1. CancelCommitted(c)
      BY <1>1, <2>3 DEF CancelCommitted, CommitCancel, Goto, IInv, TypeOK, Requests
    <3>2. creq[c].order \in OrderIds /\ Exists(creq[c].order)
      BY <1>1, <2>3 DEF CommitCancel, IInv, TypeOK, CancelRequest, RequestsConsistent, CancelPcs, Done
    <3>3. \A q \in Creates : ~OrderCommitted(q)
      BY <1>1, <2>3, <3>2 DEF OrderCommitted, Exists, CommitCancel, IInv, TypeOK, DbTypeOK, Creates
    <3>4. \A p \in Products : stock'[p] # stock[p] => stock'[p] = stock[p] + Total(orders[creq[c].order].items, p)
      BY <1>1, <2>3, CommitCancelStock
    <3> QED
      BY <3>1, <3>3, <3>4
  <2>4. ASSUME NEW r \in Creates, CreateStep(r), ~CommitOrder(r) PROVE UNCHANGED <<stock, orders>>
    BY <2>4 DEF CreateStep, ValidateRequest, CheckIdempotency, ValidateExist, DecrementStock,
         InsertOrder, Publish, PublishLost, PublishThrows, HandleConflict, Advance, Fail,
         AnswerWith, Rollback, dbVars
  <2>5. ASSUME NEW c \in Cancels, CancelStep(c), ~CommitCancel(c) PROVE UNCHANGED <<stock, orders>>
    BY <2>5 DEF CancelStep, LoadShallow, LoadFull, RestoreStock, SaveDiff, Advance, Fail, dbVars
  <2>6. ASSUME NEW t \in Requests, LockStep(t) \/ WaitAborted(t) \/ StatementFails(t) \/ Crash(t)
        PROVE  UNCHANGED <<stock, orders>>
    BY <2>6 DEF LockStep, LockProduct, WaitAborted, StatementFails, Crash, Rollback
  <2>7. ASSUME NEW p \in Products, RemoveProduct(p) PROVE UNCHANGED <<stock, orders>>
    BY <2>7 DEF RemoveProduct
  <2>8. CASE UNCHANGED vars
    BY <2>8
  <2> HIDE DEF Moves
  <2> QED
    BY <1>1, <2>1, <2>2, <2>3, <2>4, <2>5, <2>6, <2>7, <2>8 DEF Next
<1> QED
  BY <1>1, IInvIsInvariant, PTL DEF Spec, StockMovesWithOrders

-----------------------------------------------------------------------------
(* The commands: the stock ledger *)

\* The step neither adds nor removes an order, nor changes its items.
SameItems ==
  \A o \in OrderIds : /\ orders'[o] = NoOrder <=> orders[o] = NoOrder
                      /\ orders[o] # NoOrder => orders'[o].items = orders[o].items

\* The summands of the ledger.
Units(p) == [o \in Placed |-> Total(orders[o].items, p)]

Returns(p) == [c \in Completed |-> Total(orders[creq[c].order].items, p)]

\* Finitely many numbers.
LEMMA LedgerTypes ==
  ASSUME IInv, LedgerKept, NEW p \in Products
  PROVE  /\ IsFiniteSet(Placed) /\ \A o \in Placed : Units(p)[o] \in Int
         /\ IsFiniteSet(Completed) /\ \A c \in Completed : Returns(p)[c] \in Int
         /\ Sold(p) = SumFunctionOnSet(Units(p), Placed) /\ Sold(p) \in Int
         /\ Restored(p) = SumFunctionOnSet(Returns(p), Completed) /\ Restored(p) \in Int
<1>1. Placed \subseteq Requests /\ Completed \subseteq Requests
  BY DEF Placed, Completed, Requests, Creates
<1>2. IsFiniteSet(Placed) /\ IsFiniteSet(Completed)
  BY <1>1, CommandsAssumption, FS_Subset
<1>3. \A o \in OrderIds : Exists(o) => Total(orders[o].items, p) \in Nat
  BY BasketFacts DEF IInv, TypeOK, DbTypeOK, Exists, Order
<1>4. \A o \in Placed : Units(p)[o] \in Int
  BY <1>3 DEF Units, Placed
<1>5. \A c \in Completed : creq[c].order \in OrderIds /\ Exists(creq[c].order)
  BY DEF Completed, LedgerKept, IInv, TypeOK, CancelRequest
<1>6. \A c \in Completed : Returns(p)[c] \in Int
  BY <1>3, <1>5 DEF Returns
<1>7. Sold(p) = SumFunctionOnSet(Units(p), Placed) /\ Restored(p) = SumFunctionOnSet(Returns(p), Completed)
  BY DEF Sold, Restored, Units, Returns
<1> QED
  BY <1>2, <1>4, <1>6, <1>7, SumType

\* What was sold does not change with a step that keeps every order's items,
\* nor what was returned when no cancellation completes.
LEMMA SoldSame ==
  ASSUME IInv, SameItems, NEW p \in Products
  PROVE  Sold(p)' = Sold(p)
<1>1. Placed' = Placed
  BY DEF Placed, SameItems, Exists
<1>2. Units(p)' = Units(p)
  BY <1>1 DEF Units, SameItems, Placed, Exists, Total
<1>3. Sold(p) = SumFunctionOnSet(Units(p), Placed) /\ Sold(p)' = SumFunctionOnSet(Units(p)', Placed')
  BY DEF Sold, Units
<1> QED
  BY <1>1, <1>2, <1>3

LEMMA RestoredSame ==
  ASSUME IInv, LedgerKept, UNCHANGED creq, Completed' = Completed, NEW p \in Products,
         \A o \in OrderIds : Exists(o) => orders'[o].items = orders[o].items
  PROVE  Restored(p)' = Restored(p)
<1>1. \A c \in Completed : creq[c].order \in OrderIds /\ Exists(creq[c].order)
  BY DEF Completed, LedgerKept, IInv, TypeOK, CancelRequest
<1>2. Returns(p)' = Returns(p)
  BY <1>1 DEF Returns, Total
<1>3. /\ Restored(p) = SumFunctionOnSet(Returns(p), Completed)
      /\ Restored(p)' = SumFunctionOnSet(Returns(p)', Completed')
  BY DEF Restored, Returns
<1> QED
  BY <1>2, <1>3

\* A step that moves no stock, no order and no cancellation past its commit
\* keeps the balance.
LEMMA BalanceSame ==
  ASSUME IInv, LedgerKept, UNCHANGED <<stock, creq>>, deleted \subseteq deleted', SameItems,
         Completed' = Completed
  PROVE  LedgerBalanced'
<1>1. \A p \in Products : Sold(p)' = Sold(p)
  BY SoldSame
<1>2. \A p \in Products : Restored(p)' = Restored(p)
  BY RestoredSame DEF SameItems, Exists
<1> QED
  BY <1>1, <1>2 DEF LedgerKept, LedgerBalanced

\* The commit of an order: what it takes is sold from then on.
LEMMA CommitOrderBalances ==
  ASSUME IInv, LedgerKept, NEW r \in Creates, CommitOrder(r)
  PROVE  LedgerBalanced'
<1>1. /\ r \in OrderIds /\ NewOrder(r) \in Order /\ ~Exists(r) /\ NewOrder(r).items = req[r].items
      /\ NoOrder \notin Order /\ req[r].items \in Baskets
  BY NewOrderType, CommandsAssumption
     DEF CommitOrder, IInv, TypeOK, RowOnlyAfterCommit, CreatePcs, Done, Creates, CreateRequest
<1>2. /\ orders'[r] = NewOrder(r) /\ \A o \in OrderIds \ {r} : orders'[o] = orders[o]
  BY <1>1 DEF CommitOrder, IInv, TypeOK, DbTypeOK
<1>3. Placed' = Placed \cup {r} /\ r \notin Placed
  BY <1>1, <1>2 DEF Placed, Exists
<1>4. UNCHANGED <<creq, deleted>> /\ Completed' = Completed
  <2>1. \A c \in Cancels : pc'[c] = pc[c]
    BY <1>1, CommandsAssumption DEF CommitOrder, Goto, IInv, TypeOK, Requests, Creates
  <2> QED
    BY <2>1 DEF CommitOrder, Completed
<1>5. ASSUME NEW p \in Products PROVE Sold(p)' = Total(req[r].items, p) + Sold(p)
  <2> DEFINE f == Units(p)'
  <2>1. f = [o \in Placed' |-> Total(orders'[o].items, p)]
    BY DEF Units, Total
  <2>2. f[r] = Total(req[r].items, p) /\ \A o \in Placed : f[o] = Units(p)[o]
    BY <1>1, <1>2, <1>3, <2>1 DEF Units, Placed
  <2>3. Total(req[r].items, p) \in Int
    BY <1>1, BasketFacts
  <2>4. IsFiniteSet(Placed) /\ \A o \in Placed : Units(p)[o] \in Int
    BY LedgerTypes
  <2>5. Sold(p)' = SumFunctionOnSet(f, Placed') /\ Sold(p) = SumFunctionOnSet(Units(p), Placed)
    BY DEF Sold, Units
  <2> HIDE DEF f
  <2>6. SumFunctionOnSet(f, Placed) = SumFunctionOnSet(Units(p), Placed)
    BY <2>2, <2>4, SumAgrees
  <2>7. \A o \in Placed : f[o] \in Int
    BY <2>2, <2>4
  <2>8. SumFunctionOnSet(f, Placed \cup {r}) = f[r] + SumFunctionOnSet(f, Placed)
    BY <1>3, <2>2, <2>3, <2>4, <2>7, SumAdd
  <2> QED
    BY <1>3, <2>2, <2>5, <2>6, <2>8
<1>6. \A p \in Products : Restored(p)' = Restored(p)
  <2>1. \A o \in OrderIds : Exists(o) => orders'[o].items = orders[o].items
    BY <1>1, <1>2
  <2> QED
    BY <1>4, <2>1, RestoredSame
<1>7. ASSUME NEW p \in Products \ deleted
      PROVE  stock'[p] = InitialStock[p] - Sold(p)' + Restored(p)'
  <2>1. stock'[p] = stock[p] - Total(req[r].items, p)
    BY CommitOrderStock
  <2>2. stock[p] = InitialStock[p] - Sold(p) + Restored(p)
    BY DEF LedgerKept, LedgerBalanced
  <2>3. Sold(p) \in Int /\ Restored(p) \in Int /\ InitialStock[p] \in Int /\ Total(req[r].items, p) \in Int
    BY <1>1, LedgerTypes, BasketFacts, CommandsAssumption
  <2>4. Sold(p)' = Total(req[r].items, p) + Sold(p) /\ Restored(p)' = Restored(p)
    BY <1>5, <1>6
  <2> QED
    BY <2>1, <2>2, <2>3, <2>4
<1> QED
  BY <1>4, <1>7 DEF LedgerBalanced

\* The commit of a cancellation: what it returns is restored from then on.
LEMMA CommitCancelBalances ==
  ASSUME IInv, LedgerKept, NEW c \in Cancels, CommitCancel(c)
  PROVE  LedgerBalanced' /\ SameItems
<1>0. PICK o \in OrderIds : o = creq[c].order
  BY DEF IInv, TypeOK, CancelRequest
<1>1. /\ Exists(o) /\ orders[o] \in Order /\ NoOrder \notin Order
      /\ loaded[c] \in Order /\ loaded[c].items = orders[o].items
  BY <1>0, CommandsAssumption
     DEF CommitCancel, IInv, TypeOK, DbTypeOK, RequestsConsistent, CancelPcs, Done, Exists
<1>2. Saved(c) \in Order /\ Saved(c).items = orders[o].items
  BY <1>0, <1>1, SavedType
<1>3. orders'[o] = Saved(c) /\ \A q \in OrderIds \ {o} : orders'[q] = orders[q]
  BY <1>0 DEF CommitCancel, IInv, TypeOK, DbTypeOK
<1>4. SameItems
  BY <1>1, <1>2, <1>3 DEF SameItems, Exists
<1>5. /\ c \notin Completed /\ Completed' = Completed \cup {c} /\ UNCHANGED <<creq, deleted>>
  BY DEF CommitCancel, Goto, Completed, IInv, TypeOK, Requests
<1>6. \A d \in Completed : creq[d].order \in OrderIds /\ Exists(creq[d].order)
  BY DEF Completed, LedgerKept, IInv, TypeOK, CancelRequest
<1>7. ASSUME NEW p \in Products PROVE Restored(p)' = Total(orders[o].items, p) + Restored(p)
  <2> DEFINE g == Returns(p)'
  <2>1. g = [d \in Completed' |-> Total(orders'[creq[d].order].items, p)]
    BY <1>5 DEF Returns, Total
  <2>2. g[c] = Total(orders[o].items, p) /\ \A d \in Completed : g[d] = Returns(p)[d]
    BY <1>0, <1>1, <1>4, <1>5, <1>6, <2>1 DEF Returns, SameItems, Exists
  <2>3. Total(orders[o].items, p) \in Int
    BY <1>1, BasketFacts DEF Order
  <2>4. IsFiniteSet(Completed) /\ \A d \in Completed : Returns(p)[d] \in Int
    BY LedgerTypes
  <2>5. /\ Restored(p)' = SumFunctionOnSet(g, Completed')
        /\ Restored(p) = SumFunctionOnSet(Returns(p), Completed)
    BY DEF Restored, Returns
  <2> HIDE DEF g
  <2>6. SumFunctionOnSet(g, Completed) = SumFunctionOnSet(Returns(p), Completed)
    BY <2>2, <2>4, SumAgrees
  <2>7. \A d \in Completed : g[d] \in Int
    BY <2>2, <2>4
  <2>8. SumFunctionOnSet(g, Completed \cup {c}) = g[c] + SumFunctionOnSet(g, Completed)
    BY <1>5, <2>2, <2>3, <2>4, <2>7, SumAdd
  <2> QED
    BY <1>5, <2>2, <2>5, <2>6, <2>8
<1>8. ASSUME NEW p \in Products \ deleted
      PROVE  stock'[p] = InitialStock[p] - Sold(p)' + Restored(p)'
  <2>1. stock'[p] = stock[p] + Total(orders[o].items, p)
    <3>1. stock'[p] = IF p \in held[c] THEN writes[c][p] ELSE stock[p]
      BY DEF CommitCancel, CommitStock
    <3>2. p \in held[c] => writes[c][p] = stock[p] + Total(loaded[c].items, p)
      BY DEF IInv, WritesCurrent, CommitCancel
    <3>3. p \notin held[c] => p \notin Wanted(loaded[c].items)
      BY DEF LedgerKept, CommitCancel
    <3>4. loaded[c].items \in Baskets /\ stock[p] \in Int
      BY <1>1 DEF Order, IInv, TypeOK, DbTypeOK
    <3>5. p \notin held[c] => Total(loaded[c].items, p) = 0
      BY <3>3, <3>4, BasketFacts
    <3> QED
      BY <1>1, <3>1, <3>2, <3>4, <3>5
  <2>2. stock[p] = InitialStock[p] - Sold(p) + Restored(p)
    BY DEF LedgerKept, LedgerBalanced
  <2>3. Sold(p) \in Int /\ Restored(p) \in Int /\ InitialStock[p] \in Int /\ Total(orders[o].items, p) \in Int
    BY <1>1, LedgerTypes, BasketFacts, CommandsAssumption DEF Order
  <2>4. Sold(p)' = Sold(p) /\ Restored(p)' = Total(orders[o].items, p) + Restored(p)
    BY <1>4, <1>7, SoldSame
  <2> QED
    BY <2>1, <2>2, <2>3, <2>4
<1> QED
  BY <1>4, <1>5, <1>8 DEF LedgerBalanced

\* Every step of the commands keeps the ledger.
LEMMA NextLedger == IInv /\ LedgerKept /\ [Next]_vars => LedgerKept'
<1> SUFFICES ASSUME IInv, LedgerKept, [Next]_vars PROVE LedgerKept'
  OBVIOUS
<1> DEFINE Holding(c) ==
      /\ pc[c] \in {"diff", "update"} => Wanted(loaded[c].items) \ deleted \subseteq held[c]
      /\ pc[c] = "answered" => Exists(creq[c].order)
<1>0. /\ \A c \in Cancels : Holding(c)
      /\ \A c \in Cancels : creq[c].order \in OrderIds
      /\ pc \in [Requests -> CreatePcs \cup CancelPcs] /\ held \in [Txs -> SUBSET Products]
      /\ loaded \in [Cancels -> Order \cup {NoOrder}]
      /\ Creates \cap Cancels = {} /\ Requests \subseteq Txs /\ Requests = Creates \cup Cancels
  BY CommandsAssumption DEF LedgerKept, IInv, TypeOK, DbTypeOK, CancelRequest, Requests
<1>1. ASSUME LedgerBalanced', \A c \in Cancels : Holding(c)' PROVE LedgerKept'
  BY <1>1 DEF LedgerKept
\* A request that leaves the tables alone, except for locks it gives up.
<1>2. ASSUME NEW t \in Requests, NEW label, Goto(t, label), UNCHANGED <<stock, creq, deleted, orders, loaded>>,
             label \notin {"diff", "update"}, t \in Cancels => label # "answered" /\ pc[t] # "answered",
             held' = held \/ held' = [held EXCEPT ![t] = {}]
      PROVE  LedgerKept'
  <2>1. pc'[t] = label /\ \A s \in Requests \ {t} : pc'[s] = pc[s] /\ held'[s] = held[s]
    BY <1>0, <1>2 DEF Goto
  <2>2. Completed' = Completed
    BY <1>0, <1>2, <2>1 DEF Completed
  <2>3. SameItems
    BY <1>2 DEF SameItems
  <2>4. LedgerBalanced'
    BY <1>2, <2>2, <2>3, BalanceSame
  <2>5. ASSUME NEW c \in Cancels PROVE Holding(c)'
    <3>1. CASE c = t
      BY <1>2, <2>1, <3>1
    <3>2. CASE c # t
      BY <1>0, <1>2, <2>1, <3>2 DEF Exists
    <3> QED
      BY <3>1, <3>2
  <2> QED
    BY <1>1, <2>4, <2>5
<1>3. ASSUME NEW r \in Creates, CommitOrder(r) PROVE LedgerKept'
  <2>1. LedgerBalanced'
    BY <1>3, CommitOrderBalances
  <2>2. /\ \A c \in Cancels : pc'[c] = pc[c] /\ held'[c] = held[c]
        /\ UNCHANGED <<creq, deleted, loaded>>
    BY <1>0, <1>3 DEF CommitOrder, CommitStock, Release, Goto
  <2>3. \A o \in OrderIds : Exists(o) => Exists(o)'
    <3>1. NewOrder(r) \in Order /\ NoOrder \notin Order
      BY NewOrderType, CommandsAssumption DEF IInv, TypeOK
    <3> QED
      BY <1>3, <3>1 DEF CommitOrder, Exists, IInv, TypeOK, DbTypeOK
  <2>4. ASSUME NEW c \in Cancels PROVE Holding(c)'
    BY <1>0, <2>2, <2>3 DEF Exists
  <2> QED
    BY <1>1, <2>1, <2>4
<1>4. ASSUME NEW c \in Cancels, CommitCancel(c) PROVE LedgerKept'
  <2>1. LedgerBalanced' /\ SameItems
    BY <1>4, CommitCancelBalances
  <2>2. /\ pc'[c] = "answered" /\ \A d \in Cancels \ {c} : pc'[d] = pc[d] /\ held'[d] = held[d]
        /\ UNCHANGED <<creq, deleted, loaded>>
    BY <1>0, <1>4 DEF CommitCancel, CommitStock, Release, Goto
  <2>3. Exists(creq[c].order)
    BY <1>4 DEF CommitCancel, IInv, RequestsConsistent, CancelPcs, Done
  <2>4. ASSUME NEW d \in Cancels PROVE Holding(d)'
    BY <1>0, <2>1, <2>2, <2>3 DEF Exists, SameItems
  <2> QED
    BY <1>1, <2>1, <2>4
<1>5. ASSUME NEW t \in Requests, WaitAborted(t) \/ StatementFails(t) \/ Crash(t) PROVE LedgerKept'
  <2>1. pc[t] # "answered"
    BY <1>5 DEF WaitAborted, Waiting, StatementFails, Crash, Done
  <2>2. (Goto(t, "failed") \/ Goto(t, "crashed")) /\ Rollback(t)
    BY <1>5 DEF WaitAborted, StatementFails, Crash
  <2> QED
    BY <1>2, <2>1, <2>2 DEF Rollback, Release
<1>6. ASSUME NEW t \in Requests, LockStep(t) PROVE LedgerKept'
  <2>1. PICK p \in Products : /\ held' = [held EXCEPT ![t] = @ \cup {p}]
                              /\ UNCHANGED <<stock, deleted, orders, pc, creq, loaded>>
    BY <1>6 DEF LockStep, LockProduct, reqVars
  <2>2. \A s \in Requests : held[s] \subseteq held'[s]
    BY <1>0, <2>1
  <2>3. LedgerBalanced'
    BY <2>1, BalanceSame DEF SameItems, Completed
  <2>4. ASSUME NEW c \in Cancels PROVE Holding(c)'
    BY <1>0, <2>1, <2>2 DEF Exists
  <2> QED
    BY <1>1, <2>3, <2>4
<1>7. ASSUME NEW p \in Products, RemoveProduct(p) PROVE LedgerKept'
  <2>1. deleted \subseteq deleted' /\ UNCHANGED <<stock, orders, held, pc, creq, loaded>>
    BY <1>7 DEF RemoveProduct, reqVars
  <2>2. LedgerBalanced'
    BY <2>1, BalanceSame DEF SameItems, Completed
  <2>3. ASSUME NEW c \in Cancels PROVE Holding(c)'
    BY <1>0, <2>1 DEF Exists
  <2> QED
    BY <1>1, <2>2, <2>3
<1>8. ASSUME NEW r \in Creates, CreateStep(r), ~CommitOrder(r) PROVE LedgerKept'
  <2>1. r \in Requests /\ r \notin Cancels
    BY <1>0
  <2>2. \E label : /\ Goto(r, label) /\ UNCHANGED <<stock, creq, deleted, orders, loaded>>
                   /\ label \notin {"diff", "update"}
                   /\ held' = held \/ held' = [held EXCEPT ![r] = {}]
    BY <1>8 DEF CreateStep, ValidateRequest, CheckIdempotency, ValidateExist, DecrementStock,
         InsertOrder, Publish, PublishLost, PublishThrows, HandleConflict, Advance, Fail,
         AnswerWith, Rollback, Release, dbVars
  <2> QED
    BY <1>2, <2>1, <2>2
<1>9. ASSUME NEW c \in Cancels, LoadShallow(c) \/ LoadFull(c) PROVE LedgerKept'
  <2>1. /\ pc[c] \in {"new", "loadFull"}
        /\ Goto(c, "failed") \/ Goto(c, "loadFull") \/ Goto(c, "locking")
        /\ UNCHANGED <<stock, creq, deleted, orders, held>>
        /\ \A d \in Cancels \ {c} : loaded'[d] = loaded[d]
    BY <1>0, <1>9 DEF LoadShallow, LoadFull, Advance, Fail, dbVars
  <2>2. pc'[c] \in {"failed", "loadFull", "locking"} /\ \A d \in Cancels \ {c} : pc'[d] = pc[d]
    BY <1>0, <2>1 DEF Goto
  <2>3. LedgerBalanced'
    BY <2>1, <2>2, BalanceSame DEF SameItems, Completed
  <2>4. ASSUME NEW d \in Cancels PROVE Holding(d)'
    BY <1>0, <2>1, <2>2 DEF Exists
  <2> QED
    BY <1>1, <2>3, <2>4
<1>10. ASSUME NEW c \in Cancels, RestoreStock(c) \/ SaveDiff(c) PROVE LedgerKept'
  <2>1. /\ UNCHANGED <<stock, creq, deleted, orders, held, loaded>>
        /\ pc[c] \in {"locking", "diff"}
        /\ Goto(c, "diff") \/ Goto(c, "update")
    BY <1>10 DEF RestoreStock, AllLocked, SaveDiff, dbVars
  <2>2. Wanted(loaded[c].items) \ deleted \subseteq held[c]
    <3>1. CASE RestoreStock(c)
      <4>1. ToLock(c) = {} /\ c \notin Creates
        BY <1>0, <3>1 DEF RestoreStock, AllLocked
      <4> QED
        BY <4>1 DEF ToLock, ItemsOf
    <3>2. CASE SaveDiff(c)
      BY <1>0, <3>2 DEF SaveDiff
    <3> QED
      BY <1>10, <3>1, <3>2
  <2>3. pc'[c] \in {"diff", "update"} /\ \A d \in Cancels \ {c} : pc'[d] = pc[d]
    BY <1>0, <2>1 DEF Goto
  <2>4. LedgerBalanced'
    BY <2>1, <2>3, BalanceSame DEF SameItems, Completed
  <2>5. ASSUME NEW d \in Cancels PROVE Holding(d)'
    BY <1>0, <2>1, <2>2, <2>3 DEF Exists
  <2> QED
    BY <1>1, <2>4, <2>5
<1>11. CASE UNCHANGED vars
  <2>1. UNCHANGED <<stock, deleted, orders, held, pc, creq, loaded>>
    BY <1>11 DEF vars, dbVars, reqVars
  <2>2. LedgerBalanced'
    BY <2>1, BalanceSame DEF SameItems, Completed
  <2>3. ASSUME NEW c \in Cancels PROVE Holding(c)'
    BY <1>0, <2>1 DEF Exists
  <2> QED
    BY <1>1, <2>2, <2>3
<1> QED
  BY <1>3, <1>4, <1>5, <1>6, <1>7, <1>8, <1>9, <1>10, <1>11 DEF Next, CancelStep

\* The ledger is balanced before the first request.
LEMMA InitLedger == Init => LedgerKept
<1> SUFFICES ASSUME Init PROVE LedgerKept
  OBVIOUS
<1>1. \A c \in Cancels : pc[c] = "new"
  BY DEF Init, Requests
<1>2. Placed = {} /\ Completed = {}
  BY <1>1 DEF Placed, Completed, Exists, Init
<1>3. \A p \in Products : Sold(p) = 0 /\ Restored(p) = 0
  BY <1>2, SumEmpty DEF Sold, Restored
<1>4. LedgerBalanced
  BY <1>3, CommandsAssumption DEF LedgerBalanced, Init
<1> QED
  BY <1>1, <1>4 DEF LedgerKept

\* For every number of products, orders and cancellations, whatever waits,
\* aborts or crashes: the stock of a product that is not soft-deleted is the
\* initial one less all committed orders plus all completed cancellations
\* (decrementStock, restoreStock, saveProducts).
THEOREM LedgerAlwaysBalanced == Spec => []LedgerBalanced
<1>1. LedgerKept => LedgerBalanced
  BY DEF LedgerKept
<1> QED
  BY <1>1, InitLedger, NextLedger, IInvIsInvariant, PTL DEF Spec

-----------------------------------------------------------------------------
(* The commands: idempotency keys *)

\* The step neither adds nor removes an order, nor changes a key.
SameOrderKeys ==
  \A o \in OrderIds : /\ orders'[o] = NoOrder <=> orders[o] = NoOrder
                      /\ orders[o] # NoOrder => orders'[o].key = orders[o].key

\* No creation request passes the insert or commits, and one that is answered
\* is answered with an order that has its key.
QuietRequests ==
  \A r \in Creates :
    /\ pc'[r] \in {"inserted", "publish"} => pc[r] = pc'[r]
    /\ pc'[r] = "answered" =>
         \/ pc[r] = "answered" /\ answer'[r] = answer[r]
         \/ /\ answer'[r] \in OrderIds /\ orders[answer'[r]] # NoOrder
            /\ orders[answer'[r]].key = req[r].key

\* Such a step keeps KeysConsistent.
LEMMA KeysKept ==
  ASSUME IInv, KeysConsistent, UNCHANGED req, SameOrderKeys, QuietRequests,
         published' = published
           \/ \E o \in OrderIds : Exists(o) /\ published' = published \cup {o}
  PROVE  KeysConsistent'
<1>1. published \subseteq OrderIds
  BY DEF IInv, TypeOK
<1>3. ASSUME NEW r \in Creates, pc'[r] = "answered"
      PROVE  answer'[r] \in OrderIds /\ Exists(answer[r])' /\ orders'[answer'[r]].key = req'[r].key
  <2>1. /\ answer'[r] \in OrderIds /\ Exists(answer'[r])
        /\ orders[answer'[r]].key = req[r].key
    BY <1>3 DEF KeysConsistent, Exists, QuietRequests
  <2> QED
    BY <2>1 DEF Exists, SameOrderKeys
<1>4. PublishedIsCommitted'
  BY <1>1 DEF KeysConsistent, PublishedIsCommitted, Exists, SameOrderKeys
<1>5. ASSUME NEW o \in OrderIds, NEW q \in OrderIds,
             Exists(o)', Exists(q)', orders'[o].key = orders'[q].key, orders'[o].key # NoKey
      PROVE  o = q
  BY <1>5 DEF KeysConsistent, Exists, SameOrderKeys
<1>6. ASSUME NEW r \in Creates, pc'[r] = "inserted", req'[r].key # NoKey
      PROVE  /\ WithKey(req[r].key)' = {}
             /\ \A q \in Creates \ {r} : pc'[q] = "inserted" => req'[q].key # req'[r].key
  <2>1. WithKey(req[r].key) = {}
    BY <1>6 DEF KeysConsistent, QuietRequests
  <2>2. WithKey(req[r].key)' = {}
    BY <2>1 DEF WithKey, Exists, SameOrderKeys
  <2> QED
    BY <1>6, <2>2 DEF KeysConsistent, QuietRequests
<1>7. ASSUME NEW r \in Creates
      PROVE  /\ pc'[r] = "publish" => Exists(r)'
             /\ Exists(r)' => orders'[r].key = req'[r].key
  BY DEF KeysConsistent, Creates, Exists, SameOrderKeys, QuietRequests
<1> QED
  BY <1>3, <1>4, <1>5, <1>6, <1>7 DEF KeysConsistent

\* The unique index: an insert passes only when no committed order and no
\* other open transaction has its key.
LEMMA InsertKeepsKeys ==
  ASSUME IInv, KeysConsistent, NEW r \in Creates, InsertOrder(r)
  PROVE  KeysConsistent'
<1> USE CommandsAssumption
<1>1. r \in Requests
  BY DEF Requests
<1>2. CASE Goto(r, "conflict") /\ Rollback(r)
  <2>1. \A q \in Creates : q # r => pc'[q] = pc[q]
    BY <1>2 DEF Goto, IInv, TypeOK, Requests
  <2>2. pc'[r] = "conflict"
    BY <1>1, <1>2 DEF Goto, IInv, TypeOK
  <2>3. UNCHANGED <<orders, req, answer, published>>
    BY <1>2 DEF Rollback
  <2> QED
    BY <2>1, <2>2, <2>3, KeysKept DEF Exists, SameOrderKeys, QuietRequests
<1>3. CASE ~KeyTaken(r) /\ Advance(r, "inserted")
  <2>1. \A q \in Creates : q # r => pc'[q] = pc[q]
    BY <1>3 DEF Advance, Goto, IInv, TypeOK, Requests
  <2>2. UNCHANGED <<orders, req, answer, published>> /\ pc'[r] = "inserted"
    BY <1>1, <1>3 DEF Advance, Goto, dbVars, IInv, TypeOK
  <2>3. req[r].key # NoKey => /\ WithKey(req[r].key) = {}
                              /\ \A q \in Creates \ {r} : pc[q] = "inserted" => req[q].key # req[r].key
    BY <1>3 DEF InsertOrder, KeyTaken, KeyBusy
  <2>4. ASSUME NEW q \in Creates, pc'[q] = "inserted", req[q].key # NoKey
        PROVE  /\ WithKey(req[q].key) = {}
               /\ \A s \in Creates \ {q} : pc'[s] = "inserted" => req[s].key # req[q].key
    BY <2>1, <2>3, <2>4 DEF KeysConsistent
  <2>5. \A q \in Creates : pc'[q] \in {"publish", "answered"} => pc[q] = pc'[q]
    BY <2>1, <2>2
  <2> QED
    BY <2>2, <2>4, <2>5 DEF KeysConsistent, PublishedIsCommitted, Exists, WithKey
<1> QED
  BY <1>2, <1>3 DEF InsertOrder

\* The commit of an order makes its key taken; no one else has it.
LEMMA CommitKeepsKeys ==
  ASSUME IInv, KeysConsistent, NEW r \in Creates, CommitOrder(r)
  PROVE  KeysConsistent'
<1> USE CommandsAssumption
<1>1. r \in Requests /\ r \in OrderIds /\ pc[r] = "inserted"
  BY DEF Requests, Creates, CommitOrder
<1>2. /\ \A q \in Creates : q # r => pc'[q] = pc[q]
      /\ pc'[r] = "publish"
      /\ UNCHANGED <<req, answer, published>>
  BY <1>1 DEF CommitOrder, Goto, IInv, TypeOK, Requests
<1>3. /\ orders'[r] = NewOrder(r)
      /\ \A o \in OrderIds : o # r => orders'[o] = orders[o]
  BY <1>1 DEF CommitOrder, IInv, TypeOK, DbTypeOK
<1>4. NewOrder(r) # NoOrder /\ NewOrder(r).key = req[r].key
  BY NewOrderType DEF NewOrder, IInv, TypeOK
<1>5. ~Exists(r)
  BY <1>1 DEF IInv, RowOnlyAfterCommit, CreatePcs, Done
<1>6. req[r].key # NoKey => \A o \in OrderIds : Exists(o) => orders[o].key # req[r].key
  BY <1>1 DEF KeysConsistent, WithKey
<1>7. ASSUME NEW o \in OrderIds, NEW q \in OrderIds,
             Exists(o)', Exists(q)', orders'[o].key = orders'[q].key, orders'[o].key # NoKey
      PROVE  o = q
  BY <1>3, <1>4, <1>6, <1>7 DEF KeysConsistent, Exists
<1>8. ASSUME NEW q \in Creates, pc'[q] = "inserted", req'[q].key # NoKey
      PROVE  /\ WithKey(req[q].key)' = {}
             /\ \A s \in Creates \ {q} : pc'[s] = "inserted" => req'[s].key # req'[q].key
  <2>1. q # r /\ pc[q] = "inserted"
    BY <1>2, <1>8
  <2>2. req[q].key # req[r].key /\ WithKey(req[q].key) = {}
    BY <1>1, <1>2, <1>8, <2>1 DEF KeysConsistent
  <2>3. \A o \in OrderIds : ~(Exists(o)' /\ orders'[o].key = req'[q].key)
    BY <1>2, <1>3, <1>4, <2>2 DEF WithKey, Exists
  <2>4. WithKey(req[q].key)' = {}
    BY <2>3 DEF WithKey
  <2>5. \A s \in Creates \ {q} : pc'[s] = "inserted" => req'[s].key # req'[q].key
    BY <1>2, <1>8, <2>1 DEF KeysConsistent
  <2> QED
    BY <2>4, <2>5
<1>9. ASSUME NEW q \in Creates
      PROVE  /\ pc'[q] = "publish" => Exists(q)'
             /\ Exists(q)' => orders'[q].key = req'[q].key
  BY <1>2, <1>3, <1>4 DEF KeysConsistent, Exists, Creates
<1>10. ASSUME NEW q \in Creates, pc'[q] = "answered"
       PROVE  answer'[q] \in OrderIds /\ Exists(answer[q])' /\ orders'[answer'[q]].key = req'[q].key
  <2>1. q # r /\ answer[q] \in OrderIds /\ Exists(answer[q]) /\ orders[answer[q]].key = req[q].key
    BY <1>2, <1>10 DEF KeysConsistent
  <2>2. answer[q] # r
    BY <1>5, <2>1
  <2> QED
    BY <1>2, <1>3, <2>1, <2>2 DEF Exists
<1>11. PublishedIsCommitted'
  BY <1>2, <1>3, <1>4 DEF KeysConsistent, PublishedIsCommitted, Exists, IInv, TypeOK
<1> QED
  BY <1>7, <1>8, <1>9, <1>10, <1>11 DEF KeysConsistent

\* Every step keeps the relation between keys, orders and answers.
LEMMA NextKeys == IInv /\ KeysConsistent /\ [Next]_vars => KeysConsistent'
<1> SUFFICES ASSUME IInv, KeysConsistent, [Next]_vars PROVE KeysConsistent'
  OBVIOUS
<1> USE CommandsAssumption
\* Steps that leave the orders alone and move one request to a label that
\* carries no obligation.
<1>1. ASSUME NEW t \in Requests, NEW label \in CreatePcs \cup CancelPcs,
             label \notin {"inserted", "publish", "answered"},
             Goto(t, label), UNCHANGED <<orders, req, answer, published>>
      PROVE  KeysConsistent'
  <2>1. \A q \in Creates : pc'[q] = pc[q] \/ pc'[q] = label
    BY <1>1 DEF Goto, IInv, TypeOK, Requests
  <2> QED
    BY <1>1, <2>1, KeysKept DEF Exists, SameOrderKeys, QuietRequests
<1>2. ASSUME NEW r \in Creates, NEW o \in OrderIds, Exists(o), orders[o].key = req[r].key,
             AnswerWith(r, o)
      PROVE  KeysConsistent'
  <2>1. UNCHANGED <<orders, req, published>>
    BY <1>2 DEF AnswerWith, dbVars
  <2>2. answer'[r] = o /\ \A q \in Creates : q # r => pc'[q] = pc[q] /\ answer'[q] = answer[q]
    BY <1>2 DEF AnswerWith, Goto, IInv, TypeOK, Requests
  <2>3. pc'[r] = "answered"
    BY <1>2 DEF AnswerWith, Goto, IInv, TypeOK, Requests
  <2> QED
    BY <1>2, <2>1, <2>2, <2>3, KeysKept DEF Exists, SameOrderKeys, QuietRequests
<1>3. ASSUME NEW r \in Creates, CreateStep(r) PROVE KeysConsistent'
  <2>1. r \in Requests /\ r \in OrderIds
    BY DEF Requests, Creates
  <2>2. CASE ValidateRequest(r) \/ ValidateExist(r) \/ PublishThrows(r)
    BY <1>1, <2>1, <2>2 DEF ValidateRequest, ValidateExist, PublishThrows, Advance, Fail, dbVars, CreatePcs, Done
  <2>3. CASE CheckIdempotency(r)
    <3>1. CASE Advance(r, "precheck")
      BY <1>1, <2>1, <3>1 DEF Advance, dbVars, CreatePcs
    <3>2. CASE \E o \in WithKey(req[r].key) : AnswerWith(r, o)
      BY <1>2, <3>2 DEF WithKey
    <3> QED
      BY <2>3, <3>1, <3>2 DEF CheckIdempotency
  <2>4. CASE DecrementStock(r)
    BY <1>1, <2>1, <2>4 DEF DecrementStock, Rollback, dbVars, CreatePcs, Done
  <2>5. CASE HandleConflict(r)
    <3>1. CASE Fail(r)
      BY <1>1, <2>1, <3>1 DEF Fail, dbVars, CreatePcs, Done
    <3>2. CASE \E o \in WithKey(req[r].key) : AnswerWith(r, o)
      BY <1>2, <3>2 DEF WithKey
    <3> QED
      BY <2>5, <3>1, <3>2 DEF HandleConflict
  <2>6. CASE PublishLost(r)
    BY <1>2, <2>1, <2>6 DEF PublishLost, KeysConsistent
  <2>7. CASE Publish(r)
    <3>1. UNCHANGED <<orders, req>> /\ published' = published \cup {r} /\ Exists(r) /\ orders[r].key = req[r].key
      BY <2>7 DEF Publish, dbVars, KeysConsistent
    <3>2. /\ answer'[r] = r /\ pc'[r] = "answered"
          /\ \A q \in Creates : q # r => pc'[q] = pc[q] /\ answer'[q] = answer[q]
      BY <2>1, <2>7 DEF Publish, Goto, IInv, TypeOK, Requests
    <3> QED
      BY <2>1, <3>1, <3>2, KeysKept DEF Exists, SameOrderKeys, QuietRequests
  <2> QED
    BY <1>3, <2>2, <2>3, <2>4, <2>5, <2>6, <2>7, InsertKeepsKeys, CommitKeepsKeys DEF CreateStep
<1>4. ASSUME NEW c \in Cancels, CancelStep(c) PROVE KeysConsistent'
  <2>1. c \in Requests /\ c \notin Creates
    BY DEF Requests
  <2>2. CASE ~CommitCancel(c)
    BY <1>1, <1>4, <2>1, <2>2 DEF CancelStep, LoadShallow, LoadFull, RestoreStock, SaveDiff,
         Advance, Fail, dbVars, CancelPcs, Done
  <2>3. CASE CommitCancel(c)
    <3>1. /\ creq[c].order \in OrderIds /\ orders[creq[c].order] \in Order
          /\ loaded[c] \in Order
      BY <2>3 DEF CommitCancel, IInv, TypeOK, DbTypeOK, CancelRequest, RequestsConsistent,
           CancelPcs, Done, Exists
    <3>2. Saved(c) \in Order /\ Saved(c).key = orders[creq[c].order].key
      BY <3>1, SavedType DEF Saved, Entity, Order, OrderStatus
    <3>3. SameOrderKeys
      BY <2>3, <3>1, <3>2 DEF SameOrderKeys, CommitCancel, IInv, TypeOK, DbTypeOK
    <3>4. UNCHANGED <<req, published>>
      BY <2>3 DEF CommitCancel
    <3>5. \A q \in Creates : pc'[q] = pc[q] /\ answer'[q] = answer[q]
      BY <2>1, <2>3 DEF CommitCancel, Goto, IInv, TypeOK, Requests
    <3>6. QuietRequests
      BY <3>5 DEF QuietRequests
    <3> QED
      BY <3>3, <3>4, <3>6, KeysKept
  <2> QED
    BY <2>2, <2>3
<1>5. ASSUME NEW t \in Requests, WaitAborted(t) \/ StatementFails(t) \/ Crash(t)
      PROVE  KeysConsistent'
  BY <1>1, <1>5 DEF WaitAborted, StatementFails, Crash, Rollback, CreatePcs, Done
<1>6. ASSUME UNCHANGED <<orders, reqVars>> PROVE KeysConsistent'
  BY <1>6 DEF reqVars, KeysConsistent, PublishedIsCommitted, Exists, WithKey
<1> QED
  BY <1>3, <1>4, <1>5, <1>6 DEF Next, LockStep, LockProduct, RemoveProduct, vars, dbVars

\* Keys, orders and answers stay related (checkIdempotency, the unique index).
LEMMA KeysInvariant == Spec => []KeysConsistent
<1>1. Init => KeysConsistent
  BY CommandsAssumption DEF Init, KeysConsistent, PublishedIsCommitted, Exists, Creates, Requests, WithKey
<1> QED
  BY <1>1, NextKeys, IInvIsInvariant, PTL DEF Spec

\* Any number of requests with one idempotency key that are answered with an
\* order are answered with the same order (checkIdempotency, the unique
\* index, handleCreationError).
THEOREM IdempotentCreation == Spec => []SameKeySameOrder
<1>1. KeysConsistent => SameKeySameOrder
  BY DEF KeysConsistent, SameKeySameOrder
<1> QED
  BY <1>1, KeysInvariant, PTL

\* The worker never receives a message for an order it cannot read
\* (publishOrderProcessing after executeOrderTransaction).
THEOREM PublishAfterCommit == Spec => []PublishedIsCommitted
<1>1. KeysConsistent => PublishedIsCommitted
  BY DEF KeysConsistent
<1> QED
  BY <1>1, KeysInvariant, PTL

-----------------------------------------------------------------------------
(* The commands: the order lifecycle *)

\* A step that writes one row moves the status of that order only.
LEMMA RowStatus ==
  ASSUME TypeOK, NEW o \in OrderIds, NEW row \in Order,
         orders' = [orders EXCEPT ![o] = row]
  PROVE  StatusOf' = [StatusOf EXCEPT ![o] = row.status]
<1>1. orders \in [OrderIds -> Order \cup {NoOrder}]
  BY DEF TypeOK, DbTypeOK
<1>2. orders'[o] = row /\ row # NoOrder /\ \A q \in OrderIds \ {o} : orders'[q] = orders[q]
  BY <1>1, CommandsAssumption
<1>3. StatusOf' = [q \in OrderIds |-> IF orders'[q] # NoOrder THEN orders'[q].status ELSE "ABSENT"]
  BY DEF StatusOf, Exists
<1>4. \A q \in OrderIds : StatusOf'[q] = IF q = o THEN row.status ELSE StatusOf[q]
  BY <1>2, <1>3 DEF StatusOf, Exists
<1> QED
  BY <1>3, <1>4 DEF StatusOf, Exists

\* The commits of createOrder and cancelOrder are the only steps that write
\* orders: the first one places an order as PENDING, the second one leaves the
\* status or makes it CANCELLED.
LEMMA OrderWrites ==
  ASSUME IInv, [Next]_vars, orders' # orders
  PROVE  \/ \E r \in Creates : /\ ~Exists(r) /\ NewOrder(r) \in Order
                               /\ orders' = [orders EXCEPT ![r] = NewOrder(r)]
         \/ \E c \in Cancels : /\ Exists(creq[c].order) /\ creq[c].order \in OrderIds
                               /\ Saved(c) \in Order
                               /\ Saved(c).status \in {orders[creq[c].order].status, "CANCELLED"}
                               /\ orders' = [orders EXCEPT ![creq[c].order] = Saved(c)]
<1>1. \/ \E r \in Creates : CommitOrder(r)
      \/ \E c \in Cancels : CommitCancel(c)
  BY DEF Next, vars, dbVars, CreateStep, CancelStep, LockStep, LockProduct, ValidateRequest,
     CheckIdempotency, ValidateExist, DecrementStock, InsertOrder, Publish, PublishLost,
     PublishThrows, HandleConflict, LoadShallow, LoadFull, RestoreStock, SaveDiff, WaitAborted,
     StatementFails, Crash, RemoveProduct, Rollback, Fail, Advance, AnswerWith
<1>2. ASSUME NEW r \in Creates, CommitOrder(r)
      PROVE  /\ ~Exists(r) /\ NewOrder(r) \in Order
             /\ orders' = [orders EXCEPT ![r] = NewOrder(r)]
  <2>1. ~Exists(r)
    BY <1>2 DEF CommitOrder, IInv, RowOnlyAfterCommit, CreatePcs, Done
  <2> QED
    BY <1>2, <2>1, NewOrderType DEF CommitOrder, IInv, TypeOK
<1>3. ASSUME NEW c \in Cancels, CommitCancel(c)
      PROVE  /\ Exists(creq[c].order) /\ creq[c].order \in OrderIds
             /\ Saved(c) \in Order
             /\ Saved(c).status \in {orders[creq[c].order].status, "CANCELLED"}
             /\ orders' = [orders EXCEPT ![creq[c].order] = Saved(c)]
  <2>1. /\ creq[c].order \in OrderIds /\ orders[creq[c].order] \in Order
        /\ loaded[c] \in Order /\ Exists(creq[c].order)
    BY <1>3 DEF CommitCancel, IInv, TypeOK, DbTypeOK, CancelRequest, RequestsConsistent,
         CancelPcs, Done, Exists
  <2>2. Saved(c) \in Order /\ Saved(c).status \in {orders[creq[c].order].status, "CANCELLED"}
    BY <2>1, SavedType DEF Saved, Entity, Order, OrderStatus
  <2> QED
    BY <1>3, <2>1, <2>2 DEF CommitCancel
<1> QED
  BY <1>1, <1>2, <1>3

\* No order ever has the legacy status CREATED, so every existing order can be
\* cancelled until it is (cancelOrder).
LEMMA NeverCreatedInvariant == Spec => []NeverCreated
<1>1. Init => NeverCreated
  BY DEF Init, NeverCreated, Exists
<1>2. IInv /\ NeverCreated /\ [Next]_vars => NeverCreated'
  <2> SUFFICES ASSUME IInv, NeverCreated, [Next]_vars
               PROVE  NeverCreated'
    OBVIOUS
  <2>1. orders \in [OrderIds -> Order \cup {NoOrder}]
    BY DEF IInv, TypeOK, DbTypeOK
  <2>2. CASE UNCHANGED orders
    BY <2>2 DEF NeverCreated, Exists
  <2>3. ASSUME NEW r \in Creates, orders' = [orders EXCEPT ![r] = NewOrder(r)]
        PROVE  NeverCreated'
    BY <2>1, <2>3 DEF NeverCreated, Exists, NewOrder, Creates
  <2>4. ASSUME NEW c \in Cancels, Exists(creq[c].order), creq[c].order \in OrderIds,
               Saved(c).status \in {orders[creq[c].order].status, "CANCELLED"},
               orders' = [orders EXCEPT ![creq[c].order] = Saved(c)]
        PROVE  NeverCreated'
    BY <2>1, <2>4 DEF NeverCreated, Exists
  <2> QED
    BY <2>2, <2>3, <2>4, OrderWrites
<1> QED
  BY <1>1, <1>2, IInvIsInvariant, PTL DEF Spec

\* Every step of the command side is a step of the lifecycle or leaves it alone.
LEMMA NextLifecycle ==
  ASSUME IInv, NeverCreated, [Next]_vars
  PROVE  [Lifecycle!Next]_StatusOf
<1>0. TypeOK /\ orders \in [OrderIds -> Order \cup {NoOrder}]
  BY DEF IInv, TypeOK, DbTypeOK
<1>1. CASE UNCHANGED orders
  BY <1>1 DEF StatusOf, Exists
<1>2. ASSUME NEW r \in Creates, ~Exists(r), NewOrder(r) \in Order,
             orders' = [orders EXCEPT ![r] = NewOrder(r)]
      PROVE  Lifecycle!Next
  <2>1. r \in OrderIds /\ NewOrder(r).status = "PENDING"
    BY DEF Creates, NewOrder
  <2>2. StatusOf[r] = "ABSENT"
    BY <1>2, <2>1 DEF StatusOf
  <2>3. Lifecycle!Place(r)
    BY <1>0, <1>2, <2>1, <2>2, RowStatus DEF Lifecycle!Place, Lifecycle!Move, Lifecycle!Absent
  <2> QED
    BY <2>1, <2>3 DEF Lifecycle!Next
<1>3. ASSUME NEW c \in Cancels, Exists(creq[c].order), creq[c].order \in OrderIds,
             Saved(c) \in Order,
             Saved(c).status \in {orders[creq[c].order].status, "CANCELLED"},
             orders' = [orders EXCEPT ![creq[c].order] = Saved(c)]
      PROVE  [Lifecycle!Next]_StatusOf
  <2> DEFINE o == creq[c].order
  <2>1. StatusOf' = [StatusOf EXCEPT ![o] = Saved(c).status]
    BY <1>0, <1>3, RowStatus
  <2>2. StatusOf[o] = orders[o].status
    BY <1>3 DEF StatusOf
  <2>3. StatusOf[o] \in {"PENDING", "PROCESSED", "PAID", "CANCELLED"}
    BY <1>0, <1>3, <2>2 DEF NeverCreated, Exists, Order, OrderStatus
  <2>4. CASE Saved(c).status = orders[o].status
    BY <2>1, <2>2, <2>4 DEF StatusOf
  <2>5. CASE Saved(c).status = "CANCELLED" /\ Saved(c).status # orders[o].status
    <3>1. Lifecycle!Cancel(o)
      BY <2>1, <2>2, <2>3, <2>5 DEF Lifecycle!Cancel, Lifecycle!Move
    <3> QED
      BY <1>3, <3>1 DEF Lifecycle!Next
  <2> QED
    BY <1>3, <2>4, <2>5
<1> QED
  BY <1>1, <1>2, <1>3, OrderWrites

\* Creation and cancellation, without the worker, implement the order lifecycle.
THEOREM CommandsFollowLifecycle == Spec => FollowsLifecycle
<1>1. Init => Lifecycle!Init
  BY DEF Init, Lifecycle!Init, Lifecycle!Absent, StatusOf, Exists
<1> QED
  BY <1>1, IInvIsInvariant, NeverCreatedInvariant, NextLifecycle, PTL
     DEF Spec, FollowsLifecycle, Lifecycle!Spec

-----------------------------------------------------------------------------
(* The system: what a step of one side leaves to the other *)

\* A step that keeps every order's existence, key and items and touches no
\* request keeps the invariants of the command side.
LEMMA CommandsUndisturbed ==
  ASSUME IInv, KeysConsistent, UNCHANGED <<stock, inactive, deleted, held, reqVars>>,
         orders' \in [OrderIds -> Order \cup {NoOrder}],
         \A o \in OrderIds :
           /\ orders'[o] = NoOrder <=> orders[o] = NoOrder
           /\ orders[o] # NoOrder => /\ orders'[o].key = orders[o].key
                                     /\ orders'[o].items = orders[o].items
  PROVE  IInv' /\ KeysConsistent'
<1> USE DEF reqVars
<1>1. TypeOK'
  BY DEF IInv, TypeOK, DbTypeOK
<1>2. LocksExclusive'
  BY DEF IInv, LocksExclusive
<1>3. \A c \in Cancels : creq[c].order \in OrderIds
  BY DEF IInv, TypeOK, CancelRequest
<1>4. RequestsConsistent'
  <2>1. ASSUME NEW c \in Cancels, pc[c] \in {"locking", "diff", "update"}
        PROVE  Exists(creq[c].order)
    BY <2>1 DEF IInv, RequestsConsistent, CancelPcs, Done
  <2> QED
    BY <1>3, <2>1 DEF IInv, RequestsConsistent, Exists
<1>5. RowOnlyAfterCommit'
  BY DEF IInv, RowOnlyAfterCommit, Exists, Creates
<1>6. WritesCurrent' /\ (NoRepeats => StockNeverNegative')
  BY DEF IInv, WritesCurrent, StockNeverNegative
<1>7. IInv'
  BY <1>1, <1>2, <1>4, <1>5, <1>6 DEF IInv
<1>8. SameOrderKeys
  BY DEF SameOrderKeys
<1>9. QuietRequests
  BY DEF QuietRequests
<1>10. KeysConsistent'
  BY <1>8, <1>9, KeysKept
<1> QED
  BY <1>7, <1>10

\* While the orders stay as they are and no further payment may be recorded,
\* the copies of the rows stay harmless.
LEMMA RowsUntouched ==
  ASSUME SysIInv, UNCHANGED <<orders, pc, creq, loaded, dirty>>, payments \subseteq payments',
         \A o \in OrderIds : MayRecord(o)' => MayRecord(o)
  PROVE  NoPaymentYet' /\ StaleSavesHarmless' /\ PaidRowHasPayment'
<1>1. NoPaymentYet'
  BY DEF SysIInv, NoPaymentYet, Holds, Exists
<1>2. StaleSavesHarmless'
  BY DEF SysIInv, StaleSavesHarmless
<1>3. PaidRowHasPayment'
  BY DEF SysIInv, PaidRowHasPayment, W!PaidHasPayment, W!Exists
<1> QED
  BY <1>1, <1>2, <1>3

\* A handler past the broker has a published order, which has a row.
LEMMA HandledOrder ==
  ASSUME SysIInv, NEW w \in Workers, at[w] # "idle"
  PROVE  /\ W!OrderOf(w) \in OrderIds /\ W!OrderOf(w) \in published
         /\ Exists(W!OrderOf(w)) /\ orders[W!OrderOf(w)] \in Order
         /\ msg[w] \in W!Messages /\ msg[w].kind = "order"
<1>1. msg[w].kind = "order" /\ msg[w].order \in published /\ msg[w] \in W!Messages
  BY DEF SysIInv, MessagesPublished, HandlerTypes
<1>2. published \subseteq OrderIds /\ orders \in [OrderIds -> Order \cup {NoOrder}]
  BY DEF SysIInv, IInv, TypeOK, DbTypeOK
<1>3. Exists(msg[w].order)
  BY <1>1 DEF SysIInv, KeysConsistent, PublishedIsCommitted
<1> QED
  BY <1>1, <1>2, <1>3 DEF W!OrderOf, Exists

-----------------------------------------------------------------------------
(* The system: messages *)

\* The copies a handler publishes are messages of the order it handles.
LEMMA CopyFacts ==
  ASSUME SysIInv, NEW w \in Workers
  PROVE  /\ W!NoMsg \in W!Messages
         /\ W!MayRetry(w) => /\ W!RetryCopy(w) \in W!Messages
                             /\ W!RetryCopy(w).kind = msg[w].kind
                             /\ W!RetryCopy(w).order = msg[w].order
<1>1. msg[w] \in W!Messages
  BY DEF SysIInv, HandlerTypes
<1>2. W!Attempt(w) \in 0..MaxAttempts
  BY <1>1, SystemAssumption DEF W!Attempt, W!Messages
<1>3. W!MayRetry(w) => W!Attempt(w) + 1 \in 0..MaxAttempts
  BY <1>2, SystemAssumption DEF W!MayRetry
<1>4. W!NoMsg \in W!Messages
  BY SystemAssumption DEF W!Messages, W!NoMsg, W!Kinds
<1> QED
  BY <1>1, <1>2, <1>3, <1>4 DEF W!Messages, W!RetryCopy

\* One more copy of a message in the queue.
LEMMA AddFacts ==
  ASSUME NEW q \in [W!Messages -> Nat], NEW m \in W!Messages
  PROVE  /\ W!Add(q, m) \in [W!Messages -> Nat]
         /\ \A n \in W!Messages : W!Add(q, m)[n] > 0 => q[n] > 0 \/ n = m
  BY DEF W!Add

\* Every step of the worker keeps the types it needs, and its messages are
\* messages of published orders.
LEMMA WorkerMessages ==
  ASSUME SysIInv, WorkerStep
  PROVE  HandlerTypes' /\ MessagesPublished'
<1> USE DEF W!dbVars, W!brokerVars, reqVars
<1>0. /\ HandlerTypes /\ MessagesPublished /\ UNCHANGED published
      /\ at \in [Workers -> W!Labels] /\ msg \in [Workers -> W!Messages]
      /\ queue \in [W!Messages -> Nat]
      /\ entity \in [Workers -> Order \cup {NoOrder}]
      /\ processed \subseteq OrderIds /\ calls \in [OrderIds -> Nat]
      /\ orders \in [OrderIds -> Order \cup {NoOrder}]
  BY DEF SysIInv, HandlerTypes, WorkerStep, IInv, TypeOK, DbTypeOK
\* A handler that moves on with its message.
<1>1. ASSUME NEW w \in Workers, NEW label \in W!Labels, W!Step(w, label), at[w] # "idle",
             UNCHANGED <<queue, msg>>,
             entity' \in [Workers -> Order \cup {NoOrder}],
             processed' \in {processed, processed \cup {W!OrderOf(w)}},
             calls' \in [OrderIds -> Nat]
      PROVE  HandlerTypes' /\ MessagesPublished'
  <2>1. W!OrderOf(w) \in OrderIds /\ W!OrderOf(w) \in published
    BY <1>1, HandledOrder
  <2>2. \A v \in Workers : at'[v] # "idle" => at[v] # "idle"
    BY <1>0, <1>1 DEF W!Step
  <2>3. HandlerTypes'
    BY <1>0, <1>1, <2>1 DEF HandlerTypes, W!Step
  <2>4. MessagesPublished'
    BY <1>0, <1>1, <2>1, <2>2 DEF MessagesPublished
  <2> QED
    BY <2>3, <2>4
\* A handler that ends; the broker may have taken its message back.
<1>2. ASSUME NEW w \in Workers, W!Finish(w), queue' \in {queue, W!Requeued(w)},
             UNCHANGED <<processed, calls>>
      PROVE  HandlerTypes' /\ MessagesPublished'
  <2>1. \/ queue' = queue
        \/ at[w] # "idle" /\ queue' = W!Add(queue, msg[w])
    BY <1>2 DEF W!Requeued
  <2>2. queue' \in [W!Messages -> Nat]
    BY <1>0, <2>1, AddFacts
  <2>3. HandlerTypes'
    BY <1>0, <1>2, <2>2, CopyFacts DEF HandlerTypes, W!Finish, W!Labels
  <2>4. \A m \in W!Messages : queue'[m] > 0 => queue[m] > 0 \/ (at[w] # "idle" /\ m = msg[w])
    BY <1>0, <2>1, AddFacts
  <2>5. \A v \in Workers : at'[v] # "idle" => at[v] # "idle" /\ msg'[v] = msg[v]
    BY <1>0, <1>2 DEF W!Finish
  <2>6. MessagesPublished'
    BY <1>0, <1>2, <2>4, <2>5 DEF MessagesPublished
  <2> QED
    BY <2>3, <2>6
<1>3. ASSUME NEW w \in Workers, NEW m \in W!Messages, W!Deliver(w, m)
      PROVE  HandlerTypes' /\ MessagesPublished'
  <2>1. /\ queue[m] > 0 /\ queue' = [queue EXCEPT ![m] = @ - 1]
        /\ at' = [at EXCEPT ![w] = "parse"] /\ msg' = [msg EXCEPT ![w] = m]
        /\ UNCHANGED <<entity, processed, calls>>
    BY <1>3 DEF W!Deliver, W!Step
  <2>2. queue' \in [W!Messages -> Nat] /\ \A n \in W!Messages : queue'[n] > 0 => queue[n] > 0
    BY <1>0, <2>1
  <2>3. HandlerTypes'
    BY <1>0, <2>1, <2>2 DEF HandlerTypes, W!Labels
  <2>4. m.kind = "order" /\ m.order \in published
    BY <1>0, <2>1 DEF MessagesPublished
  <2>5. MessagesPublished'
    BY <1>0, <2>1, <2>2, <2>4 DEF MessagesPublished
  <2> QED
    BY <2>3, <2>5
<1>4. ASSUME NEW w \in Workers, W!ParseMessage(w)
      PROVE  HandlerTypes' /\ MessagesPublished'
  BY <1>0, <1>1, <1>4, HandledOrder DEF W!ParseMessage, W!Go, W!Labels
<1>5. ASSUME NEW w \in Workers, NEW label \in W!Labels, W!Go(w, label), at[w] # "idle"
      PROVE  HandlerTypes' /\ MessagesPublished'
  BY <1>0, <1>1, <1>5 DEF W!Go
<1>6. ASSUME NEW w \in Workers, at[w] # "idle", W!PaymentFails(w)
      PROVE  HandlerTypes' /\ MessagesPublished'
  BY <1>0, <1>1, <1>6 DEF W!PaymentFails, W!Labels
<1>7. ASSUME NEW w \in Workers, W!FindProcessed(w) \/ W!InsertProcessed(w)
      PROVE  HandlerTypes' /\ MessagesPublished'
  BY <1>5, <1>7 DEF W!FindProcessed, W!InsertProcessed, W!Labels, W!Inserted
<1>8. ASSUME NEW w \in Workers, W!AuthorizeEmpty(w) \/ W!ProcessingFails(w)
      PROVE  HandlerTypes' /\ MessagesPublished'
  BY <1>5, <1>8 DEF W!AuthorizeEmpty, W!ProcessingFails, W!Labels, W!Inserted
<1>9. ASSUME NEW w \in Workers, W!LoadOrder(w)
      PROVE  HandlerTypes' /\ MessagesPublished'
  <2>0. at[w] # "idle" /\ orders[W!OrderOf(w)] \in Order
    BY <1>9, HandledOrder DEF W!LoadOrder
  <2>1. CASE W!Go(w, "failed")
    BY <1>5, <2>0, <2>1 DEF W!Labels
  <2>2. CASE /\ entity' = [entity EXCEPT ![w] = orders[W!OrderOf(w)]]
             /\ W!Step(w, "diff")
             /\ UNCHANGED <<W!dbVars, W!brokerVars, msg, changed, channel, processed,
                            payments, late, calls, audit, faults>>
    BY <1>0, <1>1, <2>0, <2>2 DEF W!Labels, W!Inserted
  <2>3. CASE /\ processed' = processed \cup {W!OrderOf(w)}
             /\ W!Step(w, "ack")
             /\ UNCHANGED <<W!dbVars, W!brokerVars, msg, entity, changed, channel,
                            payments, late, calls, audit, faults>>
    BY <1>0, <1>1, <2>0, <2>3 DEF W!Labels
  <2> QED
    BY <1>9, <2>1, <2>2, <2>3 DEF W!LoadOrder
<1>10. ASSUME NEW w \in Workers, W!SaveRead(w)
       PROVE  HandlerTypes' /\ MessagesPublished'
  BY <1>0, <1>1, <1>10 DEF W!SaveRead, W!Labels, W!Inserted
<1>11. ASSUME NEW w \in Workers, W!CommitProcessed(w)
       PROVE  HandlerTypes' /\ MessagesPublished'
  BY <1>0, <1>1, <1>11 DEF W!CommitProcessed, W!Labels
<1>12. ASSUME NEW w \in Workers, W!CallAuthorize(w)
       PROVE  HandlerTypes' /\ MessagesPublished'
  <2>0. at[w] # "idle" /\ W!OrderOf(w) \in OrderIds
    BY <1>12, HandledOrder DEF W!CallAuthorize
  <2>1. CASE W!Go(w, "failed") \/ W!PaymentFails(w)
    BY <1>5, <1>6, <2>0, <2>1 DEF W!Labels
  <2>2. CASE /\ calls' = [calls EXCEPT ![W!OrderOf(w)] = @ + 1]
             /\ W!Step(w, "waiting")
             /\ UNCHANGED <<W!dbVars, W!brokerVars, msg, entity, changed, channel,
                            processed, payments, late, audit, faults>>
    <3>1. calls' \in [OrderIds -> Nat]
      BY <1>0, <2>0, <2>2
    <3> QED
      BY <1>0, <1>1, <2>0, <2>2, <3>1 DEF W!Labels
  <2> QED
    BY <1>12, <2>1, <2>2 DEF W!CallAuthorize
<1>13. ASSUME NEW w \in Workers,
              W!AuthorizeOk(w) \/ W!AuthorizeRefused(w) \/ W!AuthorizeTimesOut(w)
       PROVE  HandlerTypes' /\ MessagesPublished'
  <2>1. CASE W!AuthorizeOk(w)
    BY <1>0, <1>1, <2>1 DEF W!AuthorizeOk, W!Labels
  <2>2. CASE W!AuthorizeRefused(w) \/ W!AuthorizeTimesOut(w)
    BY <1>6, <2>2 DEF W!AuthorizeRefused, W!AuthorizeTimesOut
  <2> QED
    BY <1>13, <2>1, <2>2
<1>14. ASSUME NEW w \in Workers, W!RecordPayment(w)
       PROVE  HandlerTypes' /\ MessagesPublished'
  BY <1>0, <1>1, <1>6, <1>14 DEF W!RecordPayment, W!Labels
<1>15. ASSUME NEW w \in Workers, W!RetryOrDlq(w)
       PROVE  HandlerTypes' /\ MessagesPublished'
  <2>0. /\ at[w] # "idle" /\ at' = [at EXCEPT ![w] = "ack"]
        /\ UNCHANGED <<msg, entity, processed, calls>>
        /\ msg[w].kind = "order" /\ msg[w].order \in published
        /\ \/ queue' = queue
           \/ W!MayRetry(w) /\ queue' = W!Add(queue, W!RetryCopy(w))
    BY <1>0, <1>15, HandledOrder DEF W!RetryOrDlq, W!Step, W!OrderOf
  <2>1. /\ queue' \in [W!Messages -> Nat]
        /\ \A m \in W!Messages : queue'[m] > 0 =>
             queue[m] > 0 \/ (m.kind = "order" /\ m.order \in published)
    BY <1>0, <2>0, CopyFacts, AddFacts
  <2>2. HandlerTypes'
    BY <1>0, <2>0, <2>1 DEF HandlerTypes, W!Labels
  <2>3. MessagesPublished'
    BY <1>0, <2>0, <2>1 DEF MessagesPublished
  <2> QED
    BY <2>2, <2>3
<1>16. ASSUME NEW w \in Workers, W!PublishThrowsInHandler(w) \/ W!Ack(w)
       PROVE  HandlerTypes' /\ MessagesPublished'
  BY <1>2, <1>16 DEF W!PublishThrowsInHandler, W!Ack
<1>17. ASSUME NEW w \in Workers, W!ChannelCloses(w)
       PROVE  HandlerTypes' /\ MessagesPublished'
  <2>0. UNCHANGED <<at, msg, entity, processed, calls>>
    BY <1>17 DEF W!ChannelCloses
  <2>1. \/ queue' = queue
        \/ at[w] # "idle" /\ queue' = W!Add(queue, msg[w])
    BY <1>17 DEF W!ChannelCloses, W!Requeued
  <2>2. /\ queue' \in [W!Messages -> Nat]
        /\ \A m \in W!Messages : queue'[m] > 0 => queue[m] > 0 \/ (at[w] # "idle" /\ m = msg[w])
    BY <1>0, <2>1, AddFacts
  <2>3. HandlerTypes'
    BY <1>0, <2>0, <2>2 DEF HandlerTypes
  <2>4. MessagesPublished'
    BY <1>0, <2>0, <2>2 DEF MessagesPublished
  <2> QED
    BY <2>3, <2>4
<1>18. ASSUME NEW w \in Workers, W!Crash(w) \/ W!Replace(w)
       PROVE  HandlerTypes' /\ MessagesPublished'
  BY <1>2, <1>18 DEF W!Crash, W!Replace, W!Restart
<1>19. ASSUME NEW o \in OrderIds, W!LateAuthorize(o)
       PROVE  HandlerTypes' /\ MessagesPublished'
  BY <1>0, <1>19 DEF W!LateAuthorize, HandlerTypes, MessagesPublished
<1> QED
  BY <1>3, <1>4, <1>7, <1>8, <1>9, <1>10, <1>11, <1>12, <1>13, <1>14, <1>15, <1>16,
     <1>17, <1>18, <1>19 DEF WorkerStep, W!WorkerNext, W!HandlerStep

-----------------------------------------------------------------------------
(* The system: rows *)

\* The row a handler commits: the one it finds, with the new status at most.
LEMMA ProcessedRow ==
  ASSUME SysIInv, NEW w \in Workers, at[w] = "update"
  PROVE  LET o == W!OrderOf(w) IN
         /\ o \in OrderIds /\ Exists(o) /\ o \notin processed
         /\ entity[w] \in Order /\ entity[w].paymentId = NoPayment
         /\ orders[o].paymentId = NoPayment /\ orders[o].status # "PAID"
         /\ W!SavedRow(w) \in Order
         /\ W!SavedRow(w).paymentId = NoPayment /\ W!SavedRow(w).status # "PAID"
         /\ W!SavedRow(w).key = orders[o].key /\ W!SavedRow(w).items = orders[o].items
<1> DEFINE o == W!OrderOf(w)
<1>1. o \in OrderIds /\ Exists(o) /\ orders[o] \in Order
  BY HandledOrder
<1>2. o \notin processed /\ entity[w] \in Order /\ entity[w].paymentId = NoPayment
  BY DEF SysIInv, HandlersAlone, W!Inserted
<1>3. orders[o].paymentId = NoPayment /\ orders[o].status # "PAID"
  BY <1>1, <1>2 DEF SysIInv, NoPaymentYet, MayRecord
<1> HIDE DEF o
<1>4. W!SavedRow(w) =
        [orders[o] EXCEPT
           !.status = IF "status" \in changed[w] THEN "PROCESSED" ELSE orders[o].status,
           !.paymentId = NoPayment]
  BY <1>1, <1>2, <1>3 DEF W!SavedRow, W!ProcessedEntity, Order, o
<1>5. /\ W!SavedRow(w) \in Order
      /\ W!SavedRow(w).paymentId = NoPayment /\ W!SavedRow(w).status # "PAID"
      /\ W!SavedRow(w).key = orders[o].key /\ W!SavedRow(w).items = orders[o].items
  BY <1>1, <1>3, <1>4 DEF Order, OrderStatus
<1> QED
  BY <1>1, <1>2, <1>3, <1>5 DEF o

\* The row after the payment is recorded.
LEMMA PaidRow ==
  ASSUME SysIInv, NEW w \in Workers, at[w] = "record"
  PROVE  LET o == W!OrderOf(w)
             row == [orders[o] EXCEPT !.status = "PAID", !.paymentId = o]
         IN  /\ o \in OrderIds /\ Exists(o) /\ row \in Order
             /\ row.key = orders[o].key /\ row.items = orders[o].items
             /\ row.paymentId = o
<1>1. W!OrderOf(w) \in OrderIds /\ Exists(W!OrderOf(w)) /\ orders[W!OrderOf(w)] \in Order
  BY HandledOrder
<1> QED
  BY <1>1, SystemAssumption DEF Order, OrderStatus

\* The steps of the worker that write an order row.
LEMMA WorkerWrites ==
  ASSUME WorkerStep
  PROVE  \/ UNCHANGED orders
         \/ \E w \in Workers : W!CommitProcessed(w)
         \/ \E w \in Workers :
              /\ at[w] = "record"
              /\ orders' = [orders EXCEPT ![W!OrderOf(w)] =
                              [@ EXCEPT !.status = "PAID", !.paymentId = W!OrderOf(w)]]
<1> USE DEF W!dbVars
<1>1. ASSUME NEW w \in Workers, W!ParseMessage(w) \/ W!FindProcessed(w) \/ W!InsertProcessed(w)
                  \/ W!LoadOrder(w) \/ W!SaveRead(w) \/ W!ProcessingFails(w)
      PROVE  UNCHANGED orders
  BY <1>1 DEF W!ParseMessage, W!FindProcessed, W!InsertProcessed, W!LoadOrder, W!SaveRead,
              W!ProcessingFails, W!Go
<1>2. ASSUME NEW w \in Workers, W!CallAuthorize(w) \/ W!AuthorizeOk(w) \/ W!AuthorizeEmpty(w)
                  \/ W!AuthorizeRefused(w) \/ W!AuthorizeTimesOut(w)
      PROVE  UNCHANGED orders
  BY <1>2 DEF W!CallAuthorize, W!AuthorizeOk, W!AuthorizeEmpty, W!AuthorizeRefused,
              W!AuthorizeTimesOut, W!PaymentFails, W!Go
<1>3. ASSUME NEW w \in Workers, W!RetryOrDlq(w) \/ W!PublishThrowsInHandler(w) \/ W!Ack(w)
                  \/ W!ChannelCloses(w) \/ W!Crash(w) \/ W!Replace(w)
      PROVE  UNCHANGED orders
  BY <1>3 DEF W!RetryOrDlq, W!PublishThrowsInHandler, W!Ack, W!ChannelCloses, W!Crash,
              W!Replace, W!Restart
<1>4. ASSUME NEW w \in Workers, W!RecordPayment(w), orders' # orders
      PROVE  /\ at[w] = "record"
             /\ orders' = [orders EXCEPT ![W!OrderOf(w)] =
                             [@ EXCEPT !.status = "PAID", !.paymentId = W!OrderOf(w)]]
  BY <1>4 DEF W!RecordPayment, W!PaymentFails
<1>5. (\E w \in Workers, m \in W!Messages : W!Deliver(w, m))
        \/ (\E o \in OrderIds : W!LateAuthorize(o)) => UNCHANGED orders
  BY DEF W!Deliver, W!LateAuthorize
<1> QED
  BY <1>1, <1>2, <1>3, <1>4, <1>5 DEF WorkerStep, W!WorkerNext, W!HandlerStep

\* Every step of the worker touches only the tables' order rows.
LEMMA WorkerTables ==
  ASSUME WorkerStep
  PROVE  UNCHANGED <<stock, inactive, deleted, held>>
<1> USE DEF W!dbVars
<1>1. ASSUME NEW w \in Workers, W!ParseMessage(w) \/ W!FindProcessed(w) \/ W!InsertProcessed(w)
                  \/ W!LoadOrder(w) \/ W!SaveRead(w) \/ W!ProcessingFails(w)
      PROVE  UNCHANGED <<stock, inactive, deleted, held>>
  BY <1>1 DEF W!ParseMessage, W!FindProcessed, W!InsertProcessed, W!LoadOrder, W!SaveRead,
              W!ProcessingFails, W!Go
<1>2. ASSUME NEW w \in Workers, W!CallAuthorize(w) \/ W!AuthorizeOk(w) \/ W!AuthorizeEmpty(w)
                  \/ W!AuthorizeRefused(w) \/ W!AuthorizeTimesOut(w) \/ W!RecordPayment(w)
      PROVE  UNCHANGED <<stock, inactive, deleted, held>>
  BY <1>2 DEF W!CallAuthorize, W!AuthorizeOk, W!AuthorizeEmpty, W!AuthorizeRefused,
              W!AuthorizeTimesOut, W!RecordPayment, W!PaymentFails, W!Go
<1>3. ASSUME NEW w \in Workers, W!RetryOrDlq(w) \/ W!PublishThrowsInHandler(w) \/ W!Ack(w)
                  \/ W!ChannelCloses(w) \/ W!Crash(w) \/ W!Replace(w) \/ W!CommitProcessed(w)
      PROVE  UNCHANGED <<stock, inactive, deleted, held>>
  BY <1>3 DEF W!RetryOrDlq, W!PublishThrowsInHandler, W!Ack, W!ChannelCloses, W!Crash,
              W!Replace, W!Restart, W!CommitProcessed
<1>4. (\E w \in Workers, m \in W!Messages : W!Deliver(w, m))
        \/ (\E o \in OrderIds : W!LateAuthorize(o)) => UNCHANGED <<stock, inactive, deleted, held>>
  BY DEF W!Deliver, W!LateAuthorize
<1> QED
  BY <1>1, <1>2, <1>3, <1>4 DEF WorkerStep, W!WorkerNext, W!HandlerStep

\* The worker keeps what the command side relies on: it changes neither the
\* key nor the items of an order, and neither creates nor removes one.
LEMMA WorkerKeepsCommands ==
  ASSUME SysIInv, WorkerStep
  PROVE  IInv' /\ KeysConsistent'
<1>0. /\ IInv /\ KeysConsistent /\ orders \in [OrderIds -> Order \cup {NoOrder}]
      /\ NoOrder \notin Order
      /\ UNCHANGED <<stock, inactive, deleted, held, reqVars>>
  BY WorkerTables, CommandsAssumption DEF SysIInv, IInv, TypeOK, DbTypeOK, WorkerStep
<1>1. ASSUME NEW o \in OrderIds, NEW row \in Order, Exists(o),
             row.key = orders[o].key, row.items = orders[o].items,
             orders' = [orders EXCEPT ![o] = row]
      PROVE  IInv' /\ KeysConsistent'
  <2>1. orders' \in [OrderIds -> Order \cup {NoOrder}]
    BY <1>0, <1>1
  <2>2. \A q \in OrderIds :
           /\ orders'[q] = NoOrder <=> orders[q] = NoOrder
           /\ orders[q] # NoOrder => /\ orders'[q].key = orders[q].key
                                     /\ orders'[q].items = orders[q].items
    BY <1>0, <1>1 DEF Exists
  <2> QED
    BY <1>0, <2>1, <2>2, CommandsUndisturbed
<1>2. CASE UNCHANGED orders
  BY <1>0, <1>2, CommandsUndisturbed
<1>3. ASSUME NEW w \in Workers, W!CommitProcessed(w)
      PROVE  IInv' /\ KeysConsistent'
  BY <1>1, <1>3, ProcessedRow DEF W!CommitProcessed
<1>4. ASSUME NEW w \in Workers, at[w] = "record",
             orders' = [orders EXCEPT ![W!OrderOf(w)] =
                          [@ EXCEPT !.status = "PAID", !.paymentId = W!OrderOf(w)]]
      PROVE  IInv' /\ KeysConsistent'
  BY <1>1, <1>4, PaidRow
<1> QED
  BY <1>2, <1>3, <1>4, WorkerWrites

\* Nor does it change the ledger.
LEMMA WorkerKeepsLedger ==
  ASSUME SysIInv, LedgerKept, WorkerStep
  PROVE  LedgerKept'
<1>0. /\ IInv /\ orders \in [OrderIds -> Order \cup {NoOrder}] /\ NoOrder \notin Order
      /\ UNCHANGED <<stock, inactive, deleted, held, reqVars>>
  BY WorkerTables, CommandsAssumption DEF SysIInv, IInv, TypeOK, DbTypeOK, WorkerStep
<1>1. ASSUME NEW o \in OrderIds, NEW row \in Order, Exists(o), row.items = orders[o].items,
             orders' = [orders EXCEPT ![o] = row]
      PROVE  SameItems
  BY <1>0, <1>1 DEF Exists, SameItems
<1>2. ASSUME UNCHANGED orders PROVE SameItems
  BY <1>2 DEF SameItems
<1>3. ASSUME NEW w \in Workers, W!CommitProcessed(w) PROVE SameItems
  BY <1>1, <1>3, ProcessedRow DEF W!CommitProcessed
<1>4. ASSUME NEW w \in Workers, at[w] = "record",
             orders' = [orders EXCEPT ![W!OrderOf(w)] =
                          [@ EXCEPT !.status = "PAID", !.paymentId = W!OrderOf(w)]]
      PROVE  SameItems
  BY <1>1, <1>4, PaidRow
<1>5. SameItems
  BY <1>2, <1>3, <1>4, WorkerWrites
<1>6. LedgerBalanced'
  BY <1>0, <1>5, BalanceSame DEF reqVars, Completed
<1>7. \A c \in Cancels : creq[c].order \in OrderIds
  BY <1>0 DEF IInv, TypeOK, CancelRequest
<1> QED
  BY <1>0, <1>5, <1>6, <1>7 DEF LedgerKept, SameItems, Exists, reqVars

-----------------------------------------------------------------------------
(* The system: handlers and the payment *)

\* What the step of a handler has to keep besides types, messages and rows.
PaymentParts ==
  HandlersAlone /\ ChargesBounded /\ NoPaymentYet /\ StaleSavesHarmless /\ PaidRowHasPayment

\* The other handlers stay where they are.
OthersStay(w) ==
  \A v \in Workers \ {w} : at'[v] = at[v] /\ msg'[v] = msg[v] /\ entity'[v] = entity[v]

\* A handler that goes to a place outside its transaction and outside the
\* payment, with no row and no payment recorded, disturbs nobody.
LEMMA QuietHandler ==
  ASSUME SysIInv, NEW w \in Workers, OthersStay(w),
         at'[w] \notin W!Inserted \cup W!Charging,
         payments \subseteq payments', UNCHANGED <<orders, processed, calls, reqVars>>
  PROVE  PaymentParts'
<1>1. \A v \in Workers \ {w} : at'[v] = at[v] /\ W!OrderOf(v)' = W!OrderOf(v) /\ entity'[v] = entity[v]
  BY DEF OthersStay, W!OrderOf
<1>2. HandlersAlone'
  BY <1>1 DEF SysIInv, HandlersAlone, W!Inserted, W!Charging
<1>3. ChargesBounded'
  BY DEF SysIInv, ChargesBounded
<1>4. \A o \in OrderIds : MayRecord(o)' => MayRecord(o)
  BY <1>1 DEF MayRecord, W!Charging
<1> QED
  BY <1>2, <1>3, <1>4, RowsUntouched DEF PaymentParts, reqVars

\* Every step of the worker keeps handlers alone with their orders, charges
\* an order at most once and leaves the copies of the rows harmless.
LEMMA WorkerPayments ==
  ASSUME SysIInv, WorkerStep
  PROVE  PaymentParts'
<1> USE DEF W!dbVars, W!brokerVars
<1>0. /\ HandlersAlone /\ ChargesBounded /\ NoPaymentYet /\ StaleSavesHarmless
      /\ PaidRowHasPayment /\ UNCHANGED reqVars
      /\ at \in [Workers -> W!Labels] /\ msg \in [Workers -> W!Messages]
      /\ entity \in [Workers -> Order \cup {NoOrder}]
      /\ processed \subseteq OrderIds /\ calls \in [OrderIds -> Nat]
      /\ orders \in [OrderIds -> Order \cup {NoOrder}]
      /\ NoOrder \notin Order
  BY CommandsAssumption DEF SysIInv, HandlerTypes, WorkerStep, IInv, TypeOK, DbTypeOK
<1>1. ASSUME NEW w \in Workers, NEW label \in W!Labels \ (W!Inserted \cup W!Charging),
             W!Step(w, label), UNCHANGED <<msg, entity, orders, processed, calls, payments>>
      PROVE  PaymentParts'
  <2>1. OthersStay(w) /\ at'[w] = label
    BY <1>0, <1>1 DEF OthersStay, W!Step
  <2> QED
    BY <1>0, <1>1, <2>1, QuietHandler
<1>2. ASSUME NEW w \in Workers, W!Finish(w), UNCHANGED <<orders, processed, calls, payments>>
      PROVE  PaymentParts'
  <2>1. OthersStay(w) /\ at'[w] = "idle"
    BY <1>0, <1>2 DEF OthersStay, W!Finish
  <2> QED
    BY <1>0, <1>2, <2>1, QuietHandler DEF W!Inserted, W!Charging
<1>3. ASSUME NEW w \in Workers, NEW m \in W!Messages, W!Deliver(w, m)
      PROVE  PaymentParts'
  <2>1. OthersStay(w) /\ at'[w] = "parse" /\ UNCHANGED <<orders, processed, calls, payments>>
    BY <1>0, <1>3 DEF OthersStay, W!Deliver, W!Step
  <2> QED
    BY <1>0, <2>1, QuietHandler DEF W!Inserted, W!Charging
<1>4. ASSUME NEW w \in Workers, W!ParseMessage(w)
      PROVE  PaymentParts'
  <2>1. CASE W!Go(w, "find")
    BY <1>1, <2>1 DEF W!Go, W!Labels, W!Inserted, W!Charging
  <2>2. CASE /\ W!Step(w, "ack")
             /\ UNCHANGED <<W!dbVars, queue, msg, entity, changed, channel, processed,
                            payments, late, calls, audit, faults>>
    BY <1>1, <2>2 DEF W!Labels, W!Inserted, W!Charging
  <2>3. CASE /\ W!Finish(w)
             /\ UNCHANGED <<W!dbVars, W!brokerVars, channel, processed, payments, late,
                            calls, audit, faults>>
    BY <1>2, <2>3
  <2> QED
    BY <1>4, <2>1, <2>2, <2>3 DEF W!ParseMessage
<1>5. ASSUME NEW w \in Workers, W!Go(w, "failed") \/ W!Go(w, "ack") \/ W!Go(w, "insert")
      PROVE  PaymentParts'
  BY <1>1, <1>5 DEF W!Go, W!Labels, W!Inserted, W!Charging
<1>6. ASSUME NEW w \in Workers, W!PaymentFails(w)
      PROVE  PaymentParts'
  BY <1>1, <1>6 DEF W!PaymentFails, W!Labels, W!Inserted, W!Charging
<1>7. ASSUME NEW w \in Workers,
             W!FindProcessed(w) \/ W!AuthorizeEmpty(w) \/ W!ProcessingFails(w)
      PROVE  PaymentParts'
  BY <1>5, <1>7 DEF W!FindProcessed, W!AuthorizeEmpty, W!ProcessingFails
<1>8. ASSUME NEW w \in Workers, W!InsertProcessed(w)
      PROVE  PaymentParts'
  <2>1. CASE W!AlreadyProcessed(W!OrderOf(w))
    BY <1>5, <1>8, <2>1 DEF W!InsertProcessed
  <2>2. CASE ~W!AlreadyProcessed(W!OrderOf(w))
    <3>1. /\ at[w] = "insert" /\ at' = [at EXCEPT ![w] = "load"]
          /\ UNCHANGED <<msg, entity, orders, processed, calls, payments>>
          /\ W!OrderOf(w) \notin processed
      BY <1>8, <2>2 DEF W!InsertProcessed, W!Go, W!Step, W!AlreadyProcessed
    <3>2. \A v \in Workers \ {w} : at[v] \in W!Inserted => W!OrderOf(v) # W!OrderOf(w)
      BY <1>8 DEF W!InsertProcessed, W!InsertBusy
    <3>3. /\ \A v \in Workers \ {w} : at'[v] = at[v]
          /\ at'[w] = "load"
          /\ \A v \in Workers : W!OrderOf(v)' = W!OrderOf(v)
      BY <1>0, <3>1 DEF W!OrderOf
    <3>4. HandlersAlone'
      BY <1>0, <3>1, <3>2, <3>3 DEF HandlersAlone, W!Inserted, W!Charging
    <3>5. \A o \in OrderIds : MayRecord(o)' => MayRecord(o)
      BY <3>1, <3>3 DEF MayRecord, W!Charging
    <3> QED
      BY <1>0, <3>1, <3>4, <3>5, RowsUntouched DEF PaymentParts, ChargesBounded, reqVars
  <2> QED
    BY <2>1, <2>2
<1>9. ASSUME NEW w \in Workers, W!LoadOrder(w)
      PROVE  PaymentParts'
  <2>0. /\ at[w] = "load" /\ W!OrderOf(w) \notin processed
        /\ W!OrderOf(w) \in OrderIds /\ Exists(W!OrderOf(w)) /\ orders[W!OrderOf(w)] \in Order
    BY <1>0, <1>9, HandledOrder DEF W!LoadOrder, HandlersAlone, W!Inserted
  <2>1. CASE W!Go(w, "failed")
    BY <1>5, <2>1
  <2>2. CASE /\ entity' = [entity EXCEPT ![w] = orders[W!OrderOf(w)]]
             /\ W!Step(w, "diff")
             /\ UNCHANGED <<W!dbVars, W!brokerVars, msg, changed, channel, processed,
                            payments, late, calls, audit, faults>>
    <3>1. /\ \A v \in Workers \ {w} : at'[v] = at[v] /\ entity'[v] = entity[v]
          /\ at'[w] = "diff" /\ entity'[w] = orders[W!OrderOf(w)]
          /\ \A v \in Workers : W!OrderOf(v)' = W!OrderOf(v)
      BY <1>0, <2>2 DEF W!Step, W!OrderOf
    <3>2. orders[W!OrderOf(w)].paymentId = NoPayment
      BY <1>0, <2>0 DEF NoPaymentYet, MayRecord
    <3>3. HandlersAlone'
      BY <1>0, <2>0, <2>2, <3>1, <3>2 DEF HandlersAlone, W!Inserted, W!Charging
    <3>4. \A o \in OrderIds : MayRecord(o)' => MayRecord(o)
      BY <2>2, <3>1 DEF MayRecord, W!Charging
    <3> QED
      BY <1>0, <2>2, <3>3, <3>4, RowsUntouched DEF PaymentParts, ChargesBounded, reqVars
  <2>3. CASE /\ processed' = processed \cup {W!OrderOf(w)}
             /\ W!Step(w, "ack")
             /\ UNCHANGED <<W!dbVars, W!brokerVars, msg, entity, changed, channel,
                            payments, late, calls, audit, faults>>
    <3>1. /\ \A v \in Workers \ {w} : at'[v] = at[v]
          /\ at'[w] = "ack"
          /\ \A v \in Workers : W!OrderOf(v)' = W!OrderOf(v)
      BY <1>0, <2>3 DEF W!Step, W!OrderOf
    <3>2. HandlersAlone'
      BY <1>0, <2>0, <2>3, <3>1 DEF HandlersAlone, W!Inserted, W!Charging
    <3>3. \A o \in OrderIds : MayRecord(o)' => MayRecord(o)
      BY <2>3, <3>1 DEF MayRecord, W!Charging
    <3> QED
      BY <1>0, <2>3, <3>2, <3>3, RowsUntouched DEF PaymentParts, ChargesBounded, reqVars
  <2> QED
    BY <1>9, <2>1, <2>2, <2>3 DEF W!LoadOrder
<1>10. ASSUME NEW w \in Workers, W!SaveRead(w)
       PROVE  PaymentParts'
  <2>1. /\ \A v \in Workers \ {w} : at'[v] = at[v]
        /\ at[w] = "diff" /\ at'[w] = "update"
        /\ \A v \in Workers : W!OrderOf(v)' = W!OrderOf(v)
        /\ UNCHANGED <<entity, orders, processed, calls, payments>>
    BY <1>0, <1>10 DEF W!SaveRead, W!Step, W!OrderOf
  <2>2. HandlersAlone'
    BY <1>0, <2>1 DEF HandlersAlone, W!Inserted, W!Charging
  <2>3. \A o \in OrderIds : MayRecord(o)' => MayRecord(o)
    BY <2>1 DEF MayRecord, W!Charging
  <2> QED
    BY <1>0, <2>1, <2>2, <2>3, RowsUntouched DEF PaymentParts, ChargesBounded, reqVars
\* The commit of processOrderMessage: no other handler is in the transaction
\* or at the payment of this order, and the row still has no payment.
<1>11. ASSUME NEW w \in Workers, W!CommitProcessed(w)
       PROVE  PaymentParts'
  <2> DEFINE o == W!OrderOf(w)
  <2>1. /\ at[w] = "update" /\ o \in OrderIds /\ Exists(o) /\ o \notin processed
        /\ calls[o] = 0
        /\ W!SavedRow(w) \in Order
        /\ W!SavedRow(w).paymentId = NoPayment /\ W!SavedRow(w).status # "PAID"
    BY <1>0, <1>11, ProcessedRow DEF W!CommitProcessed, ChargesBounded
  <2>2. /\ \A v \in Workers \ {w} : at'[v] = at[v]
        /\ at'[w] \in {"authorize", "ack"}
        /\ \A v \in Workers : W!OrderOf(v)' = W!OrderOf(v)
        /\ orders' = [orders EXCEPT ![o] = W!SavedRow(w)]
        /\ processed' = processed \cup {o}
        /\ UNCHANGED <<entity, calls, payments>>
    BY <1>0, <1>11 DEF W!CommitProcessed, W!Step, W!OrderOf
  <2>3. /\ orders'[o] = W!SavedRow(w)
        /\ \A q \in OrderIds \ {o} : orders'[q] = orders[q]
    BY <1>0, <2>1, <2>2
  <2> HIDE DEF o
  <2>4. \A v \in Workers \ {w} : at[v] \in W!Inserted \cup W!Charging => W!OrderOf(v) # o
    BY <1>0, <2>1 DEF HandlersAlone, W!Inserted, W!Charging, o
  <2>5. HandlersAlone'
    BY <1>0, <2>1, <2>2, <2>4 DEF HandlersAlone, W!Inserted, W!Charging, o
  <2>6. ChargesBounded'
    BY <1>0, <2>1, <2>2 DEF ChargesBounded
  <2>7. \A q \in OrderIds : MayRecord(q)' => MayRecord(q)
    BY <2>1, <2>2 DEF MayRecord, W!Charging, o
  <2>8. NoPaymentYet'
    BY <1>0, <2>1, <2>3, <2>7 DEF NoPaymentYet, Holds, Exists, reqVars
  <2>9. StaleSavesHarmless'
    BY <1>0, <2>1, <2>3 DEF StaleSavesHarmless, reqVars, SysIInv, IInv, TypeOK, CancelRequest
  <2>10. PaidRowHasPayment'
    BY <1>0, <2>1, <2>2, <2>3 DEF PaidRowHasPayment, W!PaidHasPayment, W!Exists
  <2> QED
    BY <2>5, <2>6, <2>8, <2>9, <2>10 DEF PaymentParts
<1>12. ASSUME NEW w \in Workers, at[w] \in W!Charging
       PROVE  /\ W!OrderOf(w) \in processed /\ W!OrderOf(w) \in OrderIds
              /\ Exists(W!OrderOf(w))
              /\ \A v \in Workers \ {w} : at[v] \in W!Charging \cup W!Inserted =>
                   W!OrderOf(v) # W!OrderOf(w)
  BY <1>0, <1>12, HandledOrder DEF HandlersAlone, W!Charging, W!Inserted
<1>13. ASSUME NEW w \in Workers, W!CallAuthorize(w)
       PROVE  PaymentParts'
  <2>0. at[w] = "authorize" /\ at[w] \in W!Charging /\ calls[W!OrderOf(w)] = 0
    BY <1>0, <1>13 DEF W!CallAuthorize, W!Charging, HandlersAlone
  <2>1. CASE W!Go(w, "failed") \/ W!PaymentFails(w)
    BY <1>5, <1>6, <2>1
  <2>2. CASE /\ calls' = [calls EXCEPT ![W!OrderOf(w)] = @ + 1]
             /\ W!Step(w, "waiting")
             /\ UNCHANGED <<W!dbVars, W!brokerVars, msg, entity, changed, channel,
                            processed, payments, late, audit, faults>>
    <3>1. /\ \A v \in Workers \ {w} : at'[v] = at[v]
          /\ at'[w] = "waiting"
          /\ \A v \in Workers : W!OrderOf(v)' = W!OrderOf(v)
          /\ calls'[W!OrderOf(w)] = 1
          /\ \A q \in OrderIds \ {W!OrderOf(w)} : calls'[q] = calls[q]
      BY <1>0, <1>12, <2>0, <2>2 DEF W!Step, W!OrderOf
    <3>2. \A v \in Workers \ {w} : at[v] = "authorize" => calls'[W!OrderOf(v)] = calls[W!OrderOf(v)]
      BY <1>12, <2>0, <3>1 DEF W!Charging
    <3>3. HandlersAlone'
      BY <1>0, <1>12, <2>0, <2>2, <3>1, <3>2 DEF HandlersAlone, W!Inserted, W!Charging
    <3>4. ChargesBounded'
      BY <1>0, <1>12, <2>0, <2>2, <3>1 DEF ChargesBounded
    <3>5. \A o \in OrderIds : MayRecord(o)' => MayRecord(o)
      BY <2>0, <2>2, <3>1 DEF MayRecord, W!Charging
    <3> QED
      BY <1>0, <2>2, <3>3, <3>4, <3>5, RowsUntouched DEF PaymentParts, reqVars
  <2> QED
    BY <1>13, <2>1, <2>2 DEF W!CallAuthorize
<1>14. ASSUME NEW w \in Workers, W!AuthorizeOk(w)
       PROVE  PaymentParts'
  <2>1. /\ \A v \in Workers \ {w} : at'[v] = at[v]
        /\ at[w] = "waiting" /\ at'[w] = "record" /\ at[w] \in W!Charging
        /\ \A v \in Workers : W!OrderOf(v)' = W!OrderOf(v)
        /\ payments' = payments \cup {W!OrderOf(w)}
        /\ UNCHANGED <<orders, entity, processed, calls>>
    BY <1>0, <1>14 DEF W!AuthorizeOk, W!Step, W!OrderOf, W!Charging
  <2>2. HandlersAlone'
    BY <1>0, <2>1 DEF HandlersAlone, W!Inserted, W!Charging
  <2>3. \A o \in OrderIds : MayRecord(o)' => MayRecord(o)
    BY <2>1 DEF MayRecord, W!Charging
  <2> QED
    BY <1>0, <2>1, <2>2, <2>3, RowsUntouched DEF PaymentParts, ChargesBounded, reqVars
<1>15. ASSUME NEW w \in Workers, W!AuthorizeRefused(w) \/ W!AuthorizeTimesOut(w)
       PROVE  PaymentParts'
  BY <1>6, <1>15 DEF W!AuthorizeRefused, W!AuthorizeTimesOut
\* The update of authorizePayment: nobody may record this payment again, and
\* no cancellation that is under way takes the payment id away.
<1>16. ASSUME NEW w \in Workers, W!RecordPayment(w)
       PROVE  PaymentParts'
  <2> DEFINE o == W!OrderOf(w)
  <2> DEFINE row == [orders[o] EXCEPT !.status = "PAID", !.paymentId = o]
  <2>0. at[w] = "record" /\ at[w] \in W!Charging /\ o \in payments
    BY <1>0, <1>16 DEF W!RecordPayment, W!Charging, HandlersAlone
  <2>1. CASE W!PaymentFails(w)
    BY <1>6, <2>1
  <2>2. CASE /\ orders' = [orders EXCEPT ![o] = [@ EXCEPT !.status = "PAID", !.paymentId = o]]
             /\ W!Step(w, "ack") \/ W!Step(w, "failed")
             /\ UNCHANGED <<stock, inactive, deleted, held, W!brokerVars, msg, entity,
                            changed, channel, processed, payments, late, calls, faults>>
    <3>1. /\ \A v \in Workers \ {w} : at'[v] = at[v]
          /\ at'[w] \in {"ack", "failed"}
          /\ \A v \in Workers : W!OrderOf(v)' = W!OrderOf(v)
      BY <1>0, <2>2 DEF W!Step, W!OrderOf
    <3>2. /\ o \in OrderIds /\ o \in processed /\ Exists(o) /\ row \in Order /\ row.paymentId = o
          /\ \A v \in Workers \ {w} : at[v] \in W!Charging => W!OrderOf(v) # o
      BY <1>12, <2>0, PaidRow
    <3>3. orders'[o] = row /\ \A q \in OrderIds \ {o} : orders'[q] = orders[q]
      BY <1>0, <2>2, <3>2
    <3> HIDE DEF o, row
    <3>4. HandlersAlone'
      BY <1>0, <2>2, <3>1 DEF HandlersAlone, W!Inserted, W!Charging
    <3>5. ChargesBounded'
      BY <1>0, <2>2 DEF ChargesBounded
    <3>6. \A q \in OrderIds : MayRecord(q)' => MayRecord(q) /\ q # o
      BY <2>2, <3>1, <3>2 DEF MayRecord, W!Charging
    <3>7. NoPaymentYet'
      BY <1>0, <3>3, <3>6 DEF NoPaymentYet, Holds, Exists, reqVars
    <3>8. MayRecord(o)
      BY <2>0 DEF MayRecord, o
    <3>9. \A c \in Cancels : pc[c] = "update" /\ creq[c].order = o => "paymentId" \notin dirty[c]
      BY <1>0, <3>2, <3>8 DEF NoPaymentYet, Holds
    <3>10. StaleSavesHarmless'
      BY <1>0, <3>3, <3>9 DEF StaleSavesHarmless, reqVars, SysIInv, IInv, TypeOK, CancelRequest
    <3>11. PaidRowHasPayment'
      BY <1>0, <2>0, <2>2, <3>2, <3>3 DEF PaidRowHasPayment, W!PaidHasPayment, W!Exists
    <3> QED
      BY <3>4, <3>5, <3>7, <3>10, <3>11 DEF PaymentParts
  <2> QED
    BY <1>16, <2>1, <2>2 DEF W!RecordPayment
<1>17. ASSUME NEW w \in Workers, W!RetryOrDlq(w)
       PROVE  PaymentParts'
  BY <1>1, <1>17 DEF W!RetryOrDlq, W!Labels, W!Inserted, W!Charging
<1>18. ASSUME NEW w \in Workers, W!PublishThrowsInHandler(w) \/ W!Ack(w) \/ W!Crash(w) \/ W!Replace(w)
       PROVE  PaymentParts'
  BY <1>2, <1>18 DEF W!PublishThrowsInHandler, W!Ack, W!Crash, W!Replace, W!Restart
<1>19. ASSUME UNCHANGED <<at, msg, entity, orders, processed, calls>>, payments \subseteq payments'
       PROVE  PaymentParts'
  <2>1. HandlersAlone' /\ ChargesBounded'
    BY <1>0, <1>19 DEF HandlersAlone, ChargesBounded, W!OrderOf
  <2>2. \A o \in OrderIds : MayRecord(o)' => MayRecord(o)
    BY <1>19 DEF MayRecord, W!OrderOf
  <2> QED
    BY <1>0, <1>19, <2>1, <2>2, RowsUntouched DEF PaymentParts, reqVars
<1>20. ASSUME \/ \E w \in Workers : W!ChannelCloses(w)
              \/ \E o \in OrderIds : W!LateAuthorize(o)
       PROVE  PaymentParts'
  BY <1>19, <1>20 DEF W!ChannelCloses, W!LateAuthorize
<1> QED
  BY <1>3, <1>4, <1>7, <1>8, <1>9, <1>10, <1>11, <1>13, <1>14, <1>15, <1>16, <1>17,
     <1>18, <1>20 DEF WorkerStep, W!WorkerNext, W!HandlerStep

-----------------------------------------------------------------------------
(* The system: requests *)

\* What a step of the command side does to the cancellations' copies: a copy
\* is taken from the row, kept, or forgotten, and the columns to write are
\* those in which the copy differs from the row.
CopiesFollowRows ==
  \A c \in Cancels :
    /\ pc'[c] \in {"locking", "diff", "update"} =>
         \/ pc[c] \in {"locking", "diff", "update"} /\ loaded'[c] = loaded[c]
         \/ Exists(creq[c].order) /\ loaded'[c] = orders[creq[c].order]
    /\ pc'[c] = "update" =>
         \/ pc[c] = "update" /\ dirty'[c] = dirty[c]
         \/ /\ pc[c] = "diff" /\ orders' = orders /\ loaded'[c] = loaded[c]
            /\ dirty'[c] = {f \in {"status", "paymentId"} :
                              Entity(c)[f] # orders[creq[c].order][f]}

\* Every step of the command side treats the copies so, never takes a message
\* back and never retargets a cancellation.
LEMMA CommandCopies ==
  ASSUME IInv, Next
  PROVE  CopiesFollowRows /\ published \subseteq published' /\ UNCHANGED creq
<1> USE CommandsAssumption
<1>0. pc \in [Requests -> CreatePcs \cup CancelPcs]
  BY DEF IInv, TypeOK
<1>1. ASSUME NEW t \in Requests, NEW label,
             label \notin {"diff", "update"}, t \in Cancels => label # "locking",
             Goto(t, label), UNCHANGED <<creq, loaded, dirty>>, published \subseteq published'
      PROVE  CopiesFollowRows /\ published \subseteq published' /\ UNCHANGED creq
  <2>1. \A c \in Cancels : pc'[c] = pc[c] \/ (c = t /\ pc'[c] = label)
    BY <1>0, <1>1 DEF Goto, Requests
  <2> QED
    BY <1>1, <2>1 DEF CopiesFollowRows
<1>2. ASSUME NEW r \in Creates, CreateStep(r)
      PROVE  CopiesFollowRows /\ published \subseteq published' /\ UNCHANGED creq
  <2>0. r \in Requests /\ r \notin Cancels
    BY DEF Requests
  <2>1. CASE ValidateRequest(r) \/ CheckIdempotency(r) \/ ValidateExist(r)
    BY <1>1, <2>0, <2>1 DEF ValidateRequest, CheckIdempotency, ValidateExist, Advance, Fail, AnswerWith
  <2>2. CASE DecrementStock(r) \/ InsertOrder(r) \/ CommitOrder(r)
    BY <1>1, <2>0, <2>2 DEF DecrementStock, InsertOrder, CommitOrder, Advance, Rollback
  <2>3. CASE Publish(r) \/ PublishLost(r) \/ PublishThrows(r) \/ HandleConflict(r)
    BY <1>1, <2>0, <2>3 DEF Publish, PublishLost, PublishThrows, HandleConflict, Fail, AnswerWith
  <2> QED
    BY <1>2, <2>1, <2>2, <2>3 DEF CreateStep
<1>3. ASSUME NEW c \in Cancels, CancelStep(c)
      PROVE  CopiesFollowRows /\ published \subseteq published' /\ UNCHANGED creq
  <2>0. c \in Requests
    BY DEF Requests
  <2>1. CASE LoadShallow(c) \/ CommitCancel(c)
    BY <1>1, <2>0, <2>1 DEF LoadShallow, CommitCancel, Advance, Fail
  <2>2. CASE LoadFull(c)
    <3>1. Exists(creq[c].order) /\ loaded \in [Cancels -> Order \cup {NoOrder}]
      BY <2>2 DEF LoadFull, IInv, TypeOK, RequestsConsistent, CancelPcs, Done
    <3>2. /\ \A d \in Cancels \ {c} : pc'[d] = pc[d] /\ loaded'[d] = loaded[d]
          /\ pc'[c] = "locking" /\ loaded'[c] = orders[creq[c].order]
          /\ UNCHANGED <<creq, dirty, published>>
      BY <1>0, <2>0, <2>2, <3>1 DEF LoadFull, Goto, Requests
    <3> QED
      BY <3>1, <3>2 DEF CopiesFollowRows
  <2>3. CASE RestoreStock(c)
    <3>1. /\ \A d \in Cancels \ {c} : pc'[d] = pc[d]
          /\ pc[c] = "locking" /\ pc'[c] = "diff"
          /\ UNCHANGED <<creq, dirty, loaded, published>>
      BY <1>0, <2>0, <2>3 DEF RestoreStock, AllLocked, Goto, Requests
    <3> QED
      BY <3>1 DEF CopiesFollowRows
  <2>4. CASE SaveDiff(c)
    <3>0. dirty \in [Cancels -> SUBSET {"status", "paymentId"}]
      BY DEF IInv, TypeOK
    <3>1. /\ \A d \in Cancels \ {c} : pc'[d] = pc[d] /\ dirty'[d] = dirty[d]
          /\ pc[c] = "diff" /\ pc'[c] = "update"
          /\ dirty'[c] = {f \in {"status", "paymentId"} : Entity(c)[f] # orders[creq[c].order][f]}
          /\ UNCHANGED <<creq, orders, loaded, published>>
      BY <1>0, <2>0, <2>4, <3>0 DEF SaveDiff, Goto, Requests, dbVars
    <3> QED
      BY <3>1 DEF CopiesFollowRows
  <2> QED
    BY <1>3, <2>1, <2>2, <2>3, <2>4 DEF CancelStep
<1>4. ASSUME NEW t \in Requests, WaitAborted(t) \/ StatementFails(t) \/ Crash(t)
      PROVE  CopiesFollowRows /\ published \subseteq published' /\ UNCHANGED creq
  BY <1>1, <1>4 DEF WaitAborted, StatementFails, Crash, Rollback
<1>5. ASSUME UNCHANGED reqVars
      PROVE  CopiesFollowRows /\ published \subseteq published' /\ UNCHANGED creq
  BY <1>5 DEF reqVars, CopiesFollowRows
<1> QED
  BY <1>2, <1>3, <1>4, <1>5 DEF Next, LockStep, LockProduct, RemoveProduct

\* What a step of the command side does to the row of an order: nothing, the
\* commit of its creation, or the save of a cancellation.
LEMMA CommandRows ==
  ASSUME IInv, Next, NEW o \in OrderIds
  PROVE  \/ orders'[o] = orders[o]
         \/ ~Exists(o) /\ orders'[o].status = "PENDING" /\ orders'[o].paymentId = NoPayment
         \/ \E c \in Cancels :
              /\ pc[c] = "update" /\ creq[c].order = o /\ Exists(o)
              /\ orders'[o].status = IF "status" \in dirty[c] THEN "CANCELLED" ELSE orders[o].status
              /\ orders'[o].paymentId =
                   IF "paymentId" \in dirty[c] THEN loaded[c].paymentId ELSE orders[o].paymentId
<1> USE CommandsAssumption
<1>0. orders \in [OrderIds -> Order \cup {NoOrder}]
  BY DEF IInv, TypeOK, DbTypeOK
<1>1. CASE orders' = orders
  BY <1>1
<1>2. CASE orders' # orders
  <2>1. \/ \E r \in Creates : CommitOrder(r)
        \/ \E c \in Cancels : CommitCancel(c)
    BY <1>2 DEF Next, dbVars, CreateStep, CancelStep, LockStep, LockProduct, ValidateRequest,
       CheckIdempotency, ValidateExist, DecrementStock, InsertOrder, Publish, PublishLost,
       PublishThrows, HandleConflict, LoadShallow, LoadFull, RestoreStock, SaveDiff, WaitAborted,
       StatementFails, Crash, RemoveProduct, Rollback, Fail, Advance, AnswerWith
  <2>2. ASSUME NEW r \in Creates, CommitOrder(r)
        PROVE  \/ orders'[o] = orders[o]
               \/ ~Exists(o) /\ orders'[o].status = "PENDING" /\ orders'[o].paymentId = NoPayment
    <3>1. ~Exists(r)
      BY <2>2 DEF CommitOrder, IInv, RowOnlyAfterCommit, CreatePcs, Done
    <3> QED
      BY <1>0, <2>2, <3>1 DEF CommitOrder, NewOrder, Creates
  <2>3. ASSUME NEW c \in Cancels, CommitCancel(c), creq[c].order = o
        PROVE  /\ pc[c] = "update" /\ Exists(o)
               /\ orders'[o].status = IF "status" \in dirty[c] THEN "CANCELLED" ELSE orders[o].status
               /\ orders'[o].paymentId =
                    IF "paymentId" \in dirty[c] THEN loaded[c].paymentId ELSE orders[o].paymentId
    <3>1. pc[c] = "update" /\ Exists(o) /\ loaded[c] \in Order
      BY <2>3 DEF CommitCancel, IInv, RequestsConsistent, CancelPcs, Done
    <3>2. orders[o] \in Order /\ orders'[o] = Saved(c)
      BY <1>0, <2>3, <3>1 DEF CommitCancel, Exists
    <3>3. /\ Saved(c).status = IF "status" \in dirty[c] THEN "CANCELLED" ELSE orders[o].status
          /\ Saved(c).paymentId =
               IF "paymentId" \in dirty[c] THEN loaded[c].paymentId ELSE orders[o].paymentId
      BY <2>3, <3>1, <3>2 DEF Saved, Entity, Order
    <3> QED
      BY <3>1, <3>2, <3>3
  <2>4. ASSUME NEW c \in Cancels, CommitCancel(c), creq[c].order # o
        PROVE  orders'[o] = orders[o]
    BY <1>0, <2>4 DEF CommitCancel
  <2> QED
    BY <2>1, <2>2, <2>3, <2>4
<1> QED
  BY <1>1, <1>2

\* Every step of the command side keeps the rest of the invariant: what it
\* writes was NULL before the payment, and stays away from it afterwards.
LEMMA CommandPayments ==
  ASSUME SysIInv, CommandStep
  PROVE  PaymentParts'
<1>0. /\ IInv /\ Next /\ HandlersAlone /\ ChargesBounded /\ NoPaymentYet /\ StaleSavesHarmless
      /\ PaidRowHasPayment /\ CopiesFollowRows
      /\ UNCHANGED <<creq, at, msg, entity, processed, payments, calls>>
  BY CommandCopies DEF SysIInv, CommandStep
<1>1. HandlersAlone' /\ ChargesBounded'
  BY <1>0 DEF HandlersAlone, ChargesBounded, W!OrderOf
<1>2. \A o \in OrderIds : MayRecord(o)' => MayRecord(o)
  BY <1>0 DEF MayRecord, W!OrderOf
<1>3. \A c \in Cancels : creq[c].order \in OrderIds
  BY <1>0 DEF IInv, TypeOK, CancelRequest
<1>4. \A c \in Cancels : pc[c] \in {"locking", "diff", "update"} =>
        /\ loaded[c] \in Order /\ Exists(creq[c].order) /\ orders[creq[c].order] \in Order
  BY <1>0, <1>3 DEF IInv, RequestsConsistent, CancelPcs, Done, TypeOK, DbTypeOK, Exists
<1>5. ASSUME NEW o \in OrderIds, MayRecord(o), Exists(o)'
      PROVE  orders'[o].status # "PAID" /\ orders'[o].paymentId = NoPayment
  <2>1. CASE orders'[o] = orders[o]
    BY <1>0, <1>5, <2>1 DEF NoPaymentYet, Exists
  <2>2. CASE orders'[o].status = "PENDING" /\ orders'[o].paymentId = NoPayment
    BY <2>2
  <2>3. ASSUME NEW c \in Cancels, pc[c] = "update", creq[c].order = o, Exists(o),
               orders'[o].status = IF "status" \in dirty[c] THEN "CANCELLED" ELSE orders[o].status,
               orders'[o].paymentId =
                 IF "paymentId" \in dirty[c] THEN loaded[c].paymentId ELSE orders[o].paymentId
        PROVE  orders'[o].status # "PAID" /\ orders'[o].paymentId = NoPayment
    <3>1. /\ "paymentId" \notin dirty[c]
          /\ orders[o].status # "PAID" /\ orders[o].paymentId = NoPayment
      BY <1>0, <1>5, <2>3 DEF NoPaymentYet, Holds
    <3> QED
      BY <2>3, <3>1
  <2> QED
    BY <1>0, <2>1, <2>2, <2>3, CommandRows
<1>6. ASSUME NEW o \in OrderIds, MayRecord(o), NEW c \in Cancels, Holds(c, o)'
      PROVE  /\ loaded'[c].paymentId = NoPayment
             /\ pc'[c] = "update" => "paymentId" \notin dirty'[c]
  <2>0. creq[c].order = o /\ pc'[c] \in {"locking", "diff", "update"}
    BY <1>0, <1>6 DEF Holds
  <2>1. loaded'[c].paymentId = NoPayment
    BY <1>0, <1>6, <2>0 DEF CopiesFollowRows, NoPaymentYet, Holds
  <2>2. ASSUME pc[c] = "diff", dirty'[c] = {f \in {"status", "paymentId"} :
                                              Entity(c)[f] # orders[o][f]}
        PROVE  "paymentId" \notin dirty'[c]
    <3>1. /\ Exists(o) /\ loaded[c] \in Order /\ loaded[c].paymentId = NoPayment
          /\ orders[o].paymentId = NoPayment
      BY <1>0, <1>4, <1>6, <2>0, <2>2 DEF NoPaymentYet, Holds
    <3>2. Entity(c).paymentId = NoPayment
      BY <3>1 DEF Entity, Order
    <3> QED
      BY <2>2, <3>1, <3>2
  <2>3. pc[c] = "update" => "paymentId" \notin dirty[c]
    BY <1>0, <1>6, <2>0 DEF NoPaymentYet, Holds
  <2> QED
    BY <1>0, <2>0, <2>1, <2>2, <2>3 DEF CopiesFollowRows
<1>7. NoPaymentYet'
  BY <1>0, <1>2, <1>5, <1>6 DEF NoPaymentYet
<1>8. ASSUME NEW o \in OrderIds, Exists(o), orders'[o].status = "PAID"
      PROVE  orders[o].status = "PAID" /\ orders'[o].paymentId = orders[o].paymentId
  BY <1>0, <1>8, CommandRows DEF StaleSavesHarmless
<1>9. StaleSavesHarmless'
  <2> SUFFICES ASSUME NEW c \in Cancels, pc'[c] = "update",
                      orders'[creq[c].order].status = "PAID", "status" \notin dirty'[c]
               PROVE  "paymentId" \notin dirty'[c]
    BY <1>0 DEF StaleSavesHarmless
  <2>1. CASE pc[c] = "update" /\ dirty'[c] = dirty[c]
    BY <1>0, <1>3, <1>4, <1>8, <2>1 DEF StaleSavesHarmless
  <2>2. CASE /\ pc[c] = "diff" /\ orders' = orders
             /\ dirty'[c] = {f \in {"status", "paymentId"} :
                               Entity(c)[f] # orders[creq[c].order][f]}
    <3>1. Entity(c).status = "CANCELLED"
      BY <1>4, <2>2 DEF Entity, Order
    <3> QED
      BY <2>2, <3>1
  <2> QED
    BY <1>0, <2>1, <2>2 DEF CopiesFollowRows
<1>10. PaidRowHasPayment'
  <2> SUFFICES ASSUME NEW o \in OrderIds, Exists(o)', orders'[o].status = "PAID"
               PROVE  orders'[o].paymentId = o /\ o \in payments
    BY <1>0 DEF PaidRowHasPayment, W!PaidHasPayment, W!Exists, Exists
  <2>1. Exists(o)
    BY <1>0, CommandRows DEF Exists
  <2> QED
    BY <1>0, <1>8, <2>1 DEF PaidRowHasPayment, W!PaidHasPayment, W!Exists, Exists
<1> QED
  BY <1>1, <1>7, <1>9, <1>10 DEF PaymentParts

\* What publishOrderProcessing hands to the broker is the message of a
\* published order.
LEMMA CommandMessages ==
  ASSUME SysIInv, CommandStep
  PROVE  HandlerTypes' /\ MessagesPublished'
<1>1. /\ published \subseteq published' /\ HandlerTypes /\ MessagesPublished
      /\ UNCHANGED <<at, msg, entity, processed, calls>> /\ queue' = Enqueued
  BY CommandCopies DEF SysIInv, CommandStep
<1>2. queue \in [W!Messages -> Nat]
  BY <1>1 DEF HandlerTypes
<1>3. queue' \in [W!Messages -> Nat]
  BY <1>1, <1>2 DEF Enqueued
<1>4. \A m \in W!Messages : queue'[m] > 0 =>
        queue[m] > 0 \/ \E o \in published' : m = W!FirstMessage(o)
  BY <1>1, <1>2 DEF Enqueued
<1>5. \A o : W!FirstMessage(o).kind = "order" /\ W!FirstMessage(o).order = o
  BY DEF W!FirstMessage
<1>6. HandlerTypes'
  BY <1>1, <1>3 DEF HandlerTypes
<1>7. MessagesPublished'
  BY <1>1, <1>4, <1>5 DEF MessagesPublished
<1> QED
  BY <1>6, <1>7

-----------------------------------------------------------------------------
(* The system: the theorems *)

\* No request has started and no handler runs.
LEMMA InitSysIInv == SysInit => SysIInv
<1> SUFFICES ASSUME SysInit PROVE SysIInv
  OBVIOUS
<1>0. /\ Init /\ W!WorkerInit /\ queue = [m \in W!Messages |-> 0]
      /\ orders = [o \in OrderIds |-> NoOrder] /\ pc = [t \in Requests |-> "new"]
      /\ published = {}
  BY DEF SysInit, Init
<1>1. IInv
  BY <1>0, InitIInv
<1>2. KeysConsistent
  BY <1>0, CommandsAssumption DEF Init, KeysConsistent, PublishedIsCommitted, Exists, Creates, Requests, WithKey
<1>3. W!NoMsg \in W!Messages
  BY SystemAssumption DEF W!Messages, W!NoMsg, W!Kinds
<1>4. HandlerTypes
  BY <1>0, <1>3 DEF HandlerTypes, W!WorkerInit, W!Labels
<1>5. MessagesPublished /\ ChargesBounded
  BY <1>0 DEF MessagesPublished, W!WorkerInit, ChargesBounded
<1>6. HandlersAlone
  BY <1>0 DEF HandlersAlone, W!WorkerInit, W!Inserted, W!Charging
<1>7. NoPaymentYet /\ StaleSavesHarmless
  BY <1>0 DEF NoPaymentYet, StaleSavesHarmless, Holds, Exists, Requests
<1>8. PaidRowHasPayment
  BY <1>0 DEF PaidRowHasPayment, W!PaidHasPayment, W!Exists
<1> QED
  BY <1>1, <1>2, <1>4, <1>5, <1>6, <1>7, <1>8 DEF SysIInv

\* A step of either side keeps the whole invariant.
LEMMA NextSysIInv == SysIInv /\ [SysNext]_sysVars => SysIInv'
<1> SUFFICES ASSUME SysIInv, [SysNext]_sysVars PROVE SysIInv'
  OBVIOUS
<1>1. CASE WorkerStep
  BY <1>1, WorkerKeepsCommands, WorkerMessages, WorkerPayments DEF SysIInv, PaymentParts
<1>2. CASE CommandStep
  <2>1. IInv' /\ KeysConsistent'
    BY <1>2, NextIInv, NextKeys DEF SysIInv, CommandStep
  <2> QED
    BY <1>2, <2>1, CommandMessages, CommandPayments DEF SysIInv, PaymentParts
<1>3. CASE UNCHANGED sysVars
  <2>1. IInv' /\ KeysConsistent'
    BY <1>3, NextIInv, NextKeys DEF SysIInv, sysVars
  <2>2. UNCHANGED <<orders, pc, creq, loaded, dirty, published, queue, at, msg, entity,
                    processed, payments, calls>>
    BY <1>3 DEF sysVars, vars, dbVars, reqVars, W!workerVars
  <2>3. HandlerTypes' /\ MessagesPublished' /\ HandlersAlone' /\ ChargesBounded'
    BY <2>2 DEF SysIInv, HandlerTypes, MessagesPublished, HandlersAlone, ChargesBounded, W!OrderOf
  <2>4. \A o \in OrderIds : MayRecord(o)' => MayRecord(o)
    BY <2>2 DEF MayRecord, W!OrderOf
  <2>5. NoPaymentYet' /\ StaleSavesHarmless' /\ PaidRowHasPayment'
    BY <2>2, <2>4, RowsUntouched
  <2> QED
    BY <2>1, <2>3, <2>5 DEF SysIInv
<1> QED
  BY <1>1, <1>2, <1>3 DEF SysNext

\* The inductive invariant of the whole order flow.
THEOREM SysIInvIsInvariant == SysSpec => []SysIInv
<1> QED
  BY InitSysIInv, NextSysIInv, PTL DEF SysSpec

\* However many requests, cancellations, handlers, crashes and redeliveries
\* there are, the payments service is asked at most once for an order, and only
\* for one that was committed and published (processOrderMessage,
\* authorizePayment, publishOrderProcessing).
THEOREM ChargedAtMostOnce == SysSpec => []ChargedOncePublished
<1>1. SysIInv => ChargedOncePublished
  <2> SUFFICES ASSUME SysIInv, NEW o \in OrderIds, calls[o] > 0
               PROVE  calls[o] = 1 /\ o \in published /\ Exists(o)
    BY DEF ChargedOncePublished
  <2>1. calls[o] \in Nat /\ calls[o] <= 1 /\ o \in processed
    BY DEF SysIInv, HandlerTypes, ChargesBounded
  <2>2. o \in published
    BY <2>1 DEF SysIInv, MessagesPublished
  <2>3. Exists(o)
    BY <2>2 DEF SysIInv, KeysConsistent, PublishedIsCommitted
  <2> QED
    BY <2>1, <2>2, <2>3
<1> QED
  BY <1>1, SysIInvIsInvariant, PTL

\* A PAID row names a payment the payments service has, although cancellations
\* write back every column in which their stale copy differs from the row
\* (authorizePayment, executeCancelTransaction).
THEOREM PaidRowsKeepPayment == SysSpec => []PaidRowHasPayment
<1>1. SysIInv => PaidRowHasPayment
  BY DEF SysIInv
<1> QED
  BY <1>1, SysIInvIsInvariant, PTL

\* The worker's writes to the orders table do not break the guarantees of the
\* command side: stock stays non-negative for item lists that name a product
\* once, and requests with one key get one order (lockValidateAndDecrement,
\* handleCreationError).
THEOREM CommandsSafeWithWorker ==
  SysSpec => []((NoRepeats => StockNeverNegative) /\ SameKeySameOrder)
<1>1. SysIInv => (NoRepeats => StockNeverNegative) /\ SameKeySameOrder
  BY DEF SysIInv, IInv, KeysConsistent, SameKeySameOrder
<1> QED
  BY <1>1, SysIInvIsInvariant, PTL

\* Payments, redeliveries and the worker's stale saves leave the stock ledger
\* balanced as well: only committed orders and completed cancellations move
\* stock (decrementStock, restoreStock, processOrderMessage).
THEOREM LedgerBalancedWithWorker == SysSpec => []LedgerBalanced
<1>1. SysInit => LedgerKept
  BY InitLedger DEF SysInit
<1>2. SysIInv /\ LedgerKept /\ [SysNext]_sysVars => LedgerKept'
  <2>1. SysIInv /\ LedgerKept /\ WorkerStep => LedgerKept'
    BY WorkerKeepsLedger
  <2>2. SysIInv /\ LedgerKept /\ CommandStep => LedgerKept'
    BY NextLedger DEF SysIInv, CommandStep
  <2>3. SysIInv /\ LedgerKept /\ UNCHANGED sysVars => LedgerKept'
    BY NextLedger DEF SysIInv, sysVars
  <2> QED
    BY <2>1, <2>2, <2>3 DEF SysNext
<1>3. LedgerKept => LedgerBalanced
  BY DEF LedgerKept
<1> QED
  BY <1>1, <1>2, <1>3, SysIInvIsInvariant, PTL DEF SysSpec
=============================================================================
