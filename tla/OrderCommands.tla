--------------------------- MODULE OrderCommands ---------------------------
(***************************************************************************)
(* The command side of the orders domain (OrdersCommandService with        *)
(* OrderStockService, PgErrorMapperService and OrderPublisherService).     *)
(*                                                                         *)
(* Concurrent HTTP requests create and cancel orders.  A request is a      *)
(* sequence of awaited database statements, so every statement whose       *)
(* result another transaction can influence is a step of its own; steps    *)
(* that only touch rows the transaction has locked are merged.  The id of  *)
(* an order is the request that creates it.                                *)
(***************************************************************************)
EXTENDS ShopDb

CONSTANTS
  Cancels,            \* cancellation requests
  Registered,         \* users whose account exists
  MaxOrderQuantity,   \* MAX_ORDER_QUANTITY
  InitialStock        \* stock of each product before the modelled requests

Creates == OrderIds

Requests == Creates \cup Cancels

ASSUME CommandsAssumption ==
  /\ IsFiniteSet(Requests)
  /\ Creates \cap Cancels = {}
  /\ Requests \subseteq Txs
  /\ NoOrder \notin Requests
  /\ NoOrder \notin Order
  /\ Registered \subseteq Users
  /\ MaxOrderQuantity \in Nat \ {0}
  /\ InitialStock \in [Products -> Nat]

VARIABLES
  pc,         \* where each request stands
  req,        \* the body of each creation request, with its caller
  creq,       \* the target of each cancellation request, with its caller
  answer,     \* the order a finished request was answered with
  writes,     \* uncommitted products.stock values of a transaction
  loaded,     \* the order entity a cancellation has loaded
  dirty,      \* the columns save(order) found different from the row
  published   \* orders with a message handed to RabbitMQ

reqVars == <<pc, req, creq, answer, writes, loaded, dirty, published>>

vars == <<dbVars, reqVars>>

CreateRequest == [user : Users, key : Keys \cup {NoKey}, items : Baskets]

CancelRequest == [user : Users, order : OrderIds]

Done == {"answered", "failed", "crashed"}

\* Inside the database transaction, where product rows may be locked.
InTx == {"locking", "insert", "inserted", "diff", "update"}

CreatePcs == {"new", "lookup", "precheck", "locking", "insert", "inserted",
              "publish", "conflict"} \cup Done

CancelPcs == {"new", "loadFull", "locking", "diff", "update"} \cup Done

Zero == [p \in Products |-> 0]

Init ==
  /\ stock = InitialStock
  /\ inactive \in SUBSET Products
  /\ deleted \in SUBSET Products
  /\ orders = [o \in OrderIds |-> NoOrder]
  /\ held = [t \in Txs |-> {}]
  /\ pc = [t \in Requests |-> "new"]
  /\ req \in [Creates -> CreateRequest]
  /\ creq \in [Cancels -> CancelRequest]
  /\ answer = [t \in Requests |-> NoOrder]
  /\ writes = [t \in Requests |-> Zero]
  /\ loaded = [c \in Cancels |-> NoOrder]
  /\ dirty = [c \in Cancels |-> {}]
  /\ published = {}

-----------------------------------------------------------------------------
(* Shared pieces *)

Goto(t, label) == pc' = [pc EXCEPT ![t] = label]

\* The item list whose product rows transaction t locks.
ItemsOf(t) == IF t \in Creates THEN req[t].items ELSE loaded[t].items

Release(t) == held' = [held EXCEPT ![t] = {}]

\* Roll back: the locks go, the uncommitted stock values are forgotten.
Rollback(t) ==
  /\ Release(t)
  /\ writes' = [writes EXCEPT ![t] = Zero]
  /\ UNCHANGED <<stock, inactive, deleted, orders, req, creq, answer, loaded,
                 dirty, published>>

\* Copy the transaction's stock values to the rows it has locked.
CommitStock(t) ==
  /\ stock' = [p \in Products |->
                 IF p \in held[t] THEN writes[t][p] ELSE stock[p]]
  /\ Release(t)
  /\ writes' = [writes EXCEPT ![t] = Zero]

Fail(t) ==
  /\ Goto(t, "failed")
  /\ UNCHANGED <<dbVars, req, creq, answer, writes, loaded, dirty, published>>

Advance(t, label) ==
  /\ Goto(t, label)
  /\ UNCHANGED <<dbVars, req, creq, answer, writes, loaded, dirty, published>>

AnswerWith(t, o) ==
  /\ Goto(t, "answered")
  /\ answer' = [answer EXCEPT ![t] = o]
  /\ UNCHANGED <<dbVars, req, creq, writes, loaded, dirty, published>>

(***************************************************************************)
(* findByIdsWithLock: SELECT ... WHERE id IN (...) FOR UPDATE.  Rows are   *)
(* locked one after another in the order the query plan visits them (there *)
(* is no ORDER BY).  A soft-deleted row is not part of the result.         *)
(***************************************************************************)
ToLock(t) == (Wanted(ItemsOf(t)) \ held[t]) \ deleted

LockProduct(t, p) ==
  /\ pc[t] = "locking"
  /\ p \in ToLock(t)
  /\ RowFree(t, p)
  /\ held' = [held EXCEPT ![t] = @ \cup {p}]
  /\ UNCHANGED <<stock, inactive, deleted, orders, reqVars>>

AllLocked(t) == pc[t] = "locking" /\ ToLock(t) = {}

-----------------------------------------------------------------------------
(* createOrder *)

\* validateOrderItems: every line has a quantity of at most the maximum.
ValidItems(b) ==
  /\ Wanted(b) # {}
  /\ \A p \in Products : b[p].line <= MaxOrderQuantity /\ b[p].again <= MaxOrderQuantity

\* validateUser and validateOrderItems.
ValidateRequest(r) ==
  /\ pc[r] = "new"
  /\ IF req[r].user \in Registered /\ ValidItems(req[r].items)
       THEN Advance(r, "lookup")
       ELSE Fail(r)

\* checkIdempotency: an order with this key is the answer, whoever owns it.
CheckIdempotency(r) ==
  /\ pc[r] = "lookup"
  /\ \/ /\ req[r].key # NoKey
        /\ \E o \in WithKey(req[r].key) : AnswerWith(r, o)
     \/ /\ req[r].key # NoKey => WithKey(req[r].key) = {}
        /\ Advance(r, "precheck")

\* validateExist: the fast check outside the transaction.
ValidateExist(r) ==
  /\ pc[r] = "precheck"
  /\ IF Wanted(req[r].items) \cap deleted = {}
       THEN Advance(r, "locking")
       ELSE Fail(r)

\* A variant of EnoughStock: the comparison is off by one.
EnoughStock_OffByOne(b, p) == b[p].line <= stock[p] + 1 /\ b[p].again <= stock[p] + 1

\* Every line is compared with the stock on its own.
EnoughStock(b, p) == b[p].line <= stock[p] /\ b[p].again <= stock[p]

\* validateStockAndAvailability, on the rows the query returned.
Available(r) ==
  \A p \in Wanted(req[r].items) :
    p \in held[r] /\ p \notin inactive /\ EnoughStock(req[r].items, p)

\* lockValidateAndDecrement, once every row is locked.
DecrementStock(r) ==
  /\ AllLocked(r)
  /\ \/ /\ Available(r)
        /\ writes' = [writes EXCEPT ![r] =
                        [p \in Products |->
                           IF p \in held[r] THEN stock[p] - Total(req[r].items, p) ELSE 0]]
        /\ Goto(r, "insert")
        /\ UNCHANGED <<dbVars, req, creq, answer, loaded, dirty, published>>
     \/ /\ ~Available(r)
        /\ Goto(r, "failed")
        /\ Rollback(r)

\* Another transaction has inserted the same key and has not ended yet: the
\* unique index makes this one wait for it.
KeyBusy(r) == /\ req[r].key # NoKey
              /\ \E q \in Creates \ {r} : pc[q] = "inserted" /\ req[q].key = req[r].key

\* A variant of KeyTaken: the column has no unique index.
KeyTaken_NoIndex(r) == FALSE

KeyTaken(r) == req[r].key # NoKey /\ WithKey(req[r].key) # {}

\* createOrder and createOrderItems: 23505 rolls the transaction back.
InsertOrder(r) ==
  /\ pc[r] = "insert"
  /\ ~KeyBusy(r)
  /\ \/ /\ ~KeyTaken(r)
        /\ Advance(r, "inserted")
     \/ /\ KeyTaken(r)
        /\ Goto(r, "conflict")
        /\ Rollback(r)

\* Variants of NewOrder: the legacy initial status, and one not in the enum.
NewOrder_Created(r) == [userId |-> req[r].user, key |-> req[r].key, items |-> req[r].items,
                        status |-> "CREATED", paymentId |-> NoPayment]
NewOrder_Draft(r) == [NewOrder_Created(r) EXCEPT !.status = "DRAFT"]

NewOrder(r) == [userId |-> req[r].user, key |-> req[r].key, items |-> req[r].items,
                status |-> "PENDING", paymentId |-> NoPayment]

CommitOrder(r) ==
  /\ pc[r] = "inserted"
  /\ orders' = [orders EXCEPT ![r] = NewOrder(r)]
  /\ CommitStock(r)
  /\ Goto(r, "publish")
  /\ UNCHANGED <<inactive, deleted, req, creq, answer, loaded, dirty, published>>

(***************************************************************************)
(* publishOrderProcessing on a channel without publisher confirms.         *)
(* Either the broker gets the message, or the buffered message is lost     *)
(* with the connection and nobody notices, or sendToQueue throws.          *)
(***************************************************************************)
Publish(r) ==
  /\ pc[r] = "publish"
  /\ published' = published \cup {r}
  /\ answer' = [answer EXCEPT ![r] = r]
  /\ Goto(r, "answered")
  /\ UNCHANGED <<dbVars, req, creq, writes, loaded, dirty>>

PublishLost(r) == pc[r] = "publish" /\ AnswerWith(r, r)

PublishThrows(r) == pc[r] = "publish" /\ Fail(r)

\* handleCreationError on 23505: only an order of the caller is returned.
MayReturn(r, o) == orders[o].userId = req[r].user

HandleConflict(r) ==
  /\ pc[r] = "conflict"
  /\ \/ \E o \in WithKey(req[r].key) : MayReturn(r, o) /\ AnswerWith(r, o)
     \/ /\ \A o \in WithKey(req[r].key) : ~MayReturn(r, o)
        /\ Fail(r)

-----------------------------------------------------------------------------
(* cancelOrder *)

Cancellable(o) == orders[o].status \notin {"CANCELLED", "CREATED"}

\* The shallow load with assertOrderOwnership and the status guards.
LoadShallow(c) ==
  /\ pc[c] = "new"
  /\ LET o == creq[c].order IN
       IF Exists(o) /\ orders[o].userId = creq[c].user /\ Cancellable(o)
         THEN Advance(c, "loadFull")
         ELSE Fail(c)

\* The load with items and products; the entity is kept in memory.
LoadFull(c) ==
  /\ pc[c] = "loadFull"
  /\ loaded' = [loaded EXCEPT ![c] = orders[creq[c].order]]
  /\ Goto(c, "locking")
  /\ UNCHANGED <<dbVars, req, creq, answer, writes, dirty, published>>

\* lockAndRestore: a product that was soft-deleted meanwhile is skipped.
RestoreStock(c) ==
  /\ AllLocked(c)
  /\ writes' = [writes EXCEPT ![c] =
                  [p \in Products |->
                     IF p \in held[c] THEN stock[p] + Total(loaded[c].items, p) ELSE 0]]
  /\ Goto(c, "diff")
  /\ UNCHANGED <<dbVars, req, creq, answer, loaded, dirty, published>>

(***************************************************************************)
(* orderRepo.save(order): TypeORM reads the row again and updates every    *)
(* column in which the entity differs from it, the ones this request never *)
(* changed included.                                                       *)
(***************************************************************************)
Entity(c) == [loaded[c] EXCEPT !.status = "CANCELLED"]

SaveDiff(c) ==
  /\ pc[c] = "diff"
  /\ dirty' = [dirty EXCEPT ![c] =
                 {f \in {"status", "paymentId"} : Entity(c)[f] # orders[creq[c].order][f]}]
  /\ Goto(c, "update")
  /\ UNCHANGED <<dbVars, req, creq, answer, writes, loaded, published>>

Saved(c) ==
  [orders[creq[c].order] EXCEPT
     !.status = IF "status" \in dirty[c] THEN Entity(c).status ELSE @,
     !.paymentId = IF "paymentId" \in dirty[c] THEN Entity(c).paymentId ELSE @]

CommitCancel(c) ==
  /\ pc[c] = "update"
  /\ orders' = [orders EXCEPT ![creq[c].order] = Saved(c)]
  /\ CommitStock(c)
  /\ answer' = [answer EXCEPT ![c] = creq[c].order]
  /\ Goto(c, "answered")
  /\ UNCHANGED <<inactive, deleted, req, creq, loaded, dirty, published>>

-----------------------------------------------------------------------------
(* Failures *)

\* t waits for a row lock or for the end of another insert of its key.
Waiting(t) ==
  \/ pc[t] = "locking" /\ \E p \in ToLock(t) : ~RowFree(t, p)
  \/ t \in Creates /\ pc[t] = "insert" /\ KeyBusy(t)

\* A variant of WaitAborted: no timeout is set and no deadlock detected.
WaitAborted_Never(t) == FALSE /\ UNCHANGED vars

\* lock_timeout (55P03) or the deadlock detector (40P01) ends a wait.
WaitAborted(t) ==
  /\ Waiting(t)
  /\ Goto(t, "failed")
  /\ Rollback(t)

\* statement_timeout (57014) or any other database error: an open transaction
\* is rolled back and the request fails.
StatementFails(t) ==
  /\ pc[t] \notin Done \cup {"publish"}
  /\ Goto(t, "failed")
  /\ Rollback(t)

\* The process dies: its open transactions are rolled back by PostgreSQL.
Crash(t) ==
  /\ pc[t] \notin Done
  /\ Goto(t, "crashed")
  /\ Rollback(t)

\* ProductsService.remove: soft delete, an UPDATE that waits for row locks.
RemoveProduct(p) ==
  /\ p \notin deleted
  /\ \A t \in Txs : p \notin held[t]
  /\ deleted' = deleted \cup {p}
  /\ UNCHANGED <<stock, inactive, orders, held, reqVars>>

-----------------------------------------------------------------------------
CreateStep(r) ==
  \/ ValidateRequest(r) \/ CheckIdempotency(r) \/ ValidateExist(r)
  \/ DecrementStock(r) \/ InsertOrder(r) \/ CommitOrder(r)
  \/ Publish(r) \/ PublishLost(r) \/ PublishThrows(r) \/ HandleConflict(r)

CancelStep(c) ==
  \/ LoadShallow(c) \/ LoadFull(c) \/ RestoreStock(c) \/ SaveDiff(c) \/ CommitCancel(c)

LockStep(t) == \E p \in Products : LockProduct(t, p)

Next ==
  \/ \E r \in Creates : CreateStep(r)
  \/ \E c \in Cancels : CancelStep(c)
  \/ \E t \in Requests : LockStep(t) \/ WaitAborted(t) \/ StatementFails(t) \/ Crash(t)
  \/ \E p \in Products : RemoveProduct(p)

Spec == Init /\ [][Next]_vars

(***************************************************************************)
(* The event loop keeps running started requests, PostgreSQL answers their *)
(* statements, and a wait for a row ends: with the lock or with a timeout. *)
(***************************************************************************)
Fairness ==
  /\ \A r \in Creates : WF_vars(CreateStep(r))
  /\ \A c \in Cancels : WF_vars(CancelStep(c))
  /\ \A t \in Requests : WF_vars(LockStep(t) \/ WaitAborted(t))

FairSpec == Spec /\ Fairness

-----------------------------------------------------------------------------
(* Properties *)

\* Type correctness of every table and of every request's local state.
TypeOK ==
  /\ DbTypeOK
  /\ pc \in [Requests -> CreatePcs \cup CancelPcs]
  /\ req \in [Creates -> CreateRequest]
  /\ creq \in [Cancels -> CancelRequest]
  /\ answer \in [Requests -> OrderIds \cup {NoOrder}]
  /\ writes \in [Requests -> [Products -> Int]]
  /\ loaded \in [Cancels -> Order \cup {NoOrder}]
  /\ dirty \in [Cancels -> SUBSET {"status", "paymentId"}]
  /\ published \subseteq OrderIds

\* Orders of baskets that name a product once never sell more than is in
\* stock, however the transactions interleave, fail or crash
\* (lockValidateAndDecrement).
StockNeverNegative == \A p \in Products : stock[p] >= 0

\* The units of product p in all committed orders, and in all completed
\* cancellations.
Placed == {o \in OrderIds : Exists(o)}

Sold(p) == SumFunctionOnSet([o \in Placed |-> Total(orders[o].items, p)], Placed)

Completed == {c \in Cancels : pc[c] = "answered"}

Restored(p) ==
  SumFunctionOnSet([c \in Completed |-> Total(orders[creq[c].order].items, p)], Completed)

\* The stock of a live product is the initial stock less every committed
\* order plus every completed cancellation: no decrement and no restore is
\* lost, doubled or left behind by a rollback (decrementStock, restoreStock,
\* saveProducts).
LedgerBalanced ==
  \A p \in Products \ deleted : stock[p] = InitialStock[p] - Sold(p) + Restored(p)

\* The step that makes order r visible.
OrderCommitted(r) == ~Exists(r) /\ orders'[r] # NoOrder

\* The step in which cancellation c commits.
CancelCommitted(c) == pc[c] # "answered" /\ pc'[c] = "answered"

\* Stock and orders move together: the commit of an order takes exactly its
\* quantities from the current stock, and nothing else changes stock except
\* the commit of a cancellation, which returns exactly the quantities of its
\* order (executeOrderTransaction, executeCancelTransaction).
StockMovesWithOrders ==
  [][/\ \A r \in Creates : OrderCommitted(r) =>
          \A p \in Products : stock'[p] = stock[p] - Total(orders'[r].items, p)
     /\ \A p \in Products : stock'[p] # stock[p] =>
          \/ \E r \in Creates : OrderCommitted(r)
          \/ \E c \in Cancels :
               CancelCommitted(c) /\ stock'[p] = stock[p] + Total(orders[creq[c].order].items, p)
    ]_vars

\* Requests sent with the same idempotency key and answered with an order
\* are answered with the same order (checkIdempotency, the unique index and
\* handleCreationError together).
SameKeySameOrder ==
  \A r, s \in Creates :
    /\ pc[r] = "answered" /\ pc[s] = "answered"
    /\ req[r].key = req[s].key /\ req[r].key # NoKey
    => answer[r] = answer[s]

\* A message is published only for an order the worker can already read
\* (publishOrderProcessing runs after the transaction).
PublishedIsCommitted == \A o \in published : Exists(o)

Lifecycle == INSTANCE OrderLifecycle WITH Orders <- OrderIds, status <- StatusOf

\* Creation and cancellation on their own move an order only along its
\* lifecycle: placed as PENDING, then possibly CANCELLED, by however many
\* concurrent cancellations (executeOrderTransaction, executeCancelTransaction).
FollowsLifecycle == Lifecycle!Spec

\* Every request ends: lock waits, deadlocks between baskets and waits for
\* an idempotency key are all resolved (applyTransactionTimeouts).
EveryRequestEnds == \A t \in Requests : <>(pc[t] \in Done)

-----------------------------------------------------------------------------
(* The inductive invariant behind the theorems of OrderSystemProofs *)

\* A product row is locked by one transaction, and only while it is open.
LocksExclusive ==
  /\ \A t, q \in Txs : t # q => held[t] \cap held[q] = {}
  /\ \A t \in Txs : held[t] # {} => t \in Requests /\ pc[t] \in InTx

\* Every request is at a place of its own handler; a cancellation that got
\* past its guards has an order, and its entity has that order's items.
RequestsConsistent ==
  /\ \A r \in Creates : pc[r] \in CreatePcs /\ held[r] \subseteq Wanted(req[r].items)
  /\ \A c \in Cancels :
       /\ pc[c] \in CancelPcs
       /\ pc[c] \in CancelPcs \ ({"new"} \cup Done) => Exists(creq[c].order)
       /\ pc[c] \in {"locking", "diff", "update"} =>
            loaded[c] \in Order /\ loaded[c].items = orders[creq[c].order].items

\* A creation request that has not committed has no row.
RowOnlyAfterCommit ==
  \A r \in Creates : pc[r] \in CreatePcs \ ({"publish"} \cup Done) => ~Exists(r)

\* The uncommitted stock values are computed from the committed ones, which
\* the locks keep in place until the commit.
WritesCurrent ==
  /\ \A r \in Creates : pc[r] \in {"insert", "inserted"} =>
       /\ held[r] = Wanted(req[r].items)
       /\ \A p \in held[r] : /\ writes[r][p] = stock[p] - Total(req[r].items, p)
                             /\ NoRepeats => writes[r][p] >= 0
  /\ \A c \in Cancels : pc[c] \in {"diff", "update"} =>
       \A p \in held[c] : writes[c][p] = stock[p] + Total(loaded[c].items, p)

IInv ==
  /\ TypeOK /\ LocksExclusive /\ RequestsConsistent /\ RowOnlyAfterCommit
  /\ WritesCurrent /\ (NoRepeats => StockNeverNegative)

\* A key belongs to one order, an insert that passed the unique index is the
\* only one of its key, and an answer names an order with the caller's key.
KeysConsistent ==
  /\ \A o, q \in OrderIds :
       Exists(o) /\ Exists(q) /\ orders[o].key = orders[q].key /\ orders[o].key # NoKey => o = q
  /\ \A r \in Creates : pc[r] = "inserted" /\ req[r].key # NoKey =>
       /\ WithKey(req[r].key) = {}
       /\ \A q \in Creates \ {r} : pc[q] = "inserted" => req[q].key # req[r].key
  /\ \A r \in Creates : /\ pc[r] = "publish" => Exists(r)
                        /\ Exists(r) => orders[r].key = req[r].key
                        /\ pc[r] = "answered" =>
                             /\ answer[r] \in OrderIds /\ Exists(answer[r])
                             /\ orders[answer[r]].key = req[r].key
  /\ PublishedIsCommitted

\* No operation of the code assigns CREATED.
NeverCreated == \A o \in OrderIds : Exists(o) => orders[o].status # "CREATED"

\* What keeps the ledger balanced: a cancellation that has computed its stock
\* values has locked every product of its order that is not soft-deleted, and
\* a completed one had an order.
LedgerKept ==
  /\ LedgerBalanced
  /\ \A c \in Cancels :
       /\ pc[c] \in {"diff", "update"} => Wanted(loaded[c].items) \ deleted \subseteq held[c]
       /\ pc[c] = "answered" => Exists(creq[c].order)

InductiveInv == IInv /\ KeysConsistent /\ NeverCreated
=============================================================================
