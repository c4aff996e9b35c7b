------------------------- MODULE OrderWorkerProofs -------------------------
(***************************************************************************)
(* Theorems about OrderWorker, for every number of orders and handlers.    *)
(***************************************************************************)
EXTENDS OrderWorker, TLAPS

\* The message bodies the handler publishes are message bodies.
LEMMA MessageFacts ==
  ASSUME WTypeOK, NEW w \in Workers
  PROVE  /\ NoMsg \in Messages
         /\ msg[w] \in Messages
         /\ [msg[w] EXCEPT !.attempt = 0] \in Messages
         /\ [msg[w] EXCEPT !.attempt = Attempt(w)] \in Messages
         /\ MayRetry(w) => RetryCopy(w) \in Messages
         /\ OrderOf(w) \in OrderIds \cup {NoOrder}
         /\ msg[w].attempt \in 0..MaxAttempts
<1>1. msg[w] \in Messages
  BY DEF WTypeOK
<1>2. Attempt(w) \in 0..MaxAttempts
  BY <1>1, WorkerAssumption DEF Attempt, Messages
<1>3. MayRetry(w) => Attempt(w) + 1 \in 0..MaxAttempts
  BY <1>2, WorkerAssumption DEF MayRetry
<1>4. /\ NoMsg \in Messages
      /\ [msg[w] EXCEPT !.attempt = 0] \in Messages
  BY <1>1, WorkerAssumption DEF Messages, NoMsg, Kinds
<1> QED
  BY <1>1, <1>2, <1>3, <1>4 DEF Messages, RetryCopy, OrderOf

\* The row the worker saves is an order row.
LEMMA SavedRowType ==
  ASSUME WIInv, NEW w \in Workers, at[w] = "update"
  PROVE  /\ OrderOf(w) \in OrderIds
         /\ orders[OrderOf(w)] \in Order
         /\ SavedRow(w) = [orders[OrderOf(w)] EXCEPT !.status = "PROCESSED"]
         /\ SavedRow(w) \in Order
         /\ orders[OrderOf(w)].status = "PENDING"
<1> DEFINE o == OrderOf(w)
<1>1. /\ o \in OrderIds /\ Exists(o) /\ entity[w] = orders[o]
      /\ entity[w].status = "PENDING" /\ changed[w] = {"status"}
  BY DEF WIInv, HandlersConsistent, Found
<1>2. orders[o] \in Order
  BY <1>1 DEF WIInv, WTypeOK, DbTypeOK, Exists
<1>3. SavedRow(w) = [orders[o] EXCEPT !.status = "PROCESSED"]
  BY <1>1, <1>2 DEF SavedRow, ProcessedEntity, Order
<1> QED
  BY <1>1, <1>2, <1>3 DEF Order, OrderStatus

-----------------------------------------------------------------------------
(* Type correctness *)

\* A move to a label keeps the types.
LEMMA StepType ==
  ASSUME WTypeOK, NEW w \in Workers, NEW label \in Labels, Step(w, label)
  PROVE  at' \in [Workers -> Labels]
  BY DEF WTypeOK, Step

\* A step that only moves the handler keeps the types.
LEMMA GoType ==
  ASSUME WTypeOK, NEW w \in Workers, NEW label \in Labels, Go(w, label)
  PROVE  WTypeOK'
  BY StepType DEF WTypeOK, DbTypeOK, Go, dbVars, brokerVars

\* The end of a handler leaves well-typed local variables.
LEMMA FinishType ==
  ASSUME WTypeOK, NEW w \in Workers, Finish(w)
  PROVE  /\ at' \in [Workers -> Labels]
         /\ msg' \in [Workers -> Messages]
         /\ entity' \in [Workers -> Order \cup {NoOrder}]
         /\ changed' \in [Workers -> SUBSET {"status", "paymentId"}]
  BY MessageFacts DEF WTypeOK, Finish, Labels

\* Adding a copy to a queue keeps its type.
LEMMA AddType ==
  ASSUME NEW q \in [Messages -> Nat], NEW m \in Messages
  PROVE  /\ Add(q, m) \in [Messages -> Nat]
         /\ Add(q, m)[m] > 0
         /\ \A n \in Messages : q[n] > 0 => Add(q, m)[n] > 0
  BY DEF Add

\* Every step of the worker keeps the types of the tables, the queues and the
\* handlers' local variables.
LEMMA NextType ==
  ASSUME WIInv, WorkerNext
  PROVE  WTypeOK'
<1> USE DEF dbVars, brokerVars
<1>0. WTypeOK /\ DbTypeOK
  BY DEF WIInv, WTypeOK
<1>1. ASSUME NEW w \in Workers, NEW m \in Messages, Deliver(w, m)
      PROVE  WTypeOK'
  <2>1. queue' \in [Messages -> Nat] /\ msg' \in [Workers -> Messages]
    BY <1>0, <1>1 DEF Deliver, WTypeOK
  <2> QED
    BY <1>0, <1>1, <2>1, StepType DEF Deliver, WTypeOK, DbTypeOK, Labels
<1>2. ASSUME NEW w \in Workers, ParseMessage(w)
      PROVE  WTypeOK'
  <2>1. CASE msg[w].kind = "order" /\ Go(w, "find")
    BY <1>0, <2>1, GoType DEF Labels
  <2>2. CASE /\ dlq' = Add(dlq, [msg[w] EXCEPT !.attempt = 0])
             /\ Step(w, "ack")
             /\ UNCHANGED <<dbVars, queue, msg, entity, changed, channel, processed,
                            payments, late, calls, audit, faults>>
    BY <1>0, <2>2, AddType, MessageFacts, StepType DEF WTypeOK, DbTypeOK, Labels
  <2>3. CASE /\ Finish(w)
             /\ UNCHANGED <<dbVars, brokerVars, channel, processed, payments, late,
                            calls, audit, faults>>
    BY <1>0, <2>3, FinishType DEF WTypeOK, DbTypeOK
  <2> QED
    BY <1>2, <2>1, <2>2, <2>3 DEF ParseMessage
<1>3. ASSUME NEW w \in Workers, FindProcessed(w) \/ InsertProcessed(w)
      PROVE  WTypeOK'
  BY <1>0, <1>3, GoType DEF FindProcessed, InsertProcessed, Labels, Inserted
<1>4. ASSUME NEW w \in Workers, LoadOrder(w)
      PROVE  WTypeOK'
  <2>1. CASE Go(w, "failed")
    BY <1>0, <2>1, GoType DEF Labels
  <2>2. CASE /\ Found(OrderOf(w))
             /\ entity' = [entity EXCEPT ![w] = orders[OrderOf(w)]]
             /\ Step(w, "diff")
             /\ UNCHANGED <<dbVars, brokerVars, msg, changed, channel, processed,
                            payments, late, calls, audit, faults>>
    <3>1. entity' \in [Workers -> Order \cup {NoOrder}]
      BY <1>0, <2>2 DEF WTypeOK, DbTypeOK, Found
    <3> QED
      BY <1>0, <2>2, <3>1, StepType DEF WTypeOK, DbTypeOK, Labels, Inserted
  <2>3. CASE /\ Found(OrderOf(w))
             /\ processed' = processed \cup {OrderOf(w)}
             /\ Step(w, "ack")
             /\ UNCHANGED <<dbVars, brokerVars, msg, entity, changed, channel,
                            payments, late, calls, audit, faults>>
    BY <1>0, <2>3, StepType DEF WTypeOK, DbTypeOK, Labels, Found
  <2> QED
    BY <1>4, <2>1, <2>2, <2>3 DEF LoadOrder
<1>5. ASSUME NEW w \in Workers, SaveRead(w)
      PROVE  WTypeOK'
  BY <1>0, <1>5, StepType DEF SaveRead, WTypeOK, DbTypeOK, Labels, Inserted
<1>6. ASSUME NEW w \in Workers, CommitProcessed(w)
      PROVE  WTypeOK'
  <2>1. orders' \in [OrderIds -> Order \cup {NoOrder}] /\ OrderOf(w) \in OrderIds
    BY <1>0, <1>6, SavedRowType DEF CommitProcessed, DbTypeOK
  <2> QED
    BY <1>0, <1>6, <2>1, StepType DEF CommitProcessed, WTypeOK, DbTypeOK, Labels
<1>7. ASSUME NEW w \in Workers,
             AuthorizeEmpty(w) \/ ProcessingFails(w)
      PROVE  WTypeOK'
  BY <1>0, <1>7, GoType DEF AuthorizeEmpty, ProcessingFails, Labels
<1>8. ASSUME NEW w \in Workers, at[w] \in Charging
      PROVE  OrderOf(w) \in OrderIds /\ Exists(OrderOf(w)) /\ orders[OrderOf(w)] \in Order
  BY <1>0, <1>8, WorkerAssumption DEF WIInv, HandlersConsistent, WTypeOK, DbTypeOK, Exists
<1>9. ASSUME NEW w \in Workers, at[w] \in Charging, PaymentFails(w), late' \subseteq OrderIds
      PROVE  WTypeOK'
  BY <1>0, <1>8, <1>9, StepType DEF PaymentFails, WTypeOK, DbTypeOK, Labels
<1>10. ASSUME NEW w \in Workers,
              CallAuthorize(w) \/ AuthorizeRefused(w) \/ AuthorizeTimesOut(w)
       PROVE  WTypeOK'
  <2>1. at[w] \in Charging
    BY <1>10 DEF CallAuthorize, AuthorizeRefused, AuthorizeTimesOut, Charging
  <2>2. CASE PaymentFails(w) /\ late' \in {late, late \cup {OrderOf(w)}}
    BY <1>0, <1>8, <1>9, <2>1, <2>2 DEF WTypeOK
  <2>3. CASE Go(w, "failed")
    BY <1>0, <2>3, GoType DEF Labels
  <2>4. CASE /\ calls' = [calls EXCEPT ![OrderOf(w)] = @ + 1]
             /\ Step(w, "waiting")
             /\ UNCHANGED <<dbVars, brokerVars, msg, entity, changed, channel,
                            processed, payments, late, audit, faults>>
    <3>1. calls' \in [OrderIds -> Nat]
      BY <1>0, <1>8, <2>1, <2>4 DEF WTypeOK
    <3> QED
      BY <1>0, <2>4, <3>1, StepType DEF WTypeOK, DbTypeOK, Labels
  <2> QED
    BY <1>10, <2>2, <2>3, <2>4 DEF CallAuthorize, AuthorizeRefused, AuthorizeTimesOut
<1>11. ASSUME NEW w \in Workers, AuthorizeOk(w)
       PROVE  WTypeOK'
  BY <1>0, <1>8, <1>11, StepType DEF AuthorizeOk, WTypeOK, DbTypeOK, Labels, Charging
<1>12. ASSUME NEW w \in Workers, RecordPayment(w)
       PROVE  WTypeOK'
  <2>0. at[w] \in Charging
    BY <1>12 DEF RecordPayment, Charging
  <2>1. CASE PaymentFails(w) /\ UNCHANGED late
    BY <1>0, <1>9, <2>0, <2>1 DEF WTypeOK
  <2>2. CASE /\ orders' = [orders EXCEPT ![OrderOf(w)] =
                             [@ EXCEPT !.status = "PAID", !.paymentId = OrderOf(w)]]
             /\ \/ Step(w, "ack") /\ UNCHANGED audit
                \/ Step(w, "failed") /\ audit' = audit \cup {OrderOf(w)}
             /\ UNCHANGED <<stock, inactive, deleted, held, brokerVars, msg, entity,
                            changed, channel, processed, payments, late, calls, faults>>
    <3>1. [orders[OrderOf(w)] EXCEPT !.status = "PAID", !.paymentId = OrderOf(w)] \in Order
      BY <1>8, <2>0, WorkerAssumption DEF Order, OrderStatus
    <3>2. orders' \in [OrderIds -> Order \cup {NoOrder}]
      BY <1>0, <1>8, <2>0, <2>2, <3>1 DEF DbTypeOK
    <3> QED
      BY <1>0, <1>8, <2>0, <2>2, <3>2, StepType DEF WTypeOK, DbTypeOK, Labels
  <2> QED
    BY <1>12, <2>1, <2>2 DEF RecordPayment
<1>13. ASSUME NEW w \in Workers, RetryOrDlq(w)
       PROVE  WTypeOK'
  <2>1. queue' \in [Messages -> Nat] /\ dlq' \in [Messages -> Nat]
    <3>1. queue \in [Messages -> Nat] /\ dlq \in [Messages -> Nat]
      BY <1>0 DEF WTypeOK
    <3>2. CASE MayRetry(w)
      BY <1>0, <1>13, <3>1, <3>2, MessageFacts, AddType DEF RetryOrDlq
    <3>3. CASE ~MayRetry(w)
      BY <1>0, <1>13, <3>1, <3>3, MessageFacts, AddType DEF RetryOrDlq
    <3> QED
      BY <3>2, <3>3
  <2> QED
    BY <1>0, <1>13, <2>1, StepType DEF RetryOrDlq, WTypeOK, DbTypeOK, Labels
<1>14. ASSUME NEW w \in Workers, PublishThrowsInHandler(w) \/ Ack(w)
       PROVE  WTypeOK'
  BY <1>0, <1>14, FinishType DEF PublishThrowsInHandler, Ack, WTypeOK, DbTypeOK
<1>15. ASSUME NEW w \in Workers
       PROVE  Requeued(w) \in [Messages -> Nat]
  BY <1>0, AddType, MessageFacts DEF Requeued, WTypeOK
<1>16. ASSUME NEW w \in Workers, ChannelCloses(w)
       PROVE  WTypeOK'
  <2>1. faults + 1 \in 0..MaxFaults
    BY <1>0, <1>16, WorkerAssumption DEF ChannelCloses, WTypeOK
  <2> QED
    BY <1>0, <1>15, <1>16, <2>1 DEF ChannelCloses, WTypeOK, DbTypeOK
<1>17. ASSUME NEW w \in Workers, Crash(w) \/ Replace(w)
       PROVE  WTypeOK'
  <2>1. faults' \in 0..MaxFaults
    BY <1>0, <1>17, WorkerAssumption DEF Crash, Replace, WTypeOK
  <2>2. Restart(w)
    BY <1>17 DEF Crash, Replace
  <2>3. late' \subseteq OrderIds
    BY <1>0, <1>8, <2>2 DEF Restart, WTypeOK, Charging
  <2>4. channel' \in [Workers -> {"open", "closed"}]
    BY <1>0, <2>2 DEF Restart, WTypeOK
  <2> QED
    BY <1>0, <1>15, <2>1, <2>2, <2>3, <2>4, FinishType DEF Restart, WTypeOK, DbTypeOK
<1>18. ASSUME NEW o \in OrderIds, LateAuthorize(o)
       PROVE  WTypeOK'
  BY <1>0, <1>18 DEF LateAuthorize, WTypeOK, DbTypeOK
<1> QED
  BY <1>1, <1>2, <1>3, <1>4, <1>5, <1>6, <1>7, <1>10, <1>11, <1>12, <1>13, <1>14,
     <1>16, <1>17, <1>18 DEF WorkerNext, HandlerStep

-----------------------------------------------------------------------------
(* Handlers and the payment *)

\* A handler that moves without writing anything, to a place outside the
\* transaction and before the payment, keeps the handlers consistent.
LEMMA QuietMove ==
  ASSUME WIInv, NEW w \in Workers,
         at' = [at EXCEPT ![w] = "find"] \/ at' = [at EXCEPT ![w] = "insert"]
           \/ at' = [at EXCEPT ![w] = "failed"] \/ at' = [at EXCEPT ![w] = "ack"]
           \/ at' = [at EXCEPT ![w] = "idle"] \/ at' = [at EXCEPT ![w] = "parse"],
         at'[w] \notin {"idle", "parse", "ack"} => msg[w].kind = "order",
         \A v \in Workers \ {w} : msg'[v] = msg[v] /\ entity'[v] = entity[v] /\ changed'[v] = changed[v],
         at'[w] \notin {"idle", "parse", "ack"} => msg'[w] = msg[w],
         payments \subseteq payments',
         UNCHANGED <<orders, processed, calls>>
  PROVE  HandlersConsistent' /\ UntouchedBefore' /\ AuthorizedOnce' /\ PaidHasPayment'
<1>1. at \in [Workers -> Labels]
  BY DEF WIInv, WTypeOK
<1>2. \A v \in Workers \ {w} : at'[v] = at[v] /\ msg'[v] = msg[v] /\ OrderOf(v)' = OrderOf(v)
  BY <1>1 DEF OrderOf
<1>3. at'[w] \in {"find", "insert", "failed", "ack", "idle", "parse"}
  BY <1>1
<1>4. HandlersConsistent'
  BY <1>2, <1>3 DEF WIInv, HandlersConsistent, Inserted, Charging, Found, Exists
<1> QED
  BY <1>4 DEF WIInv, UntouchedBefore, AuthorizedOnce, PaidHasPayment, Exists

\* A step that moves no handler and writes neither orders nor message rows.
LEMMA OutsideMove ==
  ASSUME WIInv, payments \subseteq payments',
         UNCHANGED <<at, msg, entity, changed, orders, processed, calls>>
  PROVE  HandlersConsistent' /\ UntouchedBefore' /\ AuthorizedOnce' /\ PaidHasPayment'
  BY DEF WIInv, HandlersConsistent, UntouchedBefore, AuthorizedOnce, PaidHasPayment,
         OrderOf, Found, Exists

\* Every step keeps the handlers consistent, asks for a payment at most once
\* and leaves a payment behind every PAID order.
LEMMA NextHandlers ==
  ASSUME WIInv, WorkerNext
  PROVE  HandlersConsistent' /\ UntouchedBefore' /\ AuthorizedOnce' /\ PaidHasPayment'
<1> DEFINE Goal == HandlersConsistent' /\ UntouchedBefore' /\ AuthorizedOnce' /\ PaidHasPayment'
<1> USE DEF dbVars, brokerVars
<1>0. /\ WTypeOK /\ DbTypeOK /\ HandlersConsistent /\ UntouchedBefore /\ AuthorizedOnce
      /\ PaidHasPayment /\ at \in [Workers -> Labels] /\ msg \in [Workers -> Messages]
      /\ entity \in [Workers -> Order \cup {NoOrder}]
      /\ changed \in [Workers -> SUBSET {"status", "paymentId"}]
      /\ orders \in [OrderIds -> Order \cup {NoOrder}]
      /\ processed \subseteq OrderIds /\ calls \in [OrderIds -> Nat]
  BY DEF WIInv, WTypeOK, DbTypeOK
<1>1. ASSUME NEW w \in Workers, NEW m \in Messages, Deliver(w, m)
      PROVE  Goal
  BY <1>0, <1>1, QuietMove DEF Deliver, Step
<1>2. ASSUME NEW w \in Workers, Finish(w), UNCHANGED <<orders, processed, calls, payments>>
      PROVE  Goal
  BY <1>0, <1>2, QuietMove DEF Finish
<1>3. ASSUME NEW w \in Workers,
             Go(w, "find") \/ Go(w, "insert") \/ Go(w, "failed") \/ Go(w, "ack"),
             msg[w].kind = "order"
      PROVE  Goal
  BY <1>0, <1>3, QuietMove DEF Go, Step
<1>4. ASSUME NEW w \in Workers, PaymentFails(w), at[w] \in Charging
      PROVE  Goal
  <2>1. msg[w].kind = "order"
    BY <1>0, <1>4 DEF HandlersConsistent, Charging
  <2> QED
    BY <1>0, <1>4, <2>1, QuietMove DEF PaymentFails, Step
<1>5. ASSUME NEW w \in Workers, ParseMessage(w)
      PROVE  Goal
  <2>1. CASE msg[w].kind = "order" /\ Go(w, "find")
    BY <1>3, <2>1
  <2>2. CASE /\ Step(w, "ack")
             /\ UNCHANGED <<dbVars, queue, msg, entity, changed, channel, processed,
                            payments, late, calls, audit, faults>>
    BY <1>0, <2>2, QuietMove DEF Step
  <2>3. CASE /\ Finish(w)
             /\ UNCHANGED <<dbVars, brokerVars, channel, processed, payments, late,
                            calls, audit, faults>>
    BY <1>2, <2>3
  <2> QED
    BY <1>5, <2>1, <2>2, <2>3 DEF ParseMessage
<1>6. ASSUME NEW w \in Workers, at[w] \notin {"idle", "parse", "ack"}
      PROVE  msg[w].kind = "order"
  BY <1>0, <1>6 DEF HandlersConsistent
<1>7. ASSUME NEW w \in Workers,
             FindProcessed(w) \/ AuthorizeEmpty(w) \/ ProcessingFails(w)
      PROVE  Goal
  BY <1>3, <1>6, <1>7 DEF FindProcessed, AuthorizeEmpty, ProcessingFails, Inserted
<1>8. ASSUME NEW w \in Workers, InsertProcessed(w)
      PROVE  Goal
  <2>1. CASE AlreadyProcessed(OrderOf(w))
    BY <1>3, <1>6, <1>8, <2>1 DEF InsertProcessed
  <2>2. CASE ~AlreadyProcessed(OrderOf(w))
    <3>1. Go(w, "load") /\ at[w] = "insert"
      BY <1>8, <2>2 DEF InsertProcessed
    <3>2. \A v \in Workers \ {w} : at[v] \in Inserted => OrderOf(v) # OrderOf(w)
      BY <1>8 DEF InsertProcessed, InsertBusy
    <3>3. /\ \A v \in Workers \ {w} : at'[v] = at[v]
          /\ at'[w] = "load"
          /\ \A v \in Workers : OrderOf(v)' = OrderOf(v)
      BY <1>0, <3>1 DEF Go, Step, OrderOf
    <3>4. OrderOf(w) \notin processed
      BY <2>2 DEF AlreadyProcessed
    <3>5. HandlersConsistent'
      BY <1>0, <1>6, <3>1, <3>2, <3>3, <3>4
         DEF Go, HandlersConsistent, Inserted, Charging, Found, Exists
    <3> QED
      BY <1>0, <3>1, <3>5 DEF Go, UntouchedBefore, AuthorizedOnce, PaidHasPayment, Exists
  <2> QED
    BY <2>1, <2>2
<1>9. ASSUME NEW w \in Workers, LoadOrder(w)
      PROVE  Goal
  <2>0. at[w] = "load" /\ OrderOf(w) \notin processed
    BY <1>0, <1>9 DEF LoadOrder, HandlersConsistent, Inserted
  <2>1. CASE Go(w, "failed")
    BY <1>3, <1>6, <2>0, <2>1
  <2>2. CASE /\ Found(OrderOf(w)) /\ Processable(OrderOf(w))
             /\ entity' = [entity EXCEPT ![w] = orders[OrderOf(w)]]
             /\ Step(w, "diff")
             /\ UNCHANGED <<dbVars, brokerVars, msg, changed, channel, processed,
                            payments, late, calls, audit, faults>>
    <3>1. /\ \A v \in Workers \ {w} : at'[v] = at[v] /\ entity'[v] = entity[v]
          /\ at'[w] = "diff" /\ entity'[w] = orders[OrderOf(w)]
          /\ \A v \in Workers : OrderOf(v)' = OrderOf(v)
      BY <1>0, <2>2 DEF Step, OrderOf
    <3>2. HandlersConsistent'
      BY <1>0, <2>0, <2>2, <3>1
         DEF HandlersConsistent, Inserted, Charging, Found, Exists, Processable
    <3> QED
      BY <1>0, <2>2, <3>2 DEF UntouchedBefore, AuthorizedOnce, PaidHasPayment, Exists
  <2>3. CASE /\ Found(OrderOf(w)) /\ ~Processable(OrderOf(w))
             /\ processed' = processed \cup {OrderOf(w)}
             /\ Step(w, "ack")
             /\ UNCHANGED <<dbVars, brokerVars, msg, entity, changed, channel,
                            payments, late, calls, audit, faults>>
    <3>1. /\ \A v \in Workers \ {w} : at'[v] = at[v]
          /\ at'[w] = "ack"
          /\ \A v \in Workers : OrderOf(v)' = OrderOf(v)
      BY <1>0, <2>3 DEF Step, OrderOf
    <3>2. HandlersConsistent'
      BY <1>0, <2>0, <2>3, <3>1 DEF HandlersConsistent, Inserted, Charging, Found, Exists
    <3> QED
      BY <1>0, <2>3, <3>2 DEF UntouchedBefore, AuthorizedOnce, PaidHasPayment, Exists
  <2> QED
    BY <1>9, <2>1, <2>2, <2>3 DEF LoadOrder
<1>10. ASSUME NEW w \in Workers, SaveRead(w)
       PROVE  Goal
  <2>1. /\ Found(OrderOf(w)) /\ entity[w] = orders[OrderOf(w)]
        /\ entity[w].status = "PENDING" /\ at[w] = "diff" /\ entity[w] \in Order
    BY <1>0, <1>10 DEF SaveRead, HandlersConsistent, Found, Exists
  <2>2. changed'[w] = {"status"}
    BY <1>0, <1>10, <2>1 DEF SaveRead, ProcessedEntity, Order
  <2>3. /\ \A v \in Workers \ {w} : at'[v] = at[v] /\ changed'[v] = changed[v]
        /\ at'[w] = "update"
        /\ \A v \in Workers : OrderOf(v)' = OrderOf(v)
    BY <1>0, <1>10 DEF SaveRead, Step, OrderOf
  <2>4. HandlersConsistent'
    BY <1>0, <1>10, <2>1, <2>2, <2>3
       DEF SaveRead, HandlersConsistent, Inserted, Charging, Found, Exists
  <2> QED
    BY <1>0, <1>10, <2>4 DEF SaveRead, UntouchedBefore, AuthorizedOnce, PaidHasPayment, Exists
<1>11. ASSUME NEW w \in Workers, CommitProcessed(w)
       PROVE  Goal
  <2> DEFINE o == OrderOf(w)
  <2>1. /\ at[w] = "update" /\ o \in OrderIds /\ Exists(o) /\ o \notin processed
        /\ orders[o] \in Order /\ calls[o] = 0
        /\ SavedRow(w) = [orders[o] EXCEPT !.status = "PROCESSED"]
        /\ SavedRow(w) \in Order
    BY <1>0, <1>11, SavedRowType
       DEF CommitProcessed, HandlersConsistent, Found, Inserted, UntouchedBefore
  <2>2. /\ \A v \in Workers \ {w} : at'[v] = at[v]
        /\ at'[w] \in {"authorize", "ack"}
        /\ \A v \in Workers : OrderOf(v)' = OrderOf(v)
        /\ orders' = [orders EXCEPT ![o] = SavedRow(w)]
        /\ processed' = processed \cup {o}
    BY <1>0, <1>11 DEF CommitProcessed, Step, OrderOf
  <2>3. /\ orders'[o].status = "PROCESSED" /\ orders'[o] # NoOrder
        /\ \A q \in OrderIds \ {o} : orders'[q] = orders[q]
    BY <1>0, <2>1, <2>2, WorkerAssumption DEF Order
  <2>4. \A v \in Workers \ {w} : at[v] \in Inserted \cup Charging => OrderOf(v) # o
    BY <1>0, <2>1 DEF HandlersConsistent, Inserted, Charging
  <2>5. UNCHANGED <<entity, changed, msg, calls, payments>>
    BY <1>11 DEF CommitProcessed
  <2>6. HandlersConsistent'
    BY <1>0, <1>6, <2>1, <2>2, <2>3, <2>4, <2>5
       DEF HandlersConsistent, Inserted, Charging, Found, Exists
  <2> QED
    BY <1>0, <2>2, <2>3, <2>5, <2>6 DEF UntouchedBefore, AuthorizedOnce, PaidHasPayment, Exists
<1>12. ASSUME NEW w \in Workers, at[w] \in Charging
       PROVE  /\ OrderOf(w) \in processed /\ OrderOf(w) \in OrderIds /\ Exists(OrderOf(w))
              /\ orders[OrderOf(w)] \in Order
              /\ \A v \in Workers \ {w} : at[v] \in Charging => OrderOf(v) # OrderOf(w)
              /\ \A v \in Workers \ {w} : at[v] \in Inserted => OrderOf(v) # OrderOf(w)
  BY <1>0, <1>12 DEF HandlersConsistent, Exists, Charging, Inserted
<1>13. ASSUME NEW w \in Workers, CallAuthorize(w)
       PROVE  Goal
  <2>0. at[w] = "authorize" /\ at[w] \in Charging /\ calls[OrderOf(w)] = 0
    BY <1>0, <1>13 DEF CallAuthorize, Charging, HandlersConsistent
  <2>1. CASE Go(w, "failed") \/ PaymentFails(w)
    BY <1>3, <1>4, <1>6, <2>0, <2>1
  <2>2. CASE /\ calls' = [calls EXCEPT ![OrderOf(w)] = @ + 1]
             /\ Step(w, "waiting")
             /\ UNCHANGED <<dbVars, brokerVars, msg, entity, changed, channel,
                            processed, payments, late, audit, faults>>
    <3>1. /\ \A v \in Workers \ {w} : at'[v] = at[v]
          /\ at'[w] = "waiting"
          /\ \A v \in Workers : OrderOf(v)' = OrderOf(v)
          /\ calls'[OrderOf(w)] = 1
          /\ \A q \in OrderIds \ {OrderOf(w)} : calls'[q] = calls[q]
      BY <1>0, <1>12, <2>0, <2>2 DEF Step, OrderOf
    <3>2. HandlersConsistent'
      BY <1>0, <1>12, <2>0, <2>2, <3>1
         DEF HandlersConsistent, Inserted, Charging, Found, Exists
    <3>3. AuthorizedOnce' /\ UntouchedBefore'
      BY <1>0, <1>12, <2>0, <2>2, <3>1 DEF UntouchedBefore, AuthorizedOnce, Exists
    <3> QED
      BY <1>0, <2>2, <3>2, <3>3 DEF PaidHasPayment, Exists
  <2> QED
    BY <1>13, <2>1, <2>2 DEF CallAuthorize
<1>14. ASSUME NEW w \in Workers, AuthorizeOk(w)
       PROVE  Goal
  <2>1. /\ \A v \in Workers \ {w} : at'[v] = at[v]
        /\ at[w] = "waiting" /\ at'[w] = "record" /\ at[w] \in Charging
        /\ \A v \in Workers : OrderOf(v)' = OrderOf(v)
        /\ payments' = payments \cup {OrderOf(w)}
        /\ UNCHANGED <<orders, msg, entity, changed, processed, calls>>
    BY <1>0, <1>14 DEF AuthorizeOk, Step, OrderOf, Charging
  <2>2. HandlersConsistent'
    BY <1>0, <2>1 DEF HandlersConsistent, Inserted, Charging, Found, Exists
  <2> QED
    BY <1>0, <2>1, <2>2 DEF UntouchedBefore, AuthorizedOnce, PaidHasPayment, Exists
<1>15. ASSUME NEW w \in Workers, RecordPayment(w)
       PROVE  Goal
  <2> DEFINE o == OrderOf(w)
  <2>0. at[w] = "record" /\ at[w] \in Charging /\ o \in payments
    BY <1>0, <1>15 DEF RecordPayment, Charging, HandlersConsistent
  <2>1. CASE PaymentFails(w)
    BY <1>4, <2>0, <2>1
  <2>2. CASE /\ orders' = [orders EXCEPT ![o] = [@ EXCEPT !.status = "PAID", !.paymentId = o]]
             /\ \/ Step(w, "ack") /\ UNCHANGED audit
                \/ Step(w, "failed") /\ audit' = audit \cup {OrderOf(w)}
             /\ UNCHANGED <<stock, inactive, deleted, held, brokerVars, msg, entity,
                            changed, channel, processed, payments, late, calls, faults>>
    <3>1. /\ \A v \in Workers \ {w} : at'[v] = at[v]
          /\ at'[w] \in {"ack", "failed"}
          /\ msg[w].kind = "order"
          /\ \A v \in Workers : OrderOf(v)' = OrderOf(v) /\ msg'[v] = msg[v]
      BY <1>0, <2>0, <2>2 DEF Step, OrderOf, HandlersConsistent
    <3>2. [orders[o] EXCEPT !.status = "PAID", !.paymentId = o] \in Order
      BY <1>12, <2>0, WorkerAssumption DEF Order, OrderStatus
    <3>3. /\ orders'[o] = [orders[o] EXCEPT !.status = "PAID", !.paymentId = o]
          /\ orders'[o].paymentId = o
          /\ orders'[o] # NoOrder
          /\ \A q \in OrderIds \ {o} : orders'[q] = orders[q]
      BY <1>0, <1>12, <2>0, <2>2, <3>2, WorkerAssumption DEF Order
    <3>4. HandlersConsistent'
      BY <1>0, <1>12, <2>0, <2>2, <3>1, <3>3
         DEF HandlersConsistent, Inserted, Charging, Found, Exists
    <3> QED
      BY <1>0, <1>12, <2>0, <2>2, <3>3, <3>4
         DEF UntouchedBefore, AuthorizedOnce, PaidHasPayment, Exists
  <2> QED
    BY <1>15, <2>1, <2>2 DEF RecordPayment
<1>16. ASSUME NEW w \in Workers, AuthorizeRefused(w) \/ AuthorizeTimesOut(w)
       PROVE  Goal
  BY <1>4, <1>16 DEF AuthorizeRefused, AuthorizeTimesOut, Charging
<1>17. ASSUME NEW w \in Workers, RetryOrDlq(w)
       PROVE  Goal
  BY <1>0, <1>6, <1>17, QuietMove DEF RetryOrDlq, Step
<1>18. ASSUME NEW w \in Workers, PublishThrowsInHandler(w) \/ Ack(w)
       PROVE  Goal
  BY <1>2, <1>18 DEF PublishThrowsInHandler, Ack
<1>19. ASSUME NEW w \in Workers, Crash(w) \/ Replace(w)
       PROVE  Goal
  BY <1>2, <1>19 DEF Crash, Replace, Restart
<1>20. ASSUME NEW w \in Workers, ChannelCloses(w)
       PROVE  Goal
  BY <1>20, OutsideMove DEF ChannelCloses
<1>21. ASSUME NEW o \in OrderIds, LateAuthorize(o)
       PROVE  Goal
  BY <1>21, OutsideMove DEF LateAuthorize
<1> QED
  BY <1>1, <1>5, <1>7, <1>8, <1>9, <1>10, <1>11, <1>13, <1>14, <1>15, <1>16, <1>17,
     <1>18, <1>19, <1>20, <1>21 DEF WorkerNext, HandlerStep

-----------------------------------------------------------------------------
(* Messages *)

\* An order is accounted for: processed, with a message under way, or dead-lettered.
Accounted(o) == o \in processed \/ Pending(o) \/ DeadLettered(o)

\* A step of handler w loses no message when it takes nothing from the queues,
\* leaves the other handlers alone and accounts for what w had in hand.
LEMMA HandOver ==
  ASSUME WIInv, NEW w \in Workers,
         processed \subseteq processed',
         \A m \in Messages : /\ queue[m] > 0 => queue'[m] > 0
                             /\ dlq[m] > 0 => dlq'[m] > 0,
         \A v \in Workers \ {w} : at'[v] = at[v] /\ msg'[v] = msg[v] /\ channel'[v] = channel[v],
         \A o \in OrderIds : InHand(w, o) => Accounted(o)'
  PROVE  MessageNotLost'
<1> SUFFICES ASSUME NEW o \in OrderIds
             PROVE  Accounted(o)'
  BY DEF MessageNotLost, Accounted
<1>1. Accounted(o)
  BY DEF WIInv, MessageNotLost, Accounted
<1>2. CASE o \in processed \/ DeadLettered(o) \/ \E m \in MessagesOf(o) : queue[m] > 0
  BY <1>2 DEF Accounted, DeadLettered, Pending, MessagesOf
<1>3. CASE \E v \in Workers : InHand(v, o)
  <2>1. PICK v \in Workers : InHand(v, o)
    BY <1>3
  <2>2. CASE v = w
    BY <2>1, <2>2
  <2>3. CASE v # w
    <3>1. InHand(v, o)'
      BY <2>1, <2>3 DEF InHand, MessagesOf
    <3> QED
      BY <3>1 DEF Accounted, Pending
  <2> QED
    BY <2>2, <2>3
<1> QED
  BY <1>1, <1>2, <1>3 DEF Accounted, Pending

\* A handler that stays in possession of its message loses none.
LEMMA KeepsHand ==
  ASSUME WIInv, NEW w \in Workers, NEW label \in Labels \ {"idle", "ack"},
         Step(w, label), UNCHANGED <<queue, dlq, msg, channel>>,
         processed \subseteq processed'
  PROVE  MessageNotLost'
<1>1. at \in [Workers -> Labels]
  BY DEF WIInv, WTypeOK
<1>2. \A v \in Workers \ {w} : at'[v] = at[v]
  BY <1>1 DEF Step
<1>3. ASSUME NEW o \in OrderIds, InHand(w, o)
      PROVE  Accounted(o)'
  <2>1. InHand(w, o)'
    BY <1>1, <1>3 DEF InHand, Step, MessagesOf
  <2> QED
    BY <2>1 DEF Accounted, Pending
<1> QED
  BY <1>2, <1>3, HandOver

\* A handler that acknowledges after the message row is committed loses none.
LEMMA AcksProcessed ==
  ASSUME WIInv, NEW w \in Workers, at' \in [Workers -> Labels],
         \A v \in Workers \ {w} : at'[v] = at[v],
         UNCHANGED <<queue, dlq, msg, channel>>,
         processed \subseteq processed',
         msg[w].kind = "order" => OrderOf(w) \in processed'
  PROVE  MessageNotLost'
<1>1. ASSUME NEW o \in OrderIds, InHand(w, o)
      PROVE  Accounted(o)'
  BY <1>1 DEF InHand, MessagesOf, OrderOf, Accounted
<1> QED
  BY <1>1, HandOver

\* A handler that ends, its message given back to the queue or not in hand.
LEMMA EndsSafely ==
  ASSUME WIInv, NEW w \in Workers, Finish(w), queue' = Requeued(w), UNCHANGED dlq,
         \A v \in Workers \ {w} : channel'[v] = channel[v], processed' = processed
  PROVE  MessageNotLost'
<1>1. /\ at \in [Workers -> Labels] /\ msg \in [Workers -> Messages]
      /\ queue \in [Messages -> Nat] /\ WTypeOK
  BY DEF WIInv, WTypeOK
<1>2. \A v \in Workers \ {w} : at'[v] = at[v] /\ msg'[v] = msg[v]
  BY <1>1 DEF Finish
<1>3. \A m \in Messages : queue[m] > 0 => queue'[m] > 0
  BY <1>1, AddType DEF Requeued
<1>4. ASSUME NEW o \in OrderIds, InHand(w, o)
      PROVE  Accounted(o)'
  <2>1. msg[w] \in MessagesOf(o) /\ queue' = Add(queue, msg[w])
    BY <1>4 DEF InHand, Requeued
  <2>2. queue'[msg[w]] > 0
    BY <1>1, <2>1, AddType
  <2> QED
    BY <2>1, <2>2 DEF Accounted, Pending, MessagesOf
<1> QED
  BY <1>2, <1>3, <1>4, HandOver

\* No step loses a message.
LEMMA NextMessages ==
  ASSUME WIInv, WorkerNext
  PROVE  MessageNotLost'
<1> USE DEF dbVars, brokerVars
<1>0. /\ WTypeOK /\ HandlersConsistent /\ at \in [Workers -> Labels]
      /\ msg \in [Workers -> Messages] /\ channel \in [Workers -> {"open", "closed"}]
      /\ queue \in [Messages -> Nat] /\ dlq \in [Messages -> Nat]
      /\ processed \subseteq OrderIds
  BY DEF WIInv, WTypeOK
<1>1. ASSUME NEW w \in Workers, NEW m \in Messages, Deliver(w, m)
      PROVE  MessageNotLost'
  <2> SUFFICES ASSUME NEW o \in OrderIds
               PROVE  Accounted(o)'
    BY DEF MessageNotLost, Accounted
  <2>1. Accounted(o) /\ UNCHANGED <<dlq, processed, channel>>
    BY <1>1 DEF WIInv, MessageNotLost, Accounted, Deliver
  <2>2. CASE o \in processed \/ DeadLettered(o)
    BY <2>1, <2>2 DEF Accounted, DeadLettered, MessagesOf
  <2>3. CASE \E v \in Workers : InHand(v, o)
    <3>1. PICK v \in Workers : InHand(v, o)
      BY <2>3
    <3>2. InHand(v, o)'
      BY <1>0, <1>1, <3>1 DEF InHand, Deliver, Step, MessagesOf
    <3> QED
      BY <3>2 DEF Accounted, Pending
  <2>4. CASE \E n \in MessagesOf(o) : queue[n] > 0
    <3>1. PICK n \in MessagesOf(o) : queue[n] > 0
      BY <2>4
    <3>2. CASE n = m
      <4>1. InHand(w, o)'
        BY <1>0, <1>1, <3>1, <3>2 DEF InHand, Deliver, Step, MessagesOf
      <4> QED
        BY <4>1 DEF Accounted, Pending
    <3>3. CASE n # m
      <4>1. queue'[n] > 0
        BY <1>0, <1>1, <3>1, <3>3 DEF Deliver, MessagesOf
      <4> QED
        BY <3>1, <4>1 DEF Accounted, Pending, MessagesOf
    <3> QED
      BY <3>2, <3>3
  <2> QED
    BY <2>1, <2>2, <2>3, <2>4 DEF Accounted, Pending
<1>2. ASSUME NEW w \in Workers, Go(w, "find") \/ Go(w, "insert") \/ Go(w, "failed") \/ Go(w, "load")
      PROVE  MessageNotLost'
  BY <1>2, KeepsHand DEF Go, Labels, Inserted
<1>3. ASSUME NEW w \in Workers, Go(w, "ack"), OrderOf(w) \in processed
      PROVE  MessageNotLost'
  BY <1>0, <1>3, AcksProcessed DEF Go, Step, Labels
<1>4. ASSUME NEW w \in Workers, PaymentFails(w)
      PROVE  MessageNotLost'
  BY <1>4, KeepsHand DEF PaymentFails, Labels
<1>5. ASSUME NEW w \in Workers, ParseMessage(w)
      PROVE  MessageNotLost'
  <2>1. CASE Go(w, "find")
    BY <1>2, <2>1
  <2>2. CASE /\ msg[w].kind # "order"
             /\ dlq' = Add(dlq, [msg[w] EXCEPT !.attempt = 0])
             /\ Step(w, "ack")
             /\ UNCHANGED <<dbVars, queue, msg, entity, changed, channel, processed,
                            payments, late, calls, audit, faults>>
    <3>1. \A m \in Messages : dlq[m] > 0 => dlq'[m] > 0
      BY <1>0, <2>2, AddType, MessageFacts
    <3>2. \A v \in Workers \ {w} : at'[v] = at[v]
      BY <1>0, <2>2 DEF Step
    <3>3. \A o \in OrderIds : ~InHand(w, o)
      BY <2>2 DEF InHand, MessagesOf
    <3> QED
      BY <2>2, <3>1, <3>2, <3>3, HandOver
  <2>3. CASE /\ msg[w].kind # "order" /\ channel[w] = "closed"
             /\ Finish(w)
             /\ UNCHANGED <<dbVars, brokerVars, channel, processed, payments, late,
                            calls, audit, faults>>
    BY <2>3, EndsSafely DEF Requeued
  <2> QED
    BY <1>5, <2>1, <2>2, <2>3 DEF ParseMessage
<1>6. ASSUME NEW w \in Workers, FindProcessed(w) \/ InsertProcessed(w)
      PROVE  MessageNotLost'
  BY <1>2, <1>3, <1>6 DEF FindProcessed, InsertProcessed, AlreadyProcessed
<1>7. ASSUME NEW w \in Workers, LoadOrder(w)
      PROVE  MessageNotLost'
  <2>1. CASE Go(w, "failed")
    BY <1>2, <2>1
  <2>2. CASE /\ Step(w, "diff")
             /\ UNCHANGED <<dbVars, brokerVars, msg, changed, channel, processed,
                            payments, late, calls, audit, faults>>
    BY <2>2, KeepsHand DEF Labels, Inserted
  <2>3. CASE /\ processed' = processed \cup {OrderOf(w)}
             /\ Step(w, "ack")
             /\ UNCHANGED <<dbVars, brokerVars, msg, entity, changed, channel,
                            payments, late, calls, audit, faults>>
    BY <1>0, <2>3, AcksProcessed DEF Step, Labels
  <2> QED
    BY <1>7, <2>1, <2>2, <2>3 DEF LoadOrder
<1>8. ASSUME NEW w \in Workers, SaveRead(w)
      PROVE  MessageNotLost'
  BY <1>8, KeepsHand DEF SaveRead, Labels, Inserted
<1>9. ASSUME NEW w \in Workers, CommitProcessed(w)
      PROVE  MessageNotLost'
  BY <1>0, <1>9, AcksProcessed DEF CommitProcessed, Step, Labels
<1>10. ASSUME NEW w \in Workers, at[w] \in Charging
       PROVE  OrderOf(w) \in processed
  BY <1>0, <1>10 DEF HandlersConsistent
<1>11. ASSUME NEW w \in Workers, AuthorizeEmpty(w)
       PROVE  MessageNotLost'
  BY <1>3, <1>10, <1>11 DEF AuthorizeEmpty, Charging
<1>12. ASSUME NEW w \in Workers, ProcessingFails(w)
       PROVE  MessageNotLost'
  BY <1>2, <1>12 DEF ProcessingFails
<1>13. ASSUME NEW w \in Workers, CallAuthorize(w)
       PROVE  MessageNotLost'
  <2>1. CASE Go(w, "failed") \/ PaymentFails(w)
    BY <1>2, <1>4, <2>1
  <2>2. CASE /\ Step(w, "waiting")
             /\ UNCHANGED <<dbVars, brokerVars, msg, entity, changed, channel,
                            processed, payments, late, audit, faults>>
    BY <2>2, KeepsHand DEF Labels
  <2> QED
    BY <1>13, <2>1, <2>2 DEF CallAuthorize
<1>14. ASSUME NEW w \in Workers, AuthorizeOk(w)
       PROVE  MessageNotLost'
  BY <1>14, KeepsHand DEF AuthorizeOk, Labels
<1>15. ASSUME NEW w \in Workers, AuthorizeRefused(w) \/ AuthorizeTimesOut(w)
       PROVE  MessageNotLost'
  BY <1>4, <1>15 DEF AuthorizeRefused, AuthorizeTimesOut
<1>16. ASSUME NEW w \in Workers, RecordPayment(w)
       PROVE  MessageNotLost'
  <2>1. CASE PaymentFails(w)
    BY <1>4, <2>1
  <2>2. CASE /\ Step(w, "ack") \/ Step(w, "failed")
             /\ UNCHANGED <<stock, inactive, deleted, held, brokerVars, msg, entity,
                            changed, channel, processed, payments, late, calls, faults>>
    BY <1>0, <1>10, <1>16, <2>2, AcksProcessed DEF RecordPayment, Step, Labels, Charging
  <2> QED
    BY <1>16, <2>1, <2>2 DEF RecordPayment
<1>17. ASSUME NEW w \in Workers, RetryOrDlq(w)
       PROVE  MessageNotLost'
  <2>1. \A v \in Workers \ {w} : at'[v] = at[v]
    BY <1>0, <1>17 DEF RetryOrDlq, Step
  <2>2. UNCHANGED <<msg, channel, processed>>
    BY <1>17 DEF RetryOrDlq
  <2>3. CASE MayRetry(w)
    <3>1. queue' = Add(queue, RetryCopy(w)) /\ dlq' = dlq /\ RetryCopy(w) \in Messages
      BY <1>0, <1>17, <2>3, MessageFacts DEF RetryOrDlq
    <3>2. /\ \A m \in Messages : queue[m] > 0 => queue'[m] > 0
          /\ queue'[RetryCopy(w)] > 0
      BY <1>0, <3>1, AddType
    <3>3. ASSUME NEW o \in OrderIds, InHand(w, o)
          PROVE  Accounted(o)'
      <4>1. RetryCopy(w) \in MessagesOf(o)
        BY <1>0, <3>1, <3>3 DEF InHand, MessagesOf, RetryCopy, Messages
      <4> QED
        BY <3>2, <4>1 DEF Accounted, Pending, MessagesOf
    <3> QED
      BY <2>1, <2>2, <3>1, <3>2, <3>3, HandOver
  <2>4. CASE ~MayRetry(w)
    <3> DEFINE copy == [msg[w] EXCEPT !.attempt = Attempt(w)]
    <3>1. dlq' = Add(dlq, copy) /\ queue' = queue /\ copy \in Messages
      BY <1>0, <1>17, <2>4, MessageFacts DEF RetryOrDlq
    <3>2. copy.kind = msg[w].kind /\ copy.order = msg[w].order
      BY <1>0 DEF Messages
    <3> HIDE DEF copy
    <3>3. /\ \A m \in Messages : dlq[m] > 0 => dlq'[m] > 0
          /\ dlq'[copy] > 0
      BY <1>0, <3>1, AddType
    <3>4. ASSUME NEW o \in OrderIds, InHand(w, o)
          PROVE  Accounted(o)'
      BY <3>1, <3>2, <3>3, <3>4 DEF InHand, Accounted, DeadLettered, MessagesOf
    <3> QED
      BY <2>1, <2>2, <3>1, <3>3, <3>4, HandOver
  <2> QED
    BY <2>3, <2>4
<1>18. ASSUME NEW w \in Workers, PublishThrowsInHandler(w)
       PROVE  MessageNotLost'
  BY <1>18, EndsSafely DEF PublishThrowsInHandler, Requeued
<1>19. ASSUME NEW w \in Workers, Ack(w)
       PROVE  MessageNotLost'
  <2>1. \A o \in OrderIds : ~InHand(w, o)
    BY <1>19 DEF Ack, InHand
  <2>2. \A v \in Workers \ {w} : at'[v] = at[v] /\ msg'[v] = msg[v]
    BY <1>0, <1>19 DEF Ack, Finish
  <2> QED
    BY <1>19, <2>1, <2>2, HandOver DEF Ack
<1>20. ASSUME NEW w \in Workers, Crash(w) \/ Replace(w)
       PROVE  MessageNotLost'
  <2>1. Restart(w)
    BY <1>20 DEF Crash, Replace
  <2>2. \A v \in Workers \ {w} : channel'[v] = channel[v]
    BY <1>0, <2>1 DEF Restart
  <2> QED
    BY <2>1, <2>2, EndsSafely DEF Restart
<1>21. ASSUME NEW w \in Workers, ChannelCloses(w)
       PROVE  MessageNotLost'
  <2>1. /\ \A v \in Workers \ {w} : channel'[v] = channel[v]
        /\ queue' = Requeued(w) /\ UNCHANGED <<dlq, at, msg, processed>>
    BY <1>0, <1>21 DEF ChannelCloses
  <2>2. \A m \in Messages : queue[m] > 0 => queue'[m] > 0
    BY <1>0, <2>1, AddType DEF Requeued
  <2>3. ASSUME NEW o \in OrderIds, InHand(w, o)
        PROVE  Accounted(o)'
    <3>1. msg[w] \in MessagesOf(o) /\ queue' = Add(queue, msg[w])
      BY <2>1, <2>3 DEF InHand, Requeued
    <3>2. queue'[msg[w]] > 0
      BY <1>0, <3>1, AddType
    <3> QED
      BY <3>1, <3>2 DEF Accounted, Pending, MessagesOf
  <2> QED
    BY <2>1, <2>2, <2>3, HandOver
<1>22. ASSUME NEW o \in OrderIds, LateAuthorize(o)
       PROVE  MessageNotLost'
  BY <1>22 DEF LateAuthorize, WIInv, MessageNotLost, Pending, DeadLettered, InHand, MessagesOf
<1> QED
  BY <1>1, <1>5, <1>6, <1>7, <1>8, <1>9, <1>11, <1>12, <1>13, <1>14, <1>15, <1>16,
     <1>17, <1>18, <1>19, <1>20, <1>21, <1>22 DEF WorkerNext, HandlerStep

-----------------------------------------------------------------------------
(* The theorems *)

\* The invariant holds when the worker starts.
LEMMA InitWIInv ==
  ASSUME Init
  PROVE  WIInv
<1> USE DEF Init, WorkerInit
<1>1. NoMsg \in Messages /\ \A o \in OrderIds : FirstMessage(o) \in Messages
  BY WorkerAssumption DEF Messages, NoMsg, FirstMessage, Kinds
<1>2. \A o \in OrderIds : /\ orders[o] \in Order /\ orders[o].status \in {"PENDING", "CANCELLED"}
  OBVIOUS
<1>3. DbTypeOK
  BY <1>2 DEF DbTypeOK
<1>4. queue \in [Messages -> Nat] /\ dlq \in [Messages -> Nat]
  OBVIOUS
<1>5. WTypeOK
  BY <1>1, <1>3, <1>4, WorkerAssumption DEF WTypeOK, Labels
<1>6. HandlersConsistent
  BY DEF HandlersConsistent, Inserted, Charging
<1>7. UntouchedBefore /\ AuthorizedOnce /\ PaidHasPayment
  BY <1>2 DEF UntouchedBefore, AuthorizedOnce, PaidHasPayment
<1>8. MessageNotLost
  <2> SUFFICES ASSUME NEW o \in OrderIds
               PROVE  Pending(o)
    BY DEF MessageNotLost
  <2>1. FirstMessage(o) \in MessagesOf(o)
    BY <1>1 DEF FirstMessage, MessagesOf
  <2>2. queue[FirstMessage(o)] > 0
    BY <1>1
  <2> QED
    BY <2>1, <2>2 DEF Pending
<1> QED
  BY <1>5, <1>6, <1>7, <1>8 DEF WIInv

\* A stuttering step keeps the invariant.
LEMMA StutterWIInv ==
  ASSUME WIInv, UNCHANGED wvars
  PROVE  WIInv'
<1> USE DEF wvars, workerVars, dbVars
<1>1. WTypeOK'
  BY DEF WIInv, WTypeOK, DbTypeOK
<1>2. MessageNotLost'
  BY DEF WIInv, MessageNotLost, Pending, DeadLettered, InHand, MessagesOf
<1> QED
  BY <1>1, <1>2, OutsideMove DEF WIInv

\* The inductive invariant of the worker.
THEOREM WIInvIsInvariant == Spec => []WIInv
<1>1. WIInv /\ [WorkerNext]_wvars => WIInv'
  BY NextType, NextHandlers, NextMessages, StutterWIInv DEF WIInv
<1> QED
  BY <1>1, InitWIInv, PTL DEF Spec

\* Type correctness of the queues, the tables and the handlers.
THEOREM WorkerTypeCorrect == Spec => []WTypeOK
<1>1. WIInv => WTypeOK
  BY DEF WIInv
<1> QED
  BY <1>1, WIInvIsInvariant, PTL

\* No message is lost, for any number of orders, handlers, crashes and channel
\* closures: handleMessage acknowledges only what is committed or republished.
THEOREM NoMessageIsLost == Spec => []MessageNotLost
<1>1. WIInv => MessageNotLost
  BY DEF WIInv
<1> QED
  BY <1>1, WIInvIsInvariant, PTL

\* However often a message is delivered, the payment of its order is requested
\* at most once (processOrderMessage).
THEOREM PaymentRequestedOnce == Spec => []AuthorizedOnce
<1>1. WIInv => AuthorizedOnce
  BY DEF WIInv
<1> QED
  BY <1>1, WIInvIsInvariant, PTL

\* Every PAID order carries the payment the payments service has recorded.
THEOREM PaidOrdersHavePayment == Spec => []PaidHasPayment
<1>1. WIInv => PaidHasPayment
  BY DEF WIInv
<1> QED
  BY <1>1, WIInvIsInvariant, PTL

\* A step that leaves the orders table alone leaves every status alone.
LEMMA StatusUnchanged ==
  ASSUME UNCHANGED orders
  PROVE  UNCHANGED StatusOf
  BY DEF StatusOf, Exists

\* A step that changes the row of one order moves the status of that order.
LEMMA StatusMoves ==
  ASSUME WTypeOK, NEW o \in OrderIds, NEW row \in Order, Exists(o),
         orders' = [orders EXCEPT ![o] = row]
  PROVE  /\ StatusOf[o] = orders[o].status
         /\ StatusOf' = [StatusOf EXCEPT ![o] = row.status]
<1>1. orders \in [OrderIds -> Order \cup {NoOrder}]
  BY DEF WTypeOK, DbTypeOK
<1>2. orders'[o] = row /\ row # NoOrder /\ \A q \in OrderIds \ {o} : orders'[q] = orders[q]
  BY <1>1, WorkerAssumption
<1>3. StatusOf' = [q \in OrderIds |-> IF orders'[q] # NoOrder THEN orders'[q].status ELSE "ABSENT"]
  BY DEF StatusOf, Exists
<1>4. \A q \in OrderIds : StatusOf'[q] = IF q = o THEN row.status ELSE StatusOf[q]
  BY <1>2, <1>3 DEF StatusOf, Exists
<1> QED
  BY <1>3, <1>4 DEF StatusOf, Exists

\* Every step of the worker is a step of the lifecycle or leaves it alone.
LEMMA NextLifecycle ==
  ASSUME WIInv, [WorkerNext]_wvars
  PROVE  [Lifecycle!Next]_StatusOf
<1> USE DEF dbVars
<1>0. WTypeOK
  BY DEF WIInv
<1>1. CASE UNCHANGED orders
  BY <1>1, StatusUnchanged
<1>2. ASSUME NEW w \in Workers, CommitProcessed(w)
      PROVE  Lifecycle!Next
  <2> DEFINE o == OrderOf(w)
  <2>1. /\ o \in OrderIds /\ Exists(o) /\ orders[o].status = "PENDING"
        /\ SavedRow(w) \in Order /\ SavedRow(w).status = "PROCESSED"
    BY <1>2, SavedRowType, WorkerAssumption DEF CommitProcessed, Exists, Order
  <2>2. orders' = [orders EXCEPT ![o] = SavedRow(w)]
    BY <1>2 DEF CommitProcessed
  <2>3. Lifecycle!Process(o)
    BY <1>0, <2>1, <2>2, StatusMoves DEF Lifecycle!Process, Lifecycle!Move
  <2> QED
    BY <2>1, <2>3 DEF Lifecycle!Next
<1>3. ASSUME NEW w \in Workers, RecordPayment(w), orders' # orders
      PROVE  Lifecycle!Next
  <2> DEFINE o == OrderOf(w)
             row == [orders[o] EXCEPT !.status = "PAID", !.paymentId = o]
  <2>1. /\ o \in OrderIds /\ Exists(o) /\ orders[o].status = "PROCESSED" /\ orders[o] \in Order
    BY <1>0, <1>3 DEF RecordPayment, WIInv, HandlersConsistent, Charging, WTypeOK, DbTypeOK, Exists
  <2>2. orders' = [orders EXCEPT ![o] = row]
    BY <1>3 DEF RecordPayment, PaymentFails
  <2>3. row \in Order /\ row.status = "PAID"
    BY <2>1, WorkerAssumption DEF Order, OrderStatus
  <2> HIDE DEF row
  <2>4. Lifecycle!Pay(o)
    BY <1>0, <2>1, <2>2, <2>3, StatusMoves DEF Lifecycle!Pay, Lifecycle!Move
  <2> QED
    BY <2>1, <2>4 DEF Lifecycle!Next
<1>4. ASSUME WorkerNext, orders' # orders
      PROVE  \E w \in Workers : CommitProcessed(w) \/ RecordPayment(w)
  BY <1>4 DEF WorkerNext, HandlerStep, Deliver, ParseMessage, FindProcessed, InsertProcessed,
     LoadOrder, SaveRead, CallAuthorize, AuthorizeOk, AuthorizeEmpty, AuthorizeRefused,
     AuthorizeTimesOut, RetryOrDlq, PublishThrowsInHandler, Ack, ProcessingFails,
     ChannelCloses, Crash, Replace, Restart, LateAuthorize, Go, PaymentFails
<1> QED
  BY <1>1, <1>2, <1>3, <1>4 DEF wvars

\* The worker on its own implements the order lifecycle.
THEOREM WorkerFollowsLifecycle == Spec => FollowsLifecycle
<1>1. Init => Lifecycle!Init
  BY DEF Init, Lifecycle!Init, Lifecycle!Statuses, Lifecycle!Absent, StatusOf, Order, OrderStatus
<1> QED
  BY <1>1, WIInvIsInvariant, NextLifecycle, PTL DEF Spec, FollowsLifecycle, Lifecycle!Spec
=============================================================================
