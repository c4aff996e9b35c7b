---------------------------- MODULE OrderWorker ----------------------------
(***************************************************************************)
(* The consumer of the orders.process queue: OrderWorkerService with       *)
(* OrderProcessingService, RabbitMQService and the payment call.           *)
(*                                                                         *)
(* A worker is one running handleMessage of one shop instance; several of  *)
(* them stand for the prefetch count and for several instances.  The       *)
(* broker gives a message back to the queue when the channel it was        *)
(* delivered on closes before the ack.  An order has one message id (the   *)
(* creator publishes once), so the order stands for it; processed_messages *)
(* is the set of orders whose row is committed.                            *)
(***************************************************************************)
EXTENDS ShopDb

CONSTANTS
  Workers,          \* concurrently running message handlers
  MaxAttempts,      \* MAX_RETRY_ATTEMPTS
  PaymentsEnabled,  \* RABBITMQ_DISABLE_PAYMENTS_AUTHORIZATION is not 'true'
  Junk,             \* messages of other shapes found in the queue
  MaxFaults         \* bound: crashes and channel closures in a behaviour

(***************************************************************************)
(* Message bodies.  attempt 0 is a missing or non-numeric attempt field;   *)
(* an invalid body does not parse or lacks messageId or orderId.           *)
(***************************************************************************)
Kinds == {"order", "invalid"}

Messages == [kind : Kinds, order : OrderIds \cup {NoOrder}, attempt : 0..MaxAttempts]

\* new OrderProcessMessageDto(order.id, correlationId)
FirstMessage(o) == [kind |-> "order", order |-> o, attempt |-> 1]

ASSUME WorkerAssumption ==
  /\ MaxAttempts \in Nat \ {0}
  /\ PaymentsEnabled \in BOOLEAN
  /\ Junk \subseteq Messages
  /\ MaxFaults \in Nat
  /\ OrderIds \subseteq Payments
  /\ NoOrder \notin OrderIds
  /\ NoOrder \notin Order

VARIABLES
  queue,       \* orders.process: message -> copies ready for delivery
  dlq,         \* orders.dlq: message -> copies
  at,          \* where each handler stands
  msg,         \* the message it handles
  entity,      \* the order entity it has loaded
  changed,     \* the columns save(order) found different from the row
  channel,     \* "open" or "closed": the AMQP channel of the instance
  processed,   \* processed_messages, committed rows
  payments,    \* the payments service: orders with an authorized payment
  late,        \* calls the caller gave up on and the service may still run
  calls,       \* how often authorize was called for an order
  audit,       \* orders with an ORDER_PAYMENT_FAILED row in audit_logs
  faults       \* crashes and closures so far

brokerVars == <<queue, dlq>>

workerVars == <<queue, dlq, at, msg, entity, changed, channel, processed,
                payments, late, calls, audit, faults>>

wvars == <<dbVars, workerVars>>

NoMsg == [kind |-> "invalid", order |-> NoOrder, attempt |-> 0]

\* Inside the transaction of processOrderMessage, its insert done.
Inserted == {"load", "diff", "update"}

Labels == {"idle", "parse", "find", "insert", "authorize", "waiting", "record",
           "failed", "ack"} \cup Inserted

WTypeOK ==
  /\ DbTypeOK
  /\ queue \in [Messages -> Nat]
  /\ dlq \in [Messages -> Nat]
  /\ at \in [Workers -> Labels]
  /\ msg \in [Workers -> Messages]
  /\ entity \in [Workers -> Order \cup {NoOrder}]
  /\ changed \in [Workers -> SUBSET {"status", "paymentId"}]
  /\ channel \in [Workers -> {"open", "closed"}]
  /\ processed \subseteq OrderIds
  /\ payments \subseteq OrderIds
  /\ late \subseteq OrderIds
  /\ calls \in [OrderIds -> Nat]
  /\ audit \subseteq OrderIds
  /\ faults \in 0..MaxFaults

\* The worker's own state when it starts; the queue and the tables are set by
\* the modules that use this one.
WorkerInit ==
  /\ dlq = [m \in Messages |-> 0]
  /\ at = [w \in Workers |-> "idle"]
  /\ msg = [w \in Workers |-> NoMsg]
  /\ entity = [w \in Workers |-> NoOrder]
  /\ changed = [w \in Workers |-> {}]
  /\ channel = [w \in Workers |-> "open"]
  /\ processed = {}
  /\ payments = {}
  /\ late = {}
  /\ calls = [o \in OrderIds |-> 0]
  /\ audit = {}
  /\ faults = 0

-----------------------------------------------------------------------------
(* Shared pieces *)

Step(w, label) == at' = [at EXCEPT ![w] = label]

Go(w, label) ==
  /\ Step(w, label)
  /\ UNCHANGED <<dbVars, brokerVars, msg, entity, changed, channel, processed,
                 payments, late, calls, audit, faults>>

OrderOf(w) == msg[w].order

\* A non-numeric attempt counts as the first one.
Attempt(w) == IF msg[w].attempt = 0 THEN 1 ELSE msg[w].attempt

Add(q, m) == [q EXCEPT ![m] = @ + 1]

\* The handler ends and forgets its local variables.
Finish(w) ==
  /\ at' = [at EXCEPT ![w] = "idle"]
  /\ msg' = [msg EXCEPT ![w] = NoMsg]
  /\ entity' = [entity EXCEPT ![w] = NoOrder]
  /\ changed' = [changed EXCEPT ![w] = {}]

-----------------------------------------------------------------------------
(* handleMessage *)

\* channel.consume: the broker delivers to an instance with an open channel.
Deliver(w, m) ==
  /\ at[w] = "idle" /\ channel[w] = "open"
  /\ queue[m] > 0
  /\ queue' = [queue EXCEPT ![m] = @ - 1]
  /\ msg' = [msg EXCEPT ![w] = m]
  /\ Step(w, "parse")
  /\ UNCHANGED <<dbVars, dlq, entity, changed, channel, processed, payments,
                 late, calls, audit, faults>>

\* Unparseable messages and messages without ids go to the dead-letter queue;
\* both lose their attempt.  publish throws on a closed channel: the handler
\* rejects, and the rejection is only logged.
ParseMessage(w) ==
  /\ at[w] = "parse"
  /\ \/ /\ msg[w].kind = "order"
        /\ Go(w, "find")
     \/ /\ msg[w].kind # "order" /\ channel[w] = "open"
        /\ dlq' = Add(dlq, [msg[w] EXCEPT !.attempt = 0])
        /\ Step(w, "ack")
        /\ UNCHANGED <<dbVars, queue, msg, entity, changed, channel, processed,
                       payments, late, calls, audit, faults>>
     \/ /\ msg[w].kind # "order" /\ channel[w] = "closed"
        /\ Finish(w)
        /\ UNCHANGED <<dbVars, brokerVars, channel, processed, payments, late,
                       calls, audit, faults>>

\* channel.ack.  On a closed channel it throws and the handler ends; the
\* broker has already taken the message back.
Ack(w) ==
  /\ at[w] = "ack"
  /\ Finish(w)
  /\ UNCHANGED <<dbVars, brokerVars, channel, processed, payments, late, calls, audit, faults>>

MayRetry(w) == Attempt(w) < MaxAttempts

\* A variant of RetryCopy: the attempt counter is not incremented.
RetryCopy_SameAttempt(w) == [msg[w] EXCEPT !.attempt = Attempt(w)]

\* retryPayload: the payload with the next attempt.
RetryCopy(w) == [msg[w] EXCEPT !.attempt = Attempt(w) + 1]

(***************************************************************************)
(* After an error: retryMessage (a new copy with the next attempt) or      *)
(* publishToDlq, then the ack.  Publish and ack travel on one channel in   *)
(* this order, so the broker never has the ack without the copy.           *)
(***************************************************************************)
RetryOrDlq(w) ==
  /\ at[w] = "failed" /\ channel[w] = "open"
  /\ IF MayRetry(w)
       THEN /\ queue' = Add(queue, RetryCopy(w))
            /\ UNCHANGED dlq
       ELSE /\ dlq' = Add(dlq, [msg[w] EXCEPT !.attempt = Attempt(w)])
            /\ UNCHANGED queue
  /\ Step(w, "ack")
  /\ UNCHANGED <<dbVars, msg, entity, changed, channel, processed, payments,
                 late, calls, audit, faults>>

PublishThrowsInHandler(w) ==
  /\ at[w] = "failed" /\ channel[w] = "closed"
  /\ Finish(w)
  /\ UNCHANGED <<dbVars, brokerVars, channel, processed, payments, late, calls, audit, faults>>

-----------------------------------------------------------------------------
(* processOrderMessage *)

AlreadyProcessed(o) == o \in processed

FindProcessed(w) ==
  /\ at[w] = "find"
  /\ Go(w, IF AlreadyProcessed(OrderOf(w)) THEN "ack" ELSE "insert")

\* A variant of InsertBusy: processed_messages has no unique index.
InsertBusy_NoIndex(w) == FALSE

\* Another handler has inserted the same message id and has not committed.
InsertBusy(w) ==
  \E v \in Workers \ {w} : at[v] \in Inserted /\ OrderOf(v) = OrderOf(w)

\* The insert waits for such a handler; 23505 means a duplicate (return).
InsertProcessed(w) ==
  /\ at[w] = "insert"
  /\ ~InsertBusy(w)
  /\ Go(w, IF AlreadyProcessed(OrderOf(w)) THEN "ack" ELSE "load")

\* A variant of Processable: the status of the order is not looked at.
Processable_AnyStatus(o) == TRUE

Processable(o) == orders[o].status = "PENDING"

\* findOne on the order of the message finds a row.
Found(o) == o \in OrderIds /\ Exists(o)

\* The order is read: a missing one is an error, one that is not PENDING is
\* skipped and the message row commits alone.
LoadOrder(w) ==
  LET o == OrderOf(w) IN
  /\ at[w] = "load"
  /\ \/ ~Found(o) /\ Go(w, "failed")
     \/ /\ Found(o) /\ Processable(o)
        /\ entity' = [entity EXCEPT ![w] = orders[o]]
        /\ Step(w, "diff")
        /\ UNCHANGED <<dbVars, brokerVars, msg, changed, channel, processed,
                       payments, late, calls, audit, faults>>
     \/ /\ Found(o) /\ ~Processable(o)
        /\ processed' = processed \cup {o}
        /\ Step(w, "ack")
        /\ UNCHANGED <<dbVars, brokerVars, msg, entity, changed, channel,
                       payments, late, calls, audit, faults>>

ProcessedEntity(w) == [entity[w] EXCEPT !.status = "PROCESSED"]

\* orderRepository.save(order): the read of the row and the columns to write.
SaveRead(w) ==
  /\ at[w] = "diff"
  /\ changed' = [changed EXCEPT ![w] =
                   {f \in {"status", "paymentId"} :
                      ProcessedEntity(w)[f] # orders[OrderOf(w)][f]}]
  /\ Step(w, "update")
  /\ UNCHANGED <<dbVars, brokerVars, msg, entity, channel, processed, payments,
                 late, calls, audit, faults>>

SavedRow(w) ==
  [orders[OrderOf(w)] EXCEPT
     !.status = IF "status" \in changed[w] THEN ProcessedEntity(w).status ELSE @,
     !.paymentId = IF "paymentId" \in changed[w] THEN ProcessedEntity(w).paymentId ELSE @]

\* UPDATE and COMMIT: the order row and the message row appear together.
CommitProcessed(w) ==
  /\ at[w] = "update"
  /\ orders' = [orders EXCEPT ![OrderOf(w)] = SavedRow(w)]
  /\ processed' = processed \cup {OrderOf(w)}
  /\ Step(w, IF PaymentsEnabled /\ entity[w].paymentId = NoPayment
               THEN "authorize" ELSE "ack")
  /\ UNCHANGED <<stock, inactive, deleted, held, brokerVars, msg, entity,
                 changed, channel, payments, late, calls, audit, faults>>

\* A statement fails before the commit, or RABBITMQ_SIMULATE_FAILURE throws.
ProcessingFails(w) ==
  /\ at[w] \in {"find", "insert"} \cup Inserted
  /\ Go(w, "failed")

-----------------------------------------------------------------------------
(* authorizePayment *)

\* The catch block: an audit row, and the error goes on to handleMessage.
PaymentFails(w) ==
  /\ audit' = audit \cup {OrderOf(w)}
  /\ Step(w, "failed")
  /\ UNCHANGED <<dbVars, brokerVars, msg, entity, changed, channel, processed,
                 payments, calls, faults>>

\* The order is reloaded for its amount, then paymentsGrpcService.authorize.
\* The reload stands before the try block.
CallAuthorize(w) ==
  /\ at[w] = "authorize"
  /\ \/ /\ calls' = [calls EXCEPT ![OrderOf(w)] = @ + 1]
        /\ Step(w, "waiting")
        /\ UNCHANGED <<dbVars, brokerVars, msg, entity, changed, channel,
                       processed, payments, late, audit, faults>>
     \/ Go(w, "failed")                       \* the reload fails
     \/ PaymentFails(w) /\ UNCHANGED late     \* open circuit breaker, no endpoint

\* The payments service answers: it returns the payment it has for the order
\* or creates one.
AuthorizeOk(w) ==
  /\ at[w] = "waiting"
  /\ payments' = payments \cup {OrderOf(w)}
  /\ Step(w, "record")
  /\ UNCHANGED <<dbVars, brokerVars, msg, entity, changed, channel, processed,
                 late, calls, audit, faults>>

\* A response without paymentId leaves the order PROCESSED.
AuthorizeEmpty(w) == at[w] = "waiting" /\ Go(w, "ack")

\* A variant of AuthorizeRefused: the error is swallowed.
AuthorizeRefused_Swallowed(w) == at[w] = "waiting" /\ Go(w, "record")

\* The service refuses, or its database fails: mapGrpcError throws.
AuthorizeRefused(w) == at[w] = "waiting" /\ PaymentFails(w) /\ UNCHANGED late

\* The rxjs timeout: the caller gives up, the service may still finish.
AuthorizeTimesOut(w) ==
  /\ at[w] = "waiting"
  /\ late' = late \cup {OrderOf(w)}
  /\ PaymentFails(w)

LateAuthorize(o) ==
  /\ o \in late
  /\ late' = late \ {o}
  /\ payments' \in {payments, payments \cup {o}}
  /\ UNCHANGED <<dbVars, brokerVars, at, msg, entity, changed, channel,
                 processed, calls, audit, faults>>

\* The unconditional UPDATE ... SET payment_id, status = PAID, then the event
\* with the customer's address.  The relations were loaded without soft-deleted
\* rows: for a deleted customer user.email throws inside the try block.
RecordPayment(w) ==
  /\ at[w] = "record"
  /\ \/ /\ orders' = [orders EXCEPT ![OrderOf(w)] =
                        [@ EXCEPT !.status = "PAID", !.paymentId = OrderOf(w)]]
        /\ \/ Step(w, "ack") /\ UNCHANGED audit
           \/ Step(w, "failed") /\ audit' = audit \cup {OrderOf(w)}
        /\ UNCHANGED <<stock, inactive, deleted, held, brokerVars, msg, entity,
                       changed, channel, processed, payments, late, calls, faults>>
     \/ PaymentFails(w) /\ UNCHANGED late     \* the UPDATE fails

-----------------------------------------------------------------------------
(* Failures of the instance and of its channel *)

\* A variant of Requeued: the consumer is registered with noAck.
Requeued_NoAck(w) == queue

\* The broker takes the unacknowledged message back; the handler runs on.
Requeued(w) == IF at[w] # "idle" /\ channel[w] = "open" THEN Add(queue, msg[w]) ELSE queue

ChannelCloses(w) ==
  /\ channel[w] = "open" /\ faults < MaxFaults
  /\ queue' = Requeued(w)
  /\ channel' = [channel EXCEPT ![w] = "closed"]
  /\ faults' = faults + 1
  /\ UNCHANGED <<dbVars, dlq, at, msg, entity, changed, processed, payments, late, calls, audit>>

\* The instance dies in the middle of a handler, or is replaced because its
\* readiness probe fails on the closed channel; a call it made goes on.
Restart(w) ==
  /\ queue' = Requeued(w)
  /\ Finish(w)
  /\ channel' = [channel EXCEPT ![w] = "open"]
  /\ late' = IF at[w] = "waiting" THEN late \cup {OrderOf(w)} ELSE late
  /\ UNCHANGED <<dbVars, dlq, processed, payments, calls, audit>>

Crash(w) == at[w] # "idle" /\ faults < MaxFaults /\ faults' = faults + 1 /\ Restart(w)

Replace(w) == channel[w] = "closed" /\ Restart(w) /\ UNCHANGED faults

-----------------------------------------------------------------------------
HandlerStep(w) ==
  \/ ParseMessage(w) \/ FindProcessed(w) \/ InsertProcessed(w) \/ LoadOrder(w)
  \/ SaveRead(w) \/ CommitProcessed(w) \/ CallAuthorize(w)
  \/ AuthorizeOk(w) \/ AuthorizeEmpty(w) \/ AuthorizeRefused(w) \/ AuthorizeTimesOut(w)
  \/ RecordPayment(w) \/ RetryOrDlq(w) \/ PublishThrowsInHandler(w) \/ Ack(w)

WorkerNext ==
  \/ \E w \in Workers :
       \/ \E m \in Messages : Deliver(w, m)
       \/ HandlerStep(w) \/ ProcessingFails(w)
       \/ ChannelCloses(w) \/ Crash(w) \/ Replace(w)
  \/ \E o \in OrderIds : LateAuthorize(o)

(***************************************************************************)
(* The worker on its own: the queue holds the message of every existing    *)
(* order and some junk, an order may have been cancelled before its        *)
(* message is delivered, and nobody else writes to the tables.             *)
(***************************************************************************)
Init ==
  /\ stock = [p \in Products |-> 0]
  /\ inactive = {} /\ deleted = {}
  /\ held = [t \in Txs |-> {}]
  /\ orders \in [OrderIds -> {x \in Order : /\ x.status \in {"PENDING", "CANCELLED"}
                                            /\ x.paymentId = NoPayment}]
  /\ queue = [m \in Messages |->
                IF m \in Junk \/ \E o \in OrderIds : m = FirstMessage(o) THEN 1 ELSE 0]
  /\ WorkerInit

Spec == Init /\ [][WorkerNext]_wvars

(***************************************************************************)
(* Fairness: the broker delivers what is in the queue while a consumer is  *)
(* idle, started handlers run, and an instance whose channel is closed     *)
(* fails its readiness probe and is replaced.                              *)
(***************************************************************************)
WorkerFairness ==
  \A w \in Workers :
    /\ WF_wvars(\E m \in Messages : Deliver(w, m))
    /\ WF_wvars(HandlerStep(w))
    /\ WF_wvars(Replace(w))

FairSpec == Spec /\ WorkerFairness

-----------------------------------------------------------------------------
(* Properties *)

MessagesOf(o) == {m \in Messages : m.kind = "order" /\ m.order = o}

\* Worker w holds the message of order o and the broker knows it does.
InHand(w, o) ==
  /\ at[w] \notin {"idle", "ack"} /\ channel[w] = "open"
  /\ msg[w] \in MessagesOf(o)

Pending(o) ==
  \/ \E m \in MessagesOf(o) : queue[m] > 0
  \/ \E w \in Workers : InHand(w, o)

DeadLettered(o) == \E m \in MessagesOf(o) : dlq[m] > 0

\* The message of an order is never lost: until its row is committed to
\* processed_messages it is in the queue, with a handler that has not
\* acknowledged it, or in the dead-letter queue, whatever crashes and channel
\* closures do (ack after the commit, publish before the ack, noAck: false).
MessageNotLost == \A o \in OrderIds : o \in processed \/ Pending(o) \/ DeadLettered(o)

\* A customer is never charged twice through redelivery: payment is requested at
\* most once for an order, although its message is delivered at least once and
\* by several handlers at a time (the processed_messages index and the PENDING
\* guard of processOrderMessage).  The price is that the retry the comments
\* promise after a failed payment does nothing: FailedPaymentSettles.
AuthorizedOnce == \A o \in OrderIds : calls[o] <= 1

\* A failed payment authorization is retried until the order is PAID or its
\* message is dead-lettered: "On failure: audit log ORDER_PAYMENT_FAILED,
\* re-throw (worker nacks and retries)" (authorizePayment, handleMessage).  The
\* message row is committed before the call, so the retried copy is skipped.
FailedPaymentSettles ==
  \A o \in OrderIds :
    o \in audit /\ ~Pending(o) => orders[o].status = "PAID" \/ DeadLettered(o)

\* An order is PAID only with the payment the payments service has for it
\* (authorizePayment records after a successful answer).
PaidHasPayment ==
  \A o \in OrderIds :
    Exists(o) /\ orders[o].status = "PAID" => orders[o].paymentId = o /\ o \in payments

Lifecycle == INSTANCE OrderLifecycle WITH Orders <- OrderIds, status <- StatusOf

\* On its own the worker moves an order only along PENDING, PROCESSED, PAID:
\* no redelivery, race between handlers or late save takes a status back
\* (processOrderMessage, authorizePayment).
FollowsLifecycle == Lifecycle!Spec

\* Retries and redeliveries come to an end: from some point on the queue is
\* empty and every handler is idle (attempt < MAX_RETRY_ATTEMPTS).
QueueDrains ==
  <>[](/\ \A m \in Messages : queue[m] = 0
       /\ \A w \in Workers : at[w] = "idle")

-----------------------------------------------------------------------------
(* The inductive invariant behind the theorems of OrderWorkerProofs *)

\* The places of a handler that has asked or may still ask for a payment.
Charging == {"authorize", "waiting", "record"}

\* What a handler past the parser knows: the body was valid; inside the
\* transaction it is the only one with this message id; its entity is the row,
\* which is still PENDING; a handler that pays is the only one to do so.
HandlersConsistent ==
  \A w \in Workers :
    /\ at[w] \notin {"idle", "parse", "ack"} => msg[w].kind = "order"
    /\ at[w] \in Inserted =>
         /\ OrderOf(w) \notin processed
         /\ \A v \in Workers \ {w} : at[v] \in Inserted => OrderOf(v) # OrderOf(w)
    /\ at[w] \in {"diff", "update"} =>
         /\ Found(OrderOf(w)) /\ entity[w] = orders[OrderOf(w)]
         /\ entity[w].status = "PENDING"
    /\ at[w] = "update" => changed[w] = {"status"}
    /\ at[w] \in Charging =>
         /\ OrderOf(w) \in processed /\ Exists(OrderOf(w))
         /\ orders[OrderOf(w)].status = "PROCESSED"
         /\ \A v \in Workers \ {w} : at[v] \in Charging => OrderOf(v) # OrderOf(w)
    /\ at[w] = "authorize" => calls[OrderOf(w)] = 0
    /\ at[w] = "record" => OrderOf(w) \in payments

\* An order whose message row is not committed has not been touched.
UntouchedBefore ==
  \A o \in OrderIds \ processed :
    calls[o] = 0 /\ (Exists(o) => orders[o].status \in {"PENDING", "CANCELLED"})

WIInv ==
  /\ WTypeOK /\ HandlersConsistent /\ UntouchedBefore
  /\ MessageNotLost /\ AuthorizedOnce /\ PaidHasPayment
=============================================================================
