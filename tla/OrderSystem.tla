---------------------------- MODULE OrderSystem ----------------------------
(***************************************************************************)
(* The order flow as a whole: concurrent creation and cancellation         *)
(* requests (OrderCommands) and the queue consumers (OrderWorker) over one *)
(* database.  The two sides meet in three places: a published message      *)
(* enters the queue, both read the orders table, and both write it.        *)
(***************************************************************************)
EXTENDS OrderCommands

CONSTANTS Workers, MaxAttempts, PaymentsEnabled, Junk, MaxFaults

VARIABLES queue, dlq, at, msg, entity, changed, channel, processed, payments,
          late, calls, audit, faults

W == INSTANCE OrderWorker

ASSUME SystemAssumption ==
  /\ MaxAttempts \in Nat \ {0}
  /\ OrderIds \subseteq Payments

sysVars == <<vars, W!workerVars>>

SysInit == Init /\ W!WorkerInit /\ queue = [m \in W!Messages |-> 0]

\* What publishOrderProcessing hands to the broker arrives in the queue.
Enqueued ==
  [m \in W!Messages |->
     queue[m] + (IF \E o \in published' \ published : m = W!FirstMessage(o) THEN 1 ELSE 0)]

CommandStep ==
  /\ Next
  /\ queue' = Enqueued
  /\ UNCHANGED <<dlq, at, msg, entity, changed, channel, processed, payments, late,
                 calls, audit, faults>>

WorkerStep == W!WorkerNext /\ UNCHANGED reqVars

SysNext == CommandStep \/ WorkerStep

SysSpec == SysInit /\ [][SysNext]_sysVars

(***************************************************************************)
(* The fairness of the two parts.  Each part moves in its own variables    *)
(* (a request in pc or held, a handler in at, msg, channel or queue), so   *)
(* its weak fairness is stated for its step inside the whole.              *)
(***************************************************************************)
SysFairness ==
  /\ \A r \in Creates : WF_sysVars(CreateStep(r) /\ CommandStep)
  /\ \A c \in Cancels : WF_sysVars(CancelStep(c) /\ CommandStep)
  /\ \A t \in Requests : WF_sysVars((LockStep(t) \/ WaitAborted(t)) /\ CommandStep)
  /\ \A w \in Workers :
       /\ WF_sysVars((\E m \in W!Messages : W!Deliver(w, m)) /\ UNCHANGED reqVars)
       /\ WF_sysVars(W!HandlerStep(w) /\ UNCHANGED reqVars)
       /\ WF_sysVars(W!Replace(w) /\ UNCHANGED reqVars)

SysFairSpec == SysSpec /\ SysFairness

-----------------------------------------------------------------------------
(* Properties *)

\* Only an order that was committed and published is ever charged, and at most
\* once, although cancellations rewrite its row between the worker's
\* transaction, the payment call and the final update (processOrderMessage,
\* authorizePayment).
ChargedOncePublished ==
  \A o \in OrderIds : calls[o] > 0 => calls[o] = 1 /\ o \in published /\ Exists(o)

\* A PAID row has its payment, also when a cancellation saved a stale entity
\* over the row (orderRepository.save, the update of authorizePayment).
PaidRowHasPayment == W!PaidHasPayment

\* A published order ends with its message consumed: processed or in the
\* dead-letter queue, and no request or handler waits on another for ever.
PublishedSettles ==
  \A o \in OrderIds : o \in published ~> (o \in processed \/ W!DeadLettered(o))

-----------------------------------------------------------------------------
(* The inductive invariant behind the theorems of OrderSystemProofs *)

\* What the proofs need to know of the types of the worker's state.
HandlerTypes ==
  /\ queue \in [W!Messages -> Nat]
  /\ at \in [Workers -> W!Labels]
  /\ msg \in [Workers -> W!Messages]
  /\ entity \in [Workers -> Order \cup {NoOrder}]
  /\ processed \subseteq OrderIds
  /\ calls \in [OrderIds -> Nat]

\* Every message is one of a published order.
MessagesPublished ==
  /\ \A m \in W!Messages : queue[m] > 0 => m.kind = "order" /\ m.order \in published
  /\ \A w \in Workers : at[w] # "idle" => msg[w].kind = "order" /\ msg[w].order \in published
  /\ processed \subseteq published

\* What a handler can rely on although cancellations rewrite the row: it is
\* alone with its order inside the transaction, alone again while it pays, and
\* the entity it saves has no payment.
HandlersAlone ==
  \A w \in Workers :
    /\ at[w] \in W!Inserted =>
         /\ W!OrderOf(w) \notin processed
         /\ \A v \in Workers \ {w} : at[v] \in W!Inserted => W!OrderOf(v) # W!OrderOf(w)
    /\ at[w] \in {"diff", "update"} => entity[w] \in Order /\ entity[w].paymentId = NoPayment
    /\ at[w] \in W!Charging =>
         /\ W!OrderOf(w) \in processed
         /\ \A v \in Workers \ {w} : at[v] \in W!Charging => W!OrderOf(v) # W!OrderOf(w)
    /\ at[w] = "authorize" => calls[W!OrderOf(w)] = 0
    /\ at[w] = "record" => W!OrderOf(w) \in payments

ChargesBounded ==
  \A o \in OrderIds : calls[o] <= 1 /\ (calls[o] > 0 => o \in processed)

\* The payment of order o may still be recorded.
MayRecord(o) ==
  o \notin processed \/ \E w \in Workers : at[w] \in W!Charging /\ W!OrderOf(w) = o

\* Cancellation c has the entity of order o in memory.
Holds(c, o) == creq[c].order = o /\ pc[c] \in {"locking", "diff", "update"}

\* Until the payment of an order is recorded, the payment id is NULL in its
\* row and in every copy of it, and no cancellation is about to write it.
NoPaymentYet ==
  \A o \in OrderIds : MayRecord(o) =>
    /\ Exists(o) => orders[o].status # "PAID" /\ orders[o].paymentId = NoPayment
    /\ \A c \in Cancels : Holds(c, o) =>
         /\ loaded[c].paymentId = NoPayment
         /\ pc[c] = "update" => "paymentId" \notin dirty[c]

\* A cancellation that would leave a row PAID leaves its payment id as well.
StaleSavesHarmless ==
  \A c \in Cancels :
    pc[c] = "update" /\ orders[creq[c].order].status = "PAID" /\ "status" \notin dirty[c]
      => "paymentId" \notin dirty[c]

SysIInv ==
  /\ IInv /\ KeysConsistent /\ HandlerTypes /\ MessagesPublished /\ HandlersAlone
  /\ ChargesBounded /\ NoPaymentYet /\ StaleSavesHarmless /\ PaidRowHasPayment
=============================================================================
