---------------------------- MODULE PaymentCalls ----------------------------
(***************************************************************************)
(* The payment calls of the shop, from PaymentsGrpcService through the     *)
(* circuit breakers and PaymentsGrpcClientService to PaymentsService.      *)
(*                                                                         *)
(* A call fires its breaker, resolves the endpoint, takes the cached gRPC  *)
(* client (or rotates it), and waits for the answer or for its timeout.    *)
(* The service reads and writes in two statements and keeps running a call *)
(* the shop has given up on, or never answers.                             *)
(***************************************************************************)
EXTENDS Integers, FiniteSets

CONSTANTS
  Orders,
  Calls,             \* calls of authorize and getPaymentStatus
  Endpoints,         \* addresses payments tasks are registered under
  Fallback,          \* PAYMENTS_GRPC_HOST:PAYMENTS_GRPC_PORT
  None,
  VolumeThreshold,   \* BREAKER_OPTIONS.volumeThreshold
  ErrorThreshold,    \* BREAKER_OPTIONS.errorThresholdPercentage
  MaxChanges         \* bound: changes of the registration, ends of the window

Methods == {"authorize", "status"}

Bodies == [method : Methods, order : Orders, amount : {0, 1}]

ASSUME CallsAssumption ==
  /\ VolumeThreshold \in Nat /\ MaxChanges \in Nat
  /\ ErrorThreshold \in 0..100
  /\ None \notin Calls \cup Endpoints \cup {Fallback}

VARIABLES
  breaker,     \* per method: state, counts of the rolling window, pendingClose
  srv,         \* SRV records of best priority and weight, {} when there are none
  changes,     \* changes of the registration and ends of the window so far
  client,      \* the url of the cached client and whether it is open
  clients,     \* how many clients are open in all
  destroyed,   \* onModuleDestroy has run
  pc, req,     \* where each call stands, and its request
  using,       \* the calls that hold the cached client
  service,     \* how far the payments service is with the call
  reply,       \* the payment id it answers with
  payments,    \* the payments table
  answer       \* the payment id the caller got

bvars == <<breaker>>
clientVars == <<srv, changes, client, clients, destroyed>>
serviceVars == <<service, reply, payments>>
pvars == <<bvars, clientVars, serviceVars, pc, req, using, answer>>

NoClient == [url |-> None, open |-> FALSE]

PInit ==
  /\ breaker = [m \in Methods |-> [state |-> "closed", fires |-> 0, failures |-> 0,
                                   pendingClose |-> FALSE]]
  /\ srv \in SUBSET Endpoints
  /\ changes = 0
  /\ client = NoClient
  /\ clients = 0
  /\ destroyed = FALSE
  /\ pc = [c \in Calls |-> "new"]
  /\ req \in [Calls -> Bodies]
  /\ using = {}
  /\ service = [c \in Calls |-> "idle"]
  /\ reply = [c \in Calls |-> None]
  /\ payments = {}
  /\ answer = [c \in Calls |-> None]

-----------------------------------------------------------------------------
(* The circuit breaker (opossum with BREAKER_OPTIONS) *)

M(c) == req[c].method

Lets(b) == b.state = "closed" \/ b.pendingClose

Fired(b) == [b EXCEPT !.fires = @ + 1, !.pendingClose = FALSE]

\* A success in half-open closes the breaker, whichever call it belongs to.
Succeeded(b) == IF b.state = "halfOpen"
                THEN [b EXCEPT !.state = "closed", !.pendingClose = FALSE]
                ELSE b

Tripped(b) == \/ b.state = "halfOpen"
              \/ b.fires >= VolumeThreshold /\ 100 * b.failures > ErrorThreshold * b.fires

\* Every rejection counts, also one the service answered on purpose.
Failed(b) ==
  LET n == [b EXCEPT !.failures = @ + 1] IN
    IF Tripped(n) THEN [n EXCEPT !.state = "open", !.pendingClose = FALSE] ELSE n

\* resetTimeout, and the end of the rolling statistics window.
ResetTimeout(m) ==
  /\ breaker[m].state = "open"
  /\ breaker' = [breaker EXCEPT ![m].state = "halfOpen", ![m].pendingClose = TRUE]
  /\ UNCHANGED <<clientVars, serviceVars, pc, req, using, answer>>

WindowEnds(m) ==
  /\ breaker[m].fires > 0 /\ changes < MaxChanges
  /\ changes' = changes + 1
  /\ breaker' = [breaker EXCEPT ![m].fires = 0, ![m].failures = 0]
  /\ UNCHANGED <<srv, client, clients, destroyed, serviceVars, pc, req, using, answer>>

-----------------------------------------------------------------------------
(* The caller *)

InFlight(c) == pc[c] \in {"resolve", "got", "sent"}

Fire(c) ==
  /\ pc[c] = "new"
  /\ IF Lets(breaker[M(c)])
       THEN /\ breaker' = [breaker EXCEPT ![M(c)] = Fired(@)]
            /\ pc' = [pc EXCEPT ![c] = "resolve"]
       ELSE /\ breaker' = [breaker EXCEPT ![M(c)].fires = @ + 1]
            /\ pc' = [pc EXCEPT ![c] = "failed"]
  /\ UNCHANGED <<clientVars, serviceVars, req, using, answer>>

Reject(c) ==
  /\ pc' = [pc EXCEPT ![c] = "failed"]
  /\ breaker' = [breaker EXCEPT ![M(c)] = Failed(@)]
  /\ using' = using \ {c}
  /\ UNCHANGED <<clientVars, serviceVars, req, answer>>

\* resolvePaymentsGrpcUrl: one of the best records, or the configured address
\* when there is none or the lookup fails.
Urls == srv \cup {Fallback}

\* A variant of AfterClose: the previous client stays open.
AfterClose_Forgotten == clients

\* The open clients once cachedClient.close() has been called.
AfterClose == clients - (IF client.open THEN 1 ELSE 0)

\* getClient, from the answer of the lookup on: one synchronous step.
GetClient(c, url) ==
  /\ pc[c] = "resolve" /\ url \in Urls
  /\ IF client # NoClient /\ client.url = url
       THEN UNCHANGED <<client, clients>> /\ using' = using \cup {c}
       ELSE /\ client' = [url |-> url, open |-> TRUE]
            /\ clients' = AfterClose + 1
            /\ using' = {c}
  /\ pc' = [pc EXCEPT ![c] = "got"]
  /\ UNCHANGED <<bvars, srv, changes, destroyed, serviceVars, req, answer>>

\* The continuation that uses the client: another call or the shutdown may
\* have closed it in between.
Send(c) ==
  /\ pc[c] = "got"
  /\ IF c \in using /\ client.open
       THEN /\ pc' = [pc EXCEPT ![c] = "sent"]
            /\ service' = [service EXCEPT ![c] = "received"]
            /\ using' = using \ {c}
            /\ UNCHANGED <<bvars, clientVars, reply, payments, req, answer>>
       ELSE Reject(c)

Receive(c) ==
  /\ pc[c] = "sent"
  /\ \/ /\ service[c] = "ok"
        /\ answer' = [answer EXCEPT ![c] = reply[c]]
        /\ pc' = [pc EXCEPT ![c] = "answered"]
        /\ breaker' = [breaker EXCEPT ![M(c)] = Succeeded(@)]
        /\ UNCHANGED <<clientVars, serviceVars, req, using>>
     \/ service[c] = "error" /\ Reject(c)

\* A variant of MayTimeOut: only the breaker guards the call, and its own
\* timeout is switched off.
MayTimeOut_Never(c) == FALSE

MayTimeOut(c) == InFlight(c)

\* The rxjs timeout around lookup and call; a connection that breaks ends the
\* call the same way.
TimesOut(c) == MayTimeOut(c) /\ Reject(c)

-----------------------------------------------------------------------------
(* PaymentsService *)

RowsOf(o) == {p \in payments : p.order = o}

Answers(c, p) ==
  /\ service' = [service EXCEPT ![c] = "ok"]
  /\ reply' = [reply EXCEPT ![c] = p.paymentId]

\* authorize checks the amount; getPaymentStatus has none.
Payable(c) == M(c) = "authorize" => req[c].amount > 0

\* authorize up to the lookup by order id, and getPaymentStatus.
Lookup(c) ==
  /\ service[c] = "received"
  /\ \/ /\ ~Payable(c)
        /\ service' = [service EXCEPT ![c] = "error"] /\ UNCHANGED reply
     \/ /\ Payable(c)
        /\ \E p \in RowsOf(req[c].order) : Answers(c, p)
     \/ /\ Payable(c) /\ RowsOf(req[c].order) = {}
        /\ service' = [service EXCEPT ![c] = IF M(c) = "authorize" THEN "insert" ELSE "error"]
        /\ UNCHANGED reply
  /\ UNCHANGED <<bvars, clientVars, payments, pc, req, using, answer>>

\* A variant of OrderPaid: the index on order_id is not unique.
OrderPaid_PlainIndex(o) == FALSE

\* IDX_payments_order_id
OrderPaid(o) == RowsOf(o) # {}

\* save(payment): a second row for the order violates the unique index, which
\* the client sees as an unknown error.
Insert(c) ==
  /\ service[c] = "insert"
  /\ IF OrderPaid(req[c].order)
       THEN service' = [service EXCEPT ![c] = "error"] /\ UNCHANGED <<reply, payments>>
       ELSE LET p == [paymentId |-> c, order |-> req[c].order] IN
              payments' = payments \cup {p} /\ Answers(c, p)
  /\ UNCHANGED <<bvars, clientVars, pc, req, using, answer>>

-----------------------------------------------------------------------------
\* Tasks come and go, and with them the SRV records.
Reregister ==
  /\ changes < MaxChanges
  /\ changes' = changes + 1
  /\ \E s \in (SUBSET Endpoints) \ {srv} : srv' = s
  /\ UNCHANGED <<bvars, client, clients, destroyed, serviceVars, pc, req, using, answer>>

\* onModuleDestroy closes the cached client and keeps the reference to it.
OnModuleDestroy ==
  /\ ~destroyed
  /\ destroyed' = TRUE
  /\ clients' = AfterClose
  /\ client' = [client EXCEPT !.open = FALSE]
  /\ UNCHANGED <<bvars, srv, changes, serviceVars, pc, req, using, answer>>

CallStep(c) ==
  \/ Fire(c) \/ (\E url \in Urls : GetClient(c, url)) \/ Send(c) \/ Receive(c) \/ TimesOut(c)

Next ==
  \/ \E c \in Calls : CallStep(c) \/ Lookup(c) \/ Insert(c)
  \/ \E m \in Methods : ResetTimeout(m) \/ WindowEnds(m)
  \/ Reregister \/ OnModuleDestroy

PSpec == PInit /\ [][Next]_pvars

\* The event loop runs what is ready, and its timers fire.
Fairness == \A c \in Calls : WF_pvars(CallStep(c))

-----------------------------------------------------------------------------
(* Properties *)

\* All calls for an order that are answered name the one payment row of that
\* order, however many run at once, time out or are repeated (authorize and
\* the unique index on payments.order_id).
OnePaymentPerOrder ==
  /\ \A p, q \in payments : p.order = q.order => p = q
  /\ \A c \in Calls : pc[c] = "answered" =>
       \E p \in payments : p.order = req[c].order /\ p.paymentId = answer[c]

\* Rotation leaks no client: at most the cached one is open (getClient).
OneOpenClient == clients = IF client.open THEN 1 ELSE 0

\* A breaker whose trial call is under way leaves half-open, with the service
\* hanging, restarting or answering late: the trial cannot be lost, which
\* would refuse every later payment ("rxjs timeout is the inner guard").
TrialResolves ==
  \A m \in Methods : breaker[m].state = "halfOpen" /\ ~breaker[m].pendingClose
                     ~> breaker[m].state # "halfOpen"

-----------------------------------------------------------------------------
(* The inductive invariant behind the theorems of ShopProcessProofs *)

Breakers == [state : {"closed", "open", "halfOpen"}, fires : Nat, failures : Nat,
             pendingClose : BOOLEAN]

PTypeOK ==
  /\ breaker \in [Methods -> Breakers]
  /\ srv \in SUBSET Endpoints /\ changes \in Nat
  /\ client \in [url : Endpoints \cup {Fallback, None}, open : BOOLEAN]
  /\ clients \in Nat /\ destroyed \in BOOLEAN
  /\ pc \in [Calls -> {"new", "resolve", "got", "sent", "answered", "failed"}]
  /\ req \in [Calls -> Bodies]
  /\ using \in SUBSET Calls
  /\ service \in [Calls -> {"idle", "received", "insert", "ok", "error"}]
  /\ reply \in [Calls -> Calls \cup {None}]
  /\ payments \in SUBSET [paymentId : Calls, order : Orders]
  /\ answer \in [Calls -> Calls \cup {None}]

\* A row of the order of call c has the id the caller or the wire holds.
PaidBy(c, id) == \E p \in payments : p.order = req[c].order /\ p.paymentId = id

\* Answers on their way and answers received name a row, and rows stay.
AnswersNameRows ==
  \A c \in Calls : /\ service[c] = "ok" => PaidBy(c, reply[c])
                   /\ pc[c] = "answered" => PaidBy(c, answer[c])

OneRowPerOrder == \A p, q \in payments : p.order = q.order => p = q

\* A half-open breaker that lets nobody through has its trial call in flight:
\* every way the trial can end takes the breaker out of half-open.
TrialUnderWay ==
  \A m \in Methods :
    breaker[m].state = "halfOpen" /\ ~breaker[m].pendingClose =>
      \E c \in Calls : InFlight(c) /\ M(c) = m

PIInv == PTypeOK /\ OneRowPerOrder /\ AnswersNameRows /\ OneOpenClient /\ TrialUnderWay
=============================================================================
