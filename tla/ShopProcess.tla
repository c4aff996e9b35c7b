---------------------------- MODULE ShopProcess ----------------------------
(***************************************************************************)
(* One process of the shop service: bootstrap(), the RabbitMQ connection,  *)
(* the requests it serves, the health endpoints the platform probes, and   *)
(* the shutdown.                                                           *)
(*                                                                         *)
(* JavaScript runs to completion between two awaits, so a step here is     *)
(* what happens between two of them.  The order of the shutdown hooks is   *)
(* that of NestJS: onModuleDestroy (the consumer first, then the AMQP      *)
(* connection it uses), then the HTTP server, then the connection pool.    *)
(* A hook that rejects makes app.close() reject and skips the rest.        *)
(***************************************************************************)
EXTENDS Integers, FiniteSets

CONSTANTS
  Requests,        \* HTTP requests
  Kinds,           \* what they ask for: an order without or with the one
                   \* idempotency key, or something that is only read
  Unset,
  ProbeThreshold,  \* failing probes in a row until the platform stops the task
  MaxSignals,      \* bound: SIGTERM and SIGINT the process gets
  MaxOutages       \* bound: changes of the dependencies and of the lag

ASSUME ProcessAssumption ==
  /\ Kinds \subseteq {"order", "keyed", "read"}
  /\ Unset \notin Nat
  /\ ProbeThreshold \in Nat \ {0}
  /\ MaxSignals \in Nat /\ MaxOutages \in Nat

VARIABLES
  boot,        \* how far bootstrap() is
  handlers,    \* registerShutdownHandlers has run
  isShuttingDown,
  closing,     \* how far app.close() is
  exit,        \* the exit code
  channel, connection,  \* "null", "open", or "closed" with the reference kept
  consuming,   \* the worker has a consumer tag
  server,      \* the HTTP server
  pool,        \* the DataSource
  down,        \* dependencies that do not answer, of "postgres" and "minio"
  lagging,     \* the sampled p99 of the event loop is over its threshold
  failing,     \* failed probes in a row, per endpoint
  stopping,    \* the platform has decided to stop the task
  signals, outages,
  stage, kind, status,  \* the requests
  committed,            \* the request has created an order and committed it
  handed                \* its message was handed to an open channel

bootVars == <<boot, handlers, exit>>
closeVars == <<isShuttingDown, closing>>
resources == <<channel, connection, consuming, server, pool>>
platform == <<down, lagging, failing, stopping, signals, outages>>
requestVars == <<stage, kind, status, committed, handed>>
svars == <<bootVars, closeVars, resources, platform, requestVars>>

ProbePaths == {"health", "ready"}

SInit ==
  /\ boot = "create" /\ handlers = FALSE /\ exit = Unset
  /\ isShuttingDown = FALSE /\ closing = "no"
  /\ channel = "null" /\ connection = "null" /\ consuming = FALSE
  /\ server = "down" /\ pool = "down"
  /\ down = {} /\ lagging = FALSE
  /\ failing = [e \in ProbePaths |-> 0]
  /\ stopping = FALSE /\ signals = 0 /\ outages = 0
  /\ stage = [r \in Requests |-> "none"]
  /\ kind \in [Requests -> Kinds]
  /\ status = [r \in Requests |-> "none"]
  /\ committed = [r \in Requests |-> FALSE]
  /\ handed = [r \in Requests |-> FALSE]

Alive == exit = Unset

-----------------------------------------------------------------------------
(* safeClose *)

MayClose == ~isShuttingDown

\* safeClose up to the call of app.close(), which starts with the hooks.
StartClose ==
  /\ isShuttingDown' = TRUE
  /\ closing' = "consumer"

CloseTo(step) == closing' = step /\ UNCHANGED <<bootVars, isShuttingDown, platform, requestVars>>

\* OrderWorkerService.stopConsuming: without a channel cancelConsumer is a
\* no-op, on a closed one it throws.
StopConsuming ==
  /\ Alive /\ closing = "consumer"
  /\ IF consuming /\ channel = "closed"
       THEN CloseTo("rejected") /\ UNCHANGED resources
       ELSE /\ CloseTo("channel")
            /\ consuming' = FALSE
            /\ UNCHANGED <<channel, connection, server, pool>>

\* RabbitMQService.disconnect: two awaits, each throws on what is closed.
CloseChannel ==
  /\ Alive /\ closing = "channel"
  /\ IF channel = "closed"
       THEN CloseTo("rejected") /\ UNCHANGED resources
       ELSE /\ CloseTo("connection")
            /\ channel' = "null"
            /\ UNCHANGED <<connection, consuming, server, pool>>

CloseConnection ==
  /\ Alive /\ closing = "connection"
  /\ IF connection = "closed"
       THEN CloseTo("rejected") /\ UNCHANGED resources
       ELSE /\ CloseTo("server")
            /\ connection' = "null"
            /\ UNCHANGED <<channel, consuming, server, pool>>

Running == {r \in Requests : stage[r] = "running"}

\* The HTTP server takes no more connections and waits for the open ones.
CloseServer ==
  /\ Alive /\ closing = "server"
  /\ \/ /\ server = "open"
        /\ server' = "draining"
        /\ UNCHANGED closing
     \/ /\ server # "open" /\ Running = {}
        /\ server' = "down"
        /\ closing' = "pool"
  /\ UNCHANGED <<bootVars, isShuttingDown, channel, connection, consuming, pool,
                 platform, requestVars>>

ClosePool ==
  /\ Alive /\ closing = "pool"
  /\ CloseTo("closed")
  /\ pool' = "down"
  /\ UNCHANGED <<channel, connection, consuming, server>>

Exit(code) == exit' = code /\ UNCHANGED <<boot, handlers>>

\* A variant of CloseSettled: the promise of safeClose is not awaited.
CloseSettled_NotAwaited == closing # "no"

CloseSettled == closing \in {"closed", "rejected"}

\* safeClose never throws: process.exit follows a close that worked and one
\* that was rejected.
ExitAfterClose ==
  /\ Alive /\ CloseSettled
  /\ Exit(IF boot = "failed" THEN 1 ELSE 0)
  /\ UNCHANGED <<closeVars, resources, platform, requestVars>>

CloseStep == \/ StopConsuming \/ CloseChannel \/ CloseConnection
             \/ CloseServer \/ ClosePool \/ ExitAfterClose

-----------------------------------------------------------------------------
(* bootstrap *)

BootTo(step) == boot' = step /\ UNCHANGED <<exit, platform, requestVars>>

\* The catch block: safeClose, then exit 1. Without an app there is nothing
\* to close.
BootFails ==
  /\ Alive /\ boot \in {"create", "connect", "consume", "listen"}
  /\ IF boot = "create"
       THEN exit' = 1 /\ UNCHANGED <<closeVars, channel, connection>>
       ELSE /\ StartClose
            /\ UNCHANGED exit
            /\ \/ UNCHANGED <<channel, connection>>
               \/ /\ boot = "connect"  \* the connection broke during setupQueues
                  /\ channel' = "closed" /\ connection' = "closed"
  /\ boot' = "failed"
  /\ UNCHANGED <<handlers, consuming, server, pool, platform, requestVars>>

\* NestFactory.create: the configuration is validated and the pool opened.
CreateApp ==
  /\ Alive /\ boot = "create" /\ "postgres" \notin down
  /\ BootTo("connect")
  /\ pool' = "open"
  /\ UNCHANGED <<handlers, closeVars, channel, connection, consuming, server>>

\* app.listen: the onModuleInit hooks, RabbitMQService first.
Connect ==
  /\ Alive /\ boot = "connect"
  /\ BootTo("consume")
  /\ channel' = "open" /\ connection' = "open"
  /\ UNCHANGED <<handlers, closeVars, consuming, server, pool>>

StartConsuming ==
  /\ Alive /\ boot = "consume" /\ channel = "open"
  /\ BootTo("listen")
  /\ consuming' = TRUE
  /\ UNCHANGED <<handlers, closeVars, channel, connection, server, pool>>

\* The server is opened when all hooks are done.
Listen ==
  /\ Alive /\ boot = "listen"
  /\ BootTo("register")
  /\ server' = "open"
  /\ UNCHANGED <<handlers, closeVars, channel, connection, consuming, pool>>

RegisterShutdownHandlers ==
  /\ Alive /\ boot = "register"
  /\ BootTo("up")
  /\ handlers' = TRUE
  /\ UNCHANGED <<closeVars, resources>>

BootStep == CreateApp \/ Connect \/ StartConsuming \/ Listen \/ RegisterShutdownHandlers

-----------------------------------------------------------------------------
(* Signals and errors *)

\* SIGTERM or SIGINT. Without a handler it ends the process; a second one
\* finds isShuttingDown set, so safeClose returns and the process exits
\* while the first close is still running.
Signal ==
  /\ Alive /\ signals < MaxSignals
  /\ signals' = signals + 1
  /\ \/ ~handlers /\ Exit(143) /\ UNCHANGED closeVars
     \/ handlers /\ MayClose /\ StartClose /\ UNCHANGED bootVars
     \/ handlers /\ ~MayClose /\ Exit(0) /\ UNCHANGED closeVars
  /\ UNCHANGED <<resources, down, lagging, failing, stopping, outages, requestVars>>

\* uncaughtException and unhandledRejection; ignored during a shutdown.
UncaughtError ==
  /\ Alive /\ ~isShuttingDown
  /\ isShuttingDown' = TRUE
  /\ Exit(1)
  /\ UNCHANGED <<closing, resources, platform, requestVars>>

\* The broker or the network ends the connection. The listeners log it and
\* keep both references: nothing reconnects.
ConnectionLost ==
  /\ Alive /\ connection = "open"
  /\ connection' = "closed"
  /\ channel' = IF channel = "open" THEN "closed" ELSE channel
  /\ UNCHANGED <<bootVars, closeVars, consuming, server, pool, platform, requestVars>>

-----------------------------------------------------------------------------
(* Requests *)

Arrive(r) ==
  /\ Alive /\ server = "open" /\ stage[r] = "none"
  /\ stage' = [stage EXCEPT ![r] = "running"]
  /\ UNCHANGED <<bootVars, closeVars, resources, platform, kind, status, committed, handed>>

\* The response is finished: the status of the handler, or the one
\* GlobalExceptionFilter extracts from what it threw.
Finish(r, class) ==
  /\ stage' = [stage EXCEPT ![r] = "done"]
  /\ status' = [status EXCEPT ![r] = class]
  /\ UNCHANGED <<bootVars, closeVars, resources, platform, kind, committed>>

\* The class of the status that the filter reports for what was thrown, and
\* that a GraphQL error carries (normalizeGQLError): HTTP exceptions have
\* their own, here a refusal; a failing statement and the rest are a 500.
ErrorClass(thrown) == IF thrown = "HttpException" THEN "4xx" ELSE "5xx"

\* A guard, a pipe or the service refuses: nothing is committed.
Refuse(r) ==
  /\ Alive /\ stage[r] = "running" /\ ~committed[r]
  /\ Finish(r, ErrorClass("HttpException"))
  /\ UNCHANGED handed

\* A statement that finds no database throws.  The commit is the last one an
\* order waits for.
QueryFails(r) ==
  /\ Alive /\ stage[r] = "running" /\ ~committed[r] /\ "postgres" \in down
  /\ Finish(r, ErrorClass("QueryFailedError"))
  /\ UNCHANGED handed

WantsOrder(r) == kind[r] \in {"order", "keyed"}

\* Requests with the key find the order one of them has committed.
KeyTaken(r) == kind[r] = "keyed" /\ \E q \in Requests : kind[q] = "keyed" /\ committed[q]

\* The transaction of createOrder commits; the unique index keeps a second
\* order of the key out.  Others see the order before its creator goes on.
CommitOrder(r) ==
  /\ Alive /\ stage[r] = "running" /\ WantsOrder(r) /\ ~committed[r]
  /\ "postgres" \notin down /\ ~KeyTaken(r)
  /\ committed' = [committed EXCEPT ![r] = TRUE]
  /\ UNCHANGED <<bootVars, closeVars, resources, platform, stage, kind, status, handed>>

\* The idempotent hit, found by checkIdempotency or after error 23505: the
\* existing order is the answer, and nothing is published for it again.
AnswerExisting(r) ==
  /\ Alive /\ stage[r] = "running" /\ ~committed[r]
  /\ "postgres" \notin down /\ KeyTaken(r)
  /\ Finish(r, "2xx")
  /\ UNCHANGED handed

\* A variant of PublishThrows: without a channel publish returns.
PublishThrows_NotNull == channel = "closed"

\* RabbitMQService.publish: resolveChannel and sendToQueue throw.
PublishThrows == channel \in {"null", "closed"}

\* The order is committed; its message is published by the request that
\* created it.  What publish throws is no database error and goes to the client.
Publish(r) ==
  /\ Alive /\ stage[r] = "running" /\ committed[r]
  /\ IF PublishThrows
       THEN Finish(r, ErrorClass("Error")) /\ UNCHANGED handed
       ELSE /\ handed' = [handed EXCEPT ![r] = (channel = "open")]
            /\ Finish(r, "2xx")

Answer(r) ==
  /\ Alive /\ stage[r] = "running" /\ ~WantsOrder(r)
  /\ Finish(r, "2xx")
  /\ UNCHANGED handed

RequestStep(r) == \/ CommitOrder(r) \/ AnswerExisting(r) \/ Publish(r)
                  \/ Answer(r) \/ QueryFails(r)

-----------------------------------------------------------------------------
(* The platform *)

\* EventLoopHealthIndicator
EventLoopUp == ~lagging

\* A variant of RabbitUp: the reference is there.
RabbitUp_NotNull == channel # "null"

\* RabbitMQHealthIndicator: there is a channel and checkQueue works on it.
RabbitUp == channel = "open"

\* HealthController.health and ready
Up(e) == /\ server = "open"
         /\ e = "health" => EventLoopUp
         /\ e = "ready" => RabbitUp /\ "postgres" \notin down /\ "minio" \notin down

\* The container's health check asks /health, the load balancer /ready.
Probe(e) ==
  /\ Alive /\ boot \in {"register", "up"} /\ failing[e] < ProbeThreshold
  /\ failing' = [failing EXCEPT ![e] = IF Up(e) THEN 0 ELSE @ + 1]
  /\ UNCHANGED <<bootVars, closeVars, resources, down, lagging, stopping, signals, outages,
                 requestVars>>

\* The platform stops a task whose probes fail, and any task when it
\* deploys or scales in; the signal follows, later the kill.
Unhealthy == \E e \in ProbePaths : failing[e] = ProbeThreshold

StopTask ==
  /\ Alive /\ ~stopping
  /\ stopping' = TRUE
  /\ UNCHANGED <<bootVars, closeVars, resources, down, lagging, failing, signals, outages,
                 requestVars>>

Kill ==
  /\ Alive /\ stopping
  /\ Exit(137)
  /\ UNCHANGED <<closeVars, resources, platform, requestVars>>

\* A dependency stops or starts answering; the monitor takes a sample.
Outage ==
  /\ Alive /\ outages < MaxOutages
  /\ outages' = outages + 1
  /\ \/ \E d \in {"postgres", "minio"} :
          down' = (IF d \in down THEN down \ {d} ELSE down \cup {d}) /\ UNCHANGED lagging
     \/ lagging' = ~lagging /\ UNCHANGED down
  /\ UNCHANGED <<bootVars, closeVars, resources, failing, stopping, signals, requestVars>>

ProcessNext ==
  \/ BootStep \/ BootFails \/ CloseStep
  \/ Signal \/ UncaughtError \/ ConnectionLost
  \/ \E r \in Requests : Arrive(r) \/ Refuse(r) \/ RequestStep(r)
  \/ \E e \in ProbePaths : Probe(e)
  \/ StopTask \/ Kill \/ Outage

Spec == SInit /\ [][ProcessNext]_svars

\* The event loop runs what is ready, the probes are periodic, a task that
\* fails them is stopped, and a stopped task is killed after the grace period.
ProcessFairness ==
  /\ WF_svars(BootStep) /\ WF_svars(CloseStep)
  /\ \A e \in ProbePaths : WF_svars(Probe(e))
  /\ WF_svars(Unhealthy /\ StopTask)
  /\ WF_svars(Kill)

-----------------------------------------------------------------------------
(* Properties *)

\* An exit with code 0 cuts a request off, or leaves the pool open, only
\* after a second signal or when a hook met a connection that was lost
\* before or during the shutdown (shutdown, safeClose, disconnect).
CleanUnlessCause ==
  exit = 0 /\ (Running # {} \/ pool = "open") =>
    signals > 1 \/ (closing = "rejected" /\ "closed" \in {channel, connection})

\* Request q created the order that request r asks for.
Created(q, r) == committed[q] /\ (q = r \/ (kind[q] = "keyed" /\ kind[r] = "keyed"))

\* A client is told that its order was accepted only if the order is committed
\* and its message was handed to an open channel, also while the connection is
\* lost or closed under the request.  The one exception is a retry by key whose
\* order was created by a request that was not told so: its publish threw, or
\* has not happened yet (createOrder, publish).
AcceptedWasHanded ==
  \A r \in Requests : WantsOrder(r) /\ status[r] = "2xx" =>
    \E q \in Requests : Created(q, r) /\ (handed[q] \/ (q # r /\ status[q] # "2xx"))

\* A process that has lost its connection does not linger: the readiness
\* probe has it replaced (RabbitMQHealthIndicator).
LostConnectionEnds == (boot = "up" /\ channel = "closed") ~> (exit # Unset)

-----------------------------------------------------------------------------
(* The inductive invariant behind the theorems of ShopProcessProofs *)

Reference == {"null", "open", "closed"}

STypeOK ==
  /\ boot \in {"create", "connect", "consume", "listen", "register", "up", "failed"}
  /\ handlers \in BOOLEAN /\ exit \in {Unset, 0, 1, 137, 143}
  /\ isShuttingDown \in BOOLEAN
  /\ closing \in {"no", "consumer", "channel", "connection", "server", "pool", "closed", "rejected"}
  /\ channel \in Reference /\ connection \in Reference /\ consuming \in BOOLEAN
  /\ server \in {"down", "open", "draining"} /\ pool \in {"down", "open"}
  /\ down \in SUBSET {"postgres", "minio"} /\ lagging \in BOOLEAN
  /\ failing \in [ProbePaths -> Nat] /\ stopping \in BOOLEAN
  /\ signals \in Nat /\ outages \in Nat
  /\ stage \in [Requests -> {"none", "running", "done"}]
  /\ kind \in [Requests -> Kinds]
  /\ status \in [Requests -> {"none", "2xx", "4xx", "5xx"}]
  /\ committed \in [Requests -> BOOLEAN]
  /\ handed \in [Requests -> BOOLEAN]

\* Only a request for an order commits one, one request for the key; a
\* message is handed over, and a success reported, by one that has committed.
RequestsConsistent ==
  \A r \in Requests :
    /\ handed[r] => committed[r]
    /\ committed[r] => WantsOrder(r)
    /\ stage[r] # "done" => status[r] = "none"
    /\ committed[r] /\ kind[r] = "keyed" =>
         \A q \in Requests \ {r} : kind[q] = "keyed" => ~committed[q]
    /\ committed[r] /\ status[r] = "2xx" => handed[r]

\* Who started the shutdown, and what each stage of it has left behind: only
\* the catch block of bootstrap and a signal close the application, a hook is
\* rejected by what is closed, and the pool closes after the last request.
ShutdownConsistent ==
  /\ handlers => boot = "up"
  /\ closing # "no" => boot \in {"failed", "up"}
  /\ Alive /\ isShuttingDown => boot = "failed" \/ signals > 0
  /\ closing = "rejected" => channel = "closed" \/ connection = "closed"
  /\ closing \in {"pool", "closed"} => server # "open" /\ Running = {}
  /\ closing = "closed" => pool # "open"

SIInv ==
  /\ STypeOK /\ RequestsConsistent /\ ShutdownConsistent
  /\ CleanUnlessCause /\ AcceptedWasHanded
=============================================================================
