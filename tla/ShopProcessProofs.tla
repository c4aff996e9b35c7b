------------------------- MODULE ShopProcessProofs -------------------------
(***************************************************************************)
(* Theorems about a process of the shop.  First its life (ShopProcess),    *)
(* for any number of concurrent requests, of signals and of                *)
(* outages; then its payment calls (PaymentCalls), for any number of calls *)
(* and orders and any thresholds of the circuit breakers.                  *)
(***************************************************************************)
EXTENDS ShopProcess, PaymentCalls, TLAPS


\* What is proved about the requests; and what about the process.
RequestsInv == RequestsConsistent /\ AcceptedWasHanded

ProcessInv == ShutdownConsistent /\ CleanUnlessCause

-----------------------------------------------------------------------------
(* Frames *)

\* Steps of the process and of the platform leave the requests alone.
LEMMA RequestsFrame ==
  ASSUME RequestsInv, UNCHANGED requestVars
  PROVE  RequestsInv'
BY DEF RequestsInv, RequestsConsistent, AcceptedWasHanded, Created, WantsOrder, requestVars

\* Requests end and new ones arrive, but none while the pool is being closed.
LEMMA ProcessFrame ==
  ASSUME STypeOK, ProcessInv, Alive, UNCHANGED <<bootVars, closeVars, resources, signals>>,
         server = "open" \/ \A r \in Requests : stage'[r] = "running" => stage[r] = "running"
  PROVE  ProcessInv'
<1>1. ShutdownConsistent'
  BY DEF ProcessInv, ShutdownConsistent, bootVars, closeVars, resources, Alive, Running
<1>2. CleanUnlessCause'
  BY ProcessAssumption DEF CleanUnlessCause, bootVars, Alive
<1> QED
  BY <1>1, <1>2 DEF ProcessInv

-----------------------------------------------------------------------------
(* bootstrap *)

LEMMA BootKeepsSIInv ==
  ASSUME SIInv, BootStep \/ BootFails
  PROVE  SIInv'
<1> USE DEF SIInv
<1>1. RequestsInv'
  <2>1. UNCHANGED requestVars
    BY DEF BootStep, BootFails, CreateApp, Connect, StartConsuming, Listen,
           RegisterShutdownHandlers, BootTo
  <2> QED
    BY <2>1, RequestsFrame DEF RequestsInv
<1>2. UNCHANGED <<platform, requestVars>>
  BY DEF BootStep, BootFails, CreateApp, Connect, StartConsuming, Listen,
         RegisterShutdownHandlers, BootTo
<1>3. CASE BootStep
  <2>1. /\ exit = Unset /\ exit' = Unset
        /\ closing = "no" /\ UNCHANGED closeVars
        /\ ~isShuttingDown \/ signals > 0
        /\ handlers' => boot' = "up"
    BY <1>3, ProcessAssumption
       DEF BootStep, CreateApp, Connect, StartConsuming, Listen, RegisterShutdownHandlers,
           BootTo, Alive, STypeOK, ShutdownConsistent
  <2>2. STypeOK'
    <3>1. /\ boot' \in {"create", "connect", "consume", "listen", "register", "up", "failed"}
          /\ handlers' \in BOOLEAN
          /\ channel' \in Reference /\ connection' \in Reference /\ consuming' \in BOOLEAN
          /\ server' \in {"down", "open", "draining"} /\ pool' \in {"down", "open"}
      BY <1>3 DEF BootStep, CreateApp, Connect, StartConsuming, Listen, RegisterShutdownHandlers,
                  BootTo, resources, STypeOK, Reference
    <3> QED
      BY <1>2, <2>1, <3>1 DEF STypeOK, closeVars, platform, requestVars
  <2>3. ShutdownConsistent' /\ CleanUnlessCause'
    BY <1>2, <2>1, ProcessAssumption DEF ShutdownConsistent, CleanUnlessCause, Alive, closeVars, platform
  <2> QED
    BY <1>1, <2>2, <2>3 DEF RequestsInv
<1>4. CASE BootFails
  <2>1. closing = "no" /\ ~handlers /\ handlers' = handlers /\ boot' = "failed"
        /\ UNCHANGED <<consuming, server, pool>>
    BY <1>4 DEF BootFails, ShutdownConsistent
  <2>2. CASE boot = "create"
    <3>1. exit' = 1 /\ UNCHANGED <<closeVars, channel, connection>>
      BY <1>4, <2>2 DEF BootFails
    <3>2. STypeOK'
      BY <1>2, <2>1, <3>1 DEF STypeOK, closeVars, platform, requestVars
    <3>3. ShutdownConsistent' /\ CleanUnlessCause'
      BY <2>1, <3>1, ProcessAssumption
         DEF ShutdownConsistent, CleanUnlessCause, Alive, closeVars, STypeOK
    <3> QED
      BY <1>1, <3>2, <3>3 DEF RequestsInv
  <2>3. CASE boot # "create"
    <3>1. /\ exit = Unset /\ exit' = Unset /\ isShuttingDown' = TRUE /\ closing' = "consumer"
          /\ channel' \in {channel, "closed"} /\ connection' \in {connection, "closed"}
      BY <1>4, <2>3 DEF BootFails, StartClose, Alive
    <3>2. STypeOK'
      BY <1>2, <2>1, <3>1 DEF STypeOK, Reference, platform, requestVars
    <3>3. ShutdownConsistent' /\ CleanUnlessCause'
      BY <2>1, <3>1, ProcessAssumption DEF ShutdownConsistent, CleanUnlessCause
    <3> QED
      BY <1>1, <3>2, <3>3 DEF RequestsInv
  <2> QED
    BY <2>2, <2>3
<1> QED
  BY <1>3, <1>4

-----------------------------------------------------------------------------
(* app.close() and the exit behind it *)

LEMMA CloseKeepsSIInv ==
  ASSUME SIInv, CloseStep
  PROVE  SIInv'
<1> USE DEF SIInv
<1>1. UNCHANGED <<boot, handlers, isShuttingDown, platform, requestVars>>
  BY DEF CloseStep, StopConsuming, CloseChannel, CloseConnection, CloseServer, ClosePool,
         ExitAfterClose, CloseTo, Exit, bootVars, closeVars
<1>2. RequestsInv'
  BY <1>1, RequestsFrame DEF RequestsInv
<1>3. Running' = Running
  BY <1>1 DEF Running, requestVars
<1>4. CASE StopConsuming \/ CloseChannel \/ CloseConnection \/ CloseServer \/ ClosePool
  <2>1. /\ exit = Unset /\ exit' = Unset /\ closing # "no"
        /\ closing' \in {"channel", "connection", "server", "pool", "closed", "rejected"}
        /\ channel' \in {channel, "null"} /\ connection' \in {connection, "null"}
        /\ consuming' \in BOOLEAN
        /\ server' \in {server, "draining", "down"} /\ pool' \in {pool, "down"}
    BY <1>4 DEF StopConsuming, CloseChannel, CloseConnection, CloseServer, ClosePool, CloseTo,
                Alive, bootVars, resources, STypeOK
  <2>2. /\ closing' = "rejected" => channel' = "closed" \/ connection' = "closed"
        /\ closing' \in {"pool", "closed"} => server' # "open" /\ Running = {}
        /\ closing' = "closed" => pool' # "open"
    <3>1. CASE StopConsuming \/ CloseChannel \/ CloseConnection
      BY <3>1 DEF StopConsuming, CloseChannel, CloseConnection, CloseTo, resources
    <3>2. CASE CloseServer
      BY <3>2 DEF CloseServer
    <3>3. CASE ClosePool
      BY <3>3 DEF ClosePool, CloseTo, ShutdownConsistent
    <3> QED
      BY <1>4, <3>1, <3>2, <3>3
  <2>3. STypeOK'
    BY <1>1, <2>1 DEF STypeOK, Reference, platform, requestVars
  <2>4. ShutdownConsistent'
    BY <1>1, <1>3, <2>1, <2>2 DEF ShutdownConsistent, Alive, platform
  <2>5. CleanUnlessCause'
    BY <2>1, ProcessAssumption DEF CleanUnlessCause
  <2> QED
    BY <1>2, <2>3, <2>4, <2>5 DEF RequestsInv
<1>5. CASE ExitAfterClose
  <2>1. /\ exit' \in {0, 1} /\ closing \in {"closed", "rejected"}
        /\ UNCHANGED <<closing, channel, connection, consuming, server, pool>>
    BY <1>5 DEF ExitAfterClose, CloseSettled, Exit, closeVars, resources
  <2>2. STypeOK'
    BY <1>1, <2>1 DEF STypeOK, platform, requestVars
  <2>3. ShutdownConsistent'
    BY <1>1, <1>3, <2>1, ProcessAssumption DEF ShutdownConsistent, Alive
  <2>4. CleanUnlessCause'
    BY <1>3, <2>1 DEF CleanUnlessCause, ShutdownConsistent
  <2> QED
    BY <1>2, <2>2, <2>3, <2>4 DEF RequestsInv
<1> QED
  BY <1>4, <1>5 DEF CloseStep

-----------------------------------------------------------------------------
(* Signals, errors and the broker *)

LEMMA SignalKeepsSIInv ==
  ASSUME SIInv, Signal
  PROVE  SIInv'
<1> USE DEF SIInv
<1>1. /\ exit = Unset /\ signals' = signals + 1
      /\ UNCHANGED <<boot, handlers, resources, down, lagging, failing, stopping, outages,
                     requestVars>>
  BY DEF Signal, Alive, Exit, bootVars
<1>2. RequestsInv' /\ Running' = Running
  BY <1>1, RequestsFrame DEF RequestsInv, Running, requestVars
<1>3. CASE ~handlers /\ Exit(143) /\ UNCHANGED closeVars
  <2>1. STypeOK'
    BY <1>1, <1>3 DEF STypeOK, Exit, closeVars, resources, requestVars
  <2>2. ShutdownConsistent' /\ CleanUnlessCause'
    BY <1>1, <1>2, <1>3, ProcessAssumption
       DEF ShutdownConsistent, CleanUnlessCause, Exit, Alive, closeVars, resources, STypeOK
  <2> QED
    BY <1>2, <2>1, <2>2 DEF RequestsInv
<1>4. CASE handlers /\ MayClose /\ StartClose /\ UNCHANGED bootVars
  <2>1. boot = "up" /\ isShuttingDown' = TRUE /\ closing' = "consumer" /\ exit' = Unset
    BY <1>1, <1>4 DEF ShutdownConsistent, StartClose, bootVars
  <2>2. STypeOK'
    BY <1>1, <1>4, <2>1 DEF STypeOK, resources, requestVars
  <2>3. ShutdownConsistent'
    BY <1>1, <2>1 DEF ShutdownConsistent, STypeOK
  <2>4. CleanUnlessCause'
    BY <2>1, ProcessAssumption DEF CleanUnlessCause
  <2> QED
    BY <1>2, <2>2, <2>3, <2>4 DEF RequestsInv
<1>5. CASE handlers /\ ~MayClose /\ Exit(0) /\ UNCHANGED closeVars
  <2>1. exit' = 0 /\ signals' > 1
    BY <1>1, <1>5 DEF Exit, MayClose, ShutdownConsistent, Alive, STypeOK
  <2>2. STypeOK'
    BY <1>1, <1>5, <2>1 DEF STypeOK, closeVars, resources, requestVars
  <2>3. ShutdownConsistent' /\ CleanUnlessCause'
    BY <1>1, <1>2, <1>5, <2>1, ProcessAssumption
       DEF ShutdownConsistent, CleanUnlessCause, Alive, closeVars, resources
  <2> QED
    BY <1>2, <2>2, <2>3 DEF RequestsInv
<1> QED
  BY <1>3, <1>4, <1>5 DEF Signal

LEMMA ErrorKeepsSIInv ==
  ASSUME SIInv, UncaughtError \/ Kill \/ ConnectionLost
  PROVE  SIInv'
<1> USE DEF SIInv
<1>1. exit = Unset /\ UNCHANGED <<boot, handlers, closing, consuming, server, pool, platform, requestVars>>
  BY DEF UncaughtError, Kill, ConnectionLost, Alive, Exit, bootVars, closeVars, resources
<1>2. RequestsInv' /\ Running' = Running
  BY <1>1, RequestsFrame DEF RequestsInv, Running, requestVars
<1>3. CASE UncaughtError \/ Kill
  <2>1. exit' \in {1, 137} /\ isShuttingDown' \in BOOLEAN /\ UNCHANGED <<channel, connection>>
    BY <1>3 DEF UncaughtError, Kill, Exit, closeVars, resources, STypeOK
  <2>2. STypeOK'
    BY <1>1, <2>1 DEF STypeOK, platform, requestVars
  <2>3. ShutdownConsistent' /\ CleanUnlessCause'
    BY <1>1, <1>2, <2>1, ProcessAssumption
       DEF ShutdownConsistent, CleanUnlessCause, Alive
  <2> QED
    BY <1>2, <2>2, <2>3 DEF RequestsInv
<1>4. CASE ConnectionLost
  <2>1. /\ exit' = Unset /\ isShuttingDown' = isShuttingDown
        /\ connection' = "closed" /\ channel' \in {channel, "closed"}
    BY <1>1, <1>4 DEF ConnectionLost, bootVars, closeVars
  <2>2. STypeOK'
    BY <1>1, <2>1 DEF STypeOK, Reference, platform, requestVars
  <2>3. ShutdownConsistent'
    BY <1>1, <1>2, <2>1 DEF ShutdownConsistent, Alive, platform
  <2>4. CleanUnlessCause'
    BY <2>1, ProcessAssumption DEF CleanUnlessCause
  <2> QED
    BY <1>2, <2>2, <2>3, <2>4 DEF RequestsInv
<1> QED
  BY <1>3, <1>4

-----------------------------------------------------------------------------
(* The platform *)

LEMMA PlatformKeepsSIInv ==
  ASSUME SIInv, (\E e \in ProbePaths : Probe(e)) \/ StopTask \/ Outage
  PROVE  SIInv'
<1> USE DEF SIInv
<1>1. Alive /\ UNCHANGED <<bootVars, closeVars, resources, signals, requestVars>>
  BY DEF Probe, StopTask, Outage
<1>2. RequestsInv'
  BY <1>1, RequestsFrame DEF RequestsInv
<1>3. ProcessInv'
  BY <1>1, ProcessFrame DEF ProcessInv, requestVars
<1>4. /\ failing' \in [ProbePaths -> Nat] /\ stopping' \in BOOLEAN
      /\ down' \in SUBSET {"postgres", "minio"} /\ lagging' \in BOOLEAN /\ outages' \in Nat
  <2>1. ASSUME NEW e \in ProbePaths, Probe(e) PROVE failing' \in [ProbePaths -> Nat]
    BY <2>1 DEF Probe, STypeOK
  <2>2. CASE Outage
    <3>1. UNCHANGED <<failing, stopping>> /\ outages' = outages + 1
      BY <2>2 DEF Outage
    <3>2. down' \in SUBSET {"postgres", "minio"} /\ lagging' \in BOOLEAN
      BY <2>2 DEF Outage, STypeOK
    <3> QED
      BY <3>1, <3>2 DEF STypeOK
  <2> QED
    BY <2>1, <2>2 DEF Probe, StopTask, STypeOK
<1>5. STypeOK'
  BY <1>1, <1>4 DEF STypeOK, bootVars, closeVars, resources, requestVars
<1> QED
  BY <1>2, <1>3, <1>5 DEF RequestsInv, ProcessInv

-----------------------------------------------------------------------------
(* Requests *)

LEMMA ArriveKeepsSIInv ==
  ASSUME SIInv, NEW r \in Requests, Arrive(r)
  PROVE  SIInv'
<1> USE DEF SIInv
<1>1. /\ stage[r] = "none" /\ stage' = [stage EXCEPT ![r] = "running"]
      /\ UNCHANGED <<bootVars, closeVars, resources, platform, kind, status, committed, handed>>
  BY DEF Arrive
<1>2. STypeOK'
  BY <1>1 DEF STypeOK, bootVars, closeVars, resources, platform
<1>3. ProcessInv'
  BY <1>1, ProcessFrame DEF ProcessInv, Arrive, platform
<1>4. RequestsConsistent'
  BY <1>1 DEF STypeOK, RequestsConsistent, WantsOrder
<1>5. AcceptedWasHanded'
  BY <1>1 DEF AcceptedWasHanded, Created, WantsOrder
<1> QED
  BY <1>2, <1>3, <1>4, <1>5 DEF ProcessInv

\* The commit of an order: it is the first one of its key.
LEMMA CommitKeepsSIInv ==
  ASSUME SIInv, NEW r \in Requests, CommitOrder(r)
  PROVE  SIInv'
<1> USE DEF SIInv
<1>1. /\ stage[r] = "running" /\ WantsOrder(r) /\ ~committed[r] /\ ~KeyTaken(r) /\ status[r] = "none"
      /\ committed' = [committed EXCEPT ![r] = TRUE]
      /\ UNCHANGED <<bootVars, closeVars, resources, platform, stage, kind, status, handed>>
  BY DEF CommitOrder, RequestsConsistent
<1>2. STypeOK'
  BY <1>1 DEF STypeOK, bootVars, closeVars, resources, platform
<1>3. ProcessInv'
  BY <1>1, ProcessFrame DEF ProcessInv, CommitOrder, platform
<1>4. /\ committed'[r] /\ \A q \in Requests : committed[q] => committed'[q]
      /\ \A q \in Requests \ {r} : committed'[q] = committed[q]
  BY <1>1 DEF STypeOK
<1>5. RequestsConsistent'
  BY <1>1, <1>4 DEF RequestsConsistent, WantsOrder, KeyTaken
<1>6. AcceptedWasHanded'
  BY <1>1, <1>4 DEF AcceptedWasHanded, Created, WantsOrder
<1> QED
  BY <1>2, <1>3, <1>5, <1>6 DEF ProcessInv

\* The end of a request with any status; with a 2xx for an order only when its
\* message was handed over or another request has created the order.
LEMMA FinishKeepsSIInv ==
  ASSUME SIInv, Alive, NEW r \in Requests, NEW class \in {"2xx", "4xx", "5xx"},
         stage[r] = "running", Finish(r, class),
         handed' \in [Requests -> BOOLEAN],
         \A q \in Requests : handed[q] => handed'[q],
         \A q \in Requests \ {r} : handed'[q] = handed[q],
         handed'[r] => committed[r],
         WantsOrder(r) /\ class = "2xx" => (committed[r] /\ handed'[r]) \/ (~committed[r] /\ KeyTaken(r))
  PROVE  SIInv'
<1> USE DEF SIInv
<1>1. /\ stage' = [stage EXCEPT ![r] = "done"] /\ status' = [status EXCEPT ![r] = class]
      /\ UNCHANGED <<bootVars, closeVars, resources, platform, kind, committed>>
  BY DEF Finish
<1>2. STypeOK'
  BY <1>1 DEF STypeOK, bootVars, closeVars, resources, platform
<1>3. ProcessInv'
  BY <1>1, ProcessFrame DEF ProcessInv, platform, STypeOK
<1>4. /\ stage'[r] = "done" /\ status'[r] = class
      /\ \A q \in Requests \ {r} : stage'[q] = stage[q] /\ status'[q] = status[q]
  BY <1>1 DEF STypeOK
<1>5. RequestsConsistent'
  BY <1>1, <1>4 DEF RequestsConsistent, WantsOrder
<1>6. AcceptedWasHanded'
  <2> SUFFICES ASSUME NEW a \in Requests, WantsOrder(a), status'[a] = "2xx"
               PROVE  \E q \in Requests :
                        /\ committed[q] /\ (q = a \/ (kind[q] = "keyed" /\ kind[a] = "keyed"))
                        /\ handed'[q] \/ (q # a /\ status'[q] # "2xx")
    BY <1>1 DEF AcceptedWasHanded, Created, WantsOrder
  <2>1. CASE a = r
    <3>1. CASE committed[r] /\ handed'[r]
      BY <2>1, <3>1
    <3>2. CASE ~committed[r] /\ KeyTaken(r)
      <4>1. PICK q \in Requests : kind[q] = "keyed" /\ committed[q] /\ kind[r] = "keyed"
        BY <3>2 DEF KeyTaken
      <4>2. status[q] = "2xx" => handed'[q]
        BY <4>1 DEF RequestsConsistent
      <4> QED
        BY <1>4, <2>1, <3>2, <4>1, <4>2
    <3> QED
      BY <1>4, <2>1, <3>1, <3>2
  <2>2. CASE a # r
    <3>1. status[a] = "2xx"
      BY <1>4, <2>2
    <3>2. PICK q \in Requests : /\ committed[q] /\ (q = a \/ (kind[q] = "keyed" /\ kind[a] = "keyed"))
                                /\ handed[q] \/ (q # a /\ status[q] # "2xx")
      BY <3>1 DEF AcceptedWasHanded, Created
    <3>3. CASE handed[q] \/ q # r
      BY <1>4, <3>2, <3>3
    <3>4. CASE q = r /\ ~handed[q]
      BY <1>4, <2>2, <3>2, <3>4 DEF RequestsConsistent, WantsOrder
    <3> QED
      BY <3>3, <3>4
  <2> QED
    BY <2>1, <2>2
<1> QED
  BY <1>2, <1>3, <1>5, <1>6 DEF ProcessInv

LEMMA RequestKeepsSIInv ==
  ASSUME SIInv, NEW r \in Requests, Refuse(r) \/ RequestStep(r)
  PROVE  SIInv'
<1>1. /\ handed \in [Requests -> BOOLEAN] /\ channel \in Reference
      /\ handed[r] => committed[r]
  BY DEF SIInv, STypeOK, RequestsConsistent
<1>2. CASE Refuse(r) \/ QueryFails(r)
  <2>1. Alive /\ stage[r] = "running" /\ handed' = handed
    BY <1>2 DEF Refuse, QueryFails
  <2>2. \E class \in {"4xx", "5xx"} : Finish(r, class)
    BY <1>2 DEF Refuse, QueryFails, ErrorClass
  <2> QED
    BY <1>1, <2>1, <2>2, FinishKeepsSIInv
<1>3. CASE Answer(r) \/ AnswerExisting(r)
  BY <1>1, <1>3, FinishKeepsSIInv DEF Answer, AnswerExisting
<1>4. CASE Publish(r)
  <2>1. CASE PublishThrows
    <3>1. Alive /\ stage[r] = "running" /\ Finish(r, "5xx") /\ handed' = handed
      BY <1>4, <2>1 DEF Publish, ErrorClass
    <3> QED
      BY <1>1, <3>1, FinishKeepsSIInv
  <2>2. CASE ~PublishThrows
    <3>1. channel = "open"
      BY <1>1, <2>2 DEF PublishThrows, Reference
    <3>2. /\ Alive /\ stage[r] = "running" /\ committed[r] /\ Finish(r, "2xx")
          /\ handed' = [handed EXCEPT ![r] = TRUE]
      BY <1>4, <2>2, <3>1 DEF Publish
    <3>3. /\ handed' \in [Requests -> BOOLEAN] /\ handed'[r]
          /\ \A q \in Requests : handed[q] => handed'[q]
          /\ \A q \in Requests \ {r} : handed'[q] = handed[q]
      BY <1>1, <3>2
    <3> QED
      BY <3>2, <3>3, FinishKeepsSIInv
  <2> QED
    BY <2>1, <2>2
<1> QED
  BY <1>2, <1>3, <1>4, CommitKeepsSIInv DEF RequestStep

-----------------------------------------------------------------------------
(* Theorems *)

LEMMA InitSIInv == SInit => SIInv
<1> SUFFICES ASSUME SInit PROVE SIInv
  OBVIOUS
<1> USE DEF SInit
<1>1. STypeOK
  BY DEF STypeOK, Reference
<1>2. RequestsConsistent /\ AcceptedWasHanded
  BY DEF RequestsConsistent, AcceptedWasHanded
<1>3. ShutdownConsistent /\ CleanUnlessCause
  BY ProcessAssumption DEF ShutdownConsistent, CleanUnlessCause
<1> QED
  BY <1>1, <1>2, <1>3 DEF SIInv

LEMMA NextSIInv == SIInv /\ [ProcessNext]_svars => SIInv'
<1> SUFFICES ASSUME SIInv, [ProcessNext]_svars PROVE SIInv'
  OBVIOUS
<1>1. CASE UNCHANGED svars
  <2>1. UNCHANGED <<bootVars, closeVars, resources, platform, requestVars>>
    BY <1>1 DEF svars
  <2>2. STypeOK'
    BY <2>1 DEF SIInv, STypeOK, bootVars, closeVars, resources, platform, requestVars
  <2>3. RequestsInv'
    BY <2>1, RequestsFrame DEF SIInv, RequestsInv
  <2>4. ShutdownConsistent' /\ CleanUnlessCause'
    BY <2>1 DEF SIInv, ShutdownConsistent, CleanUnlessCause, Alive, Running, bootVars, closeVars,
                resources, platform, requestVars
  <2> QED
    BY <2>2, <2>3, <2>4 DEF SIInv, RequestsInv
<1> QED
  BY <1>1, BootKeepsSIInv, CloseKeepsSIInv, SignalKeepsSIInv, ErrorKeepsSIInv,
     PlatformKeepsSIInv, ArriveKeepsSIInv, RequestKeepsSIInv DEF ProcessNext

\* The inductive invariant of the process.
THEOREM SIInvIsInvariant == Spec => []SIInv
<1> QED
  BY InitSIInv, NextSIInv, PTL DEF Spec

\* An exit with code 0 that cuts a request off or leaves the pool open has a
\* cause outside: a second signal, or a connection the hooks found closed
\* (shutdown, safeClose, the onModuleDestroy hooks).
THEOREM ShutdownIsClean == Spec => []CleanUnlessCause
<1>1. SIInv => CleanUnlessCause
  BY DEF SIInv
<1> QED
  BY <1>1, SIInvIsInvariant, PTL

\* A 2xx for an order means that its message went to an open channel, or that
\* the request which created the order was not told of a success, however the
\* loss of the connection, the shutdown, and requests of one key interleave
\* (createOrder, publish).
THEOREM AcceptedOrdersWereHanded == Spec => []AcceptedWasHanded
<1>1. SIInv => AcceptedWasHanded
  BY DEF SIInv
<1> QED
  BY <1>1, SIInvIsInvariant, PTL

-----------------------------------------------------------------------------
(* The payment calls *)


-----------------------------------------------------------------------------
(* The circuit breaker *)

\* What the transitions of a breaker make of its state.  A call that is let
\* through takes the permission with it; a failure in half-open opens the
\* breaker and a success closes it.
LEMMA BreakerFacts ==
  ASSUME NEW b \in Breakers
  PROVE  /\ Fired(b) \in Breakers /\ Fired(b).state = b.state
         /\ Succeeded(b) \in Breakers /\ Succeeded(b).state # "halfOpen"
         /\ Failed(b) \in Breakers /\ Failed(b).state # "halfOpen"
<1>1. Fired(b) \in Breakers /\ Fired(b).state = b.state
  <2>1. b.fires + 1 \in Nat
    BY DEF Breakers
  <2> QED
    BY <2>1 DEF Breakers, Fired
<1>2. Succeeded(b) \in Breakers /\ Succeeded(b).state # "halfOpen"
  BY DEF Breakers, Succeeded
<1>3. Failed(b) \in Breakers /\ Failed(b).state # "halfOpen"
  <2> DEFINE n == [b EXCEPT !.failures = @ + 1]
  <2>1. n \in Breakers /\ n.state = b.state
    BY DEF Breakers
  <2>2. CASE Tripped(n)
    BY <2>1, <2>2 DEF Failed, Breakers
  <2>3. CASE ~Tripped(n)
    BY <2>1, <2>3 DEF Failed, Tripped
  <2> QED
    BY <2>2, <2>3
<1> QED
  BY <1>1, <1>2, <1>3

\* Two states with the same calls in flight: only the breaker of one method
\* changed, to a state in which no trial is awaited.
LEMMA RejectKeepsPIInv ==
  ASSUME PIInv, NEW c \in Calls, InFlight(c), Reject(c)
  PROVE  PIInv'
<1> USE DEF PIInv
<1>1. M(c) \in Methods
  BY DEF PTypeOK, M, Bodies, Methods
<1>2. Failed(breaker[M(c)]) \in Breakers /\ Failed(breaker[M(c)]).state # "halfOpen"
  BY <1>1, BreakerFacts DEF PTypeOK
<1>3. PTypeOK'
  BY <1>1, <1>2 DEF PTypeOK, Reject, clientVars, serviceVars
<1>4. OneRowPerOrder' /\ AnswersNameRows' /\ OneOpenClient'
  BY DEF PTypeOK, Reject, clientVars, serviceVars, OneRowPerOrder, AnswersNameRows, PaidBy,
         OneOpenClient
<1>5. TrialUnderWay'
  <2> SUFFICES ASSUME NEW m \in Methods, breaker'[m].state = "halfOpen",
                      ~breaker'[m].pendingClose
               PROVE  \E d \in Calls : InFlight(d)' /\ M(d)' = m
    BY DEF TrialUnderWay
  <2>1. m # M(c) /\ breaker'[m] = breaker[m]
    BY <1>1, <1>2 DEF PTypeOK, Reject
  <2>2. PICK d \in Calls : InFlight(d) /\ M(d) = m
    BY <2>1 DEF TrialUnderWay
  <2> QED
    BY <2>1, <2>2 DEF PTypeOK, Reject, InFlight, M
<1> QED
  BY <1>3, <1>4, <1>5

-----------------------------------------------------------------------------
(* The steps of a call *)

LEMMA FireKeepsPIInv ==
  ASSUME PIInv, NEW c \in Calls, Fire(c)
  PROVE  PIInv'
<1> USE DEF PIInv
<1>1. M(c) \in Methods
  BY DEF PTypeOK, M, Bodies, Methods
<1>2. /\ Fired(breaker[M(c)]) \in Breakers
      /\ Fired(breaker[M(c)]).state = breaker[M(c)].state
  BY <1>1, BreakerFacts DEF PTypeOK
<1>3. PTypeOK'
  <2>1. breaker' \in [Methods -> Breakers]
    BY <1>1, <1>2 DEF PTypeOK, Fire, Breakers
  <2> QED
    BY <2>1 DEF PTypeOK, Fire, clientVars, serviceVars
<1>4. OneRowPerOrder' /\ AnswersNameRows' /\ OneOpenClient'
  BY DEF PTypeOK, Fire, clientVars, serviceVars, OneRowPerOrder, AnswersNameRows, PaidBy,
         OneOpenClient
<1>5. TrialUnderWay'
  <2> SUFFICES ASSUME NEW m \in Methods, breaker'[m].state = "halfOpen",
                      ~breaker'[m].pendingClose
               PROVE  \E d \in Calls : InFlight(d)' /\ M(d)' = m
    BY DEF TrialUnderWay
  <2>1. CASE m = M(c) /\ Lets(breaker[m])
    BY <2>1 DEF PTypeOK, Fire, InFlight, M
  <2>2. CASE ~(m = M(c) /\ Lets(breaker[m]))
    <3>1. breaker[m].state = "halfOpen" /\ ~breaker[m].pendingClose
      BY <1>1, <2>2 DEF PTypeOK, Fire, Breakers
    <3>2. PICK d \in Calls : InFlight(d) /\ M(d) = m
      BY <3>1 DEF TrialUnderWay
    <3> QED
      BY <3>2 DEF PTypeOK, Fire, InFlight, M
  <2> QED
    BY <2>1, <2>2
<1> QED
  BY <1>3, <1>4, <1>5

LEMMA GetClientKeepsPIInv ==
  ASSUME PIInv, NEW c \in Calls, NEW url, GetClient(c, url)
  PROVE  PIInv'
<1> USE DEF PIInv
<1>1. url \in Endpoints \cup {Fallback, None}
  BY DEF PTypeOK, GetClient, Urls
<1>2. AfterClose = 0
  BY DEF OneOpenClient, AfterClose, PTypeOK
<1>3. PTypeOK' /\ OneOpenClient'
  <2>1. CASE client # NoClient /\ client.url = url
    BY <2>1 DEF PTypeOK, GetClient, bvars, serviceVars, OneOpenClient
  <2>2. CASE ~(client # NoClient /\ client.url = url)
    <3>1. client' = [url |-> url, open |-> TRUE] /\ clients' = 1 /\ using' = {c}
      BY <1>2, <2>2 DEF GetClient
    <3>2. client'.open /\ client' \in [url : Endpoints \cup {Fallback, None}, open : BOOLEAN]
      BY <1>1, <3>1
    <3> QED
      BY <3>1, <3>2 DEF PTypeOK, GetClient, bvars, serviceVars, OneOpenClient
  <2> QED
    BY <2>1, <2>2
<1>4. OneRowPerOrder' /\ AnswersNameRows'
  BY DEF PTypeOK, GetClient, bvars, serviceVars, OneRowPerOrder, AnswersNameRows, PaidBy
<1>5. TrialUnderWay'
  BY DEF PTypeOK, GetClient, bvars, TrialUnderWay, InFlight, M
<1> QED
  BY <1>3, <1>4, <1>5

LEMMA SendKeepsPIInv ==
  ASSUME PIInv, NEW c \in Calls, Send(c)
  PROVE  PIInv'
<1>1. CASE c \in using /\ client.open
  <2> USE DEF PIInv
  <2>1. PTypeOK' /\ OneOpenClient'
    BY <1>1 DEF PTypeOK, Send, bvars, clientVars, OneOpenClient
  <2>2. OneRowPerOrder' /\ AnswersNameRows'
    BY <1>1 DEF PTypeOK, Send, bvars, clientVars, OneRowPerOrder, AnswersNameRows, PaidBy
  <2>3. TrialUnderWay'
    BY <1>1 DEF PTypeOK, Send, bvars, TrialUnderWay, InFlight, M
  <2> QED
    BY <2>1, <2>2, <2>3
<1>2. CASE ~(c \in using /\ client.open)
  BY <1>2, RejectKeepsPIInv DEF Send, InFlight
<1> QED
  BY <1>1, <1>2

LEMMA ReceiveKeepsPIInv ==
  ASSUME PIInv, NEW c \in Calls, Receive(c)
  PROVE  PIInv'
<1>1. CASE service[c] = "ok"
  <2> USE DEF PIInv
  <2>1. M(c) \in Methods
    BY DEF PTypeOK, M, Bodies, Methods
  <2>2. Succeeded(breaker[M(c)]) \in Breakers /\ Succeeded(breaker[M(c)]).state # "halfOpen"
    BY <2>1, BreakerFacts DEF PTypeOK
  <2>3. /\ pc' = [pc EXCEPT ![c] = "answered"]
        /\ answer' = [answer EXCEPT ![c] = reply[c]]
        /\ breaker' = [breaker EXCEPT ![M(c)] = Succeeded(@)]
        /\ UNCHANGED <<clientVars, serviceVars, req, using>>
    BY <1>1 DEF Receive
  <2>4. PTypeOK' /\ OneOpenClient'
    BY <2>1, <2>2, <2>3 DEF PTypeOK, clientVars, serviceVars, OneOpenClient
  <2>5. OneRowPerOrder' /\ AnswersNameRows'
    BY <1>1, <2>3 DEF PTypeOK, serviceVars, OneRowPerOrder, AnswersNameRows, PaidBy
  <2>6. TrialUnderWay'
    <3> SUFFICES ASSUME NEW m \in Methods, breaker'[m].state = "halfOpen",
                        ~breaker'[m].pendingClose
                 PROVE  \E d \in Calls : InFlight(d)' /\ M(d)' = m
      BY DEF TrialUnderWay
    <3>1. m # M(c) /\ breaker'[m] = breaker[m]
      BY <2>1, <2>2, <2>3 DEF PTypeOK
    <3>2. PICK d \in Calls : InFlight(d) /\ M(d) = m
      BY <3>1 DEF TrialUnderWay
    <3> QED
      BY <2>3, <3>1, <3>2 DEF PTypeOK, InFlight, M
  <2> QED
    BY <2>4, <2>5, <2>6
<1>2. CASE service[c] # "ok"
  BY <1>2, RejectKeepsPIInv DEF Receive, InFlight
<1> QED
  BY <1>1, <1>2

-----------------------------------------------------------------------------
(* The payments service *)

LEMMA LookupKeepsPIInv ==
  ASSUME PIInv, NEW c \in Calls, Lookup(c)
  PROVE  PIInv'
<1> USE DEF PIInv
<1>1. /\ service' \in [Calls -> {"idle", "received", "insert", "ok", "error"}]
      /\ reply' \in [Calls -> Calls \cup {None}]
      /\ \A d \in Calls : d # c => service'[d] = service[d] /\ reply'[d] = reply[d]
      /\ service'[c] = "ok" => PaidBy(c, reply'[c])
  BY DEF PTypeOK, Lookup, Answers, RowsOf, PaidBy
<1>2. PTypeOK' /\ OneOpenClient' /\ OneRowPerOrder'
  BY <1>1 DEF PTypeOK, Lookup, bvars, clientVars, OneOpenClient, OneRowPerOrder
<1>3. AnswersNameRows'
  BY <1>1 DEF Lookup, AnswersNameRows, PaidBy
<1>4. TrialUnderWay'
  BY DEF Lookup, bvars, TrialUnderWay, InFlight, M
<1> QED
  BY <1>2, <1>3, <1>4

LEMMA InsertKeepsPIInv ==
  ASSUME PIInv, NEW c \in Calls, Insert(c)
  PROVE  PIInv'
<1> USE DEF PIInv
<1> DEFINE p == [paymentId |-> c, order |-> req[c].order]
<1>1. p \in [paymentId : Calls, order : Orders]
  BY DEF PTypeOK, Bodies
<1>2. TrialUnderWay' /\ OneOpenClient'
  BY DEF Insert, bvars, clientVars, TrialUnderWay, InFlight, M, OneOpenClient
<1>3. CASE OrderPaid(req[c].order)
  BY <1>2, <1>3 DEF Insert, PTypeOK, bvars, clientVars, OneRowPerOrder, AnswersNameRows, PaidBy
<1>4. CASE ~OrderPaid(req[c].order)
  <2>1. /\ payments' = payments \cup {p}
        /\ service' = [service EXCEPT ![c] = "ok"]
        /\ reply' = [reply EXCEPT ![c] = c]
        /\ UNCHANGED <<bvars, clientVars, pc, req, using, answer>>
    BY <1>4 DEF Insert, Answers
  <2>2. PTypeOK'
    BY <1>1, <2>1 DEF PTypeOK, bvars, clientVars
  <2>3. OneRowPerOrder'
    BY <1>4, <2>1 DEF OneRowPerOrder, OrderPaid, RowsOf
  <2>4. AnswersNameRows'
    <3>1. \A d \in Calls : \A id : PaidBy(d, id) => PaidBy(d, id)'
      BY <2>1 DEF PaidBy
    <3>2. PaidBy(c, c)'
      <4>1. p \in payments' /\ p.order = req'[c].order /\ p.paymentId = c
        BY <2>1
      <4> QED
        BY <4>1 DEF PaidBy
    <3> QED
      BY <2>1, <3>1, <3>2 DEF AnswersNameRows, PTypeOK
  <2> QED
    BY <1>2, <2>2, <2>3, <2>4
<1> QED
  BY <1>3, <1>4

-----------------------------------------------------------------------------
(* Timers, the registration and the shutdown *)

LEMMA SurroundingsKeepPIInv ==
  ASSUME PIInv,
         \/ \E m \in Methods : ResetTimeout(m) \/ WindowEnds(m)
         \/ Reregister
         \/ OnModuleDestroy
  PROVE  PIInv'
<1> USE DEF PIInv
<1>1. OneRowPerOrder' /\ AnswersNameRows'
  <2>1. UNCHANGED <<pc, req, service, reply, payments, answer>>
    BY DEF ResetTimeout, WindowEnds, Reregister, OnModuleDestroy, serviceVars
  <2>2. \A c \in Calls : \A id : PaidBy(c, id)' <=> PaidBy(c, id)
    BY <2>1 DEF PaidBy
  <2> QED
    BY <2>1, <2>2 DEF OneRowPerOrder, AnswersNameRows
<1>2. ASSUME NEW m \in Methods, ResetTimeout(m) \/ WindowEnds(m)
      PROVE  PTypeOK' /\ OneOpenClient' /\ TrialUnderWay'
  <2>1. PTypeOK' /\ OneOpenClient'
    <3>1. breaker' \in [Methods -> Breakers]
      BY <1>2 DEF ResetTimeout, WindowEnds, PTypeOK, Breakers
    <3>2. changes' \in Nat /\ UNCHANGED <<srv, client, clients, destroyed>>
      BY <1>2 DEF ResetTimeout, WindowEnds, clientVars, PTypeOK
    <3>3. UNCHANGED <<service, reply, payments, pc, req, using, answer>>
      BY <1>2 DEF ResetTimeout, WindowEnds, serviceVars
    <3> QED
      BY <3>1, <3>2, <3>3 DEF PTypeOK, OneOpenClient
  <2>2. \A k \in Methods : breaker'[k].state = "halfOpen" /\ ~breaker'[k].pendingClose
                         => breaker[k].state = "halfOpen" /\ ~breaker[k].pendingClose
    <3>1. CASE ResetTimeout(m)
      <4>1. breaker'[m].pendingClose /\ \A k \in Methods : k # m => breaker'[k] = breaker[k]
        BY <3>1 DEF ResetTimeout, PTypeOK, Breakers
      <4> QED
        BY <4>1
    <3>2. CASE WindowEnds(m)
      BY <3>2 DEF WindowEnds, PTypeOK, Breakers
    <3> QED
      BY <1>2, <3>1, <3>2
  <2>3. TrialUnderWay'
    BY <1>2, <2>2 DEF ResetTimeout, WindowEnds, TrialUnderWay, InFlight, M
  <2> QED
    BY <2>1, <2>3
<1>3. CASE Reregister \/ OnModuleDestroy
  <2>1. TrialUnderWay'
    BY <1>3 DEF Reregister, OnModuleDestroy, bvars, TrialUnderWay, InFlight, M
  <2>2. CASE Reregister
    <3>1. srv' \in SUBSET Endpoints /\ changes' \in Nat
      BY <2>2 DEF Reregister, PTypeOK
    <3>2. UNCHANGED <<breaker, client, clients, destroyed, service, reply, payments,
                      pc, req, using, answer>>
      BY <2>2 DEF Reregister, bvars, serviceVars
    <3>3. PTypeOK'
      BY <3>1, <3>2 DEF PTypeOK
    <3>4. OneOpenClient'
      BY <3>2 DEF OneOpenClient
    <3> QED
      BY <1>1, <2>1, <3>3, <3>4
  <2>3. CASE OnModuleDestroy
    <3>1. /\ clients' = 0 /\ ~client'.open /\ destroyed' = TRUE
          /\ client' \in [url : Endpoints \cup {Fallback, None}, open : BOOLEAN]
      <4>1. client' = [client EXCEPT !.open = FALSE] /\ clients' = AfterClose
        BY <2>3 DEF OnModuleDestroy
      <4>2. AfterClose = 0
        BY DEF OneOpenClient, AfterClose, PTypeOK
      <4>3. client' = [url |-> client.url, open |-> FALSE]
        BY <4>1 DEF PTypeOK
      <4> QED
        BY <2>3, <4>1, <4>2, <4>3 DEF OnModuleDestroy, PTypeOK
    <3> QED
      <4>1. UNCHANGED <<breaker, srv, changes, service, reply, payments, pc, req, using, answer>>
        BY <2>3 DEF OnModuleDestroy, bvars, serviceVars
      <4>2. PTypeOK'
        BY <3>1, <4>1 DEF PTypeOK
      <4>3. OneOpenClient'
        BY <3>1 DEF OneOpenClient
      <4> QED
        BY <1>1, <2>1, <4>2, <4>3
  <2> QED
    BY <1>3, <2>2, <2>3
<1> QED
  BY <1>1, <1>2, <1>3

-----------------------------------------------------------------------------
(* Theorems *)

LEMMA InitPIInv == PInit => PIInv
<1> SUFFICES ASSUME PInit PROVE PIInv
  OBVIOUS
<1> USE DEF PInit
<1>1. PTypeOK
  BY DEF PTypeOK, NoClient, Breakers
<1>2. OneRowPerOrder /\ AnswersNameRows /\ OneOpenClient
  BY DEF OneRowPerOrder, AnswersNameRows, OneOpenClient, NoClient
<1>3. TrialUnderWay
  BY DEF TrialUnderWay
<1> QED
  BY <1>1, <1>2, <1>3 DEF PIInv

LEMMA NextPIInv == PIInv /\ [Next]_pvars => PIInv'
<1> SUFFICES ASSUME PIInv, [Next]_pvars PROVE PIInv'
  OBVIOUS
<1>1. ASSUME NEW c \in Calls, TimesOut(c)
      PROVE  PIInv'
  BY <1>1, RejectKeepsPIInv DEF TimesOut, MayTimeOut
<1>2. CASE UNCHANGED pvars
  BY <1>2 DEF pvars, bvars, clientVars, serviceVars, PIInv, PTypeOK, OneRowPerOrder,
       AnswersNameRows, PaidBy, OneOpenClient, TrialUnderWay, InFlight, M
<1> QED
  BY <1>1, <1>2, FireKeepsPIInv, GetClientKeepsPIInv, SendKeepsPIInv, ReceiveKeepsPIInv,
     LookupKeepsPIInv, InsertKeepsPIInv, SurroundingsKeepPIInv DEF Next, CallStep

\* The inductive invariant of the payment calls.
THEOREM PIInvIsInvariant == PSpec => []PIInv
<1> QED
  BY InitPIInv, NextPIInv, PTL DEF PSpec

\* Two calls for an order never leave two payments or two answers: authorize
\* looks up and inserts in two statements, and the unique index on order_id
\* makes the loser of a race fail instead of paying twice.
THEOREM PaymentPerOrderUnique == PSpec => []OnePaymentPerOrder
<1>1. PIInv => OnePaymentPerOrder
  BY DEF PIInv, OneRowPerOrder, AnswersNameRows, PaidBy, OnePaymentPerOrder
<1> QED
  BY <1>1, PIInvIsInvariant, PTL

\* The rotation of the cached client in getClient and its end in
\* onModuleDestroy leave no other client open.
THEOREM NoClientLeaks == PSpec => []OneOpenClient
<1>1. PIInv => OneOpenClient
  BY DEF PIInv
<1> QED
  BY <1>1, PIInvIsInvariant, PTL

\* The safety half of TrialResolves: a half-open breaker that refuses calls
\* always has the trial in flight that will take it out of half-open.
THEOREM TrialNeverLost == PSpec => []TrialUnderWay
<1>1. PIInv => TrialUnderWay
  BY DEF PIInv
<1> QED
  BY <1>1, PIInvIsInvariant, PTL
=============================================================================
