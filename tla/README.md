# rd_shop backend: TLA+ models, checks and proofs

The repository is a NestJS shop (`src/apps/shop`) with a small payments service
(`src/apps/payments`) behind gRPC, and the Pulumi program, host scripts and workflows
that run them on AWS (`src/infra`, `src/.github`). PostgreSQL holds all state, RabbitMQ
carries one kind of message: "process this order". This project models what can lose
stock, money, messages, accounts, uploads, carts or deployments when requests,
processes, hosts and workflow runs interleave and fail.

## 1. The system

| Part | State | Operations | Hard behaviour | Module |
|---|---|---|---|---|
| Order commands (`orders/services/orders-command`, `order-stock`, `pg-error-mapper`) | `orders`, `order_items`, `products.stock` | `createOrder`, `cancelOrder` | concurrent transactions, row locks, idempotency key races, lock timeouts, work after the commit | `OrderCommands` |
| Publishing (`order-publisher`, `rabbitmq.service`) | the broker's queue | `publishOrderProcessing` | channel without confirms: lost or throwing publish | `OrderCommands`, `OrderSystem`, `ShopProcess` |
| Worker (`orders-worker.service`) | `orders.process`, `orders.dlq`, one handler per delivered message | `handleMessage`, `retryMessage`, `publishToDlq` | at-least-once delivery, closed channels, crash between commit and ack | `OrderWorker` |
| Processing and payment (`order-processing.service`) | `processed_messages`, `orders.status`, `orders.payment_id` | `processOrderMessage`, `authorizePayment` | duplicate messages, stale entity saves, payment call between two writes | `OrderWorker` |
| Payments client and service (`payments-grpc*`, `apps/payments`) | breaker state, cached gRPC client, `payments` | `authorize`, `getPaymentStatus`, `getClient`, `onModuleDestroy` | timeout while the call still runs, find/save race, client closed under a call, a trial call that gets no answer | `PaymentCalls` |
| Cart (`cart.service`) | `carts`, `cart_items` | get, add, update, remove, clear, `checkout` | read-then-upsert, deleted rows saved again, clear after order creation | `Cart` |
| Authentication (`auth.service`, `token.service`, `users.service`) | users, refresh, reset and verification tokens | sign-in, refresh, logout, reset, change, verify | token rotation races, revoke-then-create, two writes without a transaction, stale profile saves | `AuthTokens` |
| Products, images, reviews, files, profiles | `products`, `file_records`, `product_reviews`, `users` | admin edits, image association, upload completion, avatar, reviews | entity saved from a stale read, two rows written one after the other | `Catalogue` |
| Listings and GraphQL loaders | cursors held by clients | cursor pagination of orders, products, users, reviews | cursor precision against sort precision, rows that move between pages or between the two statements of one | `Queries` |
| Process (`main.ts`, `safeClose`, health, exception filter) | HTTP server, pool, channel, requests under way | bootstrap, signals, close, probes | second signal, hook that throws, lost connection, a commit whose publish fails and its retry by key | `ShopProcess` |
| Database and broker hosts (`infra/src/data`) | volume, filesystem, fstab, container | user data, bootstrap script, docker restart, replacement | crash between any two commands, mount that nothing waits for | `DataHosts` |
| Stack, ECS services, deploy workflows (`infra/index.ts`, `infra/src/compute`, `.github/workflows`) | resources, desired counts, tasks (pending, running, being stopped), one-off tasks, schema | quiesce, `pulumi up`, migrate, seed, restore, smoke test | failing step after services were stopped, update order, a refresh nobody waits for | `Release` |

Interactions. `CartService.checkout` and the controllers call `createOrder`; it
commits and then publishes; a worker handler consumes the message, commits the
order as PROCESSED together with the message id, calls the payments service and
writes PAID. Cancellation writes the same order row and the same product rows.
Administrators and users save whole entities over rows that orders, uploads and other
requests change. `UsersService` calls `TokenService` to revoke the sessions of a user
whose password changed or who was removed; no statement of either shares a transaction
with another. Inside the application the only synchronisation is what the database
gives: row locks on products and unique indexes (`orders.idempotency_key`,
`processed_messages.message_id`, `payments.order_id`, `carts.user_id`, cart and product,
user and product of a review). Outside it, the workflow stops both services before it
migrates, and the platform replaces a process whose probes fail.

What makes it correct: stock equals initial stock less what was sold plus what
was given back and is never negative; a key stands for one order; a published
message is not lost; an order is charged at most once; a PAID order has a
payment; the status follows PENDING, PROCESSED, PAID with CANCELLED as the end; a token
takes effect once; a session has one live refresh token; changing a password ends the
sessions there were; only a mailed token verifies an address; a cart counts nothing
twice and loses nothing but by a removal; what a product or a profile shows was
uploaded; a save overwrites only what it names unless it raced; a walk through a listing
misses no row that stood still; a process closes what it opened and does not linger
without a broker; a host never formats or abandons acknowledged data; a deploy retires older tasks
before it migrates and leaves the services running.
PROJECT.json lists the hazards against these at their source lines.

## 2. Modules

| Module | Models |
|---|---|
| `ShopDb` | The shared tables and row locks of orders. Variables hold committed rows. |
| `OrderLifecycle` | Abstract specification: what may happen to the status of an order. |
| `OrderCommands` | `createOrder` and `cancelOrder` as concurrent requests. |
| `OrderWorker` | Queue, consumers, `processOrderMessage`, `authorizePayment`, the payments service as the worker meets it. |
| `OrderSystem` | Both over one database: published orders enter the queue, cancellations run against the worker. |
| `PaymentCalls` | One shop process calling payments: breakers, service discovery, cached client, timeout, the service's two statements, shutdown. |
| `Cart` | Every cart request statement by statement, and checkout. |
| `Catalogue` | Products, file records, profiles and reviews: load, compare, write. |
| `Queries` | One client paging through a listing while rows change, by REST or GraphQL. |
| `AuthTokens` | Accounts, refresh tokens, reset and verification tokens; the handlers of `AuthService` and the ones of `UsersService` that touch credentials, verification or deletion. |
| `ShopProcess` | One shop process from bootstrap to exit, its requests and its probes. |
| `DataHosts` | The EC2 host of the stage database or of the broker. |
| `Release` | Runs of the deploy workflow of a stack, with Pulumi's update and the ECS scheduler. |
| `SetSums` | Lemmas on sums over finite sets, and the least number of a set. |
| `OrderSystemProofs` | Theorems and proofs about `OrderCommands` and `OrderSystem`. |
| `ShopProcessProofs` | Theorems and proofs about `ShopProcess` and `PaymentCalls`. |
| `CatalogueProofs` | Theorems and proofs about `Catalogue` and `Queries`. |
| `InfraProofs` | Theorems and proofs about `Release` and `DataHosts`. |
| `OrderWorkerProofs`, `CartProofs`, `AuthTokensProofs` | Theorems and proofs about the module of that name. |
| `MC...` | One instance for TLC per specification; `MCCatalogue` has one of `Catalogue` and one of `Queries`, which share no state. |

`OrderSystem` composes `OrderCommands` and `OrderWorker`. The other modules meet them
at an interface of one step each: `Cart` calls `createOrder` (a commit of order and
stock or nothing, as `OrderCommands` shows), `OrderWorker` sees the outcomes of
`PaymentCalls`, `ShopProcess` abstracts a request to its commit, its publish and its answer,
`Release` abstracts a host to "ready" and a task to its version and whether it is pending,
running or being stopped.

### Granularity

A request is a sequence of awaited statements. Every statement whose result
another transaction can influence is a step; statements on rows the transaction
has already locked are merged. Uncommitted stock lives in `writes` and is copied
to `stock` at the commit (READ COMMITTED); a rollback forgets it.

* `LockProduct` takes one row at a time, in any order: the query has no ORDER BY.
* `InsertOrder` waits while another transaction has inserted the same key and has
  not ended (`KeyBusy`), as a unique index does, and then either succeeds or takes
  the 23505 path (`HandleConflict`).
* `SaveDiff` and `CommitCancel`, and in the worker `SaveRead` and
  `CommitProcessed`, are TypeORM's `save`: it reads the row again and updates the
  columns in which the loaded entity differs from it.
* `Publish`, `PublishLost` and `PublishThrows` are the three outcomes of
  `sendToQueue` on a plain channel.
* A worker is one running `handleMessage`. When its channel closes, the broker
  takes an unacknowledged message back while the handler runs on; its later
  publish or ack throws. `Crash` stops a handler anywhere.
* `AuthorizeTimesOut` leaves the call in `late`; `LateAuthorize` may still create
  the payment.
* `RecordPayment` writes PAID and then reads `user.email` of the order it loaded
  before: when the user is soft-deleted that throws, and the message is retried or
  dead-lettered although the order is PAID.

In `AuthTokens` every statement commits by itself, so every statement is a step. The
first step of a request takes its input and makes its first read.

* `Present` is the three `validate...` functions; `Consume` and `ConsumeMisses` are
  the conditional update that follows, with rows affected or without.
* `Pair` is the `Promise.all` of a write to the user and `revokeAllUserTokens`: the
  two run in either order, and when one fails (`HalfFails`) the other still runs
  although the request has failed.
* `SaveRead` and `SaveWrite` are TypeORM's `save` of a profile that was read
  earlier. It compares all selected columns, so it can write an old
  `is_email_verified` or `deleted_at` back; `password` is `select: false` and never
  written.
* A refresh whose user is soft-deleted consumes the old token and inserts a new one,
  and then fails because there is no user to sign an access token for.
* `Stop` ends a request at any statement without undoing anything; `Expire` lets
  the time of a token run out.

In `Cart`, `Catalogue` and `PaymentCalls` statements commit by themselves as well.

* `Cart`: `SaveDiff`, `UpdateRow` and `InsertRow` are `save` of an item that may have
  been deleted meanwhile; `Upsert` is the insert with ON CONFLICT. `EndsEarly` is a
  failing statement or a dying process. `ProductChanges` is what other customers and
  administrators do to a product.
* `Cart`: `revived` is a history variable, the items an update inserted again after a
  clearing had deleted them.
* `Catalogue`: an operation with one statement is an action (`Statement`); the others
  load (`FindProduct`, `FileFor...`, `FindUser`), compare (`Diff`, `DiffFile`) and write the
  columns that differ (`Write`, `WriteFile`). `stale` is a history variable: the columns
  of its rows that somebody else changed since a request began. `LinkGiven` is who gets a
  presigned link to a file: anybody, when a live product or profile shows it and its record is
  READY, and its owner by `getFileById`, whatever its status.
* `PaymentCalls`: `GetClient` is everything from the answer of the lookup on, because
  that is synchronous; `Send` is the continuation after it. The breaker is opossum's state
  machine, taken from the options the code gives it.
* `Queries`: the cursor is resolved in one statement and the page read in another. A page
  of reviews, which joins the author and takes a limit, is read in two: `SelectIds` chooses
  the ids, `ReadRows` reads the rows that are left. A review that an update racing its
  deletion inserts again counts as removed here. `Times` are microseconds, `Micros` of which make a millisecond of a cursor.
* `ShopProcess`: each awaited part of `app.close()` is a step, in the order Nest runs the
  hooks. A signal without registered handlers ends the process. A request for an order
  commits it (`CommitOrder`) and publishes in a later step, or finds the order of its key,
  by the lookup or by 23505, and answers with it without a publish (`AnswerExisting`).
* `DataHosts`: each command of the bootstrap script that changes something is a step, and
  so is each failure of one (under `set -e` the script exits and the unit starts it
  again). A store is a directory on the volume or, when the container started before the
  mount, on the root disk. PostgreSQL's first start is two phases, initdb and the init
  scripts: a directory initdb has not finished makes every later container exit.
* `Release`: each step of the workflow is a step, and each group of resources that is
  updated together a step of `pulumi up`, in any order that `Deps` allows. Waits may end
  at any time, because every one of them has a timeout. A task is pending, running or
  stopping, and holds its host port until it is gone; `Stable` compares what
  `services-stable` compares, the running tasks with the desired count, so a pending task
  of the last deployment and any stopping one go unseen. The second quiesce saves
  the configured counts only after its own checks (`CheckCounts`).

### Data abstraction

An order's id is the request that creates it; its message id is the order (an
order is published once). A basket gives each product the quantity of a line and
of a second line with the same product, since the code treats lines one by one.
Prices, addresses, mails, metrics, logs and audit rows are left out, except the
`ORDER_PAYMENT_FAILED` row, which a finding needs. `correlationId` is the
idempotency key; it is unique per order already, so the second unique index of
`processed_messages` never fires and is not modelled. Controllers reject an empty
list and zero quantities before the handler runs; `ValidItems` covers both.

A token's id is the request that creates it (each creates at most one). `spent`
stands for `revoked_at` or `used_at`; a raw token can be presented once it was
answered or mailed (`delivered`), and its HMAC is its identity. A password stands for
its hash. An account is its e-mail address; `email` is never updated. `session`,
`before` and `uses` are history variables the properties read. Access tokens carry no
state; forms whose two passwords differ are refused before any statement.

A cart item is its id and quantity; prices are computed on reading and stored nowhere.
A product row keeps the columns that requests race for (stock, active, main image,
deletion), a user row name, role, avatar and deletion, a file its owner, status and
entity. In `Queries` ids are numbers, prices and titles are `Keys`, and filters and
full-text search only decide whether a row matches. In `Release` a fleet has as many
hosts as its minimum and its maximum: managed scaling is left out. A version is the
number of the build.

External behaviour, taken from how the code uses it: PostgreSQL's row locks,
unique indexes and rollback of dead sessions, RabbitMQ's redelivery, the payments
database as the worker sees it, opossum, docker, systemd and the images' entrypoints,
Pulumi's dependency order, the ECS scheduler and the workflow runner.

## 3. Runs

| Run | Result | Shows |
|---|---|---|
| `commands_flow` | pass | two creations, a cancellation, two products, one key, an unregistered user and a basket above the maximum; all failures, crashes and soft deletes: `TypeOK`, `StockNeverNegative`, `LedgerBalanced`, `SameKeySameOrder`, `FollowsLifecycle`, `EveryRequestEnds` |
| `worker_flow` | pass | two handlers, an order, an invalid and an orphan message, two attempts, one fault: `MessageNotLost`, `AuthorizedOnce`, `FollowsLifecycle`, `QueueDrains` |
| `worker_retry` | violation | the comments and the architecture document say that a failed payment is retried; the retried copy finds its message id processed, and `FailedPaymentSettles` fails: the order stays PROCESSED and no dead letter is written |
| `system_flow` | pass | creation, cancellation and two handlers: `ChargedOncePublished`, `PaidRowHasPayment`, `PublishedSettles` |
| `auth_flow` | pass | any three requests of an account: `ConsumedOnce`, `OneTokenPerSession`, `RevokedOnSuccess`, `VerifiedByToken` |
| `cart_flow` | pass | three requests of two users and a product change: `OrderedItemsLeave`, `NeverOvercounts`, `ItemsLeaveOnlyOnPurpose` |
| `catalogue_flow` | pass | requests on products, images, uploads, profiles and reviews over shared rows: `ShownImagesExist`, `DanglingMainNeedsRace`, `OneReviewPerUser`, `OnlyRacesOverwrite`; and, over three rows and two changes, every listing, order and page size: `SeenInOrder`, `NothingMissed` |
| `payments_flow` | pass | three calls for an order, two breakers, re-registration, shutdown: `OnePaymentPerOrder`, `OneOpenClient`, `TrialResolves` |
| `process_flow` | pass | two requests, two signals, an uncaught error, a lost connection, an outage: `CleanUnlessCause`, `AcceptedWasHanded`, `LostConnectionEnds` |
| `hosts_flow` | pass | four crashes, replacements or failing commands and two writes: `VolumeKeepsWrites`, `ReadyMeansInitialised`, `EnabledHostServes` |
| `hosts_login` | violation | the init SQL of the database host is written by a quoted here-document, so the roles it creates have the names of shell variables and `AccessSecretsWork` fails |
| `release_flow` | pass | two workflow runs on stage and production fleets and one fault: `OldTasksRetired`, `SuccessMeansDeployed`, `LateFailureRestores`, `RolloutCompletes` |

Several properties name the causes of something bad instead of denying it:
`DanglingMainNeedsRace`, `OnlyRacesOverwrite`, `CleanUnlessCause`, `AcceptedWasHanded`,
`OrderedItemsLeave`, `NothingMissed`, `ReadyMeansInitialised`, `EnabledHostServes`,
`RolloutCompletes` and the second half of `VolumeKeepsWrites`. The bad states
are reachable in the code and in the model; the property says that nothing but the
named race or failure leads to them.

What is proved for every instance is not repeated in the runs unless it is what the
run is about: the types of all modules but `OrderCommands`, the inductive invariants,
`StockMovesWithOrders`, `PublishedIsCommitted`, `PaidHasPayment` and `TrialUnderWay` are
theorems only.

### Behaviours a reader should know

The models have these behaviours, because the code has them. They bound what the
properties say.

* A basket with a product on two lines is checked line by line, so it can take the stock
  below zero (`order-stock.service.ts:121`; the comment at 101 says stock is validated).
  `StockNeverNegative` and its theorem are about baskets without repeated products, as
  every cart is.
* A publish that throws after the commit answers with an error for an order that exists
  (`orders-command.service.ts:120`). The client's retry with the same key is answered with
  that order and publishes nothing (`:103`, `:139`): the order stays PENDING although the
  client was told it was accepted. `AcceptedWasHanded` names this case.
* The early idempotency lookup does not ask for the user: it answers with another user's
  order (`orders-command.service.ts:156`), which the conflict path refuses
  (`pg-error-mapper.service.ts:47`).
* Two concurrent cancellations both find a cancellable order and both give the stock back
  (`orders-command.service.ts:177`). `LedgerBalanced` counts every answered cancellation:
  the books agree with what the code did.
* Product rows are locked in the order the query finds them (`product.repository.ts:98`
  has no ORDER BY): two baskets can wait for each other until PostgreSQL ends one.
* A failed payment below the last attempt is retried as a message that is already
  processed: the retry does nothing, and neither a payment nor a dead letter follows
  (`order-processing.service.ts:135`). The comments at `:34`, `:58` and `:118` and
  `feature-order-creation-flow.md:201`, `:221` say otherwise; the run `worker_retry` shows
  it. `AuthorizedOnce` holds of any retry for the same reason.
* A payment recorded for a soft-deleted user ends in an error after the row was written
  (`order-processing.service.ts:95`): a PAID order may get an `ORDER_PAYMENT_FAILED` row and
  its message a dead letter.
* The worker's save overwrites a cancellation that was answered between its read and its
  write (`order-processing.service.ts:80`). The lifecycle holds for commands and worker
  alone, not between them.
* Two concurrent sign-ins leave two active refresh tokens (`token.service.ts:141`);
  `OneTokenPerSession` is about one sign-in. A refresh between its two statements
  inserts its token after a revocation, so that session survives a password change,
  although `feature-users.md:117` and `CHANGELOG.md:244`, `:282` promise a forced re-login.
* A profile or avatar save can take a verification or a removal back
  (`users.service.ts:191`); `VerifiedByToken` is about the other direction only.
* An administrator's update writes every column in which the loaded entity differs: an
  order in between gets its stock back (`products.service.ts:230`), although the body
  names another column. The same save can restore a removed main image or role.
* Adding an item twice at a time counts one of the additions (`cart.service.ts:60`), and
  checkout clears what was added after it read the cart (`cart.service.ts:112`). A checkout
  that fails between order and clearing leaves the ordered items; sent again with its key it
  is answered with the same order and clears them, without a key it orders them again. After
  an answered checkout the same request finds an empty cart and gets a 400.
* `GET /files/:fileId` gives the owner a link to a PENDING file (`files.service.ts:110`),
  whose bytes may not be there; `feature-files-s3.md:101` says such files are not
  surfaced, and `CHANGELOG.md:266` says the same of the links inside other resources.
* A payments client that is created after `onModuleDestroy` becomes the cached one and is
  closed by nobody (`payments-grpc-client.service.ts:100`).
* Cursors have milliseconds, rows microseconds (`orders-query-builder.ts:20`): rows that
  share a millisecond with the last row of a page can be skipped. `NothingMissed`
  excludes exactly these, although `CHANGELOG.md:529` says that the cursors prevent
  "duplicate/missing items when data changes between requests". A review deleted between
  the two statements of a page shortens it, and a page that is not longer than its limit
  has no next cursor: the walk ends early.
* A workflow run whose update fails after the first quiesce cannot restore the
  services: the restore needs outputs the run has not captured. When the second quiesce
  fails before it has saved the configured counts, the restore uses the live counts the
  first one saved, which are zero after an earlier failed run
  (`deploy-production.yml:231`). `LateFailureRestores` begins where the outputs exist and
  states both cases.
* The waits before the migration do not see tasks that are being stopped: old code may
  still run, for up to its stop timeout, next to the new schema, and a payments task that
  still holds its port can keep the one-off task from being placed, which fails the run.
* A single larger host with a rolling minimum of 100 percent passes the validation and
  cannot replace its payments task (`CanRoll`).
* A broker container that is created anew has a new node name and starts with an empty
  directory beside the old one; a database whose initialisation was cut short skips the
  init scripts for good, and one whose initdb was cut short never starts again. After a reboot docker may restart the container before the
  `nofail` mount: it then serves from the root disk until it is started again.
* The stage seed upserts products by title and so resets the stock orders have taken
  (`db/seed/runner.ts:36`).

### Bounds

In `commands_flow` there is one unit of each product and the maximum quantity is 2: an
order empties the stock, the next one fails, an over-limit one is refused. Two
creations are enough for every pairwise race over the two products a deadlock needs;
several cancellations are covered by the theorems, which have no bound. `MaxAttempts`
is 2 in `worker_flow` (3 in the code): one retry and then the dead-letter queue. In
`system_flow` it is 1, since retries are the worker's own affair and what is new there,
the cancellation, meets every first attempt and every redelivery. `MaxFaults` bounds
channel closures and crashes in a behaviour; one is enough for a redelivery during any
step. Three requests and one account are the smallest instance in which two requests race
for a token a third one issued; tokens of different accounts only meet in the `user_id`
conditions. `worker_retry` needs one order, two attempts and no fault.

| Run | Bounds and why they are enough | States, time |
|---|---|---|
| `cart_flow` | one cart starts filled, the other absent; three requests let a checkout, its retry and an addition meet; one product change reaches every check against a stock read earlier | 0.9 million, 30 s |
| `catalogue_flow` | one file and two owners; two multi-statement requests and a third that is there or not; one single statement falls between any two of their steps. The walk: three rows over two milliseconds give a page, its successor and a row that shares a millisecond with either; two changes move a row out and another in | 1.2 million, 80 s |
| `payments_flow` | three calls: two race, the third meets what they left; a threshold of 2 lets the breaker open and try again | 0.7 million, 90 s |
| `process_flow` | two requests of every kind; two signals, since the second exits at once; thresholds of 2 stand for the number of failing probes | 0.45 million, 25 s |
| `hosts_flow` | four faults (`MaxHostFaults`): an initialisation is cut short, in initdb or after it, the host replaced, and both again | 0.63 million, 40 s |
| `release_flow` | two runs, so that a run meets what a failed one left; one fault, because all timeouts are free choices already; seven fleets: one small host with the stop-first defaults with and without a public edge, two hosts with the rolling ones, one larger host with the rolling defaults (which gets stuck), with a minimum of its own, and two the validation refuses, for the number of payments tasks and for a percentage | 0.96 million, 180 s |

Symmetry is used over requests and passwords (`auth_flow`) and over what no definition tells
apart in `cart_flow`; neither run has a liveness property. Deadlock checking is off where
the system may stop: all requests answered and an empty queue, an exited process, a
host whose user data failed, a workflow nobody triggers again.

### Fairness

* Started requests and handlers run on (`WF` of `CreateStep`, `CancelStep`,
  `HandlerStep`): the event loop and the database answer every statement.
* A wait for a row or a key ends with the lock or with an error (`WF` of
  `LockStep \/ WaitAborted`): `applyTransactionTimeouts` sets `lock_timeout`, and
  PostgreSQL detects deadlocks.
* The broker delivers while a consumer is idle.
* An instance with a closed channel is replaced (`WF` of `Replace`): its readiness
  probe calls `checkQueue`, fails, and the target group health-checks `/ready`
  (`src/infra/src/compute/edge-config.ts`). The code itself never reconnects.
  `process_flow` shows this from the other side: with `WF` of the probes, of the stop of
  an unhealthy task and of the kill after it, `LostConnectionEnds` holds.
* `PaymentCalls`: only the caller is fair (`CallStep`, which contains its timer). The
  payments service may never answer, which is the point of `TrialResolves`.
* `DataHosts`: the script, the container, cloud-init, boot, docker and Pulumi's attachment
  make progress. The mount from fstab (`nofail`) is not required to happen.
* `Release`: the runner executes its steps, ECS starts and stops what it may, hosts join
  and are refreshed. Nobody is required to trigger a run.

Failures, timeouts of the payment call and crashes are never required to happen.

## 4. Proofs

All theorems hold for any sets of products, users, keys, requests, orders, workers,
calls, addresses, files, accounts, passwords and fleets, and any stock, attempts, maximum
quantity and bound on faults, changes, signals or runs. The assumptions are the named
ASSUMEs of the modules (constants have their types, the NULL values differ from real
ones, requests are transactions, a set that is summed over or sorted is finite), which TLC
evaluates in the runs. Where an assumption
says more, the paragraph below names it.

Each module has its inductive invariant in its last section. None of the properties is
inductive by itself: what a request holds in memory, or where a handler stands between
two statements, decides what its next statement does, so the invariant has to say it.
TLC checked each inductive invariant on the instance of the module's run before it was
proved; it is not a property of the run, since the theorem says more.

`OrderSystemProofs`, first part: the commands. The inductive invariant is
`InductiveInv = IInv /\ KeysConsistent /\ NeverCreated`.

* `IInv` joins the types with the lock discipline: a product row is locked by one
  transaction (`LocksExclusive`), a request past its guards has an order with the
  items of its entity (`RequestsConsistent`), a creation before its commit has no
  row (`RowOnlyAfterCommit`), and uncommitted stock is computed from the committed
  stock the locks keep in place (`WritesCurrent`). The last one is why stock cannot
  become negative: a commit writes a value that was checked against a row that has
  not changed since.
* `KeysConsistent` says that a key has one order, that an insert that passed the
  index is alone, and that an answer carries the caller's key.
* Theorems: `TypeCorrect`, `NeverOversold` (if no basket repeats a product, as for
  every cart), `StockMoves`, `IdempotentCreation`, `PublishAfterCommit`, and
  `CommandsFollowLifecycle`, the refinement of `OrderLifecycle`.
* `LedgerAlwaysBalanced` is about two sums, over the committed orders and the completed
  cancellations. `LedgerKept` adds what makes them move with the stock: a cancellation
  about to commit has locked every live product of its order. A commit then adds one
  element to one of the sums (`SumAdd`), and every other step leaves both as they are
  (`SumAgrees`). `LedgerBalancedWithWorker` carries the argument over to the system, where
  the worker changes order rows but not their items.

`SetSums`. `SumFunctionOnSet` takes elements out in an order it chooses, by a recursive
function that the provers cannot unfold directly. `SumIsTotal` shows that there is exactly one
function on the subsets of a finite set with the equations of a sum, whatever element is
taken first; the rest (`SumAdd`, `SumRemove`, `SumAgrees`, `SumMonotone`) follows from it.
The inductions are over cardinalities, by the least counterexample (`LeastNumber`): the
library's induction theorems take an operator the provers cannot instantiate, this needs
only a set of numbers.

`OrderWorkerProofs`. The inductive invariant is `WIInv`: a handler inside the
transaction is the only one with its message id and its entity is the PENDING row;
a handler that pays is the only one to do so, its order is PROCESSED and its message
row committed; an order without message row is untouched (`HandlersConsistent`,
`UntouchedBefore`).

* Theorems: `WorkerTypeCorrect`, `NoMessageIsLost`, `PaymentRequestedOnce`,
  `PaidOrdersHavePayment`, and `WorkerFollowsLifecycle`.

`AuthTokensProofs`. The inductive invariant is `AuthInv`: besides the types it says
which handler can be at which statement (`OpAtLabel`, `CallsRecorded`), that the token a
request is about to consume is its user's, of its kind and of its session
(`TokensPresented`), and that tokens come into being only with the last statement of
their request (`TokensIssuedLate`). The properties are strengthened where a handler is
between two statements:

* `OneLivePerSession` counts a rotation that has revoked the old token and not yet
  inserted the new one as the live link of its chain;
* `RevokedWhenDone` also covers a pair whose revocation is done and whose write is not;
* `VerifiedTraced` also covers the rows requests hold for a later save, and a
  verification between its two updates.
* Theorems: `AuthInvariant`, `AuthTypeCorrect`, `TokensUsedOnce`, `SessionsLinear`,
  `SuccessRevokes`, `VerificationNeedsToken`.

`OrderSystemProofs`, second part: commands, broker, worker and payments over one
database. `SysIInv` keeps `IInv` and `KeysConsistent`, which a step of the worker does not
disturb because it keeps every order's existence, key and items. The worker's own `WIInv`
does not survive: it says that an unprocessed order is PENDING, and a cancellation may
have come in between. What is left of it is `HandlersAlone` (a handler is alone with its
message inside the transaction and alone again while it pays). New are

* `MessagesPublished`: every queued, running or processed message is of a published order;
* `NoPaymentYet`: until the payment is recorded the payment id is NULL in the row and in
  every copy a cancellation or a handler holds, so that no stale save can bring another
  value back;
* `StaleSavesHarmless`: a cancellation whose save would leave the row PAID leaves the
  payment id too.
* Theorems: `SysIInvIsInvariant`, `ChargedAtMostOnce`, `PaidRowsKeepPayment`, and
  `CommandsSafeWithWorker` (stock and idempotency hold with the worker writing the same
  rows). `SystemAssumption` says that there is at least one attempt and that a payment is
  identified by its order.

`ShopProcessProofs`, first part: the process. `SIInv` joins the two safety properties with
`RequestsConsistent` (only a request for an order commits one, one request for the key, and a
request that committed reports success only after the hand-over) and `ShutdownConsistent` (who
started the shutdown, and what each stage of it has left behind). `RequestsConsistent` is
what an answer without a publish needs: the order it names was created by another request,
which then either handed its message over or was not answered with 2xx.

* Theorems: `SIInvIsInvariant`, `ShutdownIsClean`, `AcceptedOrdersWereHanded`.

`ShopProcessProofs`, second part: the calls to payments. `PIInv` joins `OneOpenClient` with `OneRowPerOrder`,
`AnswersNameRows` (an answer on the wire or in the caller's hands names a row of its
order, because rows are never deleted) and `TrialUnderWay` (a half-open breaker that lets
nobody through has its trial in flight: every end of a trial takes it out of half-open).

* Theorems: `PIInvIsInvariant`, `PaymentPerOrderUnique`, `NoClientLeaks`, and
  `TrialNeverLost`, the safety half of the liveness property `TrialResolves`.

`CartProofs`. `CIInv`: every place of the code belongs to the handlers that reach it
(`PlacesConsistent`); an item id stands for one product in the cart of a user and in every
copy of it (`IdsNameProducts`), which is why a save of a stale copy cannot replace another
product's row; a key has one order and a checkout is answered with an order of its key
(`OrdersConsistent`). `CartAssumption` says of the initial carts that their ids are
different and not above `InitialLastId`.

* Theorems: `CIInvIsInvariant`, `OrderedItemsAreGone`, and `NoItemVanishes`, an action property.
  `OrderedItemsAreGone` needs `ClearingConsistent`: an ordered item that is still in the cart
  is there because its checkout has not cleared it yet, has failed, or because it was
  revived.
* `AdditionsCountOnce` needs `CountsConsistent`: an addition is counted (`Counted`) from its
  write on, and neither the cart nor the copy an addition is about to write from has more
  than what was counted before. The sum only grows (`SumMonotone`), so a copy that has
  become stale stays below it.

`CatalogueProofs`, first part: the rows. `KIInv` has, besides types, `Placed` and the identity of reviews
(`ReviewIds`), the relation that matters for whole-entity saves: `Fresh` says that a copy
in memory equals its row except in the columns its request names and the ones others have
changed since it began; `RowsUploaded` and `CopyUploaded` say that rows and copies alike
show uploaded files only; `MainsLinked` says what stands behind a main image that is not
linked to its product.

* Theorems: `KIInvIsInvariant`, `ImagesShownExist`, `DanglingNeedsRace`, `OneReview`, and
  `SavesOverwriteOnlyRaces`, an action property.

`CatalogueProofs`, second part: the listings. `QInv` says that the cursor separates the rows
that stood still: those that were seen are not after it (`SeenBehind`), those that were not
seen are ahead of it or share their millisecond with another row (`RestAhead`). The cursor
names a row whose date never changes (`CursorReal`), although its price or title may. That
a page is sorted and has every row of its query up to the last one is `PageFacts`; it rests
on `RowExists` (every finite set of rows has an order that fits ORDER BY), and on
`TruncFacts` (milliseconds are monotone in microseconds). `IdsChosen` carries the argument
over the two statements of a page of reviews: a steady row the first one has not chosen is
after all it has chosen.

* Theorems: `AlwaysSeenInOrder`, `NothingEverMissed`. `QueriesAssumption` says that the
  table is finite and a page has at least one row.

`InfraProofs`, first part: the workflow. `RIInv` follows the workflow: `WorkflowConsistent` says which steps have
what behind them; `Quiesced` that the desired counts stay zero from the second quiesce to
the restore, so that the scheduler has nothing to start, and that what the waits left pending
or running is of the last deployment; `CountsRestored` that the restore of a run that got there
sets one service after the other to the saved counts, the configured ones unless the check
before the second quiesce failed;
`VersionDeployed` that after the update every resource, and so every task that is started,
is of this run, and that a migration that was awaited successfully has been applied. A
one-off task that outlives its run is covered: it may migrate later, but the schema never
goes back and its result is not taken for that of another run. That a stable service with
nothing desired runs nothing needs finite fleets (`SlotsFinite`).

* Theorems: `RIInvIsInvariant`, `OldTasksAlwaysRetired`, `SuccessIsDeployment`,
  `LateFailuresRestore`.

`InfraProofs`, second part: the hosts. `HostInv` has the number of containers bounded by
that of the faults (`RunsBounded`, so that a broker's directory is one of the stores), and
`VolumeFormatted`: whatever is mounted, is in fstab, or was mounted when the container started has
a filesystem, so that mkfs never meets a volume with writes on it (`WritesThere`). `ReadyInv`
adds that a database directory that was begun and not finished is being initialised or
was interrupted (`BareStores`), and that the script waits for a container on the mounted
volume (`ScriptOnVolume`).

* Theorems: `VolumeAlwaysKeepsWrites`, `ReadyAlwaysInitialised`.

With these, every invariant and action property of a passing run is a theorem. Only
model-checked are the liveness properties, because fairness is out of the prover's reach:
`EveryRequestEnds`, `QueueDrains`, `PublishedSettles`, `TrialResolves`,
`LostConnectionEnds`, `EnabledHostServes`, `RolloutCompletes`. Of two of them the safety half
is proved: `TrialNeverLost` for `TrialResolves`, and `NoMessageIsLost` for `QueueDrains`.
`AccessSecretsWork` and `FailedPaymentSettles` are the properties that fail.

## 5. Not modelled

* E-mails, order events, audit rows other than `ORDER_PAYMENT_FAILED`, metrics (the query
  count of a request included), logging and the aggregated `/status` page: written and never read by
  anything the properties are about.
* Guards decide from the token alone. A role or scope that was taken away stays in an
  access token until it expires; that is a property of time, not of an interleaving.
* Throttling counts in the memory of each process; nothing else depends on it.
* The schema of the environment and the validators of request bodies are the sets the
  inputs are drawn from. Of the migrations the constraints and indexes are used (there
  is no CHECK on `products.stock`); seed rows and stage validation data are not.
* Network, security groups, certificates, image repositories, mail identity, buckets,
  dashboards and alarms are declarations: nothing reads back what they create. Managed
  scaling of the hosts, rotation of the database password and the content of policies
  are left out of `Release`.
* Captured, refunded and failed payments have no operation in the code.
* A commit whose acknowledgement is lost is not an action of its own: in the worker it
  looks like a crash right after the commit, on the command side like a publish that
  throws.
* The stock properties of `OrderCommands` are about a catalogue nobody edits; the edits and
  what they do to the stock are in `Catalogue`.

## 6. Plan

1. The refinement of `OrderLifecycle` with both sides: which steps of `OrderSystem` leave
   it, stated as an action property that names the race.
2. The weak-fairness arguments behind the liveness properties, once the prover supports
   `ENABLED`: their safety halves are lemmas already.
3. Managed scaling of the hosts in `Release`, which would let a fleet change its size.
