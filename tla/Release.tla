------------------------------ MODULE Release ------------------------------
(***************************************************************************)
(* Releasing a version: the deploy workflow of a stack, the Pulumi update  *)
(* it runs, and the ECS scheduler that starts and stops the tasks.         *)
(*                                                                         *)
(* The workflow scales both services to zero, applies the stack, scales    *)
(* them to zero again, migrates both databases with one-off tasks and      *)
(* restores the services.  A concurrency group keeps one run at a time.    *)
(* A step fails, a wait times out and the runner may be lost; a failed     *)
(* step skips the rest, up to the restore, which is marked always().       *)
(*                                                                         *)
(* A task is pending until its container runs, and keeps its port while it *)
(* is stopping: the waits of the workflow count the running ones only.     *)
(***************************************************************************)
EXTENDS Integers, FiniteSets

CONSTANTS
  Fleets,      \* configurations of the stack
  None,
  MaxDeploys,  \* bound: runs of the workflow
  MaxFaults    \* bound: failing steps, dying tasks, lost runners

Services == {"payments", "shop"}

\* The steps of the workflow: the two quiesces, what is behind the second one,
\* and the restore.
Pre == {"pre_payments", "pre_shop", "pre_wait"}

Post == {"post_payments", "post_shop", "post_wait"}

Late == {"hosts", "migrate_payments", "await_payments", "migrate_shop", "await_shop", "seed",
         "await_seed", "checked"}

Restoring == {"restore_payments", "restore_shop", "stable"}

Steps == {"idle", "read", "apply", "capture", "post_check", "smoke"} \cup Pre \cup Post \cup Late \cup Restoring

\* What a slot of a host runs: a task of the service, or a one-off task.
Task == [run : Nat, secrets : Nat, parameters : Nat, fresh : BOOLEAN, job : {None, "migrate", "seed"},
         state : {"pending", "running", "stopping"}]

Counts == [Services -> Nat]

ASSUME ReleaseAssumption ==
  /\ \A f \in Fleets :
       /\ f.stack \in {"stage", "production"} /\ f.micro \in BOOLEAN
       /\ f.min \in Nat /\ f.hosts \in Nat /\ f.max \in Nat /\ f.perHost \in Nat \ {0}
       /\ f.shop \in Nat /\ f.payments \in Nat
       /\ f.minimum \in [Services -> Nat \cup {None}] /\ f.maximum \in [Services -> Nat \cup {None}]
       /\ f.mode \in {None, "disabled", "custom-domain", "cloudfront"} /\ f.domain \in BOOLEAN
  /\ MaxDeploys \in Nat /\ MaxFaults \in Nat
  /\ None \notin Steps \cup {"lost", "ok", "failed", "migrate", "seed"}
  /\ None \notin Nat \cup Task \cup Counts

VARIABLES
  fleet,       \* the configuration
  n, version,  \* runs so far, and the version each of them deploys
  pc,          \* the step of the workflow
  failed, cause,    \* a step of this run failed; which one first
  pre, post,        \* the outcomes of the two quiesce steps
  saved,       \* the desired counts in the job's environment
  outputs,     \* the outputs of the "stack" step
  initFailed, result,  \* the database tasks of this run; the awaited one
  exported,    \* the stack has outputs
  at,          \* the run that last updated a resource
  desired, spec,    \* the ECS services: desired count, task definition
  tasks,       \* what runs in each slot
  joined,      \* hosts whose agent is connected
  refresh,     \* hosts the running instance refresh has still to replace
  schema,      \* the version each database is migrated to
  faults

runVars == <<n, version, pre, post, saved, outputs, initFailed, result>>
jobVars == <<runVars, pc, failed, cause>>
stackVars == <<exported, at, spec>>
ecsVars == <<desired, tasks, joined, refresh>>
rvars == <<fleet, jobVars, stackVars, ecsVars, schema, faults>>

Runs == 1 .. MaxDeploys
Resources == {"data", "edge", "compute", "secrets", "parameters"} \cup Services

-----------------------------------------------------------------------------
(* The configuration *)

\* resolvePublicEdgeMode: without an edge there is no public endpoint.
EdgeMode(f) ==
  IF f.mode # None THEN f.mode ELSE IF f.domain THEN "custom-domain" ELSE "disabled"

\* createComputeEdge: the endpoint is the domain's record of the load balancer,
\* or a CloudFront distribution in front of it.
CustomDomain(f) == EdgeMode(f) = "custom-domain"

CloudFront(f) == EdgeMode(f) = "cloudfront"

PublicEndpoint(f) == CustomDomain(f) \/ CloudFront(f)

\* getComputeEdgeConfig: a custom domain has to be configured.
DomainGiven(f) == CustomDomain(f) => f.domain

\* validatePaymentsPlacement: a host for every payments task, and no spare one.
PaymentsPlaced(f) == f.payments <= f.max

\* getDefaultDeploymentSettings: one small host has room for one task only.
SingleHost(f) == f.min = 1 /\ f.hosts = 1 /\ f.max = 1 /\ f.micro

\* A variant of DefaultDeployment: rolling updates everywhere.
DefaultDeployment_Rolling(f) == [minimum |-> 100, maximum |-> 200]

DefaultDeployment(f) ==
  IF SingleHost(f) THEN [minimum |-> 0, maximum |-> 100] ELSE [minimum |-> 100, maximum |-> 200]

\* Each percentage of a service may be configured.
DeploymentOf(f, s) ==
  [minimum |-> IF f.minimum[s] = None THEN DefaultDeployment(f).minimum ELSE f.minimum[s],
   maximum |-> IF f.maximum[s] = None THEN DefaultDeployment(f).maximum ELSE f.maximum[s]]

\* validateDeploymentPercentages.
PercentagesValid(f) ==
  \A s \in Services :
    /\ DeploymentOf(f, s).minimum \in 0 .. 100
    /\ DeploymentOf(f, s).maximum \in 100 .. 200

\* The configurations that are let through, validateCapacity being the rest.
Valid(f) ==
  /\ 1 <= f.min /\ f.min <= f.hosts /\ f.hosts <= f.max
  /\ PaymentsPlaced(f) /\ PercentagesValid(f) /\ DomainGiven(f)

Configured == [s \in Services |-> IF s = "shop" THEN fleet.shop ELSE fleet.payments]

Hosts == 1 .. fleet.hosts

\* Payments has a fixed host port, one task per host; the shop a dynamic one.
Slots(s) == IF s = "payments" THEN Hosts \X {1} ELSE Hosts \X (1 .. fleet.perHost)

Deployment(s) == DeploymentOf(fleet, s)

RInit ==
  /\ fleet \in {f \in Fleets : Valid(f)}
  /\ n = 0 /\ version = [r \in Runs |-> 0]
  /\ pc = "idle" /\ failed = FALSE /\ cause = None
  /\ pre = FALSE /\ post = FALSE /\ saved = None /\ outputs = FALSE
  /\ initFailed = FALSE /\ result = None
  /\ exported = FALSE
  /\ at = [r \in Resources |-> 0] /\ spec = [s \in Services |-> 0]
  /\ desired = [s \in Services |-> 0]
  /\ tasks = [s \in Services |-> [x \in Slots(s) |-> None]]
  /\ joined = {} /\ refresh = {}
  /\ schema = [s \in Services |-> 0]
  /\ faults = 0

Fault == faults < MaxFaults /\ faults' = faults + 1

-----------------------------------------------------------------------------
(* Amazon ECS *)

Running(s, job) == {x \in Slots(s) : tasks[s][x] # None /\ tasks[s][x].job = job}

Tasks(s) == Running(s, None)

\* ECS counts what is pending or running, and stops nothing twice.
Live(s) == {x \in Tasks(s) : tasks[s][x].state # "stopping"}

Up(s) == {x \in Tasks(s) : tasks[s][x].state = "running"}

Fresh(s) == {x \in Live(s) : tasks[s][x].fresh}

Free(s) == {x \in Slots(s) : tasks[s][x] = None /\ x[1] \in joined}

\* A container is started with the values its secrets and parameters have.
NewTask(s, job) ==
  [run |-> spec[s], secrets |-> at["secrets"], parameters |-> at["parameters"], fresh |-> TRUE,
   job |-> job, state |-> "pending"]

\* A task whose parameters do not exist yet is not started.
StartTask(s) ==
  /\ spec[s] > 0 /\ at["parameters"] > 0
  /\ Cardinality(Fresh(s)) < desired[s]
  /\ 100 * (Cardinality(Live(s)) + 1) <= desired[s] * Deployment(s).maximum
  /\ \E x \in Free(s) : tasks' = [tasks EXCEPT ![s][x] = NewTask(s, None)]
  /\ UNCHANGED <<fleet, jobVars, stackVars, desired, joined, refresh, schema, faults>>

\* The image is pulled, and the container answers its health check.
TaskRuns(s) ==
  /\ \E x \in Live(s) \ Up(s) : tasks' = [tasks EXCEPT ![s][x].state = "running"]
  /\ UNCHANGED <<fleet, jobVars, stackVars, desired, joined, refresh, schema, faults>>

\* A task that is told to stop drains its connections first.
StopTask(s) ==
  /\ \E x \in Live(s) :
       /\ IF tasks[s][x].fresh
            THEN Cardinality(Fresh(s)) > desired[s]
            ELSE 100 * Cardinality(Up(s) \ {x}) >= desired[s] * Deployment(s).minimum
       /\ tasks' = [tasks EXCEPT ![s][x].state = "stopping"]
  /\ UNCHANGED <<fleet, jobVars, stackVars, desired, joined, refresh, schema, faults>>

TaskStopped(s) ==
  /\ \E x \in Tasks(s) \ Live(s) : tasks' = [tasks EXCEPT ![s][x] = None]
  /\ UNCHANGED <<fleet, jobVars, stackVars, desired, joined, refresh, schema, faults>>

TaskDies(s) ==
  /\ Fault
  /\ \E x \in Tasks(s) : tasks' = [tasks EXCEPT ![s][x] = None]
  /\ UNCHANGED <<fleet, jobVars, stackVars, desired, joined, refresh, schema>>

\* The user data of a cluster host: its agent registers.
HostJoins(h) ==
  /\ at["compute"] > 0 /\ h \notin joined
  /\ joined' = joined \cup {h}
  /\ UNCHANGED <<fleet, jobVars, stackVars, desired, tasks, refresh, schema, faults>>

\* The one-off task a step of the workflow waits for.
Awaiting ==
  [step \in {"await_payments", "await_shop", "await_seed"} |->
     CASE step = "await_payments" -> <<"payments", "migrate">>
       [] step = "await_shop" -> <<"shop", "migrate">>
       [] step = "await_seed" -> <<"shop", "seed">>]

Awaited(s, t) == pc \in DOMAIN Awaiting /\ Awaiting[pc] = <<s, t.job>> /\ t.run = n

\* A one-off task ends: typeorm migration:run, or the seed.
JobEnds(s) ==
  \E x \in Slots(s) :
    /\ tasks[s][x] # None /\ tasks[s][x].job # None
    /\ tasks' = [tasks EXCEPT ![s][x] = None]
    /\ \E ok \in BOOLEAN :
         /\ IF ok THEN UNCHANGED faults ELSE Fault
         /\ schema' = [schema EXCEPT ![s] =
              IF ok /\ tasks[s][x].job = "migrate" /\ version[tasks[s][x].run] > @
                THEN version[tasks[s][x].run] ELSE @]
         /\ result' = IF Awaited(s, tasks[s][x]) THEN (IF ok THEN "ok" ELSE "failed") ELSE result
    /\ UNCHANGED <<fleet, n, version, pre, post, saved, outputs, initFailed, pc, failed, cause,
                   stackVars, desired, joined, refresh>>

\* minHealthyPercentage: none of a single host, half of several.
MayReplace(h) == fleet.hosts = 1 \/ 2 * Cardinality(joined \ {h}) >= fleet.hosts

\* The instance refresh, which nobody waits for, terminates a host with
\* everything on it; a one-off task among it has no exit code.
ReplaceHost(h) ==
  /\ h \in refresh /\ MayReplace(h)
  /\ refresh' = refresh \ {h} /\ joined' = joined \ {h}
  /\ tasks' = [s \in Services |-> [x \in Slots(s) |-> IF x[1] = h THEN None ELSE tasks[s][x]]]
  /\ result' = IF \E s \in Services : \E x \in Slots(s) :
                    x[1] = h /\ tasks[s][x] # None /\ Awaited(s, tasks[s][x])
                 THEN "failed" ELSE result
  /\ UNCHANGED <<fleet, n, version, pre, post, saved, outputs, initFailed, pc, failed, cause,
                 stackVars, desired, schema, faults>>

\* A variant of Stable: the desired count is what was asked for.
Stable_CountSet(s) == desired[s] \in {0, Configured[s]}

\* aws ecs wait services-stable: one deployment, and as many of its tasks
\* running as desired.  Pending and stopping ones are not looked at.
Stable(s) == Live(s) = Fresh(s) /\ Cardinality(Up(s)) = desired[s]

-----------------------------------------------------------------------------
(* Pulumi *)

\* The outputs a part of the stack is built from.  A task definition gets the
\* secret's ARN and version from its resources, but the names of the
\* parameters are plain strings: nothing orders them.
Deps(r) ==
  CASE r \in {"data", "edge", "compute"} -> {}
    [] r = "secrets" -> {"data"}
    [] r = "parameters" -> {"data", "edge"}
    [] r = "payments" -> {"compute", "secrets"}
    [] r = "shop" -> {"compute", "edge", "secrets"}

\* Pulumi updates a resource when the ones it refers to are done.
Update(r) ==
  /\ pc = "apply" /\ at[r] # n
  /\ \A d \in Deps(r) : at[d] = n
  /\ at' = [at EXCEPT ![r] = n]
  /\ UNCHANGED <<fleet, jobVars, exported, joined, schema, faults>>

\* The databases and the broker host; DataHosts models their hosts.
UpdateData == Update("data") /\ UNCHANGED <<spec, desired, tasks, refresh>>

\* The load balancer, the target group of the shop and its listener.
UpdateEdge == Update("edge") /\ UNCHANGED <<spec, desired, tasks, refresh>>

\* The runtime secrets: a copy of what the database secrets say now.
UpdateSecrets == Update("secrets") /\ UNCHANGED <<spec, desired, tasks, refresh>>

UpdateParameters == Update("parameters") /\ UNCHANGED <<spec, desired, tasks, refresh>>

\* A new version of the launch template starts an instance refresh.
UpdateCompute ==
  /\ Update("compute")
  /\ refresh' \in (IF at["compute"] = 0 THEN {{}} ELSE {refresh, Hosts})
  /\ UNCHANGED <<spec, desired, tasks>>

Stale(s) == [x \in Slots(s) |-> IF tasks[s][x] = None THEN None ELSE [tasks[s][x] EXCEPT !.fresh = FALSE]]

\* A service gets its new task definition without waiting for its tasks.
\* Pulumi knows the configured count, not the zero the workflow set.
UpdateService(s) ==
  /\ Update(s)
  /\ spec' = [spec EXCEPT ![s] = n]
  /\ tasks' = [tasks EXCEPT ![s] = Stale(s)]
  /\ \E c \in (IF spec[s] = 0 THEN {} ELSE {desired[s]}) \cup {Configured[s]} :
       desired' = [desired EXCEPT ![s] = c]
  /\ UNCHANGED refresh

PulumiUp ==
  \/ UpdateData \/ UpdateEdge \/ UpdateSecrets \/ UpdateParameters \/ UpdateCompute
  \/ \E s \in Services : UpdateService(s)

-----------------------------------------------------------------------------
(* The workflow *)

Go(step) == pc' = step /\ UNCHANGED <<failed, cause>>

\* A variant of MayRestore: the restore without always().
MayRestore_OnSuccess == FALSE

MayRestore == pre \/ post

\* Inside the step with the one-off tasks a failure is only noted.
JobSteps == {"migrate_payments", "migrate_shop", "seed"} \cup DOMAIN Awaiting

\* A failing step: the steps up to the restore are skipped.  The cause is the
\* first of them, or the restore when that fails as well.
Fail ==
  /\ failed' = TRUE
  /\ cause' = IF failed /\ pc = "stable" THEN cause ELSE pc
  /\ pc' = IF MayRestore /\ pc \notin {"restore_payments", "restore_shop", "stable", "smoke"}
             THEN "restore_payments" ELSE "idle"

StepFails ==
  /\ pc \notin {"idle", "read", "checked"} \cup JobSteps
  /\ Fault /\ Fail
  /\ UNCHANGED <<fleet, runVars, stackVars, ecsVars, schema>>

RunnerLost ==
  /\ pc # "idle" /\ Fault
  /\ pc' = "idle" /\ failed' = TRUE /\ cause' = "lost"
  /\ UNCHANGED <<fleet, runVars, stackVars, ecsVars, schema>>

\* Stage deploys every build; production what it is told to, older ones too.
Trigger ==
  /\ pc = "idle" /\ n < MaxDeploys
  /\ n' = n + 1
  /\ \E v \in (IF fleet.stack = "stage" THEN {n + 1} ELSE 1 .. n + 1) :
       version' = [version EXCEPT ![n + 1] = v]
  /\ pc' = "read" /\ failed' = FALSE /\ cause' = None
  /\ pre' = FALSE /\ post' = FALSE /\ saved' = None /\ outputs' = FALSE
  /\ initFailed' = FALSE /\ result' = None
  /\ UNCHANGED <<fleet, stackVars, ecsVars, schema, faults>>

\* The current outputs decide on the first quiesce, which saves the live
\* counts; a stack without outputs goes straight to the update.
ReadOutputs ==
  /\ pc = "read"
  /\ IF exported
       THEN Go("pre_payments") /\ saved' = desired
       ELSE Go("apply") /\ UNCHANGED saved
  /\ UNCHANGED <<fleet, n, version, pre, post, outputs, initFailed, result, stackVars, ecsVars, schema, faults>>

ScaleDown(s, from, to) ==
  /\ pc = from /\ Go(to)
  /\ desired' = [desired EXCEPT ![s] = 0]
  /\ UNCHANGED <<fleet, runVars, stackVars, tasks, joined, refresh, schema, faults>>

Quiesce ==
  \/ ScaleDown("payments", "pre_payments", "pre_shop") \/ ScaleDown("shop", "pre_shop", "pre_wait")
  \/ ScaleDown("payments", "post_payments", "post_shop") \/ ScaleDown("shop", "post_shop", "post_wait")

PreQuiesced ==
  /\ pc = "pre_wait"
  /\ IF \A s \in Services : Stable(s) THEN Go("apply") /\ pre' = TRUE ELSE Fail /\ UNCHANGED pre
  /\ UNCHANGED <<fleet, n, version, post, saved, outputs, initFailed, result, stackVars, ecsVars, schema, faults>>

Applied ==
  /\ pc = "apply" /\ \A r \in Resources : at[r] = n
  /\ Go("capture")
  /\ exported' = TRUE
  /\ UNCHANGED <<fleet, runVars, at, spec, ecsVars, schema, faults>>

\* The outputs are written before the endpoint is looked at.
CaptureOutputs ==
  /\ pc = "capture"
  /\ outputs' = TRUE
  /\ IF PublicEndpoint(fleet) THEN Go("post_check") ELSE Fail
  /\ UNCHANGED <<fleet, n, version, pre, post, saved, initFailed, result, stackVars, ecsVars, schema, faults>>

\* A variant of PostCounts: the live counts, as in the first quiesce.
PostCounts_Live == desired

PostCounts == Configured

\* The second quiesce replaces the saved counts by the configured ones, once
\* it has seen these and described both services.
CheckCounts ==
  /\ pc = "post_check" /\ Go("post_payments")
  /\ saved' = PostCounts
  /\ UNCHANGED <<fleet, n, version, pre, post, outputs, initFailed, result, stackVars, ecsVars, schema, faults>>

PostQuiesced ==
  /\ pc = "post_wait"
  /\ IF \A s \in Services : Stable(s) THEN Go("hosts") /\ post' = TRUE ELSE Fail /\ UNCHANGED post
  /\ UNCHANGED <<fleet, n, version, pre, saved, outputs, initFailed, result, stackVars, ecsVars, schema, faults>>

\* The broker answers, and on stage the PostgreSQL host.
HostsReady ==
  /\ pc = "hosts" /\ Go("migrate_payments")
  /\ UNCHANGED <<fleet, runVars, stackVars, ecsVars, schema, faults>>

\* run_task: placed in a free slot, or given up after the last attempt.
RunJob(s, step, job, await, next) ==
  /\ pc = step
  /\ \/ \E x \in Free(s) :
          /\ tasks' = [tasks EXCEPT ![s][x] = NewTask(s, job)]
          /\ Go(await) /\ UNCHANGED initFailed
     \/ /\ Free(s) = {}
        /\ initFailed' = TRUE
        /\ Go(next) /\ UNCHANGED tasks
  /\ UNCHANGED <<fleet, n, version, pre, post, saved, outputs, result, stackVars, desired, joined, refresh, schema, faults>>

StartJob ==
  \/ RunJob("payments", "migrate_payments", "migrate", "await_payments", "migrate_shop")
  \/ RunJob("shop", "migrate_shop", "migrate", "await_shop", "checked")
  \/ RunJob("shop", "seed", "seed", "await_seed", "checked")

\* The end of run_task: the exit code, or none when the wait timed out with
\* the task still running.  A failed task does not stop the step; stage
\* seeds the shop when its migration succeeded.
JobAwaited ==
  /\ pc \in DOMAIN Awaiting
  /\ initFailed' = (initFailed \/ result # "ok")
  /\ result' = None
  /\ Go(CASE pc = "await_payments" -> "migrate_shop"
          [] pc = "await_shop" -> IF fleet.stack = "stage" /\ result = "ok" THEN "seed" ELSE "checked"
          [] pc = "await_seed" -> "checked")
  /\ UNCHANGED <<fleet, n, version, pre, post, saved, outputs, stackVars, ecsVars, schema, faults>>

InitChecked ==
  /\ pc = "checked"
  /\ IF initFailed THEN Fail ELSE Go("restore_payments")
  /\ UNCHANGED <<fleet, runVars, stackVars, ecsVars, schema, faults>>

\* The restore uses the outputs of this run, which a failed update has not.
Restore(s, from, to) ==
  /\ pc = from
  /\ IF outputs
       THEN /\ Go(to)
            /\ desired' = [desired EXCEPT ![s] = saved[s]]
            /\ tasks' = [tasks EXCEPT ![s] = Stale(s)]
       ELSE Fail /\ UNCHANGED <<desired, tasks>>
  /\ UNCHANGED <<fleet, runVars, stackVars, joined, refresh, schema, faults>>

RestoreServices ==
  Restore("payments", "restore_payments", "restore_shop") \/ Restore("shop", "restore_shop", "stable")

Stabilized ==
  /\ pc = "stable"
  /\ IF \A s \in Services : Stable(s)
       THEN Go(IF failed THEN "idle" ELSE "smoke")
       ELSE Fail
  /\ UNCHANGED <<fleet, runVars, stackVars, ecsVars, schema, faults>>

SmokeTested ==
  /\ pc = "smoke" /\ Go("idle")
  /\ UNCHANGED <<fleet, runVars, stackVars, ecsVars, schema, faults>>

WorkflowStep ==
  \/ ReadOutputs \/ Quiesce \/ PreQuiesced \/ PulumiUp \/ Applied
  \/ CaptureOutputs \/ CheckCounts \/ PostQuiesced \/ HostsReady \/ StartJob \/ JobAwaited \/ InitChecked
  \/ RestoreServices \/ Stabilized \/ SmokeTested

EcsStep ==
  \E s \in Services : StartTask(s) \/ TaskRuns(s) \/ StopTask(s) \/ TaskStopped(s) \/ JobEnds(s)

HostStep == \E h \in Hosts : HostJoins(h) \/ ReplaceHost(h)

RNext ==
  \/ WorkflowStep \/ EcsStep \/ HostStep
  \/ Trigger \/ StepFails \/ RunnerLost
  \/ (\E s \in Services : TaskDies(s))

RSpec == RInit /\ [][RNext]_rvars

\* The runner executes its steps, ECS places and stops what it may, and the
\* hosts of the cluster come up and are refreshed.
RFairSpec ==
  /\ RSpec
  /\ WF_rvars(WorkflowStep) /\ WF_rvars(EcsStep) /\ WF_rvars(HostStep)

-----------------------------------------------------------------------------
(* Properties *)

\* While the databases are migrated no task is asked for, and none of an
\* older deployment is pending or running: old code meets the new schema at
\* most while it is being stopped, which the waits of the workflow do not
\* see.  A task of this deployment may still come up, when it was pending as
\* the services went to zero.
OldTasksRetired ==
  pc \in Late => \A s \in Services :
    desired[s] = 0 /\ \A x \in Live(s) : tasks[s][x].fresh /\ tasks[s][x].run = n

\* A run that ends without a failure has deployed its version: the desired
\* counts are the configured ones, the schema is not older than the code,
\* and no task that is not being stopped is of another run or has older
\* secrets or parameters.
SuccessMeansDeployed ==
  pc = "idle" /\ n > 0 /\ ~failed =>
    \A s \in Services :
      /\ desired[s] = Configured[s] /\ spec[s] = n /\ schema[s] >= version[n]
      /\ \A x \in Live(s) :
           tasks[s][x].run = n /\ tasks[s][x].secrets = n /\ tasks[s][x].parameters = n

\* A run that fails behind the second quiesce, or in it with the first one
\* done, does not leave a service at zero: the restore is marked always().
\* When the second quiesce fails before it has saved the configured counts,
\* the services get back what they had when the run began.
LateFailureRestores ==
  pc = "idle" =>
    /\ cause \in Late \cup {"stable", "smoke"} \/ (cause \in Post /\ pre) => desired = Configured
    /\ cause = "post_check" /\ pre => desired = saved

\* Whether a service can replace its tasks: there is room for one more and
\* it may be started first, or one may be stopped first.
CanRoll(s) ==
  LET d == Configured[s] IN
    /\ d <= Cardinality(Slots(s))
    /\ \/ d = 0
       \/ /\ d < Cardinality(Slots(s))
          /\ IF fleet.maximum[s] = None THEN ~SingleHost(fleet) ELSE 100 * (d + 1) <= d * fleet.maximum[s]
       \/ IF fleet.minimum[s] = None THEN SingleHost(fleet) ELSE 100 * (d - 1) >= d * fleet.minimum[s]

\* Whatever happened to the runs, once the parameters exist the services end
\* up with exactly the desired number of tasks of their last deployment: on
\* one small host too, where a second payments task has no port to run on.
\* A fleet whose settings neither leave room nor let a task be stopped first
\* passes the validation and gets stuck.
RolloutCompletes ==
  (\A s \in Services : CanRoll(s)) => <>[](at["parameters"] > 0 => \A s \in Services : Stable(s))

-----------------------------------------------------------------------------
(* The inductive invariant behind the theorems of InfraProofs *)

RTypeOK ==
  /\ fleet \in Fleets
  /\ n \in 0 .. MaxDeploys /\ version \in [Runs -> Nat]
  /\ pc \in Steps /\ failed \in BOOLEAN /\ cause \in Steps \cup {None, "lost"}
  /\ pre \in BOOLEAN /\ post \in BOOLEAN /\ outputs \in BOOLEAN /\ initFailed \in BOOLEAN
  /\ saved \in Counts \cup {None} /\ result \in {None, "ok", "failed"}
  /\ at \in [Resources -> Nat] /\ spec \in Counts /\ desired \in Counts /\ schema \in Counts
  /\ DOMAIN tasks = Services
  /\ \A s \in Services : tasks[s] \in [Slots(s) -> Task \cup {None}]

\* Which steps have what behind them: a failure skips to the restore, the
\* restore has counts to restore, and only an awaited task has a result.
WorkflowConsistent ==
  /\ pc # "idle" \/ failed => n > 0
  /\ failed <=> cause # None
  /\ failed => pc \in Restoring \cup {"idle"}
  /\ pre \/ post \/ pc \in Pre \cup Restoring => saved # None
  /\ pc \in Late => post
  /\ result # None => pc \in DOMAIN Awaiting \cup {"idle"}

\* Nothing starts a task of a service from the second quiesce to the restore,
\* and what it waits for leaves only tasks of the last deployment.
Quiesced ==
  /\ pc \in {"post_shop", "post_wait"} \cup Late => desired["payments"] = 0
  /\ pc \in {"post_wait"} \cup Late => desired["shop"] = 0
  /\ pc \in Late => \A s \in Services : Live(s) \subseteq Fresh(s)

\* The failures after which LateFailureRestores promises the services.
LateFailed == cause \in Late \cup {"stable", "smoke"} \/ (cause \in Post /\ pre)

CheckFailed == cause = "post_check" /\ pre

\* The restore of such a run, and of one without a failure, has the outputs
\* and sets one saved count after the other, the configured ones unless the
\* check before the second quiesce failed.
CountsRestored ==
  /\ pc \in {"post_check"} \cup Post \cup Late => outputs
  /\ pc \in Post \cup Late => saved = Configured
  /\ (~failed \/ LateFailed) /\ (pc \in Restoring \cup {"smoke"} \/ (pc = "idle" /\ n > 0)) =>
       saved = Configured
  /\ ~failed \/ LateFailed \/ CheckFailed =>
       /\ pc \in Restoring => outputs
       /\ pc \in {"restore_shop", "stable", "smoke"} => desired["payments"] = saved["payments"]
       /\ pc \in {"stable", "smoke"} => desired["shop"] = saved["shop"]
       /\ pc = "idle" /\ n > 0 => desired = saved

\* The last steps of a run that has not failed, and its end.
Succeeding == ~failed /\ (pc \in Restoring \cup {"smoke"} \/ (pc = "idle" /\ n > 0))

\* The services whose tasks have been replaced since the update.
Redeployed == CASE pc \in {"stable", "smoke", "idle"} -> Services
                [] pc = "restore_shop" -> {"payments"}
                [] OTHER -> {}

\* After the update every resource is of this run, and so is every task that
\* is started; a migration that was awaited successfully has been applied.
VersionDeployed ==
  /\ \A r \in Resources : at[r] <= n
  /\ \A s \in Services : spec[s] = at[s]
  /\ \A s \in Services : \A x \in Slots(s) : tasks[s][x] # None => tasks[s][x].run \in 1 .. n
  /\ \A s \in Services : \A x \in Fresh(s) : tasks[s][x].run = spec[s]
  /\ pc \in {"capture", "post_check"} \cup Post \cup Late \/ Succeeding => \A r \in Resources : at[r] = n
  /\ pc = "await_payments" /\ result = "ok" => schema["payments"] >= version[n]
  /\ pc = "await_shop" /\ result = "ok" => schema["shop"] >= version[n]
  /\ pc \in {"migrate_shop", "await_shop", "seed", "await_seed", "checked"} /\ ~initFailed =>
       schema["payments"] >= version[n]
  /\ pc \in {"seed", "await_seed", "checked"} /\ ~initFailed => schema["shop"] >= version[n]
  /\ Succeeding => \A s \in Services :
       /\ schema[s] >= version[n]
       /\ s \in Redeployed => \A x \in Fresh(s) : tasks[s][x].secrets = n /\ tasks[s][x].parameters = n
       /\ pc \in {"smoke", "idle"} => Live(s) \subseteq Fresh(s)

RIInv == RTypeOK /\ WorkflowConsistent /\ Quiesced /\ CountsRestored /\ VersionDeployed
=============================================================================
