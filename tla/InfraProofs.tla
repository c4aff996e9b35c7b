---------------------------- MODULE InfraProofs ----------------------------
(***************************************************************************)
(* Theorems about Release, for every fleet, number of runs and of faults,  *)
(* and about DataHosts, for every number of faults and of writes.          *)
(***************************************************************************)
EXTENDS Release, DataHosts, TLAPS

-----------------------------------------------------------------------------
(* Facts about the definitions *)

\* The waiting steps.
LEMMA AwaitingFacts ==
  /\ DOMAIN Awaiting = {"await_payments", "await_shop", "await_seed"}
  /\ Awaiting["await_payments"] = <<"payments", "migrate">>
  /\ Awaiting["await_shop"] = <<"shop", "migrate">>
  /\ Awaiting["await_seed"] = <<"shop", "seed">>
BY DEF Awaiting

\* NULL is no step, count, task, or result.
LEMMA NoneFacts ==
  /\ None \notin Steps \cup {"lost", "ok", "failed", "migrate", "seed"}
  /\ None \notin Task /\ None \notin Counts /\ None \notin Nat
BY ReleaseAssumption

\* What a task that keeps its slot keeps: it may run or be told to stop, and
\* what is told to stop is not taken back.
Kept(s, x) ==
  tasks'[s][x] # None =>
    /\ tasks[s][x] # None
    /\ tasks'[s][x].run = tasks[s][x].run /\ tasks'[s][x].job = tasks[s][x].job
    /\ tasks'[s][x].secrets = tasks[s][x].secrets
    /\ tasks'[s][x].parameters = tasks[s][x].parameters
    /\ tasks'[s][x].fresh => tasks[s][x].fresh
    /\ tasks'[s][x].state # "stopping" => tasks[s][x].state # "stopping"

\* Every slot keeps its task.
SameTasks ==
  /\ DOMAIN tasks' = Services
  /\ \A s \in Services :
       /\ tasks'[s] \in [Slots(s) -> Task \cup {None}]
       /\ \A x \in Slots(s) : Kept(s, x)

LEMMA FleetSame ==
  ASSUME UNCHANGED fleet
  PROVE  Configured' = Configured /\ \A s \in Services : Slots(s)' = Slots(s)
BY DEF Configured, Slots, Hosts

\* No slot becomes live or fresh by keeping its task.
LEMMA TasksSame ==
  ASSUME UNCHANGED fleet, SameTasks
  PROVE  \A s \in Services :
           /\ Live(s)' \subseteq Live(s) /\ Fresh(s)' \subseteq Fresh(s)
           /\ \A x \in Fresh(s)' :
                /\ tasks'[s][x].run = tasks[s][x].run
                /\ tasks'[s][x].secrets = tasks[s][x].secrets
                /\ tasks'[s][x].parameters = tasks[s][x].parameters
BY FleetSame DEF SameTasks, Kept, Live, Fresh, Tasks, Running

LEMMA UnchangedTasks ==
  ASSUME RTypeOK, UNCHANGED <<fleet, tasks>>
  PROVE  SameTasks /\ \A s \in Services : Live(s)' = Live(s) /\ Fresh(s)' = Fresh(s)
BY FleetSame DEF SameTasks, Kept, RTypeOK, Live, Fresh, Tasks, Running

\* A new deployment leaves no fresh task.
LEMMA StaleTasks ==
  ASSUME RTypeOK, UNCHANGED fleet, NEW s \in Services, tasks' = [tasks EXCEPT ![s] = Stale(s)]
  PROVE  SameTasks /\ Fresh(s)' = {}
<1>1. ASSUME NEW t \in Task
      PROVE  /\ [t EXCEPT !.fresh = FALSE] \in Task
             /\ [t EXCEPT !.fresh = FALSE].run = t.run
             /\ [t EXCEPT !.fresh = FALSE].job = t.job
             /\ [t EXCEPT !.fresh = FALSE].secrets = t.secrets
             /\ [t EXCEPT !.fresh = FALSE].parameters = t.parameters
             /\ [t EXCEPT !.fresh = FALSE].state = t.state
             /\ [t EXCEPT !.fresh = FALSE].fresh = FALSE
  BY DEF Task
<1>2. DOMAIN tasks' = Services /\ tasks'[s] = Stale(s) /\ \A q \in Services \ {s} : tasks'[q] = tasks[q]
  BY DEF RTypeOK
<1>3. ASSUME NEW x \in Slots(s)
      PROVE  /\ tasks'[s][x] \in Task \cup {None}
             /\ tasks'[s][x] # None =>
                  tasks[s][x] \in Task /\ tasks'[s][x] = [tasks[s][x] EXCEPT !.fresh = FALSE]
  <2>1. tasks[s][x] \in Task \cup {None}
    BY DEF RTypeOK
  <2>2. tasks'[s][x] = IF tasks[s][x] = None THEN None ELSE [tasks[s][x] EXCEPT !.fresh = FALSE]
    BY <1>2 DEF Stale
  <2> QED
    BY <1>1, <2>1, <2>2, NoneFacts
<1>4. ASSUME NEW x \in Slots(s)
      PROVE  Kept(s, x) /\ (tasks'[s][x] # None => tasks'[s][x].fresh = FALSE)
  BY <1>1, <1>3, NoneFacts DEF Kept
<1>5. tasks'[s] \in [Slots(s) -> Task \cup {None}]
  <2>1. tasks'[s] = [x \in Slots(s) |-> tasks'[s][x]]
    BY <1>2 DEF Stale
  <2> QED
    BY <1>3, <2>1
<1>6. ASSUME NEW q \in Services
      PROVE  /\ tasks'[q] \in [Slots(q) -> Task \cup {None}]
             /\ \A x \in Slots(q) : Kept(q, x)
  <2>1. CASE q = s
    BY <1>4, <1>5, <2>1
  <2>2. CASE q # s
    BY <1>2, <2>2 DEF RTypeOK, Kept
  <2> QED
    BY <2>1, <2>2
<1>7. Fresh(s)' = {}
  BY <1>4, FleetSame DEF Fresh, Live, Tasks, Running
<1> QED
  BY <1>2, <1>6, <1>7 DEF SameTasks

-----------------------------------------------------------------------------
(* The scheduler *)

\* What the scheduler and the hosts do: slots keep their task, are emptied,
\* or filled with a task of the current definition, and one-off tasks end.
LEMMA EcsKeeps ==
  ASSUME RIInv,
         UNCHANGED <<fleet, n, version, pre, post, saved, outputs, initFailed, pc, failed, cause,
                     at, spec, desired>>,
         DOMAIN tasks' = Services,
         \A s \in Services :
           /\ tasks'[s] \in [Slots(s) -> Task \cup {None}]
           /\ \A x \in Slots(s) :
                \/ Kept(s, x) /\ (tasks'[s][x] # None => tasks'[s][x].fresh = tasks[s][x].fresh)
                \/ tasks'[s][x] = NewTask(s, None) /\ spec[s] > 0,
         schema' \in Counts, \A s \in Services : schema[s] <= schema'[s],
         result' \in {None, "ok", "failed"},
         result' # result =>
           /\ pc \in DOMAIN Awaiting
           /\ result' = "ok" /\ pc = "await_payments" => schema'["payments"] >= version[n]
           /\ result' = "ok" /\ pc = "await_shop" => schema'["shop"] >= version[n]
  PROVE  RIInv'
<1>0. RTypeOK /\ WorkflowConsistent /\ Quiesced /\ CountsRestored /\ VersionDeployed
  BY DEF RIInv
<1>1. Configured' = Configured /\ \A s \in Services : Slots(s)' = Slots(s)
  BY FleetSame
<1>2. RTypeOK'
  BY <1>0, <1>1 DEF RTypeOK
<1>3. WorkflowConsistent'
  BY <1>0 DEF WorkflowConsistent
<1>4. ASSUME NEW s \in Services, NEW x \in Live(s)'
      PROVE  /\ x \in Slots(s) /\ tasks'[s][x] # None
              /\ \/ x \in Live(s) /\ Kept(s, x) /\ (x \in Fresh(s)' <=> x \in Fresh(s))
                 \/ tasks'[s][x] = NewTask(s, None) /\ spec[s] > 0 /\ x \in Fresh(s)'
  <2>1. x \in Slots(s) /\ tasks'[s][x] # None /\ tasks'[s][x].job = None /\ tasks'[s][x].state # "stopping"
    BY <1>1, <1>4 DEF Live, Tasks, Running
  <2>2. CASE Kept(s, x) /\ (tasks'[s][x] # None => tasks'[s][x].fresh = tasks[s][x].fresh)
    BY <1>1, <2>1, <2>2 DEF Kept, Live, Fresh, Tasks, Running
  <2>3. CASE tasks'[s][x] = NewTask(s, None) /\ spec[s] > 0
    <3>1. tasks'[s][x].fresh
      BY <2>3 DEF NewTask
    <3> QED
      BY <1>4, <2>1, <2>3, <3>1 DEF Fresh
  <2> QED
    BY <2>1, <2>2, <2>3
<1>5. Quiesced'
  <2>1. ASSUME NEW s \in Services, Live(s) \subseteq Fresh(s)
        PROVE  Live(s)' \subseteq Fresh(s)'
    BY <1>1, <1>4, <2>1
  <2> QED
    BY <1>0, <2>1 DEF Quiesced
<1>6. CountsRestored'
  BY <1>0, <1>1 DEF CountsRestored, LateFailed, CheckFailed
<1>7. VersionDeployed'
  <2>1. Succeeding' <=> Succeeding
    BY DEF Succeeding
  <2>2. n \in Nat /\ \A s \in Services : spec[s] \in Nat /\ schema[s] \in Nat /\ schema'[s] \in Nat
    BY <1>0 DEF RTypeOK, Counts
  <2>3. (pc \in Late \/ Succeeding) => version[n] \in Nat
    <3>1. (pc \in Late \/ Succeeding) => n \in Runs
      BY <1>0 DEF WorkflowConsistent, RTypeOK, Runs, Succeeding, Late, Restoring
    <3> QED
      BY <1>0, <3>1 DEF RTypeOK
  <2>4. \A s \in Services : (pc \in Late \/ Succeeding) /\ schema[s] >= version[n] => schema'[s] >= version[n]
    BY <2>2, <2>3
  <2>5. ASSUME NEW s \in Services, spec[s] > 0
        PROVE  /\ NewTask(s, None).run = spec[s] /\ spec[s] \in 1 .. n
               /\ Succeeding => NewTask(s, None).secrets = n /\ NewTask(s, None).parameters = n
    <3>1. spec[s] = at[s] /\ at[s] <= n /\ (Succeeding => \A r \in Resources : at[r] = n)
      BY <1>0 DEF VersionDeployed, Resources
    <3> QED
      BY <2>2, <2>5, <3>1 DEF NewTask, Resources
  <2>6. ASSUME NEW s \in Services
        PROVE  /\ \A x \in Slots(s) : tasks'[s][x] # None => tasks'[s][x].run \in 1 .. n
               /\ \A x \in Fresh(s)' : tasks'[s][x].run = spec[s]
               /\ Succeeding /\ s \in Redeployed =>
                    \A x \in Fresh(s)' : tasks'[s][x].secrets = n /\ tasks'[s][x].parameters = n
               /\ Succeeding /\ pc \in {"smoke", "idle"} => Live(s)' \subseteq Fresh(s)'
    <3>1. ASSUME NEW x \in Slots(s), tasks'[s][x] # None
          PROVE  tasks'[s][x].run \in 1 .. n
      BY <1>0, <2>5, <3>1 DEF VersionDeployed, Kept
    <3>2. ASSUME NEW x \in Fresh(s)'
          PROVE  /\ tasks'[s][x].run = spec[s]
                 /\ Succeeding /\ s \in Redeployed =>
                      tasks'[s][x].secrets = n /\ tasks'[s][x].parameters = n
      <4>1. x \in Live(s)'
        BY <3>2 DEF Fresh
      <4>2. CASE x \in Live(s) /\ Kept(s, x) /\ x \in Fresh(s)
        BY <1>0, <1>4, <4>1, <4>2 DEF VersionDeployed, Kept
      <4>3. CASE tasks'[s][x] = NewTask(s, None) /\ spec[s] > 0
        BY <2>5, <4>3
      <4> QED
        BY <1>4, <3>2, <4>1, <4>2, <4>3
    <3>3. Succeeding /\ pc \in {"smoke", "idle"} => Live(s)' \subseteq Fresh(s)'
      <4>1. Succeeding /\ pc \in {"smoke", "idle"} => Live(s) \subseteq Fresh(s)
        BY <1>0 DEF VersionDeployed
      <4> QED
        BY <1>4, <4>1
    <3> QED
      BY <3>1, <3>2, <3>3
  <2>7. /\ \A r \in Resources : at'[r] <= n'
        /\ \A s \in Services : spec'[s] = at'[s]
    BY <1>0 DEF VersionDeployed
  <2>8. pc \in {"capture", "post_check"} \cup Post \cup Late \/ Succeeding => \A r \in Resources : at[r] = n
    BY <1>0 DEF VersionDeployed
  <2>9. /\ pc = "await_payments" /\ result' = "ok" => schema'["payments"] >= version[n]
        /\ pc = "await_shop" /\ result' = "ok" => schema'["shop"] >= version[n]
    BY <1>0, <2>4 DEF VersionDeployed, Late, Services
  <2>10. /\ pc \in {"migrate_shop", "await_shop", "seed", "await_seed", "checked"} /\ ~initFailed =>
              schema'["payments"] >= version[n]
         /\ pc \in {"seed", "await_seed", "checked"} /\ ~initFailed => schema'["shop"] >= version[n]
         /\ Succeeding => \A s \in Services : schema'[s] >= version[n]
    BY <1>0, <2>4 DEF VersionDeployed, Late, Services
  <2>11. Redeployed' = Redeployed
    BY DEF Redeployed
  <2> QED
    BY <1>0, <1>1, <2>1, <2>6, <2>7, <2>8, <2>9, <2>10, <2>11 DEF VersionDeployed
<1> QED
  BY <1>2, <1>3, <1>5, <1>6, <1>7 DEF RIInv

\* One slot is emptied or filled.
LEMMA SlotSet ==
  ASSUME RTypeOK, NEW s \in Services, NEW x \in Slots(s), NEW t \in Task \cup {None},
         tasks' = [tasks EXCEPT ![s][x] = t]
  PROVE  /\ DOMAIN tasks' = Services
         /\ \A q \in Services : tasks'[q] \in [Slots(q) -> Task \cup {None}]
         /\ tasks'[s][x] = t
         /\ \A q \in Services : \A y \in Slots(q) : (q # s \/ y # x) => tasks'[q][y] = tasks[q][y]
<1>1. DOMAIN tasks' = Services /\ tasks'[s] = [tasks[s] EXCEPT ![x] = t]
      /\ \A q \in Services \ {s} : tasks'[q] = tasks[q]
  BY DEF RTypeOK
<1>2. tasks[s] \in [Slots(s) -> Task \cup {None}]
  BY DEF RTypeOK
<1>3. tasks'[s] \in [Slots(s) -> Task \cup {None}] /\ tasks'[s][x] = t
      /\ \A y \in Slots(s) \ {x} : tasks'[s][y] = tasks[s][y]
  BY <1>1, <1>2
<1> QED
  BY <1>1, <1>3 DEF RTypeOK

LEMMA NewTaskType ==
  ASSUME RTypeOK, NEW s \in Services, NEW job \in {None, "migrate", "seed"}
  PROVE  NewTask(s, job) \in Task
BY DEF RTypeOK, NewTask, Task, Counts, Resources

\* A task of a service gets another state.
LEMMA StateSet ==
  ASSUME RTypeOK, NEW s \in Services, NEW x \in Tasks(s), NEW state \in {"running", "stopping"},
         state = "running" => x \in Live(s),
         tasks' = [tasks EXCEPT ![s][x].state = state]
  PROVE  /\ DOMAIN tasks' = Services
         /\ \A q \in Services :
              /\ tasks'[q] \in [Slots(q) -> Task \cup {None}]
              /\ \A y \in Slots(q) :
                   Kept(q, y) /\ (tasks'[q][y] # None => tasks'[q][y].fresh = tasks[q][y].fresh)
<1>1. x \in Slots(s) /\ tasks[s][x] # None /\ tasks[s][x] \in Task
  BY DEF Tasks, Running, RTypeOK
<1> DEFINE t == [tasks[s][x] EXCEPT !.state = state]
<1>2. /\ t \in Task /\ t.run = tasks[s][x].run /\ t.secrets = tasks[s][x].secrets
      /\ t.parameters = tasks[s][x].parameters /\ t.fresh = tasks[s][x].fresh
      /\ t.job = tasks[s][x].job /\ t.state = state
  BY <1>1 DEF Task
<1>3. tasks' = [tasks EXCEPT ![s][x] = t]
  OBVIOUS
<1> HIDE DEF t
<1>4. /\ DOMAIN tasks' = Services
      /\ \A q \in Services : tasks'[q] \in [Slots(q) -> Task \cup {None}]
      /\ tasks'[s][x] = t
      /\ \A q \in Services : \A y \in Slots(q) : (q # s \/ y # x) => tasks'[q][y] = tasks[q][y]
  BY <1>1, <1>2, <1>3, SlotSet
<1>5. t.state # "stopping" => tasks[s][x].state # "stopping"
  BY <1>2 DEF Live
<1> QED
  BY <1>1, <1>2, <1>4, <1>5 DEF Kept

\* ECS starts, stops and loses tasks, and a host joins.
LEMMA SchedulerKeeps ==
  ASSUME RIInv,
         \/ \E s \in Services :
              StartTask(s) \/ TaskRuns(s) \/ StopTask(s) \/ TaskStopped(s) \/ TaskDies(s)
         \/ \E h \in Hosts : HostJoins(h)
  PROVE  RIInv'
<1>0. RTypeOK /\ schema \in Counts /\ \A s \in Services : schema[s] <= schema[s]
  BY DEF RIInv, RTypeOK, Counts
<1>1. /\ UNCHANGED <<fleet, n, version, pre, post, saved, outputs, initFailed, pc, failed, cause,
                     at, spec, desired, schema, result>>
  BY DEF StartTask, TaskRuns, StopTask, TaskStopped, TaskDies, HostJoins, jobVars, runVars, stackVars
<1>2. ASSUME NEW s \in Services, StartTask(s)
      PROVE  RIInv'
  <2>1. PICK x \in Free(s) : tasks' = [tasks EXCEPT ![s][x] = NewTask(s, None)]
    BY <1>2 DEF StartTask
  <2>2. x \in Slots(s) /\ NewTask(s, None) \in Task
    BY <1>0, NewTaskType DEF Free
  <2>3. spec[s] > 0
    BY <1>2 DEF StartTask
  <2> HIDE DEF NewTask
  <2> QED
    BY <1>0, <1>1, <2>1, <2>2, <2>3, SlotSet, EcsKeeps DEF RTypeOK, Kept
<1>3. ASSUME NEW s \in Services, NEW x \in Slots(s), tasks' = [tasks EXCEPT ![s][x] = None]
      PROVE  RIInv'
  BY <1>0, <1>1, <1>3, SlotSet, EcsKeeps DEF RTypeOK, Kept
<1>4. ASSUME UNCHANGED tasks
      PROVE  RIInv'
  BY <1>0, <1>1, <1>4, EcsKeeps DEF RTypeOK, Kept
<1>5. ASSUME NEW s \in Services, TaskStopped(s) \/ TaskDies(s)
      PROVE  RIInv'
  BY <1>3, <1>5 DEF TaskStopped, TaskDies, Tasks, Running
<1>6. ASSUME NEW s \in Services, TaskRuns(s) \/ StopTask(s)
      PROVE  RIInv'
  <2>1. PICK x \in Live(s), state \in {"running", "stopping"} :
          tasks' = [tasks EXCEPT ![s][x].state = state]
    BY <1>6 DEF TaskRuns, StopTask
  <2>2. x \in Tasks(s)
    BY DEF Live
  <2> QED
    BY <1>0, <1>1, <2>1, <2>2, StateSet, EcsKeeps DEF RTypeOK
<1> QED
  BY <1>2, <1>4, <1>5, <1>6 DEF HostJoins

\* A migration or the seed ends.
LEMMA JobEndsKeeps ==
  ASSUME RIInv, NEW s \in Services, JobEnds(s)
  PROVE  RIInv'
<1>0. RTypeOK /\ VersionDeployed /\ WorkflowConsistent
  BY DEF RIInv
<1>1. PICK x \in Slots(s) :
        /\ tasks[s][x] # None /\ tasks[s][x].job # None
        /\ tasks' = [tasks EXCEPT ![s][x] = None]
        /\ \E ok \in BOOLEAN :
             /\ schema' = [schema EXCEPT ![s] =
                  IF ok /\ tasks[s][x].job = "migrate" /\ version[tasks[s][x].run] > @
                    THEN version[tasks[s][x].run] ELSE @]
             /\ result' = IF Awaited(s, tasks[s][x]) THEN (IF ok THEN "ok" ELSE "failed") ELSE result
        /\ UNCHANGED <<fleet, n, version, pre, post, saved, outputs, initFailed, pc, failed, cause,
                       at, spec, desired>>
  BY DEF JobEnds, stackVars
<1>2. PICK ok \in BOOLEAN :
        /\ schema' = [schema EXCEPT ![s] =
             IF ok /\ tasks[s][x].job = "migrate" /\ version[tasks[s][x].run] > @
               THEN version[tasks[s][x].run] ELSE @]
        /\ result' = IF Awaited(s, tasks[s][x]) THEN (IF ok THEN "ok" ELSE "failed") ELSE result
  BY <1>1
<1>3. tasks[s][x].run \in 1 .. n /\ n \in 0 .. MaxDeploys
  BY <1>0, <1>1 DEF VersionDeployed, RTypeOK
<1>4. tasks[s][x].run \in Runs
  BY <1>3, ReleaseAssumption DEF Runs
<1>5. version[tasks[s][x].run] \in Nat /\ schema[s] \in Nat
  BY <1>0, <1>4 DEF RTypeOK, Counts
<1>6. /\ schema' \in Counts /\ \A q \in Services : schema[q] <= schema'[q]
      /\ ok /\ tasks[s][x].job = "migrate" => schema'[s] >= version[tasks[s][x].run]
  <2>1. CASE ok /\ tasks[s][x].job = "migrate" /\ version[tasks[s][x].run] > schema[s]
    BY <1>0, <1>2, <1>5, <2>1 DEF RTypeOK, Counts
  <2>2. CASE ~(ok /\ tasks[s][x].job = "migrate" /\ version[tasks[s][x].run] > schema[s])
    <3>1. schema' = schema
      BY <1>0, <1>2, <2>2 DEF RTypeOK, Counts
    <3>2. ok /\ tasks[s][x].job = "migrate" => schema[s] >= version[tasks[s][x].run]
      BY <1>5, <2>2
    <3> QED
      BY <1>0, <3>1, <3>2 DEF RTypeOK, Counts
  <2> QED
    BY <2>1, <2>2
<1>7. result' \in {None, "ok", "failed"}
  BY <1>0, <1>2 DEF RTypeOK
<1>8. result' # result =>
           /\ pc \in DOMAIN Awaiting
           /\ result' = "ok" /\ pc = "await_payments" => schema'["payments"] >= version[n]
           /\ result' = "ok" /\ pc = "await_shop" => schema'["shop"] >= version[n]
  <2> SUFFICES ASSUME result' # result
               PROVE  /\ pc \in DOMAIN Awaiting
                      /\ result' = "ok" /\ pc = "await_payments" => schema'["payments"] >= version[n]
                      /\ result' = "ok" /\ pc = "await_shop" => schema'["shop"] >= version[n]
    OBVIOUS
  <2>1. /\ pc \in DOMAIN Awaiting /\ Awaiting[pc] = <<s, tasks[s][x].job>> /\ tasks[s][x].run = n
        /\ result' = "ok" => ok
    BY <1>2 DEF Awaited
  <2>2. pc = "await_payments" => s = "payments" /\ tasks[s][x].job = "migrate"
    BY <2>1, AwaitingFacts
  <2>3. pc = "await_shop" => s = "shop" /\ tasks[s][x].job = "migrate"
    BY <2>1, AwaitingFacts
  <2> QED
    BY <1>6, <2>1, <2>2, <2>3
<1>9. /\ DOMAIN tasks' = Services
      /\ \A q \in Services :
           /\ tasks'[q] \in [Slots(q) -> Task \cup {None}]
           /\ \A y \in Slots(q) :
                Kept(q, y) /\ (tasks'[q][y] # None => tasks'[q][y].fresh = tasks[q][y].fresh)
  <2>1. /\ DOMAIN tasks' = Services
        /\ \A q \in Services : tasks'[q] \in [Slots(q) -> Task \cup {None}]
        /\ tasks'[s][x] = None
        /\ \A q \in Services : \A y \in Slots(q) : (q # s \/ y # x) => tasks'[q][y] = tasks[q][y]
    <3>1. tasks' = [tasks EXCEPT ![s][x] = None] /\ None \in Task \cup {None}
      BY <1>1
    <3> HIDE <1>1
    <3> QED
      BY <1>0, <3>1, SlotSet
  <2> QED
    BY <2>1 DEF Kept
<1>10. UNCHANGED <<fleet, n, version, pre, post, saved, outputs, initFailed, pc, failed, cause,
                   at, spec, desired>>
  BY <1>1
<1> QED
  BY <1>6, <1>7, <1>8, <1>9, <1>10, EcsKeeps

\* The instance refresh takes a host with what runs on it.
LEMMA ReplaceHostKeeps ==
  ASSUME RIInv, NEW h \in Hosts, ReplaceHost(h)
  PROVE  RIInv'
<1>0. RTypeOK /\ schema \in Counts /\ \A s \in Services : schema[s] <= schema[s]
  BY DEF RIInv, RTypeOK, Counts
<1>1. UNCHANGED <<fleet, n, version, pre, post, saved, outputs, initFailed, pc, failed, cause,
                  at, spec, desired, schema>>
  BY DEF ReplaceHost, stackVars
<1>2. DOMAIN tasks' = Services
      /\ \A s \in Services : tasks'[s] = [x \in Slots(s) |-> IF x[1] = h THEN None ELSE tasks[s][x]]
  BY DEF ReplaceHost
<1>3. \A s \in Services : /\ tasks'[s] \in [Slots(s) -> Task \cup {None}]
                          /\ \A x \in Slots(s) :
                               /\ Kept(s, x)
                               /\ tasks'[s][x] # None => tasks'[s][x].fresh = tasks[s][x].fresh
  BY <1>0, <1>2 DEF RTypeOK, Kept
<1>4. /\ result' \in {None, "ok", "failed"}
      /\ result' # result => pc \in DOMAIN Awaiting /\ result' = "failed"
  BY <1>0 DEF RTypeOK, ReplaceHost, Awaited
<1> QED
  BY <1>0, <1>1, <1>2, <1>3, <1>4, EcsKeeps

-----------------------------------------------------------------------------
(* The workflow *)

\* Services that have their saved counts, one by one and together.
LEMMA CountsEqual ==
  ASSUME RTypeOK, saved # None, desired["payments"] = saved["payments"], desired["shop"] = saved["shop"]
  PROVE  desired = saved
<1>1. desired \in [Services -> Nat] /\ saved \in [Services -> Nat]
  BY DEF RTypeOK, Counts
<1>2. \A s \in Services : desired[s] = saved[s]
  BY DEF Services
<1> QED
  BY <1>1, <1>2

\* A step of the workflow fails.
LEMMA FailKeeps ==
  ASSUME RIInv, Fail, pc \notin {"idle"} \cup DOMAIN Awaiting,
         UNCHANGED <<fleet, n, version, pre, post, saved, initFailed, result, at, spec, desired,
                     tasks, schema>>,
         outputs' \in BOOLEAN, outputs => outputs'
  PROVE  RIInv'
<1>0. RTypeOK /\ WorkflowConsistent /\ Quiesced /\ CountsRestored /\ VersionDeployed
  BY DEF RIInv
<1>1. Configured' = Configured /\ \A s \in Services : Slots(s)' = Slots(s)
  BY FleetSame
<1>2. /\ failed' = TRUE /\ pc' \in {"restore_payments", "idle"}
      /\ pc' = "restore_payments" => MayRestore /\ pc \notin Restoring \cup {"smoke"}
      /\ MayRestore /\ pc \notin Restoring \cup {"smoke"} => pc' = "restore_payments"
  BY DEF Fail, Restoring
<1>3. \/ cause' = cause /\ failed /\ pc = "stable"
      \/ cause' = pc /\ ~(failed /\ pc = "stable")
  BY DEF Fail
<1>4. RTypeOK'
  <2>1. cause' \in Steps \cup {None, "lost"} /\ pc' \in Steps /\ failed' \in BOOLEAN
    BY <1>0, <1>2, <1>3 DEF RTypeOK, Steps, Restoring
  <2> QED
    BY <1>0, <1>1, <2>1 DEF RTypeOK
<1>5. WorkflowConsistent'
  <2>1. cause' # None
    BY <1>0, <1>3, NoneFacts DEF RTypeOK, WorkflowConsistent
  <2>2. n > 0 /\ result = None
    BY <1>0 DEF WorkflowConsistent
  <2>3. MayRestore => saved # None
    BY <1>0 DEF WorkflowConsistent, MayRestore
  <2>4. pre \/ post => saved # None
    BY <1>0 DEF WorkflowConsistent
  <2> QED
    BY <1>2, <2>1, <2>2, <2>3, <2>4 DEF WorkflowConsistent, Late, Pre, Restoring
<1>6. Quiesced'
  BY <1>2 DEF Quiesced, Late
<1>7. CountsRestored'
  <2>1. SUFFICES /\ LateFailed' => saved = Configured
                 /\ LateFailed' \/ CheckFailed' =>
                      /\ pc' = "restore_payments" => outputs'
                      /\ pc' = "idle" => desired = saved
    BY <1>1, <1>2 DEF CountsRestored, Post, Late, Restoring
  <2>2. CASE failed /\ pc = "stable"
    <3>1. pc' = "idle" /\ (LateFailed' <=> LateFailed) /\ (CheckFailed' <=> CheckFailed)
      BY <1>2, <1>3, <2>2 DEF LateFailed, CheckFailed, Restoring
    <3>2. saved # None
      BY <1>0, <2>2 DEF WorkflowConsistent, Restoring
    <3>3. LateFailed => saved = Configured
      BY <1>0, <2>2 DEF CountsRestored, Restoring
    <3>4. LateFailed \/ CheckFailed => desired = saved
      BY <1>0, <2>2, <3>2, CountsEqual DEF CountsRestored
    <3> QED
      BY <3>1, <3>3, <3>4
  <2>3. CASE ~(failed /\ pc = "stable")
    <3>1. cause' = pc /\ pre' = pre
      BY <1>3, <2>3
    <3>2. CASE pc \in {"stable", "smoke"}
      <4>1. ~failed /\ saved = Configured
        BY <1>0, <2>3, <3>2 DEF WorkflowConsistent, Restoring, CountsRestored
      <4>2. Configured # None
        BY <1>0, ReleaseAssumption DEF RTypeOK, Configured, Counts
      <4>3. desired = saved
        BY <1>0, <3>2, <4>1, <4>2, CountsEqual DEF CountsRestored
      <4> QED
        BY <1>2, <3>2, <4>1, <4>3 DEF Restoring
    <3>3. CASE pc \in Late \/ (pc \in {"post_check"} \cup Post /\ pre)
      <4>1. pc' = "restore_payments" /\ outputs'
        BY <1>0, <1>2, <3>3 DEF MayRestore, WorkflowConsistent, CountsRestored, Late, Post, Restoring
      <4>2. LateFailed' => saved = Configured
        BY <1>0, <3>1, <3>3 DEF LateFailed, CountsRestored, Late, Post
      <4> QED
        BY <4>1, <4>2
    <3> QED
      BY <3>1, <3>2, <3>3 DEF LateFailed, CheckFailed
  <2> QED
    BY <2>2, <2>3
<1>8. VersionDeployed'
  <2>1. ~Succeeding'
    BY <1>2 DEF Succeeding
  <2>2. \A s \in Services : Fresh(s)' = Fresh(s)
    BY <1>0, UnchangedTasks
  <2> QED
    BY <1>0, <1>1, <1>2, <2>1, <2>2 DEF VersionDeployed, Post, Late
<1> QED
  BY <1>4, <1>5, <1>6, <1>7, <1>8 DEF RIInv

\* The runner is gone, and nothing restores.
LEMMA RunnerLostKeeps ==
  ASSUME RIInv, RunnerLost
  PROVE  RIInv'
<1>0. RTypeOK /\ WorkflowConsistent /\ Quiesced /\ CountsRestored /\ VersionDeployed
  BY DEF RIInv
<1>1. /\ pc # "idle" /\ pc' = "idle" /\ failed' = TRUE /\ cause' = "lost"
      /\ UNCHANGED <<fleet, n, version, pre, post, saved, outputs, initFailed, result, at, spec,
                     desired, tasks, schema>>
  BY DEF RunnerLost, runVars, stackVars, ecsVars
<1>2. Configured' = Configured /\ \A s \in Services : Slots(s)' = Slots(s)
  BY <1>1, FleetSame
<1>3. RTypeOK'
  BY <1>0, <1>1, <1>2 DEF RTypeOK, Steps
<1>4. WorkflowConsistent'
  BY <1>0, <1>1, NoneFacts DEF WorkflowConsistent, Late, Pre, Restoring
<1>5. Quiesced'
  BY <1>1 DEF Quiesced, Late
<1>6. CountsRestored'
  <2>1. ~LateFailed' /\ ~CheckFailed'
    BY <1>1 DEF LateFailed, CheckFailed, Late, Post
  <2> QED
    BY <1>1, <2>1 DEF CountsRestored, Post, Late
<1>7. VersionDeployed'
  <2>1. \A s \in Services : Fresh(s)' = Fresh(s)
    BY <1>0, <1>1, UnchangedTasks
  <2> QED
    BY <1>0, <1>1, <1>2, <2>1 DEF VersionDeployed, Succeeding, Post, Late
<1> QED
  BY <1>3, <1>4, <1>5, <1>6, <1>7 DEF RIInv

\* Before the update is applied the invariant says little.
LEMMA EarlyKeeps ==
  ASSUME RTypeOK', WorkflowConsistent', pc' \in {"read", "apply"} \cup Pre,
         \A r \in Resources : at'[r] <= n',
         \A s \in Services : spec'[s] = at'[s],
         \A s \in Services : \A x \in Slots(s)' : tasks'[s][x] # None => tasks'[s][x].run \in 1 .. n',
         \A s \in Services : \A x \in Fresh(s)' : tasks'[s][x].run = spec'[s]
  PROVE  RIInv'
<1>1. ~failed' /\ pc' \notin {"capture", "post_check", "idle", "smoke"} \cup Post \cup Late \cup Restoring
  BY DEF WorkflowConsistent, Pre, Post, Late, Restoring
<1>2. Quiesced'
  BY <1>1 DEF Quiesced, Post
<1>3. CountsRestored'
  BY <1>1 DEF CountsRestored, Restoring
<1>4. VersionDeployed'
  BY <1>1 DEF VersionDeployed, Succeeding, Late
<1> QED
  BY <1>2, <1>3, <1>4 DEF RIInv

\* A run begins.
LEMMA TriggerKeeps ==
  ASSUME RIInv, Trigger
  PROVE  RIInv'
<1>0. RTypeOK /\ WorkflowConsistent /\ VersionDeployed
  BY DEF RIInv
<1>1. /\ n < MaxDeploys /\ n' = n + 1
      /\ pc' = "read" /\ failed' = FALSE /\ cause' = None /\ pre' = FALSE /\ post' = FALSE
      /\ saved' = None /\ outputs' = FALSE /\ initFailed' = FALSE /\ result' = None
      /\ UNCHANGED <<fleet, at, spec, desired, tasks, schema>>
  BY DEF Trigger, stackVars, ecsVars
<1>2. \A s \in Services : Slots(s)' = Slots(s)
  BY <1>1, FleetSame
<1>3. n \in Nat /\ n' \in 0 .. MaxDeploys /\ n' > 0
  BY <1>0, <1>1, ReleaseAssumption DEF RTypeOK
<1>4. version' \in [Runs -> Nat]
  <2>1. PICK v \in (IF fleet.stack = "stage" THEN {n + 1} ELSE 1 .. n + 1) :
          version' = [version EXCEPT ![n + 1] = v]
    BY DEF Trigger
  <2>2. v \in Nat
    BY <1>3, <2>1
  <2> QED
    BY <1>0, <2>1, <2>2 DEF RTypeOK
<1>5. RTypeOK'
  BY <1>0, <1>1, <1>2, <1>3, <1>4 DEF RTypeOK, Steps
<1>6. WorkflowConsistent'
  BY <1>1, <1>3 DEF WorkflowConsistent, Late, Pre, Restoring
<1>7. /\ \A r \in Resources : at'[r] <= n'
      /\ \A s \in Services : spec'[s] = at'[s]
      /\ \A s \in Services : \A x \in Slots(s)' : tasks'[s][x] # None => tasks'[s][x].run \in 1 .. n'
      /\ \A s \in Services : \A x \in Fresh(s)' : tasks'[s][x].run = spec'[s]
  <2>1. \A r \in Resources : at[r] \in Nat /\ at[r] <= n
    BY <1>0 DEF RTypeOK, VersionDeployed
  <2>2. 1 .. n \subseteq 1 .. n'
    BY <1>1, <1>3
  <2>3. \A s \in Services : Fresh(s)' = Fresh(s)
    BY <1>0, <1>1, UnchangedTasks
  <2> QED
    BY <1>0, <1>1, <1>2, <1>3, <2>1, <2>2, <2>3 DEF VersionDeployed
<1> QED
  BY <1>1, <1>5, <1>6, <1>7, EarlyKeeps

\* The outputs are read, the services scaled down, the first wait ends well.
LEMMA PreStepsKeep ==
  ASSUME RIInv,
         \/ ReadOutputs
         \/ ScaleDown("payments", "pre_payments", "pre_shop")
         \/ ScaleDown("shop", "pre_shop", "pre_wait")
         \/ PreQuiesced /\ pc' = "apply"
  PROVE  RIInv'
<1>0. RTypeOK /\ WorkflowConsistent /\ VersionDeployed
  BY DEF RIInv
<1> DEFINE Facts ==
      /\ pc \in {"read"} \cup Pre /\ pc' \in {"apply"} \cup Pre
      /\ saved' \in {saved, desired} /\ (pc = "read" /\ pc' \in Pre => saved' = desired)
      /\ pre' \in BOOLEAN /\ (pre' => pre \/ pc \in Pre) /\ (pc \in Pre => saved' = saved)
      /\ UNCHANGED <<fleet, n, version, post, outputs, initFailed, result, at, spec, tasks, schema>>
      /\ desired' \in {desired, [desired EXCEPT !["payments"] = 0], [desired EXCEPT !["shop"] = 0]}
      /\ UNCHANGED <<failed, cause>>
<1>1. Facts
  <2>1. CASE ReadOutputs
    <3>1. CASE exported
      BY <1>0, <2>1, <3>1 DEF RTypeOK, ReadOutputs, Go, stackVars, ecsVars, Pre
    <3>2. CASE ~exported
      BY <1>0, <2>1, <3>2 DEF RTypeOK, ReadOutputs, Go, stackVars, ecsVars, Pre
    <3> QED
      BY <3>1, <3>2
  <2>2. CASE ScaleDown("payments", "pre_payments", "pre_shop")
    BY <1>0, <2>2 DEF RTypeOK, ScaleDown, Go, runVars, stackVars, Pre
  <2>3. CASE ScaleDown("shop", "pre_shop", "pre_wait")
    BY <1>0, <2>3 DEF RTypeOK, ScaleDown, Go, runVars, stackVars, Pre
  <2>4. CASE PreQuiesced /\ pc' = "apply"
    <3>1. ~Fail
      BY <2>4 DEF Fail
    <3>2. pc = "pre_wait" /\ Go("apply") /\ pre' = TRUE
      BY <2>4, <3>1 DEF PreQuiesced
    <3> QED
      BY <2>4, <3>2 DEF PreQuiesced, Go, stackVars, ecsVars, Pre
  <2> QED
    BY <2>1, <2>2, <2>3, <2>4
<1>3. \A s \in Services : Slots(s)' = Slots(s)
  BY <1>1, FleetSame
<1>4. desired \in Counts /\ desired' \in Counts /\ desired # None
  BY <1>0, <1>1, NoneFacts DEF RTypeOK, Counts
<1>5. RTypeOK'
  BY <1>0, <1>1, <1>3, <1>4 DEF RTypeOK, Steps, Pre
<1>6. WorkflowConsistent'
  <2>1. ~failed /\ n > 0 /\ result = None /\ cause = None
    BY <1>0, <1>1, AwaitingFacts DEF WorkflowConsistent, Pre, Restoring
  <2>2. pre' \/ post' \/ pc' \in Pre => saved' # None
    BY <1>0, <1>1, <1>4 DEF WorkflowConsistent
  <2> QED
    BY <1>1, <2>1, <2>2 DEF WorkflowConsistent, Pre, Late, Restoring
<1>7. /\ \A r \in Resources : at'[r] <= n'
      /\ \A s \in Services : spec'[s] = at'[s]
      /\ \A s \in Services : \A x \in Slots(s)' : tasks'[s][x] # None => tasks'[s][x].run \in 1 .. n'
      /\ \A s \in Services : \A x \in Fresh(s)' : tasks'[s][x].run = spec'[s]
  <2>1. \A s \in Services : Fresh(s)' = Fresh(s)
    BY <1>0, <1>1, UnchangedTasks
  <2> QED
    BY <1>0, <1>1, <1>3, <2>1 DEF VersionDeployed
<1> QED
  BY <1>1, <1>5, <1>6, <1>7, EarlyKeeps

\* Pulumi updates a resource.
LEMMA PulumiUpKeeps ==
  ASSUME RIInv, PulumiUp
  PROVE  RIInv'
<1>0. RTypeOK /\ WorkflowConsistent /\ VersionDeployed
  BY DEF RIInv
<1> DEFINE Facts(r) ==
      /\ pc = "apply" /\ at' = [at EXCEPT ![r] = n]
      /\ UNCHANGED <<fleet, n, version, pre, post, saved, outputs, initFailed, result, pc, failed,
                     cause, schema>>
<1>1. \A r \in Resources : Update(r) => Facts(r)
  BY DEF Update, jobVars, runVars
<1>2. PICK r \in Resources :
        /\ Facts(r) /\ SameTasks /\ desired' \in Counts
        /\ \/ r \notin Services /\ spec' = spec
           \/ r \in Services /\ spec' = [spec EXCEPT ![r] = n] /\ Fresh(r)' = {}
  <2>1. CASE \/ UpdateData \/ UpdateEdge \/ UpdateSecrets \/ UpdateParameters \/ UpdateCompute
    <3>1. UNCHANGED <<fleet, tasks, spec, desired>>
      BY <2>1 DEF Update, UpdateData, UpdateEdge, UpdateSecrets, UpdateParameters, UpdateCompute
    <3>5. SameTasks /\ desired' \in Counts /\ spec' = spec
      BY <1>0, <3>1, UnchangedTasks DEF RTypeOK
    <3>2. \E r \in {"data", "edge", "secrets", "parameters", "compute"} : Update(r)
      BY <2>1 DEF UpdateData, UpdateEdge, UpdateSecrets, UpdateParameters, UpdateCompute
    <3>3. PICK r \in {"data", "edge", "secrets", "parameters", "compute"} : Update(r)
      BY <3>2
    <3>4. r \in Resources /\ r \notin Services
      BY <3>3 DEF Resources, Services
    <3> QED
      BY <1>1, <3>3, <3>4, <3>5
  <2>2. CASE \E s \in Services : UpdateService(s)
    <3>1. PICK s \in Services : UpdateService(s)
      BY <2>2
    <3>2. Configured[s] \in Nat
      BY <1>0, ReleaseAssumption DEF RTypeOK, Configured
    <3>3. desired' \in Counts
      <4>1. PICK c \in (IF spec[s] = 0 THEN {} ELSE {desired[s]}) \cup {Configured[s]} :
              desired' = [desired EXCEPT ![s] = c]
        BY <3>1 DEF UpdateService
      <4>2. c \in Nat
        BY <1>0, <3>2, <4>1 DEF RTypeOK, Counts
      <4> QED
        BY <1>0, <4>1, <4>2 DEF RTypeOK, Counts
    <3>4. Update(s) /\ spec' = [spec EXCEPT ![s] = n] /\ tasks' = [tasks EXCEPT ![s] = Stale(s)]
      BY <3>1 DEF UpdateService
    <3>5. SameTasks /\ Fresh(s)' = {}
      BY <1>0, <3>4, StaleTasks DEF Update
    <3> QED
      BY <1>1, <3>3, <3>4, <3>5 DEF Resources
  <2> QED
    BY <2>1, <2>2 DEF PulumiUp
<1>3. \A s \in Services : Slots(s)' = Slots(s)
  BY <1>2, FleetSame
<1>4. n \in Nat /\ at' \in [Resources -> Nat] /\ spec' \in Counts
  BY <1>0, <1>2 DEF RTypeOK, Counts
<1>5. RTypeOK'
  BY <1>0, <1>2, <1>3, <1>4 DEF RTypeOK, SameTasks
<1>6. WorkflowConsistent'
  BY <1>0, <1>2 DEF WorkflowConsistent
<1>7. /\ \A q \in Resources : at'[q] <= n'
      /\ \A s \in Services : spec'[s] = at'[s]
  BY <1>0, <1>2, <1>4 DEF RTypeOK, VersionDeployed, Counts, Resources
<1>8. \A s \in Services : \A x \in Slots(s)' : tasks'[s][x] # None => tasks'[s][x].run \in 1 .. n'
  BY <1>0, <1>2, <1>3 DEF VersionDeployed, SameTasks, Kept
<1>9. ASSUME NEW s \in Services, NEW x \in Fresh(s)'
      PROVE  tasks'[s][x].run = spec'[s]
  <2>1. spec'[s] = spec[s]
    BY <1>0, <1>2, <1>9 DEF RTypeOK, Counts
  <2>2. x \in Fresh(s) /\ tasks'[s][x].run = tasks[s][x].run
    BY <1>2, <1>9, TasksSame
  <2> QED
    BY <1>0, <2>1, <2>2 DEF VersionDeployed
<1> QED
  BY <1>2, <1>5, <1>6, <1>7, <1>8, <1>9, EarlyKeeps

\* From the update to the first migration.
LEMMA MiddleKeeps ==
  ASSUME RTypeOK', WorkflowConsistent', Quiesced',
         pc' \in {"capture", "post_check", "hosts", "migrate_payments"} \cup Post,
         pc' # "capture" => outputs',
         pc' \notin {"capture", "post_check"} => saved' = Configured',
         \A r \in Resources : at'[r] = n',
         \A s \in Services : spec'[s] = at'[s],
         \A s \in Services : \A x \in Slots(s)' : tasks'[s][x] # None => tasks'[s][x].run \in 1 .. n',
         \A s \in Services : \A x \in Fresh(s)' : tasks'[s][x].run = spec'[s]
  PROVE  RIInv'
<1>1. /\ ~failed'
      /\ pc' \notin {"idle", "smoke", "await_payments", "migrate_shop", "await_shop", "seed",
                     "await_seed", "checked"} \cup Restoring
  BY DEF WorkflowConsistent, Post, Restoring
<1>2. CountsRestored'
  BY <1>1 DEF CountsRestored, Restoring, Post, Late
<1>3. VersionDeployed'
  <2>1. n' \in Nat
    BY DEF RTypeOK
  <2> QED
    BY <1>1, <2>1 DEF VersionDeployed, Succeeding
<1> QED
  BY <1>2, <1>3 DEF RIInv

\* The update is complete, its outputs are captured, the services are scaled
\* down again, and the hosts answer.
LEMMA MiddleStepsKeep ==
  ASSUME RIInv,
         \/ Applied
         \/ CaptureOutputs /\ pc' = "post_check"
         \/ CheckCounts
         \/ ScaleDown("payments", "post_payments", "post_shop")
         \/ ScaleDown("shop", "post_shop", "post_wait")
         \/ PostQuiesced /\ pc' = "hosts"
         \/ HostsReady
  PROVE  RIInv'
<1>0. RTypeOK /\ WorkflowConsistent /\ Quiesced /\ CountsRestored /\ VersionDeployed
  BY DEF RIInv
<1> DEFINE Same ==
      UNCHANGED <<fleet, n, version, pre, initFailed, result, at, spec, tasks, schema, failed, cause>>
<1>1. ASSUME Same
      PROVE  /\ Configured' = Configured
             /\ \A s \in Services :
                  /\ Slots(s)' = Slots(s) /\ Live(s)' = Live(s) /\ Fresh(s)' = Fresh(s)
                  /\ \A x \in Fresh(s) : tasks'[s][x].run = spec'[s]
  BY <1>0, <1>1, FleetSame, UnchangedTasks DEF VersionDeployed
<1>2. CASE Applied
  <2>1. /\ Same /\ UNCHANGED <<post, saved, outputs, desired>>
        /\ pc = "apply" /\ pc' = "capture" /\ \A r \in Resources : at[r] = n
    BY <1>2 DEF Applied, Go, runVars, ecsVars
  <2>2. \A s \in Services : Slots(s)' = Slots(s)
    BY <2>1, FleetSame
  <2>3. RTypeOK'
    BY <1>0, <2>1, <2>2 DEF RTypeOK, Steps
  <2>4. WorkflowConsistent'
    BY <1>0, <2>1, AwaitingFacts DEF WorkflowConsistent, Pre, Late, Restoring
  <2>5. Quiesced'
    BY <2>1 DEF Quiesced, Late
  <2> QED
    BY <1>0, <1>1, <2>1, <2>2, <2>3, <2>4, <2>5, MiddleKeeps DEF VersionDeployed
<1>3. CASE CaptureOutputs /\ pc' = "post_check"
  <2>1. ~Fail
    BY <1>3 DEF Fail
  <2>2. Same /\ UNCHANGED <<post, saved, desired>> /\ pc = "capture" /\ outputs' = TRUE
    BY <1>3, <2>1 DEF CaptureOutputs, Go, stackVars, ecsVars
  <2>3. RTypeOK'
    BY <1>0, <1>3, <1>1, <2>2 DEF RTypeOK, Steps
  <2>4. WorkflowConsistent'
    BY <1>0, <1>3, <2>2, AwaitingFacts DEF WorkflowConsistent, Pre, Late, Restoring
  <2>5. Quiesced'
    BY <1>3 DEF Quiesced, Late
  <2>6. \A r \in Resources : at[r] = n
    BY <1>0, <2>2 DEF VersionDeployed
  <2> QED
    BY <1>0, <1>3, <1>1, <2>2, <2>3, <2>4, <2>5, <2>6, MiddleKeeps DEF VersionDeployed
<1>4. CASE CheckCounts
  <2>1. /\ Same /\ UNCHANGED <<post, outputs, desired>>
        /\ pc = "post_check" /\ pc' = "post_payments" /\ saved' = Configured
    BY <1>4 DEF CheckCounts, Go, stackVars, ecsVars, PostCounts
  <2>2. Configured \in Counts
    BY <1>0, ReleaseAssumption DEF RTypeOK, Configured, Counts
  <2>3. RTypeOK'
    BY <1>0, <1>1, <2>1, <2>2 DEF RTypeOK, Steps, Post
  <2>4. WorkflowConsistent'
    BY <1>0, <2>1, <2>2, AwaitingFacts, NoneFacts DEF WorkflowConsistent, Pre, Late, Restoring
  <2>5. Quiesced'
    BY <2>1 DEF Quiesced, Late
  <2>6. (\A r \in Resources : at[r] = n) /\ outputs
    BY <1>0, <2>1 DEF VersionDeployed, CountsRestored
  <2> QED
    BY <1>0, <1>1, <2>1, <2>3, <2>4, <2>5, <2>6, MiddleKeeps DEF VersionDeployed, Post
<1>5. ASSUME NEW s \in Services,
             \/ ScaleDown(s, "post_payments", "post_shop") /\ s = "payments"
             \/ ScaleDown(s, "post_shop", "post_wait") /\ s = "shop"
      PROVE  RIInv'
  <2>1. /\ Same /\ UNCHANGED <<post, saved, outputs>> /\ desired' = [desired EXCEPT ![s] = 0]
        /\ \/ pc = "post_payments" /\ pc' = "post_shop" /\ s = "payments"
           \/ pc = "post_shop" /\ pc' = "post_wait" /\ s = "shop"
    BY <1>5 DEF ScaleDown, Go, runVars, stackVars
  <2>2. Configured' = Configured /\ \A q \in Services : Slots(q)' = Slots(q)
    BY <2>1, FleetSame
  <2>3. desired' \in Counts /\ desired'[s] = 0 /\ \A q \in Services \ {s} : desired'[q] = desired[q]
    BY <1>0, <2>1 DEF RTypeOK, Counts
  <2>4. RTypeOK'
    BY <1>0, <2>1, <2>2, <2>3 DEF RTypeOK, Steps, Post
  <2>5. WorkflowConsistent'
    BY <1>0, <2>1, AwaitingFacts DEF WorkflowConsistent, Pre, Late, Restoring
  <2>6. Quiesced'
    <3>1. pc' = "post_wait" => desired["payments"] = 0
      BY <1>0, <2>1 DEF Quiesced
    <3> QED
      BY <2>1, <2>3, <3>1 DEF Quiesced, Late, Services
  <2>7. (\A r \in Resources : at[r] = n) /\ outputs /\ saved = Configured
    BY <1>0, <2>1 DEF VersionDeployed, CountsRestored, Post
  <2> QED
    BY <1>0, <1>1, <2>1, <2>2, <2>4, <2>5, <2>6, <2>7, MiddleKeeps DEF VersionDeployed, Post
<1>6. CASE PostQuiesced /\ pc' = "hosts"
  <2>1. ~Fail
    BY <1>6 DEF Fail
  <2>2. /\ Same /\ UNCHANGED <<saved, outputs, desired>> /\ pc = "post_wait" /\ post' = TRUE
        /\ \A s \in Services : Stable(s)
    BY <1>6, <2>1 DEF PostQuiesced, Go, stackVars, ecsVars
  <2>3. Configured' = Configured /\ \A s \in Services : Slots(s)' = Slots(s)
    BY <2>2, FleetSame
  <2>4. RTypeOK'
    BY <1>0, <1>6, <2>2, <2>3 DEF RTypeOK, Steps, Late
  <2>5. (\A r \in Resources : at[r] = n) /\ outputs /\ saved = Configured /\ Configured \in Counts
    BY <1>0, <2>2, ReleaseAssumption DEF VersionDeployed, CountsRestored, Post, RTypeOK, Configured, Counts
  <2>6. WorkflowConsistent'
    BY <1>0, <1>6, <2>2, <2>5, AwaitingFacts, NoneFacts DEF WorkflowConsistent, Pre, Late, Restoring
  <2>7. Quiesced'
    <3>1. \A s \in Services : desired[s] = 0
      BY <1>0, <2>2 DEF Quiesced, Services
    <3>2. \A s \in Services : Live(s) \subseteq Fresh(s)
      BY <2>2 DEF Stable
    <3> QED
      BY <1>1, <2>2, <3>1, <3>2 DEF Quiesced, Services
  <2> QED
    BY <1>0, <1>6, <1>1, <2>2, <2>3, <2>4, <2>5, <2>6, <2>7, MiddleKeeps DEF VersionDeployed
<1>7. CASE HostsReady
  <2>1. /\ Same /\ UNCHANGED <<post, saved, outputs, desired>>
        /\ pc = "hosts" /\ pc' = "migrate_payments"
    BY <1>7 DEF HostsReady, Go, runVars, stackVars, ecsVars
  <2>2. Configured' = Configured /\ \A s \in Services : Slots(s)' = Slots(s)
    BY <2>1, FleetSame
  <2>3. RTypeOK'
    BY <1>0, <2>1, <2>2 DEF RTypeOK, Steps, Late
  <2>4. (\A r \in Resources : at[r] = n) /\ outputs /\ saved = Configured /\ post
    BY <1>0, <2>1 DEF VersionDeployed, CountsRestored, WorkflowConsistent, Late
  <2>5. WorkflowConsistent'
    BY <1>0, <2>1, <2>4, AwaitingFacts DEF WorkflowConsistent, Pre, Late, Restoring
  <2>6. Quiesced'
    <3>1. \A s \in Services : Live(s) \subseteq Fresh(s)
      BY <1>0, <2>1 DEF Quiesced, Late
    <3> QED
      BY <1>0, <1>1, <2>1, <3>1 DEF Quiesced, Late
  <2> QED
    BY <1>0, <1>1, <2>1, <2>2, <2>3, <2>4, <2>5, <2>6, MiddleKeeps DEF VersionDeployed
<1> QED
  BY <1>2, <1>3, <1>5, <1>6, <1>7, <1>4 DEF Services

\* A step behind the second quiesce: at most a one-off task is started, and
\* what the next steps take for migrated is.
LEMMA LateKeeps ==
  ASSUME RIInv, pc \in Late, pc' \in Late,
         UNCHANGED <<fleet, n, version, pre, post, saved, outputs, at, spec, desired, schema, failed,
                     cause>>,
         DOMAIN tasks' = Services,
         \A s \in Services :
           /\ tasks'[s] \in [Slots(s) -> Task \cup {None}]
           /\ \A x \in Slots(s) :
                \/ tasks'[s][x] = tasks[s][x]
                \/ \E job \in {"migrate", "seed"} : tasks'[s][x] = NewTask(s, job),
         result' = None, initFailed' \in BOOLEAN,
         pc' \in {"migrate_shop", "await_shop", "seed", "await_seed", "checked"} /\ ~initFailed' =>
           schema["payments"] >= version[n],
         pc' \in {"seed", "await_seed", "checked"} /\ ~initFailed' => schema["shop"] >= version[n]
  PROVE  RIInv'
<1>0. RTypeOK /\ WorkflowConsistent /\ Quiesced /\ CountsRestored /\ VersionDeployed
  BY DEF RIInv
<1>1. Configured' = Configured /\ \A s \in Services : Slots(s)' = Slots(s)
  BY FleetSame
<1>2. ~failed /\ ~failed' /\ n > 0 /\ n \in Nat
  BY <1>0 DEF WorkflowConsistent, RTypeOK, Late, Restoring
<1>3. RTypeOK'
  BY <1>0, <1>1 DEF RTypeOK, Steps
<1>4. WorkflowConsistent'
  <2>1. pc' # "idle" /\ pc' \notin Pre \cup Restoring /\ post
    BY <1>0 DEF WorkflowConsistent, Late, Pre, Restoring
  <2> QED
    BY <1>0, <1>2, <2>1 DEF WorkflowConsistent
<1>5. ASSUME NEW s \in Services, NEW x \in Live(s)'
      PROVE  x \in Live(s) /\ tasks'[s][x] = tasks[s][x] /\ (x \in Fresh(s) <=> x \in Fresh(s)')
  <2>1. x \in Slots(s) /\ tasks'[s][x].job = None
    BY <1>1, <1>5 DEF Live, Tasks, Running
  <2>2. \A job \in {"migrate", "seed"} : tasks'[s][x] # NewTask(s, job)
    <3>1. \A job : NewTask(s, job).job = job
      BY DEF NewTask
    <3> QED
      BY <2>1, <3>1, NoneFacts
  <2>3. tasks'[s][x] = tasks[s][x]
    BY <2>1, <2>2
  <2> QED
    BY <1>1, <1>5, <2>1, <2>3 DEF Live, Fresh, Tasks, Running
<1>6. Quiesced'
  <2>1. \A s \in Services : Live(s)' \subseteq Fresh(s)'
    BY <1>0, <1>5 DEF Quiesced
  <2>2. desired["payments"] = 0 /\ desired["shop"] = 0
    BY <1>0 DEF Quiesced
  <2> QED
    BY <2>1, <2>2 DEF Quiesced
<1>7. CountsRestored'
  <2>1. pc' \notin {"idle", "smoke"} \cup Restoring
    BY DEF Late, Restoring
  <2> QED
    BY <1>0, <1>1, <2>1 DEF CountsRestored, Restoring
<1>8. VersionDeployed'
  <2>1. \A r \in Resources : at[r] = n
    BY <1>0 DEF VersionDeployed
  <2>2. ASSUME NEW s \in Services, NEW x \in Slots(s), tasks'[s][x] # None
        PROVE  tasks'[s][x].run \in 1 .. n
    <3>1. CASE tasks'[s][x] = tasks[s][x]
      BY <1>0, <2>2, <3>1 DEF VersionDeployed
    <3>2. CASE \E job \in {"migrate", "seed"} : tasks'[s][x] = NewTask(s, job)
      <4>1. tasks'[s][x].run = spec[s]
        BY <3>2 DEF NewTask
      <4>2. spec[s] = n
        BY <1>0, <2>1 DEF VersionDeployed, Resources
      <4> QED
        BY <1>2, <4>1, <4>2
    <3> QED
      BY <2>2, <3>1, <3>2
  <2>3. ~Succeeding'
    BY DEF Succeeding, Late, Restoring
  <2>4. result' # "ok"
    BY NoneFacts
  <2>5. \A s \in Services : \A x \in Fresh(s)' : tasks'[s][x].run = spec[s]
    BY <1>0, <1>5 DEF VersionDeployed, Fresh
  <2> QED
    BY <1>0, <1>1, <1>2, <2>1, <2>2, <2>3, <2>4, <2>5 DEF VersionDeployed
<1> QED
  BY <1>3, <1>4, <1>6, <1>7, <1>8 DEF RIInv

\* A one-off task is started, or given up.
LEMMA RunJobKeeps ==
  ASSUME RIInv, NEW s \in Services, NEW step \in Late \ DOMAIN Awaiting, NEW job \in {"migrate", "seed"},
         NEW await \in Late, NEW next \in Late, RunJob(s, step, job, await, next),
         await \in {"await_shop", "await_seed"} /\ ~initFailed => schema["payments"] >= version[n],
         await = "await_seed" /\ ~initFailed => schema["shop"] >= version[n],
         await \in DOMAIN Awaiting
  PROVE  RIInv'
<1>0. RTypeOK /\ WorkflowConsistent
  BY DEF RIInv
<1>1. /\ pc = step
      /\ UNCHANGED <<fleet, n, version, pre, post, saved, outputs, at, spec, desired, schema, result>>
  BY DEF RunJob, stackVars
<1>2. UNCHANGED <<failed, cause>>
  BY DEF RunJob, Go
<1>3. result' = None
  <2>1. pc \notin DOMAIN Awaiting \cup {"idle"}
    BY <1>1 DEF Late
  <2> QED
    BY <1>0, <1>1, <2>1 DEF WorkflowConsistent
<1>4. CASE \E x \in Free(s) :
             tasks' = [tasks EXCEPT ![s][x] = NewTask(s, job)] /\ Go(await) /\ UNCHANGED initFailed
  <2>1. PICK x \in Free(s) :
          tasks' = [tasks EXCEPT ![s][x] = NewTask(s, job)] /\ Go(await) /\ UNCHANGED initFailed
    BY <1>4
  <2>2. x \in Slots(s) /\ NewTask(s, job) \in Task /\ pc' = await /\ initFailed' = initFailed
    BY <1>0, <2>1, NewTaskType DEF Free, Go
  <2>3. /\ DOMAIN tasks' = Services
        /\ \A q \in Services : tasks'[q] \in [Slots(q) -> Task \cup {None}]
        /\ tasks'[s][x] = NewTask(s, job)
        /\ \A q \in Services : \A y \in Slots(q) : (q # s \/ y # x) => tasks'[q][y] = tasks[q][y]
    <3> HIDE DEF NewTask
    <3>1. tasks' = [tasks EXCEPT ![s][x] = NewTask(s, job)]
      BY <2>1
    <3> QED
      BY <1>0, <2>2, <3>1, SlotSet
  <2>4. initFailed' \in BOOLEAN /\ pc' \in {"await_payments", "await_shop", "await_seed"}
    BY <1>0, <2>2, AwaitingFacts DEF RTypeOK
  <2> HIDE DEF NewTask
  <2> QED
    BY <1>1, <1>2, <1>3, <2>2, <2>3, <2>4, LateKeeps
<1>5. CASE Free(s) = {} /\ initFailed' = TRUE /\ Go(next) /\ UNCHANGED tasks
  BY <1>0, <1>1, <1>2, <1>3, <1>5, LateKeeps DEF Go, RTypeOK
<1> QED
  BY <1>4, <1>5 DEF RunJob

\* The migrations and the seed are started.
LEMMA StartJobKeeps ==
  ASSUME RIInv, StartJob
  PROVE  RIInv'
<1>0. VersionDeployed
  BY DEF RIInv
<1>1. /\ {"migrate_payments", "migrate_shop", "seed"} \subseteq Late \ DOMAIN Awaiting
      /\ {"await_payments", "await_shop", "await_seed", "migrate_shop", "checked"} \subseteq Late
      /\ {"await_payments", "await_shop", "await_seed"} \subseteq DOMAIN Awaiting
      /\ {"payments", "shop"} \subseteq Services
  BY AwaitingFacts DEF Late, Services
<1>2. CASE RunJob("payments", "migrate_payments", "migrate", "await_payments", "migrate_shop")
  BY <1>1, <1>2, RunJobKeeps
<1>3. CASE RunJob("shop", "migrate_shop", "migrate", "await_shop", "checked")
  <2>1. ~initFailed => schema["payments"] >= version[n]
    BY <1>0, <1>3 DEF RunJob, VersionDeployed
  <2> QED
    BY <1>1, <1>3, <2>1, RunJobKeeps
<1>4. CASE RunJob("shop", "seed", "seed", "await_seed", "checked")
  <2>1. ~initFailed => schema["payments"] >= version[n] /\ schema["shop"] >= version[n]
    BY <1>0, <1>4 DEF RunJob, VersionDeployed
  <2> QED
    BY <1>1, <1>4, <2>1, RunJobKeeps
<1> QED
  BY <1>2, <1>3, <1>4 DEF StartJob

\* The wait for a one-off task ends.
LEMMA JobAwaitedKeeps ==
  ASSUME RIInv, JobAwaited
  PROVE  RIInv'
<1>0. RTypeOK /\ VersionDeployed
  BY DEF RIInv
<1>1. /\ pc \in DOMAIN Awaiting /\ result' = None /\ initFailed' \in BOOLEAN
      /\ ~initFailed' => ~initFailed /\ result = "ok"
      /\ UNCHANGED <<fleet, n, version, pre, post, saved, outputs, at, spec, desired, tasks, schema,
                     failed, cause>>
  BY <1>0 DEF JobAwaited, Go, stackVars, ecsVars, RTypeOK
<1>2. /\ pc \in {"await_payments", "await_shop", "await_seed"}
      /\ pc = "await_payments" => pc' = "migrate_shop"
      /\ pc = "await_shop" => pc' \in {"seed", "checked"}
      /\ pc = "await_seed" => pc' = "checked"
  BY <1>1, AwaitingFacts DEF JobAwaited, Go
<1>3. pc \in Late /\ pc' \in Late
  BY <1>2 DEF Late
<1>4. /\ ~initFailed' => schema["payments"] >= version[n]
      /\ pc' \in {"seed", "await_seed", "checked"} /\ ~initFailed' => schema["shop"] >= version[n]
  BY <1>0, <1>1, <1>2 DEF VersionDeployed
<1> QED
  BY <1>0, <1>1, <1>3, <1>4, LateKeeps DEF RTypeOK

\* The databases are migrated: the services are restored.
LEMMA InitCheckedKeeps ==
  ASSUME RIInv, InitChecked, ~initFailed
  PROVE  RIInv'
<1>0. RTypeOK /\ WorkflowConsistent /\ Quiesced /\ CountsRestored /\ VersionDeployed
  BY DEF RIInv
<1>1. /\ pc = "checked" /\ pc' = "restore_payments"
      /\ UNCHANGED <<fleet, n, version, pre, post, saved, outputs, initFailed, result, at, spec,
                     desired, tasks, schema, failed, cause>>
  BY DEF InitChecked, Go, runVars, stackVars, ecsVars
<1>2. Configured' = Configured /\ \A s \in Services : Slots(s)' = Slots(s)
  BY <1>1, FleetSame
<1>3. pc \in Late /\ ~failed /\ post /\ n > 0 /\ result = None
  BY <1>0, <1>1, AwaitingFacts DEF Late, WorkflowConsistent, Restoring
<1>4. RTypeOK'
  BY <1>0, <1>1, <1>2 DEF RTypeOK, Steps, Restoring
<1>5. WorkflowConsistent'
  BY <1>0, <1>1, <1>3 DEF WorkflowConsistent, Pre, Late, Restoring
<1>6. Quiesced'
  BY <1>1 DEF Quiesced, Late
<1>7. CountsRestored'
  BY <1>0, <1>1, <1>2, <1>3 DEF CountsRestored, LateFailed, CheckFailed, Post, Late, Restoring
<1>8. VersionDeployed'
  <2>1. /\ \A s \in Services : Fresh(s)' = Fresh(s)
        /\ Redeployed' = {}
    BY <1>0, <1>1, UnchangedTasks DEF Redeployed
  <2>2. \A s \in Services : schema[s] >= version[n]
    BY <1>0, <1>1 DEF VersionDeployed, Services
  <2>3. \A r \in Resources : at[r] = n
    BY <1>0, <1>3 DEF VersionDeployed
  <2> QED
    BY <1>0, <1>1, <1>2, <2>1, <2>2, <2>3 DEF VersionDeployed
<1> QED
  BY <1>4, <1>5, <1>6, <1>7, <1>8 DEF RIInv

\* The last steps change no version, and make tasks stale at most.
LEMMA DeployedSame ==
  ASSUME RTypeOK, VersionDeployed, UNCHANGED <<fleet, n, version, at, spec, schema>>, SameTasks,
         pc' \in Restoring \cup {"smoke", "idle"}, Succeeding' => Succeeding,
         \A s \in Redeployed' : s \in Redeployed \/ Fresh(s)' = {},
         Succeeding' /\ pc' \in {"smoke", "idle"} => \A s \in Services : Live(s)' \subseteq Fresh(s)'
  PROVE  VersionDeployed'
<1>1. \A s \in Services : Slots(s)' = Slots(s) /\ Fresh(s)' \subseteq Fresh(s)
  BY FleetSame, TasksSame
<1>2. \A s \in Services : \A x \in Slots(s) : tasks'[s][x] # None => tasks'[s][x].run \in 1 .. n
  BY DEF VersionDeployed, SameTasks, Kept
<1>3. pc' \notin {"capture", "post_check"} \cup Post \cup Late
  BY DEF Restoring, Post, Late
<1>4. ASSUME NEW s \in Services, NEW x \in Fresh(s)'
      PROVE  /\ tasks'[s][x].run = spec[s]
             /\ Succeeding' /\ s \in Redeployed' =>
                  tasks'[s][x].secrets = n /\ tasks'[s][x].parameters = n
  <2>1. /\ x \in Fresh(s) /\ tasks'[s][x].run = tasks[s][x].run
        /\ tasks'[s][x].secrets = tasks[s][x].secrets /\ tasks'[s][x].parameters = tasks[s][x].parameters
    BY <1>4, TasksSame
  <2>2. /\ tasks[s][x].run = spec[s]
        /\ Succeeding /\ s \in Redeployed => tasks[s][x].secrets = n /\ tasks[s][x].parameters = n
    BY <2>1 DEF VersionDeployed
  <2> QED
    BY <1>4, <2>1, <2>2
<1>5. /\ \A r \in Resources : at[r] <= n
      /\ \A s \in Services : spec[s] = at[s]
      /\ Succeeding' => (\A r \in Resources : at[r] = n) /\ \A s \in Services : schema[s] >= version[n]
  BY DEF VersionDeployed
<1> QED
  BY <1>1, <1>2, <1>3, <1>4, <1>5 DEF VersionDeployed, Late

\* A service gets its counts back.
LEMMA RestoreKeeps ==
  ASSUME RIInv, outputs, NEW s \in Services,
         \/ Restore(s, "restore_payments", "restore_shop") /\ s = "payments"
         \/ Restore(s, "restore_shop", "stable") /\ s = "shop"
  PROVE  RIInv'
<1>0. RTypeOK /\ WorkflowConsistent /\ CountsRestored /\ VersionDeployed
  BY DEF RIInv
<1>1. /\ \/ pc = "restore_payments" /\ pc' = "restore_shop" /\ s = "payments"
         \/ pc = "restore_shop" /\ pc' = "stable" /\ s = "shop"
      /\ UNCHANGED <<fleet, n, version, pre, post, saved, outputs, initFailed, result, at, spec,
                     schema, failed, cause>>
      /\ desired' = [desired EXCEPT ![s] = saved[s]]
      /\ tasks' = [tasks EXCEPT ![s] = Stale(s)]
  BY DEF Restore, Go, runVars, stackVars
<1>2. Configured' = Configured /\ \A q \in Services : Slots(q)' = Slots(q)
  BY <1>1, FleetSame
<1>3. SameTasks /\ Fresh(s)' = {}
  BY <1>0, <1>1, StaleTasks
<1>4. pc \in Restoring /\ pc' \in Restoring /\ result = None /\ n > 0 /\ saved \in Counts
  BY <1>0, <1>1, AwaitingFacts DEF WorkflowConsistent, RTypeOK, Restoring
<1>5. desired' \in Counts /\ desired'[s] = saved[s] /\ \A q \in Services \ {s} : desired'[q] = desired[q]
  BY <1>0, <1>1, <1>4 DEF RTypeOK, Counts
<1>6. RTypeOK'
  BY <1>0, <1>1, <1>2, <1>3, <1>4, <1>5 DEF RTypeOK, Steps, SameTasks
<1>7. WorkflowConsistent'
  BY <1>0, <1>1, <1>4 DEF WorkflowConsistent, Late, Restoring
<1>8. Quiesced'
  BY <1>1 DEF Quiesced, Late
<1>9. CountsRestored'
  <2>1. (LateFailed' <=> LateFailed) /\ (CheckFailed' <=> CheckFailed)
    BY <1>1 DEF LateFailed, CheckFailed
  <2>2. ~failed \/ LateFailed => saved = Configured
    BY <1>0, <1>4 DEF CountsRestored
  <2>3. ~failed \/ LateFailed \/ CheckFailed =>
          /\ desired'["payments"] = saved["payments"]
          /\ pc' = "stable" => desired'["shop"] = saved["shop"]
    <3>1. (~failed \/ LateFailed \/ CheckFailed) /\ pc = "restore_shop" =>
            desired["payments"] = saved["payments"]
      BY <1>0 DEF CountsRestored
    <3> QED
      BY <1>1, <1>5, <3>1 DEF Services
  <2> QED
    BY <1>1, <1>2, <2>1, <2>2, <2>3 DEF CountsRestored, Post, Late, Restoring
<1>10. VersionDeployed'
  <2>1. Redeployed' \subseteq Redeployed \cup {s}
    BY <1>1 DEF Redeployed, Services
  <2> QED
    BY <1>0, <1>1, <1>3, <1>4, <2>1, DeployedSame DEF Succeeding, Restoring
<1> QED
  BY <1>6, <1>7, <1>8, <1>9, <1>10 DEF RIInv

\* The services are stable again, and the smoke test passes.
LEMMA EndKeeps ==
  ASSUME RIInv, SmokeTested \/ (Stabilized /\ \A s \in Services : Stable(s))
  PROVE  RIInv'
<1>0. RTypeOK /\ WorkflowConsistent /\ CountsRestored /\ VersionDeployed
  BY DEF RIInv
<1>1. /\ \/ pc = "smoke" /\ pc' = "idle"
         \/ pc = "stable" /\ failed /\ pc' = "idle"
         \/ pc = "stable" /\ ~failed /\ pc' = "smoke"
      /\ UNCHANGED <<fleet, n, version, pre, post, saved, outputs, initFailed, result, at, spec,
                     desired, tasks, schema, failed, cause>>
  BY DEF SmokeTested, Stabilized, Go, runVars, stackVars, ecsVars
<1>2. Configured' = Configured /\ \A s \in Services : Slots(s)' = Slots(s)
  BY <1>1, FleetSame
<1>3. SameTasks
  BY <1>0, <1>1, UnchangedTasks
<1>4. n > 0 /\ result = None
  BY <1>0, <1>1, AwaitingFacts DEF WorkflowConsistent
<1>5. RTypeOK'
  BY <1>0, <1>1, <1>2 DEF RTypeOK, Steps
<1>6. WorkflowConsistent'
  BY <1>0, <1>1, <1>4 DEF WorkflowConsistent, Late, Pre, Restoring
<1>7. Quiesced'
  BY <1>1 DEF Quiesced, Late
<1>8. CountsRestored'
  <2>1. (LateFailed' <=> LateFailed) /\ (CheckFailed' <=> CheckFailed)
    BY <1>1 DEF LateFailed, CheckFailed
  <2>2. ~failed \/ LateFailed => saved = Configured
    BY <1>0, <1>1 DEF CountsRestored, Restoring
  <2>3. ~failed \/ LateFailed \/ CheckFailed => desired = saved
    <3>1. saved # None
      <4>1. pc = "smoke" => saved = Configured
        BY <1>0 DEF CountsRestored, WorkflowConsistent, Restoring
      <4>2. Configured # None
        BY <1>0, ReleaseAssumption DEF RTypeOK, Configured, Counts
      <4> QED
        BY <1>0, <1>1, <4>1, <4>2 DEF WorkflowConsistent, Restoring
    <3> QED
      BY <1>0, <1>1, <3>1, CountsEqual DEF CountsRestored
  <2> QED
    BY <1>1, <1>2, <2>1, <2>2, <2>3 DEF CountsRestored, Post, Late, Restoring
<1>9. VersionDeployed'
  <2>1. Succeeding' => Succeeding
    BY <1>1, <1>4 DEF Succeeding, Restoring
  <2>2. Redeployed' = Redeployed
    BY <1>1 DEF Redeployed
  <2>3. \A s \in Services : Live(s)' = Live(s) /\ Fresh(s)' = Fresh(s)
    BY <1>0, <1>1, UnchangedTasks
  <2>4. Succeeding' => \A s \in Services : Live(s) \subseteq Fresh(s)
    <3>1. CASE pc = "smoke"
      BY <1>0, <2>1, <3>1 DEF VersionDeployed
    <3>2. CASE pc = "stable"
      BY <3>2 DEF SmokeTested, Stable
    <3> QED
      BY <1>1, <3>1, <3>2
  <2> QED
    BY <1>0, <1>1, <1>3, <2>1, <2>2, <2>3, <2>4, DeployedSame DEF Restoring
<1> QED
  BY <1>5, <1>6, <1>7, <1>8, <1>9 DEF RIInv

\* The steps that fail, each from its own condition.
LEMMA FailuresKeep ==
  ASSUME RIInv,
         \/ StepFails
         \/ PreQuiesced /\ Fail
         \/ CaptureOutputs /\ Fail
         \/ PostQuiesced /\ Fail
         \/ InitChecked /\ Fail
         \/ Restore("payments", "restore_payments", "restore_shop") /\ ~outputs
         \/ Restore("shop", "restore_shop", "stable") /\ ~outputs
         \/ Stabilized /\ Fail
  PROVE  RIInv'
<1>0. RTypeOK
  BY DEF RIInv
<1>1. Fail
  BY DEF StepFails, Restore
<1>2. pc \notin {"idle"} \cup DOMAIN Awaiting
  BY AwaitingFacts DEF StepFails, JobSteps, PreQuiesced, CaptureOutputs, PostQuiesced, InitChecked,
       Restore, Stabilized
<1>3. ~(\A s \in Services : Stable(s)) \/ ~(PreQuiesced \/ PostQuiesced)
  BY <1>1 DEF PreQuiesced, PostQuiesced, Go, Fail
<1>4. UNCHANGED <<fleet, n, version, initFailed, result, at, spec, desired, tasks, schema>>
  BY DEF StepFails, PreQuiesced, CaptureOutputs, PostQuiesced, InitChecked, Restore, Stabilized,
       runVars, stackVars, ecsVars
<1>5. UNCHANGED <<pre, post, saved>>
  <2>1. CASE PreQuiesced
    BY <1>3, <2>1 DEF PreQuiesced
  <2>2. CASE PostQuiesced
    BY <1>3, <2>2 DEF PostQuiesced
  <2>3. CASE CaptureOutputs
    BY <2>3 DEF CaptureOutputs
  <2> QED
    BY <2>1, <2>2, <2>3 DEF StepFails, InitChecked, Restore, Stabilized, runVars
<1>6. outputs' \in BOOLEAN /\ (outputs => outputs')
  BY <1>0 DEF RTypeOK, StepFails, PreQuiesced, CaptureOutputs, PostQuiesced, InitChecked, Restore,
       Stabilized, runVars
<1> QED
  BY <1>1, <1>2, <1>4, <1>5, <1>6, FailKeeps

\* Every step of the workflow.
LEMMA WorkflowKeeps ==
  ASSUME RIInv, WorkflowStep
  PROVE  RIInv'
<1>1. CASE ReadOutputs \/ PulumiUp \/ Applied \/ CheckCounts \/ HostsReady \/ StartJob \/ JobAwaited \/ SmokeTested
  BY <1>1, PreStepsKeep, PulumiUpKeeps, MiddleStepsKeep, StartJobKeeps, JobAwaitedKeeps, EndKeeps
<1>2. CASE Quiesce
  BY <1>2, PreStepsKeep, MiddleStepsKeep DEF Quiesce
<1>3. CASE PreQuiesced
  <2>1. Fail \/ pc' = "apply"
    BY <1>3 DEF PreQuiesced, Go
  <2> QED
    BY <1>3, <2>1, PreStepsKeep, FailuresKeep
<1>4. CASE CaptureOutputs
  <2>1. Fail \/ pc' = "post_check"
    BY <1>4 DEF CaptureOutputs, Go
  <2> QED
    BY <1>4, <2>1, MiddleStepsKeep, FailuresKeep
<1>5. CASE PostQuiesced
  <2>1. Fail \/ pc' = "hosts"
    BY <1>5 DEF PostQuiesced, Go
  <2> QED
    BY <1>5, <2>1, MiddleStepsKeep, FailuresKeep
<1>6. CASE InitChecked
  <2>1. Fail \/ ~initFailed
    BY <1>6 DEF InitChecked
  <2> QED
    BY <1>6, <2>1, InitCheckedKeeps, FailuresKeep
<1>7. CASE RestoreServices
  <2>1. CASE outputs
    BY <1>7, <2>1, RestoreKeeps DEF RestoreServices, Services
  <2>2. CASE ~outputs
    BY <1>7, <2>2, FailuresKeep DEF RestoreServices
  <2> QED
    BY <2>1, <2>2
<1>8. CASE Stabilized
  <2>1. Fail \/ \A s \in Services : Stable(s)
    BY <1>8 DEF Stabilized
  <2> QED
    BY <1>8, <2>1, EndKeeps, FailuresKeep
<1> QED
  BY <1>1, <1>2, <1>3, <1>4, <1>5, <1>6, <1>7, <1>8 DEF WorkflowStep

-----------------------------------------------------------------------------
(* Theorems *)

LEMMA RInitIInv ==
  ASSUME RInit
  PROVE  RIInv
<1>1. fleet \in Fleets /\ fleet.hosts \in Nat
  BY ReleaseAssumption DEF RInit
<1>2. /\ pc = "idle" /\ n = 0 /\ failed = FALSE /\ cause = None /\ pre = FALSE /\ post = FALSE
      /\ saved = None /\ outputs = FALSE /\ initFailed = FALSE /\ result = None
      /\ at = [r \in Resources |-> 0] /\ spec = [s \in Services |-> 0]
      /\ desired = [s \in Services |-> 0] /\ schema = [s \in Services |-> 0]
      /\ version = [r \in Runs |-> 0]
      /\ tasks = [s \in Services |-> [x \in Slots(s) |-> None]]
  BY DEF RInit
<1>3. RTypeOK
  <2>1. 0 \in 0 .. MaxDeploys
    BY ReleaseAssumption
  <2> QED
    BY <1>1, <1>2, <2>1 DEF RTypeOK, Steps, Counts
<1>4. WorkflowConsistent
  BY <1>2 DEF WorkflowConsistent, Pre, Late, Restoring
<1>5. Quiesced
  BY <1>2 DEF Quiesced, Late
<1>6. CountsRestored
  BY <1>2 DEF CountsRestored, Post, Late, Restoring
<1>7. VersionDeployed
  <2>1. \A s \in Services : Fresh(s) = {}
    BY <1>2 DEF Fresh, Live, Tasks, Running
  <2> QED
    BY <1>2, <2>1 DEF VersionDeployed, Succeeding, Post, Late, Restoring, Resources
<1> QED
  BY <1>3, <1>4, <1>5, <1>6, <1>7 DEF RIInv

\* The inductive invariant: where the workflow, Pulumi and the scheduler can
\* be in relation to each other, whatever fails.
THEOREM RIInvIsInvariant == RSpec => []RIInv
<1>1. RInit => RIInv
  BY RInitIInv
<1>2. RIInv /\ [RNext]_rvars => RIInv'
  <2> SUFFICES ASSUME RIInv, [RNext]_rvars
               PROVE  RIInv'
    OBVIOUS
  <2>1. CASE WorkflowStep
    BY <2>1, WorkflowKeeps
  <2>2. CASE EcsStep
    BY <2>2, SchedulerKeeps, JobEndsKeeps DEF EcsStep
  <2>3. CASE HostStep
    BY <2>3, SchedulerKeeps, ReplaceHostKeeps DEF HostStep
  <2>4. CASE Trigger \/ StepFails \/ RunnerLost
    BY <2>4, TriggerKeeps, FailuresKeep, RunnerLostKeeps
  <2>5. CASE \E s \in Services : TaskDies(s)
    BY <2>5, SchedulerKeeps
  <2>6. CASE UNCHANGED rvars
    <3>1. UNCHANGED <<fleet, n, version, pre, post, saved, outputs, initFailed, pc, failed, cause, at,
                      spec, desired, tasks, schema, result>>
      BY <2>6 DEF rvars, jobVars, runVars, stackVars, ecsVars
    <3>2. RTypeOK /\ schema \in Counts /\ \A s \in Services : schema[s] <= schema[s]
      BY DEF RIInv, RTypeOK, Counts
    <3> QED
      BY <3>1, <3>2, EcsKeeps DEF RTypeOK, Kept
  <2> QED
    BY <2>1, <2>2, <2>3, <2>4, <2>5, <2>6 DEF RNext
<1> QED
  BY <1>1, <1>2, PTL DEF RSpec

\* Behind the second quiesce no task of an older deployment is pending or
\* running while the databases are migrated, and none is asked for: neither
\* Pulumi's update nor a scheduler that restarts tasks brings one back.
THEOREM OldTasksAlwaysRetired == RSpec => []OldTasksRetired
<1>1. RIInv => OldTasksRetired
  <2> SUFFICES ASSUME RIInv, pc \in Late, NEW s \in Services
               PROVE  desired[s] = 0 /\ \A x \in Live(s) : tasks[s][x].fresh /\ tasks[s][x].run = n
    BY DEF OldTasksRetired
  <2>1. desired[s] = 0 /\ Live(s) \subseteq Fresh(s)
    BY DEF RIInv, Quiesced, Services
  <2>2. spec[s] = n
    BY DEF RIInv, VersionDeployed, Resources
  <2> QED
    BY <2>1, <2>2 DEF RIInv, VersionDeployed, Fresh
<1> QED
  BY <1>1, RIInvIsInvariant, PTL

\* A run of the workflow that ends without a failure has deployed its version
\* on both services and migrated both databases.
THEOREM SuccessIsDeployment == RSpec => []SuccessMeansDeployed
<1>1. RIInv => SuccessMeansDeployed
  <2> SUFFICES ASSUME RIInv, pc = "idle", n > 0, ~failed, NEW s \in Services
               PROVE  /\ desired[s] = Configured[s] /\ spec[s] = n /\ schema[s] >= version[n]
                      /\ \A x \in Live(s) :
                           /\ tasks[s][x].run = n /\ tasks[s][x].secrets = n
                           /\ tasks[s][x].parameters = n
    BY DEF SuccessMeansDeployed
  <2>1. Succeeding
    BY DEF Succeeding
  <2>2. desired = Configured
    BY DEF RIInv, CountsRestored
  <2>3. Live(s) \subseteq Fresh(s) /\ s \in Redeployed /\ spec[s] = n
    BY <2>1 DEF RIInv, VersionDeployed, Resources, Redeployed
  <2> QED
    BY <2>1, <2>2, <2>3 DEF RIInv, VersionDeployed
<1> QED
  BY <1>1, RIInvIsInvariant, PTL

\* A failure behind the second quiesce, or in it after the first one, leaves
\* both services at their configured counts once the run has ended; one in
\* the checks before it leaves them at the counts the run found.
THEOREM LateFailuresRestore == RSpec => []LateFailureRestores
<1>1. RIInv => LateFailureRestores
  <2> SUFFICES ASSUME RIInv, pc = "idle", LateFailed \/ CheckFailed
               PROVE  desired = saved /\ (LateFailed => saved = Configured)
    BY DEF LateFailureRestores, LateFailed, CheckFailed
  <2>1. failed /\ n > 0
    <3>1. cause # None
      BY NoneFacts DEF Steps, Late, Post, Restoring, LateFailed, CheckFailed
    <3> QED
      BY <3>1 DEF RIInv, WorkflowConsistent
  <2> QED
    BY <2>1 DEF RIInv, CountsRestored
<1> QED
  BY <1>1, RIInvIsInvariant, PTL

-----------------------------------------------------------------------------
(* The hosts: containers and stores *)

\* A container that starts is a container, on the volume if that is mounted.
LEMMA StartedFacts ==
  ASSUME NEW id \in Nat
  PROVE  /\ Started(id) \in Containers /\ Started(id) # Unset
         /\ Started(id).id = id /\ Started(id).running = TRUE /\ Started(id).phase = "starting"
         /\ Started(id).loc = Bound /\ (Started(id).loc = "volume" => mounted)
<1>1. Bound \in {"volume", "root"} /\ (Bound = "volume" => mounted)
  BY DEF Bound
<1>2. Started(id) \in Containers
  BY <1>1 DEF Started, Containers
<1> QED
  BY <1>1, <1>2, HostsAssumption DEF Started

\* A container that stops keeps its number and its directory.
LEMMA StoppedFacts ==
  ASSUME DTypeOK
  PROVE  /\ Stopped \in Containers \cup {Unset}
         /\ Stopped = Unset <=> cont = Unset
         /\ cont # Unset => /\ Stopped.id = cont.id /\ Stopped.loc = cont.loc
                            /\ Stopped.running = FALSE
<1>1. CASE cont = Unset
  BY <1>1 DEF Stopped
<1>2. CASE cont # Unset
  <2>1. cont \in Containers
    BY <1>2 DEF DTypeOK
  <2>2. [cont EXCEPT !.running = FALSE] \in Containers
    BY <2>1 DEF Containers
  <2> QED
    BY <1>2, <2>1, <2>2, HostsAssumption DEF Stopped, Containers
<1> QED
  BY <1>1, <1>2

\* A change of phase keeps them too.
LEMMA PhaseFacts ==
  ASSUME DTypeOK, ContRunning, NEW ph \in {"initdb", "init", "up"}, cont' = [cont EXCEPT !.phase = ph]
  PROVE  /\ cont \in Containers /\ cont' \in Containers /\ cont' # Unset
         /\ cont'.id = cont.id /\ cont'.loc = cont.loc /\ cont'.running = TRUE /\ cont'.phase = ph
<1>1. cont \in Containers /\ cont.running
  BY DEF DTypeOK, ContRunning
<1>2. cont.running = TRUE
  BY <1>1 DEF Containers
<1>3. [cont EXCEPT !.phase = ph] \in Containers
  BY <1>1 DEF Containers
<1> QED
  BY <1>1, <1>2, <1>3, HostsAssumption DEF Containers

\* The directory of a container is one of the stores.
LEMMA StoreFacts ==
  ASSUME DTypeOK, RunsBounded, cont # Unset
  PROVE  /\ StoreOf(cont) \in Stores
         /\ StoreOf(cont)[1] = cont.loc
         /\ StoreOf(cont)[2] = IF kind = "db" THEN 0 ELSE cont.id
         /\ StoreOf(cont) = <<cont.loc, IF kind = "db" THEN 0 ELSE cont.id>>
<1>1. cont \in Containers /\ cont.id \in Nat /\ cont.loc \in {"volume", "root"}
  BY DEF DTypeOK, Containers
<1>2. cont.id <= MaxHostFaults + 1 /\ MaxHostFaults \in Nat
  BY <1>1, HostsAssumption DEF DTypeOK, RunsBounded
<1>3. (IF kind = "db" THEN 0 ELSE cont.id) \in 0 .. MaxHostFaults + 1
  BY <1>1, <1>2
<1> QED
  BY <1>1, <1>3 DEF StoreOf, DataDir, Stores

\* What is cut short is a store.
LEMMA CutShortFacts ==
  ASSUME DTypeOK, RunsBounded
  PROVE  /\ CutShort \subseteq Stores
         /\ ContRunning /\ cont.phase \in {"initdb", "init"} => CutShort = {StoreOf(cont)}
         /\ ~(ContRunning /\ cont.phase \in {"initdb", "init"}) => CutShort = {}
  BY StoreFacts DEF CutShort, ContRunning

-----------------------------------------------------------------------------
(* The hosts: what is written on the volume stays *)

\* A step that leaves the acknowledged writes where they are keeps them.
LEMMA WritesStay ==
  ASSUME HostInv, DTypeOK', RunsBounded', VolumeFormatted', UNCHANGED <<kind, home>>,
         formatted => formatted',
         \A s \in Stores : formatted /\ s[1] = "volume" => data[s] \subseteq data'[s]
  PROVE  HostInv'
<1>1. ASSUME NEW w \in Writes, home'[w] # Unset
      PROVE  /\ kind' = "db" => home'[w][2] = 0
             /\ home'[w][1] = "volume" => formatted' /\ w \in data'[home'[w]]
  <2>1. home[w] \in Stores
    BY <1>1 DEF HostInv, DTypeOK
  <2> QED
    BY <1>1, <2>1 DEF HostInv, WritesThere
<1> QED
  BY <1>1 DEF HostInv, WritesThere

\* A step of the script or of the machine that leaves the container alone.
LEMMA MachineStep ==
  ASSUME HostInv, UNCHANGED <<kind, formatted, cont, runs, init, interrupted, data, home>>,
         hostFaults' = hostFaults \/ HostFault,
         fstab' \in BOOLEAN, mounted' \in BOOLEAN, docker' \in BOOLEAN,
         script' = "run" => script = "run" \/ ~ContRunning,
         VolumeFormatted'
  PROVE  HostInv'
<1>0. hostFaults \in 0 .. MaxHostFaults /\ MaxHostFaults \in Nat /\ runs \in Nat
  BY HostsAssumption DEF HostInv, DTypeOK
<1>1. hostFaults' \in 0 .. MaxHostFaults /\ hostFaults' >= hostFaults
  BY <1>0 DEF HostFault
<1>2. DTypeOK'
  BY <1>1 DEF HostInv, DTypeOK
<1>3. RunsBounded'
  <2>1. ContRunning' <=> ContRunning
    BY DEF ContRunning
  <2>2. /\ runs <= hostFaults + 1
        /\ (script = "run" \/ ~ContRunning) => runs <= hostFaults
        /\ cont # Unset => cont.id <= runs
    BY DEF HostInv, RunsBounded
  <2>3. /\ hostFaults \in Int /\ hostFaults' \in Int /\ hostFaults' >= hostFaults
        /\ runs' = runs /\ runs \in Int /\ runs' \in Int
    BY <1>0, <1>1
  <2>4. runs' <= hostFaults' + 1
    <3>1. \A r, a, b \in Int : r <= a + 1 /\ b >= a => r <= b + 1
      OBVIOUS
    <3> QED
      BY <2>2, <2>3, <3>1
  <2>5. (script' = "run" \/ ~ContRunning') => runs' <= hostFaults'
    BY <2>1, <2>2, <2>3
  <2>6. cont' # Unset => cont'.id <= runs'
    BY <2>2
  <2> QED
    BY <2>4, <2>5, <2>6 DEF HostInv, RunsBounded
<1> QED
  BY <1>2, <1>3, WritesStay

\* A step that starts, stops or removes the container.
LEMMA ContainerChange ==
  ASSUME HostInv, UNCHANGED <<kind, formatted, data, home, fstab>>,
         cont' \in Containers \cup {Unset}, runs' \in Nat,
         init' \in [Stores -> InitStages], interrupted' \subseteq Stores,
         hostFaults' \in 0 .. MaxHostFaults, mounted' \in BOOLEAN, docker' \in BOOLEAN,
         mounted' => mounted, script' = "mount" => script = "mount",
         cont' # Unset => cont'.id <= runs' /\ (cont'.loc = "volume" => formatted),
         RunsBounded'
  PROVE  HostInv'
<1>1. DTypeOK'
  BY DEF HostInv, DTypeOK
<1>2. VolumeFormatted'
  BY DEF HostInv, VolumeFormatted
<1> QED
  BY <1>1, <1>2, WritesStay

\* The container boots, initialises its directory, dies or comes back.
LEMMA ContainerKeepsHost ==
  ASSUME HostInv,
         \/ ContainerBoots \/ DatabaseCreated \/ ContainerInitialised
         \/ ContainerDies \/ ContainerRestarts
  PROVE  HostInv'
<1>0. /\ DTypeOK /\ RunsBounded /\ VolumeFormatted /\ runs \in Nat
      /\ hostFaults \in 0 .. MaxHostFaults /\ MaxHostFaults \in Nat
      /\ mounted \in BOOLEAN /\ docker \in BOOLEAN /\ interrupted \subseteq Stores
      /\ init \in [Stores -> InitStages]
  BY HostsAssumption DEF HostInv, DTypeOK
<1>1. ASSUME NEW ph \in {"initdb", "init", "up"}, ContRunning, cont' = [cont EXCEPT !.phase = ph],
             init' \in [Stores -> InitStages],
             UNCHANGED <<kind, volumeVars, hostVars, scriptVars, runs, interrupted, data, home, hostFaults>>
      PROVE  HostInv'
  <2>1. /\ cont' \in Containers /\ cont' # Unset /\ cont # Unset
        /\ cont'.id = cont.id /\ cont'.loc = cont.loc /\ cont'.running = TRUE
    BY <1>0, <1>1, PhaseFacts DEF ContRunning
  <2>2. UNCHANGED <<kind, formatted, data, home, fstab, mounted, docker, script, runs, interrupted, hostFaults>>
    BY <1>1 DEF volumeVars, hostVars, scriptVars
  <2>3. RunsBounded'
    BY <1>0, <1>1, <2>1, <2>2 DEF RunsBounded, ContRunning
  <2> QED
    BY <1>0, <1>1, <2>1, <2>2, <2>3, ContainerChange DEF RunsBounded, VolumeFormatted
<1>2. CASE ContainerBoots
  <2>1. PICK s \in Stores : s = StoreOf(cont)
    BY <1>0, <1>2, StoreFacts DEF ContainerBoots, ContRunning
  <2>2. \/ init' = init
        \/ \E v \in InitStages : init' = [init EXCEPT ![s] = v]
    <3>1. init[s] \in InitStages
      BY <1>0
    <3> QED
      BY <1>2, <2>1, <3>1 DEF ContainerBoots, InitStages
  <2>3. init' \in [Stores -> InitStages]
    BY <1>0, <2>2
  <2>4. CASE \E ph \in {"initdb", "init", "up"} : cont' = [cont EXCEPT !.phase = ph]
    BY <1>1, <1>2, <2>3, <2>4 DEF ContainerBoots
  <2>5. CASE kind = "db" /\ cont' = Stopped
    <3>1. /\ cont # Unset
          /\ UNCHANGED <<kind, formatted, data, home, fstab, mounted, docker, script, runs, interrupted, hostFaults>>
      BY <1>2 DEF ContainerBoots, ContRunning, volumeVars, hostVars, scriptVars
    <3>2. /\ cont' \in Containers \cup {Unset} /\ cont' # Unset
          /\ cont'.id = cont.id /\ cont'.loc = cont.loc
      BY <1>0, <2>5, <3>1, StoppedFacts
    <3>3. RunsBounded'
      BY <1>0, <2>5, <3>1, <3>2 DEF RunsBounded
    <3> QED
      BY <1>0, <2>3, <3>1, <3>2, <3>3, ContainerChange DEF RunsBounded, VolumeFormatted
  <2> QED
    BY <1>2, <2>4, <2>5 DEF ContainerBoots
<1>3. CASE ContainerInitialised
  <2>1. init' \in [Stores -> InitStages]
    BY <1>0, <1>3 DEF ContainerInitialised, InitStages
  <2> QED
    BY <1>1, <1>3, <2>1 DEF ContainerInitialised
<1>6. CASE DatabaseCreated
  <2>1. init' \in [Stores -> InitStages]
    BY <1>0, <1>6 DEF DatabaseCreated, InitStages
  <2> QED
    BY <1>1, <1>6, <2>1 DEF DatabaseCreated, Creating
<1>4. CASE ContainerDies
  <2>1. /\ ContRunning /\ hostFaults' = hostFaults + 1 /\ hostFaults < MaxHostFaults
        /\ cont' = Stopped /\ interrupted' = interrupted \cup CutShort
        /\ UNCHANGED <<kind, formatted, data, home, fstab, mounted, docker, script, runs, init>>
    BY <1>4 DEF ContainerDies, HostFault, volumeVars, hostVars, scriptVars
  <2>2. /\ cont # Unset /\ cont' \in Containers \cup {Unset} /\ cont' # Unset
        /\ cont'.id = cont.id /\ cont'.loc = cont.loc
    BY <1>0, <2>1, StoppedFacts DEF ContRunning
  <2>3. interrupted' \subseteq Stores /\ hostFaults' \in 0 .. MaxHostFaults
    BY <1>0, <2>1, CutShortFacts
  <2>4. RunsBounded'
    BY <1>0, <2>1, <2>2 DEF RunsBounded
  <2> QED
    BY <1>0, <2>1, <2>2, <2>3, <2>4, ContainerChange DEF RunsBounded, VolumeFormatted
<1>5. CASE ContainerRestarts
  <2>1. /\ cont # Unset /\ ~ContRunning /\ cont' = Started(cont.id)
        /\ UNCHANGED <<kind, formatted, data, home, fstab, mounted, docker, script, runs, init, interrupted, hostFaults>>
    BY <1>5 DEF ContainerRestarts, ContRunning, volumeVars, hostVars, scriptVars, storeVars
  <2>2. cont.id \in Nat /\ cont.id <= runs
    BY <1>0, <2>1 DEF DTypeOK, Containers, RunsBounded
  <2>3. /\ cont' \in Containers /\ cont' # Unset /\ cont'.id = cont.id
        /\ cont'.loc = "volume" => mounted
    BY <2>1, <2>2, StartedFacts
  <2>4. RunsBounded'
    BY <1>0, <2>1, <2>2, <2>3 DEF RunsBounded
  <2> QED
    BY <1>0, <2>1, <2>2, <2>3, <2>4, ContainerChange DEF VolumeFormatted
<1> QED
  BY <1>2, <1>3, <1>4, <1>5, <1>6

\* The script's steps that neither format nor run a container, and the steps
\* of the machine below them.
LEMMA ScriptKeepsHost ==
  ASSUME HostInv,
         \/ FindDevice \/ Mount \/ FetchSecret \/ Inspect \/ AwaitReady \/ UnitRestarts
         \/ AttachVolume \/ CloudInit \/ Boot \/ BootMount
  PROVE  HostInv'
<1>0. VolumeFormatted /\ fstab \in BOOLEAN /\ mounted \in BOOLEAN /\ docker \in BOOLEAN
  BY DEF HostInv, DTypeOK
<1>1. ASSUME UNCHANGED <<kind, formatted, cont, runs, init, interrupted, data, home>>,
             UNCHANGED <<fstab, mounted>>, docker' \in BOOLEAN,
             hostFaults' = hostFaults \/ HostFault,
             script' = "run" => script = "run" \/ ~ContRunning,
             script' = "mount" => script = "mount"
      PROVE  HostInv'
  <2>1. VolumeFormatted'
    BY <1>0, <1>1 DEF VolumeFormatted
  <2>2. fstab' \in BOOLEAN /\ mounted' \in BOOLEAN
    BY <1>0, <1>1
  <2> QED
    BY <1>1, <2>1, <2>2, MachineStep
<1>2. ASSUME UNCHANGED <<kind, formatted, cont, runs, init, interrupted, data, home, hostFaults>>,
             formatted, fstab' \in BOOLEAN, mounted' \in BOOLEAN, docker' \in BOOLEAN,
             script' = "run" => script = "run"
      PROVE  HostInv'
  <2>1. VolumeFormatted'
    BY <1>2 DEF VolumeFormatted
  <2> QED
    BY <1>2, <2>1, MachineStep
<1>3. CASE FindDevice
  BY <1>0, <1>1, <1>3 DEF FindDevice, Step, volumeVars, hostVars, storeVars
<1>4. CASE FetchSecret
  BY <1>0, <1>1, <1>4 DEF FetchSecret, Step, volumeVars, hostVars, storeVars
<1>5. CASE Inspect
  BY <1>0, <1>1, <1>5 DEF Inspect, Step, volumeVars, hostVars, storeVars
<1>6. CASE AwaitReady
  BY <1>0, <1>1, <1>6 DEF AwaitReady, Step, volumeVars, hostVars, storeVars
<1>7. CASE UnitRestarts
  BY <1>0, <1>1, <1>7 DEF UnitRestarts, OnFailure, volumeVars, hostVars, storeVars
<1>8. CASE AttachVolume
  BY <1>0, <1>1, <1>8 DEF AttachVolume, hostVars, scriptVars, storeVars
<1>9. CASE CloudInit
  BY <1>0, <1>1, <1>9 DEF CloudInit, volumeVars, storeVars
<1>10. CASE Boot
  BY <1>0, <1>1, <1>10 DEF Boot, volumeVars, scriptVars, storeVars
<1>11. CASE BootMount
  <2>1. formatted
    BY <1>0, <1>11 DEF BootMount, VolumeFormatted
  <2> QED
    BY <1>0, <1>2, <1>11, <2>1 DEF BootMount, volumeVars, scriptVars, storeVars
<1>12. CASE Mount
  <2>1. formatted
    BY <1>0, <1>12 DEF Mount, Step, VolumeFormatted
  <2> QED
    BY <1>0, <1>2, <1>12, <2>1 DEF Mount, Step, volumeVars, storeVars
<1> QED
  BY <1>3, <1>4, <1>5, <1>6, <1>7, <1>8, <1>9, <1>10, <1>11, <1>12

\* mkfs only ever meets a volume nothing was written to.
LEMMA FormatKeepsHost ==
  ASSUME HostInv, Format
  PROVE  HostInv'
<1>0. /\ DTypeOK /\ RunsBounded /\ VolumeFormatted /\ fstab \in BOOLEAN /\ mounted \in BOOLEAN
      /\ docker \in BOOLEAN /\ formatted \in BOOLEAN
  BY DEF HostInv, DTypeOK
<1>1. /\ script = "format" /\ script' = "mount"
      /\ UNCHANGED <<kind, fstab, mounted, docker, cont, runs, interrupted, home, hostFaults>>
  BY DEF Format, Step, hostVars
<1>2. CASE formatted
  <2>1. UNCHANGED <<formatted, init, data>>
    BY <1>2 DEF Format, HasFilesystem
  <2>2. VolumeFormatted'
    BY <1>2, <2>1 DEF VolumeFormatted
  <2> QED
    BY <1>0, <1>1, <2>1, <2>2, MachineStep
<1>3. CASE ~formatted
  <2>1. /\ formatted' = TRUE
        /\ init' = [s \in Stores |-> IF s[1] = "volume" THEN "absent" ELSE init[s]]
        /\ data' = [s \in Stores |-> IF s[1] = "volume" THEN {} ELSE data[s]]
    BY <1>3 DEF Format, HasFilesystem
  <2>2. /\ init' \in [Stores -> InitStages]
        /\ data' \in [Stores -> SUBSET Writes]
    BY <1>0, <2>1 DEF DTypeOK, InitStages
  <2>3. DTypeOK'
    BY <1>0, <1>1, <2>1, <2>2 DEF DTypeOK
  <2>4. RunsBounded'
    BY <1>0, <1>1 DEF RunsBounded, ContRunning
  <2>5. VolumeFormatted'
    BY <2>1 DEF VolumeFormatted
  <2> QED
    BY <1>1, <1>3, <2>3, <2>4, <2>5, WritesStay
<1> QED
  BY <1>2, <1>3

\* docker rm and docker run.
LEMMA RunKeepsHost ==
  ASSUME HostInv, DockerRun
  PROVE  HostInv'
<1>0. /\ DTypeOK /\ RunsBounded /\ VolumeFormatted /\ runs \in Nat /\ MaxHostFaults \in Nat
      /\ hostFaults \in 0 .. MaxHostFaults /\ mounted \in BOOLEAN /\ docker \in BOOLEAN
      /\ init \in [Stores -> InitStages] /\ interrupted \subseteq Stores
  BY HostsAssumption DEF HostInv, DTypeOK
<1>1. /\ script = "run" /\ script' \in {"ready", "failed"} /\ interrupted' = interrupted \cup CutShort
      /\ UNCHANGED <<kind, formatted, fstab, mounted, docker, init, data, home>>
  BY DEF DockerRun, Step, volumeVars, hostVars
<1>2. interrupted' \subseteq Stores /\ runs <= hostFaults
  BY <1>0, <1>1, CutShortFacts DEF RunsBounded
<1>3. CASE runs' = NextId /\ cont' = Started(NextId) /\ hostFaults' = hostFaults
  <2>0. PICK num \in Nat : num = NextId /\ (kind = "db" => num = 0) /\ num <= runs + 1
    BY <1>0 DEF NextId
  <2>1. /\ cont' \in Containers /\ cont' # Unset /\ cont'.id = num /\ cont'.running = TRUE
        /\ cont'.loc = "volume" => mounted
    BY <1>3, <2>0, StartedFacts
  <2>2. runs' \in Nat /\ runs' <= hostFaults' + 1 /\ cont'.id <= runs' /\ hostFaults' \in 0 .. MaxHostFaults
    BY <1>0, <1>2, <1>3, <2>0, <2>1
  <2>3. RunsBounded'
    <3>1. ContRunning' /\ script' # "run" /\ (kind' = "db" => runs' = 0)
      BY <1>1, <1>3, <2>0, <2>1 DEF ContRunning
    <3> QED
      BY <2>2, <3>1 DEF RunsBounded
  <2> QED
    BY <1>0, <1>1, <1>2, <2>1, <2>2, <2>3, ContainerChange DEF VolumeFormatted
<1>4. CASE HostFault /\ cont' = Unset /\ runs' = runs
  <2>1. /\ runs' \in Nat /\ runs' <= hostFaults' + 1 /\ runs' <= hostFaults'
        /\ hostFaults' \in 0 .. MaxHostFaults
    BY <1>0, <1>2, <1>4 DEF HostFault
  <2>2. RunsBounded'
    BY <1>0, <1>1, <1>4, <2>1 DEF RunsBounded
  <2> QED
    BY <1>0, <1>1, <1>2, <1>4, <2>1, <2>2, ContainerChange
<1> QED
  BY <1>3, <1>4 DEF DockerRun

\* The host crashes, and docker restarts the container when it is back.
LEMMA CrashKeepsHost ==
  ASSUME HostInv, Crash \/ DockerUp
  PROVE  HostInv'
<1>0. /\ DTypeOK /\ RunsBounded /\ VolumeFormatted /\ runs \in Nat /\ MaxHostFaults \in Nat
      /\ hostFaults \in 0 .. MaxHostFaults /\ mounted \in BOOLEAN /\ docker \in BOOLEAN
      /\ init \in [Stores -> InitStages] /\ interrupted \subseteq Stores
  BY HostsAssumption DEF HostInv, DTypeOK
<1>1. CASE Crash
  <2>1. /\ hostFaults < MaxHostFaults /\ hostFaults' = hostFaults + 1
        /\ mounted' = FALSE /\ docker' = FALSE /\ script' = "off"
        /\ interrupted' = interrupted \cup CutShort /\ cont' = Stopped
        /\ UNCHANGED <<kind, formatted, fstab, runs, init, data, home>>
    BY <1>1 DEF Crash, Down, HostFault, volumeVars
  <2>2. /\ cont' \in Containers \cup {Unset}
        /\ cont' # Unset => cont # Unset /\ cont'.id = cont.id /\ cont'.loc = cont.loc
    BY <1>0, <2>1, StoppedFacts
  <2>3. interrupted' \subseteq Stores /\ hostFaults' \in 0 .. MaxHostFaults /\ runs' \in Nat
    BY <1>0, <2>1, CutShortFacts
  <2>4. runs' <= hostFaults' + 1 /\ runs' <= hostFaults'
    BY <1>0, <2>1 DEF RunsBounded
  <2>5. cont' # Unset => cont'.id <= runs' /\ (cont'.loc = "volume" => formatted)
    BY <1>0, <2>1, <2>2 DEF RunsBounded, VolumeFormatted
  <2>6. RunsBounded'
    BY <1>0, <2>1, <2>4, <2>5 DEF RunsBounded
  <2> QED
    BY <1>0, <2>1, <2>2, <2>3, <2>5, <2>6, ContainerChange
<1>2. CASE DockerUp
  <2>1. /\ docker' = TRUE /\ script' = "device"
        /\ cont' = IF cont = Unset THEN Unset ELSE Started(cont.id)
        /\ UNCHANGED <<kind, formatted, fstab, mounted, runs, init, interrupted, data, home, hostFaults>>
    BY <1>2 DEF DockerUp, volumeVars, storeVars
  <2>2. CASE cont = Unset
    <3>1. cont' = Unset
      BY <2>1, <2>2
    <3>2. RunsBounded'
      BY <1>0, <2>1, <2>2, <3>1 DEF RunsBounded, ContRunning
    <3> QED
      BY <1>0, <2>1, <3>1, <3>2, ContainerChange
  <2>3. CASE cont # Unset
    <3>1. cont.id \in Nat /\ cont.id <= runs
      BY <1>0, <2>3 DEF DTypeOK, Containers, RunsBounded
    <3>2. /\ cont' \in Containers /\ cont' # Unset /\ cont'.id = cont.id /\ cont'.running = TRUE
          /\ cont'.loc = "volume" => mounted
      BY <2>1, <2>3, <3>1, StartedFacts
    <3>3. RunsBounded'
      BY <1>0, <2>1, <3>1, <3>2 DEF RunsBounded, ContRunning
    <3> QED
      BY <1>0, <2>1, <3>1, <3>2, <3>3, ContainerChange DEF VolumeFormatted
  <2> QED
    BY <2>2, <2>3
<1> QED
  BY <1>1, <1>2

\* Pulumi replaces the host: the root disk goes, the volume stays.
LEMMA ReplaceKeepsHost ==
  ASSUME HostInv, Replace
  PROVE  HostInv'
<1>0. /\ DTypeOK /\ RunsBounded /\ runs \in Nat /\ MaxHostFaults \in Nat
      /\ hostFaults \in 0 .. MaxHostFaults
  BY HostsAssumption DEF HostInv, DTypeOK
<1>1. /\ hostFaults < MaxHostFaults /\ hostFaults' = hostFaults + 1
      /\ fstab' = FALSE /\ mounted' = FALSE /\ docker' = FALSE /\ script' = "off" /\ cont' = Unset
      /\ interrupted' = {s \in interrupted \cup CutShort : s[1] = "volume"}
      /\ init' = [s \in Stores |-> IF s[1] = "root" THEN "absent" ELSE init[s]]
      /\ data' = [s \in Stores |-> IF s[1] = "root" THEN {} ELSE data[s]]
      /\ UNCHANGED <<kind, formatted, runs, home>>
  BY DEF Replace, HostFault
<1>2. /\ init' \in [Stores -> InitStages] /\ data' \in [Stores -> SUBSET Writes]
      /\ interrupted' \subseteq Stores
  BY <1>0, <1>1, CutShortFacts DEF DTypeOK, InitStages
<1>3. hostFaults' \in 0 .. MaxHostFaults /\ runs' <= hostFaults' /\ runs' <= hostFaults' + 1
  BY <1>0, <1>1 DEF RunsBounded
<1>4. DTypeOK'
  BY <1>0, <1>1, <1>2, <1>3 DEF DTypeOK
<1>5. RunsBounded'
  BY <1>0, <1>1, <1>3 DEF RunsBounded
<1>6. VolumeFormatted'
  BY <1>1 DEF VolumeFormatted
<1>7. \A s \in Stores : s[1] = "volume" => data[s] \subseteq data'[s]
  BY <1>1
<1> QED
  BY <1>1, <1>4, <1>5, <1>6, <1>7, WritesStay

\* A write goes to the directory of the server that acknowledges it.
LEMMA WriteKeepsHost ==
  ASSUME HostInv, NEW w \in Writes, Write(w)
  PROVE  HostInv'
<1>0. DTypeOK /\ RunsBounded /\ VolumeFormatted /\ WritesThere /\ cont # Unset
  BY DEF HostInv, Write, Serving, ContRunning
<1>1. PICK s \in Stores : s = StoreOf(cont)
  BY <1>0, StoreFacts
<1>2. /\ home' = [home EXCEPT ![w] = s]
      /\ data' = [data EXCEPT ![s] = @ \cup {w}]
      /\ UNCHANGED <<kind, formatted, fstab, mounted, docker, script, cont, runs, init, interrupted, hostFaults>>
  BY <1>1 DEF Write, volumeVars, hostVars, scriptVars
<1>3. (kind = "db" => s[2] = 0) /\ (s[1] = "volume" => formatted)
  BY <1>0, <1>1, StoreFacts DEF VolumeFormatted
<1>4. home' \in [Writes -> Stores \cup {Unset}] /\ data' \in [Stores -> SUBSET Writes]
  BY <1>0, <1>2 DEF DTypeOK
<1>5. DTypeOK'
  BY <1>0, <1>2, <1>4 DEF DTypeOK
<1>6. RunsBounded' /\ VolumeFormatted'
  BY <1>0, <1>2 DEF RunsBounded, VolumeFormatted, ContRunning
<1>7. ASSUME NEW v \in Writes, home'[v] # Unset
      PROVE  /\ kind' = "db" => home'[v][2] = 0
             /\ home'[v][1] = "volume" => formatted' /\ v \in data'[home'[v]]
  <2>1. CASE v = w
    BY <1>0, <1>2, <1>3, <2>1 DEF DTypeOK
  <2>2. CASE v # w
    <3>1. home'[v] = home[v] /\ home[v] \in Stores
      BY <1>0, <1>2, <1>7, <2>2 DEF DTypeOK
    <3>2. data[home[v]] \subseteq data'[home[v]]
      BY <1>0, <1>2, <3>1 DEF DTypeOK
    <3> QED
      BY <1>0, <1>2, <1>7, <3>1, <3>2 DEF WritesThere
  <2> QED
    BY <2>1, <2>2
<1> QED
  BY <1>5, <1>6, <1>7 DEF HostInv, WritesThere

\* Every step of the host keeps it.
LEMMA HostInvStep ==
  ASSUME HostInv, [DNext]_dvars
  PROVE  HostInv'
<1>1. CASE UNCHANGED dvars
  <2>1. UNCHANGED <<kind, formatted, fstab, mounted, docker, script, cont, runs, init, interrupted, data, home, hostFaults>>
    BY <1>1 DEF dvars, volumeVars, hostVars, scriptVars, storeVars
  <2>2. DTypeOK' /\ VolumeFormatted' /\ WritesThere'
    BY <2>1 DEF HostInv, DTypeOK, VolumeFormatted, WritesThere
  <2>3. RunsBounded'
    BY <2>1 DEF HostInv, RunsBounded, ContRunning
  <2> QED
    BY <2>2, <2>3 DEF HostInv
<1>2. CASE ScriptStep
  BY <1>2, ScriptKeepsHost, FormatKeepsHost, RunKeepsHost DEF ScriptStep
<1>3. CASE ContainerStep \/ ContainerDies
  BY <1>3, ContainerKeepsHost DEF ContainerStep
<1>4. CASE \E w \in Writes : Write(w)
  BY <1>4, WriteKeepsHost
<1>5. CASE AttachVolume \/ CloudInit \/ Boot \/ BootMount
  BY <1>5, ScriptKeepsHost
<1>6. CASE Crash \/ DockerUp
  BY <1>6, CrashKeepsHost
<1>7. CASE Replace
  BY <1>7, ReplaceKeepsHost
<1> QED
  BY <1>1, <1>2, <1>3, <1>4, <1>5, <1>6, <1>7 DEF DNext

LEMMA HostInvHolds == DSpec => []HostInv
<1>1. DInit => HostInv
  <2> SUFFICES ASSUME DInit PROVE HostInv
    OBVIOUS
  <2>1. kind \in {"db", "mq"}
    BY DEF DInit, HostKinds
  <2>2. DTypeOK
    <3>1. /\ init \in [Stores -> InitStages] /\ data \in [Stores -> SUBSET Writes]
          /\ home \in [Writes -> Stores \cup {Unset}] /\ interrupted \subseteq Stores
      BY DEF DInit, InitStages
    <3>2. /\ formatted \in BOOLEAN /\ fstab \in BOOLEAN /\ mounted \in BOOLEAN /\ docker \in BOOLEAN
          /\ cont \in Containers \cup {Unset}
      BY DEF DInit
    <3>3. runs \in Nat /\ hostFaults \in 0 .. MaxHostFaults
      BY HostsAssumption DEF DInit
    <3> QED
      BY <2>1, <3>1, <3>2, <3>3 DEF DTypeOK
  <2>3. RunsBounded /\ VolumeFormatted /\ WritesThere
    BY DEF DInit, RunsBounded, VolumeFormatted, WritesThere
  <2> QED
    BY <2>2, <2>3 DEF HostInv
<1>2. HostInv /\ [DNext]_dvars => HostInv'
  BY HostInvStep
<1> QED
  BY <1>1, <1>2, PTL DEF DSpec

\* No crash, retry or replacement of the host destroys what was acknowledged
\* on the volume, and a server that runs on the volume shows it, unless it
\* is a broker in a container of another number.
THEOREM VolumeAlwaysKeepsWrites == DSpec => []VolumeKeepsWrites
<1>1. HostInv => VolumeKeepsWrites
  <2> SUFFICES ASSUME HostInv, NEW w \in Writes, home[w] # Unset, home[w][1] = "volume"
               PROVE  /\ w \in data[home[w]]
                      /\ Serving /\ cont.loc = "volume" /\ w \notin data[StoreOf(cont)] =>
                           kind = "mq" /\ home[w][2] # cont.id
    BY DEF VolumeKeepsWrites
  <2>1. w \in data[home[w]] /\ home[w] \in Stores /\ kind \in {"db", "mq"}
    BY DEF HostInv, WritesThere, DTypeOK
  <2>2. ASSUME Serving, cont.loc = "volume", w \notin data[StoreOf(cont)]
        PROVE  kind = "mq" /\ home[w][2] # cont.id
    <3>1. StoreOf(cont) = <<"volume", IF kind = "db" THEN 0 ELSE cont.id>>
      BY <2>2, StoreFacts DEF HostInv, Serving, ContRunning
    <3>2. home[w] = <<"volume", home[w][2]>>
      BY <2>1 DEF Stores
    <3>3. home[w] # StoreOf(cont)
      BY <2>1, <2>2
    <3>4. kind = "db" => home[w][2] = 0
      BY DEF HostInv, WritesThere
    <3> QED
      BY <2>1, <3>1, <3>2, <3>3, <3>4
  <2> QED
    BY <2>1, <2>2
<1> QED
  BY <1>1, HostInvHolds, PTL

-----------------------------------------------------------------------------
(* The hosts: a database the script found ready is initialised *)

\* A container that did not get as far as its initialisation, or is stopped,
\* has nothing that could be cut short and serves nobody.
LEMMA NothingCut ==
  ASSUME ~ContRunning \/ cont.phase = "starting"
  PROVE  CutShort = {} /\ ~Serving /\ ~Creating
  BY DEF CutShort, Serving, Creating

LEMMA StartedNothingCut ==
  ASSUME NEW id \in Nat, cont' = Started(id)
  PROVE  CutShort' = {} /\ ~Serving' /\ ~Creating'
<1>1. cont'.phase = "starting"
  BY StartedFacts
<1> QED
  BY <1>1 DEF CutShort, Serving, Creating

\* A container left as it is.
LEMMA SameContainer ==
  ASSUME UNCHANGED <<kind, cont>>
  PROVE  /\ ContRunning' = ContRunning /\ Serving' = Serving /\ Creating' = Creating
         /\ CutShort' = CutShort /\ StoreOf(cont)' = StoreOf(cont)
<1>1. ContRunning' = ContRunning
  BY DEF ContRunning
<1>2. Serving' = Serving /\ Creating' = Creating
  BY <1>1 DEF Serving, Creating
<1>3. StoreOf(cont)' = StoreOf(cont)
  BY DEF StoreOf, DataDir
<1>4. CutShort' = CutShort
  BY <1>1, <1>3 DEF CutShort
<1> QED
  BY <1>1, <1>2, <1>3, <1>4

\* The steps of the script that leave container and stores alone.
LEMMA ScriptReady ==
  ASSUME HostInv, ReadyInv,
         \/ FindDevice \/ Mount \/ FetchSecret \/ Inspect \/ AwaitReady \/ UnitRestarts
         \/ AttachVolume \/ CloudInit \/ Boot \/ BootMount \/ (\E w \in Writes : Write(w))
  PROVE  ReadyInv'
<1>0. /\ DTypeOK /\ RunsBounded /\ BareStores /\ ScriptOnVolume /\ ReadyStays
      /\ mounted \in BOOLEAN /\ docker \in BOOLEAN
  BY DEF HostInv, ReadyInv, DTypeOK
<1>1. UNCHANGED <<kind, cont, init, interrupted>>
  BY DEF FindDevice, Mount, FetchSecret, Inspect, AwaitReady, UnitRestarts, AttachVolume,
         CloudInit, Boot, BootMount, Write, storeVars
<1>2. BareStores'
  BY <1>0, <1>1, SameContainer DEF BareStores
<1>3. ASSUME ScriptOnVolume', ReadyStays'
      PROVE  ReadyInv'
  BY <1>2, <1>3 DEF ReadyInv
<1>4. ASSUME UNCHANGED <<script, outcome>>, mounted => mounted', docker => docker',
             docker' \in BOOLEAN
      PROVE  ReadyInv'
  <2>1. ScriptOnVolume'
    BY <1>0, <1>1, <1>4, SameContainer DEF ScriptOnVolume
  <2>2. ReadyStays'
    BY <1>0, <1>1, <1>4 DEF ReadyStays
  <2> QED
    BY <1>3, <2>1, <2>2
<1>5. ASSUME script # "off", docker' = docker, script' # "ready",
             script' = "done" => outcome' = "running",
             script' \in {"secret", "inspect", "run", "done"} => mounted'
      PROVE  ReadyInv'
  <2>1. ScriptOnVolume'
    BY <1>0, <1>1, <1>5, SameContainer DEF ScriptOnVolume
  <2>2. ReadyStays'
    BY <1>5 DEF ReadyStays
  <2> QED
    BY <1>3, <2>1, <2>2
<1>6. CASE FindDevice
  BY <1>5, <1>6 DEF FindDevice, Step, hostVars
<1>7. CASE Mount
  BY <1>5, <1>7 DEF Mount, Step
<1>8. CASE FetchSecret
  BY <1>0, <1>5, <1>8 DEF FetchSecret, Step, hostVars, ScriptOnVolume
<1>9. CASE Inspect
  BY <1>0, <1>5, <1>9 DEF Inspect, Step, hostVars, ScriptOnVolume
<1>10. CASE UnitRestarts
  BY <1>5, <1>10 DEF UnitRestarts, OnFailure, hostVars
<1>11. CASE AwaitReady
  <2>1. /\ script = "ready" /\ UNCHANGED <<mounted, docker>> /\ mounted /\ docker
        /\ cont # Unset => cont.loc = "volume"
    BY <1>0, <1>11 DEF AwaitReady, Step, hostVars, ScriptOnVolume
  <2>2. CASE ~Answers
    BY <1>5, <1>11, <2>1, <2>2 DEF AwaitReady, Step
  <2>3. CASE Answers
    <3>1. script' = "done" /\ outcome' = "ready" /\ ContRunning /\ cont # Unset
      BY <1>11, <2>3 DEF AwaitReady, Step, Answers, ContRunning
    <3>2. ScriptOnVolume'
      BY <1>1, <2>1, <3>1 DEF ScriptOnVolume
    <3>3. kind = "db" => init[<<"volume", 0>>] = "ready" \/ <<"volume", 0>> \in interrupted
      <4>1. SUFFICES ASSUME kind = "db" PROVE init[<<"volume", 0>>] = "ready" \/ <<"volume", 0>> \in interrupted
        OBVIOUS
      <4>2. Serving
        BY <2>3, <4>1 DEF Answers, Serving
      <4>3. StoreOf(cont) = <<"volume", 0>>
        BY <1>0, <2>1, <3>1, <4>1, StoreFacts
      <4> QED
        BY <1>0, <4>1, <4>2, <4>3 DEF BareStores
    <3>4. ReadyStays'
      BY <1>1, <3>3 DEF ReadyStays
    <3> QED
      BY <1>3, <3>2, <3>4
  <2> QED
    BY <2>2, <2>3
<1>12. CASE AttachVolume \/ Boot \/ BootMount \/ (\E w \in Writes : Write(w))
  BY <1>0, <1>4, <1>12 DEF AttachVolume, Boot, BootMount, Write, hostVars, scriptVars
<1>13. CASE CloudInit
  <2>1. CASE docker' = TRUE /\ script' = "device"
    <3>1. ScriptOnVolume'
      BY <2>1 DEF ScriptOnVolume
    <3>2. ReadyStays'
      BY <2>1 DEF ReadyStays
    <3> QED
      BY <1>3, <3>1, <3>2
  <2>2. CASE UNCHANGED <<docker, script>>
    BY <1>0, <1>4, <1>13, <2>2 DEF CloudInit
  <2> QED
    BY <1>13, <2>1, <2>2 DEF CloudInit
<1> QED
  BY <1>6, <1>7, <1>8, <1>9, <1>10, <1>11, <1>12, <1>13

\* A step that leaves the host and the script alone keeps what was ready.
LEMMA ContainerReady ==
  ASSUME HostInv, ReadyInv, UNCHANGED <<kind, mounted, docker, script, outcome>>,
         cont # Unset, cont'.loc = cont.loc \/ cont'.loc = Bound,
         ContRunning' => docker,
         BareStores',
         interrupted \subseteq interrupted',
         kind = "db" => \A s \in Stores : init[s] = "ready" => init'[s] = "ready"
  PROVE  ReadyInv'
<1>0. ScriptOnVolume /\ ReadyStays /\ mounted \in BOOLEAN /\ docker \in BOOLEAN
  BY DEF ReadyInv, HostInv, DTypeOK
<1>1. ScriptOnVolume'
  BY <1>0 DEF ScriptOnVolume, Bound
<1>2. <<"volume", 0>> \in Stores
  BY HostsAssumption DEF Stores
<1>3. ReadyStays'
  BY <1>0, <1>2 DEF ReadyStays
<1> QED
  BY <1>1, <1>3 DEF ReadyInv

LEMMA BootsReady ==
  ASSUME HostInv, ReadyInv, ContainerBoots
  PROVE  ReadyInv'
<1>0. /\ DTypeOK /\ RunsBounded /\ BareStores /\ ScriptOnVolume /\ ContRunning /\ cont # Unset
      /\ cont.phase = "starting" /\ init \in [Stores -> InitStages]
      /\ UNCHANGED <<kind, mounted, docker, script, outcome, interrupted>>
  BY DEF HostInv, ReadyInv, DTypeOK, ContainerBoots, ContRunning, hostVars, scriptVars
<1>1. PICK s \in Stores : s = StoreOf(cont)
  BY <1>0, StoreFacts
<1>2. CutShort = {}
  BY <1>0, NothingCut
<1>3. docker
  BY <1>0 DEF ScriptOnVolume
<1>4. \A t \in Stores : kind = "db" /\ init[t] \in {"partial", "bare"} => t \in interrupted
  BY <1>0, <1>2 DEF BareStores
<1>5. CASE kind = "db" /\ init[s] = "absent"
  <2>1. cont' = [cont EXCEPT !.phase = "initdb"] /\ init' = [init EXCEPT ![s] = "partial"]
    BY <1>0, <1>1, <1>5 DEF ContainerBoots
  <2>2. /\ cont'.id = cont.id /\ cont'.loc = cont.loc /\ cont'.running = TRUE
        /\ cont'.phase = "initdb" /\ cont' # Unset
    BY <1>0, <2>1, PhaseFacts
  <2>3. StoreOf(cont)' = s
    BY <1>0, <1>1, <2>2 DEF StoreOf, DataDir
  <2>4. ~Serving' /\ CutShort' = {s}
    BY <2>2, <2>3 DEF Serving, Creating, CutShort, ContRunning
  <2>5. /\ init'[s] = "partial"
        /\ \A t \in Stores \ {s} : init'[t] = init[t]
        /\ \A t \in Stores : init[t] = "ready" => init'[t] = "ready"
    BY <1>0, <1>5, <2>1
  <2>6. BareStores'
    BY <1>0, <1>4, <2>3, <2>4, <2>5 DEF BareStores
  <2> QED
    BY <1>0, <1>3, <2>2, <2>5, <2>6, ContainerReady
<1>6. CASE kind = "db" /\ init[s] = "partial"
  <2>1. cont' = Stopped /\ init' = init
    BY <1>0, <1>1, <1>6 DEF ContainerBoots
  <2>2. cont'.loc = cont.loc /\ ~ContRunning'
    BY <1>0, <2>1, StoppedFacts DEF ContRunning
  <2>3. ~Serving' /\ ~Creating' /\ CutShort' = {}
    BY <2>2 DEF Serving, Creating, CutShort
  <2>4. BareStores'
    BY <1>0, <1>4, <2>1, <2>3 DEF BareStores
  <2> QED
    BY <1>0, <2>1, <2>2, <2>4, ContainerReady
<1>7. CASE kind = "db" /\ init[s] \in {"bare", "ready"}
  <2>1. cont' = [cont EXCEPT !.phase = "up"] /\ init' = init
    BY <1>0, <1>1, <1>7 DEF ContainerBoots
  <2>2. /\ cont'.id = cont.id /\ cont'.loc = cont.loc /\ cont'.running = TRUE
        /\ cont'.phase = "up" /\ cont' # Unset
    BY <1>0, <2>1, PhaseFacts
  <2>3. StoreOf(cont)' = s
    BY <1>0, <1>1, <2>2 DEF StoreOf, DataDir
  <2>4. init[s] = "ready" \/ s \in interrupted
    BY <1>4, <1>7
  <2>5. ~Creating'
    BY <2>2 DEF Creating
  <2>6. BareStores'
    BY <1>0, <1>4, <2>1, <2>3, <2>4, <2>5 DEF BareStores
  <2> QED
    BY <1>0, <1>3, <2>1, <2>2, <2>6, ContainerReady
<1>8. CASE kind = "mq"
  <2>1. /\ cont' = [cont EXCEPT !.phase = "init"]
        /\ init' = [init EXCEPT ![s] = IF @ = "absent" THEN "bare" ELSE @]
    BY <1>0, <1>1, <1>8 DEF ContainerBoots
  <2>2. /\ cont'.id = cont.id /\ cont'.loc = cont.loc /\ cont'.running = TRUE
        /\ cont'.phase = "init" /\ cont' # Unset
    BY <1>0, <2>1, PhaseFacts
  <2>3. BareStores'
    BY <1>0, <1>8 DEF BareStores
  <2>4. \A t \in Stores : init[t] = "ready" => init'[t] = "ready"
    BY <1>0, <2>1
  <2> QED
    BY <1>0, <1>3, <2>2, <2>3, <2>4, ContainerReady
<1>9. init[s] \in InitStages /\ kind \in {"db", "mq"}
  BY <1>0 DEF DTypeOK
<1> QED
  BY <1>5, <1>6, <1>7, <1>8, <1>9 DEF InitStages

\* initdb ends, and the init scripts begin.
LEMMA CreatedReady ==
  ASSUME HostInv, ReadyInv, DatabaseCreated
  PROVE  ReadyInv'
<1>0. /\ DTypeOK /\ RunsBounded /\ BareStores /\ ScriptOnVolume /\ ContRunning /\ cont # Unset
      /\ cont.phase = "initdb" /\ init \in [Stores -> InitStages]
      /\ UNCHANGED <<kind, mounted, docker, script, outcome, interrupted>>
      /\ cont' = [cont EXCEPT !.phase = "init"]
  BY DEF HostInv, ReadyInv, DTypeOK, DatabaseCreated, Creating, ContRunning, hostVars, scriptVars
<1>1. PICK s \in Stores : s = StoreOf(cont)
  BY <1>0, StoreFacts
<1>2. CutShort = {s} /\ docker
  BY <1>0, <1>1, CutShortFacts DEF ScriptOnVolume
<1>3. /\ cont' # Unset /\ cont'.id = cont.id /\ cont'.loc = cont.loc /\ cont'.running = TRUE
      /\ cont'.phase = "init"
  BY <1>0, PhaseFacts
<1>4. StoreOf(cont)' = s
  BY <1>0, <1>1, <1>3 DEF StoreOf, DataDir
<1>5. ~Serving' /\ ~Creating' /\ CutShort' = {s}
  BY <1>3, <1>4 DEF Serving, Creating, CutShort, ContRunning
<1>6. init' = [init EXCEPT ![s] = "bare"]
  BY <1>1 DEF DatabaseCreated
<1>7. BareStores'
  BY <1>0, <1>2, <1>5, <1>6 DEF BareStores
<1>8. kind = "db" => init[s] # "ready"
  BY <1>0, <1>1 DEF BareStores, Creating
<1> QED
  BY <1>0, <1>2, <1>3, <1>6, <1>7, <1>8, ContainerReady

LEMMA InitialisedReady ==
  ASSUME HostInv, ReadyInv, ContainerInitialised
  PROVE  ReadyInv'
<1>0. /\ DTypeOK /\ RunsBounded /\ BareStores /\ ScriptOnVolume /\ ContRunning /\ cont # Unset
      /\ cont.phase = "init" /\ init \in [Stores -> InitStages]
      /\ UNCHANGED <<kind, mounted, docker, script, outcome, interrupted>>
      /\ cont' = [cont EXCEPT !.phase = "up"]
  BY DEF HostInv, ReadyInv, DTypeOK, ContainerInitialised, ContRunning, hostVars, scriptVars
<1>1. PICK s \in Stores : s = StoreOf(cont)
  BY <1>0, StoreFacts
<1>2. CutShort = {s}
  BY <1>0, <1>1, CutShortFacts
<1>3. docker
  BY <1>0 DEF ScriptOnVolume
<1>4. /\ cont' # Unset /\ cont'.id = cont.id /\ cont'.loc = cont.loc /\ cont'.running = TRUE
      /\ cont'.phase = "up"
  BY <1>0, PhaseFacts
<1>5. StoreOf(cont)' = s
  BY <1>0, <1>1, <1>4 DEF StoreOf, DataDir
<1>6. init' = [init EXCEPT ![s] = "ready"]
  BY <1>1 DEF ContainerInitialised
<1>7. /\ init'[s] = "ready"
      /\ \A t \in Stores : t # s => init'[t] = init[t]
      /\ \A t \in Stores : init[t] = "ready" => init'[t] = "ready"
  BY <1>0, <1>6
<1>8. BareStores'
  <2>1. ~Creating'
    BY <1>4 DEF Creating
  <2> QED
    BY <1>0, <1>2, <1>5, <1>7, <2>1 DEF BareStores
<1> QED
  BY <1>0, <1>3, <1>4, <1>7, <1>8, ContainerReady

LEMMA DiesReady ==
  ASSUME HostInv, ReadyInv, ContainerDies
  PROVE  ReadyInv'
<1>0. /\ DTypeOK /\ BareStores /\ cont # Unset
      /\ UNCHANGED <<kind, mounted, docker, script, outcome, init>>
      /\ interrupted' = interrupted \cup CutShort /\ cont' = Stopped
  BY DEF HostInv, ReadyInv, ContainerDies, ContRunning, hostVars, scriptVars
<1>1. cont'.loc = cont.loc /\ ~ContRunning'
  BY <1>0, StoppedFacts DEF ContRunning
<1>2. ~Serving' /\ ~Creating' /\ CutShort' = {}
  BY <1>1 DEF Serving, Creating, CutShort
<1>3. BareStores'
  BY <1>0, <1>2 DEF BareStores
<1> QED
  BY <1>0, <1>1, <1>3, ContainerReady

LEMMA RestartsReady ==
  ASSUME HostInv, ReadyInv, ContainerRestarts
  PROVE  ReadyInv'
<1>0. /\ DTypeOK /\ BareStores /\ cont # Unset /\ docker /\ ~ContRunning /\ cont.id \in Nat
      /\ UNCHANGED <<kind, mounted, docker, script, outcome, init, interrupted>>
  BY DEF HostInv, ReadyInv, DTypeOK, Containers, ContainerRestarts, ContRunning, hostVars, scriptVars, storeVars
<1>1. PICK id \in Nat : cont' = Started(id)
  BY <1>0 DEF ContainerRestarts
<1>2. cont'.loc = Bound
  BY <1>1, StartedFacts
<1>3. ~Serving' /\ ~Creating' /\ CutShort' = {} /\ CutShort = {}
  BY <1>0, <1>1, StartedNothingCut, NothingCut
<1>4. BareStores'
  BY <1>0, <1>3 DEF BareStores
<1> QED
  BY <1>0, <1>2, <1>4, ContainerReady

\* mkfs empties only directories nobody serves.
LEMMA FormatReady ==
  ASSUME HostInv, ReadyInv, Format
  PROVE  ReadyInv'
<1>0. /\ DTypeOK /\ RunsBounded /\ VolumeFormatted /\ BareStores /\ ScriptOnVolume
      /\ script = "format" /\ script' = "mount" /\ UNCHANGED <<kind, docker, cont, interrupted>>
      /\ formatted \in BOOLEAN /\ docker \in BOOLEAN
  BY DEF HostInv, ReadyInv, DTypeOK, Format, Step, hostVars
<1>1. ScriptOnVolume'
  BY <1>0 DEF ScriptOnVolume
<1>2. ReadyStays'
  BY <1>0 DEF ReadyStays
<1>3. CASE formatted
  <2>1. init' = init
    BY <1>3 DEF Format, HasFilesystem
  <2>2. BareStores'
    BY <1>0, <2>1, SameContainer DEF BareStores
  <2> QED
    BY <1>1, <1>2, <2>2 DEF ReadyInv
<1>4. CASE ~formatted
  <2>1. init' = [s \in Stores |-> IF s[1] = "volume" THEN "absent" ELSE init[s]]
    BY <1>4 DEF Format, HasFilesystem
  <2>2. \A s \in Stores : init'[s] \in {"partial", "bare"} => init[s] \in {"partial", "bare"}
    BY <2>1
  <2>3. Serving \/ Creating => StoreOf(cont) \in Stores /\ init'[StoreOf(cont)] = init[StoreOf(cont)]
    <3>1. SUFFICES ASSUME Serving \/ Creating
                   PROVE  StoreOf(cont) \in Stores /\ init'[StoreOf(cont)] = init[StoreOf(cont)]
      OBVIOUS
    <3>2. cont # Unset
      BY <3>1 DEF Serving, Creating, ContRunning
    <3>3. StoreOf(cont) \in Stores /\ StoreOf(cont)[1] # "volume"
      BY <1>0, <1>4, <3>2, StoreFacts DEF VolumeFormatted
    <3> QED
      BY <2>1, <3>3
  <2>4. BareStores'
    BY <1>0, <2>2, <2>3, SameContainer DEF BareStores
  <2> QED
    BY <1>1, <1>2, <2>4 DEF ReadyInv
<1> QED
  BY <1>3, <1>4

\* docker run starts the container on the mounted volume.
LEMMA RunReady ==
  ASSUME HostInv, ReadyInv, DockerRun
  PROVE  ReadyInv'
<1>0. /\ BareStores /\ script = "run" /\ script' \in {"ready", "failed"} /\ runs \in Nat
      /\ mounted /\ docker /\ interrupted' = interrupted \cup CutShort
      /\ UNCHANGED <<kind, mounted, docker, init>>
  BY DEF HostInv, ReadyInv, ScriptOnVolume, DTypeOK, DockerRun, Step, hostVars
<1>1. ReadyStays'
  BY <1>0 DEF ReadyStays
<1>2. CASE cont' = Unset
  <2>1. ~Serving' /\ ~Creating' /\ CutShort' = {} /\ ~ContRunning'
    BY <1>2 DEF Serving, Creating, CutShort, ContRunning
  <2>2. BareStores'
    BY <1>0, <2>1 DEF BareStores
  <2>3. ScriptOnVolume'
    BY <1>0, <1>2, <2>1 DEF ScriptOnVolume
  <2> QED
    BY <1>1, <2>2, <2>3 DEF ReadyInv
<1>3. CASE cont' = Started(NextId)
  <2>1. PICK num \in Nat : cont' = Started(num)
    BY <1>0, <1>3 DEF NextId
  <2>2. ~Serving' /\ ~Creating' /\ CutShort' = {} /\ cont'.loc = "volume"
    BY <1>0, <2>1, StartedNothingCut, StartedFacts DEF Bound
  <2>3. BareStores'
    BY <1>0, <2>2 DEF BareStores
  <2>4. ScriptOnVolume'
    BY <1>0, <2>2 DEF ScriptOnVolume
  <2> QED
    BY <1>1, <2>3, <2>4 DEF ReadyInv
<1> QED
  BY <1>2, <1>3 DEF DockerRun

\* A crash records what it cuts short.
LEMMA CrashReady ==
  ASSUME HostInv, ReadyInv, Crash \/ Replace
  PROVE  ReadyInv'
<1>0. /\ DTypeOK /\ RunsBounded /\ BareStores /\ docker' = FALSE /\ script' = "off" /\ kind' = kind
      /\ init \in [Stores -> InitStages]
  BY DEF HostInv, ReadyInv, DTypeOK, Crash, Down, Replace
<1>1. ~ContRunning'
  BY <1>0, StoppedFacts DEF Crash, Replace, ContRunning
<1>2. ~Serving' /\ ~Creating' /\ CutShort' = {}
  BY <1>1 DEF Serving, Creating, CutShort
<1>3. ScriptOnVolume' /\ ReadyStays'
  BY <1>0, <1>1 DEF ScriptOnVolume, ReadyStays
<1>4. ASSUME NEW s \in Stores, init'[s] \in {"partial", "bare"}, kind = "db"
      PROVE  s \in interrupted'
  <2>1. CASE Crash
    BY <1>0, <1>4, <2>1 DEF Crash, Down, BareStores
  <2>2. CASE Replace
    <3>1. init' = [t \in Stores |-> IF t[1] = "root" THEN "absent" ELSE init[t]]
      BY <2>2 DEF Replace
    <3>2. s[1] # "root" /\ init[s] \in {"partial", "bare"}
      BY <1>4, <3>1
    <3>3. s[1] = "volume" /\ s \in interrupted \cup CutShort
      BY <1>0, <1>4, <3>2 DEF Stores, BareStores
    <3> QED
      BY <2>2, <3>3 DEF Replace
  <2> QED
    BY <2>1, <2>2
<1>5. BareStores'
  BY <1>0, <1>2, <1>4 DEF BareStores
<1> QED
  BY <1>3, <1>5 DEF ReadyInv

\* docker restarts a container that was down, and the script begins anew.
LEMMA DockerUpReady ==
  ASSUME HostInv, ReadyInv, DockerUp
  PROVE  ReadyInv'
<1>0. /\ DTypeOK /\ BareStores /\ ~ContRunning /\ docker' = TRUE /\ script' = "device"
      /\ UNCHANGED <<kind, init, interrupted>>
  BY DEF HostInv, ReadyInv, ScriptOnVolume, DockerUp, storeVars
<1>1. ScriptOnVolume' /\ ReadyStays'
  BY <1>0 DEF ScriptOnVolume, ReadyStays
<1>2. CutShort = {} /\ ~Serving' /\ ~Creating' /\ CutShort' = {}
  <2>1. CutShort = {}
    BY <1>0, NothingCut
  <2>2. CASE cont = Unset
    <3>1. ~ContRunning'
      BY <2>2 DEF DockerUp, ContRunning
    <3> QED
      BY <2>1, <3>1 DEF Serving, Creating, CutShort
  <2>3. CASE cont # Unset
    <3>1. PICK num \in Nat : cont' = Started(num)
      BY <1>0, <2>3 DEF DockerUp, DTypeOK, Containers
    <3> QED
      BY <2>1, <3>1, StartedNothingCut
  <2> QED
    BY <2>2, <2>3
<1>3. BareStores'
  BY <1>0, <1>2 DEF BareStores
<1> QED
  BY <1>1, <1>3 DEF ReadyInv

\* When the script ends because PostgreSQL answered, the directory it serves
\* has its init scripts behind it, or an initialisation that was cut short.
THEOREM ReadyAlwaysInitialised == DSpec => []ReadyMeansInitialised
<1>1. DInit => ReadyInv
  <2> SUFFICES ASSUME DInit PROVE ReadyInv
    OBVIOUS
  <2>1. ~ContRunning /\ ~Serving /\ ~Creating
    BY DEF DInit, ContRunning, Serving, Creating
  <2> QED
    BY <2>1 DEF DInit, ReadyInv, BareStores, ScriptOnVolume, ReadyStays
<1>2. HostInv /\ ReadyInv /\ [DNext]_dvars => ReadyInv'
  <2> SUFFICES ASSUME HostInv, ReadyInv, [DNext]_dvars PROVE ReadyInv'
    OBVIOUS
  <2>1. CASE UNCHANGED dvars
    <3>1. UNCHANGED <<kind, mounted, docker, script, outcome, cont, init, interrupted>>
      BY <2>1 DEF dvars, volumeVars, hostVars, scriptVars, storeVars
    <3>2. BareStores' /\ ScriptOnVolume'
      BY <3>1, SameContainer DEF ReadyInv, BareStores, ScriptOnVolume
    <3>3. ReadyStays'
      BY <3>1 DEF ReadyInv, ReadyStays
    <3> QED
      BY <3>2, <3>3 DEF ReadyInv
  <2>2. CASE ScriptStep
    BY <2>2, ScriptReady, FormatReady, RunReady DEF ScriptStep
  <2>3. CASE ContainerStep
    BY <2>3, BootsReady, CreatedReady, InitialisedReady, RestartsReady DEF ContainerStep
  <2>4. CASE ContainerDies
    BY <2>4, DiesReady
  <2>5. CASE AttachVolume \/ CloudInit \/ Boot \/ BootMount \/ (\E w \in Writes : Write(w))
    BY <2>5, ScriptReady
  <2>6. CASE Crash \/ Replace
    BY <2>6, CrashReady
  <2>7. CASE DockerUp
    BY <2>7, DockerUpReady
  <2> QED
    BY <2>1, <2>2, <2>3, <2>4, <2>5, <2>6, <2>7 DEF DNext
<1>3. HostInv /\ ReadyInv => ReadyMeansInitialised
  <2> SUFFICES ASSUME HostInv, ReadyInv, kind = "db", script = "done", outcome = "ready", ContRunning
               PROVE  init[StoreOf(cont)] = "ready" \/ StoreOf(cont) \in interrupted
    BY DEF ReadyMeansInitialised
  <2>1. cont # Unset /\ cont.loc = "volume"
    BY DEF ContRunning, ReadyInv, ScriptOnVolume
  <2>2. StoreOf(cont) = <<"volume", 0>>
    BY <2>1, StoreFacts DEF HostInv
  <2> QED
    BY <2>2 DEF ReadyInv, ReadyStays
<1> QED
  BY <1>1, <1>2, <1>3, HostInvHolds, PTL DEF DSpec
=============================================================================
