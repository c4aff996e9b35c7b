----------------------------- MODULE DataHosts -----------------------------
(***************************************************************************)
(* The EC2 host of the stage database (PostgreSQL) or of the broker        *)
(* (RabbitMQ): cloud-init installs a systemd unit whose bootstrap script   *)
(* mounts the data volume and runs one container on it.  The host crashes, *)
(* is replaced by Pulumi, and the container is restarted by docker, all    *)
(* while the data stays on the volume.                                     *)
(*                                                                         *)
(* A store is a directory of the volume, or of the root disk when the      *)
(* mount path is not mounted as a container starts: a bind mount keeps the *)
(* directory it was resolved to.  PostgreSQL always uses the same          *)
(* directory; RabbitMQ names its own after the node, and the node after    *)
(* the container.                                                          *)
(***************************************************************************)
EXTENDS Integers, FiniteSets

CONSTANTS
  Stacks,      \* the stacks: their names, and the configured database backend
  Roles,       \* the configured user names of the services
  Word,        \* the words the init SQL has in their place
  Unset,
  MaxHostFaults,  \* bound: crashes, replacements, failing commands
  MaxWrites       \* bound: writes acknowledged to clients

\* Stores are numbered by the container a broker's directory is named after.
Stores == {"volume", "root"} \X (0 .. MaxHostFaults + 1)

\* An empty directory, one initdb works in, one without its init scripts.
InitStages == {"absent", "partial", "bare", "ready"}

Containers == [id : Nat, running : BOOLEAN, phase : {"starting", "initdb", "init", "up"},
               loc : {"volume", "root"}]

ASSUME HostsAssumption ==
  /\ Stacks \subseteq [stack : {"stage", "production"}, backend : {Unset, "rds", "ec2-postgres"}]
  /\ Word \in [Roles -> STRING]
  /\ Roles \cap {Word[r] : r \in Roles} = {}
  /\ MaxHostFaults \in Nat /\ MaxWrites \in Nat
  /\ Unset \notin Stores \cup Containers

VARIABLES
  kind,        \* what the host serves: "db" or "mq"
  attached,    \* the volume is attached to this host
  formatted,   \* the volume has a filesystem
  power,       \* the host runs
  setup,       \* the user data: "new", "enabled" (the unit is), "broken"
  fstab,       \* the entry in /etc/fstab
  mounted,     \* the volume is mounted on the mount path
  docker,      \* the docker daemon runs
  script,      \* the bootstrap script
  outcome,     \* why the script exited with 0
  cont,        \* the container, Unset when there is none
  runs,        \* containers created so far, where a directory is named after one
  init,        \* how far the initialisation of a store went
  interrupted, \* stores whose initialisation was cut short
  roles,       \* the roles of a store
  data,        \* the writes in a store
  home,        \* where an acknowledged write was made
  hostFaults

volumeVars == <<attached, formatted>>
hostVars == <<power, setup, fstab, mounted, docker>>
scriptVars == <<script, outcome>>
storeVars == <<init, interrupted, roles, data, home>>
dvars == <<kind, volumeVars, hostVars, scriptVars, cont, runs, storeVars, hostFaults>>

Writes == 1 .. MaxWrites

\* getFoundationDatabaseConfig: by default only stage runs PostgreSQL on a
\* host of its own.
Backend(s) ==
  IF s.backend # Unset THEN s.backend ELSE IF s.stack = "stage" THEN "ec2-postgres" ELSE "rds"

\* Every stack has a broker host; RDS needs no host.
HostKinds == {"mq"} \cup {"db" : s \in {x \in Stacks : Backend(x) = "ec2-postgres"}}

DInit ==
  /\ kind \in HostKinds
  /\ attached = FALSE /\ formatted = FALSE
  /\ power = TRUE /\ setup = "new" /\ fstab = FALSE /\ mounted = FALSE /\ docker = FALSE
  /\ script = "off" /\ outcome = Unset
  /\ cont = Unset /\ runs = 0
  /\ init = [s \in Stores |-> "absent"] /\ interrupted = {}
  /\ roles = [s \in Stores |-> {}]
  /\ data = [s \in Stores |-> {}]
  /\ home = [w \in Writes |-> Unset]
  /\ hostFaults = 0

HostFault == hostFaults < MaxHostFaults /\ hostFaults' = hostFaults + 1

-----------------------------------------------------------------------------
(* The container *)

\* PGDATA is fixed; a RabbitMQ node is named after the container's host name.
DataDir(id) == IF kind = "db" THEN 0 ELSE id

StoreOf(c) == <<c.loc, DataDir(c.id)>>

\* The directory the bind mount is resolved to when a container starts.
Bound == IF mounted THEN "volume" ELSE "root"

Started(id) == [id |-> id, running |-> TRUE, phase |-> "starting", loc |-> Bound]

ContRunning == cont # Unset /\ cont.running

Serving == ContRunning /\ cont.phase = "up"

Creating == ContRunning /\ cont.phase = "initdb"

\* What is left of an initialisation that stops half-way.
CutShort == IF ContRunning /\ cont.phase \in {"initdb", "init"} THEN {StoreOf(cont)} ELSE {}

Stopped == IF cont = Unset THEN Unset ELSE [cont EXCEPT !.running = FALSE]

\* The names in the bootstrap secret of the database, which the host's script
\* reads.
BootstrapRoles == Roles

\* The default user in the bootstrap secret of the broker: the image makes it.
BrokerRoles == Roles

\* The names in the access secrets, which the services log in with.
AccessRoles == Roles

\* The init SQL is written by a quoted here-document: no word is expanded.
InitSqlRoles == {Word[r] : r \in BootstrapRoles}

\* The entrypoint.  PostgreSQL begins initdb in an empty directory, and
\* skips the init scripts in one that initdb has finished; a directory that
\* initdb left half-way is neither, and the container exits.  RabbitMQ
\* creates the default user whenever it has none.
ContainerBoots ==
  /\ ContRunning /\ cont.phase = "starting"
  /\ LET s == StoreOf(cont) IN
       \/ /\ kind = "db" /\ init[s] = "absent"
          /\ cont' = [cont EXCEPT !.phase = "initdb"]
          /\ init' = [init EXCEPT ![s] = "partial"]
       \/ /\ kind = "db" /\ init[s] = "partial"
          /\ cont' = Stopped
          /\ UNCHANGED init
       \/ /\ kind = "db" /\ init[s] \in {"bare", "ready"}
          /\ cont' = [cont EXCEPT !.phase = "up"]
          /\ UNCHANGED init
       \/ /\ kind = "mq"
          /\ cont' = [cont EXCEPT !.phase = "init"]
          /\ init' = [init EXCEPT ![s] = IF @ = "absent" THEN "bare" ELSE @]
  /\ UNCHANGED <<kind, volumeVars, hostVars, scriptVars, runs, interrupted, roles, data, home, hostFaults>>

\* initdb is done; the init scripts run against a temporary server.
DatabaseCreated ==
  /\ Creating
  /\ cont' = [cont EXCEPT !.phase = "init"]
  /\ init' = [init EXCEPT ![StoreOf(cont)] = "bare"]
  /\ UNCHANGED <<kind, volumeVars, hostVars, scriptVars, runs, interrupted, roles, data, home, hostFaults>>

ContainerInitialised ==
  /\ ContRunning /\ cont.phase = "init"
  /\ LET s == StoreOf(cont) IN
       /\ init' = [init EXCEPT ![s] = "ready"]
       /\ roles' = [roles EXCEPT ![s] = IF kind = "db" THEN InitSqlRoles ELSE BrokerRoles]
  /\ cont' = [cont EXCEPT !.phase = "up"]
  /\ UNCHANGED <<kind, volumeVars, hostVars, scriptVars, runs, interrupted, data, home, hostFaults>>

ContainerDies ==
  /\ ContRunning /\ HostFault
  /\ interrupted' = interrupted \cup CutShort
  /\ cont' = Stopped
  /\ UNCHANGED <<kind, volumeVars, hostVars, scriptVars, runs, init, roles, data, home>>

\* --restart unless-stopped.
ContainerRestarts ==
  /\ docker /\ cont # Unset /\ ~cont.running
  /\ cont' = Started(cont.id)
  /\ UNCHANGED <<kind, volumeVars, hostVars, scriptVars, runs, storeVars, hostFaults>>

\* A client the server lets in gets a write acknowledged: an order message
\* of the shop, a statement of an operator.
Write(w) ==
  /\ Serving /\ home[w] = Unset
  /\ \A v \in Writes : v < w => home[v] # Unset
  /\ home' = [home EXCEPT ![w] = StoreOf(cont)]
  /\ data' = [data EXCEPT ![StoreOf(cont)] = @ \cup {w}]
  /\ UNCHANGED <<kind, volumeVars, hostVars, scriptVars, cont, runs, init, interrupted, roles, hostFaults>>

-----------------------------------------------------------------------------
(* The host *)

\* Pulumi's VolumeAttachment follows the instance.
AttachVolume ==
  /\ ~attached /\ attached' = TRUE
  /\ UNCHANGED <<kind, formatted, hostVars, scriptVars, cont, runs, storeVars, hostFaults>>

\* The user data: packages, docker, the unit.  It runs once and under set -e.
CloudInit ==
  /\ power /\ setup = "new"
  /\ \/ /\ setup' = "enabled" /\ docker' = TRUE /\ script' = "device"
        /\ UNCHANGED hostFaults
     \/ /\ setup' = "broken" /\ HostFault
        /\ UNCHANGED <<docker, script>>
  /\ UNCHANGED <<kind, volumeVars, power, fstab, mounted, outcome, cont, runs, storeVars>>

Down ==
  /\ power' = FALSE /\ mounted' = FALSE /\ docker' = FALSE
  /\ script' = "off" /\ outcome' = Unset
  /\ interrupted' = interrupted \cup CutShort

\* A crash or a reboot.  Interrupted user data may or may not run again.
Crash ==
  /\ power /\ HostFault /\ Down
  /\ setup' \in (IF setup = "new" THEN {"new", "broken"} ELSE {setup})
  /\ cont' = Stopped
  /\ UNCHANGED <<kind, volumeVars, fstab, runs, init, roles, data, home>>

Boot ==
  /\ ~power /\ power' = TRUE
  /\ UNCHANGED <<kind, volumeVars, setup, fstab, mounted, docker, scriptVars, cont, runs, storeVars, hostFaults>>

\* The nofail entry: nothing of the boot waits for this mount.
BootMount ==
  /\ power /\ fstab /\ attached /\ ~mounted
  /\ mounted' = TRUE
  /\ UNCHANGED <<kind, volumeVars, power, setup, fstab, docker, scriptVars, cont, runs, storeVars, hostFaults>>

\* docker.service restarts its containers, then the unit's script starts.
DockerUp ==
  /\ power /\ ~docker /\ setup = "enabled"
  /\ docker' = TRUE /\ script' = "device"
  /\ cont' = IF cont = Unset THEN Unset ELSE Started(cont.id)
  /\ UNCHANGED <<kind, volumeVars, power, setup, fstab, mounted, outcome, runs, storeVars, hostFaults>>

\* Pulumi replaces the instance (userDataReplaceOnChange): it is stopped, the
\* volume detached, the root disk with it gone, and a new one launched.
Replace ==
  /\ HostFault
  /\ attached' = FALSE
  /\ power' = TRUE /\ setup' = "new" /\ fstab' = FALSE /\ mounted' = FALSE /\ docker' = FALSE
  /\ script' = "off" /\ outcome' = Unset
  /\ cont' = Unset
  /\ interrupted' = {s \in interrupted \cup CutShort : s[1] = "volume"}
  /\ init' = [s \in Stores |-> IF s[1] = "root" THEN "absent" ELSE init[s]]
  /\ roles' = [s \in Stores |-> IF s[1] = "root" THEN {} ELSE roles[s]]
  /\ data' = [s \in Stores |-> IF s[1] = "root" THEN {} ELSE data[s]]
  /\ UNCHANGED <<kind, formatted, runs, home>>

-----------------------------------------------------------------------------
(* The bootstrap script *)

Step(from, to) == script = from /\ script' = to

\* The loop looks for the device for six minutes.
FindDevice ==
  /\ IF attached THEN Step("device", "format") ELSE Step("device", "failed")
  /\ UNCHANGED <<kind, volumeVars, hostVars, outcome, cont, runs, storeVars, hostFaults>>

\* A variant of HasFilesystem: blkid is not asked.
HasFilesystem_Ignored == mounted

HasFilesystem == formatted

Format ==
  /\ Step("format", "mount")
  /\ IF HasFilesystem
       THEN UNCHANGED <<formatted, init, roles, data>>
       ELSE /\ formatted' = TRUE
            /\ init' = [s \in Stores |-> IF s[1] = "volume" THEN "absent" ELSE init[s]]
            /\ roles' = [s \in Stores |-> IF s[1] = "volume" THEN {} ELSE roles[s]]
            /\ data' = [s \in Stores |-> IF s[1] = "volume" THEN {} ELSE data[s]]
  /\ UNCHANGED <<kind, attached, hostVars, outcome, cont, runs, interrupted, home, hostFaults>>

Mount ==
  /\ Step("mount", "secret")
  /\ fstab' = TRUE
  /\ mounted' = TRUE
  /\ UNCHANGED <<kind, volumeVars, power, setup, docker, outcome, cont, runs, storeVars, hostFaults>>

FetchSecret ==
  /\ \/ Step("secret", "inspect") /\ UNCHANGED hostFaults
     \/ Step("secret", "failed") /\ HostFault
  /\ UNCHANGED <<kind, volumeVars, hostVars, outcome, cont, runs, storeVars>>

Inspect ==
  /\ IF ContRunning
       THEN Step("inspect", "done") /\ outcome' = "running"
       ELSE Step("inspect", "run") /\ UNCHANGED outcome
  /\ UNCHANGED <<kind, volumeVars, hostVars, cont, runs, storeVars, hostFaults>>

\* Only a broker's directory depends on which container it is.
NextId == IF kind = "db" THEN 0 ELSE runs + 1

\* docker rm -f and docker run; what runs by now is removed too.
DockerRun ==
  /\ interrupted' = interrupted \cup CutShort
  /\ \/ /\ Step("run", "ready")
        /\ runs' = NextId
        /\ cont' = Started(NextId)
        /\ UNCHANGED hostFaults
     \/ /\ Step("run", "failed") /\ HostFault
        /\ cont' = Unset
        /\ UNCHANGED runs
  /\ UNCHANGED <<kind, volumeVars, hostVars, outcome, init, roles, data, home>>

\* A variant of Answers: pg_isready over the socket, which the temporary
\* server of the initialisation listens on.
Answers_Socket == ContRunning /\ cont.phase \in {"init", "up"}

\* pg_isready over TCP; a ping only asks for the Erlang node.
Answers ==
  /\ ContRunning
  /\ cont.phase \in (IF kind = "db" THEN {"up"} ELSE {"init", "up"})

\* The readiness loop, five minutes of it.
AwaitReady ==
  /\ IF Answers
       THEN Step("ready", "done") /\ outcome' = "ready"
       ELSE Step("ready", "failed") /\ UNCHANGED outcome
  /\ UNCHANGED <<kind, volumeVars, hostVars, cont, runs, storeVars, hostFaults>>

\* A variant of OnFailure: a oneshot unit without Restart=.
OnFailure_Stays == "failed"

OnFailure == "device"

UnitRestarts ==
  /\ script = "failed" /\ script' = OnFailure
  /\ UNCHANGED <<kind, volumeVars, hostVars, outcome, cont, runs, storeVars, hostFaults>>

ScriptStep ==
  \/ FindDevice \/ Format \/ Mount \/ FetchSecret
  \/ Inspect \/ DockerRun \/ AwaitReady \/ UnitRestarts

ContainerStep == ContainerBoots \/ DatabaseCreated \/ ContainerInitialised \/ ContainerRestarts

DNext ==
  \/ ScriptStep \/ ContainerStep
  \/ ContainerDies \/ (\E w \in Writes : Write(w))
  \/ AttachVolume \/ CloudInit \/ Crash \/ Boot \/ BootMount \/ DockerUp \/ Replace

DSpec == DInit /\ [][DNext]_dvars

\* Computers make progress; what fails does so at most MaxHostFaults times.
DFairSpec ==
  /\ DSpec
  /\ WF_dvars(ScriptStep) /\ WF_dvars(ContainerStep)
  /\ WF_dvars(AttachVolume) /\ WF_dvars(CloudInit)
  /\ WF_dvars(Boot) /\ WF_dvars(DockerUp)

-----------------------------------------------------------------------------
(* Properties *)

\* When the script ends because PostgreSQL answered, the init scripts have
\* run, unless an earlier initialisation of that directory was cut short:
\* then the image skips them for good.
ReadyMeansInitialised ==
  (kind = "db" /\ script = "done" /\ outcome = "ready" /\ ContRunning) =>
    \/ init[StoreOf(cont)] = "ready"
    \/ StoreOf(cont) \in interrupted

\* No crash, retry or replacement of the host destroys what was acknowledged
\* on the volume (mkfs never meets a volume that has been used), and a server
\* that runs on the volume shows it: all but a broker in another container,
\* whose new node starts with an empty directory beside the old one.
VolumeKeepsWrites ==
  \A w \in Writes : home[w] # Unset /\ home[w][1] = "volume" =>
    /\ w \in data[home[w]]
    /\ Serving /\ cont.loc = "volume" /\ w \notin data[StoreOf(cont)] =>
         kind = "mq" /\ home[w][2] # cont.id

\* A database directory whose initdb was killed: every container on it exits.
Unusable == cont # Unset /\ init[StoreOf(cont)] = "partial" /\ StoreOf(cont) \in interrupted

\* A host whose unit is enabled ends up serving, whatever crashed before:
\* systemd retries the script, docker restarts the container.  It serves from
\* the volume, unless the script found a container that docker had restarted
\* before the mount and left it on the root disk; and it never serves when a
\* crash caught the very first initdb.
EnabledHostServes ==
  <>[](setup = "enabled" =>
         Unusable \/ (Serving /\ (cont.loc = "volume" \/ outcome = "running")))

\* With PostgreSQL answering on a completely initialised directory, the roles
\* of the access secrets exist, as the comments on the two builders say.
AccessSecretsWork ==
  (kind = "db" /\ Serving /\ init[StoreOf(cont)] = "ready") => AccessRoles \subseteq roles[StoreOf(cont)]

-----------------------------------------------------------------------------
(* The inductive invariants behind the theorems of InfraProofs *)

DTypeOK ==
  /\ kind \in {"db", "mq"}
  /\ formatted \in BOOLEAN /\ fstab \in BOOLEAN /\ mounted \in BOOLEAN /\ docker \in BOOLEAN
  /\ cont \in Containers \cup {Unset}
  /\ runs \in Nat /\ hostFaults \in 0 .. MaxHostFaults
  /\ init \in [Stores -> InitStages]
  /\ interrupted \subseteq Stores
  /\ data \in [Stores -> SUBSET Writes]
  /\ home \in [Writes -> Stores \cup {Unset}]

\* A broker's container is created only after a fault took the one before,
\* and has the number of its creation.
RunsBounded ==
  /\ kind = "db" => runs = 0
  /\ runs <= hostFaults + 1
  /\ script = "run" \/ ~ContRunning => runs <= hostFaults
  /\ cont # Unset => cont.id <= runs

\* Whatever is mounted, or was when a container started, has its filesystem,
\* and mkfs never runs again.
VolumeFormatted ==
  /\ mounted \/ fstab \/ script = "mount" => formatted
  /\ cont # Unset /\ cont.loc = "volume" => formatted

\* Every write on the volume is there, in a directory a server can have.
WritesThere ==
  \A w \in Writes : home[w] # Unset =>
    /\ kind = "db" => home[w][2] = 0
    /\ home[w][1] = "volume" => formatted /\ w \in data[home[w]]

HostInv == DTypeOK /\ RunsBounded /\ VolumeFormatted /\ WritesThere

\* A database directory that was begun and not finished is being initialised
\* or was interrupted, and a server that is up has one of the two behind it.
BareStores ==
  kind = "db" =>
    /\ \A s \in Stores : init[s] \in {"partial", "bare"} => s \in interrupted \cup CutShort
    /\ Serving => init[StoreOf(cont)] = "ready" \/ StoreOf(cont) \in interrupted
    /\ Creating => init[StoreOf(cont)] = "partial"

\* The script runs beside docker, from the mount on with the volume mounted,
\* and the container it waits for is on it.
ScriptOnVolume ==
  /\ script \in {"secret", "inspect", "run", "ready", "done"} => mounted
  /\ (script = "ready" \/ (script = "done" /\ outcome = "ready")) /\ cont # Unset => cont.loc = "volume"
  /\ (script # "off" => docker) /\ (~docker => ~ContRunning)

\* What the script found ready stays so, also while the container is down.
ReadyStays ==
  kind = "db" /\ script = "done" /\ outcome = "ready" =>
    init[<<"volume", 0>>] = "ready" \/ <<"volume", 0>> \in interrupted

ReadyInv == BareStores /\ ScriptOnVolume /\ ReadyStays
=============================================================================
