------------------------------ MODULE Deployments ------------------------------
(***************************************************************************)
(* The deployments handler (pkg/components/handler/deployments) for one    *)
(* module.  A deployment is a row of the database and what the row names   *)
(* elsewhere: containers, volumes, directories, secret mounts, endpoints.  *)
(*                                                                         *)
(* Create, update, recreate and delete hold Handler.mu over many calls of  *)
(* other services; each call may fail, which ends the operation without    *)
(* undoing anything.  Enabling and disabling only write the row: starting  *)
(* and stopping containers is left to the runtime monitor, which reads     *)
(* under Handler.mu and acts later, in goroutines that hold no lock.       *)
(*                                                                         *)
(* Deployment ids, container names and directory names are fresh: one Uuid *)
(* per operation stands for all that it generates.                         *)
(***************************************************************************)
EXTENDS Naturals, FiniteSets

CONSTANTS
    Uuid,       \* names, each used once
    Version,    \* versions of the module
    Service,    \* services (each with one container and one endpoint)
    Volume,     \* references of volumes
    ServicesOf, \* the services of a version
    VolumesOf,  \* the volumes of a version
    MaxFaults,  \* bound on failures, exits of containers and crashes
    NoRow, NoCall, NoJob, NotSeen

ASSUME DeploymentsAssumption ==
    /\ ServicesOf \in [Version -> SUBSET Service]
    /\ VolumesOf \in [Version -> SUBSET Volume]
    /\ MaxFaults \in Nat

VARIABLES
    row,        \* the row of the module in table deployments
    containers, \* the container engine: per name and service
    dirs,       \* directories below WorkdirPath
    volumes,    \* the container engine: volumes of deployments
    mounts,     \* the secret manager: path variants of a deployment
    endpoints,  \* the core manager: endpoints of deployments
    pc,         \* next step of the operation that holds Handler.mu
    call,       \* its local variables
    seen,       \* what checkDeployments has read and wants to do
    jobs,       \* Handler.runtimeMonitorJobs with their goroutines
    used,       \* the names generated so far
    faults,     \* failures, exits and crashes so far
    wanted,     \* history: what the last EnableDeployments asked for
    lateMounts, \* history: secrets loaded when an operation was running
    strayVolumes\* history: volumes that an update dropped but did not remove

handler == <<row, pc, call, used, wanted>>
engine == <<containers, volumes>>
services == <<dirs, mounts, endpoints>>
monitor == <<seen, jobs>>
history == <<lateMounts, strayVolumes>>
vars == <<handler, engine, services, monitor, faults, history>>

ContainerState == {"absent", "stopped", "running", "unhealthy"}

Row == [id: Uuid, version: Version, enabled: BOOLEAN, names: Uuid, dir: Uuid]

\* interfered: a goroutine of the monitor cleaned the mounts meanwhile.
Call == [kind: {"create", "update", "recreate", "delete"}, id: Uuid,
         version: Version, names: Uuid, dir: Uuid, enabled: BOOLEAN,
         interfered: BOOLEAN]

Step == {"idle", "stop", "removeContainers", "cleanMounts", "removeDirs",
         "writeRow", "volumes", "dirs", "mounts", "containers", "endpoints",
         "removeVolumes", "removeEndpoints", "deleteRow", "ok", "failed"}

\* A goroutine: names and todo are the containers that the row had.
Job == [kind: {"start", "stop"}, step: {"secrets", "containers"}, names: Uuid,
        todo: SUBSET Service, secrets: BOOLEAN, failed: BOOLEAN]

Seen == [id: Uuid, job: Job]

ASSUME NothingAssumption ==
    /\ NoRow \notin Row
    /\ NoCall \notin Call
    /\ NoJob \notin Job
    /\ NotSeen \notin Seen

TypeOK ==
    /\ row \in Row \cup {NoRow}
    /\ containers \in [Uuid -> [Service -> ContainerState]]
    /\ dirs \in SUBSET Uuid
    /\ volumes \in SUBSET (Uuid \X Volume)
    /\ mounts \in [Uuid -> {"none", "created", "loaded"}]
    /\ endpoints \in SUBSET (Uuid \X Service)
    /\ pc \in Step
    /\ IF pc = "idle" THEN call = NoCall ELSE call \in Call
    /\ seen \in Seen \cup {NotSeen}
    /\ jobs \in [Uuid -> Job \cup {NoJob}]
    /\ used \in SUBSET Uuid
    /\ faults \in 0..MaxFaults
    /\ wanted \in BOOLEAN
    /\ lateMounts \in SUBSET Uuid
    /\ strayVolumes \in SUBSET (Uuid \X Volume)

Init ==
    /\ row = NoRow
    /\ containers = [u \in Uuid |-> [s \in Service |-> "absent"]]
    /\ dirs = {}
    /\ volumes = {}
    /\ mounts = [u \in Uuid |-> "none"]
    /\ endpoints = {}
    /\ pc = "idle"
    /\ call = NoCall
    /\ seen = NotSeen
    /\ jobs = [u \in Uuid |-> NoJob]
    /\ used = {}
    /\ faults = 0
    /\ wanted = FALSE
    /\ lateMounts = {}
    /\ strayVolumes = {}

Set(u, S, state) ==
    [containers EXCEPT ![u] =
        [s \in Service |-> IF s \in S THEN state ELSE containers[u][s]]]

Existing(u) == {s \in Service : containers[u][s] # "absent"}

Up(u) == {s \in Service : containers[u][s] \in {"running", "unhealthy"}}

\* getContainersCombinedState
CombinedState(r) ==
    LET S == ServicesOf[r.version] IN
    CASE ~ S \subseteq Existing(r.names) -> "broken"
      [] S \subseteq Existing(r.names) /\ S \cap Up(r.names) = {} -> "stopped"
      [] S \subseteq Up(r.names) /\ S # {} ->
            IF \E s \in S : containers[r.names][s] = "unhealthy"
            THEN "unhealthy" ELSE "running"
      [] OTHER -> "partial"

Fault ==
    /\ faults < MaxFaults
    /\ faults' = faults + 1

NoFault == UNCHANGED faults

-----------------------------------------------------------------------------
(* The operations.  The reads and checks before the first effect (user     *)
(* data, dependencies, host resources, secrets, configs) may end any of    *)
(* them with nothing done, which is no step.                               *)

Begin(c, first) ==
    /\ pc = "idle"
    /\ pc' = first
    /\ call' = c
    /\ used' = used \cup {c.names}
    /\ UNCHANGED <<row, wanted, engine, services, monitor, faults, history>>

\* CreateDeployments: filterSelectedModules drops a module with a row.
Create(u, v) ==
    /\ row = NoRow
    /\ u \notin used
    /\ Begin([kind |-> "create", id |-> u, version |-> v, names |-> u,
              dir |-> u, enabled |-> FALSE, interfered |-> FALSE], "writeRow")

Update(u, v) ==
    /\ row # NoRow
    /\ u \notin used
    /\ Begin([kind |-> "update", id |-> row.id, version |-> v, names |-> u,
              dir |-> u, enabled |-> row.enabled, interfered |-> FALSE], "stop")

\* Only for the version that is deployed; the directories keep their names.
Recreate(u) ==
    /\ row # NoRow
    /\ u \notin used
    /\ Begin([kind |-> "recreate", id |-> row.id, version |-> row.version,
              names |-> u, dir |-> row.dir, enabled |-> row.enabled,
              interfered |-> FALSE], "stop")

Delete ==
    /\ row # NoRow
    /\ Begin([kind |-> "delete", id |-> row.id, version |-> row.version,
              names |-> row.names, dir |-> row.dir, enabled |-> row.enabled,
              interfered |-> FALSE], "removeContainers")

SetEnabled(state) ==
    /\ row # NoRow
    /\ row' = [row EXCEPT !.enabled = state]
    /\ wanted' = state
    /\ UNCHANGED <<pc, call, used, engine, services, monitor, faults, history>>

\* Faulty variant: Handler.mu is not taken.
EnableUnlocked == SetEnabled(TRUE)

Enable == pc = "idle" /\ SetEnabled(TRUE)

Disable == pc = "idle" /\ SetEnabled(FALSE)

-----------------------------------------------------------------------------
(* Their steps.  Each ends with Goto, the next call of the operation, or   *)
(* with Stop and the result; Return releases Handler.mu.                   *)

Goto(next) ==
    /\ pc' = next
    /\ NoFault
    /\ UNCHANGED <<call, used, monitor, lateMounts>>

Stop(result) ==
    /\ pc' = result
    /\ IF result = "failed" THEN Fault ELSE NoFault
    /\ UNCHANGED <<call, used, monitor, lateMounts>>

Return ==
    /\ pc \in {"ok", "failed"}
    /\ pc' = "idle"
    /\ call' = NoCall
    /\ UNCHANGED <<row, used, wanted, engine, services, monitor, faults, history>>

\* stopContainers passes over the containers that do not exist.
StopContainers ==
    /\ pc = "stop"
    /\ containers' = Set(row.names, Existing(row.names), "stopped")
    /\ Goto("removeContainers")
    /\ UNCHANGED <<row, wanted, volumes, services, strayVolumes>>

StopContainersFails ==
    /\ pc = "stop"
    /\ \E S \in SUBSET Existing(row.names) :
          containers' = Set(row.names, S, "stopped")
    /\ Stop("failed")
    /\ UNCHANGED <<row, wanted, volumes, services, strayVolumes>>

RemoveContainers ==
    /\ pc = "removeContainers"
    /\ containers' = Set(row.names, Service, "absent")
    /\ Goto("cleanMounts")
    /\ UNCHANGED <<row, wanted, volumes, services, strayVolumes>>

\* Faulty variant: the error is only logged.
RemoveContainersFailsUnnoticed ==
    /\ pc = "removeContainers"
    /\ \E S \in SUBSET Service : containers' = Set(row.names, S, "absent")
    /\ Fault
    /\ pc' = "cleanMounts"
    /\ UNCHANGED <<row, call, used, wanted, volumes, services, monitor, history>>

\* The other containers are still tried.
RemoveContainersFails ==
    /\ pc = "removeContainers"
    /\ \E S \in SUBSET Service : containers' = Set(row.names, S, "absent")
    /\ Stop("failed")
    /\ UNCHANGED <<row, wanted, volumes, services, strayVolumes>>

CleanMounts ==
    /\ pc = "cleanMounts"
    /\ mounts' = [mounts EXCEPT ![call.id] = "none"]
    /\ Goto("removeDirs")
    /\ UNCHANGED <<row, wanted, engine, dirs, endpoints, strayVolumes>>

\* Faulty variant: a recreate keeps the directories.
RemoveDirsUnlessRecreate ==
    /\ pc = "removeDirs"
    /\ dirs' = IF call.kind = "recreate" THEN dirs ELSE dirs \ {row.dir}
    /\ Goto(IF call.kind = "delete" THEN "removeVolumes" ELSE "writeRow")
    /\ UNCHANGED <<row, wanted, engine, mounts, endpoints, strayVolumes>>

RemoveDirs ==
    /\ pc = "removeDirs"
    /\ dirs' = dirs \ {row.dir}
    /\ Goto(IF call.kind = "delete" THEN "removeVolumes" ELSE "writeRow")
    /\ UNCHANGED <<row, wanted, engine, mounts, endpoints, strayVolumes>>

\* CreateDeployment, UpdateDeployment (whose enabled state was read when the
\* operation began) or UpdateDeploymentContainerNames, one transaction each.
WriteRow ==
    /\ pc = "writeRow"
    /\ row' = [id |-> call.id, version |-> call.version, names |-> call.names,
               dir |-> call.dir, enabled |-> call.enabled]
    /\ wanted' = IF call.kind = "create" THEN FALSE ELSE wanted
    /\ Goto("volumes")
    /\ UNCHANGED <<engine, services, strayVolumes>>

Needed(v) == {call.id} \X VolumesOf[v]

LabelledIn(vols) == {x \in vols : x[1] = call.id}

\* Faulty variant: existing volumes are looked up by reference, but compared by
\* name: they are removed and not created again.
EnsureVolumesByReference ==
    /\ pc = "volumes"
    /\ volumes' = (volumes \ LabelledIn(volumes))
                     \cup (Needed(call.version) \ volumes)
    /\ strayVolumes' = strayVolumes \ LabelledIn(strayVolumes)
    /\ Goto("dirs")
    /\ UNCHANGED <<row, wanted, containers, services>>

\* Part of ensureDeploymentEnvironment: remove the volumes with the label of
\* the deployment that the module no longer has, create the missing ones.
EnsureVolumes ==
    /\ pc = "volumes"
    /\ volumes' = (volumes \ LabelledIn(volumes)) \cup Needed(call.version)
    /\ strayVolumes' = strayVolumes \ LabelledIn(strayVolumes)
    /\ Goto("dirs")
    /\ UNCHANGED <<row, wanted, containers, services>>

\* An image cannot be pulled, or some volumes not created or removed.
EnsureVolumesFails ==
    /\ pc = "volumes"
    /\ \E removed \in SUBSET (LabelledIn(volumes) \ Needed(call.version)),
          created \in SUBSET (Needed(call.version) \ volumes) :
          volumes' = (volumes \ removed) \cup created
    /\ strayVolumes' =
          strayVolumes \cup (LabelledIn(volumes') \ Needed(call.version))
    /\ Stop("failed")
    /\ UNCHANGED <<row, wanted, containers, services>>

\* createDeploymentDirs: os.Mkdir fails when the directory exists.
CreateDirs ==
    /\ pc = "dirs"
    /\ call.dir \notin dirs
    /\ dirs' = dirs \cup {call.dir}
    /\ Goto("mounts")
    /\ UNCHANGED <<row, wanted, engine, mounts, endpoints, strayVolumes>>

CreateDirsFails ==
    /\ pc = "dirs"
    /\ \E part \in SUBSET {call.dir} : dirs' = dirs \cup part
    /\ Stop("failed")
    /\ UNCHANGED <<row, wanted, engine, mounts, endpoints, strayVolumes>>

\* getBindMounts: the files, then the secrets.
CreateMounts ==
    /\ pc = "mounts"
    /\ mounts' = [mounts EXCEPT ![call.id] = "created"]
    /\ Goto("containers")
    /\ UNCHANGED <<row, wanted, engine, dirs, endpoints, strayVolumes>>

\* createSecretMounts cleans what it created, which may fail as well.
CreateMountsFails ==
    /\ pc = "mounts"
    /\ \E m \in {mounts[call.id], "created", "none"} :
          mounts' = [mounts EXCEPT ![call.id] = m]
    /\ Stop("failed")
    /\ UNCHANGED <<row, wanted, engine, dirs, endpoints, strayVolumes>>

CreateContainers ==
    /\ pc = "containers"
    /\ containers' = Set(call.names, ServicesOf[call.version], "stopped")
    /\ Goto("endpoints")
    /\ UNCHANGED <<row, wanted, volumes, services, strayVolumes>>

\* Faulty variant: the collected errors are not returned.
CreateContainersFailsUnnoticed ==
    /\ pc = "containers"
    /\ \E S \in SUBSET ServicesOf[call.version] :
          containers' = Set(call.names, S, "stopped")
    /\ Fault
    /\ pc' = "endpoints"
    /\ UNCHANGED <<row, call, used, wanted, volumes, services, monitor, history>>

\* The other containers are still created.
CreateContainersFails ==
    /\ pc = "containers"
    /\ \E S \in SUBSET ServicesOf[call.version] :
          containers' = Set(call.names, S, "stopped")
    /\ Stop("failed")
    /\ UNCHANGED <<row, wanted, volumes, services, strayVolumes>>

\* An update leaves the endpoints of services that the module lost.
CreateEndpoints ==
    /\ pc = "endpoints"
    /\ endpoints' = endpoints \cup ({call.id} \X ServicesOf[call.version])
    /\ Stop("ok")
    /\ UNCHANGED <<row, wanted, engine, dirs, mounts, strayVolumes>>

\* The job of the core manager may have set them although waiting failed.
CreateEndpointsFails ==
    /\ pc = "endpoints"
    /\ \E part \in SUBSET ({call.id} \X ServicesOf[call.version]) :
          endpoints' = endpoints \cup part
    /\ Stop("failed")
    /\ UNCHANGED <<row, wanted, engine, dirs, mounts, strayVolumes>>

\* Only the volumes that the row names.
RemoveVolumes ==
    /\ pc = "removeVolumes"
    /\ volumes' = volumes \ Needed(row.version)
    /\ Goto("removeEndpoints")
    /\ UNCHANGED <<row, wanted, containers, services, strayVolumes>>

RemoveVolumesFails ==
    /\ pc = "removeVolumes"
    /\ \E removed \in SUBSET Needed(row.version) : volumes' = volumes \ removed
    /\ Stop("failed")
    /\ UNCHANGED <<row, wanted, containers, services, strayVolumes>>

RemoveEndpoints ==
    /\ pc = "removeEndpoints"
    /\ endpoints' = {e \in endpoints : e[1] # call.id}
    /\ Goto("deleteRow")
    /\ UNCHANGED <<row, wanted, engine, dirs, mounts, strayVolumes>>

RemoveEndpointsFails ==
    /\ pc = "removeEndpoints"
    /\ \E part \in SUBSET {e \in endpoints : e[1] = call.id} :
          endpoints' = endpoints \ part
    /\ Stop("failed")
    /\ UNCHANGED <<row, wanted, engine, dirs, mounts, strayVolumes>>

DeleteRow ==
    /\ pc = "deleteRow"
    /\ row' = NoRow
    /\ Stop("ok")
    /\ UNCHANGED <<wanted, engine, services, strayVolumes>>

\* The secret manager, the file system or the database fails.
FailsWithoutEffect ==
    /\ pc \in {"cleanMounts", "removeDirs", "writeRow", "deleteRow"}
    /\ Stop("failed")
    /\ UNCHANGED <<row, wanted, engine, services, strayVolumes>>

-----------------------------------------------------------------------------
(* The runtime monitor.  getCurrentRuntimeData reads under Handler.mu;     *)
(* checkDeployments decides and starts goroutines without it.              *)

\* The decision of checkDeployments; with nothing to do, a pass of its loop is
\* no step.
ToDo(r) ==
    CASE CombinedState(r) \in {"broken", "unhealthy"} -> {}
      [] r.enabled /\ CombinedState(r) \in {"stopped", "partial"} -> {"start"}
      [] ~ r.enabled /\ CombinedState(r) \in {"running", "partial"} -> {"stop"}
      [] OTHER -> {}

\* The secrets are read for the enabled deployments; with none enabled the
\* filter is empty and returns those of all.
Look(othersEnabled) ==
    /\ pc = "idle"
    /\ seen = NotSeen
    /\ row # NoRow
    /\ \E kind \in ToDo(row) :
          seen' = [id |-> row.id,
                   job |-> [kind |-> kind, step |-> "secrets",
                            names |-> row.names,
                            todo |-> ServicesOf[row.version],
                            secrets |-> row.enabled \/ ~ othersEnabled,
                            failed |-> FALSE]]
    /\ UNCHANGED <<handler, engine, services, jobs, faults, history>>

\* runtimeMonitorJobsFilter allows one goroutine per deployment.
Decide ==
    /\ seen # NotSeen
    /\ seen' = NotSeen
    /\ jobs' = IF jobs[seen.id] = NoJob THEN [jobs EXCEPT ![seen.id] = seen.job]
                                       ELSE jobs
    /\ UNCHANGED <<handler, engine, services, faults, history>>

\* startDeployment: loadDeploymentMountSecrets returns nil even if it could
\* not load them.
LoadSecrets(i) ==
    /\ jobs[i] # NoJob
    /\ jobs[i].kind = "start"
    /\ jobs[i].step = "secrets"
    /\ jobs' = [jobs EXCEPT ![i].step = "containers"]
    /\ IF jobs[i].secrets
       THEN \/ /\ mounts' = [mounts EXCEPT ![i] = "loaded"]
               /\ lateMounts' = IF pc # "idle" \/ row = NoRow \/ row.id # i
                                THEN lateMounts \cup {i} ELSE lateMounts
               /\ NoFault
            \/ /\ Fault
               /\ UNCHANGED <<mounts, lateMounts>>
       ELSE NoFault /\ UNCHANGED <<mounts, lateMounts>>
    /\ UNCHANGED <<handler, engine, dirs, endpoints, seen, strayVolumes>>

\* A container that was removed meanwhile cannot be started.
StartContainer(i, s) ==
    /\ jobs[i] # NoJob
    /\ jobs[i].kind = "start"
    /\ jobs[i].step = "containers"
    /\ s \in jobs[i].todo
    /\ \/ /\ containers[jobs[i].names][s] # "absent"
          /\ containers' = Set(jobs[i].names,
                               {s} \ Up(jobs[i].names), "running")
          /\ jobs' = [jobs EXCEPT ![i].todo = @ \ {s}]
          /\ NoFault
       \/ /\ IF containers[jobs[i].names][s] = "absent" THEN NoFault ELSE Fault
          /\ jobs' = [jobs EXCEPT ![i].todo = @ \ {s}, ![i].failed = TRUE]
          /\ UNCHANGED containers
    /\ UNCHANGED <<handler, volumes, services, seen, history>>

\* Faulty variant: runtimeMonitorJobsRemove is not deferred.
EndStartJobStaysRegistered(i) ==
    /\ jobs[i] # NoJob
    /\ jobs[i].kind = "start"
    /\ jobs[i].step = "containers"
    /\ jobs[i].todo = {}
    /\ UNCHANGED vars

\* The deferred function: unload the secrets after a failure, and forget the
\* goroutine.
EndStartJob(i) ==
    /\ jobs[i] # NoJob
    /\ jobs[i].kind = "start"
    /\ jobs[i].step = "containers"
    /\ jobs[i].todo = {}
    /\ IF jobs[i].failed /\ jobs[i].secrets
       THEN \/ /\ mounts' = [mounts EXCEPT ![i] = "none"]
               /\ call' = IF pc # "idle" /\ call.id = i
                          THEN [call EXCEPT !.interfered = TRUE] ELSE call
               /\ NoFault
            \/ Fault /\ UNCHANGED <<mounts, call>>
       ELSE NoFault /\ UNCHANGED <<mounts, call>>
    /\ jobs' = [jobs EXCEPT ![i] = NoJob]
    /\ UNCHANGED <<row, pc, used, wanted, engine, dirs, endpoints,
                   seen, history>>

\* stopDeployment: unload the secrets, whether or not that works.
UnloadSecrets(i) ==
    /\ jobs[i] # NoJob
    /\ jobs[i].kind = "stop"
    /\ jobs[i].step = "secrets"
    /\ jobs' = [jobs EXCEPT ![i].step = "containers"]
    /\ IF jobs[i].secrets
       THEN \/ /\ mounts' = [mounts EXCEPT ![i] = "none"]
               /\ call' = IF pc # "idle" /\ call.id = i
                          THEN [call EXCEPT !.interfered = TRUE] ELSE call
               /\ NoFault
            \/ Fault /\ UNCHANGED <<mounts, call>>
       ELSE NoFault /\ UNCHANGED <<mounts, call>>
    /\ UNCHANGED <<row, pc, used, wanted, engine, dirs, endpoints,
                   seen, history>>

EndStopJob(i) ==
    /\ jobs[i] # NoJob
    /\ jobs[i].kind = "stop"
    /\ jobs[i].step = "containers"
    /\ LET existing == Existing(jobs[i].names) \cap jobs[i].todo IN
       \/ /\ containers' = Set(jobs[i].names, existing, "stopped")
          /\ NoFault
       \/ /\ \E S \in SUBSET existing :
                containers' = Set(jobs[i].names, S, "stopped")
          /\ Fault
    /\ jobs' = [jobs EXCEPT ![i] = NoJob]
    /\ UNCHANGED <<handler, volumes, services, seen, history>>

-----------------------------------------------------------------------------
(* The surroundings: containers exit or turn unhealthy, the manager        *)
(* crashes.                                                                *)

ContainerExits(u, s) ==
    /\ s \in Up(u)
    /\ Fault
    /\ containers' = Set(u, {s}, "stopped")
    /\ UNCHANGED <<handler, volumes, services, monitor, history>>

HealthChanges(u, s) ==
    /\ s \in Up(u)
    /\ \/ containers[u][s] = "running" /\ Fault
          /\ containers' = Set(u, {s}, "unhealthy")
       \/ containers[u][s] = "unhealthy" /\ NoFault
          /\ containers' = Set(u, {s}, "running")
    /\ UNCHANGED <<handler, volumes, services, monitor, history>>

\* New: no operation, no goroutine.
Crash ==
    /\ Fault
    /\ pc' = "idle"
    /\ call' = NoCall
    /\ seen' = NotSeen
    /\ jobs' = [u \in Uuid |-> NoJob]
    /\ strayVolumes' =
          IF pc = "volumes"
          THEN strayVolumes \cup (LabelledIn(volumes) \ Needed(call.version))
          ELSE strayVolumes
    /\ UNCHANGED <<row, used, wanted, engine, services, lateMounts>>

Operation ==
    \/ StopContainers \/ StopContainersFails
    \/ RemoveContainers \/ RemoveContainersFails
    \/ CleanMounts \/ RemoveDirs \/ WriteRow
    \/ EnsureVolumes \/ EnsureVolumesFails
    \/ CreateDirs \/ CreateDirsFails
    \/ CreateMounts \/ CreateMountsFails
    \/ CreateContainers \/ CreateContainersFails
    \/ CreateEndpoints \/ CreateEndpointsFails
    \/ RemoveVolumes \/ RemoveVolumesFails
    \/ RemoveEndpoints \/ RemoveEndpointsFails
    \/ DeleteRow \/ FailsWithoutEffect \/ Return

JobStep(i) ==
    \/ LoadSecrets(i) \/ (\E s \in Service : StartContainer(i, s))
    \/ EndStartJob(i) \/ UnloadSecrets(i) \/ EndStopJob(i)

Next ==
    \/ \E u \in Uuid, v \in Version : Create(u, v) \/ Update(u, v)
    \/ \E u \in Uuid : Recreate(u)
    \/ Delete \/ Enable \/ Disable
    \/ Operation
    \/ \E others \in BOOLEAN : Look(others)
    \/ Decide
    \/ \E i \in Uuid : JobStep(i)
    \/ \E u \in Uuid, s \in Service : ContainerExits(u, s) \/ HealthChanges(u, s)
    \/ Crash

Spec == Init /\ [][Next]_vars

\* Operations and goroutines run on, the monitor's timer fires again and again.
Fairness ==
    /\ WF_vars(Operation)
    /\ WF_vars(\E others \in BOOLEAN : Look(others))
    /\ WF_vars(Decide)
    /\ \A i \in Uuid : WF_vars(JobStep(i))

LiveSpec == Spec /\ Fairness

-----------------------------------------------------------------------------
(* Properties *)

\* Whatever exists is recorded: a container in the engine, a directory, an
\* endpoint belongs to the row, so a later operation finds it, after any
\* failure and any crash (an operation removes what the row names before it
\* overwrites the row and creates nothing before: updateDeployment,
\* recreateDeployment, deleteDeployment).
NothingUnrecorded ==
    /\ \A u \in Uuid, s \in Service :
          containers[u][s] # "absent" =>
              row # NoRow /\ u = row.names /\ s \in ServicesOf[row.version]
    /\ \A u \in dirs : row # NoRow /\ u = row.dir
    /\ \A e \in endpoints : row # NoRow /\ e[1] = row.id

\* os.Mkdir never meets a directory that an earlier attempt left, so a failed
\* recreate can be repeated (createDeploymentDirs).
DirsAreFree == pc = "dirs" => call.dir \notin dirs

\* The secrets of a deployment that is gone stay mounted only if a goroutine
\* of the monitor loaded them during or after the delete (deleteDeployment,
\* startDeployment).
MountsAreAccounted ==
    \A i \in Uuid :
        mounts[i] # "none" => \/ row # NoRow /\ row.id = i
                              \/ i \in lateMounts

\* Between operations every volume belongs to the row, unless an update that
\* dropped it ended or died before ensureContainerVolumes had removed it: no
\* delete removes such a volume.
VolumesAreAccounted ==
    pc = "idle" =>
        volumes \subseteq strayVolumes \cup
            (IF row = NoRow THEN {} ELSE {row.id} \X VolumesOf[row.version])

\* Whatever exists outside the database is found again by a later operation,
\* after any failure and any crash, but for the two cases just named.
EverythingIsAccounted ==
    NothingUnrecorded /\ MountsAreAccounted /\ VolumesAreAccounted

\* The data of a deployment survives updates and recreates: a volume goes only
\* with a delete, or once the row holds a version that does not have it
\* (ensureContainerVolumes, updateVolumes).
VolumesAreKept ==
    [][\A x \in volumes \ volumes' :
          /\ row # NoRow
          /\ x[1] = row.id
          /\ \/ call.kind = "delete"
             \/ x[2] \notin VolumesOf[row.version]]_vars

\* The row says what the last EnableDeployments or DisableDeployments wrote: an
\* update, which writes the state it read when it began, does not undo a later
\* one (Handler.mu).
EnabledAsWanted == row # NoRow => row.enabled = wanted

Complete ==
    /\ ServicesOf[row.version] \subseteq Existing(row.names)
    /\ row.dir \in dirs
    /\ {row.id} \X VolumesOf[row.version] \subseteq volumes
    /\ {row.id} \X ServicesOf[row.version] \subseteq endpoints

\* A create, update or recreate without an error leaves a deployment with all
\* its parts, and with its secrets unless the monitor unloaded them meanwhile
\* (createDeployment, updateDeployment, recreateDeployment, startDeployment).
SuccessIsComplete ==
    pc = "ok" /\ call.kind # "delete" =>
        /\ Complete
        /\ mounts[row.id] # "none" \/ call.interfered

\* A deployment that stays enabled ends up running, unless a container is
\* missing or unhealthy (checkDeployments, startDeployment).
EnabledRuns ==
    <>[](row # NoRow /\ row.enabled)
        => <>[](row # NoRow => CombinedState(row) \in {"running", "broken", "unhealthy"})

\* One that stays disabled ends up stopped, unless a container is missing or
\* unhealthy: then the monitor leaves the others running (checkDeployments,
\* stopDeployment).
DisabledStops ==
    <>[](row # NoRow /\ ~ row.enabled)
        => <>[](row # NoRow => CombinedState(row) \in {"stopped", "broken", "unhealthy"})

\* Once nobody changes the enabled state any more the monitor brings the
\* containers to it and leaves them there, after failures, exits and crashes
\* (RuntimeMonitor).
MonitorSettles == EnabledRuns /\ DisabledStops

=============================================================================
