---------------------------- MODULE AuxDeployments ----------------------------
(***************************************************************************)
(* The auxiliary deployments handler (pkg/components/handler/              *)
(* aux_deployments), its runtime monitor, and the deletion of the parent   *)
(* deployment by the service.                                              *)
(*                                                                         *)
(* A deployment starts containers of its own through this handler: each is *)
(* a row in table aux_deployments, which names the container, and the      *)
(* rows of the volumes that it mounts.  An operation holds the mutex of    *)
(* its deployment (mutex_map), so that operations on different deployments *)
(* interleave; the database is common to all.  The service refuses to      *)
(* start create, update and recreate while a deployment is deleted, but a  *)
(* job started before goes on, so here they may begin at any time.         *)
(*                                                                         *)
(* Ids and container names are fresh: a Uuid is used once.                 *)
(***************************************************************************)
EXTENDS Naturals

CONSTANTS
    Deployment, \* deployments, all of which exist at first
    Uuid,       \* ids and names of containers
    Ref,        \* references of volumes
    MaxFaults,  \* bound on failures, exits of containers and crashes
    NoRow, NoCall, NoJob, NotSeen, NoDeletion, NoName, Absent

VARIABLES
    parents,    \* table deployments
    active,     \* the enabled ones
    rows,       \* tables aux_deployments and aux_dep_volume_mounts
    volumeRows, \* table aux_dep_volumes
    containers, \* the container engine
    volumes,    \* the container engine
    pc,         \* per deployment: next step of the operation with its mutex
    call,       \* per deployment: local variables of that operation
    deletion,   \* the job of Service.DeleteDeployments
    seen,       \* per deployment: what checkDeployments has read
    jobs,       \* Handler.runtimeMonitorJobs with their goroutines
    used,       \* ids and names generated so far
    faults      \* failures, exits and crashes so far

tables == <<parents, active, rows, volumeRows>>
engine == <<containers, volumes>>
operations == <<pc, call, deletion, used>>
monitor == <<seen, jobs>>
vars == <<tables, engine, operations, monitor, faults>>

Row == [dep: Deployment, name: Uuid, enabled: BOOLEAN, mounts: SUBSET Ref]

\* aux: the id in its label and its alias.
Container == [aux: Uuid \cup {NoName}, dep: Deployment, mounts: SUBSET Ref,
              running: BOOLEAN]

\* A row as an operation has read it.
Item == [id: Uuid, name: Uuid, mounts: SUBSET Ref]

\* old and name: the container to remove and the one to create; todo: what is
\* left of the rows to handle; refs: the volumes read from the database, or
\* those to delete; done: results without an error; errors: there are others;
\* parent: called by Service.deleteAuxDeployments.
Call == [kind: {"create", "update", "recreate", "delete", "deleteVolumes",
                "deleteUnused"},
         id: Uuid \cup {NoName}, old: Uuid \cup {NoName},
         name: Uuid \cup {NoName}, mounts: SUBSET Ref, todo: SUBSET Item,
         refs: SUBSET Ref, done: SUBSET Uuid, errors: BOOLEAN, parent: BOOLEAN]

Step == {"idle", "volumeRows", "stop", "remove", "writeRow", "ensure", "loop",
         "createContainer", "rollback", "removeContainers", "deleteRows",
         "removeVolumes", "deleteVolumeRows", "ok", "failed"}

\* errors: some container could not be removed.
Deletion == [dep: Deployment, step: {"containers", "volumes", "row"}, errors: BOOLEAN]

Seen == [active: BOOLEAN, enabled: SUBSET Uuid, disabled: SUBSET Uuid]

Job == [start: SUBSET Uuid, stop: SUBSET Uuid]

ASSUME AuxDeploymentsAssumption ==
    /\ MaxFaults \in Nat
    /\ NoRow \notin Row /\ NoCall \notin Call /\ NoJob \notin Job
    /\ NotSeen \notin Seen /\ NoDeletion \notin Deletion
    /\ NoName \notin Uuid /\ Absent \notin Container

TypeOK ==
    /\ parents \in SUBSET Deployment
    /\ active \in SUBSET parents
    /\ rows \in [Uuid -> Row \cup {NoRow}]
    /\ volumeRows \in SUBSET (Deployment \X Ref)
    /\ containers \in [Uuid -> Container \cup {Absent}]
    /\ volumes \in SUBSET (Deployment \X Ref)
    /\ pc \in [Deployment -> Step]
    /\ call \in [Deployment -> Call \cup {NoCall}]
    /\ \A d \in Deployment : pc[d] = "idle" <=> call[d] = NoCall
    /\ deletion \in Deletion \cup {NoDeletion}
    /\ seen \in [Deployment -> Seen \cup {NotSeen}]
    /\ jobs \in [Deployment -> Job \cup {NoJob}]
    /\ used \in SUBSET Uuid
    /\ faults \in 0..MaxFaults

Init ==
    /\ parents = Deployment
    /\ active = {}
    /\ rows = [i \in Uuid |-> NoRow]
    /\ volumeRows = {}
    /\ containers = [n \in Uuid |-> Absent]
    /\ volumes = {}
    /\ pc = [d \in Deployment |-> "idle"]
    /\ call = [d \in Deployment |-> NoCall]
    /\ deletion = NoDeletion
    /\ seen = [d \in Deployment |-> NotSeen]
    /\ jobs = [d \in Deployment |-> NoJob]
    /\ used = {}
    /\ faults = 0

Exists(n) == n \in Uuid /\ containers[n] # Absent

RowsOf(d) == {i \in Uuid : rows[i] # NoRow /\ rows[i].dep = d}

ItemsOf(d) == {[id |-> i, name |-> rows[i].name, mounts |-> rows[i].mounts] :
                  i \in RowsOf(d)}

RefsOf(d) == {r \in Ref : <<d, r>> \in volumeRows}

Names(items) == {item.name : item \in items}

Ids(items) == {item.id : item \in items}

Fault == faults < MaxFaults /\ faults' = faults + 1

NoFault == UNCHANGED faults

FaultUnless(all) == IF all THEN NoFault ELSE Fault

-----------------------------------------------------------------------------
(* The operations take the mutex of their deployment.                      *)

NewCall(kind) ==
    [kind |-> kind, id |-> NoName, old |-> NoName, name |-> NoName,
     mounts |-> {}, todo |-> {}, refs |-> {}, done |-> {}, errors |-> FALSE,
     parent |-> FALSE]

Begin(d, c, first) ==
    /\ pc[d] = "idle"
    /\ pc' = [pc EXCEPT ![d] = first]
    /\ call' = [call EXCEPT ![d] = c]
    /\ used' = used \cup ({c.name} \ {NoName})
    /\ UNCHANGED <<tables, engine, deletion, monitor, faults>>

\* CreateDeployment, whose id is fresh as the name is.
Create(d, u, M) ==
    /\ u \in Uuid \ used
    /\ Begin(d, [NewCall("create") EXCEPT !.id = u, !.name = u, !.mounts = M,
                                          !.refs = RefsOf(d)], "volumeRows")

\* UpdateDeployment: the volumes of an incremental update are those of the row
\* and those of the input, otherwise those of the input.
Update(d, i, u, M) ==
    /\ i \in RowsOf(d)
    /\ u \in Uuid \ used
    /\ Begin(d, [NewCall("update") EXCEPT !.id = i, !.old = rows[i].name,
                 !.name = u, !.mounts = M, !.refs = RefsOf(d)], "volumeRows")

\* ReadAuxiliaryDeployment returns an empty row, and no error, for an id that
\* is not (or no longer) in the table.
UpdateUnknown(d, u, M) ==
    /\ u \in Uuid \ used
    /\ Begin(d, [NewCall("update") EXCEPT !.name = u, !.mounts = M,
                                          !.refs = RefsOf(d)], "volumeRows")

\* RecreateDeployments for the rows that a filter selects.
Recreate(d, S) ==
    /\ S \subseteq ItemsOf(d)
    /\ Begin(d, [NewCall("recreate") EXCEPT !.todo = S, !.refs = RefsOf(d)],
             "ensure")

\* DeleteDeployments for the rows that a filter selects, none perhaps.
Delete(d, S) ==
    /\ S \subseteq ItemsOf(d)
    /\ Begin(d, [NewCall("delete") EXCEPT !.todo = S], "removeContainers")

DeleteVolumes(d, R) ==
    /\ R \subseteq RefsOf(d)
    /\ Begin(d, [NewCall("deleteVolumes") EXCEPT !.refs = R], "removeVolumes")

Mounted(d) == UNION {rows[i].mounts : i \in RowsOf(d)}

\* Faulty variant: the references of the filter, mounted or not.
DeleteUnusedVolumesOfFilter(d, R) ==
    /\ R \subseteq RefsOf(d)
    /\ Begin(d, [NewCall("deleteUnused") EXCEPT !.refs = R], "removeVolumes")

DeleteUnusedVolumes(d, R) ==
    /\ R \subseteq RefsOf(d) \ Mounted(d)
    /\ Begin(d, [NewCall("deleteUnused") EXCEPT !.refs = R], "removeVolumes")

\* EnableDeployments and DisableDeployments: the mutex is held for reading.
SetEnabled(d, S, state) ==
    /\ pc[d] = "idle"
    /\ S \subseteq RowsOf(d)
    /\ rows' = [i \in Uuid |->
                   IF i \in S THEN [rows[i] EXCEPT !.enabled = state] ELSE rows[i]]
    /\ UNCHANGED <<parents, active, volumeRows, engine, operations, monitor, faults>>

-----------------------------------------------------------------------------
(* Their steps. *)

Goto(d, next) ==
    /\ pc' = [pc EXCEPT ![d] = next]
    /\ UNCHANGED <<parents, active, deletion, monitor>>

\* An error ends a create or an update; RecreateDeployments goes on with the
\* next row; the deferred function of CreateDeployment removes the row.
Fail(d) ==
    /\ Goto(d, CASE call[d].kind = "recreate" -> "loop"
                 [] call[d].kind = "create" /\ pc[d] \in {"ensure", "createContainer"}
                        -> "rollback"
                 [] OTHER -> "failed")
    /\ call' = [call EXCEPT ![d].errors = TRUE]
    /\ UNCHANGED used

\* The foreign key needs the deployment.
WriteVolumeRows(d) ==
    /\ pc[d] = "volumeRows"
    /\ d \in parents \/ call[d].mounts \subseteq call[d].refs
    /\ volumeRows' = volumeRows \cup ({d} \X (call[d].mounts \ call[d].refs))
    /\ Goto(d, IF call[d].kind = "create" THEN "writeRow" ELSE "stop")
    /\ UNCHANGED <<rows, engine, call, used, faults>>

\* For a container without a name the engine wrapper may report anything.
StopContainer(d) ==
    /\ pc[d] = "stop"
    /\ LET stopped == IF Exists(call[d].old)
                      THEN [containers EXCEPT ![call[d].old].running = FALSE]
                      ELSE containers IN
       \/ /\ containers' = stopped
          /\ Goto(d, "remove")
          /\ UNCHANGED <<call, used, faults>>
       \/ /\ containers' \in {containers, stopped}
          /\ Fail(d)
          /\ FaultUnless(call[d].old = NoName)
    /\ UNCHANGED <<rows, volumeRows, volumes>>

\* Faulty variant: the error is only logged.
RemoveContainerUnchecked(d) ==
    /\ pc[d] = "remove"
    /\ Goto(d, "writeRow")
    /\ UNCHANGED <<call, used, rows, volumeRows, volumes>>
    /\ \/ /\ Exists(call[d].old)
          /\ containers' = [containers EXCEPT ![call[d].old] = Absent]
          /\ NoFault
       \/ UNCHANGED containers /\ FaultUnless(~ Exists(call[d].old))

RemoveContainer(d) ==
    /\ pc[d] = "remove"
    /\ containers' = IF Exists(call[d].old)
                     THEN [containers EXCEPT ![call[d].old] = Absent]
                     ELSE containers
    /\ Goto(d, "writeRow")
    /\ UNCHANGED <<rows, volumeRows, volumes, call, used, faults>>

RemoveContainerFails(d) ==
    /\ pc[d] = "remove"
    /\ Fail(d)
    /\ FaultUnless(call[d].old = NoName)
    /\ UNCHANGED <<rows, volumeRows, engine>>

RowOf(d) ==
    [dep |-> d, name |-> call[d].name, mounts |-> call[d].mounts,
     enabled |-> IF call[d].kind = "create" THEN FALSE ELSE rows[call[d].id].enabled]

\* Faulty variant: a recreate keeps the name.
WriteRowUnlessRecreate(d) ==
    /\ pc[d] = "writeRow"
    /\ call[d].kind = "create" => d \in parents
    /\ rows' = IF call[d].kind = "create" \/
                  (call[d].kind = "update" /\ call[d].id \in RowsOf(d))
               THEN [rows EXCEPT ![call[d].id] = RowOf(d)]
               ELSE rows
    /\ Goto(d, IF call[d].kind = "recreate" THEN "createContainer" ELSE "ensure")
    /\ UNCHANGED <<volumeRows, engine, call, used, faults>>

\* INSERT needs the deployment; UPDATE changes nothing if the row is gone, and
\* then the volumes cannot be inserted.
WriteRow(d) ==
    /\ pc[d] = "writeRow"
    /\ CASE call[d].kind = "create" -> d \in parents
         [] call[d].kind = "update" ->
                call[d].id \in RowsOf(d) \/ call[d].mounts = {}
         [] OTHER -> TRUE
    /\ rows' = IF call[d].kind = "create" \/ call[d].id \in RowsOf(d)
               THEN [rows EXCEPT ![call[d].id] = RowOf(d)]
               ELSE rows
    /\ Goto(d, IF call[d].kind = "recreate" THEN "createContainer" ELSE "ensure")
    /\ UNCHANGED <<volumeRows, engine, call, used, faults>>

\* What the foreign keys refer to is gone (an update also writes labels).
Dangling(d) ==
    \/ call[d].kind # "recreate" /\ d \notin parents
    \/ pc[d] = "writeRow" /\ call[d].kind = "update" /\ call[d].id \notin RowsOf(d)

WriteFails(d) ==
    /\ pc[d] \in {"volumeRows", "writeRow"}
    /\ Fail(d)
    /\ FaultUnless(Dangling(d))
    /\ UNCHANGED <<rows, volumeRows, engine>>

\* ensureAuxDeploymentEnvironment: all volumes of the deployment.
EnsureVolumes(d) ==
    /\ pc[d] = "ensure"
    /\ volumes' = volumes \cup ({d} \X (call[d].refs \cup call[d].mounts))
    /\ Goto(d, IF call[d].kind = "recreate" THEN "loop" ELSE "createContainer")
    /\ UNCHANGED <<rows, volumeRows, containers, call, used, faults>>

\* A recreate fails as a whole.
EnsureVolumesFails(d) ==
    /\ pc[d] = "ensure"
    /\ \E created \in SUBSET ({d} \X (call[d].refs \cup call[d].mounts)) :
          volumes' = volumes \cup created
    /\ IF call[d].kind = "recreate"
       THEN Goto(d, "failed") /\ UNCHANGED <<call, used>>
       ELSE Fail(d)
    /\ Fault
    /\ UNCHANGED <<rows, volumeRows, containers>>

\* The next row; one whose service the module no longer has is an error.
RecreateNext(d, item, u) ==
    /\ pc[d] = "loop"
    /\ item \in call[d].todo
    /\ \/ /\ u \in Uuid \ used
          /\ Goto(d, "stop")
          /\ call' = [call EXCEPT ![d].todo = @ \ {item}, ![d].id = item.id,
                                  ![d].old = item.name, ![d].name = u,
                                  ![d].mounts = item.mounts]
          /\ used' = used \cup {u}
       \/ /\ call' = [call EXCEPT ![d].todo = @ \ {item}, ![d].errors = TRUE]
          /\ UNCHANGED <<pc, used, parents, active, deletion, monitor>>
    /\ UNCHANGED <<rows, volumeRows, engine, faults>>

EndRecreate(d) ==
    /\ pc[d] = "loop"
    /\ call[d].todo = {}
    /\ Goto(d, "ok")
    /\ UNCHANGED <<rows, volumeRows, engine, call, used, faults>>

NewContainer(d) ==
    [containers EXCEPT ![call[d].name] =
        [aux |-> call[d].id, dep |-> d, mounts |-> call[d].mounts, running |-> FALSE]]

CreateContainer(d) ==
    /\ pc[d] = "createContainer"
    /\ containers' = NewContainer(d)
    /\ Goto(d, IF call[d].kind = "recreate" THEN "loop" ELSE "ok")
    /\ call' = [call EXCEPT ![d].done = @ \cup ({call[d].id} \ {NoName})]
    /\ UNCHANGED <<rows, volumeRows, volumes, used, faults>>

\* The image cannot be pulled, or the engine fails, maybe with the container
\* created.
CreateContainerFails(d) ==
    /\ pc[d] = "createContainer"
    /\ containers' \in {containers, NewContainer(d)}
    /\ Fail(d)
    /\ Fault
    /\ UNCHANGED <<rows, volumeRows, volumes>>

\* The deletion may fail as well, with the same context.
Rollback(d) ==
    /\ pc[d] = "rollback"
    /\ rows' \in {rows, [rows EXCEPT ![call[d].id] = NoRow]}
    /\ Goto(d, "failed")
    /\ UNCHANGED <<volumeRows, engine, call, used, faults>>

RemoveContainers(d) ==
    /\ pc[d] = "removeContainers"
    /\ \E S \in SUBSET call[d].todo :
          /\ containers' = [n \in Uuid |-> IF n \in Names(S) THEN Absent
                                           ELSE containers[n]]
          /\ call' = [call EXCEPT ![d].done = Ids(S),
                                  ![d].errors = S # call[d].todo]
          /\ FaultUnless(S = call[d].todo)
    /\ Goto(d, "deleteRows")
    /\ UNCHANGED <<rows, volumeRows, volumes, used>>

\* DeleteAuxiliaryDeployments: without ids there is no WHERE.
DeleteRows(d) ==
    /\ pc[d] = "deleteRows"
    /\ rows' = [i \in Uuid |-> IF call[d].done = {} \/ i \in call[d].done
                               THEN NoRow ELSE rows[i]]
    /\ Goto(d, "ok")
    /\ UNCHANGED <<volumeRows, engine, call, used, faults>>

InUse(d, r) == \E n \in Uuid : /\ containers[n] # Absent
                               /\ containers[n].dep = d
                               /\ r \in containers[n].mounts

\* Faulty variant: an error of RemoveVolume is reported, and the reference
\* counted as deleted.
RemoveVolumesUnchecked(d) ==
    /\ pc[d] = "removeVolumes"
    /\ \E S \in SUBSET {r \in call[d].refs : <<d, r>> \in volumes /\ ~ InUse(d, r)} :
          /\ volumes' = volumes \ ({d} \X S)
          /\ call' = [call EXCEPT ![d].errors = S # call[d].refs]
    /\ Goto(d, "deleteVolumeRows")
    /\ UNCHANGED <<rows, volumeRows, containers, used, faults>>

\* The engine removes no volume that is in use; one that does not exist is an
\* error here.  call.refs becomes the references that are removed.
RemoveVolumes(d) ==
    /\ pc[d] = "removeVolumes"
    /\ LET removable == {r \in call[d].refs : /\ <<d, r>> \in volumes
                                              /\ ~ InUse(d, r)} IN
       \E S \in SUBSET removable :
          /\ volumes' = volumes \ ({d} \X S)
          /\ call' = [call EXCEPT ![d].refs = S, ![d].errors = S # call[d].refs]
          /\ FaultUnless(S = removable)
    /\ Goto(d, "deleteVolumeRows")
    /\ UNCHANGED <<rows, volumeRows, containers, used>>

\* Table aux_dep_volume_mounts follows by its foreign key.
Unmount(d, R) ==
    [i \in Uuid |-> IF i \in RowsOf(d) THEN [rows[i] EXCEPT !.mounts = @ \ R]
                    ELSE rows[i]]

\* DeleteAuxiliaryDeploymentVolumes: without references, all of the deployment.
DeleteVolumeRows(d) ==
    /\ pc[d] = "deleteVolumeRows"
    /\ LET R == IF call[d].refs = {} THEN Ref ELSE call[d].refs IN
       /\ volumeRows' = volumeRows \ ({d} \X R)
       /\ rows' = Unmount(d, R)
    /\ Goto(d, "ok")
    /\ UNCHANGED <<engine, call, used, faults>>

DeleteFails(d) ==
    /\ pc[d] \in {"deleteRows", "deleteVolumeRows"}
    /\ Goto(d, "failed")
    /\ Fault
    /\ UNCHANGED <<rows, volumeRows, engine, call, used>>

\* The mutex is released.  Service.DeleteDeployments goes on to the volumes
\* unless the call fails, and to the row if all results are without an error.
Return(d) ==
    /\ pc[d] \in {"ok", "failed"}
    /\ pc' = [pc EXCEPT ![d] = "idle"]
    /\ call' = [call EXCEPT ![d] = NoCall]
    /\ deletion' = IF ~ call[d].parent THEN deletion
                   ELSE IF pc[d] = "failed" THEN NoDeletion
                   ELSE IF deletion.step = "containers"
                   THEN [deletion EXCEPT !.step = "volumes", !.errors = call[d].errors]
                   ELSE IF deletion.errors \/ call[d].errors THEN NoDeletion
                   ELSE [deletion EXCEPT !.step = "row"]
    /\ UNCHANGED <<tables, engine, used, monitor, faults>>

-----------------------------------------------------------------------------
(* Service.DeleteDeployments, in the slot for jobs about deployments.      *)

StartDeletion(d) ==
    /\ deletion = NoDeletion
    /\ d \in parents
    /\ deletion' = [dep |-> d, step |-> "containers", errors |-> FALSE]
    /\ UNCHANGED <<tables, engine, pc, call, used, monitor, faults>>

DeletionAt(d, step) ==
    deletion # NoDeletion /\ deletion.dep = d /\ deletion.step = step

DeleteAuxDeployments(d) ==
    /\ DeletionAt(d, "containers")
    /\ Begin(d, [NewCall("delete") EXCEPT !.todo = ItemsOf(d), !.parent = TRUE],
             "removeContainers")

DeleteAuxVolumes(d) ==
    /\ DeletionAt(d, "volumes")
    /\ Begin(d, [NewCall("deleteVolumes") EXCEPT !.refs = RefsOf(d), !.parent = TRUE],
             "removeVolumes")

\* The row goes at the end of the deployments handler's DeleteDeployments; the
\* tables of the auxiliary deployments follow by their foreign keys.
DeleteParent(d) ==
    /\ DeletionAt(d, "row")
    /\ deletion' = NoDeletion
    /\ parents' = parents \ {d}
    /\ active' = active \ {d}
    /\ rows' = [i \in Uuid |-> IF i \in RowsOf(d) THEN NoRow ELSE rows[i]]
    /\ volumeRows' = volumeRows \ ({d} \X Ref)
    /\ UNCHANGED <<engine, pc, call, used, monitor, faults>>

DeleteParentFails(d) ==
    /\ DeletionAt(d, "row")
    /\ deletion' = NoDeletion
    /\ Fault
    /\ UNCHANGED <<tables, engine, pc, call, used, monitor>>

\* Service.EnableDeployments and DisableDeployments.
SetActive(d, state) ==
    /\ deletion = NoDeletion
    /\ d \in parents
    /\ active' = IF state THEN active \cup {d} ELSE active \ {d}
    /\ UNCHANGED <<parents, rows, volumeRows, engine, operations, monitor, faults>>

-----------------------------------------------------------------------------
(* The runtime monitor takes none of the mutexes.                          *)

\* ReadAuxDeploymentsByParent: a deployment with rows, and their containers'
\* names.
Look(d) ==
    /\ seen[d] = NotSeen
    /\ RowsOf(d) # {}
    /\ seen' = [seen EXCEPT ![d] =
                   [active |-> d \in active,
                    enabled |-> {rows[i].name : i \in {j \in RowsOf(d) : rows[j].enabled}},
                    disabled |-> {rows[i].name : i \in {j \in RowsOf(d) : ~ rows[j].enabled}}]]
    /\ UNCHANGED <<tables, engine, operations, jobs, faults>>

Running(S) == {n \in S : containers[n] # Absent /\ containers[n].running}

Stopped(S) == {n \in S : containers[n] # Absent /\ ~ containers[n].running}

\* checkDeployments, for a deployment that has no goroutine.
Decide(d) ==
    /\ seen[d] # NotSeen
    /\ seen' = [seen EXCEPT ![d] = NotSeen]
    /\ LET job == [start |-> IF seen[d].active THEN Stopped(seen[d].enabled) ELSE {},
                   stop |-> Running(seen[d].disabled \cup
                                    IF seen[d].active THEN {} ELSE seen[d].enabled)] IN
       jobs' = IF jobs[d] = NoJob /\ job.start \cup job.stop # {}
               THEN [jobs EXCEPT ![d] = job] ELSE jobs
    /\ UNCHANGED <<tables, engine, operations, faults>>

\* startContainers goes on after an error.
Start(d, n) ==
    /\ jobs[d] # NoJob
    /\ n \in jobs[d].start
    /\ jobs' = [jobs EXCEPT ![d].start = @ \ {n}]
    /\ \/ /\ Exists(n)
          /\ containers' = [containers EXCEPT ![n].running = TRUE]
          /\ NoFault
       \/ UNCHANGED containers /\ FaultUnless(~ Exists(n))
    /\ UNCHANGED <<tables, volumes, operations, seen>>

Stop(d, n) ==
    /\ jobs[d] # NoJob
    /\ jobs[d].start = {}
    /\ n \in jobs[d].stop
    /\ jobs' = [jobs EXCEPT ![d].stop = @ \ {n}]
    /\ \/ /\ Exists(n)
          /\ containers' = [containers EXCEPT ![n].running = FALSE]
          /\ NoFault
       \/ UNCHANGED containers /\ FaultUnless(~ Exists(n))
    /\ UNCHANGED <<tables, volumes, operations, seen>>

\* Faulty variant: runtimeMonitorJobsRemove is not deferred.
EndJobStaysRegistered(d) ==
    /\ jobs[d] # NoJob
    /\ jobs[d].start = {} /\ jobs[d].stop = {}
    /\ UNCHANGED vars

EndJob(d) ==
    /\ jobs[d] # NoJob
    /\ jobs[d].start = {} /\ jobs[d].stop = {}
    /\ jobs' = [jobs EXCEPT ![d] = NoJob]
    /\ UNCHANGED <<tables, engine, operations, seen, faults>>

-----------------------------------------------------------------------------

ContainerExits(n) ==
    /\ n \in Running(Uuid)
    /\ containers' = [containers EXCEPT ![n].running = FALSE]
    /\ Fault
    /\ UNCHANGED <<tables, volumes, operations, monitor>>

\* New: no operation, no goroutine.
Crash ==
    /\ Fault
    /\ pc' = [d \in Deployment |-> "idle"]
    /\ call' = [d \in Deployment |-> NoCall]
    /\ deletion' = NoDeletion
    /\ seen' = [d \in Deployment |-> NotSeen]
    /\ jobs' = [d \in Deployment |-> NoJob]
    /\ UNCHANGED <<tables, engine, used>>

Operation(d) ==
    \/ WriteVolumeRows(d) \/ StopContainer(d)
    \/ RemoveContainer(d) \/ RemoveContainerFails(d)
    \/ WriteRow(d) \/ WriteFails(d)
    \/ EnsureVolumes(d) \/ EnsureVolumesFails(d)
    \/ (\E item \in IF pc[d] = "loop" THEN call[d].todo ELSE {}, u \in Uuid :
           RecreateNext(d, item, u))
    \/ EndRecreate(d)
    \/ CreateContainer(d) \/ CreateContainerFails(d) \/ Rollback(d)
    \/ RemoveContainers(d) \/ DeleteRows(d)
    \/ RemoveVolumes(d) \/ DeleteVolumeRows(d) \/ DeleteFails(d)
    \/ Return(d)

Request(d) ==
    \/ \E u \in Uuid, M \in SUBSET Ref :
          \/ Create(d, u, M) \/ UpdateUnknown(d, u, M)
          \/ \E i \in Uuid : Update(d, i, u, M)
    \/ \E S \in SUBSET ItemsOf(d) : Recreate(d, S) \/ Delete(d, S)
    \/ \E R \in SUBSET RefsOf(d) : DeleteVolumes(d, R) \/ DeleteUnusedVolumes(d, R)

Control(d) ==
    \E state \in BOOLEAN :
        \/ SetActive(d, state)
        \/ \E S \in SUBSET RowsOf(d) : SetEnabled(d, S, state)

DeletionStep(d) ==
    \/ DeleteAuxDeployments(d) \/ DeleteAuxVolumes(d)
    \/ DeleteParent(d) \/ DeleteParentFails(d)

JobStep(d) ==
    \/ \E n \in Uuid : Start(d, n) \/ Stop(d, n)
    \/ EndJob(d)

OperationsNext ==
    \/ \E d \in Deployment : \/ Request(d) \/ Operation(d)
                             \/ StartDeletion(d) \/ DeletionStep(d)
    \/ Crash

RuntimeNext ==
    \/ \E d \in Deployment : Control(d) \/ Look(d) \/ Decide(d) \/ JobStep(d)
    \/ \E n \in Uuid : ContainerExits(n)

Next == OperationsNext \/ RuntimeNext

Spec == Init /\ [][Next]_vars

\* What starts and stops containers changes no more than "enabled", "active" and
\* "running", which no step of OperationsNext and no safety property reads
\* but StopContainer, which clears the last.
OperationsSpec == Init /\ [][OperationsNext]_vars

\* Operations and goroutines run on, the monitor's timer fires again and again.
Fairness ==
    \A d \in Deployment :
        /\ WF_vars(Operation(d))
        /\ WF_vars(Look(d))
        /\ WF_vars(Decide(d))
        /\ WF_vars(JobStep(d))

\* For the liveness properties: the parent is not deleted, which only ever makes
\* rows and containers go.
RemainingNext ==
    \/ \E d \in Deployment : Request(d) \/ Operation(d)
    \/ Crash
    \/ RuntimeNext

LiveSpec == Init /\ [][RemainingNext]_vars /\ Fairness

-----------------------------------------------------------------------------
(* Properties *)

\* A row names every container that carries its id, so no auxiliary deployment
\* ever has two (stop, remove and the new name are separate steps, and the row
\* is written before the container is created).
OneContainerPerRow ==
    \A n \in Uuid :
        Exists(n) /\ containers[n].aux # NoName =>
            /\ \A m \in Uuid \ {n} :
                  Exists(m) => containers[m].aux # containers[n].aux
            /\ rows[containers[n].aux] # NoRow => rows[containers[n].aux].name = n

\* A create, update, recreate or delete reports success for an id only if its
\* container stands with the volumes of the row, or both are gone.
SuccessIsComplete ==
    \A d \in Deployment : pc[d] = "ok" =>
        \A i \in call[d].done :
            IF call[d].kind = "delete"
            THEN /\ rows[i] = NoRow
                 /\ \A n \in Uuid : Exists(n) => containers[n].aux # i
            ELSE i \in RowsOf(d) =>
                     /\ Exists(rows[i].name)
                     /\ containers[rows[i].name].aux = i
                     /\ containers[rows[i].name].mounts = rows[i].mounts
                     /\ {d} \X rows[i].mounts \subseteq volumes

\* The delete of no row, whose statement has no WHERE.
Wipes(d) == pc[d] = "deleteRows" /\ call[d].done = {}

\* The only record of a container is its row: while the container exists the
\* row neither goes nor takes another name, except when a create is rolled back,
\* when the parent goes, and when a delete removes no container at all.
ContainerKeepsRow(i) ==
    (rows[i] # NoRow /\ Exists(rows[i].name) /\
     (rows'[i] = NoRow \/ rows'[i].name # rows[i].name)) =>
        \/ parents' # parents
        \/ \E d \in Deployment : \/ Wipes(d)
                                 \/ pc[d] = "rollback" /\ call[d].id = i

\* Likewise the row of a volume, except when the parent goes and when a deletion
\* of volumes removes none.
VolumeKeepsRow(d, r) ==
    <<d, r>> \in (volumeRows \ volumeRows') \cap volumes =>
        \/ parents' # parents
        \/ pc[d] = "deleteVolumeRows" /\ call[d].refs = {}

\* What exists in the engine keeps its record, whatever fails or dies, but for
\* the cases named in the two definitions (DeleteDeployments, DeleteVolumes,
\* UpdateDeployment, RecreateDeployments).
RowsOutliveResources ==
    [][/\ \A i \in Uuid : ContainerKeepsRow(i)
       /\ \A d \in Deployment, r \in Ref : VolumeKeepsRow(d, r)]_vars

\* Only DeleteVolumes, which names it, removes a volume that a row mounts,
\* whether or not a container exists that would keep the engine from it.
MountedVolumesAreKept ==
    [][\A d \in Deployment, r \in Ref :
          <<d, r>> \in volumes \ volumes' /\ r \in Mounted(d) =>
              call[d].kind = "deleteVolumes"]_vars

\* An auxiliary deployment that stays enabled with its parent and keeps its
\* container ends up running.
EnabledRuns ==
    \A d \in Deployment, i \in Uuid :
        <>[](/\ d \in active /\ i \in RowsOf(d)
             /\ rows[i].enabled /\ Exists(rows[i].name))
            => <>[](i \in RowsOf(d) /\ rows[i].name \in Running(Uuid))

\* One that stays disabled, or whose parent does, ends up stopped.
DisabledStops ==
    \A d \in Deployment, i \in Uuid :
        <>[](i \in RowsOf(d) /\ (~ rows[i].enabled \/ d \notin active))
            => <>[](i \in RowsOf(d) /\ rows[i].name \notin Running(Uuid))

\* Every auxiliary deployment settles in the state that its row and its parent
\* ask for, next to operations that replace its container (RuntimeMonitor).
MonitorSettles == EnabledRuns /\ DisabledStops

\* ReadAuxiliaryDeployment reports an id that is not in the table, so an update
\* of it changes nothing.  (It does not: see run aux_unknown.)
UnknownUpdateChangesNothing ==
    [][\A d \in Deployment :
          (pc[d] # "idle" /\ call[d].kind = "update" /\ call[d].id = NoName
           /\ pc'[d] # pc[d]) => UNCHANGED <<rows, volumeRows, engine>>]_vars

=============================================================================
