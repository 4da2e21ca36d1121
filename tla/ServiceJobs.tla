----------------------------- MODULE ServiceJobs -----------------------------
(***************************************************************************)
(* The jobs of the service (pkg/service): which operation starts which     *)
(* job, which running jobs refuse it, and what becomes of the results.     *)
(*                                                                         *)
(* Every operation that creates a job holds Service.mu from its look at    *)
(* the slots to the creation, so the two are one step here; the job's      *)
(* goroutine runs after Service.mu has been released.  What a job does to  *)
(* modules and deployments is the subject of other modules.                *)
(***************************************************************************)
EXTENDS JobsHandler

CONSTANTS
    Operation, \* the operations that are called, a subset of JobOperation
    NoOperation

repositoryJobSlotNum == 0
deploymentJobSlotNum == 1
moduleJobSlotNum == 2

ResultMap == {"deployments", "deploymentsUpdate", "deploymentsDelete",
              "moduleChange", "refreshRepositories",
              "auxDeploymentCreate", "auxDeploymentUpdate", "auxDeployment"}

\* For each operation that creates a job: the slots that must be free, the
\* slot of the job, and the map its result goes to.
RefreshRepositories ==
    [free |-> {repositoryJobSlotNum}, slot |-> repositoryJobSlotNum,
     result |-> "refreshRepositories"]
ExecModulesChangeRequest ==
    [free |-> {moduleJobSlotNum, repositoryJobSlotNum, deploymentJobSlotNum},
     slot |-> moduleJobSlotNum, result |-> "moduleChange"]
\* Faulty variant: the module slot is not looked at.
CreateDeploymentsModuleSlotIgnored ==
    [free |-> {deploymentJobSlotNum}, slot |-> deploymentJobSlotNum,
     result |-> "deployments"]

CreateDeployments ==
    [free |-> {deploymentJobSlotNum, moduleJobSlotNum},
     slot |-> deploymentJobSlotNum, result |-> "deployments"]
UpdateDeployments ==
    [free |-> {deploymentJobSlotNum, moduleJobSlotNum},
     slot |-> deploymentJobSlotNum, result |-> "deploymentsUpdate"]
RecreateDeployments ==
    [free |-> {deploymentJobSlotNum, moduleJobSlotNum},
     slot |-> deploymentJobSlotNum, result |-> "deployments"]
DeleteDeployments ==
    [free |-> {deploymentJobSlotNum}, slot |-> deploymentJobSlotNum,
     result |-> "deploymentsDelete"]
CreateAuxiliaryDeployment ==
    [free |-> {deploymentJobSlotNum, moduleJobSlotNum}, slot |-> NoSlot,
     result |-> "auxDeploymentCreate"]
UpdateAuxiliaryDeployment ==
    [free |-> {deploymentJobSlotNum, moduleJobSlotNum}, slot |-> NoSlot,
     result |-> "auxDeploymentUpdate"]
RecreateAuxiliaryDeployments ==
    [free |-> {deploymentJobSlotNum, moduleJobSlotNum}, slot |-> NoSlot,
     result |-> "auxDeployment"]
DeleteAuxiliaryDeployments ==
    [free |-> {}, slot |-> NoSlot, result |-> "auxDeployment"]

JobOperation ==
    {RefreshRepositories, ExecModulesChangeRequest, CreateDeployments,
     UpdateDeployments, RecreateDeployments, DeleteDeployments,
     CreateAuxiliaryDeployment, UpdateAuxiliaryDeployment,
     RecreateAuxiliaryDeployments, DeleteAuxiliaryDeployments}

ASSUME ServiceJobsAssumption ==
    /\ Slot = {repositoryJobSlotNum, deploymentJobSlotNum, moduleJobSlotNum}
    /\ Operation \subseteq JobOperation
    /\ NoOperation \notin JobOperation

VARIABLES
    operation,  \* the operation that created each job
    resultSet,  \* jobs whose goroutine has stored its result
    jobResults, \* Service.jobResults: for each map, the ids it has a result of
    metRunning  \* history: jobs that the cleanup evicted before their end

svcVars == <<operation, resultSet, jobResults, metRunning>>
vars == <<jobVars, svcVars>>

HasResult(j) == \E m \in ResultMap : j \in jobResults[m]

TypeOK ==
    /\ JobsTypeOK
    /\ operation \in [Job -> Operation \cup {NoOperation}]
    /\ resultSet \in SUBSET Job
    /\ jobResults \in [ResultMap -> SUBSET Job]
    /\ metRunning \in SUBSET Job

Init ==
    /\ JobsInit
    /\ operation = [j \in Job |-> NoOperation]
    /\ resultSet = {}
    /\ jobResults = [m \in ResultMap |-> {}]
    /\ metRunning = {}

-----------------------------------------------------------------------------
(* An operation is called (HTTP API): it fails when one of the slots is    *)
(* taken, and otherwise creates its job.                                   *)

StartJob(op, j) ==
    /\ ~ActiveSlotJob(op.free)
    /\ IF op.slot = NoSlot THEN CreateJob(j) ELSE CreateSlotJob(j, op.slot)
    /\ operation' = [operation EXCEPT ![j] = op]
    /\ UNCHANGED <<resultSet, jobResults, metRunning>>

\* The deferred function of the job's goroutine, which also runs when the
\* work panics: store the result, then call Job.Done.
SetResult(j) ==
    /\ state[j] = "running"
    /\ j \notin resultSet
    /\ resultSet' = resultSet \cup {j}
    /\ jobResults' = [jobResults EXCEPT ![operation[j].result] = @ \cup {j}]
    /\ UNCHANGED <<jobVars, operation, metRunning>>

\* Faulty variant: Done runs before the result is stored.
EndJobEarly(j) ==
    /\ SetEnd(j)
    /\ UNCHANGED svcVars

EndJob(j) ==
    /\ j \in resultSet
    /\ SetEnd(j)
    /\ UNCHANGED svcVars

ReturnJob(j) ==
    /\ SlotJobDone(j) \/ CancelOwnContext(j)
    /\ UNCHANGED svcVars

-----------------------------------------------------------------------------
(* The cleanup loop with the callback that main.go installs.               *)

CleanupJobs ==
    /\ Evict
    /\ metRunning' = metRunning \cup {j \in oldJobs' : state[j] = "running"}
    /\ UNCHANGED <<operation, resultSet, jobResults>>

\* Faulty variants: a further map is forgotten.
CleanedMapNoAuxDeployment == ResultMap \ {"deploymentsDelete", "auxDeployment"}
CleanedMapNoUpdate == ResultMap \ {"deploymentsDelete", "deploymentsUpdate"}

\* The maps the callback deletes from: deploymentsDelete is not among them.
CleanedMap == ResultMap \ {"deploymentsDelete"}

DeleteJobResults ==
    /\ CallCleanupHandler
    /\ jobResults' = [m \in ResultMap |->
                         IF m \in CleanedMap THEN jobResults[m] \ oldJobs
                                             ELSE jobResults[m]]
    /\ UNCHANGED <<operation, resultSet, metRunning>>

-----------------------------------------------------------------------------

\* CancelJob(id) and CancelJobs(ids), which cancels every job without ids.
CancelJobs(ids) == Cancel(ids) /\ UNCHANGED svcVars

AgeJob(j) == Age(j) /\ UNCHANGED svcVars

StopService == Shutdown /\ UNCHANGED svcVars

RunJob(j) == SetResult(j) \/ EndJob(j) \/ ReturnJob(j)

Next ==
    \/ \E op \in Operation, j \in Job : StartJob(op, j)
    \/ \E j \in Job : RunJob(j)
    \/ \E ids \in SUBSET Job : CancelJobs(ids)
    \/ CleanupJobs
    \/ DeleteJobResults
    \/ \E j \in Job : AgeJob(j)
    \/ StopService

Spec == Init /\ [][Next]_vars

\* The goroutine of a job is scheduled until it returns (the calls it makes
\* return), the loop's timer fires again and again until the shutdown, and
\* time passes.
Fairness ==
    /\ \A j \in Job : WF_vars(RunJob(j)) /\ WF_vars(AgeJob(j))
    /\ WF_vars(~ctxDone /\ CleanupJobs) /\ WF_vars(DeleteJobResults)

FairSpec == Spec /\ Fairness

-----------------------------------------------------------------------------
(* Properties *)

\* Two jobs of one slot never overlap, even though the slot is freed by
\* number and cleanup forgets jobs that still run (CreateSlotJob,
\* slotJobDone, cleanup).
SlotExclusion ==
    \A j, k \in Job :
        /\ j # k /\ Unfinished(j) /\ Unfinished(k)
        /\ slotOf[j] # NoSlot
        => slotOf[j] # slotOf[k]

\* While the modules change, no deployment is created, updated or recreated,
\* and the other way round: each of these operations looks at the slot of
\* the other (CreateDeployments, UpdateDeployments, RecreateDeployments,
\* ExecModulesChangeRequest).  Deleting deployments, refreshing repositories
\* and auxiliary jobs may well overlap with a module change.
ModulesStableWhileDeploying ==
    \A j, k \in Job :
        /\ Unfinished(j) /\ operation[j] = ExecModulesChangeRequest
        /\ Unfinished(k)
        => operation[k] \notin {CreateDeployments, UpdateDeployments,
                                RecreateDeployments}

\* A client that sees the end of a job can fetch its result: a listed job
\* with an end has one, whatever the cleanup did since (the deferred
\* functions set the result before Done; cleanup evicts before the callback
\* deletes).
ListedEndHasResult ==
    \A j \in Ended \cap jobMap : j \in jobResults[operation[j].result]

\* Which results nobody will ever delete: those of deleted deployments, which
\* DeleteJobResults leaves out, and those of jobs that the cleanup met while
\* they were running.  Every other stored result belongs to a listed job or
\* to one whose callback is still to come.
OnlyKnownLeaks ==
    \A j \in Job :
        HasResult(j) =>
            \/ j \in jobMap \cup oldJobs
            \/ operation[j] = DeleteDeployments
            \/ j \in metRunning

\* The other results are deleted at some point, unless the shutdown ends the
\* loop first (Cleanup, DeleteJobResults).
ResultsReclaimed ==
    \A j \in Job :
        /\ state[j] = "done" /\ operation[j] # DeleteDeployments
        /\ j \notin metRunning
        ~> ~HasResult(j) \/ ctxDone

=============================================================================
