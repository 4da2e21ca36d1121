---------------------------- MODULE ProcessProofs ----------------------------
(***************************************************************************)
(* Proofs about the process: the jobs that it runs (JobsHandler and        *)
(* ServiceJobs) and the migrations that it starts with (Migrations).       *)
(*                                                                         *)
(* First the jobs handler alone: its types, the slots as a lock, what the  *)
(* job map and the cleanup's list contain.  The steps of the service are   *)
(* steps of the handler, so that carries over; the invariant SvcInv adds   *)
(* how the slots, the operations and the results belong together.          *)
(*                                                                         *)
(* Then the migrations.  Every statement brings the schema nearer to that  *)
(* of this version (Fits), after those that it needs (Prepared); both hold *)
(* of each function and so of their concatenation.  Hence what was         *)
(* executed or skipped stays done (DoneIsKept), however often the process  *)
(* begins again, which is the heart of the invariant MigrationsInv.        *)
(***************************************************************************)
EXTENDS ServiceJobs, Migrations, TLAPS

-----------------------------------------------------------------------------
(* The jobs handler *)

\* SlotsMatchHolders, taken apart: the entry of a slot is an unfinished job
\* of that slot, and an unfinished slot job is the entry of its slot.
SlotInv ==
    /\ \A s \in Slot : jobSlots[s] # NoJob =>
          slotOf[jobSlots[s]] = s /\ Unfinished(jobSlots[s])
    /\ \A j \in Job : Unfinished(j) /\ slotOf[j] # NoSlot => jobSlots[slotOf[j]] = j

\* Listed and evicted jobs have been created, and none is both.
MapInv ==
    /\ jobMap \cup oldJobs \subseteq Created
    /\ jobMap \cap oldJobs = {}

JobsInv == JobsTypeOK /\ SlotInv /\ MapInv

LEMMA InitJobsInv == JobsInit => JobsInv
  BY JobsHandlerAssumption
  DEF JobsInit, JobsInv, JobsTypeOK, SlotInv, MapInv, JobState, Unfinished, Created

\* Every step of the handler preserves the types.
LEMMA NextJobsTypeOK ==
    ASSUME JobsTypeOK, [JobsNext]_jobVars
    PROVE  JobsTypeOK'
<1>1. ASSUME NEW j \in Job, CreateJob(j)
      PROVE  JobsTypeOK'
  BY <1>1 DEF JobsTypeOK, CreateJob, NewJob, JobState
<1>2. ASSUME NEW j \in Job, NEW s \in Slot, CreateSlotJob(j, s)
      PROVE  JobsTypeOK'
  BY <1>2 DEF JobsTypeOK, CreateSlotJob, NewJob, JobState
<1>3. ASSUME NEW j \in Job, SetEnd(j)
      PROVE  JobsTypeOK'
  BY <1>3 DEF JobsTypeOK, SetEnd, JobState
<1>4. ASSUME NEW j \in Job, SlotJobDone(j)
      PROVE  JobsTypeOK'
  BY <1>4 DEF JobsTypeOK, SlotJobDone, JobState
<1>5. ASSUME NEW j \in Job, CancelOwnContext(j)
      PROVE  JobsTypeOK'
  BY <1>5 DEF JobsTypeOK, CancelOwnContext, JobState
<1>6. ASSUME NEW ids \in SUBSET Job, Cancel(ids)
      PROVE  JobsTypeOK'
  BY <1>6 DEF JobsTypeOK, Cancel, Jobs
<1>7. CASE Evict
  BY <1>7 DEF JobsTypeOK, Evict
<1>8. CASE CallCleanupHandler
  BY <1>8 DEF JobsTypeOK, CallCleanupHandler
<1>9. ASSUME NEW j \in Job, Age(j)
      PROVE  JobsTypeOK'
  BY <1>9 DEF JobsTypeOK, Age
<1>10. CASE Shutdown
  BY <1>10 DEF JobsTypeOK, Shutdown, Created
<1>11. CASE UNCHANGED jobVars
  BY <1>11 DEF JobsTypeOK, jobVars
<1>12. QED
  BY <1>1, <1>2, <1>3, <1>4, <1>5, <1>6, <1>7, <1>8, <1>9, <1>10, <1>11
  DEF JobsNext, Finish

\* Every step keeps the slots in agreement with the jobs that hold them.
LEMMA NextSlotInv ==
    ASSUME JobsTypeOK, SlotInv, [JobsNext]_jobVars
    PROVE  SlotInv'
<1> USE JobsHandlerAssumption DEF SlotInv, Unfinished, JobsTypeOK
<1>1. ASSUME NEW j \in Job, CreateJob(j)
      PROVE  SlotInv'
  BY <1>1 DEF CreateJob, NewJob
<1>2. ASSUME NEW j \in Job, NEW s \in Slot, CreateSlotJob(j, s)
      PROVE  SlotInv'
  BY <1>2 DEF CreateSlotJob, NewJob
<1>3. ASSUME NEW j \in Job, SetEnd(j)
      PROVE  SlotInv'
  BY <1>3 DEF SetEnd
<1>4. ASSUME NEW j \in Job, SlotJobDone(j)
      PROVE  SlotInv'
  BY <1>4 DEF SlotJobDone
<1>5. ASSUME NEW j \in Job, CancelOwnContext(j)
      PROVE  SlotInv'
  BY <1>5 DEF CancelOwnContext
<1>6. CASE UNCHANGED <<jobSlots, state, slotOf>>
  BY <1>6
<1>7. QED
  BY <1>1, <1>2, <1>3, <1>4, <1>5, <1>6
  DEF JobsNext, Finish, Cancel, Evict, CallCleanupHandler, Age, Shutdown, jobVars

\* Every step keeps the job map and the cleanup's list apart.
LEMMA NextMapInv ==
    ASSUME JobsTypeOK, MapInv, [JobsNext]_jobVars
    PROVE  MapInv'
<1> USE DEF MapInv, Created, JobsTypeOK
<1>1. ASSUME NEW j \in Job, NEW s \in Slot \cup {NoSlot}, NewJob(j, s)
      PROVE  MapInv'
  BY <1>1 DEF NewJob
<1>2. ASSUME NEW j \in Job, Finish(j)
      PROVE  MapInv'
  BY <1>2 DEF Finish, SetEnd, SlotJobDone, CancelOwnContext
<1>3. CASE Evict
  BY <1>3 DEF Evict
<1>4. CASE CallCleanupHandler
  BY <1>4 DEF CallCleanupHandler
<1>5. CASE UNCHANGED <<jobMap, oldJobs, state>>
  BY <1>5
<1>6. QED
  BY <1>1, <1>2, <1>3, <1>4, <1>5
  DEF JobsNext, CreateJob, CreateSlotJob, Cancel, Age, Shutdown, jobVars

\* The job handler keeps its types, and its slots and maps agree with the jobs.
THEOREM JobsInvariant == JobsSpec => []JobsInv
<1>1. JobsInit => JobsInv
  BY InitJobsInv
<1>2. JobsInv /\ [JobsNext]_jobVars => JobsInv'
  BY NextJobsTypeOK, NextSlotInv, NextMapInv DEF JobsInv
<1>3. QED
  BY <1>1, <1>2, PTL DEF JobsSpec

\* jobSlots is exactly the set of slots whose job has not returned from its
\* done handler (CreateSlotJob, slotJobDone).
THEOREM SlotsMatch == JobsSpec => []SlotsMatchHolders
<1>1. JobsInv => SlotsMatchHolders
  BY JobsHandlerAssumption
  DEF JobsInv, JobsTypeOK, SlotInv, SlotsMatchHolders, Holders
<1>2. QED
  BY <1>1, JobsInvariant, PTL

\* The slots implement a lock: the handler's steps are steps of SlotLock.
THEOREM Refinement == JobsSpec => LockRefinement
<1> USE JobsHandlerAssumption
<1>1. JobsInit => Lock!LockInit
  BY DEF JobsInit, Lock!LockInit, Created, Unfinished
<1>2. JobsInv /\ [JobsNext]_jobVars => [Lock!LockNext]_Lock!lockVars
  <2> SUFFICES ASSUME JobsInv, [JobsNext]_jobVars
               PROVE  [Lock!LockNext]_Lock!lockVars
    OBVIOUS
  <2> USE DEF JobsInv, JobsTypeOK, Created, Unfinished, Lock!lockVars
  <2>1. ASSUME NEW j \in Job, CreateJob(j)
        PROVE  Lock!Begin(j)
    BY <2>1 DEF CreateJob, NewJob, Lock!Begin
  <2>2. ASSUME NEW j \in Job, NEW s \in Slot, CreateSlotJob(j, s)
        PROVE  Lock!BeginHolding(j, s)
    <3>1. /\ state[j] = "unused"
          /\ state' = [state EXCEPT ![j] = "running"]
          /\ slotOf' = [slotOf EXCEPT ![j] = s]
      BY <2>2 DEF CreateSlotJob, NewJob
    <3>2. \A k \in Job : (IF Unfinished(k) THEN slotOf[k] ELSE NoSlot) # s
      BY <2>2 DEF CreateSlotJob, SlotInv
    <3>3. j \notin Created /\ Created' = Created \cup {j}
      BY <3>1
    <3>4. [k \in Job |-> IF Unfinished(k) THEN slotOf[k] ELSE NoSlot]'
            = [[k \in Job |-> IF Unfinished(k) THEN slotOf[k] ELSE NoSlot]
                 EXCEPT ![j] = s]
      BY <3>1
    <3>5. QED
      BY <3>2, <3>3, <3>4 DEF Lock!BeginHolding
  <2>3. ASSUME NEW j \in Job, SetEnd(j)
        PROVE  UNCHANGED Lock!lockVars
    BY <2>3 DEF SetEnd
  <2>4. ASSUME NEW j \in Job, SlotJobDone(j)
        PROVE  Lock!Release(j) \/ UNCHANGED Lock!lockVars
    BY <2>4 DEF SlotJobDone, Lock!Release
  <2>5. ASSUME NEW j \in Job, CancelOwnContext(j)
        PROVE  UNCHANGED Lock!lockVars
    BY <2>5 DEF CancelOwnContext
  <2>6. CASE UNCHANGED <<state, slotOf>>
    BY <2>6
  <2>7. QED
    BY <2>1, <2>2, <2>3, <2>4, <2>5, <2>6
    DEF JobsNext, Finish, Cancel, Evict, CallCleanupHandler, Age, Shutdown,
        jobVars, Lock!LockNext
<1>3. QED
  BY <1>1, <1>2, JobsInvariant, PTL
  DEF JobsSpec, LockRefinement, Lock!LockSpec

-----------------------------------------------------------------------------
(* The service on top of it *)

Deploying == {CreateDeployments, UpdateDeployments, RecreateDeployments}

\* A job has the slot of its operation.
OperationInv ==
    \A j \in Created : operation[j] \in Operation /\ slotOf[j] = operation[j].slot

\* A result is set by the goroutine of the job, before the end, into the map
\* of its operation, and stays there while the job is listed.
ResultInv ==
    /\ Ended \subseteq resultSet
    /\ resultSet \subseteq Created
    /\ \A m \in ResultMap : \A j \in jobResults[m] :
          j \in resultSet /\ operation[j].result = m
    /\ \A j \in jobMap \cap resultSet : j \in jobResults[operation[j].result]

\* A running job that is not listed was evicted while it was running.
MetRunningInv ==
    \A j \in Job : state[j] = "running" /\ j \notin jobMap => j \in metRunning

SvcInv ==
    /\ JobsInv
    /\ TypeOK
    /\ OperationInv
    /\ ModulesStableWhileDeploying
    /\ ResultInv
    /\ MetRunningInv
    /\ OnlyKnownLeaks

-----------------------------------------------------------------------------
(* Facts about the table of operations. *)

\* Every operation names a slot or none, and one of the result maps.
LEMMA OperationFields ==
    ASSUME NEW op \in Operation
    PROVE  op.slot \in Slot \cup {NoSlot} /\ op.result \in ResultMap
  BY ServiceJobsAssumption
  DEF JobOperation, RefreshRepositories, ExecModulesChangeRequest,
      CreateDeployments, UpdateDeployments, RecreateDeployments,
      DeleteDeployments, CreateAuxiliaryDeployment, UpdateAuxiliaryDeployment,
      RecreateAuxiliaryDeployments, DeleteAuxiliaryDeployments, ResultMap,
      repositoryJobSlotNum, deploymentJobSlotNum, moduleJobSlotNum

\* Only the deletion of deployments stores into the map deploymentsDelete.
LEMMA DeleteResultMap ==
    ASSUME NEW op \in Operation, op.result \notin CleanedMap
    PROVE  op = DeleteDeployments
  BY ServiceJobsAssumption
  DEF JobOperation, RefreshRepositories, ExecModulesChangeRequest,
      CreateDeployments, UpdateDeployments, RecreateDeployments,
      DeleteDeployments, CreateAuxiliaryDeployment, UpdateAuxiliaryDeployment,
      RecreateAuxiliaryDeployments, DeleteAuxiliaryDeployments, ResultMap,
      CleanedMap

\* A module change and the operations that deploy take different slots, and
\* each wants the slot of the other free.
LEMMA DeployingAndChanging ==
    /\ ExecModulesChangeRequest.slot = moduleJobSlotNum
    /\ deploymentJobSlotNum \in ExecModulesChangeRequest.free
    /\ ExecModulesChangeRequest \notin Deploying
    /\ \A op \in Deploying :
          op.slot = deploymentJobSlotNum /\ moduleJobSlotNum \in op.free
  BY DEF ExecModulesChangeRequest, Deploying, CreateDeployments,
         UpdateDeployments, RecreateDeployments,
         repositoryJobSlotNum, deploymentJobSlotNum, moduleJobSlotNum

-----------------------------------------------------------------------------
(* The service's steps seen by the jobs handler. *)

LEMMA StepIsJobsStep ==
    ASSUME [Next]_vars
    PROVE  [JobsNext]_jobVars
<1>1. ASSUME NEW op \in Operation, NEW j \in Job, StartJob(op, j)
      PROVE  JobsNext
  <2>1. CASE op.slot = NoSlot
    BY <1>1, <2>1 DEF StartJob, JobsNext
  <2>2. CASE op.slot # NoSlot
    BY <1>1, <2>2, OperationFields DEF StartJob, JobsNext
  <2>3. QED
    BY <2>1, <2>2
<1>2. ASSUME NEW j \in Job, RunJob(j)
      PROVE  [JobsNext]_jobVars
  BY <1>2 DEF RunJob, SetResult, EndJob, ReturnJob, JobsNext, Finish
<1>3. ASSUME NEW ids \in SUBSET Job, CancelJobs(ids)
      PROVE  JobsNext
  BY <1>3 DEF CancelJobs, JobsNext
<1>4. ASSUME NEW j \in Job, AgeJob(j)
      PROVE  JobsNext
  BY <1>4 DEF AgeJob, JobsNext
<1>5. CASE CleanupJobs \/ DeleteJobResults \/ StopService
  BY <1>5 DEF CleanupJobs, DeleteJobResults, StopService, JobsNext
<1>6. CASE UNCHANGED vars
  BY <1>6 DEF vars
<1>7. QED
  BY <1>1, <1>2, <1>3, <1>4, <1>5, <1>6 DEF Next

\* The jobs of the service are jobs of the jobs handler.
THEOREM ServiceImplementsHandler == Spec => JobsSpec
<1>1. Init => JobsInit
  BY DEF Init
<1>2. QED
  BY <1>1, StepIsJobsStep, PTL DEF Spec, JobsSpec

\* So the service's operations hold the slots of CreateSlotJob as a lock: a
\* job with a slot begins only while no other unfinished job has that slot.
THEOREM ServiceImplementsLock == Spec => LockRefinement
  BY ServiceImplementsHandler, Refinement

-----------------------------------------------------------------------------
(* Preservation of the parts of SvcInv. *)

LEMMA InitSvcInv == Init => SvcInv
<1> SUFFICES ASSUME Init
             PROVE  SvcInv
  OBVIOUS
<1>1. JobsInv
  BY InitJobsInv DEF Init
<1>2. TypeOK
  BY <1>1 DEF Init, TypeOK, JobsInv
<1>3. Created = {} /\ Ended = {} /\ jobMap = {}
  BY DEF Init, JobsInit, Created, Ended
<1>4. OperationInv /\ ResultInv /\ OnlyKnownLeaks
  BY <1>3 DEF Init, OperationInv, ResultInv, OnlyKnownLeaks, HasResult
<1>5. ModulesStableWhileDeploying /\ MetRunningInv
  BY DEF Init, JobsInit, ModulesStableWhileDeploying, MetRunningInv, Unfinished
<1>6. QED
  BY <1>1, <1>2, <1>4, <1>5 DEF SvcInv

LEMMA NextTypeOK ==
    ASSUME TypeOK, JobsTypeOK', OperationInv, ResultInv, [Next]_vars
    PROVE  TypeOK'
<1> USE DEF TypeOK
<1>1. ASSUME NEW op \in Operation, NEW j \in Job, StartJob(op, j)
      PROVE  TypeOK'
  BY <1>1 DEF StartJob
<1>2. ASSUME NEW j \in Job, SetResult(j)
      PROVE  TypeOK'
  <2>1. operation[j].result \in ResultMap
    BY <1>2, OperationFields DEF SetResult, OperationInv, Created
  <2>2. QED
    BY <1>2, <2>1 DEF SetResult
<1>3. CASE CleanupJobs
  BY <1>3 DEF CleanupJobs, JobsTypeOK
<1>4. CASE DeleteJobResults
  BY <1>4 DEF DeleteJobResults
<1>5. CASE UNCHANGED svcVars
  BY <1>5 DEF svcVars
<1>6. QED
  BY <1>1, <1>2, <1>3, <1>4, <1>5
  DEF Next, RunJob, EndJob, ReturnJob, CancelJobs, AgeJob, StopService, vars

LEMMA NextOperationInv ==
    ASSUME TypeOK, OperationInv, [Next]_vars
    PROVE  OperationInv'
<1> USE DEF TypeOK, JobsTypeOK, OperationInv, Created
<1>1. ASSUME NEW op \in Operation, NEW j \in Job, StartJob(op, j)
      PROVE  OperationInv'
  BY <1>1 DEF StartJob, CreateJob, CreateSlotJob, NewJob
<1>2. ASSUME NEW j \in Job, RunJob(j)
      PROVE  OperationInv'
  BY <1>2 DEF RunJob, SetResult, EndJob, ReturnJob, SetEnd, SlotJobDone,
              CancelOwnContext, jobVars, svcVars
<1>3. CASE UNCHANGED <<state, slotOf, operation>>
  BY <1>3
<1>4. QED
  BY <1>1, <1>2, <1>3
  DEF Next, CancelJobs, Cancel, AgeJob, Age, CleanupJobs, Evict,
      DeleteJobResults, CallCleanupHandler, StopService, Shutdown,
      vars, jobVars, svcVars

LEMMA NextModulesStable ==
    ASSUME TypeOK, SlotInv, OperationInv, ModulesStableWhileDeploying, [Next]_vars
    PROVE  ModulesStableWhileDeploying'
<1> USE DEF ModulesStableWhileDeploying, Unfinished
<1>1. ASSUME NEW op \in Operation, NEW j \in Job, StartJob(op, j)
      PROVE  ModulesStableWhileDeploying'
  <2>1. /\ state' = [state EXCEPT ![j] = "running"]
        /\ operation' = [operation EXCEPT ![j] = op]
    BY <1>1 DEF StartJob, CreateJob, CreateSlotJob, NewJob
  <2>2. /\ deploymentJobSlotNum \in Slot \ {NoSlot}
        /\ moduleJobSlotNum \in Slot \ {NoSlot}
    BY JobsHandlerAssumption, ServiceJobsAssumption
  <2>3. ASSUME NEW k \in Job, Unfinished(k), operation[k].slot \in op.free,
               operation[k].slot \in Slot \ {NoSlot}
        PROVE  FALSE
    <3>1. slotOf[k] = operation[k].slot
      BY <2>3 DEF OperationInv, Created
    <3>2. jobSlots[operation[k].slot] = k
      BY <2>3, <3>1 DEF SlotInv
    <3>3. QED
      BY <1>1, <2>3, <3>2, JobsHandlerAssumption DEF StartJob, ActiveSlotJob
  <2>4. ASSUME op = ExecModulesChangeRequest, NEW k \in Job, Unfinished(k)
        PROVE  operation[k] \notin Deploying
    BY <2>2, <2>3, <2>4, DeployingAndChanging
  <2>5. ASSUME op \in Deploying, NEW k \in Job, Unfinished(k)
        PROVE  operation[k] # ExecModulesChangeRequest
    BY <2>2, <2>3, <2>5, DeployingAndChanging
  <2>6. QED
    BY <2>1, <2>4, <2>5, DeployingAndChanging DEF Deploying, TypeOK, JobsTypeOK
<1>2. ASSUME NEW j \in Job, RunJob(j)
      PROVE  ModulesStableWhileDeploying'
  BY <1>2 DEF RunJob, SetResult, EndJob, ReturnJob, SetEnd, SlotJobDone,
              CancelOwnContext, jobVars, svcVars, TypeOK, JobsTypeOK
<1>3. CASE UNCHANGED <<state, operation>>
  BY <1>3
<1>4. QED
  BY <1>1, <1>2, <1>3
  DEF Next, CancelJobs, Cancel, AgeJob, Age, CleanupJobs, Evict,
      DeleteJobResults, CallCleanupHandler, StopService, Shutdown,
      vars, jobVars, svcVars

LEMMA NextResultInv ==
    ASSUME TypeOK, MapInv, OperationInv, ResultInv, [Next]_vars
    PROVE  ResultInv'
<1> USE DEF ResultInv, TypeOK, JobsTypeOK, Created, Ended
<1>1. ASSUME NEW op \in Operation, NEW j \in Job, StartJob(op, j)
      PROVE  ResultInv'
  BY <1>1 DEF StartJob, CreateJob, CreateSlotJob, NewJob
<1>2. ASSUME NEW j \in Job, SetResult(j)
      PROVE  ResultInv'
  <2>1. operation[j].result \in ResultMap
    BY <1>2, OperationFields DEF SetResult, OperationInv
  <2>2. QED
    BY <1>2, <2>1 DEF SetResult, jobVars
<1>3. ASSUME NEW j \in Job, EndJob(j) \/ ReturnJob(j)
      PROVE  ResultInv'
  BY <1>3 DEF EndJob, ReturnJob, SetEnd, SlotJobDone, CancelOwnContext, svcVars
<1>4. CASE CleanupJobs
  BY <1>4 DEF CleanupJobs, Evict
<1>5. CASE DeleteJobResults
  <2>1. \A j \in resultSet : operation[j].result \in ResultMap
    BY OperationFields DEF OperationInv
  <2>2. \A m \in ResultMap : jobResults'[m] \subseteq jobResults[m]
    BY <1>5 DEF DeleteJobResults
  <2>3. \A j \in jobMap \cap resultSet : j \in jobResults'[operation[j].result]
    BY <1>5, <2>1 DEF DeleteJobResults, MapInv
  <2>4. UNCHANGED <<jobMap, state, operation, resultSet>>
    BY <1>5 DEF DeleteJobResults, CallCleanupHandler
  <2>5. QED
    BY <2>2, <2>3, <2>4
<1>6. CASE UNCHANGED <<jobMap, state, svcVars>>
  BY <1>6 DEF svcVars
<1>7. QED
  BY <1>1, <1>2, <1>3, <1>4, <1>5, <1>6
  DEF Next, RunJob, CancelJobs, Cancel, AgeJob, Age, StopService, Shutdown,
      vars, jobVars

LEMMA NextMetRunningInv ==
    ASSUME TypeOK, MetRunningInv, [Next]_vars
    PROVE  MetRunningInv'
<1> USE DEF MetRunningInv, TypeOK, JobsTypeOK
<1>1. ASSUME NEW op \in Operation, NEW j \in Job, StartJob(op, j)
      PROVE  MetRunningInv'
  BY <1>1 DEF StartJob, CreateJob, CreateSlotJob, NewJob
<1>2. ASSUME NEW j \in Job, RunJob(j)
      PROVE  MetRunningInv'
  BY <1>2 DEF RunJob, SetResult, EndJob, ReturnJob, SetEnd, SlotJobDone,
              CancelOwnContext, jobVars, svcVars
<1>3. CASE CleanupJobs
  BY <1>3 DEF CleanupJobs, Evict, OldEnough
<1>4. CASE UNCHANGED <<jobMap, state, metRunning>>
  BY <1>4
<1>5. QED
  BY <1>1, <1>2, <1>3, <1>4
  DEF Next, CancelJobs, Cancel, AgeJob, Age, DeleteJobResults,
      CallCleanupHandler, StopService, Shutdown, vars, jobVars, svcVars

LEMMA NextOnlyKnownLeaks ==
    ASSUME TypeOK, OperationInv, ResultInv, MetRunningInv, OnlyKnownLeaks,
           [Next]_vars
    PROVE  OnlyKnownLeaks'
<1> USE DEF OnlyKnownLeaks, HasResult, TypeOK, JobsTypeOK
<1>1. ASSUME NEW op \in Operation, NEW j \in Job, StartJob(op, j)
      PROVE  OnlyKnownLeaks'
  BY <1>1 DEF StartJob, CreateJob, CreateSlotJob, NewJob
<1>2. ASSUME NEW j \in Job, SetResult(j)
      PROVE  OnlyKnownLeaks'
  BY <1>2 DEF SetResult, MetRunningInv, jobVars
<1>3. CASE CleanupJobs
  BY <1>3 DEF CleanupJobs, Evict
<1>4. CASE DeleteJobResults
  <2> SUFFICES ASSUME NEW j \in Job, HasResult(j)', j \notin jobMap
               PROVE  operation[j] = DeleteDeployments \/ j \in metRunning
    BY <1>4 DEF DeleteJobResults, CallCleanupHandler
  <2>1. PICK m \in ResultMap : j \in jobResults'[m]
    OBVIOUS
  <2>2. j \in jobResults[m]
    BY <1>4, <2>1 DEF DeleteJobResults
  <2>3. CASE j \notin oldJobs
    BY <2>2, <2>3
  <2>4. CASE j \in oldJobs
    <3>1. m \notin CleanedMap
      BY <1>4, <2>1, <2>4 DEF DeleteJobResults
    <3>2. operation[j] \in Operation /\ operation[j].result = m
      BY <2>2 DEF ResultInv, OperationInv
    <3>3. QED
      BY <3>1, <3>2, DeleteResultMap
  <2>5. QED
    BY <2>3, <2>4
<1>5. CASE UNCHANGED <<jobMap, oldJobs, svcVars>>
  BY <1>5 DEF svcVars
<1>6. QED
  BY <1>1, <1>2, <1>3, <1>4, <1>5
  DEF Next, RunJob, EndJob, ReturnJob, SetEnd, SlotJobDone, CancelOwnContext,
      CancelJobs, Cancel, AgeJob, Age, StopService, Shutdown, vars, jobVars

-----------------------------------------------------------------------------
(* The theorems. *)

\* SvcInv is an inductive invariant of the jobs of the service.
THEOREM SvcInvariant == Spec => []SvcInv
<1>1. Init => SvcInv
  BY InitSvcInv
<1>2. SvcInv /\ [Next]_vars => SvcInv'
  <2> SUFFICES ASSUME SvcInv, [Next]_vars
               PROVE  SvcInv'
    OBVIOUS
  <2>1. JobsInv'
    BY StepIsJobsStep, NextJobsTypeOK, NextSlotInv, NextMapInv DEF SvcInv, JobsInv
  <2>2. TypeOK'
    BY <2>1, NextTypeOK DEF SvcInv, JobsInv
  <2>3. OperationInv' /\ ModulesStableWhileDeploying'
    BY NextOperationInv, NextModulesStable DEF SvcInv, JobsInv
  <2>4. ResultInv' /\ MetRunningInv' /\ OnlyKnownLeaks'
    BY NextResultInv, NextMetRunningInv, NextOnlyKnownLeaks DEF SvcInv, JobsInv
  <2>5. QED
    BY <2>1, <2>2, <2>3, <2>4 DEF SvcInv
<1>3. QED
  BY <1>1, <1>2, PTL DEF Spec

\* The variables keep their types.
THEOREM TypeCorrect == Spec => []TypeOK
  BY SvcInvariant, PTL DEF SvcInv

\* Two unfinished jobs never share a slot.
THEOREM SlotsExclude == Spec => []SlotExclusion
<1>1. SvcInv => SlotExclusion
  BY DEF SvcInv, JobsInv, JobsTypeOK, SlotInv, SlotExclusion
<1>2. QED
  BY <1>1, SvcInvariant, PTL

\* No deployment is created, updated or recreated while modules change.
THEOREM ModulesAreStable == Spec => []ModulesStableWhileDeploying
  BY SvcInvariant, PTL DEF SvcInv

\* A listed job with an end has its result.
THEOREM ResultsAreThere == Spec => []ListedEndHasResult
<1>1. SvcInv => ListedEndHasResult
  BY DEF SvcInv, ResultInv, ListedEndHasResult
<1>2. QED
  BY <1>1, SvcInvariant, PTL

\* Nothing but the two known leaks keeps the result of a forgotten job.
THEOREM LeaksAreKnown == Spec => []OnlyKnownLeaks
  BY SvcInvariant, PTL DEF SvcInv

-----------------------------------------------------------------------------
(* The migrations.  What the statements of restructure and db_init are, taken *)
(* as a program that may stop anywhere and begin again, and what that makes *)
(* of the tables.                                                          *)

\* The tables whose rows are moved.
Source == {"configs", "list_configs", "aux_containers"}

\* The statement that copies the rows of a table of Source.
Copy(t) ==
    IF t = "aux_containers" THEN Update(t, "aux_deployments") ELSE Insert(t, "dep_configs")

\* The tables of the previous version: renamed, changed in place, or dropped.
RenamedTables ==
    {"aux_configs", "aux_labels", "aux_volumes", "containers", "host_resources", "secrets"}

ChangedTables ==
    {"aux_deployments", "dep_adv_items", "dep_advertisements", "deployments", "modules"}

DroppedTables ==
    {"aux_containers", "configs", "list_configs", "dependencies", "mod_dependencies"}

AlteredTables == RenamedTables \cup ChangedTables

\* What db_init calls a table.
NewName(t) ==
    CASE t = "aux_configs" -> "aux_dep_configs"
      [] t = "aux_labels" -> "aux_dep_labels"
      [] t = "aux_volumes" -> "aux_dep_volumes"
      [] t = "containers" -> "dep_containers"
      [] t = "host_resources" -> "dep_host_resources"
      [] t = "secrets" -> "dep_secrets"
      [] OTHER -> t

Final(t) == Target[NewName(t)]

\* Columns that change their names.
Changed(t) ==
    CASE t = "aux_configs" -> [aux_id |-> "aux_dep_id", ref |-> "name"]
      [] t = "aux_labels" -> [aux_id |-> "aux_dep_id"]
      [] t = "dep_adv_items" ->
            [adv_id |-> "dep_adv_id", key |-> "item_key", value |-> "item_value"]
      [] t = "containers" -> [ctr_id |-> "name"]
      [] OTHER -> [c \in {} |-> c]

\* Columns that are dropped.
Gone(t) ==
    {"index"} \cup
   (CASE t = "aux_volumes" -> {"aux_id", "mnt_point"}
      [] t = "dep_advertisements" -> {"origin"}
      [] t = "containers" -> {"order"}
      [] t = "deployments" -> {"name", "indirect"}
      [] t = "modules" -> {"modfile"}
      [] OTHER -> {})

\* Columns that are new.
Added(t) ==
    CASE t = "aux_volumes" -> {"dep_id", "ref"}
      [] t = "aux_deployments" -> {"ctr_name", "ctr_alias", "recreate"}
      [] t = "deployments" -> {"mod_source", "mod_channel", "files_dir"}
      [] t = "modules" -> {"source", "channel"}
      [] OTHER -> {}

\* The column that is never dropped, and the one that is never added.
Remaining(t) == IF t = "deployments" THEN {"order"} ELSE {}
Missing(t) == IF t = "aux_volumes" THEN {"id"} ELSE {}
MissingKey(t) == IF t = "aux_volumes" THEN {"PRIMARY"} ELSE {}

Kept(t) ==
    {c \in Final(t).cols \ (Added(t) \cup Missing(t)) : \A d \in DOMAIN Changed(t) : Changed(t)[d] # c}

DropsColumn == {"dropColumn", "changeColumn"}
AddsKey == {"addIndex", "addUniqueIndex", "addPrimaryKey"}
Alters == DropsColumn \cup AddsKey \cup {"addColumn", "dropIndexes"}

\* A statement brings a table nearer to what db_init would create, never farther.
Fits(s) ==
    /\ s.do \in Alters => s.table \in AlteredTables
    /\ s.do \in DropsColumn => s.test \notin Final(s.table).cols
    /\ s.do = "dropColumn" =>
          /\ s.name \notin Final(s.table).cols \cup DOMAIN Changed(s.table)
          /\ \/ s.test = s.name
             \/ s.test \notin Gone(s.table) \cup DOMAIN Changed(s.table) \cup Remaining(s.table)
    /\ s.do = "changeColumn" =>
          /\ s.test = s.name /\ s.name \in DOMAIN Changed(s.table)
          /\ s.to = Changed(s.table)[s.name]
    /\ s.do = "addColumn" => s.test = s.name /\ s.name \in Added(s.table)
    /\ s.do \in AddsKey => s.test = s.name /\ s.name \in Final(s.table).keys
    /\ s.do = "dropIndexes" =>
          Final(s.table).keys \subseteq s.on \cup {"PRIMARY"} /\ "old" \notin s.on
    /\ s.do = "renameTable" =>
          s.table = s.name /\ s.name \in RenamedTables /\ s.to = NewName(s.name)
    /\ s.do = "dropTable" => s.table = s.name /\ s.name \in DroppedTables
    /\ s.do \in {"insert", "update"} =>
          s.name \in Source /\ s = Copy(s.name)
    /\ s.do = "createTable" =>
          /\ s.name \in DOMAIN Target
          /\ \/ s.table = ""
             \/ s.table = "deployments" /\ s.name \in {"dep_configs", "dep_config_values"}
    /\ s.do \in Alters \cup {"renameTable", "dropTable", "insert", "update", "createTable"}

\* The statements E make of table t what db_init would create.
Complete(t, E) ==
    /\ \A c \in Gone(t) : \E s \in E : s.do = "dropColumn" /\ s.table = t /\ s.test = c
    /\ \A c \in DOMAIN Changed(t) :
          \E s \in E : s.do = "changeColumn" /\ s.table = t /\ s.test = c
    /\ \A c \in Added(t) : \E s \in E : s.do = "addColumn" /\ s.table = t /\ s.test = c
    /\ \A k \in Final(t).keys \ MissingKey(t) :
          \E s \in E : s.do \in AddsKey /\ s.table = t /\ s.test = k
    /\ \E s \in E : s.do = "dropIndexes" /\ s.table = t

\* After the statements E statement s finds the columns and tables it names.
Prepared(E, s) ==
    /\ s.do \in AddsKey => \A c \in s.on :
          \/ c \in Kept(s.table)
          \/ \E e \in E : e.do = "addColumn" /\ e.table = s.table /\ e.test = c
          \/ \E e \in E : /\ e.do = "changeColumn" /\ e.table = s.table
                          /\ e.test \in DOMAIN Changed(s.table)
                          /\ c = Changed(s.table)[e.test]
    /\ s.do = "renameTable" => Complete(s.name, E)
    /\ s.do = "createTable" => \A r \in References(s.name) :
          \/ r[1] = s.table
          \/ \E e \in E : e.do = "createTable" /\ e.name = r[1] /\ e.table \in {"", s.table}

\* The statements of p before position i, and all of them.
Before(p, i) == {p[j] : j \in 1..(i - 1)}
Elements(p) == {p[j] : j \in 1..Len(p)}

\* Statement s, at position i of p, belongs to the copy of a table, which is dropped
\* directly after it.
Adjacent(p, i, s) ==
    /\ s.do = "dropTable" /\ s.name \in Source => i > 1 /\ p[i - 1] = Copy(s.name)
    /\ s.do \in {"insert", "update"} => i < Len(p) /\ p[i + 1] = DropTable(s.name)

\* Statement s may stand at position i of p.
Good(p, i, s) == Fits(s) /\ Prepared(Before(p, i), s) /\ Adjacent(p, i, s)

WellFormed(p) ==
    /\ \E S : p \in Seq(S)
    /\ \A i \in 1..Len(p) : Good(p, i, p[i])

\* Tables are created only if there are deployments.
Guarded(s) == s.do = "createTable" => s.table = "deployments"

Part(p) == WellFormed(p) /\ \A s \in Elements(p) : Guarded(s)

-----------------------------------------------------------------------------
(* The invariant.                                                          *)

\* A statement that was executed or skipped stays without effect; but the tables
\* that are created if there are deployments.
Done(s) ==
    \/ s.do \in {"insert", "update"}
    \/ s.do = "createTable" /\ s.table # "" /\ next > Len(Restructure) + 1
    \/ ~ Required(s)

DoneInv == \A s \in Before(Migrate, next) : Done(s)

\* A table that is altered: what it has, what it may have.
AlteredInv(t, tab) ==
    /\ tab.cols \subseteq Final(t).cols \cup Gone(t) \cup DOMAIN Changed(t) \cup Remaining(t)
    /\ Kept(t) \subseteq tab.cols
    /\ \A c \in DOMAIN Changed(t) : c \in tab.cols <=> Changed(t)[c] \notin tab.cols
    /\ tab.keys \subseteq Final(t).keys \cup {"old"}

\* What table t, named as before, is like in the end.
Ready(t, tab) ==
    /\ tab.cols \ Remaining(t) \subseteq Final(t).cols
    /\ Final(t).cols \subseteq tab.cols \cup Missing(t)
    /\ Final(t).keys \subseteq tab.keys \cup MissingKey(t)
    /\ tab.keys \subseteq Final(t).keys

TablesInv ==
    /\ DOMAIN tables \subseteq AlteredTables \cup DroppedTables \cup DOMAIN Target
    /\ \A t \in DOMAIN tables : tables[t] = Table(tables[t].cols, tables[t].keys)
    /\ \A t \in AlteredTables \cap DOMAIN tables : AlteredInv(t, tables[t])

\* A table is renamed when nothing is left to do, and exists under one name only.
RenamedInv ==
    \A t \in RenamedTables :
        NewName(t) \in DOMAIN tables =>
            t \notin DOMAIN tables /\ Ready(t, tables[NewName(t)])

\* The tables that db_init alone creates.
CreatedInv ==
    \A t \in DOMAIN tables \cap DOMAIN Target :
        t \notin ChangedTables /\ (\A u \in RenamedTables : t # NewName(u)) =>
            tables[t] = Target[t]

\* Volumes are mounted only if the table of the volumes has its key column.
MountsInv ==
    "aux_dep_volume_mounts" \in DOMAIN tables =>
        /\ "aux_dep_volumes" \in DOMAIN tables
        /\ "id" \in tables["aux_dep_volumes"].cols

\* The tables whose rows are modelled.
RowTables == {"configs", "list_configs", "aux_containers", "dep_configs", "aux_deployments"}

\* What a copy makes of rows R of a table of Source.
Copied(t, R) == IF t = "aux_containers" THEN R ELSE {Migrated(c) : c \in R}

\* The rows.
RowsInv ==
    /\ rows = [t \in RowTables |-> rows[t]]
    /\ rows["configs"] \subseteq Config /\ rows["list_configs"] \subseteq ListConfig
    /\ \A t \in {"configs", "list_configs"} : t \notin DOMAIN tables => rows[t] = {}

\* Rows R of table t are where they go, in the rows r.
Safe(t, R, r) ==
    /\ Copied(t, R) \subseteq r[Copy(t).to]
    /\ t # "aux_containers" => \A c \in R : Copyable(c)

\* The rows of a table that is dropped next are where they go, if all were read.
CopiedInv ==
    ~ Up /\ Current.do = "dropTable" /\ Current.name \in (Source \cap DOMAIN tables) \ cut =>
        Safe(Current.name, rows[Current.name], rows)

\* Rows are in both tables only between the copy and the drop, unless this was
\* interrupted.
OverlapInv ==
    \A t \in {"configs", "list_configs"} :
        Keys(rows[t]) \cap Keys(rows["dep_configs"]) # {} /\ ~ interrupted =>
            ~ Up /\ Current.do = "dropTable" /\ Current.name = t

NextInv == next \in 1..(Len(Migrate) + 1) /\ interrupted \in BOOLEAN

SchemaInv == TablesInv /\ RenamedInv /\ CreatedInv /\ MountsInv /\ DoneInv

MigrationsInv == NextInv /\ SchemaInv /\ RowsInv /\ CopiedInv /\ OverlapInv

-----------------------------------------------------------------------------
(* The tables and their columns.                                           *)

\* The tables that db_init creates.
LEMMA TargetTables ==
    /\ DOMAIN Target =
          {"aux_deployments", "aux_dep_labels", "aux_dep_configs", "aux_dep_volumes",
           "aux_dep_volume_mounts", "dep_advertisements", "dep_adv_items", "deployments",
           "dep_containers", "dep_volumes", "dep_host_resources", "dep_secrets",
           "dep_configs", "dep_config_values", "modules", "global_configs"}
    /\ \A t \in DOMAIN Target : Target[t] = Table(Target[t].cols, Target[t].keys)
<1>1. DOMAIN Target =
          {"aux_deployments", "aux_dep_labels", "aux_dep_configs", "aux_dep_volumes",
           "aux_dep_volume_mounts", "dep_advertisements", "dep_adv_items", "deployments",
           "dep_containers", "dep_volumes", "dep_host_resources", "dep_secrets",
           "dep_configs", "dep_config_values", "modules", "global_configs"}
  BY DEF Target, AuxDeploymentsTables, DepAdvertisementsTables, DeploymentsTables,
         ModulesTables, GlobalConfigsTables
<1>2. \A t \in DOMAIN AuxDeploymentsTables :
          AuxDeploymentsTables[t] = Table(AuxDeploymentsTables[t].cols, AuxDeploymentsTables[t].keys)
  BY DEF AuxDeploymentsTables, Table
<1>3. \A t \in DOMAIN DepAdvertisementsTables :
          DepAdvertisementsTables[t] = Table(DepAdvertisementsTables[t].cols, DepAdvertisementsTables[t].keys)
  BY DEF DepAdvertisementsTables, Table
<1>4. \A t \in DOMAIN DeploymentsTables :
          DeploymentsTables[t] = Table(DeploymentsTables[t].cols, DeploymentsTables[t].keys)
  BY DEF DeploymentsTables, Table
<1>5. \A t \in DOMAIN ModulesTables :
          ModulesTables[t] = Table(ModulesTables[t].cols, ModulesTables[t].keys)
  BY DEF ModulesTables, Table
<1>6. \A t \in DOMAIN GlobalConfigsTables :
          GlobalConfigsTables[t] = Table(GlobalConfigsTables[t].cols, GlobalConfigsTables[t].keys)
  BY DEF GlobalConfigsTables, Table
<1>7. \A t \in DOMAIN Target : Target[t] = Table(Target[t].cols, Target[t].keys)
  BY <1>2, <1>3, <1>4, <1>5, <1>6 DEF Target
<1>8. QED
  BY <1>1, <1>7

\* The tables of the previous version that stay, by name.
LEMMA AlteredTablesAre ==
    /\ AlteredTables = RenamedTables \cup ChangedTables
    /\ RenamedTables =
          {"aux_configs", "aux_labels", "aux_volumes", "containers", "host_resources", "secrets"}
    /\ ChangedTables =
          {"aux_deployments", "dep_adv_items", "dep_advertisements", "deployments", "modules"}
  BY DEF AlteredTables, RenamedTables, ChangedTables

-----------------------------------------------------------------------------
(* When statement s may stand at position i of a sequence p.               *)

\* A column is dropped that the new table does not have; the look-up may ask for another
\* one, which no table has.
LEMMA GoodDropColumn ==
    ASSUME NEW p, NEW i, NEW s, NEW t \in AlteredTables, NEW c, NEW d,
           s = DropColumnTesting(t, c, d),
           c \notin Final(t).cols, d \notin Final(t).cols \cup DOMAIN Changed(t),
           c = d \/ c \notin Gone(t) \cup DOMAIN Changed(t) \cup Remaining(t)
    PROVE  Good(p, i, s)
  BY DEF Good, Fits, Prepared, Adjacent, DropColumnTesting, Statement, Alters, DropsColumn,
         AddsKey

\* A column gets its new name.
LEMMA GoodChangeColumn ==
    ASSUME NEW p, NEW i, NEW s, NEW t \in AlteredTables, NEW c \in DOMAIN Changed(t),
           s = ChangeColumn(t, c, Changed(t)[c]), c \notin Final(t).cols
    PROVE  Good(p, i, s)
  BY DEF Good, Fits, Prepared, Adjacent, ChangeColumn, Statement, Alters, DropsColumn, AddsKey

\* A new column is added.
LEMMA GoodAddColumn ==
    ASSUME NEW p, NEW i, NEW s, NEW t \in AlteredTables, NEW c \in Added(t), s = AddColumn(t, c)
    PROVE  Good(p, i, s)
  BY DEF Good, Fits, Prepared, Adjacent, AddColumn, Statement, Alters, DropsColumn, AddsKey

\* The indexes are dropped that the new table does not have.
LEMMA GoodDropOtherIndexes ==
    ASSUME NEW p, NEW i, NEW s, NEW t \in AlteredTables, NEW on, s = DropOtherIndexes(t, on),
           Final(t).keys \subseteq on \cup {"PRIMARY"}, "old" \notin on
    PROVE  Good(p, i, s)
  BY DEF Good, Fits, Prepared, Adjacent, DropOtherIndexes, Statement, Alters, DropsColumn,
         AddsKey

KeyStatements(t, k, on) ==
    {AddIndex(t, k, on), AddUniqueIndex(t, k, on)} \cup
        IF k = "PRIMARY" /\ on = {"id"} THEN {AddPrimaryKey(t)} ELSE {}

\* A key comes after the columns that it needs.
LEMMA GoodKey ==
    ASSUME NEW p, NEW i, NEW s, NEW t \in AlteredTables, NEW k \in Final(t).keys, NEW on,
           s \in KeyStatements(t, k, on),
           \A c \in on : \/ c \in Kept(t)
                         \/ AddColumn(t, c) \in Before(p, i)
                         \/ \E b \in DOMAIN Changed(t) :
                               c = Changed(t)[b] /\ ChangeColumn(t, b, c) \in Before(p, i)
    PROVE  Good(p, i, s)
<1>1. s.do \in AddsKey /\ s.table = t /\ s.test = k /\ s.name = k /\ s.on = on
  <2>1. CASE s = AddIndex(t, k, on)
    BY <2>1 DEF AddIndex, Statement, AddsKey
  <2>2. CASE s = AddUniqueIndex(t, k, on)
    BY <2>2 DEF AddUniqueIndex, Statement, AddsKey
  <2>3. CASE s = AddPrimaryKey(t) /\ k = "PRIMARY" /\ on = {"id"}
    BY <2>3 DEF AddPrimaryKey, Statement, AddsKey
  <2>4. QED
    BY <2>1, <2>2, <2>3 DEF KeyStatements
<1>2. Fits(s) /\ Adjacent(p, i, s)
  BY <1>1 DEF Fits, Adjacent, Alters, DropsColumn, AddsKey
<1>3. PICK E : E = Before(p, i)
  OBVIOUS
<1>4. ASSUME NEW c \in on
      PROVE  \/ c \in Kept(t)
             \/ \E e \in E : e.do = "addColumn" /\ e.table = t /\ e.test = c
             \/ \E e \in E : /\ e.do = "changeColumn" /\ e.table = t
                             /\ e.test \in DOMAIN Changed(t) /\ c = Changed(t)[e.test]
  <2>1. CASE AddColumn(t, c) \in E
    BY <2>1 DEF AddColumn, Statement
  <2>2. CASE \E b \in DOMAIN Changed(t) : c = Changed(t)[b] /\ ChangeColumn(t, b, c) \in E
    BY <2>2 DEF ChangeColumn, Statement
  <2>3. QED
    BY <1>3, <2>1, <2>2
<1>5. Prepared(E, s)
  BY <1>1, <1>4 DEF Prepared, AddsKey
<1>6. QED
  BY <1>2, <1>3, <1>5 DEF Good

\* A table is renamed when everything else is done for it.
LEMMA GoodRenameTable ==
    ASSUME NEW p, NEW i, NEW s, NEW t \in RenamedTables, s = RenameTable(t, NewName(t)),
           Complete(t, Before(p, i))
    PROVE  Good(p, i, s)
  BY DEF Good, Fits, Prepared, Adjacent, RenameTable, Statement, Alters, DropsColumn, AddsKey

\* A table is dropped; one with rows directly after they are copied.
LEMMA GoodDropTable ==
    ASSUME NEW p, NEW i, NEW s, NEW t \in DroppedTables, s = DropTable(t),
           t \in Source => i > 1 /\ p[i - 1] = Copy(t)
    PROVE  Good(p, i, s)
  BY DEF Good, Fits, Prepared, Adjacent, DropTable, Statement, Alters, DropsColumn, AddsKey

\* Rows are copied directly before their table is dropped.
LEMMA GoodCopy ==
    ASSUME NEW p, NEW i, NEW s, NEW t \in Source, s = Copy(t), i < Len(p), p[i + 1] = DropTable(t)
    PROVE  Good(p, i, s)
  BY DEF Good, Fits, Prepared, Adjacent, Copy, Insert, Update, Statement, Source, Alters,
         DropsColumn, AddsKey

CreateStatements(t, guard) ==
    IF guard = "" THEN {CreateTable(t)}
    ELSE IF guard = "deployments" /\ t \in {"dep_configs", "dep_config_values"}
         THEN {CreateTableIf(guard, t)} ELSE {}

\* A table comes after those that it refers to.
LEMMA GoodCreateTable ==
    ASSUME NEW p, NEW i, NEW s, NEW t \in DOMAIN Target, NEW guard,
           s \in CreateStatements(t, guard),
           \A r \in References(t) : \/ r[1] = guard
                                    \/ CreateTable(r[1]) \in Before(p, i)
                                    \/ CreateTableIf(guard, r[1]) \in Before(p, i)
    PROVE  Good(p, i, s)
<1>1. /\ s.do = "createTable" /\ s.name = t /\ s.table = guard
      /\ \/ guard = ""
         \/ guard = "deployments" /\ t \in {"dep_configs", "dep_config_values"}
  <2>1. CASE s = CreateTable(t) /\ guard = ""
    BY <2>1 DEF CreateTable, Statement
  <2>2. CASE /\ s = CreateTableIf(guard, t) /\ guard = "deployments"
             /\ t \in {"dep_configs", "dep_config_values"}
    BY <2>2 DEF CreateTableIf, Statement
  <2>3. QED
    BY <2>1, <2>2 DEF CreateStatements
<1>2. Fits(s) /\ Adjacent(p, i, s)
  BY <1>1 DEF Fits, Adjacent, Alters, DropsColumn, AddsKey
<1>3. PICK E : E = Before(p, i)
  OBVIOUS
<1>4. ASSUME NEW r \in References(t)
      PROVE  \/ r[1] = guard
             \/ \E e \in E : e.do = "createTable" /\ e.name = r[1] /\ e.table \in {"", guard}
  BY <1>3 DEF CreateTable, CreateTableIf, Statement
<1>5. Prepared(E, s)
  BY <1>1, <1>4 DEF Prepared, AddsKey
<1>6. QED
  BY <1>2, <1>3, <1>5 DEF Good

\* What makes a table complete.
LEMMA CompleteTable ==
    ASSUME NEW E, NEW t,
           \A c \in Gone(t) : DropColumn(t, c) \in E,
           \A c \in DOMAIN Changed(t) : ChangeColumn(t, c, Changed(t)[c]) \in E,
           \A c \in Added(t) : AddColumn(t, c) \in E,
           \A k \in Final(t).keys \ MissingKey(t) :
              \/ \E on : AddIndex(t, k, on) \in E \/ AddUniqueIndex(t, k, on) \in E
              \/ k = "PRIMARY" /\ AddPrimaryKey(t) \in E,
           \E on : DropOtherIndexes(t, on) \in E
    PROVE  Complete(t, E)
<1>1. ASSUME NEW c \in Gone(t)
      PROVE  \E s \in E : s.do = "dropColumn" /\ s.table = t /\ s.test = c
  BY DEF DropColumn, DropColumnTesting, Statement
<1>2. ASSUME NEW c \in DOMAIN Changed(t)
      PROVE  \E s \in E : s.do = "changeColumn" /\ s.table = t /\ s.test = c
  BY DEF ChangeColumn, Statement
<1>3. ASSUME NEW c \in Added(t)
      PROVE  \E s \in E : s.do = "addColumn" /\ s.table = t /\ s.test = c
  BY DEF AddColumn, Statement
<1>4. ASSUME NEW k \in Final(t).keys \ MissingKey(t)
      PROVE  \E s \in E : s.do \in AddsKey /\ s.table = t /\ s.test = k
  <2>1. CASE \E on : AddIndex(t, k, on) \in E \/ AddUniqueIndex(t, k, on) \in E
    BY <2>1 DEF AddIndex, AddUniqueIndex, Statement, AddsKey
  <2>2. CASE k = "PRIMARY" /\ AddPrimaryKey(t) \in E
    BY <2>2 DEF AddPrimaryKey, Statement, AddsKey
  <2>3. QED
    BY <2>1, <2>2
<1>5. \E s \in E : s.do = "dropIndexes" /\ s.table = t
  BY DEF DropOtherIndexes, Statement
<1>6. QED
  BY <1>1, <1>2, <1>3, <1>4, <1>5 DEF Complete

\* No statement but those of db_init creates a table without a look-up.
LEMMA GuardedStatements ==
    ASSUME NEW t, NEW c, NEW d, NEW k, NEW on
    PROVE  /\ Guarded(DropColumnTesting(t, c, d)) /\ Guarded(ChangeColumn(t, c, d))
           /\ Guarded(AddColumn(t, c)) /\ Guarded(AddIndex(t, k, on))
           /\ Guarded(AddUniqueIndex(t, k, on)) /\ Guarded(AddPrimaryKey(t))
           /\ Guarded(DropOtherIndexes(t, on)) /\ Guarded(RenameTable(t, c))
           /\ Guarded(DropTable(t)) /\ Guarded(Insert(t, c)) /\ Guarded(Update(t, c))
           /\ Guarded(CreateTableIf("deployments", t))
  BY DEF Guarded, DropColumnTesting, ChangeColumn, AddColumn, AddIndex, AddUniqueIndex,
         AddPrimaryKey, DropOtherIndexes, RenameTable, DropTable, Insert, Update,
         CreateTableIf, Statement

-----------------------------------------------------------------------------
(* What is to be done with each table of the previous version.             *)

AuxConfigsFacts(t) ==
    /\ t \in RenamedTables /\ t \in AlteredTables /\ NewName(t) = "aux_dep_configs"
    /\ Final(t).cols = {"aux_dep_id", "name", "value"}
    /\ Final(t).keys = {"uk_aux_dep_id_name", "i_aux_dep_id"}
    /\ Changed(t) = [aux_id |-> "aux_dep_id", ref |-> "name"]
    /\ Gone(t) = {"index"} /\ Added(t) = {}
    /\ Missing(t) = {} /\ MissingKey(t) = {}
    /\ Kept(t) = {"value"}

\* Each table, by name: what it has in the end, and what happens to its columns.
LEMMA AuxConfigsTable == AuxConfigsFacts("aux_configs")
<1>1. PICK t : t = "aux_configs"
  OBVIOUS
<1>2. NewName(t) = "aux_dep_configs"
  BY <1>1 DEF NewName
<1>3. Final(t) = AuxDeploymentsTables["aux_dep_configs"]
  BY <1>2 DEF Final, Target, AuxDeploymentsTables, DepAdvertisementsTables,
         DeploymentsTables, ModulesTables, GlobalConfigsTables
<1>4. /\ Final(t).cols = {"aux_dep_id", "name", "value"}
      /\ Final(t).keys = {"uk_aux_dep_id_name", "i_aux_dep_id"}
  BY <1>3 DEF AuxDeploymentsTables, Table
<1>5. QED
  BY <1>1, <1>2, <1>4, AlteredTablesAre
     DEF AuxConfigsFacts, Kept, Changed, Gone, Added, Missing, MissingKey

AuxLabelsFacts(t) ==
    /\ t \in RenamedTables /\ t \in AlteredTables /\ NewName(t) = "aux_dep_labels"
    /\ Final(t).cols = {"aux_dep_id", "name", "value"}
    /\ Final(t).keys = {"uk_aux_dep_id_name", "i_aux_dep_id"}
    /\ Changed(t) = [aux_id |-> "aux_dep_id"]
    /\ Gone(t) = {"index"} /\ Added(t) = {}
    /\ Missing(t) = {} /\ MissingKey(t) = {}
    /\ Kept(t) = {"name", "value"}

LEMMA AuxLabelsTable == AuxLabelsFacts("aux_labels")
<1>1. PICK t : t = "aux_labels"
  OBVIOUS
<1>2. NewName(t) = "aux_dep_labels"
  BY <1>1 DEF NewName
<1>3. Final(t) = AuxDeploymentsTables["aux_dep_labels"]
  BY <1>2 DEF Final, Target, AuxDeploymentsTables, DepAdvertisementsTables,
         DeploymentsTables, ModulesTables, GlobalConfigsTables
<1>4. /\ Final(t).cols = {"aux_dep_id", "name", "value"}
      /\ Final(t).keys = {"uk_aux_dep_id_name", "i_aux_dep_id"}
  BY <1>3 DEF AuxDeploymentsTables, Table
<1>5. QED
  BY <1>1, <1>2, <1>4, AlteredTablesAre
     DEF AuxLabelsFacts, Kept, Changed, Gone, Added, Missing, MissingKey

AuxVolumesFacts(t) ==
    /\ t \in RenamedTables /\ t \in AlteredTables /\ NewName(t) = "aux_dep_volumes"
    /\ Final(t).cols = {"id", "dep_id", "ref", "name"}
    /\ Final(t).keys = {"PRIMARY", "uk_dep_id_ref", "i_dep_id"}
    /\ Changed(t) = [c \in {} |-> c]
    /\ Gone(t) = {"index", "aux_id", "mnt_point"} /\ Added(t) = {"dep_id", "ref"}
    /\ Missing(t) = {"id"} /\ MissingKey(t) = {"PRIMARY"}
    /\ Kept(t) = {"name"}

LEMMA AuxVolumesTable == AuxVolumesFacts("aux_volumes")
<1>1. PICK t : t = "aux_volumes"
  OBVIOUS
<1>2. NewName(t) = "aux_dep_volumes"
  BY <1>1 DEF NewName
<1>3. Final(t) = AuxDeploymentsTables["aux_dep_volumes"]
  BY <1>2 DEF Final, Target, AuxDeploymentsTables, DepAdvertisementsTables,
         DeploymentsTables, ModulesTables, GlobalConfigsTables
<1>4. /\ Final(t).cols = {"id", "dep_id", "ref", "name"}
      /\ Final(t).keys = {"PRIMARY", "uk_dep_id_ref", "i_dep_id"}
  BY <1>3 DEF AuxDeploymentsTables, Table
<1>5. QED
  BY <1>1, <1>2, <1>4, AlteredTablesAre
     DEF AuxVolumesFacts, Kept, Changed, Gone, Added, Missing, MissingKey

ContainersFacts(t) ==
    /\ t \in RenamedTables /\ t \in AlteredTables /\ NewName(t) = "dep_containers"
    /\ Final(t).cols = {"dep_id", "name", "srv_ref", "alias"}
    /\ Final(t).keys = {"uk_dep_id_name_srv_ref", "i_dep_id", "i_name"}
    /\ Changed(t) = [ctr_id |-> "name"]
    /\ Gone(t) = {"index", "order"} /\ Added(t) = {}
    /\ Missing(t) = {} /\ MissingKey(t) = {}
    /\ Kept(t) = {"dep_id", "srv_ref", "alias"}

LEMMA ContainersTable == ContainersFacts("containers")
<1>1. PICK t : t = "containers"
  OBVIOUS
<1>2. NewName(t) = "dep_containers"
  BY <1>1 DEF NewName
<1>3. Final(t) = DeploymentsTables["dep_containers"]
  BY <1>2 DEF Final, Target, AuxDeploymentsTables, DepAdvertisementsTables,
         DeploymentsTables, ModulesTables, GlobalConfigsTables
<1>4. /\ Final(t).cols = {"dep_id", "name", "srv_ref", "alias"}
      /\ Final(t).keys = {"uk_dep_id_name_srv_ref", "i_dep_id", "i_name"}
  BY <1>3 DEF DeploymentsTables, Table
<1>5. QED
  BY <1>1, <1>2, <1>4, AlteredTablesAre
     DEF ContainersFacts, Kept, Changed, Gone, Added, Missing, MissingKey

HostResourcesFacts(t) ==
    /\ t \in RenamedTables /\ t \in AlteredTables /\ NewName(t) = "dep_host_resources"
    /\ Final(t).cols = {"dep_id", "ref", "res_id"}
    /\ Final(t).keys = {"uk_dep_id_ref", "i_dep_id"}
    /\ Changed(t) = [c \in {} |-> c]
    /\ Gone(t) = {"index"} /\ Added(t) = {}
    /\ Missing(t) = {} /\ MissingKey(t) = {}
    /\ Kept(t) = {"dep_id", "ref", "res_id"}

LEMMA HostResourcesTable == HostResourcesFacts("host_resources")
<1>1. PICK t : t = "host_resources"
  OBVIOUS
<1>2. NewName(t) = "dep_host_resources"
  BY <1>1 DEF NewName
<1>3. Final(t) = DeploymentsTables["dep_host_resources"]
  BY <1>2 DEF Final, Target, AuxDeploymentsTables, DepAdvertisementsTables,
         DeploymentsTables, ModulesTables, GlobalConfigsTables
<1>4. /\ Final(t).cols = {"dep_id", "ref", "res_id"}
      /\ Final(t).keys = {"uk_dep_id_ref", "i_dep_id"}
  BY <1>3 DEF DeploymentsTables, Table
<1>5. QED
  BY <1>1, <1>2, <1>4, AlteredTablesAre
     DEF HostResourcesFacts, Kept, Changed, Gone, Added, Missing, MissingKey

SecretsFacts(t) ==
    /\ t \in RenamedTables /\ t \in AlteredTables /\ NewName(t) = "dep_secrets"
    /\ Final(t).cols = {"dep_id", "ref", "sec_id", "item", "as_mount", "as_env"}
    /\ Final(t).keys = {"uk_dep_id_ref_item", "i_dep_id"}
    /\ Changed(t) = [c \in {} |-> c]
    /\ Gone(t) = {"index"} /\ Added(t) = {}
    /\ Missing(t) = {} /\ MissingKey(t) = {}
    /\ Kept(t) = {"dep_id", "ref", "sec_id", "item", "as_mount", "as_env"}

LEMMA SecretsTable == SecretsFacts("secrets")
<1>1. PICK t : t = "secrets"
  OBVIOUS
<1>2. NewName(t) = "dep_secrets"
  BY <1>1 DEF NewName
<1>3. Final(t) = DeploymentsTables["dep_secrets"]
  BY <1>2 DEF Final, Target, AuxDeploymentsTables, DepAdvertisementsTables,
         DeploymentsTables, ModulesTables, GlobalConfigsTables
<1>4. /\ Final(t).cols = {"dep_id", "ref", "sec_id", "item", "as_mount", "as_env"}
      /\ Final(t).keys = {"uk_dep_id_ref_item", "i_dep_id"}
  BY <1>3 DEF DeploymentsTables, Table
<1>5. QED
  BY <1>1, <1>2, <1>4, AlteredTablesAre
     DEF SecretsFacts, Kept, Changed, Gone, Added, Missing, MissingKey

AuxDeploymentsFacts(t) ==
    /\ t \in ChangedTables /\ t \in AlteredTables /\ NewName(t) = "aux_deployments"
    /\ Final(t).cols = {"id", "dep_id", "image", "created", "updated", "ref", "name",
                       "enabled", "ctr_name", "ctr_alias", "recreate", "command",
                       "pseudo_tty"}
    /\ Final(t).keys = {"PRIMARY", "i_dep_id", "i_dep_id_ref"}
    /\ Changed(t) = [c \in {} |-> c]
    /\ Gone(t) = {"index"} /\ Added(t) = {"ctr_name", "ctr_alias", "recreate"}
    /\ Missing(t) = {} /\ MissingKey(t) = {}
    /\ Kept(t) = {"id", "dep_id", "image", "created", "updated", "ref", "name",
                  "enabled", "command", "pseudo_tty"}

LEMMA AuxDeploymentsTable == AuxDeploymentsFacts("aux_deployments")
<1>1. PICK t : t = "aux_deployments"
  OBVIOUS
<1>2. NewName(t) = "aux_deployments"
  BY <1>1 DEF NewName
<1>3. Final(t) = AuxDeploymentsTables["aux_deployments"]
  BY <1>2 DEF Final, Target, AuxDeploymentsTables, DepAdvertisementsTables,
         DeploymentsTables, ModulesTables, GlobalConfigsTables
<1>4. /\ Final(t).cols = {"id", "dep_id", "image", "created", "updated", "ref", "name",
                         "enabled", "ctr_name", "ctr_alias", "recreate", "command",
                         "pseudo_tty"}
      /\ Final(t).keys = {"PRIMARY", "i_dep_id", "i_dep_id_ref"}
  BY <1>3 DEF AuxDeploymentsTables, Table
<1>5. QED
  BY <1>1, <1>2, <1>4, AlteredTablesAre
     DEF AuxDeploymentsFacts, Kept, Changed, Gone, Added, Missing, MissingKey

DepAdvItemsFacts(t) ==
    /\ t \in ChangedTables /\ t \in AlteredTables /\ NewName(t) = "dep_adv_items"
    /\ Final(t).cols = {"dep_adv_id", "item_key", "item_value"}
    /\ Final(t).keys = {"uk_dep_adv_id_item_key", "i_dep_adv_id"}
    /\ Changed(t) = [adv_id |-> "dep_adv_id", key |-> "item_key", value |-> "item_value"]
    /\ Gone(t) = {"index"} /\ Added(t) = {}
    /\ Missing(t) = {} /\ MissingKey(t) = {}
    /\ Kept(t) = {}

LEMMA DepAdvItemsTable == DepAdvItemsFacts("dep_adv_items")
<1>1. PICK t : t = "dep_adv_items"
  OBVIOUS
<1>2. NewName(t) = "dep_adv_items"
  BY <1>1 DEF NewName
<1>3. Final(t) = DepAdvertisementsTables["dep_adv_items"]
  BY <1>2 DEF Final, Target, AuxDeploymentsTables, DepAdvertisementsTables,
         DeploymentsTables, ModulesTables, GlobalConfigsTables
<1>4. /\ Final(t).cols = {"dep_adv_id", "item_key", "item_value"}
      /\ Final(t).keys = {"uk_dep_adv_id_item_key", "i_dep_adv_id"}
  BY <1>3 DEF DepAdvertisementsTables, Table
<1>5. QED
  BY <1>1, <1>2, <1>4, AlteredTablesAre
     DEF DepAdvItemsFacts, Kept, Changed, Gone, Added, Missing, MissingKey

DepAdvertisementsFacts(t) ==
    /\ t \in ChangedTables /\ t \in AlteredTables /\ NewName(t) = "dep_advertisements"
    /\ Final(t).cols = {"id", "dep_id", "mod_id", "ref", "timestamp"}
    /\ Final(t).keys = {"PRIMARY", "uk_dep_id_ref", "i_dep_id", "i_mod_id", "i_ref"}
    /\ Changed(t) = [c \in {} |-> c]
    /\ Gone(t) = {"index", "origin"} /\ Added(t) = {}
    /\ Missing(t) = {} /\ MissingKey(t) = {}
    /\ Kept(t) = {"id", "dep_id", "mod_id", "ref", "timestamp"}

LEMMA DepAdvertisementsTable == DepAdvertisementsFacts("dep_advertisements")
<1>1. PICK t : t = "dep_advertisements"
  OBVIOUS
<1>2. NewName(t) = "dep_advertisements"
  BY <1>1 DEF NewName
<1>3. Final(t) = DepAdvertisementsTables["dep_advertisements"]
  BY <1>2 DEF Final, Target, AuxDeploymentsTables, DepAdvertisementsTables,
         DeploymentsTables, ModulesTables, GlobalConfigsTables
<1>4. /\ Final(t).cols = {"id", "dep_id", "mod_id", "ref", "timestamp"}
      /\ Final(t).keys = {"PRIMARY", "uk_dep_id_ref", "i_dep_id", "i_mod_id", "i_ref"}
  BY <1>3 DEF DepAdvertisementsTables, Table
<1>5. QED
  BY <1>1, <1>2, <1>4, AlteredTablesAre
     DEF DepAdvertisementsFacts, Kept, Changed, Gone, Added, Missing, MissingKey

DeploymentsFacts(t) ==
    /\ t \in ChangedTables /\ t \in AlteredTables /\ NewName(t) = "deployments"
    /\ Final(t).cols = {"id", "mod_id", "mod_source", "mod_channel", "mod_ver", "dir",
                       "files_dir", "enabled", "created", "updated"}
    /\ Final(t).keys = {"PRIMARY", "uk_mod_id"}
    /\ Changed(t) = [c \in {} |-> c]
    /\ Gone(t) = {"index", "name", "indirect"} /\ Added(t) = {"mod_source", "mod_channel", "files_dir"}
    /\ Missing(t) = {} /\ MissingKey(t) = {}
    /\ Kept(t) = {"id", "mod_id", "mod_ver", "dir", "enabled", "created", "updated"}

LEMMA DeploymentsTable == DeploymentsFacts("deployments")
<1>1. PICK t : t = "deployments"
  OBVIOUS
<1>2. NewName(t) = "deployments"
  BY <1>1 DEF NewName
<1>3. Final(t) = DeploymentsTables["deployments"]
  BY <1>2 DEF Final, Target, AuxDeploymentsTables, DepAdvertisementsTables,
         DeploymentsTables, ModulesTables, GlobalConfigsTables
<1>4. /\ Final(t).cols = {"id", "mod_id", "mod_source", "mod_channel", "mod_ver", "dir",
                         "files_dir", "enabled", "created", "updated"}
      /\ Final(t).keys = {"PRIMARY", "uk_mod_id"}
  BY <1>3 DEF DeploymentsTables, Table
<1>5. QED
  BY <1>1, <1>2, <1>4, AlteredTablesAre
     DEF DeploymentsFacts, Kept, Changed, Gone, Added, Missing, MissingKey

ModulesFacts(t) ==
    /\ t \in ChangedTables /\ t \in AlteredTables /\ NewName(t) = "modules"
    /\ Final(t).cols = {"id", "dir", "source", "channel", "added", "updated"}
    /\ Final(t).keys = {"PRIMARY"}
    /\ Changed(t) = [c \in {} |-> c]
    /\ Gone(t) = {"index", "modfile"} /\ Added(t) = {"source", "channel"}
    /\ Missing(t) = {} /\ MissingKey(t) = {}
    /\ Kept(t) = {"id", "dir", "added", "updated"}

LEMMA ModulesTable == ModulesFacts("modules")
<1>1. PICK t : t = "modules"
  OBVIOUS
<1>2. NewName(t) = "modules"
  BY <1>1 DEF NewName
<1>3. Final(t) = ModulesTables["modules"]
  BY <1>2 DEF Final, Target, AuxDeploymentsTables, DepAdvertisementsTables,
         DeploymentsTables, ModulesTables, GlobalConfigsTables
<1>4. /\ Final(t).cols = {"id", "dir", "source", "channel", "added", "updated"}
      /\ Final(t).keys = {"PRIMARY"}
  BY <1>3 DEF ModulesTables, Table
<1>5. QED
  BY <1>1, <1>2, <1>4, AlteredTablesAre
     DEF ModulesFacts, Kept, Changed, Gone, Added, Missing, MissingKey

-----------------------------------------------------------------------------
(* The functions of restructure and of db_init, one after the other.       *)

\* The prover needs to be told that a long tuple is a sequence.
LEMMA TupleOfTen ==
    ASSUME NEW a, NEW b, NEW c, NEW d, NEW e, NEW f, NEW g, NEW h, NEW i, NEW j
    PROVE  /\ Len(<<a, b, c, d, e, f, g, h, i, j>>) = 10
           /\ \E S : <<a, b, c, d, e, f, g, h, i, j>> \in Seq(S)
<1>1. <<a, b, c, d, e, f, g, h, i, j>> \in Seq({a, b, c, d, e, f, g, h, i, j})
  OBVIOUS
<1>2. QED
  BY <1>1

\* Each function is a part of the program, and does with its table all there is to do.
LEMMA MigrateAuxConfigsTabIsPart ==
    Part(MigrateAuxConfigsTab) /\ RenameTable("aux_configs", "aux_dep_configs") \in Elements(MigrateAuxConfigsTab)
<1>1. PICK p, t : p = MigrateAuxConfigsTab /\ t = "aux_configs"
  OBVIOUS
<1>2. AuxConfigsFacts(t)
  BY <1>1, AuxConfigsTable
<1>3. Len(p) = 7 /\ \E S : p \in Seq(S)
  <2>1. p \in Seq({p[i] : i \in 1..7})
    BY <1>1 DEF MigrateAuxConfigsTab
  <2>2. QED
    BY <1>1, <2>1 DEF MigrateAuxConfigsTab
<1>4. /\ p[1] = DropColumn(t, "index") /\ p[2] = ChangeColumn(t, "aux_id", "aux_dep_id")
      /\ p[3] = ChangeColumn(t, "ref", "name")
      /\ p[4] = AddUniqueIndex(t, "uk_aux_dep_id_name", {"aux_dep_id", "name"})
      /\ p[5] = AddIndex(t, "i_aux_dep_id", {"aux_dep_id"})
      /\ p[6] = DropOtherIndexes(t, {"uk_aux_dep_id_name", "i_aux_dep_id"})
      /\ p[7] = RenameTable(t, "aux_dep_configs")
  BY <1>1 DEF MigrateAuxConfigsTab
<1>5. \A i \in 1..7 : \A j \in 1..(i - 1) : p[j] \in Before(p, i)
  BY DEF Before
<1>6. Good(p, 1, p[1])
  BY <1>2, <1>4, GoodDropColumn, AlteredTablesAre DEF DropColumn, AuxConfigsFacts
<1>7. Good(p, 2, p[2]) /\ Good(p, 3, p[3])
  BY <1>2, <1>4, GoodChangeColumn, AlteredTablesAre DEF AuxConfigsFacts
<1>8. Good(p, 6, p[6])
  BY <1>2, <1>4, GoodDropOtherIndexes, AlteredTablesAre DEF AuxConfigsFacts
<1>9. Good(p, 4, p[4])
  <2>1. p[4] \in KeyStatements(t, "uk_aux_dep_id_name", {"aux_dep_id", "name"})
    BY <1>4 DEF KeyStatements
  <2>2. /\ ChangeColumn(t, "aux_id", "aux_dep_id") \in Before(p, 4)
        /\ ChangeColumn(t, "ref", "name") \in Before(p, 4)
    BY <1>4, <1>5
  <2>3. QED
    BY <1>2, <2>1, <2>2, GoodKey DEF AuxConfigsFacts
<1>10. Good(p, 5, p[5])
  <2>1. p[5] \in KeyStatements(t, "i_aux_dep_id", {"aux_dep_id"})
    BY <1>4 DEF KeyStatements
  <2>2. ChangeColumn(t, "aux_id", "aux_dep_id") \in Before(p, 5)
    BY <1>4, <1>5
  <2>3. QED
    BY <1>2, <2>1, <2>2, GoodKey DEF AuxConfigsFacts
<1>11. Complete(t, Before(p, 7))
  <2>1. /\ DropColumn(t, "index") \in Before(p, 7)
        /\ ChangeColumn(t, "aux_id", "aux_dep_id") \in Before(p, 7)
        /\ ChangeColumn(t, "ref", "name") \in Before(p, 7)
        /\ AddUniqueIndex(t, "uk_aux_dep_id_name", {"aux_dep_id", "name"}) \in Before(p, 7)
        /\ AddIndex(t, "i_aux_dep_id", {"aux_dep_id"}) \in Before(p, 7)
        /\ DropOtherIndexes(t, {"uk_aux_dep_id_name", "i_aux_dep_id"}) \in Before(p, 7)
    BY <1>4, <1>5
  <2>2. QED
    BY <1>2, <2>1, CompleteTable DEF AuxConfigsFacts
<1>12. Good(p, 7, p[7])
  BY <1>2, <1>4, <1>11, GoodRenameTable DEF AuxConfigsFacts
<1>13. \A i \in 1..7 : Good(p, i, p[i])
  BY <1>6, <1>7, <1>8, <1>9, <1>10, <1>12
<1>14. \A i \in 1..7 : Guarded(p[i])
  BY <1>4, GuardedStatements DEF DropColumn
<1>15. QED
  BY <1>1, <1>3, <1>4, <1>13, <1>14 DEF Part, WellFormed, Elements

LEMMA MigrateAuxLabelsTabIsPart ==
    Part(MigrateAuxLabelsTab) /\ RenameTable("aux_labels", "aux_dep_labels") \in Elements(MigrateAuxLabelsTab)
<1>1. PICK p, t : p = MigrateAuxLabelsTab /\ t = "aux_labels"
  OBVIOUS
<1>2. AuxLabelsFacts(t)
  BY <1>1, AuxLabelsTable
<1>3. Len(p) = 6 /\ \E S : p \in Seq(S)
  <2>1. p \in Seq({p[i] : i \in 1..6})
    BY <1>1 DEF MigrateAuxLabelsTab
  <2>2. QED
    BY <1>1, <2>1 DEF MigrateAuxLabelsTab
<1>4. /\ p[1] = DropColumn(t, "index") /\ p[2] = ChangeColumn(t, "aux_id", "aux_dep_id")
      /\ p[3] = AddUniqueIndex(t, "uk_aux_dep_id_name", {"aux_dep_id", "name"})
      /\ p[4] = AddIndex(t, "i_aux_dep_id", {"aux_dep_id"})
      /\ p[5] = DropOtherIndexes(t, {"uk_aux_dep_id_name", "i_aux_dep_id"})
      /\ p[6] = RenameTable(t, "aux_dep_labels")
  BY <1>1 DEF MigrateAuxLabelsTab
<1>5. \A i \in 1..6 : \A j \in 1..(i - 1) : p[j] \in Before(p, i)
  BY DEF Before
<1>6. Good(p, 1, p[1])
  BY <1>2, <1>4, GoodDropColumn, AlteredTablesAre DEF DropColumn, AuxLabelsFacts
<1>7. Good(p, 2, p[2])
  BY <1>2, <1>4, GoodChangeColumn, AlteredTablesAre DEF AuxLabelsFacts
<1>8. Good(p, 5, p[5])
  BY <1>2, <1>4, GoodDropOtherIndexes, AlteredTablesAre DEF AuxLabelsFacts
<1>9. Good(p, 3, p[3])
  <2>1. p[3] \in KeyStatements(t, "uk_aux_dep_id_name", {"aux_dep_id", "name"})
    BY <1>4 DEF KeyStatements
  <2>2. ChangeColumn(t, "aux_id", "aux_dep_id") \in Before(p, 3)
    BY <1>4, <1>5
  <2>3. QED
    BY <1>2, <2>1, <2>2, GoodKey DEF AuxLabelsFacts
<1>10. Good(p, 4, p[4])
  <2>1. p[4] \in KeyStatements(t, "i_aux_dep_id", {"aux_dep_id"})
    BY <1>4 DEF KeyStatements
  <2>2. ChangeColumn(t, "aux_id", "aux_dep_id") \in Before(p, 4)
    BY <1>4, <1>5
  <2>3. QED
    BY <1>2, <2>1, <2>2, GoodKey DEF AuxLabelsFacts
<1>11. Complete(t, Before(p, 6))
  <2>1. /\ DropColumn(t, "index") \in Before(p, 6)
        /\ ChangeColumn(t, "aux_id", "aux_dep_id") \in Before(p, 6)
        /\ AddUniqueIndex(t, "uk_aux_dep_id_name", {"aux_dep_id", "name"}) \in Before(p, 6)
        /\ AddIndex(t, "i_aux_dep_id", {"aux_dep_id"}) \in Before(p, 6)
        /\ DropOtherIndexes(t, {"uk_aux_dep_id_name", "i_aux_dep_id"}) \in Before(p, 6)
    BY <1>4, <1>5
  <2>2. QED
    BY <1>2, <2>1, CompleteTable DEF AuxLabelsFacts
<1>12. Good(p, 6, p[6])
  BY <1>2, <1>4, <1>11, GoodRenameTable DEF AuxLabelsFacts
<1>13. \A i \in 1..6 : Good(p, i, p[i])
  BY <1>6, <1>7, <1>8, <1>9, <1>10, <1>12
<1>14. \A i \in 1..6 : Guarded(p[i])
  BY <1>4, GuardedStatements DEF DropColumn
<1>15. QED
  BY <1>1, <1>3, <1>4, <1>13, <1>14 DEF Part, WellFormed, Elements

LEMMA MigrateAuxVolumesTabIsPart ==
    Part(MigrateAuxVolumesTab) /\ RenameTable("aux_volumes", "aux_dep_volumes") \in Elements(MigrateAuxVolumesTab)
<1>1. PICK p, t : p = MigrateAuxVolumesTab /\ t = "aux_volumes"
  OBVIOUS
<1>2. AuxVolumesFacts(t)
  BY <1>1, AuxVolumesTable
<1>3. Len(p) = 9 /\ \E S : p \in Seq(S)
  <2>1. p \in Seq({p[i] : i \in 1..9})
    BY <1>1 DEF MigrateAuxVolumesTab
  <2>2. QED
    BY <1>1, <2>1 DEF MigrateAuxVolumesTab
<1>4. /\ p[1] = DropColumn(t, "index") /\ p[2] = DropColumn(t, "aux_id")
      /\ p[3] = DropColumn(t, "mnt_point") /\ p[4] = AddColumn(t, "dep_id")
      /\ p[5] = AddColumn(t, "ref")
      /\ p[6] = AddUniqueIndex(t, "uk_dep_id_ref", {"dep_id", "ref"})
      /\ p[7] = AddIndex(t, "i_dep_id", {"dep_id"})
      /\ p[8] = DropOtherIndexes(t, {"uk_dep_id_ref", "i_dep_id"})
      /\ p[9] = RenameTable(t, "aux_dep_volumes")
  BY <1>1 DEF MigrateAuxVolumesTab
<1>5. \A i \in 1..9 : \A j \in 1..(i - 1) : p[j] \in Before(p, i)
  BY DEF Before
<1>6. Good(p, 1, p[1]) /\ Good(p, 2, p[2]) /\ Good(p, 3, p[3])
  BY <1>2, <1>4, GoodDropColumn, AlteredTablesAre DEF DropColumn, AuxVolumesFacts
<1>7. Good(p, 4, p[4]) /\ Good(p, 5, p[5])
  BY <1>2, <1>4, GoodAddColumn, AlteredTablesAre DEF AuxVolumesFacts
<1>8. Good(p, 8, p[8])
  BY <1>2, <1>4, GoodDropOtherIndexes, AlteredTablesAre DEF AuxVolumesFacts
<1>9. Good(p, 6, p[6])
  <2>1. p[6] \in KeyStatements(t, "uk_dep_id_ref", {"dep_id", "ref"})
    BY <1>4 DEF KeyStatements
  <2>2. AddColumn(t, "dep_id") \in Before(p, 6) /\ AddColumn(t, "ref") \in Before(p, 6)
    BY <1>4, <1>5
  <2>3. QED
    BY <1>2, <2>1, <2>2, GoodKey DEF AuxVolumesFacts
<1>10. Good(p, 7, p[7])
  <2>1. p[7] \in KeyStatements(t, "i_dep_id", {"dep_id"})
    BY <1>4 DEF KeyStatements
  <2>2. AddColumn(t, "dep_id") \in Before(p, 7)
    BY <1>4, <1>5
  <2>3. QED
    BY <1>2, <2>1, <2>2, GoodKey DEF AuxVolumesFacts
<1>11. Complete(t, Before(p, 9))
  <2>1. /\ DropColumn(t, "index") \in Before(p, 9) /\ DropColumn(t, "aux_id") \in Before(p, 9)
        /\ DropColumn(t, "mnt_point") \in Before(p, 9)
        /\ AddColumn(t, "dep_id") \in Before(p, 9) /\ AddColumn(t, "ref") \in Before(p, 9)
        /\ AddUniqueIndex(t, "uk_dep_id_ref", {"dep_id", "ref"}) \in Before(p, 9)
        /\ AddIndex(t, "i_dep_id", {"dep_id"}) \in Before(p, 9)
        /\ DropOtherIndexes(t, {"uk_dep_id_ref", "i_dep_id"}) \in Before(p, 9)
    BY <1>4, <1>5
  <2>2. QED
    BY <1>2, <2>1, CompleteTable DEF AuxVolumesFacts
<1>12. Good(p, 9, p[9])
  BY <1>2, <1>4, <1>11, GoodRenameTable DEF AuxVolumesFacts
<1>13. \A i \in 1..9 : Good(p, i, p[i])
  BY <1>6, <1>7, <1>8, <1>9, <1>10, <1>12
<1>14. \A i \in 1..9 : Guarded(p[i])
  BY <1>4, GuardedStatements DEF DropColumn
<1>15. QED
  BY <1>1, <1>3, <1>4, <1>13, <1>14 DEF Part, WellFormed, Elements

LEMMA MigrateAuxDeploymentsTabIsPart ==
    Part(MigrateAuxDeploymentsTab) /\ Complete("aux_deployments", Elements(MigrateAuxDeploymentsTab))
<1>1. PICK p, t : p = MigrateAuxDeploymentsTab /\ t = "aux_deployments"
  OBVIOUS
<1>2. AuxDeploymentsFacts(t)
  BY <1>1, AuxDeploymentsTable
<1>3. Len(p) = 8 /\ \E S : p \in Seq(S)
  <2>1. p \in Seq({p[i] : i \in 1..8})
    BY <1>1 DEF MigrateAuxDeploymentsTab
  <2>2. QED
    BY <1>1, <2>1 DEF MigrateAuxDeploymentsTab
<1>4. /\ p[1] = DropColumn(t, "index") /\ p[2] = AddColumn(t, "ctr_name")
      /\ p[3] = AddColumn(t, "ctr_alias") /\ p[4] = AddColumn(t, "recreate")
      /\ p[5] = AddPrimaryKey(t) /\ p[6] = AddIndex(t, "i_dep_id", {"dep_id"})
      /\ p[7] = AddIndex(t, "i_dep_id_ref", {"dep_id", "ref"})
      /\ p[8] = DropOtherIndexes(t, {"i_dep_id", "i_dep_id_ref"})
  BY <1>1 DEF MigrateAuxDeploymentsTab
<1>5. \A i \in 1..9 : \A j \in 1..(i - 1) : p[j] \in Before(p, i)
  BY DEF Before
<1>6. Good(p, 1, p[1])
  BY <1>2, <1>4, GoodDropColumn, AlteredTablesAre DEF DropColumn, AuxDeploymentsFacts
<1>7. Good(p, 2, p[2]) /\ Good(p, 3, p[3]) /\ Good(p, 4, p[4])
  BY <1>2, <1>4, GoodAddColumn, AlteredTablesAre DEF AuxDeploymentsFacts
<1>8. Good(p, 8, p[8])
  BY <1>2, <1>4, GoodDropOtherIndexes, AlteredTablesAre DEF AuxDeploymentsFacts
<1>9. Good(p, 5, p[5])
  <2>1. p[5] \in KeyStatements(t, "PRIMARY", {"id"})
    BY <1>4 DEF KeyStatements
  <2>2. t \in AlteredTables /\ "PRIMARY" \in Final(t).keys /\ {"id"} \subseteq Kept(t)
    BY <1>2 DEF AuxDeploymentsFacts
  <2>3. QED
    BY <2>1, <2>2, GoodKey
<1>10. Good(p, 6, p[6])
  <2>1. p[6] \in KeyStatements(t, "i_dep_id", {"dep_id"})
    BY <1>4 DEF KeyStatements
  <2>2. t \in AlteredTables /\ "i_dep_id" \in Final(t).keys /\ {"dep_id"} \subseteq Kept(t)
    BY <1>2 DEF AuxDeploymentsFacts
  <2>3. QED
    BY <2>1, <2>2, GoodKey
<1>11. Good(p, 7, p[7])
  <2>1. p[7] \in KeyStatements(t, "i_dep_id_ref", {"dep_id", "ref"})
    BY <1>4 DEF KeyStatements
  <2>2. t \in AlteredTables /\ "i_dep_id_ref" \in Final(t).keys /\ {"dep_id", "ref"} \subseteq Kept(t)
    BY <1>2 DEF AuxDeploymentsFacts
  <2>3. QED
    BY <2>1, <2>2, GoodKey
<1>12. Complete(t, Before(p, 9))
  <2>1. /\ DropColumn(t, "index") \in Before(p, 9) /\ AddColumn(t, "ctr_name") \in Before(p, 9)
        /\ AddColumn(t, "ctr_alias") \in Before(p, 9)
        /\ AddColumn(t, "recreate") \in Before(p, 9) /\ AddPrimaryKey(t) \in Before(p, 9)
        /\ AddIndex(t, "i_dep_id", {"dep_id"}) \in Before(p, 9)
        /\ AddIndex(t, "i_dep_id_ref", {"dep_id", "ref"}) \in Before(p, 9)
        /\ DropOtherIndexes(t, {"i_dep_id", "i_dep_id_ref"}) \in Before(p, 9)
    BY <1>4, <1>5
  <2>2. QED
    BY <1>2, <2>1, CompleteTable DEF AuxDeploymentsFacts
<1>13. \A i \in 1..8 : Good(p, i, p[i])
  BY <1>6, <1>7, <1>8, <1>9, <1>10, <1>11
<1>14. \A i \in 1..8 : Guarded(p[i])
  BY <1>4, GuardedStatements DEF DropColumn
<1>15. QED
  BY <1>1, <1>3, <1>12, <1>13, <1>14 DEF Part, WellFormed, Elements, Before

LEMMA MigrateDepAdvItemsTabIsPart ==
    Part(MigrateDepAdvItemsTab) /\ Complete("dep_adv_items", Elements(MigrateDepAdvItemsTab))
<1>1. PICK p, t : p = MigrateDepAdvItemsTab /\ t = "dep_adv_items"
  OBVIOUS
<1>2. DepAdvItemsFacts(t)
  BY <1>1, DepAdvItemsTable
<1>3. Len(p) = 7 /\ \E S : p \in Seq(S)
  <2>1. p \in Seq({p[i] : i \in 1..7})
    BY <1>1 DEF MigrateDepAdvItemsTab
  <2>2. QED
    BY <1>1, <2>1 DEF MigrateDepAdvItemsTab
<1>4. /\ p[1] = DropColumn(t, "index") /\ p[2] = ChangeColumn(t, "adv_id", "dep_adv_id")
      /\ p[3] = ChangeColumn(t, "key", "item_key")
      /\ p[4] = ChangeColumn(t, "value", "item_value")
      /\ p[5] = AddUniqueIndex(t, "uk_dep_adv_id_item_key", {"dep_adv_id", "item_key"})
      /\ p[6] = AddIndex(t, "i_dep_adv_id", {"dep_adv_id"})
      /\ p[7] = DropOtherIndexes(t, {"uk_dep_adv_id_item_key", "i_dep_adv_id"})
  BY <1>1 DEF MigrateDepAdvItemsTab
<1>5. \A i \in 1..8 : \A j \in 1..(i - 1) : p[j] \in Before(p, i)
  BY DEF Before
<1>6. Good(p, 1, p[1])
  BY <1>2, <1>4, GoodDropColumn, AlteredTablesAre DEF DropColumn, DepAdvItemsFacts
<1>7. Good(p, 2, p[2]) /\ Good(p, 3, p[3]) /\ Good(p, 4, p[4])
  BY <1>2, <1>4, GoodChangeColumn, AlteredTablesAre DEF DepAdvItemsFacts
<1>8. Good(p, 7, p[7])
  BY <1>2, <1>4, GoodDropOtherIndexes, AlteredTablesAre DEF DepAdvItemsFacts
<1>9. Good(p, 5, p[5])
  <2>1. p[5] \in KeyStatements(t, "uk_dep_adv_id_item_key", {"dep_adv_id", "item_key"})
    BY <1>4 DEF KeyStatements
  <2>2. /\ ChangeColumn(t, "adv_id", "dep_adv_id") \in Before(p, 5)
        /\ ChangeColumn(t, "key", "item_key") \in Before(p, 5)
    BY <1>4, <1>5
  <2>3. QED
    BY <1>2, <2>1, <2>2, GoodKey DEF DepAdvItemsFacts
<1>10. Good(p, 6, p[6])
  <2>1. p[6] \in KeyStatements(t, "i_dep_adv_id", {"dep_adv_id"})
    BY <1>4 DEF KeyStatements
  <2>2. ChangeColumn(t, "adv_id", "dep_adv_id") \in Before(p, 6)
    BY <1>4, <1>5
  <2>3. QED
    BY <1>2, <2>1, <2>2, GoodKey DEF DepAdvItemsFacts
<1>11. Complete(t, Before(p, 8))
  <2>1. /\ DropColumn(t, "index") \in Before(p, 8)
        /\ ChangeColumn(t, "adv_id", "dep_adv_id") \in Before(p, 8)
        /\ ChangeColumn(t, "key", "item_key") \in Before(p, 8)
        /\ ChangeColumn(t, "value", "item_value") \in Before(p, 8)
        /\ AddUniqueIndex(t, "uk_dep_adv_id_item_key", {"dep_adv_id", "item_key"}) \in Before(p, 8)
        /\ AddIndex(t, "i_dep_adv_id", {"dep_adv_id"}) \in Before(p, 8)
        /\ DropOtherIndexes(t, {"uk_dep_adv_id_item_key", "i_dep_adv_id"}) \in Before(p, 8)
    BY <1>4, <1>5
  <2>2. QED
    BY <1>2, <2>1, CompleteTable DEF DepAdvItemsFacts
<1>12. \A i \in 1..7 : Good(p, i, p[i])
  BY <1>6, <1>7, <1>8, <1>9, <1>10
<1>13. \A i \in 1..7 : Guarded(p[i])
  BY <1>4, GuardedStatements DEF DropColumn
<1>14. QED
  BY <1>1, <1>3, <1>11, <1>12, <1>13 DEF Part, WellFormed, Elements, Before

LEMMA MigrateDepAdvertisementsTabIsPart ==
    Part(MigrateDepAdvertisementsTab) /\ Complete("dep_advertisements", Elements(MigrateDepAdvertisementsTab))
<1>1. PICK p, t : p = MigrateDepAdvertisementsTab /\ t = "dep_advertisements"
  OBVIOUS
<1>2. DepAdvertisementsFacts(t)
  BY <1>1, DepAdvertisementsTable
<1>3. Len(p) = 8 /\ \E S : p \in Seq(S)
  <2>1. p \in Seq({p[i] : i \in 1..8})
    BY <1>1 DEF MigrateDepAdvertisementsTab
  <2>2. QED
    BY <1>1, <2>1 DEF MigrateDepAdvertisementsTab
<1>4. /\ p[1] = DropColumn(t, "index") /\ p[2] = DropColumn(t, "origin")
      /\ p[3] = AddPrimaryKey(t) /\ p[4] = AddUniqueIndex(t, "uk_dep_id_ref", {"dep_id", "ref"})
      /\ p[5] = AddIndex(t, "i_dep_id", {"dep_id"})
      /\ p[6] = AddIndex(t, "i_mod_id", {"mod_id"}) /\ p[7] = AddIndex(t, "i_ref", {"ref"})
      /\ p[8] = DropOtherIndexes(t, {"uk_dep_id_ref", "i_dep_id", "i_mod_id", "i_ref"})
  BY <1>1 DEF MigrateDepAdvertisementsTab
<1>5. \A i \in 1..9 : \A j \in 1..(i - 1) : p[j] \in Before(p, i)
  BY DEF Before
<1>6. Good(p, 1, p[1]) /\ Good(p, 2, p[2])
  BY <1>2, <1>4, GoodDropColumn, AlteredTablesAre DEF DropColumn, DepAdvertisementsFacts
<1>7. Good(p, 8, p[8])
  BY <1>2, <1>4, GoodDropOtherIndexes, AlteredTablesAre DEF DepAdvertisementsFacts
<1>8. Good(p, 3, p[3])
  <2>1. p[3] \in KeyStatements(t, "PRIMARY", {"id"})
    BY <1>4 DEF KeyStatements
  <2>2. t \in AlteredTables /\ "PRIMARY" \in Final(t).keys /\ {"id"} \subseteq Kept(t)
    BY <1>2 DEF DepAdvertisementsFacts
  <2>3. QED
    BY <2>1, <2>2, GoodKey
<1>9. Good(p, 4, p[4])
  <2>1. p[4] \in KeyStatements(t, "uk_dep_id_ref", {"dep_id", "ref"})
    BY <1>4 DEF KeyStatements
  <2>2. t \in AlteredTables /\ "uk_dep_id_ref" \in Final(t).keys /\ {"dep_id", "ref"} \subseteq Kept(t)
    BY <1>2 DEF DepAdvertisementsFacts
  <2>3. QED
    BY <2>1, <2>2, GoodKey
<1>10. Good(p, 5, p[5])
  <2>1. p[5] \in KeyStatements(t, "i_dep_id", {"dep_id"})
    BY <1>4 DEF KeyStatements
  <2>2. t \in AlteredTables /\ "i_dep_id" \in Final(t).keys /\ {"dep_id"} \subseteq Kept(t)
    BY <1>2 DEF DepAdvertisementsFacts
  <2>3. QED
    BY <2>1, <2>2, GoodKey
<1>11. Good(p, 6, p[6])
  <2>1. p[6] \in KeyStatements(t, "i_mod_id", {"mod_id"})
    BY <1>4 DEF KeyStatements
  <2>2. t \in AlteredTables /\ "i_mod_id" \in Final(t).keys /\ {"mod_id"} \subseteq Kept(t)
    BY <1>2 DEF DepAdvertisementsFacts
  <2>3. QED
    BY <2>1, <2>2, GoodKey
<1>12. Good(p, 7, p[7])
  <2>1. p[7] \in KeyStatements(t, "i_ref", {"ref"})
    BY <1>4 DEF KeyStatements
  <2>2. t \in AlteredTables /\ "i_ref" \in Final(t).keys /\ {"ref"} \subseteq Kept(t)
    BY <1>2 DEF DepAdvertisementsFacts
  <2>3. QED
    BY <2>1, <2>2, GoodKey
<1>13. Complete(t, Before(p, 9))
  <2>1. /\ DropColumn(t, "index") \in Before(p, 9) /\ DropColumn(t, "origin") \in Before(p, 9)
        /\ AddPrimaryKey(t) \in Before(p, 9)
        /\ AddUniqueIndex(t, "uk_dep_id_ref", {"dep_id", "ref"}) \in Before(p, 9)
        /\ AddIndex(t, "i_dep_id", {"dep_id"}) \in Before(p, 9)
        /\ AddIndex(t, "i_mod_id", {"mod_id"}) \in Before(p, 9)
        /\ AddIndex(t, "i_ref", {"ref"}) \in Before(p, 9)
        /\ DropOtherIndexes(t, {"uk_dep_id_ref", "i_dep_id", "i_mod_id", "i_ref"}) \in Before(p, 9)
    BY <1>4, <1>5
  <2>2. QED
    BY <1>2, <2>1, CompleteTable DEF DepAdvertisementsFacts
<1>14. \A i \in 1..8 : Good(p, i, p[i])
  BY <1>6, <1>7, <1>8, <1>9, <1>10, <1>11, <1>12
<1>15. \A i \in 1..8 : Guarded(p[i])
  BY <1>4, GuardedStatements DEF DropColumn
<1>16. QED
  BY <1>1, <1>3, <1>13, <1>14, <1>15 DEF Part, WellFormed, Elements, Before

LEMMA MigrateContainersTabIsPart ==
    Part(MigrateContainersTab) /\ RenameTable("containers", "dep_containers") \in Elements(MigrateContainersTab)
<1>1. PICK p, t : p = MigrateContainersTab /\ t = "containers"
  OBVIOUS
<1>2. ContainersFacts(t)
  BY <1>1, ContainersTable
<1>3. Len(p) = 8 /\ \E S : p \in Seq(S)
  <2>1. p \in Seq({p[i] : i \in 1..8})
    BY <1>1 DEF MigrateContainersTab
  <2>2. QED
    BY <1>1, <2>1 DEF MigrateContainersTab
<1>4. /\ p[1] = DropColumn(t, "index") /\ p[2] = DropColumn(t, "order")
      /\ p[3] = ChangeColumn(t, "ctr_id", "name")
      /\ p[4] = AddUniqueIndex(t, "uk_dep_id_name_srv_ref", {"dep_id", "name", "srv_ref"})
      /\ p[5] = AddIndex(t, "i_dep_id", {"dep_id"}) /\ p[6] = AddIndex(t, "i_name", {"name"})
      /\ p[7] = DropOtherIndexes(t, {"uk_dep_id_name_srv_ref", "i_dep_id", "i_name"})
      /\ p[8] = RenameTable(t, "dep_containers")
  BY <1>1 DEF MigrateContainersTab
<1>5. \A i \in 1..8 : \A j \in 1..(i - 1) : p[j] \in Before(p, i)
  BY DEF Before
<1>6. Good(p, 1, p[1]) /\ Good(p, 2, p[2])
  BY <1>2, <1>4, GoodDropColumn, AlteredTablesAre DEF DropColumn, ContainersFacts
<1>7. Good(p, 3, p[3])
  BY <1>2, <1>4, GoodChangeColumn, AlteredTablesAre DEF ContainersFacts
<1>8. Good(p, 7, p[7])
  BY <1>2, <1>4, GoodDropOtherIndexes, AlteredTablesAre DEF ContainersFacts
<1>9. Good(p, 4, p[4])
  <2>1. p[4] \in KeyStatements(t, "uk_dep_id_name_srv_ref", {"dep_id", "name", "srv_ref"})
    BY <1>4 DEF KeyStatements
  <2>2. ChangeColumn(t, "ctr_id", "name") \in Before(p, 4)
    BY <1>4, <1>5
  <2>3. QED
    BY <1>2, <2>1, <2>2, GoodKey DEF ContainersFacts
<1>10. Good(p, 5, p[5])
  <2>1. p[5] \in KeyStatements(t, "i_dep_id", {"dep_id"})
    BY <1>4 DEF KeyStatements
  <2>2. t \in AlteredTables /\ "i_dep_id" \in Final(t).keys /\ {"dep_id"} \subseteq Kept(t)
    BY <1>2 DEF ContainersFacts
  <2>3. QED
    BY <2>1, <2>2, GoodKey
<1>11. Good(p, 6, p[6])
  <2>1. p[6] \in KeyStatements(t, "i_name", {"name"})
    BY <1>4 DEF KeyStatements
  <2>2. ChangeColumn(t, "ctr_id", "name") \in Before(p, 6)
    BY <1>4, <1>5
  <2>3. QED
    BY <1>2, <2>1, <2>2, GoodKey DEF ContainersFacts
<1>12. Complete(t, Before(p, 8))
  <2>1. /\ DropColumn(t, "index") \in Before(p, 8) /\ DropColumn(t, "order") \in Before(p, 8)
        /\ ChangeColumn(t, "ctr_id", "name") \in Before(p, 8)
        /\ AddUniqueIndex(t, "uk_dep_id_name_srv_ref", {"dep_id", "name", "srv_ref"}) \in Before(p, 8)
        /\ AddIndex(t, "i_dep_id", {"dep_id"}) \in Before(p, 8)
        /\ AddIndex(t, "i_name", {"name"}) \in Before(p, 8)
        /\ DropOtherIndexes(t, {"uk_dep_id_name_srv_ref", "i_dep_id", "i_name"}) \in Before(p, 8)
    BY <1>4, <1>5
  <2>2. QED
    BY <1>2, <2>1, CompleteTable DEF ContainersFacts
<1>13. Good(p, 8, p[8])
  BY <1>2, <1>4, <1>12, GoodRenameTable DEF ContainersFacts
<1>14. \A i \in 1..8 : Good(p, i, p[i])
  BY <1>6, <1>7, <1>8, <1>9, <1>10, <1>11, <1>13
<1>15. \A i \in 1..8 : Guarded(p[i])
  BY <1>4, GuardedStatements DEF DropColumn
<1>16. QED
  BY <1>1, <1>3, <1>4, <1>14, <1>15 DEF Part, WellFormed, Elements

LEMMA MigrateHostResourcesTabIsPart ==
    Part(MigrateHostResourcesTab) /\ RenameTable("host_resources", "dep_host_resources") \in Elements(MigrateHostResourcesTab)
<1>1. PICK p, t : p = MigrateHostResourcesTab /\ t = "host_resources"
  OBVIOUS
<1>2. HostResourcesFacts(t)
  BY <1>1, HostResourcesTable
<1>3. Len(p) = 5 /\ \E S : p \in Seq(S)
  <2>1. p \in Seq({p[i] : i \in 1..5})
    BY <1>1 DEF MigrateHostResourcesTab
  <2>2. QED
    BY <1>1, <2>1 DEF MigrateHostResourcesTab
<1>4. /\ p[1] = DropColumn(t, "index")
      /\ p[2] = AddUniqueIndex(t, "uk_dep_id_ref", {"dep_id", "ref"})
      /\ p[3] = AddIndex(t, "i_dep_id", {"dep_id"})
      /\ p[4] = DropOtherIndexes(t, {"uk_dep_id_ref", "i_dep_id"})
      /\ p[5] = RenameTable(t, "dep_host_resources")
  BY <1>1 DEF MigrateHostResourcesTab
<1>5. \A i \in 1..5 : \A j \in 1..(i - 1) : p[j] \in Before(p, i)
  BY DEF Before
<1>6. Good(p, 1, p[1])
  BY <1>2, <1>4, GoodDropColumn, AlteredTablesAre DEF DropColumn, HostResourcesFacts
<1>7. Good(p, 4, p[4])
  BY <1>2, <1>4, GoodDropOtherIndexes, AlteredTablesAre DEF HostResourcesFacts
<1>8. Good(p, 2, p[2])
  <2>1. p[2] \in KeyStatements(t, "uk_dep_id_ref", {"dep_id", "ref"})
    BY <1>4 DEF KeyStatements
  <2>2. t \in AlteredTables /\ "uk_dep_id_ref" \in Final(t).keys /\ {"dep_id", "ref"} \subseteq Kept(t)
    BY <1>2 DEF HostResourcesFacts
  <2>3. QED
    BY <2>1, <2>2, GoodKey
<1>9. Good(p, 3, p[3])
  <2>1. p[3] \in KeyStatements(t, "i_dep_id", {"dep_id"})
    BY <1>4 DEF KeyStatements
  <2>2. t \in AlteredTables /\ "i_dep_id" \in Final(t).keys /\ {"dep_id"} \subseteq Kept(t)
    BY <1>2 DEF HostResourcesFacts
  <2>3. QED
    BY <2>1, <2>2, GoodKey
<1>10. Complete(t, Before(p, 5))
  <2>1. /\ DropColumn(t, "index") \in Before(p, 5)
        /\ AddUniqueIndex(t, "uk_dep_id_ref", {"dep_id", "ref"}) \in Before(p, 5)
        /\ AddIndex(t, "i_dep_id", {"dep_id"}) \in Before(p, 5)
        /\ DropOtherIndexes(t, {"uk_dep_id_ref", "i_dep_id"}) \in Before(p, 5)
    BY <1>4, <1>5
  <2>2. QED
    BY <1>2, <2>1, CompleteTable DEF HostResourcesFacts
<1>11. Good(p, 5, p[5])
  BY <1>2, <1>4, <1>10, GoodRenameTable DEF HostResourcesFacts
<1>12. \A i \in 1..5 : Good(p, i, p[i])
  BY <1>6, <1>7, <1>8, <1>9, <1>11
<1>13. \A i \in 1..5 : Guarded(p[i])
  BY <1>4, GuardedStatements DEF DropColumn
<1>14. QED
  BY <1>1, <1>3, <1>4, <1>12, <1>13 DEF Part, WellFormed, Elements

LEMMA MigrateSecretsTabIsPart ==
    Part(MigrateSecretsTab) /\ RenameTable("secrets", "dep_secrets") \in Elements(MigrateSecretsTab)
<1>1. PICK p, t : p = MigrateSecretsTab /\ t = "secrets"
  OBVIOUS
<1>2. SecretsFacts(t)
  BY <1>1, SecretsTable
<1>3. Len(p) = 5 /\ \E S : p \in Seq(S)
  <2>1. p \in Seq({p[i] : i \in 1..5})
    BY <1>1 DEF MigrateSecretsTab
  <2>2. QED
    BY <1>1, <2>1 DEF MigrateSecretsTab
<1>4. /\ p[1] = DropColumn(t, "index")
      /\ p[2] = AddUniqueIndex(t, "uk_dep_id_ref_item", {"dep_id", "ref", "item"})
      /\ p[3] = AddIndex(t, "i_dep_id", {"dep_id"})
      /\ p[4] = DropOtherIndexes(t, {"uk_dep_id_ref_item", "i_dep_id"})
      /\ p[5] = RenameTable(t, "dep_secrets")
  BY <1>1 DEF MigrateSecretsTab
<1>5. \A i \in 1..5 : \A j \in 1..(i - 1) : p[j] \in Before(p, i)
  BY DEF Before
<1>6. Good(p, 1, p[1])
  BY <1>2, <1>4, GoodDropColumn, AlteredTablesAre DEF DropColumn, SecretsFacts
<1>7. Good(p, 4, p[4])
  BY <1>2, <1>4, GoodDropOtherIndexes, AlteredTablesAre DEF SecretsFacts
<1>8. Good(p, 2, p[2])
  <2>1. p[2] \in KeyStatements(t, "uk_dep_id_ref_item", {"dep_id", "ref", "item"})
    BY <1>4 DEF KeyStatements
  <2>2. t \in AlteredTables /\ "uk_dep_id_ref_item" \in Final(t).keys /\ {"dep_id", "ref", "item"} \subseteq Kept(t)
    BY <1>2 DEF SecretsFacts
  <2>3. QED
    BY <2>1, <2>2, GoodKey
<1>9. Good(p, 3, p[3])
  <2>1. p[3] \in KeyStatements(t, "i_dep_id", {"dep_id"})
    BY <1>4 DEF KeyStatements
  <2>2. t \in AlteredTables /\ "i_dep_id" \in Final(t).keys /\ {"dep_id"} \subseteq Kept(t)
    BY <1>2 DEF SecretsFacts
  <2>3. QED
    BY <2>1, <2>2, GoodKey
<1>10. Complete(t, Before(p, 5))
  <2>1. /\ DropColumn(t, "index") \in Before(p, 5)
        /\ AddUniqueIndex(t, "uk_dep_id_ref_item", {"dep_id", "ref", "item"}) \in Before(p, 5)
        /\ AddIndex(t, "i_dep_id", {"dep_id"}) \in Before(p, 5)
        /\ DropOtherIndexes(t, {"uk_dep_id_ref_item", "i_dep_id"}) \in Before(p, 5)
    BY <1>4, <1>5
  <2>2. QED
    BY <1>2, <2>1, CompleteTable DEF SecretsFacts
<1>11. Good(p, 5, p[5])
  BY <1>2, <1>4, <1>10, GoodRenameTable DEF SecretsFacts
<1>12. \A i \in 1..5 : Good(p, i, p[i])
  BY <1>6, <1>7, <1>8, <1>9, <1>11
<1>13. \A i \in 1..5 : Guarded(p[i])
  BY <1>4, GuardedStatements DEF DropColumn
<1>14. QED
  BY <1>1, <1>3, <1>4, <1>12, <1>13 DEF Part, WellFormed, Elements

LEMMA MigrateDeploymentsTabIsPart ==
    Part(MigrateDeploymentsTab) /\ Complete("deployments", Elements(MigrateDeploymentsTab))
<1>1. PICK p, t : p = MigrateDeploymentsTab /\ t = "deployments"
  OBVIOUS
<1>2. DeploymentsFacts(t)
  BY <1>1, DeploymentsTable
<1>3. Len(p) = 10 /\ \E S : p \in Seq(S)
  BY <1>1, TupleOfTen DEF MigrateDeploymentsTab
<1>4. /\ p[1] = DropColumn(t, "index") /\ p[2] = DropColumn(t, "name")
      /\ p[3] = DropColumn(t, "indirect")
      /\ p[4] = DropColumnTesting(t, "quoted_order", "order")
      /\ p[5] = AddColumn(t, "mod_source") /\ p[6] = AddColumn(t, "mod_channel")
      /\ p[7] = AddColumn(t, "files_dir") /\ p[8] = AddPrimaryKey(t)
      /\ p[9] = AddUniqueIndex(t, "uk_mod_id", {"mod_id"})
      /\ p[10] = DropOtherIndexes(t, {"uk_mod_id"})
  BY <1>1 DEF MigrateDeploymentsTab
<1>5. \A i \in 1..11 : \A j \in 1..(i - 1) : p[j] \in Before(p, i)
  BY DEF Before
<1>6. Good(p, 1, p[1]) /\ Good(p, 2, p[2]) /\ Good(p, 3, p[3])
  <2>1. /\ t \in AlteredTables
        /\ \A c \in {"index", "name", "indirect"} :
              c \notin Final(t).cols /\ c \notin DOMAIN Changed(t)
    BY <1>2 DEF DeploymentsFacts
  <2>2. QED
    BY <1>4, <2>1, GoodDropColumn DEF DropColumn
<1>7. Good(p, 4, p[4])
  <2>1. /\ t \in AlteredTables /\ "quoted_order" \notin Final(t).cols
        /\ "order" \notin Final(t).cols /\ "order" \notin DOMAIN Changed(t)
        /\ "quoted_order" \notin Gone(t) \cup DOMAIN Changed(t) \cup Remaining(t)
    BY <1>2 DEF DeploymentsFacts, Remaining
  <2>2. QED
    BY <1>4, <2>1, GoodDropColumn
<1>8. Good(p, 5, p[5]) /\ Good(p, 6, p[6]) /\ Good(p, 7, p[7])
  BY <1>2, <1>4, GoodAddColumn, AlteredTablesAre DEF DeploymentsFacts
<1>9. Good(p, 10, p[10])
  BY <1>2, <1>4, GoodDropOtherIndexes, AlteredTablesAre DEF DeploymentsFacts
<1>10. Good(p, 8, p[8])
  <2>1. p[8] \in KeyStatements(t, "PRIMARY", {"id"})
    BY <1>4 DEF KeyStatements
  <2>2. t \in AlteredTables /\ "PRIMARY" \in Final(t).keys /\ {"id"} \subseteq Kept(t)
    BY <1>2 DEF DeploymentsFacts
  <2>3. QED
    BY <2>1, <2>2, GoodKey
<1>11. Good(p, 9, p[9])
  <2>1. p[9] \in KeyStatements(t, "uk_mod_id", {"mod_id"})
    BY <1>4 DEF KeyStatements
  <2>2. t \in AlteredTables /\ "uk_mod_id" \in Final(t).keys /\ {"mod_id"} \subseteq Kept(t)
    BY <1>2 DEF DeploymentsFacts
  <2>3. QED
    BY <2>1, <2>2, GoodKey
<1>12. Complete(t, Before(p, 11))
  <2>1. /\ DropColumn(t, "index") \in Before(p, 11) /\ DropColumn(t, "name") \in Before(p, 11)
        /\ DropColumn(t, "indirect") \in Before(p, 11)
        /\ AddColumn(t, "mod_source") \in Before(p, 11)
        /\ AddColumn(t, "mod_channel") \in Before(p, 11)
        /\ AddColumn(t, "files_dir") \in Before(p, 11) /\ AddPrimaryKey(t) \in Before(p, 11)
        /\ AddUniqueIndex(t, "uk_mod_id", {"mod_id"}) \in Before(p, 11)
        /\ DropOtherIndexes(t, {"uk_mod_id"}) \in Before(p, 11)
    BY <1>4, <1>5
  <2>2. QED
    BY <1>2, <2>1, CompleteTable DEF DeploymentsFacts
<1>13. \A i \in 1..10 : Good(p, i, p[i])
  BY <1>6, <1>7, <1>8, <1>9, <1>10, <1>11
<1>14. \A i \in 1..10 : Guarded(p[i])
  BY <1>4, GuardedStatements DEF DropColumn
<1>15. QED
  BY <1>1, <1>3, <1>12, <1>13, <1>14 DEF Part, WellFormed, Elements, Before

LEMMA MigrateModulesTabIsPart ==
    Part(MigrateModulesTab) /\ Complete("modules", Elements(MigrateModulesTab))
<1>1. PICK p, t : p = MigrateModulesTab /\ t = "modules"
  OBVIOUS
<1>2. ModulesFacts(t)
  BY <1>1, ModulesTable
<1>3. Len(p) = 6 /\ \E S : p \in Seq(S)
  <2>1. p \in Seq({p[i] : i \in 1..6})
    BY <1>1 DEF MigrateModulesTab
  <2>2. QED
    BY <1>1, <2>1 DEF MigrateModulesTab
<1>4. /\ p[1] = DropColumn(t, "index") /\ p[2] = DropColumn(t, "modfile")
      /\ p[3] = AddPrimaryKey(t) /\ p[4] = DropOtherIndexes(t, {})
      /\ p[5] = AddColumn(t, "source") /\ p[6] = AddColumn(t, "channel")
  BY <1>1 DEF MigrateModulesTab
<1>5. \A i \in 1..7 : \A j \in 1..(i - 1) : p[j] \in Before(p, i)
  BY DEF Before
<1>6. Good(p, 1, p[1]) /\ Good(p, 2, p[2])
  BY <1>2, <1>4, GoodDropColumn, AlteredTablesAre DEF DropColumn, ModulesFacts
<1>7. Good(p, 5, p[5]) /\ Good(p, 6, p[6])
  BY <1>2, <1>4, GoodAddColumn, AlteredTablesAre DEF ModulesFacts
<1>8. Good(p, 4, p[4])
  BY <1>2, <1>4, GoodDropOtherIndexes, AlteredTablesAre DEF ModulesFacts
<1>9. Good(p, 3, p[3])
  <2>1. p[3] \in KeyStatements(t, "PRIMARY", {"id"})
    BY <1>4 DEF KeyStatements
  <2>2. t \in AlteredTables /\ "PRIMARY" \in Final(t).keys /\ {"id"} \subseteq Kept(t)
    BY <1>2 DEF ModulesFacts
  <2>3. QED
    BY <2>1, <2>2, GoodKey
<1>10. Complete(t, Before(p, 7))
  <2>1. /\ DropColumn(t, "index") \in Before(p, 7) /\ DropColumn(t, "modfile") \in Before(p, 7)
        /\ AddPrimaryKey(t) \in Before(p, 7) /\ DropOtherIndexes(t, {}) \in Before(p, 7)
        /\ AddColumn(t, "source") \in Before(p, 7) /\ AddColumn(t, "channel") \in Before(p, 7)
    BY <1>4, <1>5
  <2>2. QED
    BY <1>2, <2>1, CompleteTable DEF ModulesFacts
<1>11. \A i \in 1..6 : Good(p, i, p[i])
  BY <1>6, <1>7, <1>8, <1>9
<1>12. \A i \in 1..6 : Guarded(p[i])
  BY <1>4, GuardedStatements DEF DropColumn
<1>13. QED
  BY <1>1, <1>3, <1>10, <1>11, <1>12 DEF Part, WellFormed, Elements, Before

\* A table is copied and dropped.
LEMMA CopyIsPart ==
    ASSUME NEW t \in Source, t \in DroppedTables
    PROVE  /\ Part(<<Copy(t), DropTable(t)>>)
           /\ DropTable(t) \in Elements(<<Copy(t), DropTable(t)>>)
<1>1. PICK p : p = <<Copy(t), DropTable(t)>>
  OBVIOUS
<1>2. Len(p) = 2 /\ p[1] = Copy(t) /\ p[2] = DropTable(t)
  BY <1>1
<1>3. \E S : p \in Seq(S)
  <2>1. p \in Seq({p[i] : i \in 1..2})
    BY <1>1
  <2>2. QED
    BY <2>1
<1>4. Good(p, 1, p[1])
  BY <1>2, GoodCopy
<1>5. Good(p, 2, p[2])
  BY <1>2, GoodDropTable
<1>6. \A i \in 1..2 : Good(p, i, p[i])
  BY <1>4, <1>5
<1>7. \A i \in 1..2 : Guarded(p[i])
  BY <1>2, GuardedStatements DEF Copy
<1>8. QED
  BY <1>1, <1>2, <1>3, <1>6, <1>7 DEF Part, WellFormed, Elements

\* The three copies.
LEMMA CopiesAreParts ==
    /\ Part(MigrateAuxContainersTab)
    /\ Part(MigrateConfigsTab)
    /\ Part(MigrateListConfigsTab)
    /\ DropTable("aux_containers") \in Elements(MigrateAuxContainersTab)
    /\ DropTable("configs") \in Elements(MigrateConfigsTab)
    /\ DropTable("list_configs") \in Elements(MigrateListConfigsTab)
<1>1. {"configs", "list_configs", "aux_containers"} \subseteq Source \cap DroppedTables
  BY DEF Source, DroppedTables
<1>2. /\ Copy("aux_containers") = Update("aux_containers", "aux_deployments")
      /\ Copy("configs") = Insert("configs", "dep_configs")
      /\ Copy("list_configs") = Insert("list_configs", "dep_configs")
  BY DEF Copy
<1>3. QED
  BY <1>1, <1>2, CopyIsPart
     DEF MigrateAuxContainersTab, MigrateConfigsTab, MigrateListConfigsTab

\* The tables that are dropped without a copy.
LEMMA DropTablesIsPart ==
    /\ Part(DropTables)
    /\ \A t \in {"dependencies", "mod_dependencies"} : DropTable(t) \in Elements(DropTables)
<1>1. PICK p : p = DropTables
  OBVIOUS
<1>2. Len(p) = 2 /\ p[1] = DropTable("dependencies") /\ p[2] = DropTable("mod_dependencies")
  BY <1>1 DEF DropTables
<1>3. \E S : p \in Seq(S)
  <2>1. p \in Seq({p[i] : i \in 1..2})
    BY <1>1 DEF DropTables
  <2>2. QED
    BY <2>1
<1>4. {"dependencies", "mod_dependencies"} \subseteq DroppedTables \ Source
  BY DEF Source, DroppedTables
<1>5. Good(p, 1, p[1]) /\ Good(p, 2, p[2])
  BY <1>2, <1>4, GoodDropTable
<1>6. \A i \in 1..2 : Good(p, i, p[i])
  BY <1>5
<1>7. \A i \in 1..2 : Guarded(p[i])
  BY <1>2, GuardedStatements
<1>8. QED
  BY <1>1, <1>2, <1>3, <1>6, <1>7 DEF Part, WellFormed, Elements

\* The tables that configs are copied to.
LEMMA CreateDepConfigTablesIsPart == Part(CreateDepConfigTables)
<1>1. PICK p : p = CreateDepConfigTables
  OBVIOUS
<1>2. /\ Len(p) = 2
      /\ p[1] = CreateTableIf("deployments", "dep_configs")
      /\ p[2] = CreateTableIf("deployments", "dep_config_values")
  BY <1>1 DEF CreateDepConfigTables
<1>3. \E S : p \in Seq(S)
  <2>1. p \in Seq({p[i] : i \in 1..2})
    BY <1>1 DEF CreateDepConfigTables
  <2>2. QED
    BY <2>1
<1>4. {"dep_configs", "dep_config_values"} \subseteq DOMAIN Target
  BY TargetTables
<1>5. /\ \A r \in References("dep_configs") : r[1] = "deployments"
      /\ \A r \in References("dep_config_values") : r[1] = "dep_configs"
  BY DEF References
<1>6. p[1] \in Before(p, 2)
  BY DEF Before
<1>7. Good(p, 1, p[1])
  BY <1>2, <1>4, <1>5, GoodCreateTable DEF CreateStatements
<1>8. Good(p, 2, p[2])
  BY <1>2, <1>4, <1>5, <1>6, GoodCreateTable DEF CreateStatements
<1>9. \A i \in 1..2 : Good(p, i, p[i])
  BY <1>7, <1>8
<1>10. \A i \in 1..2 : Guarded(p[i])
  BY <1>2, GuardedStatements
<1>11. QED
  BY <1>1, <1>2, <1>3, <1>9, <1>10 DEF Part, WellFormed, Elements

\* db_init creates every table, after those it refers to.
LEMMA DbInitWellFormed ==
    /\ WellFormed(DbInit) /\ Len(DbInit) = 16
    /\ \A t \in DOMAIN Target : CreateTable(t) \in Elements(DbInit)
    /\ \A i \in 1..16 : \E t \in DOMAIN Target : DbInit[i] = CreateTable(t)
<1>1. PICK p : p = DbInit
  OBVIOUS
<1>2. Len(p) = 16 /\ \E S : p \in Seq(S)
  <2>1. p \in Seq({p[i] : i \in 1..16}) /\ Len(p) = 16
    BY <1>1 DEF DbInit
  <2>2. QED
    BY <2>1
<1>3. /\ p[1] = CreateTable("global_configs") /\ p[2] = CreateTable("modules")
      /\ p[3] = CreateTable("deployments") /\ p[4] = CreateTable("dep_containers")
      /\ p[5] = CreateTable("dep_volumes") /\ p[6] = CreateTable("dep_host_resources")
      /\ p[7] = CreateTable("dep_secrets") /\ p[8] = CreateTable("dep_configs")
      /\ p[9] = CreateTable("dep_config_values") /\ p[10] = CreateTable("aux_deployments")
      /\ p[11] = CreateTable("aux_dep_labels") /\ p[12] = CreateTable("aux_dep_configs")
      /\ p[13] = CreateTable("aux_dep_volumes")
      /\ p[14] = CreateTable("aux_dep_volume_mounts")
      /\ p[15] = CreateTable("dep_advertisements") /\ p[16] = CreateTable("dep_adv_items")
  BY <1>1 DEF DbInit
<1>4. /\ p[2] \in Before(p, 3) /\ p[8] \in Before(p, 9) /\ p[13] \in Before(p, 14)
      /\ p[10] \in Before(p, 14) /\ p[15] \in Before(p, 16)
      /\ \A i \in {11, 12} : p[10] \in Before(p, i)
      /\ \A i \in 4..16 : p[3] \in Before(p, i)
  BY DEF Before
<1>5. ASSUME NEW i \in 1..16, NEW t \in DOMAIN Target, p[i] = CreateTable(t),
             \A r \in References(t) : CreateTable(r[1]) \in Before(p, i)
      PROVE  Good(p, i, p[i])
  BY <1>5, GoodCreateTable DEF CreateStatements
<1>6. Good(p, 1, p[1]) /\ Good(p, 2, p[2])
  <2>1. References("global_configs") = {} /\ References("modules") = {}
    BY DEF References
  <2>2. QED
    BY <1>3, <1>5, <2>1, TargetTables
<1>7. ASSUME NEW t \in {"dep_containers", "dep_volumes", "dep_host_resources", "dep_secrets",
                        "dep_configs", "aux_deployments", "aux_dep_volumes",
                        "dep_advertisements"},
             NEW i \in 4..16, p[i] = CreateTable(t)
      PROVE  Good(p, i, p[i])
  <2>1. \A r \in References(t) : r[1] = "deployments"
    BY DEF References
  <2>2. i \in 1..16 /\ t \in DOMAIN Target
    BY TargetTables
  <2>3. CreateTable("deployments") \in Before(p, i)
    BY <1>3, <1>4
  <2>4. QED
    BY <1>5, <1>7, <2>1, <2>2, <2>3
<1>8. /\ Good(p, 4, p[4]) /\ Good(p, 5, p[5]) /\ Good(p, 6, p[6]) /\ Good(p, 7, p[7])
      /\ Good(p, 8, p[8]) /\ Good(p, 10, p[10]) /\ Good(p, 13, p[13]) /\ Good(p, 15, p[15])
  BY <1>3, <1>7
<1>9. Good(p, 3, p[3]) /\ Good(p, 9, p[9]) /\ Good(p, 16, p[16])
  <2>1. /\ \A r \in References("deployments") : r[1] = "modules"
        /\ \A r \in References("dep_config_values") : r[1] = "dep_configs"
        /\ \A r \in References("dep_adv_items") : r[1] = "dep_advertisements"
    BY DEF References
  <2>2. QED
    BY <1>3, <1>4, <1>5, <2>1, TargetTables
<1>10. Good(p, 11, p[11]) /\ Good(p, 12, p[12]) /\ Good(p, 14, p[14])
  <2>1. /\ \A t \in {"aux_dep_labels", "aux_dep_configs"} :
              \A r \in References(t) : r[1] = "aux_deployments"
        /\ \A r \in References("aux_dep_volume_mounts") :
              r[1] = "aux_dep_volumes" \/ r[1] = "aux_deployments"
    BY DEF References
  <2>2. QED
    BY <1>3, <1>4, <1>5, <2>1, TargetTables
<1>11. \A i \in 1..16 : Good(p, i, p[i])
  <2>1. \A i \in 1..16 : i \in {1, 2, 3, 4, 5, 6, 7, 8, 9, 10, 11, 12, 13, 14, 15, 16}
    OBVIOUS
  <2>2. QED
    BY <1>6, <1>8, <1>9, <1>10, <2>1
<1>12. \A t \in DOMAIN Target : CreateTable(t) \in Elements(p)
  <2>1. \A i \in 1..16 : p[i] \in Elements(p)
    BY <1>2 DEF Elements
  <2>2. QED
    BY <1>3, <2>1, TargetTables
<1>13. \A i \in 1..16 : \E t \in DOMAIN Target : p[i] = CreateTable(t)
  BY <1>3, TargetTables
<1>14. QED
  BY <1>1, <1>2, <1>11, <1>12, <1>13 DEF WellFormed

-----------------------------------------------------------------------------
(* The parts, one after the other.                                         *)

\* More statements before do no harm.
LEMMA PreparedMonotone ==
    ASSUME NEW D, NEW E, D \subseteq E, NEW s, Prepared(D, s)
    PROVE  Prepared(E, s)
<1>1. s.do \in AddsKey => \A c \in s.on :
          \/ c \in Kept(s.table)
          \/ \E e \in E : e.do = "addColumn" /\ e.table = s.table /\ e.test = c
          \/ \E e \in E : /\ e.do = "changeColumn" /\ e.table = s.table
                          /\ e.test \in DOMAIN Changed(s.table)
                          /\ c = Changed(s.table)[e.test]
  BY DEF Prepared
<1>2. s.do = "renameTable" => Complete(s.name, E)
  <2>1. \A t : Complete(t, D) => Complete(t, E)
    BY DEF Complete
  <2>2. QED
    BY <2>1 DEF Prepared
<1>3. s.do = "createTable" => \A r \in References(s.name) :
          \/ r[1] = s.table
          \/ \E e \in E : e.do = "createTable" /\ e.name = r[1] /\ e.table \in {"", s.table}
  BY DEF Prepared
<1>4. QED
  BY <1>1, <1>2, <1>3 DEF Prepared

\* Nor do they undo what is complete.
LEMMA CompleteMonotone ==
    ASSUME NEW D, NEW E, D \subseteq E, NEW t, Complete(t, D)
    PROVE  Complete(t, E)
  BY DEF Complete

\* Two sequences are sequences over one set.
LEMMA SequencesHaveAUnion ==
    ASSUME NEW S, NEW T, NEW p \in Seq(S), NEW q \in Seq(T)
    PROVE  p \in Seq(S \cup T) /\ q \in Seq(S \cup T)
  OBVIOUS

\* What stands where in a concatenation.
LEMMA Concatenation ==
    ASSUME NEW p, NEW q, \E S : p \in Seq(S), \E S : q \in Seq(S)
    PROVE  /\ \E S : p \o q \in Seq(S)
           /\ Len(p) \in Nat /\ Len(q) \in Nat /\ Len(p \o q) = Len(p) + Len(q)
           /\ \A i \in 1..Len(p) : (p \o q)[i] = p[i]
           /\ \A i \in 1..Len(q) : (p \o q)[Len(p) + i] = q[i]
           /\ Elements(p \o q) = Elements(p) \cup Elements(q)
           /\ \A i \in 1..Len(p) : Before(p \o q, i) = Before(p, i)
           /\ \A i \in 1..Len(q) :
                 Before(p \o q, Len(p) + i) = Elements(p) \cup Before(q, i)
<1>1. PICK S : p \in Seq(S) /\ q \in Seq(S)
  BY SequencesHaveAUnion
<1>2. PICK m \in Nat, n \in Nat, r \in Seq(S) : m = Len(p) /\ n = Len(q) /\ r = p \o q
  <2>1. Len(p) \in Nat /\ Len(q) \in Nat /\ p \o q \in Seq(S)
    BY <1>1
  <2>2. QED
    BY <2>1
<1>3. /\ Len(r) = m + n
      /\ \A i \in 1..m : r[i] = p[i]
      /\ \A i \in 1..n : r[m + i] = q[i]
  BY <1>1, <1>2
<1>4. \A i \in (m + 1)..(m + n) : i - m \in 1..n /\ r[i] = q[i - m]
  <2>1. \A i \in (m + 1)..(m + n) : i - m \in 1..n /\ i = m + (i - m)
    OBVIOUS
  <2>2. QED
    BY <1>3, <2>1
<1>5. ASSUME NEW k \in 0..m
      PROVE  {r[j] : j \in 1..k} = {p[j] : j \in 1..k}
  <2>1. \A j \in 1..k : r[j] = p[j]
    BY <1>3
  <2>2. QED
    BY <2>1
<1>6. ASSUME NEW k \in 0..n
      PROVE  {r[j] : j \in 1..(m + k)} = {p[j] : j \in 1..m} \cup {q[j] : j \in 1..k}
  <2>1. ASSUME NEW j \in 1..(m + k)
        PROVE  r[j] \in {p[h] : h \in 1..m} \cup {q[h] : h \in 1..k}
    <3>1. CASE j \in 1..m
      BY <1>3, <3>1
    <3>2. CASE j \notin 1..m
      <4>1. j \in (m + 1)..(m + n) /\ j - m \in 1..k
        BY <3>2
      <4>2. QED
        BY <1>4, <4>1
    <3>3. QED
      BY <3>1, <3>2
  <2>2. ASSUME NEW j \in 1..m
        PROVE  p[j] \in {r[h] : h \in 1..(m + k)}
    <3>1. j \in 1..(m + k) /\ r[j] = p[j]
      BY <1>3
    <3>2. QED
      BY <3>1
  <2>3. ASSUME NEW j \in 1..k
        PROVE  q[j] \in {r[h] : h \in 1..(m + k)}
    <3>1. m + j \in 1..(m + k) /\ r[m + j] = q[j]
      BY <1>3
    <3>2. QED
      BY <3>1
  <2>4. QED
    BY <2>1, <2>2, <2>3
<1>7. Elements(r) = Elements(p) \cup Elements(q)
  <2>1. n \in 0..n
    OBVIOUS
  <2>2. {r[j] : j \in 1..(m + n)} = {p[j] : j \in 1..m} \cup {q[j] : j \in 1..n}
    BY <1>6, <2>1
  <2>3. QED
    BY <1>2, <1>3, <2>2 DEF Elements
<1>8. \A i \in 1..m : Before(r, i) = Before(p, i)
  <2>1. \A i \in 1..m : i - 1 \in 0..m
    OBVIOUS
  <2>2. QED
    BY <1>5, <2>1 DEF Before
<1>9. \A i \in 1..n : Before(r, m + i) = Elements(p) \cup Before(q, i)
  <2>1. \A i \in 1..n : i - 1 \in 0..n /\ (m + i) - 1 = m + (i - 1)
    OBVIOUS
  <2>2. QED
    BY <1>2, <1>6, <2>1 DEF Before, Elements
<1>10. QED
  BY <1>2, <1>3, <1>7, <1>8, <1>9

\* Parts of the program may be put together.
LEMMA WellFormedConcatenation ==
    ASSUME NEW p, NEW q, WellFormed(p), WellFormed(q)
    PROVE  WellFormed(p \o q) /\ Elements(p \o q) = Elements(p) \cup Elements(q)
<1>1. (\E S : p \in Seq(S)) /\ (\E S : q \in Seq(S))
  BY DEF WellFormed
<1>2. PICK m, n, r : m = Len(p) /\ n = Len(q) /\ r = p \o q
  OBVIOUS
<1>3. /\ \E S : r \in Seq(S)
      /\ m \in Nat /\ n \in Nat /\ Len(r) = m + n
      /\ \A i \in 1..m : r[i] = p[i]
      /\ \A i \in 1..n : r[m + i] = q[i]
      /\ Elements(r) = Elements(p) \cup Elements(q)
      /\ \A i \in 1..m : Before(r, i) = Before(p, i)
      /\ \A i \in 1..n : Before(r, m + i) = Elements(p) \cup Before(q, i)
  <2>1. /\ \E S : p \o q \in Seq(S)
        /\ Len(p) \in Nat /\ Len(q) \in Nat /\ Len(p \o q) = Len(p) + Len(q)
        /\ \A i \in 1..Len(p) : (p \o q)[i] = p[i]
        /\ \A i \in 1..Len(q) : (p \o q)[Len(p) + i] = q[i]
        /\ Elements(p \o q) = Elements(p) \cup Elements(q)
        /\ \A i \in 1..Len(p) : Before(p \o q, i) = Before(p, i)
        /\ \A i \in 1..Len(q) :
              Before(p \o q, Len(p) + i) = Elements(p) \cup Before(q, i)
    BY <1>1, Concatenation
  <2>2. QED
    BY <1>2, <2>1
<1>4. ASSUME NEW i \in 1..m
      PROVE  Good(r, i, r[i])
  <2>1. PICK s : s = p[i]
    OBVIOUS
  <2>2. Fits(s) /\ Prepared(Before(p, i), s) /\ Adjacent(p, i, s)
    BY <1>2, <2>1 DEF WellFormed, Good
  <2>3. r[i] = s /\ Before(r, i) = Before(p, i)
    BY <1>3, <2>1
  <2>4. /\ i > 1 => r[i - 1] = p[i - 1]
        /\ i < m => i < m + n /\ r[i + 1] = p[i + 1]
    BY <1>3
  <2>5. Adjacent(r, i, s)
    BY <1>2, <1>3, <2>2, <2>4 DEF Adjacent
  <2>6. QED
    BY <2>2, <2>3, <2>5 DEF Good
<1>5. ASSUME NEW i \in 1..n
      PROVE  Good(r, m + i, r[m + i])
  <2>1. PICK s : s = q[i]
    OBVIOUS
  <2>2. Fits(s) /\ Prepared(Before(q, i), s) /\ Adjacent(q, i, s)
    BY <1>2, <2>1 DEF WellFormed, Good
  <2>3. r[m + i] = s /\ Before(q, i) \subseteq Before(r, m + i)
    BY <1>3, <2>1
  <2>4. /\ i > 1 => m + i > 1 /\ r[(m + i) - 1] = q[i - 1]
        /\ i < n => m + i < m + n /\ r[(m + i) + 1] = q[i + 1]
    <3>1. /\ i > 1 => m + i > 1 /\ i - 1 \in 1..n /\ (m + i) - 1 = m + (i - 1)
          /\ i < n => m + i < m + n /\ i + 1 \in 1..n /\ (m + i) + 1 = m + (i + 1)
      BY <1>3
    <3>2. QED
      BY <1>3, <3>1
  <2>5. Adjacent(r, m + i, s)
    BY <1>2, <1>3, <2>2, <2>4 DEF Adjacent
  <2>6. QED
    BY <2>2, <2>3, <2>5, PreparedMonotone DEF Good
<1>6. \A i \in 1..(m + n) : Good(r, i, r[i])
  <2>1. \A i \in 1..(m + n) : i \in 1..m \/ (i - m \in 1..n /\ i = m + (i - m))
    BY <1>3
  <2>2. QED
    BY <1>4, <1>5, <2>1
<1>7. QED
  BY <1>2, <1>3, <1>6 DEF WellFormed

\* The same, for parts that create no table unguarded.
LEMMA PartsConcatenation ==
    ASSUME NEW p, NEW q, Part(p), Part(q)
    PROVE  /\ Part(p \o q)
           /\ Elements(p \o q) = Elements(p) \cup Elements(q)
  BY WellFormedConcatenation DEF Part

\* restructure has everything that its parts have.
LEMMA RestructureIsPart ==
    /\ Part(Restructure)
    /\ Elements(MigrateAuxConfigsTab) \subseteq Elements(Restructure)
    /\ Elements(MigrateAuxLabelsTab) \subseteq Elements(Restructure)
    /\ Elements(MigrateAuxVolumesTab) \subseteq Elements(Restructure)
    /\ Elements(MigrateAuxDeploymentsTab) \subseteq Elements(Restructure)
    /\ Elements(MigrateAuxContainersTab) \subseteq Elements(Restructure)
    /\ Elements(MigrateDepAdvItemsTab) \subseteq Elements(Restructure)
    /\ Elements(MigrateDepAdvertisementsTab) \subseteq Elements(Restructure)
    /\ Elements(CreateDepConfigTables) \subseteq Elements(Restructure)
    /\ Elements(MigrateConfigsTab) \subseteq Elements(Restructure)
    /\ Elements(MigrateListConfigsTab) \subseteq Elements(Restructure)
    /\ Elements(MigrateContainersTab) \subseteq Elements(Restructure)
    /\ Elements(MigrateHostResourcesTab) \subseteq Elements(Restructure)
    /\ Elements(MigrateSecretsTab) \subseteq Elements(Restructure)
    /\ Elements(MigrateDeploymentsTab) \subseteq Elements(Restructure)
    /\ Elements(MigrateModulesTab) \subseteq Elements(Restructure)
    /\ Elements(DropTables) \subseteq Elements(Restructure)
<1>1. PICK p1 : p1 = MigrateAuxConfigsTab \o MigrateAuxLabelsTab
  OBVIOUS
<1>2. PICK p2 : p2 = p1 \o MigrateAuxVolumesTab
  OBVIOUS
<1>3. PICK p3 : p3 = p2 \o MigrateAuxDeploymentsTab
  OBVIOUS
<1>4. PICK p4 : p4 = p3 \o MigrateAuxContainersTab
  OBVIOUS
<1>5. PICK p5 : p5 = p4 \o MigrateDepAdvItemsTab
  OBVIOUS
<1>6. PICK p6 : p6 = p5 \o MigrateDepAdvertisementsTab
  OBVIOUS
<1>7. PICK p7 : p7 = p6 \o CreateDepConfigTables
  OBVIOUS
<1>8. PICK p8 : p8 = p7 \o MigrateConfigsTab
  OBVIOUS
<1>9. PICK p9 : p9 = p8 \o MigrateListConfigsTab
  OBVIOUS
<1>10. PICK p10 : p10 = p9 \o MigrateContainersTab
  OBVIOUS
<1>11. PICK p11 : p11 = p10 \o MigrateHostResourcesTab
  OBVIOUS
<1>12. PICK p12 : p12 = p11 \o MigrateSecretsTab
  OBVIOUS
<1>13. PICK p13 : p13 = p12 \o MigrateDeploymentsTab
  OBVIOUS
<1>14. PICK p14 : p14 = p13 \o MigrateModulesTab
  OBVIOUS
<1>15. PICK p15 : p15 = p14 \o DropTables
  OBVIOUS
<1>16. Part(p1) /\ Elements(p1) = Elements(MigrateAuxConfigsTab) \cup Elements(MigrateAuxLabelsTab)
  BY <1>1, MigrateAuxConfigsTabIsPart, MigrateAuxLabelsTabIsPart, PartsConcatenation
<1>17. Part(p2) /\ Elements(p2) = Elements(p1) \cup Elements(MigrateAuxVolumesTab)
  BY <1>2, <1>16, MigrateAuxVolumesTabIsPart, PartsConcatenation
<1>18. Part(p3) /\ Elements(p3) = Elements(p2) \cup Elements(MigrateAuxDeploymentsTab)
  BY <1>3, <1>17, MigrateAuxDeploymentsTabIsPart, PartsConcatenation
<1>19. Part(p4) /\ Elements(p4) = Elements(p3) \cup Elements(MigrateAuxContainersTab)
  BY <1>4, <1>18, CopiesAreParts, PartsConcatenation
<1>20. Part(p5) /\ Elements(p5) = Elements(p4) \cup Elements(MigrateDepAdvItemsTab)
  BY <1>5, <1>19, MigrateDepAdvItemsTabIsPart, PartsConcatenation
<1>21. Part(p6) /\ Elements(p6) = Elements(p5) \cup Elements(MigrateDepAdvertisementsTab)
  BY <1>6, <1>20, MigrateDepAdvertisementsTabIsPart, PartsConcatenation
<1>22. Part(p7) /\ Elements(p7) = Elements(p6) \cup Elements(CreateDepConfigTables)
  BY <1>7, <1>21, CreateDepConfigTablesIsPart, PartsConcatenation
<1>23. Part(p8) /\ Elements(p8) = Elements(p7) \cup Elements(MigrateConfigsTab)
  BY <1>8, <1>22, CopiesAreParts, PartsConcatenation
<1>24. Part(p9) /\ Elements(p9) = Elements(p8) \cup Elements(MigrateListConfigsTab)
  BY <1>9, <1>23, CopiesAreParts, PartsConcatenation
<1>25. Part(p10) /\ Elements(p10) = Elements(p9) \cup Elements(MigrateContainersTab)
  BY <1>10, <1>24, MigrateContainersTabIsPart, PartsConcatenation
<1>26. Part(p11) /\ Elements(p11) = Elements(p10) \cup Elements(MigrateHostResourcesTab)
  BY <1>11, <1>25, MigrateHostResourcesTabIsPart, PartsConcatenation
<1>27. Part(p12) /\ Elements(p12) = Elements(p11) \cup Elements(MigrateSecretsTab)
  BY <1>12, <1>26, MigrateSecretsTabIsPart, PartsConcatenation
<1>28. Part(p13) /\ Elements(p13) = Elements(p12) \cup Elements(MigrateDeploymentsTab)
  BY <1>13, <1>27, MigrateDeploymentsTabIsPart, PartsConcatenation
<1>29. Part(p14) /\ Elements(p14) = Elements(p13) \cup Elements(MigrateModulesTab)
  BY <1>14, <1>28, MigrateModulesTabIsPart, PartsConcatenation
<1>30. Part(p15) /\ Elements(p15) = Elements(p14) \cup Elements(DropTables)
  BY <1>15, <1>29, DropTablesIsPart, PartsConcatenation
<1>31. Restructure = p15
  BY <1>1, <1>2, <1>3, <1>4, <1>5, <1>6, <1>7, <1>8,
     <1>9, <1>10, <1>11, <1>12, <1>13, <1>14, <1>15 DEF Restructure
<1>32. QED
  BY <1>16, <1>17, <1>18, <1>19, <1>20, <1>21, <1>22, <1>23,
     <1>24, <1>25, <1>26, <1>27, <1>28, <1>29, <1>30, <1>31

\* What the rest of the proof uses of the program.
LEMMA ProgramFacts ==
    /\ Len(Restructure) \in Nat /\ Len(Migrate) = Len(Restructure) + 16
    /\ \A i \in 1..Len(Migrate) : Good(Migrate, i, Migrate[i])
    /\ \A t \in ChangedTables : Complete(t, Elements(Migrate))
    /\ \A t \in RenamedTables : RenameTable(t, NewName(t)) \in Elements(Restructure)
    /\ \A t \in DroppedTables : DropTable(t) \in Elements(Migrate)
    /\ \A t \in DOMAIN Target : CreateTable(t) \in Elements(Migrate)
    /\ \A i \in 1..Len(Restructure) : Guarded(Migrate[i])
    /\ \A i \in (Len(Restructure) + 1)..Len(Migrate) :
          /\ \E t \in DOMAIN Target : Migrate[i] = CreateTable(t)
          /\ Elements(Restructure) \subseteq Before(Migrate, i)
<1>1. Part(Restructure) /\ WellFormed(Restructure) /\ WellFormed(DbInit)
  BY RestructureIsPart, DbInitWellFormed DEF Part
<1>2. WellFormed(Migrate) /\ Elements(Migrate) = Elements(Restructure) \cup Elements(DbInit)
  BY <1>1, WellFormedConcatenation DEF Migrate
<1>3. PICK m, n : m = Len(Restructure) /\ n = Len(DbInit)
  OBVIOUS
<1>4. /\ m \in Nat /\ n = 16 /\ Len(Migrate) = m + 16
      /\ \A i \in 1..m : Migrate[i] = Restructure[i]
      /\ \A i \in 1..16 : /\ Migrate[m + i] = DbInit[i]
                          /\ Elements(Restructure) \subseteq Before(Migrate, m + i)
  <2>1. (\E S : Restructure \in Seq(S)) /\ (\E S : DbInit \in Seq(S))
    BY <1>1 DEF WellFormed
  <2>2. n = 16
    BY <1>3, DbInitWellFormed
  <2>3. /\ m \in Nat /\ Len(Restructure \o DbInit) = m + n
        /\ \A i \in 1..m : (Restructure \o DbInit)[i] = Restructure[i]
        /\ \A i \in 1..n :
              /\ (Restructure \o DbInit)[m + i] = DbInit[i]
              /\ Before(Restructure \o DbInit, m + i) = Elements(Restructure) \cup Before(DbInit, i)
    BY <1>3, <2>1, Concatenation
  <2>4. QED
    BY <2>2, <2>3 DEF Migrate
<1>5. \A t \in ChangedTables : Complete(t, Elements(Migrate))
  <2>1. \A t \in ChangedTables : Complete(t, Elements(Restructure))
    BY RestructureIsPart, MigrateAuxDeploymentsTabIsPart, MigrateDepAdvItemsTabIsPart,
       MigrateDepAdvertisementsTabIsPart, MigrateDeploymentsTabIsPart,
       MigrateModulesTabIsPart, CompleteMonotone, AlteredTablesAre
  <2>2. QED
    BY <1>2, <2>1, CompleteMonotone
<1>6. \A t \in RenamedTables : RenameTable(t, NewName(t)) \in Elements(Restructure)
  <2>1. /\ NewName("aux_configs") = "aux_dep_configs" /\ NewName("aux_labels") = "aux_dep_labels"
        /\ NewName("aux_volumes") = "aux_dep_volumes" /\ NewName("containers") = "dep_containers"
        /\ NewName("host_resources") = "dep_host_resources" /\ NewName("secrets") = "dep_secrets"
    BY DEF NewName
  <2>2. QED
    BY <2>1, RestructureIsPart, MigrateAuxConfigsTabIsPart, MigrateAuxLabelsTabIsPart,
       MigrateAuxVolumesTabIsPart, MigrateContainersTabIsPart, MigrateHostResourcesTabIsPart,
       MigrateSecretsTabIsPart, AlteredTablesAre
<1>7. \A t \in DroppedTables : DropTable(t) \in Elements(Migrate)
  BY <1>2, RestructureIsPart, CopiesAreParts, DropTablesIsPart DEF DroppedTables
<1>8. \A t \in DOMAIN Target : CreateTable(t) \in Elements(Migrate)
  BY <1>2, DbInitWellFormed
<1>9. \A i \in 1..m : Guarded(Migrate[i])
  BY <1>1, <1>3, <1>4 DEF Part, Elements
<1>10. ASSUME NEW i \in (m + 1)..(m + 16)
       PROVE  /\ \E t \in DOMAIN Target : Migrate[i] = CreateTable(t)
              /\ Elements(Restructure) \subseteq Before(Migrate, i)
  <2>1. m \in Nat
    BY <1>4
  <2>2. PICK k \in 1..16 : i = m + k
    BY <2>1
  <2>3. Migrate[m + k] = DbInit[k] /\ Elements(Restructure) \subseteq Before(Migrate, m + k)
    BY <1>4
  <2>4. \E t \in DOMAIN Target : DbInit[k] = CreateTable(t)
    BY DbInitWellFormed
  <2>5. QED
    BY <2>2, <2>3, <2>4
<1>11. \A i \in 1..Len(Migrate) : Good(Migrate, i, Migrate[i])
  BY <1>2 DEF WellFormed
<1>12. QED
  BY <1>3, <1>4, <1>5, <1>6, <1>7, <1>8, <1>9, <1>10, <1>11

-----------------------------------------------------------------------------
(* The tables.                                                             *)

\* Old and new names of the tables do not mix.
LEMMA Names ==
    /\ \A t \in RenamedTables :
          /\ NewName(t) \in DOMAIN Target \ AlteredTables /\ t \notin DOMAIN Target
          /\ NewName(t) \notin {"dep_configs", "dep_config_values"}
          /\ \A u \in RenamedTables : NewName(t) = NewName(u) => t = u
    /\ \A t \in ChangedTables : NewName(t) = t /\ t \in DOMAIN Target
    /\ DroppedTables \cap AlteredTables = {} /\ DroppedTables \cap DOMAIN Target = {}
    /\ RenamedTables \cap ChangedTables = {}
<1>1. /\ NewName("aux_configs") = "aux_dep_configs" /\ NewName("aux_labels") = "aux_dep_labels"
      /\ NewName("aux_volumes") = "aux_dep_volumes" /\ NewName("containers") = "dep_containers"
      /\ NewName("host_resources") = "dep_host_resources" /\ NewName("secrets") = "dep_secrets"
  BY DEF NewName
<1>2. \A t \in RenamedTables :
          /\ NewName(t) \in DOMAIN Target \ AlteredTables /\ t \notin DOMAIN Target
          /\ NewName(t) \notin {"dep_configs", "dep_config_values"}
  BY <1>1, TargetTables, AlteredTablesAre
<1>3. \A t, u \in RenamedTables : NewName(t) = NewName(u) => t = u
  BY <1>1, AlteredTablesAre
<1>4. \A t \in ChangedTables : NewName(t) = t /\ t \in DOMAIN Target
  BY TargetTables, AlteredTablesAre DEF NewName
<1>5. /\ DroppedTables \cap AlteredTables = {} /\ DroppedTables \cap DOMAIN Target = {}
      /\ RenamedTables \cap ChangedTables = {}
  BY TargetTables, AlteredTablesAre DEF DroppedTables
<1>6. QED
  BY <1>2, <1>3, <1>4, <1>5

\* What a table loses is not what it is to have in the end.
Coherent(t) ==
    /\ Added(t) \subseteq Final(t).cols /\ "old" \notin Final(t).keys
    /\ \A c \in Gone(t) \cup DOMAIN Changed(t) \cup Remaining(t) : c \notin Final(t).cols
    /\ \A c \in DOMAIN Changed(t) :
          /\ Changed(t)[c] \in Final(t).cols \ Added(t)
          /\ \A d \in DOMAIN Changed(t) : Changed(t)[c] = Changed(t)[d] => c = d

\* This holds of every altered table.
LEMMA TablesAreCoherent == \A t \in AlteredTables : Coherent(t)
<1>1. \A t \in AlteredTables : Remaining(t) \subseteq {"order"}
  BY DEF Remaining
<1>2. Coherent("aux_configs")
  BY <1>1, AuxConfigsTable DEF Coherent, AuxConfigsFacts
<1>3. Coherent("aux_labels")
  BY <1>1, AuxLabelsTable DEF Coherent, AuxLabelsFacts
<1>4. Coherent("aux_volumes")
  BY <1>1, AuxVolumesTable DEF Coherent, AuxVolumesFacts
<1>5. Coherent("containers")
  BY <1>1, ContainersTable DEF Coherent, ContainersFacts
<1>6. Coherent("host_resources")
  BY <1>1, HostResourcesTable DEF Coherent, HostResourcesFacts
<1>7. Coherent("secrets")
  BY <1>1, SecretsTable DEF Coherent, SecretsFacts
<1>8. Coherent("aux_deployments")
  BY <1>1, AuxDeploymentsTable DEF Coherent, AuxDeploymentsFacts
<1>9. Coherent("dep_adv_items")
  BY <1>1, DepAdvItemsTable DEF Coherent, DepAdvItemsFacts
<1>10. Coherent("dep_advertisements")
  BY <1>1, DepAdvertisementsTable DEF Coherent, DepAdvertisementsFacts
<1>11. Coherent("deployments")
  BY <1>1, DeploymentsTable DEF Coherent, DeploymentsFacts
<1>12. Coherent("modules")
  BY <1>1, ModulesTable DEF Coherent, ModulesFacts
<1>13. QED
  BY <1>2, <1>3, <1>4, <1>5, <1>6, <1>7, <1>8, <1>9, <1>10, <1>11, <1>12,
     AlteredTablesAre

\* A change brings table t nearer to what it is to be in the end.
Nearer(t, a, b) ==
    /\ a.cols \cap Final(t).cols \subseteq b.cols /\ b.cols \subseteq a.cols \cup Final(t).cols
    /\ a.keys \cap Final(t).keys \subseteq b.keys /\ b.keys \subseteq a.keys \cup Final(t).keys

Keeps(t, a, b) == b = Table(b.cols, b.keys) /\ AlteredInv(t, b) /\ Nearer(t, a, b)

\* The columns and the keys of a table.
LEMMA TableParts ==
    ASSUME NEW C, NEW K
    PROVE  Table(C, K).cols = C /\ Table(C, K).keys = K
  BY DEF Table

\* Each change of a table keeps what is known of it and brings it nearer.
LEMMA DropColumnKeeps ==
    ASSUME NEW t \in AlteredTables, NEW a, AlteredInv(t, a), NEW c,
           c \notin Final(t).cols \cup DOMAIN Changed(t)
    PROVE  Keeps(t, a, Table(a.cols \ {c}, a.keys))
<1>1. PICK b : b = Table(a.cols \ {c}, a.keys)
  OBVIOUS
<1>2. b.cols = a.cols \ {c} /\ b.keys = a.keys
  BY <1>1, TableParts
<1>3. Coherent(t)
  BY TablesAreCoherent
<1>4. \A d \in DOMAIN Changed(t) : d \in b.cols <=> Changed(t)[d] \notin b.cols
  BY <1>2, <1>3 DEF AlteredInv, Coherent
<1>5. AlteredInv(t, b)
  BY <1>2, <1>4 DEF AlteredInv, Kept
<1>6. QED
  BY <1>1, <1>2, <1>5 DEF Keeps, Nearer

LEMMA ChangeColumnKeeps ==
    ASSUME NEW t \in AlteredTables, NEW a, AlteredInv(t, a), NEW c \in DOMAIN Changed(t),
           c \in a.cols
    PROVE  Keeps(t, a, Table((a.cols \ {c}) \cup {Changed(t)[c]}, a.keys))
<1>1. PICK b : b = Table((a.cols \ {c}) \cup {Changed(t)[c]}, a.keys)
  OBVIOUS
<1>2. b.cols = (a.cols \ {c}) \cup {Changed(t)[c]} /\ b.keys = a.keys
  BY <1>1, TableParts
<1>3. Coherent(t)
  BY TablesAreCoherent
<1>4. \A d \in DOMAIN Changed(t) : d \in b.cols <=> Changed(t)[d] \notin b.cols
  <2>1. ASSUME NEW d \in DOMAIN Changed(t)
        PROVE  d # Changed(t)[c] /\ Changed(t)[d] # c /\ (d # c => Changed(t)[d] # Changed(t)[c])
    BY <1>3 DEF Coherent
  <2>2. QED
    BY <1>2, <2>1 DEF AlteredInv
<1>5. AlteredInv(t, b)
  BY <1>2, <1>3, <1>4 DEF AlteredInv, Kept, Coherent
<1>6. QED
  BY <1>1, <1>2, <1>3, <1>5 DEF Keeps, Nearer, Coherent

LEMMA AddColumnKeeps ==
    ASSUME NEW t \in AlteredTables, NEW a, AlteredInv(t, a), NEW c \in Added(t)
    PROVE  Keeps(t, a, Table(a.cols \cup {c}, a.keys))
<1>1. PICK b : b = Table(a.cols \cup {c}, a.keys)
  OBVIOUS
<1>2. b.cols = a.cols \cup {c} /\ b.keys = a.keys
  BY <1>1, TableParts
<1>3. Coherent(t)
  BY TablesAreCoherent
<1>4. \A d \in DOMAIN Changed(t) : d \in b.cols <=> Changed(t)[d] \notin b.cols
  BY <1>2, <1>3 DEF AlteredInv, Coherent
<1>5. AlteredInv(t, b)
  BY <1>2, <1>3, <1>4 DEF AlteredInv, Coherent
<1>6. QED
  BY <1>1, <1>2, <1>3, <1>5 DEF Keeps, Nearer, Coherent

LEMMA AddKeyKeeps ==
    ASSUME NEW t \in AlteredTables, NEW a, AlteredInv(t, a), NEW k \in Final(t).keys
    PROVE  Keeps(t, a, Table(a.cols, a.keys \cup {k}))
<1>1. PICK b : b = Table(a.cols, a.keys \cup {k})
  OBVIOUS
<1>2. b.cols = a.cols /\ b.keys = a.keys \cup {k}
  BY <1>1, TableParts
<1>3. QED
  BY <1>1, <1>2 DEF Keeps, Nearer, AlteredInv

LEMMA DropKeyKeeps ==
    ASSUME NEW t \in AlteredTables, NEW a, AlteredInv(t, a), NEW k, k \notin Final(t).keys
    PROVE  Keeps(t, a, Table(a.cols, a.keys \ {k}))
<1>1. PICK b : b = Table(a.cols, a.keys \ {k})
  OBVIOUS
<1>2. b.cols = a.cols /\ b.keys = a.keys \ {k}
  BY <1>1, TableParts
<1>3. QED
  BY <1>1, <1>2 DEF Keeps, Nearer, AlteredInv

\* A table as db_init creates it.
LEMMA FinalTable ==
    ASSUME NEW t \in AlteredTables
    PROVE  /\ AlteredInv(t, Final(t)) /\ Ready(t, Final(t))
           /\ NewName(t) \in DOMAIN Target /\ Final(t) = Table(Final(t).cols, Final(t).keys)
<1>1. Coherent(t)
  BY TablesAreCoherent
<1>2. AlteredInv(t, Final(t)) /\ Ready(t, Final(t))
  BY <1>1 DEF AlteredInv, Ready, Coherent, Kept
<1>3. NewName(t) \in DOMAIN Target
  BY Names DEF AlteredTables
<1>4. QED
  BY <1>2, <1>3, TargetTables DEF Final

\* The tables when table t gets other columns, or other keys.
WithColumns(f, t, X) == [f EXCEPT ![t].cols = X]
WithKeys(f, t, X) == [f EXCEPT ![t].keys = X]
WithTable(f, t, tab) == [f EXCEPT ![t] = tab]

\* A table with other columns, or other keys, is a table.
LEMMA ExceptTable ==
    ASSUME NEW f, NEW t \in DOMAIN f, f[t] = Table(f[t].cols, f[t].keys), NEW X
    PROVE  /\ WithColumns(f, t, X) = WithTable(f, t, Table(X, f[t].keys))
           /\ WithKeys(f, t, X) = WithTable(f, t, Table(f[t].cols, X))
<1>1. PICK a, C, K : a = f[t] /\ C = a.cols /\ K = a.keys
  OBVIOUS
<1>2. a = [cols |-> C, keys |-> K]
  BY <1>1 DEF Table
<1>3. [a EXCEPT !.cols = X] = [cols |-> X, keys |-> K]
  BY <1>2
<1>4. [a EXCEPT !.keys = X] = [cols |-> C, keys |-> X]
  BY <1>2
<1>5. QED
  BY <1>1, <1>3, <1>4 DEF Table, WithColumns, WithKeys, WithTable

\* The table of the mounts is not one that is renamed.
LEMMA MountsIsNew == \A t \in RenamedTables : NewName(t) # "aux_dep_volume_mounts"
<1>1. /\ NewName("aux_configs") = "aux_dep_configs" /\ NewName("aux_labels") = "aux_dep_labels"
      /\ NewName("aux_volumes") = "aux_dep_volumes" /\ NewName("containers") = "dep_containers"
      /\ NewName("host_resources") = "dep_host_resources" /\ NewName("secrets") = "dep_secrets"
  BY DEF NewName
<1>2. QED
  BY <1>1, AlteredTablesAre

\* The foreign keys of the mounts of volumes.
LEMMA ReferencesOfMounts ==
    ASSUME NEW r \in References("aux_dep_volume_mounts")
    PROVE  r = <<"aux_dep_volumes", "id">> \/ r = <<"aux_deployments", "id">>
  BY DEF References

\* The columns that foreign keys refer to.
LEMMA ReferencesOfTarget ==
    ASSUME NEW t \in DOMAIN Target, NEW r \in References(t)
    PROVE  /\ r[2] = "id" /\ r[1] # ""
           /\ r[1] \in {"modules", "dep_configs", "dep_advertisements", "aux_deployments",
                        "deployments", "aux_dep_volumes"}
           /\ t # "aux_dep_volume_mounts" => r[1] # "aux_dep_volumes"
<1>1. CASE t = "deployments"
  <2>1. References(t) = {<<"modules", "id">>}
    BY <1>1 DEF References
  <2>2. r = <<"modules", "id">>
    BY <2>1
  <2>3. QED
    BY <1>1, <2>2
<1>2. CASE t = "dep_config_values"
  <2>1. References(t) = {<<"dep_configs", "id">>}
    BY <1>2 DEF References
  <2>2. r = <<"dep_configs", "id">>
    BY <2>1
  <2>3. QED
    BY <1>2, <2>2
<1>3. CASE t = "dep_adv_items"
  <2>1. References(t) = {<<"dep_advertisements", "id">>}
    BY <1>3 DEF References
  <2>2. r = <<"dep_advertisements", "id">>
    BY <2>1
  <2>3. QED
    BY <1>3, <2>2
<1>4. CASE t \in {"aux_dep_labels", "aux_dep_configs"}
  <2>1. References(t) = {<<"aux_deployments", "id">>}
    BY <1>4 DEF References
  <2>2. r = <<"aux_deployments", "id">>
    BY <2>1
  <2>3. QED
    BY <1>4, <2>2
<1>5. CASE t = "aux_dep_volume_mounts"
  <2>1. r = <<"aux_dep_volumes", "id">> \/ r = <<"aux_deployments", "id">>
    BY <1>5, ReferencesOfMounts
  <2>2. CASE r = <<"aux_dep_volumes", "id">>
    BY <1>5, <2>2
  <2>3. CASE r = <<"aux_deployments", "id">>
    BY <1>5, <2>3
  <2>4. QED
    BY <2>1, <2>2, <2>3
<1>6. CASE t \in {"modules", "global_configs"}
  <2>1. References(t) = {}
    BY <1>6 DEF References
  <2>2. QED
    BY <2>1
<1>7. CASE t \in {"aux_deployments", "aux_dep_volumes", "dep_advertisements",
                  "dep_containers", "dep_volumes", "dep_host_resources", "dep_secrets",
                  "dep_configs"}
  <2>1. References(t) = {<<"deployments", "id">>}
    BY <1>7 DEF References
  <2>2. r = <<"deployments", "id">>
    BY <2>1
  <2>3. QED
    BY <1>7, <2>2
<1>8. QED
  BY <1>1, <1>2, <1>3, <1>4, <1>5, <1>6, <1>7, TargetTables

\* The table of the configs has ids.
LEMMA DepConfigsTable == "id" \in Target["dep_configs"].cols
<1>1. Target["dep_configs"] = DeploymentsTables["dep_configs"]
  BY DEF Target, AuxDeploymentsTables, DepAdvertisementsTables, DeploymentsTables,
         ModulesTables, GlobalConfigsTables
<1>2. QED
  BY <1>1 DEF DeploymentsTables, Table

\* These tables have their ids from the beginning.
LEMMA KeptIds ==
    ASSUME NEW t \in {"modules", "dep_advertisements", "aux_deployments", "deployments"}
    PROVE  t \in AlteredTables /\ "id" \in Kept(t)
<1>1. CASE t = "modules"
  BY <1>1, ModulesTable DEF ModulesFacts
<1>2. CASE t = "dep_advertisements"
  BY <1>2, DepAdvertisementsTable DEF DepAdvertisementsFacts
<1>3. CASE t = "aux_deployments"
  BY <1>3, AuxDeploymentsTable DEF AuxDeploymentsFacts
<1>4. CASE t = "deployments"
  BY <1>4, DeploymentsTable DEF DeploymentsFacts
<1>5. QED
  BY <1>1, <1>2, <1>3, <1>4

\* The statements that move rows.
LEMMA CopyOf ==
    ASSUME NEW t, NEW s, s = Copy(t)
    PROVE  /\ s.table = t /\ s.name = t
           /\ t = "aux_containers" => s.do = "update" /\ s.to = "aux_deployments"
           /\ t # "aux_containers" => s.do = "insert" /\ s.to = "dep_configs"
<1>1. CASE t = "aux_containers"
  <2>1. s = Update(t, "aux_deployments")
    BY <1>1 DEF Copy
  <2>2. /\ Update(t, "aux_deployments").do = "update" /\ Update(t, "aux_deployments").table = t
        /\ Update(t, "aux_deployments").name = t /\ Update(t, "aux_deployments").to = "aux_deployments"
    BY DEF Update, Statement
  <2>3. QED
    BY <1>1, <2>1, <2>2
<1>2. CASE t # "aux_containers"
  <2>1. s = Insert(t, "dep_configs")
    BY <1>2 DEF Copy
  <2>2. /\ Insert(t, "dep_configs").do = "insert" /\ Insert(t, "dep_configs").table = t
        /\ Insert(t, "dep_configs").name = t /\ Insert(t, "dep_configs").to = "dep_configs"
    BY DEF Insert, Statement
  <2>3. QED
    BY <1>2, <2>1, <2>2
<1>3. QED
  BY <1>1, <1>2

-----------------------------------------------------------------------------
(* The steps.                                                              *)

\* What the program says of the statement that is executed next.
LEMMA CurrentStatement ==
    ASSUME NextInv, ~ Up
    PROVE  /\ next \in 1..Len(Migrate) /\ Fits(Current)
           /\ Prepared(Before(Migrate, next), Current) /\ Adjacent(Migrate, next, Current)
           /\ Before(Migrate, next + 1) = Before(Migrate, next) \cup {Current}
           /\ Current.do = "createTable" /\ Current.table = "" =>
                /\ next > Len(Restructure)
                /\ Elements(Restructure) \subseteq Before(Migrate, next)
           /\ Current.do = "createTable" /\ Current.table # "" => next <= Len(Restructure)
<1>1. Len(Migrate) \in Nat /\ Len(Restructure) \in Nat
  BY ProgramFacts
<1>2. next \in 1..Len(Migrate)
  BY <1>1 DEF NextInv, Up
<1>3. Good(Migrate, next, Current)
  BY <1>2, ProgramFacts DEF Current
<1>4. Before(Migrate, next + 1) = Before(Migrate, next) \cup {Current}
  BY <1>2 DEF Before, Current
<1>5. ASSUME next > Len(Restructure)
      PROVE  Current.table = "" /\ Elements(Restructure) \subseteq Before(Migrate, next)
  <2>1. next \in (Len(Restructure) + 1)..Len(Migrate)
    BY <1>1, <1>2, <1>5
  <2>2. /\ \E t \in DOMAIN Target : Current = CreateTable(t)
        /\ Elements(Restructure) \subseteq Before(Migrate, next)
    BY <2>1, ProgramFacts DEF Current
  <2>3. PICK t : Current = CreateTable(t)
    BY <2>2
  <2>4. CreateTable(t).table = ""
    BY DEF CreateTable, Statement
  <2>5. QED
    BY <2>2, <2>3, <2>4
<1>6. ASSUME next <= Len(Restructure)
      PROVE  Guarded(Current)
  <2>1. next \in 1..Len(Restructure)
    BY <1>1, <1>2, <1>6
  <2>2. QED
    BY <2>1, ProgramFacts DEF Current
<1>7. next > Len(Restructure) \/ next <= Len(Restructure)
  BY <1>1, <1>2
<1>8. Current.do = "createTable" /\ Current.table = "" =>
         /\ next > Len(Restructure)
         /\ Elements(Restructure) \subseteq Before(Migrate, next)
  BY <1>5, <1>6, <1>7 DEF Guarded
<1>9. Current.do = "createTable" /\ Current.table # "" => next <= Len(Restructure)
  BY <1>5, <1>7
<1>10. QED
  BY <1>2, <1>3, <1>4, <1>8, <1>9 DEF Good

\* A step brings the tables nearer to those of db_init.
Progress ==
    /\ \A t \in AlteredTables \cap DOMAIN tables' :
          IF t \in DOMAIN tables THEN Nearer(t, tables[t], tables'[t])
                                 ELSE tables'[t] = Final(t)
    /\ (RenamedTables \cup DroppedTables) \cap DOMAIN tables' \subseteq DOMAIN tables
    /\ DOMAIN Target \cap DOMAIN tables \subseteq DOMAIN tables'
    /\ "deployments" \in DOMAIN tables' \ DOMAIN tables => next' > Len(Restructure) + 1

\* What is done is not undone.
LEMMA DoneIsKept ==
    ASSUME Progress, next \in Nat, next' \in {next, next + 1}, NEW s, Fits(s), Done(s)
    PROVE  Done(s)'
<1>1. CASE s.do \in {"insert", "update"}
  BY <1>1 DEF Done
<1>2. CASE s.do = "createTable"
  <2>1. CASE s.table # "" /\ next > Len(Restructure) + 1
    <3>1. Len(Restructure) \in Nat
      BY ProgramFacts
    <3>2. next' > Len(Restructure) + 1
      <4>1. PICK m \in Nat : m = Len(Restructure)
        BY <3>1
      <4>2. PICK k \in Nat : k = next /\ (next' = k \/ next' = k + 1)
        OBVIOUS
      <4>3. k > m + 1
        BY <2>1, <4>1, <4>2
      <4>4. next' > m + 1
        BY <4>2, <4>3
      <4>5. QED
        BY <4>1, <4>4
    <3>3. QED
      BY <1>2, <2>1, <3>2 DEF Done
  <2>2. CASE ~ Required(s)
    <3>1. s.name \in DOMAIN Target
      BY <1>2 DEF Fits
    <3>2. s.table # "" => s.table = "deployments"
      BY <1>2 DEF Fits
    <3>3. CASE s.table = "" \/ s.table \in DOMAIN tables
      <4>1. s.name \in DOMAIN tables
        BY <1>2, <2>2, <3>3 DEF Required
      <4>2. s.name \in DOMAIN tables'
        BY <3>1, <4>1 DEF Progress
      <4>3. QED
        BY <1>2, <4>2 DEF Done, Required
    <3>4. CASE s.table = "deployments" /\ s.table \notin DOMAIN tables
      <4>1. "deployments" \in DOMAIN tables' => next' > Len(Restructure) + 1
        BY <3>4 DEF Progress
      <4>2. CASE s.table \notin DOMAIN tables'
        BY <3>4, <4>2 DEF Done, Required
      <4>3. CASE s.table \in DOMAIN tables'
        BY <1>2, <3>4, <4>1, <4>3 DEF Done
      <4>4. QED
        BY <4>2, <4>3
    <3>5. QED
      BY <3>2, <3>3, <3>4
  <2>3. QED
    BY <1>2, <2>1, <2>2 DEF Done
<1>3. CASE s.do \in {"renameTable", "dropTable"}
  <2>1. s.table \in RenamedTables \cup DroppedTables
    BY <1>3 DEF Fits
  <2>2. s.table \notin DOMAIN tables
    BY <1>3 DEF Done, Required
  <2>3. s.table \notin DOMAIN tables' /\ s.table # ""
    BY <2>1, <2>2, AlteredTablesAre DEF Progress, DroppedTables
  <2>4. QED
    BY <2>3 DEF Done, Required
<1>4. CASE s.do \in Alters
  <2>1. PICK t : t = s.table
    OBVIOUS
  <2>2. t \in AlteredTables /\ t # "" /\ Coherent(t)
    BY <1>4, <2>1, AlteredTablesAre, TablesAreCoherent DEF Fits
  <2>3. CASE t \notin DOMAIN tables'
    BY <2>1, <2>2, <2>3 DEF Done, Required
  <2>4. CASE t \in DOMAIN tables' /\ t \notin DOMAIN tables
    <3>1. tables'[t] = Final(t)
      BY <2>2, <2>4 DEF Progress
    <3>2. ~ Required(s)'
      <4>1. CASE s.do \in DropsColumn
        <5>1. s.test \notin Final(t).cols
          BY <2>1, <4>1 DEF Fits
        <5>2. QED
          BY <2>1, <3>1, <4>1, <5>1 DEF Required, DropsColumn
      <4>2. CASE s.do = "addColumn"
        <5>1. s.test \in Final(t).cols
          BY <2>1, <2>2, <4>2 DEF Fits, Coherent
        <5>2. QED
          BY <2>1, <3>1, <4>2, <5>1 DEF Required
      <4>3. CASE s.do \in AddsKey
        <5>1. s.test \in Final(t).keys
          BY <2>1, <4>3 DEF Fits
        <5>2. QED
          BY <2>1, <3>1, <4>3, <5>1 DEF Required, AddsKey
      <4>4. CASE s.do = "dropIndexes"
        <5>1. Final(t).keys \subseteq s.on \cup {"PRIMARY"}
          BY <2>1, <4>4 DEF Fits
        <5>2. QED
          BY <2>1, <3>1, <4>4, <5>1 DEF Required, OtherKeys
      <4>5. QED
        BY <1>4, <4>1, <4>2, <4>3, <4>4 DEF Alters
    <3>3. QED
      BY <3>2 DEF Done
  <2>5. CASE t \in DOMAIN tables' /\ t \in DOMAIN tables
    <3>1. Nearer(t, tables[t], tables'[t])
      BY <2>2, <2>5 DEF Progress
    <3>2. ~ Required(s)
      BY <1>4 DEF Done, Alters, DropsColumn, AddsKey
    <3>3. ~ Required(s)'
      <4>1. CASE s.do \in DropsColumn
        <5>1. s.test \notin Final(t).cols
          BY <2>1, <4>1 DEF Fits
        <5>2. s.test \notin tables[t].cols
          BY <2>1, <2>5, <3>2, <4>1 DEF Required, DropsColumn
        <5>3. s.test \notin tables'[t].cols
          BY <3>1, <5>1, <5>2 DEF Nearer
        <5>4. QED
          BY <2>1, <4>1, <5>3 DEF Required, DropsColumn
      <4>2. CASE s.do = "addColumn"
        <5>1. s.test \in Final(t).cols
          BY <2>1, <2>2, <4>2 DEF Fits, Coherent
        <5>2. s.test \in tables[t].cols
          BY <2>1, <2>5, <3>2, <4>2 DEF Required
        <5>3. s.test \in tables'[t].cols
          BY <3>1, <5>1, <5>2 DEF Nearer
        <5>4. QED
          BY <2>1, <4>2, <5>3 DEF Required
      <4>3. CASE s.do \in AddsKey
        <5>1. s.test \in Final(t).keys
          BY <2>1, <4>3 DEF Fits
        <5>2. s.test \in tables[t].keys
          BY <2>1, <2>5, <3>2, <4>3 DEF Required, AddsKey
        <5>3. s.test \in tables'[t].keys
          BY <3>1, <5>1, <5>2 DEF Nearer
        <5>4. QED
          BY <2>1, <4>3, <5>3 DEF Required, AddsKey
      <4>4. CASE s.do = "dropIndexes"
        <5>1. Final(t).keys \subseteq s.on \cup {"PRIMARY"}
          BY <2>1, <4>4 DEF Fits
        <5>2. tables[t].keys \subseteq s.on \cup {"PRIMARY"}
          BY <2>1, <2>5, <3>2, <4>4 DEF Required, OtherKeys
        <5>3. tables'[t].keys \subseteq s.on \cup {"PRIMARY"}
          BY <3>1, <5>1, <5>2 DEF Nearer
        <5>4. QED
          BY <2>1, <4>4, <5>3 DEF Required, OtherKeys
      <4>5. QED
        BY <1>4, <4>1, <4>2, <4>3, <4>4 DEF Alters
    <3>4. QED
      BY <3>3 DEF Done
  <2>6. QED
    BY <2>3, <2>4, <2>5
<1>5. QED
  BY <1>1, <1>2, <1>3, <1>4 DEF Fits

TablesKept == TablesInv /\ RenamedInv /\ CreatedInv /\ MountsInv

\* A step that leaves the tables alone.
LEMMA SameTables ==
    ASSUME TablesKept, tables' = tables
    PROVE  TablesKept' /\ Progress
<1>1. TablesKept'
  BY DEF TablesKept, TablesInv, RenamedInv, CreatedInv, MountsInv
<1>2. Progress
  BY DEF Progress, Nearer
<1>3. QED
  BY <1>1, <1>2

\* A step that alters a table.
LEMMA AlterTable ==
    ASSUME TablesKept, NEW t \in AlteredTables \cap DOMAIN tables, NEW b,
           Keeps(t, tables[t], b), tables' = WithTable(tables, t, b)
    PROVE  TablesKept' /\ Progress /\ DOMAIN tables' = DOMAIN tables
<1>1. DOMAIN tables' = DOMAIN tables /\ tables'[t] = b
      /\ \A u \in DOMAIN tables : u # t => tables'[u] = tables[u]
  BY DEF WithTable
<1>2. /\ AlteredInv(t, b) /\ b = Table(b.cols, b.keys) /\ Nearer(t, tables[t], b)
  BY DEF Keeps
<1>3. TablesInv'
  <2>1. DOMAIN tables' \subseteq AlteredTables \cup DroppedTables \cup DOMAIN Target
    BY <1>1 DEF TablesKept, TablesInv
  <2>2. \A u \in DOMAIN tables' : tables'[u] = Table(tables'[u].cols, tables'[u].keys)
    BY <1>1, <1>2 DEF TablesKept, TablesInv
  <2>3. \A u \in AlteredTables \cap DOMAIN tables' : AlteredInv(u, tables'[u])
    <3>1. \A u \in AlteredTables \cap DOMAIN tables : AlteredInv(u, tables[u])
      BY DEF TablesKept, TablesInv
    <3>2. QED
      BY <1>1, <1>2, <3>1
  <2>4. QED
    BY <2>1, <2>2, <2>3 DEF TablesInv
<1>4. \A u \in RenamedTables : NewName(u) # t /\ NewName(u) \notin AlteredTables
  BY Names
<1>5. RenamedInv'
  <2>1. SUFFICES ASSUME NEW u \in RenamedTables, NewName(u) \in DOMAIN tables'
                 PROVE  u \notin DOMAIN tables' /\ Ready(u, tables'[NewName(u)])
    BY DEF RenamedInv
  <2>2. u \notin DOMAIN tables /\ Ready(u, tables[NewName(u)])
    BY <1>1, <2>1 DEF TablesKept, RenamedInv
  <2>3. tables'[NewName(u)] = tables[NewName(u)]
    BY <1>1, <1>4, <2>1
  <2>4. QED
    BY <1>1, <2>2, <2>3
<1>6. CreatedInv'
  <2>1. t \in DOMAIN Target => t \in ChangedTables
    BY Names DEF AlteredTables
  <2>2. QED
    BY <1>1, <2>1 DEF TablesKept, CreatedInv
<1>7. MountsInv'
  <2>1. t # "aux_dep_volumes"
    BY AlteredTablesAre
  <2>2. QED
    BY <1>1, <2>1 DEF TablesKept, MountsInv
<1>8. Progress
  BY <1>1, <1>2 DEF Progress, Nearer
<1>9. QED
  BY <1>1, <1>3, <1>5, <1>6, <1>7, <1>8 DEF TablesKept

\* A step that renames a table.
LEMMA RenameATable ==
    ASSUME TablesKept, NEW t \in RenamedTables \cap DOMAIN tables,
           Ready(t, tables[t]), NewName(t) \notin DOMAIN tables,
           tables' = With(Without(t), NewName(t), tables[t])
    PROVE  TablesKept' /\ Progress
<1>1. PICK n : n = NewName(t)
  OBVIOUS
<1>2. /\ n \in DOMAIN Target \ AlteredTables /\ t \notin DOMAIN Target /\ t # n
      /\ \A u \in RenamedTables : NewName(u) = n => u = t
      /\ \A u \in RenamedTables : NewName(u) # t
      /\ t \in AlteredTables
  BY <1>1, Names DEF AlteredTables
<1>3. /\ DOMAIN tables' = (DOMAIN tables \ {t}) \cup {n}
      /\ tables'[n] = tables[t]
      /\ \A u \in DOMAIN tables : u \notin {t, n} => tables'[u] = tables[u]
  BY <1>1 DEF With, Without
<1>4. n \notin DOMAIN tables
  BY <1>1
<1>5. TablesInv'
  <2>1. DOMAIN tables' \subseteq AlteredTables \cup DroppedTables \cup DOMAIN Target
    BY <1>2, <1>3 DEF TablesKept, TablesInv
  <2>2. \A u \in DOMAIN tables' : tables'[u] = Table(tables'[u].cols, tables'[u].keys)
    <3>1. \A u \in DOMAIN tables : tables[u] = Table(tables[u].cols, tables[u].keys)
      BY DEF TablesKept, TablesInv
    <3>2. QED
      BY <1>3, <1>4, <3>1
  <2>3. \A u \in AlteredTables \cap DOMAIN tables' : AlteredInv(u, tables'[u])
    <3>1. \A u \in AlteredTables \cap DOMAIN tables : AlteredInv(u, tables[u])
      BY DEF TablesKept, TablesInv
    <3>2. QED
      BY <1>2, <1>3, <3>1
  <2>4. QED
    BY <2>1, <2>2, <2>3 DEF TablesInv
<1>6. RenamedInv'
  <2>1. SUFFICES ASSUME NEW u \in RenamedTables, NewName(u) \in DOMAIN tables'
                 PROVE  u \notin DOMAIN tables' /\ Ready(u, tables'[NewName(u)])
    BY DEF RenamedInv
  <2>2. CASE u = t
    BY <1>1, <1>2, <1>3, <2>2
  <2>3. CASE u # t
    <3>1. NewName(u) \in DOMAIN tables /\ NewName(u) \notin {t, n}
      BY <1>2, <1>3, <2>1, <2>3
    <3>2. u \notin DOMAIN tables /\ Ready(u, tables[NewName(u)])
      BY <3>1 DEF TablesKept, RenamedInv
    <3>3. u # n
      BY <1>2 DEF AlteredTables
    <3>4. QED
      BY <1>3, <3>1, <3>2, <3>3
  <2>4. QED
    BY <2>2, <2>3
<1>7. CreatedInv'
  <2>1. SUFFICES ASSUME NEW u \in DOMAIN tables' \cap DOMAIN Target, u \notin ChangedTables,
                        \A v \in RenamedTables : u # NewName(v)
                 PROVE  tables'[u] = Target[u]
    BY DEF CreatedInv
  <2>2. u \in DOMAIN tables /\ u \notin {t, n}
    BY <1>1, <1>2, <1>3, <2>1
  <2>3. QED
    BY <1>3, <2>1, <2>2 DEF TablesKept, CreatedInv
<1>8. MountsInv'
  <2>1. "aux_dep_volume_mounts" # n
    <3>1. \A u \in RenamedTables : NewName(u) # "aux_dep_volume_mounts"
      BY MountsIsNew
    <3>2. QED
      BY <1>1, <3>1
  <2>2. "aux_dep_volumes" # t /\ "aux_dep_volume_mounts" # t
    BY <1>2, TargetTables
  <2>3. QED
    BY <1>3, <1>4, <2>1, <2>2 DEF TablesKept, MountsInv
<1>9. Progress
  <2>1. "deployments" # n
    BY <1>2, AlteredTablesAre
  <2>2. DOMAIN Target \cap DOMAIN tables \subseteq DOMAIN tables'
    BY <1>2, <1>3
  <2>3. n \notin RenamedTables \cup DroppedTables
    BY <1>2, Names DEF AlteredTables
  <2>4. \A u \in AlteredTables \cap DOMAIN tables' :
           u \in DOMAIN tables /\ tables'[u] = tables[u]
    BY <1>2, <1>3
  <2>5. QED
    BY <1>3, <2>1, <2>2, <2>3, <2>4 DEF Progress, Nearer
<1>10. QED
  BY <1>5, <1>6, <1>7, <1>8, <1>9 DEF TablesKept

\* A step that drops a table.
LEMMA DropATable ==
    ASSUME TablesKept, NEW t \in DroppedTables, tables' = Without(t)
    PROVE  TablesKept' /\ Progress
<1>1. /\ DOMAIN tables' = DOMAIN tables \ {t}
      /\ \A u \in DOMAIN tables' : tables'[u] = tables[u]
  BY DEF Without
<1>2. t \notin DOMAIN Target /\ t \notin AlteredTables
  BY Names
<1>3. TablesInv'
  <2>1. DOMAIN tables' \subseteq AlteredTables \cup DroppedTables \cup DOMAIN Target
    BY <1>1 DEF TablesKept, TablesInv
  <2>2. \A u \in DOMAIN tables' : tables'[u] = Table(tables'[u].cols, tables'[u].keys)
    BY <1>1 DEF TablesKept, TablesInv
  <2>3. \A u \in AlteredTables \cap DOMAIN tables' : AlteredInv(u, tables'[u])
    <3>1. \A u \in AlteredTables \cap DOMAIN tables : AlteredInv(u, tables[u])
      BY DEF TablesKept, TablesInv
    <3>2. QED
      BY <1>1, <3>1
  <2>4. QED
    BY <2>1, <2>2, <2>3 DEF TablesInv
<1>4. RenamedInv'
  BY <1>1 DEF TablesKept, RenamedInv
<1>5. CreatedInv'
  BY <1>1 DEF TablesKept, CreatedInv
<1>6. MountsInv'
  <2>1. t # "aux_dep_volumes"
    BY <1>2, TargetTables
  <2>2. QED
    BY <1>1, <2>1 DEF TablesKept, MountsInv
<1>7. Progress
  BY <1>1, <1>2 DEF Progress, Nearer
<1>8. QED
  BY <1>3, <1>4, <1>5, <1>6, <1>7 DEF TablesKept

\* A step that creates a table.
LEMMA CreateATable ==
    ASSUME TablesKept, NEW w \in DOMAIN Target \ DOMAIN tables,
           \A u \in RenamedTables : w = NewName(u) => u \notin DOMAIN tables,
           w = "aux_dep_volume_mounts" =>
              "aux_dep_volumes" \in DOMAIN tables /\ "id" \in tables["aux_dep_volumes"].cols,
           w = "deployments" => next' > Len(Restructure) + 1,
           tables' = With(tables, w, Target[w])
    PROVE  TablesKept' /\ Progress
<1>1. /\ DOMAIN tables' = DOMAIN tables \cup {w} /\ tables'[w] = Target[w]
      /\ \A u \in DOMAIN tables : tables'[u] = tables[u]
  BY DEF With
<1>2. w \in AlteredTables => w \in ChangedTables /\ NewName(w) = w /\ Target[w] = Final(w)
  BY Names DEF AlteredTables, Final
<1>3. w \notin RenamedTables \cup DroppedTables
  BY Names
<1>4. TablesInv'
  <2>1. DOMAIN tables' \subseteq AlteredTables \cup DroppedTables \cup DOMAIN Target
    BY <1>1 DEF TablesKept, TablesInv
  <2>2. \A u \in DOMAIN tables' : tables'[u] = Table(tables'[u].cols, tables'[u].keys)
    <3>1. \A u \in DOMAIN tables : tables[u] = Table(tables[u].cols, tables[u].keys)
      BY DEF TablesKept, TablesInv
    <3>2. Target[w] = Table(Target[w].cols, Target[w].keys)
      BY TargetTables
    <3>3. QED
      BY <1>1, <3>1, <3>2
  <2>3. \A u \in AlteredTables \cap DOMAIN tables' : AlteredInv(u, tables'[u])
    <3>1. \A u \in AlteredTables \cap DOMAIN tables : AlteredInv(u, tables[u])
      BY DEF TablesKept, TablesInv
    <3>2. w \in AlteredTables => AlteredInv(w, tables'[w])
      BY <1>1, <1>2, FinalTable
    <3>3. QED
      BY <1>1, <3>1, <3>2
  <2>4. QED
    BY <2>1, <2>2, <2>3 DEF TablesInv
<1>5. RenamedInv'
  <2>1. SUFFICES ASSUME NEW u \in RenamedTables, NewName(u) \in DOMAIN tables'
                 PROVE  u \notin DOMAIN tables' /\ Ready(u, tables'[NewName(u)])
    BY DEF RenamedInv
  <2>2. CASE NewName(u) = w
    <3>1. tables'[NewName(u)] = Final(u)
      BY <1>1, <2>2 DEF Final
    <3>2. Ready(u, Final(u))
      BY FinalTable DEF AlteredTables
    <3>3. QED
      BY <1>1, <1>3, <2>2, <3>1, <3>2
  <2>3. CASE NewName(u) # w
    BY <1>1, <1>3, <2>1, <2>3 DEF TablesKept, RenamedInv
  <2>4. QED
    BY <2>2, <2>3
<1>6. CreatedInv'
  BY <1>1 DEF TablesKept, CreatedInv
<1>7. MountsInv'
  BY <1>1 DEF TablesKept, MountsInv
<1>8. Progress
  <2>1. \A u \in AlteredTables \cap DOMAIN tables' :
          IF u \in DOMAIN tables THEN Nearer(u, tables[u], tables'[u])
                                 ELSE tables'[u] = Final(u)
    BY <1>1, <1>2 DEF Nearer
  <2>2. QED
    BY <1>1, <1>3, <2>1 DEF Progress
<1>9. QED
  BY <1>4, <1>5, <1>6, <1>7, <1>8 DEF TablesKept

\* When all statements for a table are done, it is as db_init would create it.
LEMMA ReadyWhenComplete ==
    ASSUME NEW t \in AlteredTables \cap DOMAIN tables, AlteredInv(t, tables[t]),
           NEW E, Complete(t, E), \A s \in E : Fits(s) /\ Done(s)
    PROVE  Ready(t, tables[t])
<1>1. t # "" /\ Coherent(t)
  BY AlteredTablesAre, TablesAreCoherent
<1>2. \A s \in E : s.do \in Alters => ~ Required(s)
  BY DEF Done, Alters, DropsColumn, AddsKey
<1>3. \A c \in Gone(t) : c \notin tables[t].cols
  <2>1. SUFFICES ASSUME NEW c \in Gone(t)
                 PROVE  c \notin tables[t].cols
    OBVIOUS
  <2>2. PICK s \in E : s.do = "dropColumn" /\ s.table = t /\ s.test = c
    BY DEF Complete
  <2>3. ~ Required(s)
    BY <1>2, <2>2 DEF Alters, DropsColumn
  <2>4. QED
    BY <2>2, <2>3 DEF Required
<1>4. \A c \in DOMAIN Changed(t) : c \notin tables[t].cols
  <2>1. SUFFICES ASSUME NEW c \in DOMAIN Changed(t)
                 PROVE  c \notin tables[t].cols
    OBVIOUS
  <2>2. PICK s \in E : s.do = "changeColumn" /\ s.table = t /\ s.test = c
    BY DEF Complete
  <2>3. ~ Required(s)
    BY <1>2, <2>2 DEF Alters, DropsColumn
  <2>4. QED
    BY <2>2, <2>3 DEF Required
<1>5. \A c \in Added(t) : c \in tables[t].cols
  <2>1. SUFFICES ASSUME NEW c \in Added(t)
                 PROVE  c \in tables[t].cols
    OBVIOUS
  <2>2. PICK s \in E : s.do = "addColumn" /\ s.table = t /\ s.test = c
    BY DEF Complete
  <2>3. ~ Required(s)
    BY <1>2, <2>2 DEF Alters
  <2>4. QED
    BY <1>1, <2>2, <2>3 DEF Required
<1>6. \A k \in Final(t).keys \ MissingKey(t) : k \in tables[t].keys
  <2>1. SUFFICES ASSUME NEW k \in Final(t).keys \ MissingKey(t)
                 PROVE  k \in tables[t].keys
    OBVIOUS
  <2>2. PICK s \in E : s.do \in AddsKey /\ s.table = t /\ s.test = k
    BY DEF Complete
  <2>3. ~ Required(s)
    BY <1>2, <2>2 DEF Alters
  <2>4. QED
    BY <1>1, <2>2, <2>3 DEF Required, AddsKey
<1>7. "old" \notin tables[t].keys
  <2>1. PICK s \in E : s.do = "dropIndexes" /\ s.table = t
    BY DEF Complete
  <2>2. ~ Required(s) /\ "old" \notin s.on
    BY <1>2, <2>1 DEF Alters, Fits
  <2>3. OtherKeys(s) = {}
    BY <1>1, <2>1, <2>2 DEF Required
  <2>4. QED
    BY <2>1, <2>2, <2>3 DEF OtherKeys
<1>8. tables[t].cols \ Remaining(t) \subseteq Final(t).cols
  BY <1>3, <1>4 DEF AlteredInv
<1>9. Final(t).cols \subseteq tables[t].cols \cup Missing(t)
  <2>1. SUFFICES ASSUME NEW c \in Final(t).cols, c \notin Missing(t), c \notin Added(t),
                        c \notin Kept(t)
                 PROVE  c \in tables[t].cols
    BY <1>5 DEF AlteredInv
  <2>2. PICK d \in DOMAIN Changed(t) : Changed(t)[d] = c
    BY <2>1 DEF Kept
  <2>3. QED
    BY <1>4, <2>2 DEF AlteredInv
<1>10. QED
  BY <1>6, <1>7, <1>8, <1>9 DEF Ready, AlteredInv

\* The statements before the current one have been executed or skipped.
LEMMA DoneBefore ==
    ASSUME NextInv, SchemaInv, ~ Up
    PROVE  \A s \in Before(Migrate, next) : Fits(s) /\ Done(s)
<1>1. next \in 1..Len(Migrate)
  BY CurrentStatement
<1>2. \A i \in 1..Len(Migrate) : Fits(Migrate[i])
  BY ProgramFacts DEF Good
<1>3. \A i \in 1..(next - 1) : i \in 1..Len(Migrate)
  BY <1>1, ProgramFacts
<1>4. QED
  BY <1>2, <1>3 DEF Before, SchemaInv, DoneInv

\* A table of the previous version is gone when db_init creates the new one.
LEMMA RenamedBefore ==
    ASSUME NextInv, SchemaInv, ~ Up,
           Current.do = "createTable", Current.table = "", NEW t \in RenamedTables
    PROVE  t \notin DOMAIN tables
<1>1. PICK s : s = RenameTable(t, NewName(t))
  OBVIOUS
<1>2. s.do = "renameTable" /\ s.table = t
  BY <1>1 DEF RenameTable, Statement
<1>3. s \in Before(Migrate, next)
  BY <1>1, CurrentStatement, ProgramFacts
<1>4. ~ Required(s)
  BY <1>2, <1>3, DoneBefore DEF Done
<1>5. QED
  BY <1>2, <1>4, AlteredTablesAre DEF Required

\* The columns that a key needs are there.
LEMMA KeyColumns ==
    ASSUME NextInv, SchemaInv, ~ Up, Required(Current), Current.do \in AddsKey
    PROVE  Current.on \subseteq tables[Current.table].cols
<1>1. PICK s, t : s = Current /\ t = s.table
  OBVIOUS
<1>2. /\ t \in AlteredTables /\ s.do \in AddsKey /\ Required(s)
      /\ Prepared(Before(Migrate, next), s)
  BY <1>1, CurrentStatement DEF Fits, Alters
<1>3. t # "" /\ t \in DOMAIN tables
  BY <1>1, <1>2, AlteredTablesAre DEF Required
<1>4. AlteredInv(t, tables[t])
  BY <1>2, <1>3 DEF SchemaInv, TablesInv
<1>5. SUFFICES ASSUME NEW c \in s.on
               PROVE  c \in tables[t].cols
  BY <1>1
<1>6. CASE c \in Kept(t)
  BY <1>4, <1>6 DEF AlteredInv
<1>7. CASE \E e \in Before(Migrate, next) :
              e.do = "addColumn" /\ e.table = t /\ e.test = c
  <2>1. PICK e \in Before(Migrate, next) : e.do = "addColumn" /\ e.table = t /\ e.test = c
    BY <1>7
  <2>2. ~ Required(e)
    BY <2>1, DoneBefore DEF Done
  <2>3. QED
    BY <1>3, <2>1, <2>2 DEF Required
<1>8. CASE \E e \in Before(Migrate, next) :
              /\ e.do = "changeColumn" /\ e.table = t /\ e.test \in DOMAIN Changed(t)
              /\ c = Changed(t)[e.test]
  <2>1. PICK e \in Before(Migrate, next) :
              /\ e.do = "changeColumn" /\ e.table = t /\ e.test \in DOMAIN Changed(t)
              /\ c = Changed(t)[e.test]
    BY <1>8
  <2>2. ~ Required(e)
    BY <2>1, DoneBefore DEF Done
  <2>3. e.test \notin tables[t].cols
    BY <1>3, <2>1, <2>2 DEF Required
  <2>4. QED
    BY <1>4, <2>1, <2>3 DEF AlteredInv
<1>9. QED
  BY <1>1, <1>2, <1>5, <1>6, <1>7, <1>8 DEF Prepared

\* The table that a new table refers to is there when it is created.
LEMMA ReferencesExist ==
    ASSUME NextInv, SchemaInv, ~ Up, Required(Current), Current.do = "createTable",
           NEW r \in References(Current.name)
    PROVE  r[1] \in DOMAIN tables
<1>1. PICK s : s = Current
  OBVIOUS
<1>2. /\ s.do = "createTable" /\ Fits(s) /\ Prepared(Before(Migrate, next), s)
      /\ s.table # "" => next <= Len(Restructure)
  BY <1>1, CurrentStatement
<1>3. s.table # "" => s.table \in DOMAIN tables
  BY <1>1 DEF Required
<1>4. CASE r[1] = s.table
  <2>1. s.table # ""
    <3>1. s.name \in DOMAIN Target
      BY <1>2 DEF Fits
    <3>2. r[1] # ""
      BY <1>1, <3>1, ReferencesOfTarget
    <3>3. QED
      BY <1>4, <3>2
  <2>2. QED
    BY <1>3, <1>4, <2>1
<1>5. CASE \E e \in Before(Migrate, next) :
              e.do = "createTable" /\ e.name = r[1] /\ e.table \in {"", s.table}
  <2>1. PICK e \in Before(Migrate, next) :
              e.do = "createTable" /\ e.name = r[1] /\ e.table \in {"", s.table}
    BY <1>5
  <2>2. Done(e)
    BY <2>1, DoneBefore
  <2>3. ~ (e.table # "" /\ next > Len(Restructure) + 1)
    <3>1. PICK n, m : n = next /\ m = Len(Restructure)
      OBVIOUS
    <3>2. n \in Nat /\ m \in Nat
      <4>1. next \in 1..Len(Migrate)
        BY CurrentStatement
      <4>2. QED
        BY <3>1, <4>1, ProgramFacts
    <3>3. e.table # "" => n <= m
      BY <1>2, <2>1, <3>1
    <3>4. n <= m => ~ (n > m + 1)
      BY <3>2
    <3>5. QED
      BY <3>1, <3>3, <3>4
  <2>4. ~ Required(e)
    BY <2>1, <2>2, <2>3 DEF Done
  <2>5. e.table # "" => e.table \in DOMAIN tables
    BY <1>3, <2>1
  <2>6. QED
    BY <2>1, <2>4, <2>5 DEF Required
<1>6. QED
  BY <1>1, <1>2, <1>4, <1>5 DEF Prepared

\* The column that is referred to is there, but for the volumes of auxiliary deployments.
LEMMA ReferencedColumns ==
    ASSUME NextInv, SchemaInv, NEW t \in DOMAIN Target, NEW r \in References(t),
           r[1] \in DOMAIN tables, t # "aux_dep_volume_mounts"
    PROVE  r[2] \in tables[r[1]].cols
<1>1. /\ r[2] = "id"
      /\ r[1] \in {"modules", "dep_configs", "dep_advertisements", "aux_deployments",
                   "deployments"}
  BY ReferencesOfTarget
<1>2. CASE r[1] = "dep_configs"
  <2>1. tables["dep_configs"] = Target["dep_configs"]
    <3>1. "dep_configs" \in DOMAIN Target \ ChangedTables
      BY TargetTables, AlteredTablesAre
    <3>2. \A u \in RenamedTables : "dep_configs" # NewName(u)
      BY Names
    <3>3. QED
      BY <1>2, <3>1, <3>2 DEF SchemaInv, CreatedInv
  <2>2. "id" \in Target["dep_configs"].cols
    BY DepConfigsTable
  <2>3. QED
    BY <1>1, <1>2, <2>1, <2>2
<1>3. CASE r[1] # "dep_configs"
  <2>1. r[1] \in AlteredTables /\ "id" \in Kept(r[1])
    BY <1>1, <1>3, KeptIds
  <2>2. AlteredInv(r[1], tables[r[1]])
    BY <2>1 DEF SchemaInv, TablesInv
  <2>3. QED
    BY <1>1, <2>1, <2>2 DEF AlteredInv
<1>4. QED
  BY <1>2, <1>3

\* What a start may fail on.
LEMMA FailsOnlyThere ==
    ASSUME NextInv, SchemaInv, OverlapInv, ~ Up, Required(Current),
           NEW seen \in Seen(Current), Fails(Current, seen)
    PROVE  \/ <<Current.table, Current.name>> \in refused
           \/ Current.do = "insert" /\ (interrupted \/ \E c \in seen : ~ Copyable(c))
           \/ Current.name = "aux_dep_volume_mounts"
              /\ "id" \notin tables["aux_dep_volumes"].cols
<1> SUFFICES ASSUME <<Current.table, Current.name>> \notin refused
             PROVE  \/ Current.do = "insert" /\ (interrupted \/ \E c \in seen : ~ Copyable(c))
                    \/ Current.name = "aux_dep_volume_mounts"
                       /\ "id" \notin tables["aux_dep_volumes"].cols
  OBVIOUS
<1>1. PICK s : s = Current
  OBVIOUS
<1>2. Required(s) /\ Fails(s, seen) /\ Fits(s) /\ <<s.table, s.name>> \notin refused
  BY <1>1, CurrentStatement
<1>3. CASE s.do = "changeColumn"
  <2>1. /\ s.table \in AlteredTables /\ s.test = s.name
        /\ s.name \in DOMAIN Changed(s.table) /\ s.to = Changed(s.table)[s.name]
    BY <1>2, <1>3 DEF Fits, Alters, DropsColumn
  <2>2. s.table \in DOMAIN tables /\ s.name \in tables[s.table].cols
    BY <1>2, <1>3, <2>1, AlteredTablesAre DEF Required
  <2>3. AlteredInv(s.table, tables[s.table])
    BY <2>1, <2>2 DEF SchemaInv, TablesInv
  <2>4. s.to \notin tables[s.table].cols
    BY <2>1, <2>2, <2>3 DEF AlteredInv
  <2>5. QED
    BY <1>2, <1>3, <2>4 DEF Fails
<1>4. CASE s.do \in AddsKey
  <2>1. s.on \subseteq tables[s.table].cols
    BY <1>1, <1>4, KeyColumns
  <2>2. QED
    BY <1>2, <1>4, <2>1 DEF Fails, AddsKey
<1>5. CASE s.do = "renameTable"
  <2>1. s.table = s.name /\ s.name \in RenamedTables /\ s.to = NewName(s.name)
    BY <1>2, <1>5 DEF Fits
  <2>2. s.name \in DOMAIN tables
    BY <1>2, <2>1, AlteredTablesAre DEF Required
  <2>3. s.to \in DOMAIN tables
    BY <1>2, <1>5 DEF Fails
  <2>4. QED
    BY <2>1, <2>2, <2>3 DEF SchemaInv, RenamedInv
<1>6. CASE s.do = "insert"
  <2>1. (\E c \in seen : ~ Copyable(c)) \/ Keys(rows[s.name]) \cap Keys(rows[s.to]) # {}
    <3>1. seen \subseteq rows[s.name]
      BY <1>1, <1>6 DEF Seen, Copying
    <3>2. Keys(seen) \subseteq Keys(rows[s.name])
      BY <3>1 DEF Keys
    <3>3. QED
      BY <1>2, <1>6, <3>2 DEF Fails
  <2>2. s.name \in Source /\ s = Copy(s.name)
    BY <1>2, <1>6 DEF Fits
  <2>3. s.name \in {"configs", "list_configs"} /\ s.to = "dep_configs"
    <3>1. PICK t : t = s.name
      OBVIOUS
    <3>2. CASE t = "aux_containers"
      BY <1>6, <2>2, <3>1, <3>2, CopyOf
    <3>3. CASE t # "aux_containers"
      BY <2>2, <3>1, <3>3, CopyOf DEF Source
    <3>4. QED
      BY <3>2, <3>3
  <2>4. interrupted \/ \E c \in seen : ~ Copyable(c)
    BY <1>1, <1>6, <2>1, <2>3 DEF OverlapInv
  <2>5. QED
    BY <1>1, <1>6, <2>4
<1>7. CASE s.do = "createTable"
  <2>1. PICK r \in References(s.name) :
              r[1] \notin DOMAIN tables \/ r[2] \notin tables[r[1]].cols
    BY <1>2, <1>7 DEF Fails
  <2>2. r[1] \in DOMAIN tables
    BY <1>1, <1>7, <2>1, ReferencesExist
  <2>3. s.name \in DOMAIN Target
    BY <1>2, <1>7 DEF Fits
  <2>4. s.name = "aux_dep_volume_mounts"
    BY <2>1, <2>2, <2>3, ReferencedColumns
  <2>5. r[1] = "aux_dep_volumes" /\ r[2] = "id"
    <3>1. CASE r[1] = "aux_dep_volumes"
      BY <2>1, <2>3, <3>1, ReferencesOfTarget
    <3>2. CASE r[1] # "aux_dep_volumes"
      <4>1. r[1] = "aux_deployments" /\ r[2] = "id"
        <5>1. r = <<"aux_dep_volumes", "id">> \/ r = <<"aux_deployments", "id">>
          BY <2>1, <2>4, ReferencesOfMounts
        <5>2. QED
          BY <3>2, <5>1
      <4>2. "aux_deployments" \in AlteredTables /\ "id" \in Kept("aux_deployments")
        BY KeptIds
      <4>3. AlteredInv("aux_deployments", tables["aux_deployments"])
        BY <2>2, <4>1, <4>2 DEF SchemaInv, TablesInv
      <4>4. QED
        BY <2>1, <2>2, <4>1, <4>2, <4>3 DEF AlteredInv
    <3>3. QED
      BY <3>1, <3>2
  <2>6. QED
    BY <1>1, <2>1, <2>2, <2>4, <2>5
<1>8. CASE s.do \in {"dropColumn", "addColumn", "dropIndexes", "dropTable", "update"}
  BY <1>2, <1>8 DEF Fails
<1>9. QED
  BY <1>2, <1>3, <1>4, <1>5, <1>6, <1>7, <1>8 DEF Fits, Alters, DropsColumn, AddsKey

\* What a statement does to the tables.
LEMMA ExecuteKeepsTables ==
    ASSUME NextInv, SchemaInv, ~ Up, Required(Current), NEW seen, ~ Fails(Current, seen),
           Current.do # "dropIndexes", tables' = NewTables(Current), next' = next + 1
    PROVE  /\ TablesKept' /\ Progress
           /\ \A t \in DroppedTables \cap DOMAIN tables :
                 t \in DOMAIN tables' \/ (Current.do = "dropTable" /\ Current.name = t)
<1>1. PICK s, t : s = Current /\ t = s.table
  OBVIOUS
<1>2. /\ Required(s) /\ ~ Fails(s, seen) /\ Fits(s) /\ tables' = NewTables(s)
      /\ Prepared(Before(Migrate, next), s)
  BY <1>1, CurrentStatement
<1>3. TablesKept
  BY DEF TablesKept, SchemaInv
<1>4. s.do \in Alters => t \in AlteredTables \cap DOMAIN tables
  <2>1. s.do \in Alters => t \in AlteredTables
    BY <1>1, <1>2 DEF Fits
  <2>2. "" \notin AlteredTables
    BY AlteredTablesAre
  <2>3. QED
    BY <1>1, <1>2, <2>1, <2>2 DEF Required
<1>5. ASSUME s.do \in Alters
      PROVE  AlteredInv(t, tables[t]) /\ tables[t] = Table(tables[t].cols, tables[t].keys)
  BY <1>3, <1>4, <1>5 DEF TablesKept, TablesInv
<1>6. ASSUME s.do \in Alters,
             \E b : Keeps(t, tables[t], b) /\ tables' = WithTable(tables, t, b)
      PROVE  TablesKept' /\ Progress /\ DOMAIN tables' = DOMAIN tables
  BY <1>3, <1>4, <1>6, AlterTable
<1>7. CASE s.do = "dropColumn"
  <2>1. s.do \in Alters
    BY <1>7 DEF Alters, DropsColumn
  <2>2. s.name \notin Final(t).cols \cup DOMAIN Changed(t)
    BY <1>1, <1>2, <1>7 DEF Fits
  <2>3. tables' = WithColumns(tables, t, tables[t].cols \ {s.name})
    BY <1>1, <1>2, <1>4, <1>7, <2>1 DEF NewTables, WithColumns
  <2>4. PICK b : b = Table(tables[t].cols \ {s.name}, tables[t].keys)
    OBVIOUS
  <2>5. tables' = WithTable(tables, t, b)
    BY <1>4, <1>5, <2>1, <2>3, <2>4, ExceptTable
  <2>6. Keeps(t, tables[t], b)
    BY <1>4, <1>5, <2>1, <2>2, <2>4, DropColumnKeeps
  <2>7. QED
    BY <1>6, <2>1, <2>5, <2>6
<1>8. CASE s.do = "changeColumn"
  <2>1. s.do \in Alters
    BY <1>8 DEF Alters, DropsColumn
  <2>2. /\ s.test = s.name /\ s.name \in DOMAIN Changed(t) /\ s.to = Changed(t)[s.name]
    BY <1>1, <1>2, <1>8 DEF Fits
  <2>3. tables' = WithColumns(tables, t, (tables[t].cols \ {s.name}) \cup {s.to})
    BY <1>1, <1>2, <1>4, <1>8, <2>1 DEF NewTables, WithColumns
  <2>4. PICK b : b = Table((tables[t].cols \ {s.name}) \cup {s.to}, tables[t].keys)
    OBVIOUS
  <2>5. tables' = WithTable(tables, t, b)
    BY <1>4, <1>5, <2>1, <2>3, <2>4, ExceptTable
  <2>6. s.name \in tables[t].cols
    BY <1>1, <1>2, <1>8, <2>2 DEF Required
  <2>7. Keeps(t, tables[t], b)
    BY <1>4, <1>5, <2>1, <2>2, <2>4, <2>6, ChangeColumnKeeps
  <2>8. QED
    BY <1>6, <2>1, <2>5, <2>7
<1>9. CASE s.do = "addColumn"
  <2>1. s.do \in Alters
    BY <1>9 DEF Alters
  <2>2. s.name \in Added(t)
    BY <1>1, <1>2, <1>9 DEF Fits
  <2>3. tables' = WithColumns(tables, t, tables[t].cols \cup {s.name})
    BY <1>1, <1>2, <1>4, <1>9, <2>1 DEF NewTables, WithColumns
  <2>4. PICK b : b = Table(tables[t].cols \cup {s.name}, tables[t].keys)
    OBVIOUS
  <2>5. tables' = WithTable(tables, t, b)
    BY <1>4, <1>5, <2>1, <2>3, <2>4, ExceptTable
  <2>6. Keeps(t, tables[t], b)
    BY <1>4, <1>5, <2>1, <2>2, <2>4, AddColumnKeeps
  <2>7. QED
    BY <1>6, <2>1, <2>5, <2>6
<1>10. CASE s.do \in AddsKey
  <2>1. s.do \in Alters
    BY <1>10 DEF Alters
  <2>2. s.name \in Final(t).keys
    BY <1>1, <1>2, <1>10 DEF Fits
  <2>3. tables' = WithKeys(tables, t, tables[t].keys \cup {s.name})
    BY <1>1, <1>2, <1>4, <1>10, <2>1 DEF NewTables, AddsKey, WithKeys
  <2>4. PICK b : b = Table(tables[t].cols, tables[t].keys \cup {s.name})
    OBVIOUS
  <2>5. tables' = WithTable(tables, t, b)
    BY <1>4, <1>5, <2>1, <2>3, <2>4, ExceptTable
  <2>6. Keeps(t, tables[t], b)
    BY <1>4, <1>5, <2>1, <2>2, <2>4, AddKeyKeeps
  <2>7. QED
    BY <1>6, <2>1, <2>5, <2>6
<1>11. CASE s.do = "renameTable"
  <2>1. t = s.name /\ t \in RenamedTables /\ s.to = NewName(t)
    BY <1>1, <1>2, <1>11 DEF Fits
  <2>2. t \in AlteredTables \cap DOMAIN tables
    BY <1>1, <1>2, <2>1, AlteredTablesAre DEF Required
  <2>3. NewName(t) \notin DOMAIN tables
    BY <1>2, <1>11, <2>1 DEF Fails
  <2>4. Ready(t, tables[t])
    <3>1. Complete(t, Before(Migrate, next))
      BY <1>2, <1>11, <2>1 DEF Prepared
    <3>2. AlteredInv(t, tables[t])
      BY <1>3, <2>2 DEF TablesKept, TablesInv
    <3>3. QED
      BY <2>2, <3>1, <3>2, DoneBefore, ReadyWhenComplete
  <2>5. tables' = With(Without(t), NewName(t), tables[t])
    BY <1>2, <1>11, <2>1 DEF NewTables
  <2>6. TablesKept' /\ Progress
    BY <1>3, <2>1, <2>2, <2>3, <2>4, <2>5, RenameATable
  <2>7. \A u \in DOMAIN tables \ {t} : u \in DOMAIN tables'
    BY <2>5 DEF With, Without
  <2>8. t \notin DroppedTables
    BY <2>2, Names
  <2>9. QED
    BY <2>6, <2>7, <2>8
<1>12. CASE s.do = "dropTable"
  <2>1. s.name \in DroppedTables /\ tables' = Without(s.name)
    BY <1>2, <1>12 DEF Fits, NewTables
  <2>2. TablesKept' /\ Progress
    BY <1>3, <2>1, DropATable
  <2>3. \A u \in DOMAIN tables \ {s.name} : u \in DOMAIN tables'
    BY <2>1 DEF Without
  <2>4. QED
    BY <1>1, <1>12, <2>2, <2>3
<1>13. CASE s.do \in {"insert", "update"}
  <2>1. tables' = tables
    BY <1>2, <1>13 DEF NewTables
  <2>2. QED
    BY <1>3, <2>1, SameTables
<1>14. CASE s.do = "createTable"
  <2>1. PICK w : w = s.name
    OBVIOUS
  <2>2. /\ w \in DOMAIN Target
        /\ \/ t = ""
           \/ t = "deployments" /\ w \in {"dep_configs", "dep_config_values"}
    BY <1>1, <1>2, <1>14, <2>1 DEF Fits
  <2>3. w \notin DOMAIN tables
    BY <1>2, <1>14, <2>1 DEF Required
  <2>4. \A u \in RenamedTables : w = NewName(u) => u \notin DOMAIN tables
    <3>1. CASE t = ""
      BY <1>1, <1>14, <3>1, RenamedBefore
    <3>2. CASE t # ""
      BY <2>2, <3>2, Names
    <3>3. QED
      BY <3>1, <3>2
  <2>5. w = "aux_dep_volume_mounts" =>
           "aux_dep_volumes" \in DOMAIN tables /\ "id" \in tables["aux_dep_volumes"].cols
    <3>1. SUFFICES ASSUME w = "aux_dep_volume_mounts"
                   PROVE  /\ "aux_dep_volumes" \in DOMAIN tables
                          /\ "id" \in tables["aux_dep_volumes"].cols
      OBVIOUS
    <3>2. PICK r : r = <<"aux_dep_volumes", "id">>
      OBVIOUS
    <3>3. r \in References(s.name)
      BY <2>1, <3>1, <3>2 DEF References
    <3>4. r[1] \in DOMAIN tables /\ r[2] \in tables[r[1]].cols
      BY <1>2, <1>14, <3>3 DEF Fails
    <3>5. QED
      BY <3>2, <3>4
  <2>6. w = "deployments" => next' > Len(Restructure) + 1
    <3>1. PICK n, m : n = next /\ m = Len(Restructure)
      OBVIOUS
    <3>2. n \in Nat /\ m \in Nat
      <4>1. next \in 1..Len(Migrate)
        BY CurrentStatement
      <4>2. QED
        BY <3>1, <4>1, ProgramFacts
    <3>3. w = "deployments" => n > m
      BY <1>1, <1>14, <2>2, <3>1, CurrentStatement
    <3>4. n > m => n + 1 > m + 1
      BY <3>2
    <3>5. QED
      BY <3>1, <3>3, <3>4
  <2>7. tables' = With(tables, w, Target[w])
    BY <1>2, <1>14, <2>1 DEF NewTables
  <2>8. TablesKept' /\ Progress
    BY <1>3, <2>2, <2>3, <2>4, <2>5, <2>6, <2>7, CreateATable
  <2>9. DOMAIN tables \subseteq DOMAIN tables'
    BY <2>7 DEF With
  <2>10. QED
    BY <2>8, <2>9
<1>15. QED
  BY <1>1, <1>2, <1>7, <1>8, <1>9, <1>10, <1>11, <1>12, <1>13, <1>14
     DEF Fits, Alters, DropsColumn

\* An index is dropped.
LEMMA DropIndexKeepsTables ==
    ASSUME NextInv, SchemaInv, DropIndex
    PROVE  TablesKept' /\ Progress /\ DOMAIN tables' = DOMAIN tables
<1>1. PICK s, t : s = Current /\ t = s.table
  OBVIOUS
<1>2. /\ Required(s) /\ Fits(s) /\ s.do = "dropIndexes"
  BY <1>1, CurrentStatement DEF DropIndex
<1>3. TablesKept
  BY DEF TablesKept, SchemaInv
<1>4. t \in AlteredTables \cap DOMAIN tables
  <2>1. t \in AlteredTables
    BY <1>1, <1>2 DEF Fits, Alters
  <2>2. "" \notin AlteredTables
    BY AlteredTablesAre
  <2>3. QED
    BY <1>1, <1>2, <2>1, <2>2 DEF Required
<1>5. AlteredInv(t, tables[t]) /\ tables[t] = Table(tables[t].cols, tables[t].keys)
  BY <1>3, <1>4 DEF TablesKept, TablesInv
<1>6. PICK k \in OtherKeys(s) : tables' = [tables EXCEPT ![t].keys = @ \ {k}]
  BY <1>1 DEF DropIndex
<1>7. k \notin Final(t).keys
  BY <1>1, <1>2 DEF Fits, OtherKeys
<1>8. PICK b : b = Table(tables[t].cols, tables[t].keys \ {k})
  OBVIOUS
<1>9. tables' = WithTable(tables, t, b)
  <2>1. tables' = WithKeys(tables, t, tables[t].keys \ {k})
    BY <1>4, <1>6 DEF WithKeys
  <2>2. QED
    BY <1>4, <1>5, <1>8, <2>1, ExceptTable
<1>10. Keeps(t, tables[t], b)
  BY <1>4, <1>5, <1>7, <1>8, DropKeyKeeps
<1>11. QED
  BY <1>3, <1>4, <1>9, <1>10, AlterTable

\* Every table of the previous version is a table.
LEMMA LegacyRecords ==
    ASSUME NEW order, NEW volumeId
    PROVE  \A t \in DOMAIN Legacy(order, volumeId) :
              Legacy(order, volumeId)[t] = Table(Legacy(order, volumeId)[t].cols,
                                                 Legacy(order, volumeId)[t].keys)
<1>1. SUFFICES ASSUME NEW t \in DOMAIN Legacy(order, volumeId)
               PROVE  \E C, K : Legacy(order, volumeId)[t] = Table(C, K)
  BY TableParts
<1>2. QED
  BY DEF Legacy

\* An altered table of the previous version.
LEMMA LegacyAltered ==
    ASSUME NEW order \in {{}, {"order"}}, NEW volumeId \in {{}, {"id"}}
    PROVE  \A t \in AlteredTables : AlteredInv(t, Legacy(order, volumeId)[t])
<1>1. ASSUME NEW t, t = "aux_configs"
      PROVE  AlteredInv(t, Legacy(order, volumeId)[t])
  <2>1. PICK tab : tab = Legacy(order, volumeId)[t]
    OBVIOUS
  <2>2. /\ tab.cols = {"aux_id", "ref", "value"}
                \cup {"index"}
        /\ tab.keys = {"old"}
    BY <1>1, <2>1 DEF Legacy, Table
  <2>3. AuxConfigsFacts(t)
    BY <1>1, AuxConfigsTable
  <2>4. QED
    BY <1>1, <2>1, <2>2, <2>3 DEF AlteredInv, AuxConfigsFacts, Remaining
<1>2. ASSUME NEW t, t = "aux_labels"
      PROVE  AlteredInv(t, Legacy(order, volumeId)[t])
  <2>1. PICK tab : tab = Legacy(order, volumeId)[t]
    OBVIOUS
  <2>2. /\ tab.cols = {"aux_id", "name", "value"}
                \cup {"index"}
        /\ tab.keys = {"old"}
    BY <1>2, <2>1 DEF Legacy, Table
  <2>3. AuxLabelsFacts(t)
    BY <1>2, AuxLabelsTable
  <2>4. QED
    BY <1>2, <2>1, <2>2, <2>3 DEF AlteredInv, AuxLabelsFacts, Remaining
<1>3. ASSUME NEW t, t = "aux_volumes"
      PROVE  AlteredInv(t, Legacy(order, volumeId)[t])
  <2>1. PICK tab : tab = Legacy(order, volumeId)[t]
    OBVIOUS
  <2>2. /\ tab.cols = {"aux_id", "mnt_point", "name"} \cup volumeId
                \cup {"index"}
        /\ tab.keys = {"old"}
    BY <1>3, <2>1 DEF Legacy, Table
  <2>3. AuxVolumesFacts(t)
    BY <1>3, AuxVolumesTable
  <2>4. QED
    BY <1>3, <2>1, <2>2, <2>3 DEF AlteredInv, AuxVolumesFacts, Remaining
<1>4. ASSUME NEW t, t = "containers"
      PROVE  AlteredInv(t, Legacy(order, volumeId)[t])
  <2>1. PICK tab : tab = Legacy(order, volumeId)[t]
    OBVIOUS
  <2>2. /\ tab.cols = {"dep_id", "ctr_id", "srv_ref", "alias", "order"}
                \cup {"index"}
        /\ tab.keys = {"old"}
    BY <1>4, <2>1 DEF Legacy, Table
  <2>3. ContainersFacts(t)
    BY <1>4, ContainersTable
  <2>4. QED
    BY <1>4, <2>1, <2>2, <2>3 DEF AlteredInv, ContainersFacts, Remaining
<1>5. ASSUME NEW t, t = "host_resources"
      PROVE  AlteredInv(t, Legacy(order, volumeId)[t])
  <2>1. PICK tab : tab = Legacy(order, volumeId)[t]
    OBVIOUS
  <2>2. /\ tab.cols = {"dep_id", "ref", "res_id"}
                \cup {"index"}
        /\ tab.keys = {"old"}
    BY <1>5, <2>1 DEF Legacy, Table
  <2>3. HostResourcesFacts(t)
    BY <1>5, HostResourcesTable
  <2>4. QED
    BY <1>5, <2>1, <2>2, <2>3 DEF AlteredInv, HostResourcesFacts, Remaining
<1>6. ASSUME NEW t, t = "secrets"
      PROVE  AlteredInv(t, Legacy(order, volumeId)[t])
  <2>1. PICK tab : tab = Legacy(order, volumeId)[t]
    OBVIOUS
  <2>2. /\ tab.cols = {"dep_id", "ref", "sec_id", "item", "as_mount", "as_env"}
                \cup {"index"}
        /\ tab.keys = {"old"}
    BY <1>6, <2>1 DEF Legacy, Table
  <2>3. SecretsFacts(t)
    BY <1>6, SecretsTable
  <2>4. QED
    BY <1>6, <2>1, <2>2, <2>3 DEF AlteredInv, SecretsFacts, Remaining
<1>7. ASSUME NEW t, t = "aux_deployments"
      PROVE  AlteredInv(t, Legacy(order, volumeId)[t])
  <2>1. PICK tab : tab = Legacy(order, volumeId)[t]
    OBVIOUS
  <2>2. /\ tab.cols = {"id", "dep_id", "image", "created", "updated", "ref",
              "name", "enabled", "command", "pseudo_tty"}
                \cup {"index"}
        /\ tab.keys = {"old"}
    BY <1>7, <2>1 DEF Legacy, Table
  <2>3. AuxDeploymentsFacts(t)
    BY <1>7, AuxDeploymentsTable
  <2>4. QED
    BY <1>7, <2>1, <2>2, <2>3 DEF AlteredInv, AuxDeploymentsFacts, Remaining
<1>8. ASSUME NEW t, t = "dep_adv_items"
      PROVE  AlteredInv(t, Legacy(order, volumeId)[t])
  <2>1. PICK tab : tab = Legacy(order, volumeId)[t]
    OBVIOUS
  <2>2. /\ tab.cols = {"adv_id", "key", "value"}
                \cup {"index"}
        /\ tab.keys = {"old"}
    BY <1>8, <2>1 DEF Legacy, Table
  <2>3. DepAdvItemsFacts(t)
    BY <1>8, DepAdvItemsTable
  <2>4. QED
    BY <1>8, <2>1, <2>2, <2>3 DEF AlteredInv, DepAdvItemsFacts, Remaining
<1>9. ASSUME NEW t, t = "dep_advertisements"
      PROVE  AlteredInv(t, Legacy(order, volumeId)[t])
  <2>1. PICK tab : tab = Legacy(order, volumeId)[t]
    OBVIOUS
  <2>2. /\ tab.cols = {"id", "dep_id", "mod_id", "origin", "ref", "timestamp"}
                \cup {"index"}
        /\ tab.keys = {"old"}
    BY <1>9, <2>1 DEF Legacy, Table
  <2>3. DepAdvertisementsFacts(t)
    BY <1>9, DepAdvertisementsTable
  <2>4. QED
    BY <1>9, <2>1, <2>2, <2>3 DEF AlteredInv, DepAdvertisementsFacts, Remaining
<1>10. ASSUME NEW t, t = "deployments"
      PROVE  AlteredInv(t, Legacy(order, volumeId)[t])
  <2>1. PICK tab : tab = Legacy(order, volumeId)[t]
    OBVIOUS
  <2>2. /\ tab.cols = {"id", "mod_id", "mod_ver", "name", "dir", "enabled",
              "indirect", "created", "updated"} \cup order
                \cup {"index"}
        /\ tab.keys = {"old"}
    BY <1>10, <2>1 DEF Legacy, Table
  <2>3. DeploymentsFacts(t)
    BY <1>10, DeploymentsTable
  <2>4. QED
    BY <1>10, <2>1, <2>2, <2>3 DEF AlteredInv, DeploymentsFacts, Remaining
<1>11. ASSUME NEW t, t = "modules"
      PROVE  AlteredInv(t, Legacy(order, volumeId)[t])
  <2>1. PICK tab : tab = Legacy(order, volumeId)[t]
    OBVIOUS
  <2>2. /\ tab.cols = {"id", "dir", "modfile", "added", "updated"}
                \cup {"index"}
        /\ tab.keys = {"old"}
    BY <1>11, <2>1 DEF Legacy, Table
  <2>3. ModulesFacts(t)
    BY <1>11, ModulesTable
  <2>4. QED
    BY <1>11, <2>1, <2>2, <2>3 DEF AlteredInv, ModulesFacts, Remaining
<1>12. QED
  BY <1>1, <1>2, <1>3, <1>4, <1>5, <1>6, <1>7, <1>8, <1>9, <1>10, <1>11, AlteredTablesAre

\* The tables of the previous version are as the invariant has them.
LEMMA LegacyTables ==
    ASSUME NEW order \in {{}, {"order"}}, NEW volumeId \in {{}, {"id"}},
           tables = Legacy(order, volumeId)
    PROVE  TablesKept
<1>1. DOMAIN tables = AlteredTables \cup DroppedTables
  BY AlteredTablesAre DEF Legacy, DroppedTables
<1>2. \A t \in DOMAIN tables : tables[t] = Table(tables[t].cols, tables[t].keys)
  BY LegacyRecords
<1>3. \A t \in AlteredTables : AlteredInv(t, tables[t])
  BY LegacyAltered
<1>4. TablesInv
  BY <1>1, <1>2, <1>3 DEF TablesInv
<1>5. \A t \in RenamedTables : NewName(t) \notin DOMAIN tables
  BY <1>1, Names
<1>6. \A t \in DOMAIN tables \cap DOMAIN Target : t \in ChangedTables
  BY <1>1, Names DEF AlteredTables
<1>7. "aux_dep_volume_mounts" \notin DOMAIN tables
  BY <1>1, AlteredTablesAre DEF DroppedTables
<1>8. QED
  BY <1>4, <1>5, <1>6, <1>7 DEF TablesKept, RenamedInv, CreatedInv, MountsInv

\* The tables at the first start.
LEMMA InitialTables ==
    ASSUME MigrationsInit
    PROVE  /\ NextInv /\ SchemaInv
           /\ tables = <<>> \/ {"configs", "list_configs"} \subseteq DOMAIN tables
<1>1. next = 1 /\ interrupted = FALSE
  BY DEF MigrationsInit
<1>2. NextInv
  <2>1. 1 \in 1..(Len(Migrate) + 1)
    BY ProgramFacts
  <2>2. QED
    BY <1>1, <2>1 DEF NextInv
<1>3. DoneInv
  <2>1. Before(Migrate, 1) = {}
    BY DEF Before
  <2>2. QED
    BY <1>1, <2>1 DEF DoneInv
<1>4. CASE tables = <<>>
  <2>1. DOMAIN tables = {}
    BY <1>4
  <2>2. TablesKept
    BY <2>1 DEF TablesKept, TablesInv, RenamedInv, CreatedInv, MountsInv
  <2>3. QED
    BY <1>2, <1>3, <1>4, <2>2 DEF SchemaInv, TablesKept
<1>5. CASE \E order \in {{}, {"order"}}, volumeId \in {{}, {"id"}} :
              tables = Legacy(order, volumeId)
  <2>1. PICK order \in {{}, {"order"}}, volumeId \in {{}, {"id"}} :
              tables = Legacy(order, volumeId)
    BY <1>5
  <2>2. TablesKept
    BY <2>1, LegacyTables
  <2>3. {"configs", "list_configs"} \subseteq DOMAIN tables
    BY <2>1 DEF Legacy
  <2>4. QED
    BY <1>2, <1>3, <2>2, <2>3 DEF SchemaInv, TablesKept
<1>6. QED
  BY <1>4, <1>5 DEF MigrationsInit

-----------------------------------------------------------------------------
(* The rows.                                                               *)

\* The tables whose rows are modelled.
LEMMA TablesOfRows ==
    /\ DOMAIN Nothing = RowTables
    /\ \A t \in RowTables : Nothing[t] = {}
    /\ Source \subseteq RowTables \cap DroppedTables
    /\ DroppedTables \cap RowTables \subseteq Source
    /\ {"configs", "list_configs"} \subseteq Source
  BY DEF Nothing, RowTables, Source, DroppedTables

\* The rows at the first start.
LEMMA InitialRows ==
    ASSUME MigrationsInit
    PROVE  RowsInv /\ rows["dep_configs"] = {} /\ next = 1
<1>1. next = 1
  BY DEF MigrationsInit
<1>2. CASE tables = <<>> /\ rows = Nothing
  <2>1. rows = [t \in RowTables |-> rows[t]] /\ \A t \in RowTables : rows[t] = {}
    <3>1. Nothing = [t \in RowTables |-> Nothing[t]]
      BY DEF Nothing, RowTables
    <3>2. QED
      BY <1>2, <3>1, TablesOfRows
  <2>2. QED
    BY <1>1, <2>1 DEF RowsInv, RowTables
<1>3. CASE /\ \E order \in {{}, {"order"}}, volumeId \in {{}, {"id"}} :
                 tables = Legacy(order, volumeId)
           /\ \E C \in SUBSET Config, L \in SUBSET ListConfig, X \in SUBSET Container :
                 rows = [Nothing EXCEPT !.configs = C, !.list_configs = L,
                                        !.aux_containers = X]
  <2>1. {"configs", "list_configs"} \subseteq DOMAIN tables
    BY <1>3 DEF Legacy
  <2>2. PICK C \in SUBSET Config, L \in SUBSET ListConfig, X \in SUBSET Container :
            rows = [Nothing EXCEPT !.configs = C, !.list_configs = L, !.aux_containers = X]
    BY <1>3
  <2>3. rows = [configs |-> C, list_configs |-> L, aux_containers |-> X,
                dep_configs |-> {}, aux_deployments |-> {}]
    BY <2>2 DEF Nothing
  <2>4. /\ DOMAIN rows = RowTables /\ rows["configs"] = C /\ rows["list_configs"] = L
        /\ rows["aux_containers"] = X /\ rows["dep_configs"] = {}
        /\ rows["aux_deployments"] = {}
    BY <2>3 DEF RowTables
  <2>5. rows = [t \in RowTables |-> rows[t]]
    BY <2>3, <2>4
  <2>6. QED
    BY <1>1, <2>1, <2>4, <2>5 DEF RowsInv
<1>4. QED
  BY <1>2, <1>3 DEF MigrationsInit

\* What a statement does to the rows: it copies those it has read of a table, deletes
\* those of one that has been copied, or leaves them alone.
Copies(t, seen, r, k) ==
    /\ seen \subseteq rows[t]
    /\ t # "aux_containers" => \A c \in seen : Copyable(c)
    /\ r[Copy(t).to] = rows[Copy(t).to] \cup Copied(t, seen)
    /\ \A u \in RowTables : u # Copy(t).to => r[u] = rows[u]
    /\ t \notin k => seen = rows[t]

Drops(t, r) ==
    /\ t \notin cut => Safe(t, rows[t], rows)
    /\ r[t] = {} /\ \A u \in RowTables : u # t => r[u] = rows[u]

Moves(s, r, k) ==
    \/ \E t \in Source : \E seen : s = Copy(t) /\ Copies(t, seen, r, k)
    \/ \E t \in Source : s.do = "dropTable" /\ s.name = t /\ Drops(t, r)
    \/ /\ s.do \notin {"insert", "update"} /\ (s.do = "dropTable" => s.name \notin Source)
       /\ r = rows

\* Every statement is of one of the three kinds.
LEMMA ExecuteMovesRows ==
    ASSUME NextInv, RowsInv, CopiedInv, ~ Up, Required(Current),
           NEW seen \in Seen(Current), ~ Fails(Current, seen),
           NEW r, r = NewRows(Current, seen), NEW k, k = NewCut(Current, seen)
    PROVE  r = [t \in RowTables |-> r[t]] /\ Moves(Current, r, k)
<1>1. PICK s : s = Current
  OBVIOUS
<1>2. Fits(s) /\ Required(s)
  BY <1>1, CurrentStatement
<1>3. rows = [t \in RowTables |-> rows[t]] /\ DOMAIN rows = RowTables
  BY DEF RowsInv
<1>4. CASE s.do \in {"insert", "update"}
  <2>1. PICK t : t = s.name
    OBVIOUS
  <2>2. t \in Source /\ s = Copy(t)
    BY <1>2, <1>4, <2>1 DEF Fits
  <2>3. /\ s.to \in RowTables
        /\ t = "aux_containers" <=> s.do = "update"
    BY <2>2, CopyOf DEF RowTables
  <2>4. r = [rows EXCEPT ![s.to] = rows[s.to] \cup Copied(t, seen)]
    <3>1. CASE t = "aux_containers"
      <4>1. r = [rows EXCEPT ![s.to] = rows[s.to] \cup seen]
        BY <1>1, <2>3, <3>1 DEF NewRows
      <4>2. QED
        BY <3>1, <4>1 DEF Copied
    <3>2. CASE t # "aux_containers"
      <4>1. s.do = "insert"
        BY <1>4, <2>3, <3>2
      <4>2. r = [rows EXCEPT ![s.to] = rows[s.to] \cup {Migrated(c) : c \in seen}]
        BY <1>1, <4>1 DEF NewRows
      <4>3. QED
        BY <3>2, <4>2 DEF Copied
    <3>3. QED
      BY <3>1, <3>2
  <2>5. r[s.to] = rows[s.to] \cup Copied(t, seen) /\ \A u \in RowTables : u # s.to => r[u] = rows[u]
    BY <1>3, <2>3, <2>4
  <2>6. r = [u \in RowTables |-> r[u]]
    BY <1>3, <2>4
  <2>7. seen \subseteq rows[t]
    BY <1>1, <1>4, <2>1 DEF Seen, Copying
  <2>8. t # "aux_containers" => \A c \in seen : Copyable(c)
    BY <1>1, <1>4, <2>3 DEF Fails
  <2>9. t \notin k => seen = rows[t]
    BY <1>1, <1>4, <2>1 DEF NewCut, Copying
  <2>10. Copies(t, seen, r, k)
    BY <2>2, <2>5, <2>7, <2>8, <2>9 DEF Copies
  <2>11. QED
    BY <1>1, <2>2, <2>6, <2>10 DEF Moves
<1>5. CASE s.do = "dropTable" /\ s.name \in Source
  <2>1. PICK t : t = s.name
    OBVIOUS
  <2>2. t \in DOMAIN tables /\ t \in Source /\ t \in RowTables
    <3>1. s.table = s.name /\ s.name # ""
      BY <1>2, <1>5 DEF Fits, Source
    <3>2. QED
      BY <1>2, <1>5, <2>1, <3>1, TablesOfRows DEF Required
  <2>3. t \notin cut => Safe(t, rows[t], rows)
    BY <1>1, <1>5, <2>1, <2>2 DEF CopiedInv
  <2>4. r = [rows EXCEPT ![t] = {}]
    BY <1>1, <1>3, <1>5, <2>1, <2>2 DEF NewRows
  <2>5. r[t] = {} /\ \A u \in RowTables : u # t => r[u] = rows[u]
    BY <1>3, <2>2, <2>4
  <2>6. r = [u \in RowTables |-> r[u]]
    BY <1>3, <2>4
  <2>7. Drops(t, r)
    BY <2>3, <2>5 DEF Drops
  <2>8. QED
    BY <1>1, <1>5, <2>1, <2>2, <2>6, <2>7 DEF Moves
<1>6. CASE s.do \notin {"insert", "update"} /\ ~ (s.do = "dropTable" /\ s.name \in Source)
  <2>1. s.do = "dropTable" => s.name \notin RowTables
    BY <1>2, <1>6, TablesOfRows DEF Fits
  <2>2. r = rows
    BY <1>1, <1>3, <1>6, <2>1 DEF NewRows
  <2>3. QED
    BY <1>1, <1>3, <1>6, <2>2 DEF Moves
<1>7. QED
  BY <1>4, <1>5, <1>6

\* Statement s copies one table only.
LEMMA CopiedTable ==
    ASSUME NEW t \in Source, NEW s, s = Copy(t), NEW r, NEW k, Moves(s, r, k)
    PROVE  \E seen : Copies(t, seen, r, k)
<1>1. s.name = t /\ s.do \in {"insert", "update"}
  BY CopyOf
<1>2. \A u \in Source : s = Copy(u) => u = t
  BY <1>1, CopyOf
<1>3. QED
  BY <1>1, <1>2 DEF Moves

\* A copy is complete, if all rows were read.
LEMMA MovesCopy ==
    ASSUME NEW t \in Source, NEW s, s = Copy(t), NEW r, NEW k, Moves(s, r, k), t \notin k
    PROVE  Safe(t, r[t], r)
<1>1. PICK seen : Copies(t, seen, r, k)
  BY CopiedTable
<1>2. t # Copy(t).to /\ t \in RowTables
  BY CopyOf DEF Source, RowTables
<1>3. seen = rows[t] /\ r[t] = rows[t]
  BY <1>1, <1>2 DEF Copies
<1>4. QED
  BY <1>1, <1>3 DEF Copies, Safe

\* A copied config has the key of the one it is made of.
LEMMA KeysOfCopied ==
    ASSUME NEW t \in Source, t # "aux_containers", NEW R
    PROVE  Keys(Copied(t, R)) \subseteq Keys(R)
<1>1. \A c : Migrated(c).key = c.key
  BY DEF Migrated
<1>2. QED
  BY <1>1 DEF Copied, Keys

\* Configs and list configs have different keys.
LEMMA KeysDiffer ==
    ASSUME RowsInv
    PROVE  Keys(rows["configs"]) \cap Keys(rows["list_configs"]) = {}
<1>1. \A c \in Config : c.key \in ConfigKey
  BY DEF Config
<1>2. \A c \in ListConfig : c.key \in ListConfigKey
  BY DEF ListConfig
<1>3. QED
  BY <1>1, <1>2, MigrationsAssumption DEF RowsInv, Keys

\* Configs are in the table they are moved from and in the one they are moved to only
\* directly after the copy.
LEMMA MovesOverlap ==
    ASSUME RowsInv, OverlapInv, ~ interrupted, NEW s, s = Current, NEW r, NEW k,
           Moves(s, r, k), NEW t \in {"configs", "list_configs"},
           Keys(r[t]) \cap Keys(r["dep_configs"]) # {}
    PROVE  s = Copy(t)
<1>1. \A u \in {"configs", "list_configs"} :
         Keys(rows[u]) \cap Keys(rows["dep_configs"]) # {} => s.do = "dropTable" /\ s.name = u
  BY DEF OverlapInv
<1>2. t \in RowTables /\ "dep_configs" \in RowTables /\ t \in Source
  BY DEF RowTables, Source
<1>3. CASE \E u \in Source : \E seen : s = Copy(u) /\ Copies(u, seen, r, k)
  <2>1. PICK u \in Source : s = Copy(u) /\ \E seen : Copies(u, seen, r, k)
    BY <1>3
  <2>0. PICK seen : Copies(u, seen, r, k)
    BY <2>1
  <2>2. s.do # "dropTable" /\ t # s.to
    BY <2>1, CopyOf
  <2>3. Keys(rows[t]) \cap Keys(rows["dep_configs"]) = {} /\ r[t] = rows[t]
    BY <1>1, <1>2, <2>0, <2>2, <2>1 DEF Copies
  <2>4. CASE u = "aux_containers"
    <3>1. s.to = "aux_deployments"
      BY <2>1, <2>4, CopyOf
    <3>2. r["dep_configs"] = rows["dep_configs"]
      BY <1>2, <2>0, <2>1, <3>1 DEF Copies
    <3>3. QED
      BY <2>3, <3>2
  <2>5. CASE u # "aux_containers" /\ u # t
    <3>1. s.to = "dep_configs" /\ u \in {"configs", "list_configs"}
      BY <2>1, <2>5, CopyOf DEF Source
    <3>2. Keys(rows[t]) \cap Keys(rows[u]) = {}
      BY <2>5, <3>1, KeysDiffer
    <3>3. r["dep_configs"] = rows["dep_configs"] \cup Copied(u, seen) /\ seen \subseteq rows[u]
      BY <2>0, <2>1, <3>1 DEF Copies
    <3>4. Keys(Copied(u, seen)) \subseteq Keys(rows[u])
      <4>1. Keys(Copied(u, seen)) \subseteq Keys(seen)
        BY <2>5, KeysOfCopied
      <4>2. QED
        BY <3>3, <4>1 DEF Keys
    <3>5. Keys(r["dep_configs"]) \subseteq Keys(rows["dep_configs"]) \cup Keys(rows[u])
      BY <3>3, <3>4 DEF Keys
    <3>6. QED
      BY <2>3, <3>2, <3>5
  <2>6. QED
    BY <2>1, <2>4, <2>5
<1>4. CASE \E u \in Source : s.do = "dropTable" /\ s.name = u /\ Drops(u, r)
  <2>1. PICK u \in Source : s.do = "dropTable" /\ s.name = u /\ Drops(u, r)
    BY <1>4
  <2>2. t # u
    BY <2>1 DEF Drops, Keys
  <2>3. "dep_configs" # u
    BY <2>1 DEF Source
  <2>4. r[t] = rows[t] /\ r["dep_configs"] = rows["dep_configs"]
    BY <1>2, <2>1, <2>2, <2>3 DEF Drops
  <2>5. QED
    BY <1>1, <2>1, <2>2, <2>4
<1>5. CASE /\ s.do \notin {"insert", "update"} /\ (s.do = "dropTable" => s.name \notin Source)
           /\ r = rows
  BY <1>1, <1>2, <1>5
<1>6. QED
  BY <1>3, <1>4, <1>5 DEF Moves

\* The rows stay what they are.
LEMMA MovesKeepRows ==
    ASSUME RowsInv, NEW s, s = Current, NEW k, Moves(s, rows', k),
           rows' = [t \in RowTables |-> rows'[t]],
           \A t \in DroppedTables \cap DOMAIN tables :
              t \in DOMAIN tables' \/ (s.do = "dropTable" /\ s.name = t)
    PROVE  RowsInv'
<1>1. SUFFICES ASSUME NEW t \in {"configs", "list_configs"}
               PROVE  /\ rows'[t] \subseteq rows[t]
                      /\ t \notin DOMAIN tables' => rows'[t] = {}
  BY DEF RowsInv
<1>2. t \in RowTables /\ t \in Source /\ t \in DroppedTables
  BY DEF RowTables, Source, DroppedTables
<1>3. t \notin DOMAIN tables => rows[t] = {}
  BY DEF RowsInv
<1>4. CASE \E u \in Source : \E seen : s = Copy(u) /\ Copies(u, seen, rows', k)
  <2>1. PICK u \in Source : s = Copy(u) /\ \E seen : Copies(u, seen, rows', k)
    BY <1>4
  <2>2. s.do # "dropTable" /\ t # s.to
    BY <2>1, CopyOf
  <2>3. rows'[t] = rows[t]
    BY <1>2, <2>1, <2>2 DEF Copies
  <2>4. QED
    BY <1>2, <1>3, <2>2, <2>3
<1>5. CASE \E u \in Source : s.do = "dropTable" /\ s.name = u /\ Drops(u, rows')
  BY <1>2, <1>3, <1>5 DEF Drops
<1>6. CASE /\ s.do \notin {"insert", "update"} /\ (s.do = "dropTable" => s.name \notin Source)
           /\ rows' = rows
  BY <1>2, <1>3, <1>6
<1>7. QED
  BY <1>4, <1>5, <1>6 DEF Moves

\* The statement before the drop of a table of rows copies them.
LEMMA CopyBeforeDrop ==
    ASSUME NEW n \in Nat, NEW s, NEW t \in Source, n \in 1..Len(Migrate), s = Migrate[n],
           s.do = "dropTable", s.name = t
    PROVE  n > 1 /\ Migrate[n - 1] = Copy(t)
  BY ProgramFacts DEF Good, Adjacent

-----------------------------------------------------------------------------
(* The invariant is kept.                                                  *)

\* After a statement the look-up in front of it finds that it is done.
LEMMA ExecutedIsDone ==
    ASSUME NextInv, SchemaInv, ~ Up, Required(Current), NEW seen, ~ Fails(Current, seen),
           Current.do # "dropIndexes", tables' = NewTables(Current), NEW s, s = Current
    PROVE  Done(s)'
<1>1. /\ Fits(s) /\ Required(s) /\ ~ Fails(s, seen) /\ tables' = NewTables(s)
      /\ s.do # "dropIndexes"
  BY CurrentStatement
<1>2. PICK t : t = s.table
  OBVIOUS
<1>3. s.do \in Alters => t \in AlteredTables \cap DOMAIN tables /\ t # ""
  <2>1. s.do \in Alters => t \in AlteredTables
    BY <1>1, <1>2 DEF Fits
  <2>2. "" \notin AlteredTables
    BY AlteredTablesAre
  <2>3. QED
    BY <1>1, <1>2, <2>1, <2>2 DEF Required
<1>4. s.do \in Alters =>
         AlteredInv(t, tables[t]) /\ tables[t] = Table(tables[t].cols, tables[t].keys)
  BY <1>3 DEF SchemaInv, TablesInv
<1>5. \A X : s.do \in Alters /\ tables' = WithColumns(tables, t, X) => tables'[t].cols = X
  <2>1. SUFFICES ASSUME NEW X, s.do \in Alters, tables' = WithColumns(tables, t, X)
                 PROVE  tables'[t].cols = X
    OBVIOUS
  <2>2. tables' = WithTable(tables, t, Table(X, tables[t].keys))
    BY <1>3, <1>4, <2>1, ExceptTable
  <2>3. tables'[t] = Table(X, tables[t].keys)
    BY <1>3, <2>1, <2>2 DEF WithTable
  <2>4. QED
    BY <2>3, TableParts
<1>6. \A X : s.do \in Alters /\ tables' = WithKeys(tables, t, X) => tables'[t].keys = X
  <2>1. SUFFICES ASSUME NEW X, s.do \in Alters, tables' = WithKeys(tables, t, X)
                 PROVE  tables'[t].keys = X
    OBVIOUS
  <2>2. tables' = WithTable(tables, t, Table(tables[t].cols, X))
    BY <1>3, <1>4, <2>1, ExceptTable
  <2>3. tables'[t] = Table(tables[t].cols, X)
    BY <1>3, <2>1, <2>2 DEF WithTable
  <2>4. QED
    BY <2>3, TableParts
<1>7. CASE s.do = "dropColumn"
  <2>1. s.do \in Alters
    BY <1>7 DEF Alters, DropsColumn
  <2>2. s.test \in tables[t].cols /\ s.test \notin Final(t).cols
    <3>1. s.test \notin Final(t).cols
      BY <1>1, <1>2, <1>7 DEF Fits, DropsColumn
    <3>2. QED
      BY <1>1, <1>2, <1>7, <3>1 DEF Required
  <2>3. s.test = s.name
    BY <1>1, <1>2, <1>4, <1>7, <2>1, <2>2 DEF Fits, AlteredInv
  <2>4. tables' = WithColumns(tables, t, tables[t].cols \ {s.name})
    BY <1>1, <1>2, <1>3, <1>7, <2>1 DEF NewTables, WithColumns
  <2>5. s.test \notin tables'[t].cols
    BY <1>5, <2>1, <2>3, <2>4
  <2>6. QED
    BY <1>2, <1>7, <2>5 DEF Done, Required
<1>8. CASE s.do = "changeColumn"
  <2>1. s.do \in Alters
    BY <1>8 DEF Alters, DropsColumn
  <2>2. /\ s.test = s.name /\ s.name \in DOMAIN Changed(t) /\ s.to = Changed(t)[s.name]
        /\ s.test \notin Final(t).cols
    BY <1>1, <1>2, <1>8 DEF Fits, DropsColumn
  <2>3. s.name # s.to
    BY <1>3, <2>1, <2>2, TablesAreCoherent DEF Coherent
  <2>4. tables' = WithColumns(tables, t, (tables[t].cols \ {s.name}) \cup {s.to})
    BY <1>1, <1>2, <1>3, <1>8, <2>1 DEF NewTables, WithColumns
  <2>5. s.test \notin tables'[t].cols
    BY <1>5, <2>1, <2>2, <2>3, <2>4
  <2>6. QED
    BY <1>2, <1>8, <2>5 DEF Done, Required
<1>9. CASE s.do = "addColumn"
  <2>1. s.do \in Alters
    BY <1>9 DEF Alters
  <2>2. s.test = s.name
    BY <1>1, <1>9 DEF Fits
  <2>3. tables' = WithColumns(tables, t, tables[t].cols \cup {s.name})
    BY <1>1, <1>2, <1>3, <1>9, <2>1 DEF NewTables, WithColumns
  <2>4. s.test \in tables'[t].cols
    BY <1>5, <2>1, <2>2, <2>3
  <2>5. QED
    BY <1>2, <1>9, <2>4 DEF Done, Required
<1>10. CASE s.do \in AddsKey
  <2>1. s.do \in Alters
    BY <1>10 DEF Alters
  <2>2. s.test = s.name
    BY <1>1, <1>10 DEF Fits
  <2>3. tables' = WithKeys(tables, t, tables[t].keys \cup {s.name})
    BY <1>1, <1>2, <1>3, <1>10, <2>1 DEF NewTables, WithKeys, AddsKey
  <2>4. s.test \in tables'[t].keys
    BY <1>6, <2>1, <2>2, <2>3
  <2>5. QED
    BY <1>2, <1>10, <2>4 DEF Done, Required, AddsKey
<1>11. CASE s.do = "renameTable"
  <2>1. t = s.name /\ t \in RenamedTables /\ s.to = NewName(t)
    BY <1>1, <1>2, <1>11 DEF Fits
  <2>2. t # s.to /\ t # ""
    BY <2>1, Names, AlteredTablesAre DEF AlteredTables
  <2>3. tables' = With(Without(t), s.to, tables[t])
    BY <1>1, <1>11, <2>1 DEF NewTables
  <2>4. t \notin DOMAIN tables'
    BY <2>2, <2>3 DEF With, Without
  <2>5. QED
    BY <1>2, <2>2, <2>4 DEF Done, Required
<1>12. CASE s.do = "dropTable"
  <2>1. t = s.name /\ t \in DroppedTables /\ tables' = Without(t)
    BY <1>1, <1>2, <1>12 DEF Fits, NewTables
  <2>2. t \notin DOMAIN tables' /\ t # ""
    BY <2>1 DEF Without, DroppedTables
  <2>3. QED
    BY <1>2, <2>2 DEF Done, Required
<1>13. CASE s.do \in {"insert", "update"}
  BY <1>13 DEF Done
<1>14. CASE s.do = "createTable"
  <2>1. tables' = With(tables, s.name, Target[s.name])
    BY <1>1, <1>14 DEF NewTables
  <2>2. s.name \in DOMAIN tables'
    BY <2>1 DEF With
  <2>3. QED
    BY <1>14, <2>2 DEF Done, Required
<1>15. QED
  BY <1>1, <1>7, <1>8, <1>9, <1>10, <1>11, <1>12, <1>13, <1>14
     DEF Fits, Alters, DropsColumn

\* What was done before a step is done after it.
LEMMA DoneInvKept ==
    ASSUME NextInv, SchemaInv, ~ Up, Progress, next' \in {next, next + 1},
           \A s : s = Current /\ next' = next + 1 => Done(s)'
    PROVE  DoneInv'
<1>1. \A s \in Before(Migrate, next) : Done(s)'
  <2>1. next \in 1..Len(Migrate)
    BY CurrentStatement
  <2>2. next \in Nat
    BY <2>1
  <2>3. QED
    BY <2>2, DoneBefore, DoneIsKept
<1>2. Before(Migrate, next') \subseteq Before(Migrate, next) \cup {Current}
  <2>1. CASE next' = next
    BY <2>1
  <2>2. CASE next' = next + 1
    BY <2>2, CurrentStatement
  <2>3. QED
    BY <2>1, <2>2
<1>3. CASE next' = next
  BY <1>1, <1>3 DEF DoneInv
<1>4. CASE next' = next + 1
  BY <1>1, <1>2, <1>4 DEF DoneInv
<1>5. QED
  BY <1>3, <1>4

\* The schema and the rows after a statement.
LEMMA ExecuteKeeps ==
    ASSUME MigrationsInv, Execute
    PROVE  MigrationsInv'
<1>1. /\ NextInv /\ SchemaInv /\ RowsInv /\ CopiedInv /\ OverlapInv /\ ~ Up
      /\ Required(Current) /\ Current.do # "dropIndexes"
      /\ tables' = NewTables(Current) /\ next' = next + 1 /\ interrupted' = interrupted
  BY DEF MigrationsInv, Execute
<1>0. PICK seen \in Seen(Current) :
         /\ ~ Fails(Current, seen) /\ rows' = NewRows(Current, seen)
         /\ cut' = NewCut(Current, seen)
  BY DEF Execute
<1>2. PICK s : s = Current
  OBVIOUS
<1>3. /\ next \in 1..Len(Migrate) /\ Fits(s) /\ Adjacent(Migrate, next, s) /\ Required(s)
  BY <1>1, <1>2, CurrentStatement
<1>4. NextInv'
  <2>1. Len(Migrate) \in Nat
    BY ProgramFacts
  <2>2. QED
    BY <1>1, <1>3, <2>1 DEF NextInv
<1>5. /\ TablesKept' /\ Progress
      /\ \A t \in DroppedTables \cap DOMAIN tables :
            t \in DOMAIN tables' \/ (Current.do = "dropTable" /\ Current.name = t)
  BY <1>0, <1>1, ExecuteKeepsTables
<1>6. SchemaInv'
  <2>1. \A c : c = Current /\ next' = next + 1 => Done(c)'
    BY <1>0, <1>1, ExecutedIsDone
  <2>2. DoneInv'
    BY <1>1, <1>5, <2>1, DoneInvKept
  <2>3. QED
    BY <1>5, <2>2 DEF SchemaInv, TablesKept
<1>7. rows' = [t \in RowTables |-> rows'[t]] /\ Moves(s, rows', cut')
  BY <1>0, <1>1, <1>2, ExecuteMovesRows
<1>8. RowsInv'
  <2>1. \A t \in DroppedTables \cap DOMAIN tables :
           t \in DOMAIN tables' \/ (s.do = "dropTable" /\ s.name = t)
    BY <1>2, <1>5
  <2>2. QED
    BY <1>1, <1>2, <1>7, <2>1, MovesKeepRows
<1>9. CopiedInv'
  <2>1. SUFFICES ASSUME ~ Up', Current'.do = "dropTable", NEW t, t = Current'.name,
                        t \in Source \cap DOMAIN tables', t \notin cut'
                 PROVE  Safe(t, rows'[t], rows')
    BY DEF CopiedInv, Safe
  <2>2. Current = Copy(t)
    <3>1. PICK n, c : n = next + 1 /\ c = Migrate[n]
      OBVIOUS
    <3>2. n \in 1..Len(Migrate)
      BY <1>1, <1>3, <1>4, <2>1, <3>1, ProgramFacts DEF NextInv, Up
    <3>3. Current' = c
      BY <1>1, <3>1 DEF Current
    <3>4. Migrate[n - 1] = Copy(t)
      BY <2>1, <3>1, <3>2, <3>3, CopyBeforeDrop
    <3>5. QED
      BY <1>3, <3>1, <3>4 DEF Current
  <2>3. QED
    BY <1>2, <1>7, <2>1, <2>2, MovesCopy
<1>10. OverlapInv'
  <2>1. SUFFICES ASSUME NEW t \in {"configs", "list_configs"},
                        Keys(rows'[t]) \cap Keys(rows'["dep_configs"]) # {}, ~ interrupted'
                 PROVE  ~ Up' /\ Current'.do = "dropTable" /\ Current'.name = t
    BY DEF OverlapInv, Keys
  <2>2. s = Copy(t)
    BY <1>1, <1>2, <1>7, <2>1, MovesOverlap
  <2>3. next < Len(Migrate) /\ Migrate[next + 1] = DropTable(t)
    <3>1. s.do = "insert" /\ s.name = t
      BY <2>1, <2>2, CopyOf
    <3>2. QED
      BY <1>3, <3>1 DEF Adjacent
  <2>4. ~ Up'
    BY <1>1, <1>3, <2>3 DEF Up
  <2>5. Current' = DropTable(t)
    BY <1>1, <2>3 DEF Current
  <2>6. DropTable(t).do = "dropTable" /\ DropTable(t).name = t
    BY DEF DropTable, Statement
  <2>7. QED
    BY <2>4, <2>5, <2>6
<1>11. QED
  BY <1>4, <1>6, <1>8, <1>9, <1>10 DEF MigrationsInv

\* A statement that is not required is passed over.
LEMMA SkipKeeps ==
    ASSUME MigrationsInv, Skip
    PROVE  MigrationsInv'
<1>1. /\ NextInv /\ SchemaInv /\ RowsInv /\ CopiedInv /\ OverlapInv /\ ~ Up
      /\ ~ Required(Current) /\ next' = next + 1
      /\ tables' = tables /\ rows' = rows
      /\ cut' = cut /\ interrupted' = interrupted
  BY DEF MigrationsInv, Skip
<1>2. PICK s : s = Current
  OBVIOUS
<1>3. /\ next \in 1..Len(Migrate) /\ Fits(s) /\ ~ Required(s)
  BY <1>1, <1>2, CurrentStatement
<1>4. NextInv'
  <2>1. Len(Migrate) \in Nat
    BY ProgramFacts
  <2>2. QED
    BY <1>1, <1>3, <2>1 DEF NextInv
<1>5. TablesKept' /\ Progress
  <2>1. TablesKept
    BY <1>1 DEF SchemaInv, TablesKept
  <2>2. QED
    BY <1>1, <2>1, SameTables
<1>6. SchemaInv'
  <2>1. \A c : c = Current /\ next' = next + 1 => Done(c)'
    BY <1>1 DEF Done, Required, OtherKeys
  <2>2. DoneInv'
    BY <1>1, <1>5, <2>1, DoneInvKept
  <2>3. QED
    BY <1>5, <2>2 DEF SchemaInv, TablesKept
<1>7. RowsInv'
  BY <1>1 DEF RowsInv
<1>8. CopiedInv'
  <2>1. SUFFICES ASSUME ~ Up', Current'.do = "dropTable", NEW t, t = Current'.name,
                        t \in Source \cap DOMAIN tables'
                 PROVE  FALSE
    BY DEF CopiedInv
  <2>2. s = Copy(t)
    <3>1. PICK n, c : n = next + 1 /\ c = Migrate[n]
      OBVIOUS
    <3>2. n \in 1..Len(Migrate)
      BY <1>1, <1>3, <1>4, <2>1, <3>1, ProgramFacts DEF NextInv, Up
    <3>3. Current' = c
      BY <1>1, <3>1 DEF Current
    <3>4. Migrate[n - 1] = Copy(t)
      BY <2>1, <3>1, <3>2, <3>3, CopyBeforeDrop
    <3>5. QED
      BY <1>2, <1>3, <3>1, <3>4 DEF Current
  <2>3. s.table = t /\ s.do \in {"insert", "update"}
    BY <2>2, CopyOf
  <2>4. t \notin DOMAIN tables
    BY <1>3, <2>3 DEF Required
  <2>5. QED
    BY <1>1, <2>1, <2>4
<1>9. OverlapInv'
  <2>1. SUFFICES ASSUME NEW t \in {"configs", "list_configs"},
                        Keys(rows[t]) \cap Keys(rows["dep_configs"]) # {}, ~ interrupted
                 PROVE  FALSE
    BY <1>1 DEF OverlapInv, Keys
  <2>2. s.do = "dropTable" /\ s.name = t /\ s.table = t
    BY <1>1, <1>2, <1>3, <2>1 DEF OverlapInv, Fits
  <2>3. t \notin DOMAIN tables
    BY <1>3, <2>2 DEF Required
  <2>4. QED
    BY <1>1, <2>1, <2>3 DEF RowsInv, Keys
<1>10. QED
  BY <1>4, <1>6, <1>7, <1>8, <1>9 DEF MigrationsInv

\* An index is dropped.
LEMMA DropIndexKeeps ==
    ASSUME MigrationsInv, DropIndex
    PROVE  MigrationsInv'
<1>1. /\ NextInv /\ SchemaInv /\ RowsInv /\ CopiedInv /\ OverlapInv /\ ~ Up
      /\ next' = next /\ rows' = rows /\ Current.do = "dropIndexes"
      /\ cut' = cut /\ interrupted' = interrupted
  BY DEF MigrationsInv, DropIndex
<1>2. TablesKept' /\ Progress /\ DOMAIN tables' = DOMAIN tables
  BY <1>1, DropIndexKeepsTables
<1>3. NextInv'
  BY <1>1 DEF NextInv
<1>4. SchemaInv'
  <2>1. next' # next + 1
    <3>1. next \in 1..Len(Migrate)
      BY <1>1, CurrentStatement
    <3>2. QED
      BY <1>1, <3>1
  <2>2. DoneInv'
    BY <1>1, <1>2, <2>1, DoneInvKept
  <2>3. QED
    BY <1>2, <2>2 DEF SchemaInv, TablesKept
<1>5. RowsInv'
  BY <1>1, <1>2 DEF RowsInv
<1>6. Current'.do = "dropIndexes"
  BY <1>1 DEF Current
<1>7. CopiedInv'
  BY <1>6 DEF CopiedInv
<1>8. OverlapInv'
  BY <1>1 DEF OverlapInv, Keys
<1>9. QED
  BY <1>3, <1>4, <1>5, <1>7, <1>8 DEF MigrationsInv

\* The first function begins again.
LEMMA FromTheStart ==
    ASSUME MigrationsInv, StartAgain
    PROVE  MigrationsInv'
<1>0. /\ next' = 1 /\ tables' = tables /\ rows' = rows /\ cut' = cut
      /\ interrupted' \in BOOLEAN
      /\ \A t \in {"configs", "list_configs"} :
            Keys(rows[t]) \cap Keys(rows["dep_configs"]) # {} => interrupted'
  BY DEF MigrationsInv, NextInv, OverlapInv, StartAgain
<1>1. NextInv /\ SchemaInv /\ RowsInv /\ Len(Migrate) \in Nat
  BY ProgramFacts DEF MigrationsInv
<1>2. NextInv'
  BY <1>0, <1>1 DEF NextInv
<1>3. SchemaInv'
  <2>1. TablesKept'
    BY <1>0, <1>1, SameTables DEF SchemaInv, TablesKept
  <2>2. Before(Migrate, 1) = {}
    BY DEF Before
  <2>3. DoneInv'
    BY <1>0, <2>2 DEF DoneInv
  <2>4. QED
    BY <2>1, <2>3 DEF SchemaInv, TablesKept
<1>4. RowsInv'
  BY <1>0, <1>1 DEF RowsInv
<1>5. CopiedInv'
  <2>1. SUFFICES ASSUME ~ Up', Current'.do = "dropTable", NEW t, t = Current'.name,
                        t \in Source \cap DOMAIN tables'
                 PROVE  FALSE
    BY DEF CopiedInv
  <2>2. PICK c : c = Migrate[1]
    OBVIOUS
  <2>3. Current' = c
    BY <1>0, <2>2 DEF Current
  <2>4. 1 \in 1..Len(Migrate)
    BY ProgramFacts
  <2>5. QED
    BY <2>1, <2>2, <2>3, <2>4, CopyBeforeDrop
<1>6. OverlapInv'
  BY <1>0 DEF OverlapInv, Keys
<1>7. QED
  BY <1>2, <1>3, <1>4, <1>5, <1>6 DEF MigrationsInv

\* The invariant: what is done is not undone.
THEOREM MigrationsInvariant == MigrationsSpec => []MigrationsInv
<1>1. MigrationsInit => MigrationsInv
  <2>1. SUFFICES ASSUME MigrationsInit
                 PROVE  MigrationsInv
    OBVIOUS
  <2>2. NextInv /\ SchemaInv
    BY <2>1, InitialTables
  <2>3. RowsInv /\ rows["dep_configs"] = {} /\ next = 1
    BY <2>1, InitialRows
  <2>4. CopiedInv
    <3>1. PICK c : c = Migrate[1]
      OBVIOUS
    <3>2. Current = c /\ 1 \in 1..Len(Migrate)
      BY <2>3, <3>1, ProgramFacts DEF Current
    <3>3. c.do = "dropTable" => c.name \notin Source
      BY <3>1, <3>2, CopyBeforeDrop
    <3>4. QED
      BY <3>2, <3>3 DEF CopiedInv
  <2>5. OverlapInv
    BY <2>3 DEF OverlapInv, Keys
  <2>6. QED
    BY <2>2, <2>3, <2>4, <2>5 DEF MigrationsInv
<1>2. MigrationsInv /\ [MigrationsNext]_migrationVars => MigrationsInv'
  <2>1. SUFFICES ASSUME MigrationsInv, [MigrationsNext]_migrationVars
                 PROVE  MigrationsInv'
    OBVIOUS
  <2>2. CASE UNCHANGED migrationVars
    BY <2>1, <2>2 DEF migrationVars, MigrationsInv, NextInv, SchemaInv, TablesInv, RenamedInv,
       CreatedInv, MountsInv, DoneInv, Done, Required, OtherKeys, RowsInv, CopiedInv,
       OverlapInv, Up, Current, Safe, Keys
  <2>3. QED
    BY <2>1, <2>2, SkipKeeps, ExecuteKeeps, DropIndexKeeps, FromTheStart
       DEF MigrationsNext, Fail, Restart
<1>3. QED
  BY <1>1, <1>2, PTL DEF MigrationsSpec

\* A copied config keeps its values.
LEMMA MigratedKeeps ==
    ASSUME NEW c \in Config \cup ListConfig, Copyable(c)
    PROVE  KeptAs(c, Migrated(c))
<1>1. PICK d : d = Migrated(c)
  OBVIOUS
<1>2. /\ d.key = c.key /\ d.list = FALSE
      /\ d.vals = IF c.vals[1] = Null THEN <<>> ELSE c.vals
  BY <1>1 DEF Migrated
<1>3. CASE c \in Config
  <2>1. c.list = FALSE /\ c.vals \in {<<v>> : v \in UNION Types \cup {Null}}
    BY <1>3 DEF Config
  <2>2. PICK v : c.list = FALSE /\ c.vals = <<v>>
    BY <2>1
  <2>3. v # Null
    BY <2>2 DEF Copyable
  <2>4. d.vals = <<v>>
    BY <1>2, <2>2, <2>3
  <2>5. d.vals # <<>> /\ Scalar(d) = Scalar(c)
    BY <2>2, <2>4 DEF Scalar
  <2>6. QED
    BY <1>1, <1>2, <2>2, <2>5 DEF KeptAs
<1>4. CASE c \in ListConfig
  <2>1. c.list = TRUE /\ c.vals \in Lists
    BY <1>4 DEF ListConfig
  <2>2. PICK vals \in Lists : c.list = TRUE /\ c.vals = vals
    BY <2>1
  <2>3. PICK T \in Types \cup {{Null}} : \A i \in DOMAIN vals : vals[i] \in T
    BY <2>2 DEF Copyable
  <2>4. CASE vals[1] = Null
    <3>1. 1 \in DOMAIN vals
      BY MigrationsAssumption
    <3>2. T = {Null}
      BY <2>3, <2>4, <3>1, MigrationsAssumption
    <3>3. \A i \in DOMAIN vals : vals[i] = Null
      BY <2>3, <3>2
    <3>4. QED
      BY <1>1, <1>2, <2>2, <3>3 DEF KeptAs
  <2>5. CASE vals[1] # Null
    BY <1>1, <1>2, <2>2, <2>5 DEF KeptAs
  <2>6. QED
    BY <2>4, <2>5
<1>5. QED
  BY <1>3, <1>4

\* Rows that leave a table are where they go to.
NothingIsLost(r) ==
    /\ \A t \in {"configs", "list_configs"} \ cut : \A c \in rows[t] :
          c \in r[t] \/ \E d \in r["dep_configs"] : KeptAs(c, d)
    /\ rows["dep_configs"] \subseteq r["dep_configs"]
    /\ "aux_containers" \notin cut =>
          rows["aux_containers"] \subseteq r["aux_containers"] \cup r["aux_deployments"]
    /\ rows["aux_deployments"] \subseteq r["aux_deployments"]

LEMMA MovesLoseNothing ==
    ASSUME RowsInv, NEW s, NEW r, NEW k, Moves(s, r, k)
    PROVE  NothingIsLost(r)
<1>1. /\ Copy("configs").to = "dep_configs" /\ Copy("list_configs").to = "dep_configs"
      /\ Copy("aux_containers").to = "aux_deployments"
  BY CopyOf
<1>2. CASE \E t \in Source : \E seen : s = Copy(t) /\ Copies(t, seen, r, k)
  <2>1. \A u \in RowTables : rows[u] \subseteq r[u]
    BY <1>2 DEF Copies
  <2>2. QED
    BY <2>1 DEF RowTables, NothingIsLost
<1>3. CASE \E t \in Source : s.do = "dropTable" /\ s.name = t /\ Drops(t, r)
  <2>1. PICK t \in Source : Drops(t, r)
    BY <1>3
  <2>2. /\ rows["dep_configs"] = r["dep_configs"]
        /\ rows["aux_deployments"] = r["aux_deployments"]
        /\ \A u \in Source \ {t} : rows[u] = r[u]
    BY <2>1, TablesOfRows DEF Drops, RowTables, Source
  <2>3. CASE t = "aux_containers"
    <3>1. t \notin cut => rows[t] \subseteq rows["aux_deployments"]
      BY <1>1, <2>1, <2>3 DEF Drops, Safe, Copied
    <3>2. QED
      BY <2>2, <2>3, <3>1 DEF NothingIsLost, Source
  <2>4. CASE t # "aux_containers"
    <3>1. t \notin cut => \A c \in rows[t] :
             Copyable(c) /\ Migrated(c) \in rows["dep_configs"]
      BY <1>1, <2>1, <2>4 DEF Drops, Safe, Copied, Source
    <3>2. rows[t] \subseteq Config \cup ListConfig
      BY <2>4 DEF RowsInv, Source
    <3>3. t \notin cut => \A c \in rows[t] : \E d \in r["dep_configs"] : KeptAs(c, d)
      BY <2>2, <3>1, <3>2, MigratedKeeps
    <3>4. QED
      BY <2>2, <2>4, <3>3 DEF NothingIsLost, Source
  <2>5. QED
    BY <2>3, <2>4
<1>4. CASE r = rows
  BY <1>4 DEF NothingIsLost
<1>5. QED
  BY <1>2, <1>3, <1>4 DEF Moves

-----------------------------------------------------------------------------
(* When all statements are done.                                           *)

\* Every statement has been executed or skipped.
LEMMA AllDone ==
    ASSUME NextInv, SchemaInv, Up
    PROVE  \A s \in Elements(Migrate) : Fits(s) /\ Done(s)
<1>1. next = Len(Migrate) + 1 /\ Len(Migrate) \in Nat
  BY ProgramFacts DEF NextInv, Up
<1>2. Before(Migrate, next) = Elements(Migrate)
  BY <1>1 DEF Before, Elements
<1>3. QED
  BY <1>2, ProgramFacts DEF Good, Elements, SchemaInv, DoneInv

\* The tables are those of db_init.
LEMMA AllTablesAreThere ==
    ASSUME NextInv, SchemaInv, Up
    PROVE  DOMAIN tables = DOMAIN Target
<1>1. \A t \in DOMAIN Target : t \in DOMAIN tables
  <2>1. SUFFICES ASSUME NEW t \in DOMAIN Target
                 PROVE  t \in DOMAIN tables
    OBVIOUS
  <2>2. PICK s : s = CreateTable(t)
    OBVIOUS
  <2>3. s.do = "createTable" /\ s.table = "" /\ s.name = t
    BY <2>2 DEF CreateTable, Statement
  <2>4. Done(s)
    BY <2>2, AllDone, ProgramFacts
  <2>5. QED
    BY <2>3, <2>4 DEF Done, Required
<1>2. \A t \in RenamedTables : t \notin DOMAIN tables
  <2>1. SUFFICES ASSUME NEW t \in RenamedTables
                 PROVE  t \notin DOMAIN tables
    OBVIOUS
  <2>2. NewName(t) \in DOMAIN tables
    BY <1>1, Names
  <2>3. QED
    BY <2>2 DEF SchemaInv, RenamedInv
<1>3. \A t \in DroppedTables : t \notin DOMAIN tables
  <2>1. SUFFICES ASSUME NEW t \in DroppedTables
                 PROVE  t \notin DOMAIN tables
    OBVIOUS
  <2>2. PICK s : s = DropTable(t)
    OBVIOUS
  <2>3. s.do = "dropTable" /\ s.table = t /\ t # ""
    BY <2>2 DEF DropTable, Statement, DroppedTables
  <2>4. Done(s)
    BY <2>2, AllDone, ProgramFacts
  <2>5. QED
    BY <2>3, <2>4 DEF Done, Required
<1>4. DOMAIN tables \subseteq AlteredTables \cup DroppedTables \cup DOMAIN Target
  BY DEF SchemaInv, TablesInv
<1>5. ChangedTables \subseteq DOMAIN Target
  BY Names
<1>6. QED
  BY <1>1, <1>2, <1>3, <1>4, <1>5 DEF AlteredTables

\* Table t is as db_init creates it, but for what is known.
UpToDate(t) ==
    /\ tables[t].cols \ (IF t = "deployments" THEN {"order"} ELSE {}) = Target[t].cols
    /\ Target[t].keys \ tables[t].keys
          \subseteq (IF t = "aux_dep_volumes" THEN {"PRIMARY"} ELSE {})
    /\ tables[t].keys \subseteq Target[t].keys

\* And each of them is up to date.
LEMMA AllTablesAreUpToDate ==
    ASSUME NextInv, SchemaInv, Up, NEW t \in DOMAIN Target
    PROVE  UpToDate(t)
<1>1. DOMAIN tables = DOMAIN Target
  BY AllTablesAreThere
<1>2. CASE t \in ChangedTables
  <2>1. t \in AlteredTables \cap DOMAIN tables /\ NewName(t) = t
    BY <1>1, <1>2, Names DEF AlteredTables
  <2>2. AlteredInv(t, tables[t])
    BY <2>1 DEF SchemaInv, TablesInv
  <2>3. Ready(t, tables[t])
    BY <1>2, <2>1, <2>2, AllDone, ProgramFacts, ReadyWhenComplete
  <2>4. t # "aux_volumes"
    BY <1>2, AlteredTablesAre
  <2>5. Missing(t) = {} /\ MissingKey(t) = {} /\ Final(t) = Target[t]
    BY <2>1, <2>4 DEF Missing, MissingKey, Final
  <2>6. Remaining(t) = IF t = "deployments" THEN {"order"} ELSE {}
    BY DEF Remaining
  <2>7. t = "deployments" => "order" \notin Target[t].cols
    BY <2>5, DeploymentsTable DEF DeploymentsFacts
  <2>8. QED
    BY <2>3, <2>5, <2>6, <2>7 DEF Ready, UpToDate
<1>3. CASE \E u \in RenamedTables : t = NewName(u)
  <2>1. PICK u \in RenamedTables : t = NewName(u)
    BY <1>3
  <2>2. Ready(u, tables[t])
    BY <1>1, <2>1 DEF SchemaInv, RenamedInv
  <2>3. Final(u) = Target[t] /\ t \notin AlteredTables
    BY <2>1, Names DEF Final
  <2>4. t # "deployments" /\ Remaining(u) = {}
    BY <2>1, <2>3, AlteredTablesAre DEF Remaining
  <2>5. tables[t].cols = Target[t].cols
    <3>1. CASE u = "aux_volumes"
      <4>1. t = "aux_dep_volumes"
        BY <2>1, <3>1 DEF NewName
      <4>2. "id" \in tables[t].cols
        <5>1. "aux_dep_volume_mounts" \in DOMAIN tables
          BY <1>1, TargetTables
        <5>2. QED
          BY <4>1, <5>1 DEF SchemaInv, MountsInv
      <4>3. Missing(u) = {"id"} /\ "id" \in Final(u).cols
        BY <3>1, AuxVolumesTable DEF AuxVolumesFacts
      <4>4. QED
        BY <2>2, <2>3, <2>4, <4>2, <4>3 DEF Ready
    <3>2. CASE u # "aux_volumes"
      BY <2>2, <2>3, <2>4, <3>2 DEF Ready, Missing
    <3>3. QED
      BY <3>1, <3>2
  <2>6. MissingKey(u) \subseteq IF t = "aux_dep_volumes" THEN {"PRIMARY"} ELSE {}
    BY <2>1 DEF MissingKey, NewName
  <2>7. QED
    BY <2>2, <2>3, <2>4, <2>5, <2>6 DEF Ready, UpToDate
<1>4. CASE t \notin ChangedTables /\ ~ \E u \in RenamedTables : t = NewName(u)
  <2>1. tables[t] = Target[t]
    BY <1>1, <1>4 DEF SchemaInv, CreatedInv
  <2>2. t # "deployments"
    BY <1>4, AlteredTablesAre
  <2>3. QED
    BY <2>1, <2>2 DEF UpToDate
<1>5. QED
  BY <1>2, <1>3, <1>4

\* No interruption loses a value of a config or the container of an auxiliary
\* deployment (ValuesStayStored): the copy of all rows that were read is complete
\* before their table is dropped, for any rows of the previous version.
THEOREM NoValueIsLost == MigrationsSpec => ValuesStayStored
<1>1. MigrationsInv /\ [MigrationsNext]_migrationVars => [NothingIsLost(rows')]_migrationVars
  <2>1. SUFFICES ASSUME MigrationsInv, MigrationsNext
                 PROVE  NothingIsLost(rows')
    OBVIOUS
  <2>2. CASE rows' = rows
    BY <2>2 DEF NothingIsLost
  <2>3. CASE Execute
    <3>1. NextInv /\ RowsInv /\ CopiedInv /\ ~ Up /\ Required(Current)
      BY <2>1, <2>3 DEF MigrationsInv, Execute
    <3>2. PICK seen \in Seen(Current) :
             /\ ~ Fails(Current, seen) /\ rows' = NewRows(Current, seen)
             /\ cut' = NewCut(Current, seen)
      BY <2>3 DEF Execute
    <3>3. Moves(Current, rows', cut')
      BY <3>1, <3>2, ExecuteMovesRows
    <3>4. QED
      BY <3>1, <3>3, MovesLoseNothing
  <2>4. QED
    BY <2>1, <2>2, <2>3 DEF MigrationsNext, Skip, DropIndex, Fail, Restart, StartAgain
<1>2. [NothingIsLost(rows')]_migrationVars =>
         [/\ \A t \in {"configs", "list_configs"} \ cut : \A c \in rows[t] :
                c \in rows'[t] \/ \E d \in rows'["dep_configs"] : KeptAs(c, d)
          /\ rows["dep_configs"] \subseteq rows'["dep_configs"]
          /\ "aux_containers" \notin cut => rows["aux_containers"] \subseteq
                rows'["aux_containers"] \cup rows'["aux_deployments"]
          /\ rows["aux_deployments"] \subseteq rows'["aux_deployments"]]_migrationVars
  BY DEF NothingIsLost
<1>3. QED
  BY <1>1, <1>2, MigrationsInvariant, PTL DEF MigrationsSpec, ValuesStayStored

\* A start fails only on what the previous version left, or where an earlier one was
\* stopped between a copy and the drop of its table (FailsOnlyWhereKnown): for any
\* rows, any refusals and any interruptions.
THEOREM StartFailsOnlyWhereKnown == MigrationsSpec => []FailsOnlyWhereKnown
<1>1. MigrationsInv => FailsOnlyWhereKnown
  BY FailsOnlyThere DEF MigrationsInv, FailsOnlyWhereKnown
<1>2. QED
  BY <1>1, MigrationsInvariant, PTL

\* The service comes up with the schema of db_init.
THEOREM SchemaBecomesCurrent == MigrationsSpec => []SchemaIsCurrent
<1>1. MigrationsInv => SchemaIsCurrent
  <2>1. SUFFICES ASSUME NextInv, SchemaInv, Up
                 PROVE  /\ DOMAIN tables = DOMAIN Target
                        /\ \A t \in DOMAIN Target : UpToDate(t)
    BY DEF MigrationsInv, SchemaIsCurrent, UpToDate
  <2>2. QED
    BY <2>1, AllTablesAreThere, AllTablesAreUpToDate
<1>2. QED
  BY <1>1, MigrationsInvariant, PTL

==============================================================================
