----------------------------- MODULE JobsHandler -----------------------------
(***************************************************************************)
(* The jobs handler (pkg/components/handler/jobs): long-running operations *)
(* of the service run as jobs in goroutines of their own.  A slot job also *)
(* occupies a numbered slot from its creation to the end of Job.Done, and  *)
(* a second job of an occupied slot is refused.  A cleanup loop drops jobs *)
(* from the job map and hands their ids to a callback.                     *)
(*                                                                         *)
(* Time is abstracted to one bit per finished job: it is `old' once        *)
(* MaxJobAge has passed since its end.  A job that has not finished has    *)
(* the zero time as its end, which the cleanup takes for an age above any  *)
(* MaxJobAge.                                                              *)
(***************************************************************************)
EXTENDS Naturals, FiniteSets

CONSTANTS
    Job,     \* job ids (UUIDs, each used once)
    Slot,    \* slot numbers
    NoJob,   \* the missing entry of jobSlots
    NoSlot   \* slot of a job that was created by CreateJob

ASSUME JobsHandlerAssumption ==
    /\ NoJob \notin Job
    /\ NoSlot \notin Slot

VARIABLES
    jobSlots,  \* Handler.jobSlots: occupied slots
    jobMap,    \* Handler.jobMap: ids that Job, Jobs and the cleanup can see
    state,     \* how far the goroutine of each job is
    slotOf,    \* slotNum in the done handler of each job
    old,       \* finished jobs whose end lies MaxJobAge or more in the past
    cancelled, \* jobs whose context is done
    oldJobs,   \* ids that cleanup() returned and the callback has not seen
    ctxDone    \* the context given to New and Cleanup is done (shutdown)

jobVars == <<jobSlots, jobMap, state, slotOf, old, cancelled, oldJobs, ctxDone>>

\* "unused": no such job yet; "running": the goroutine works; "ended":
\* setEnd has run; "released": the done handler has run; "done": the
\* deferred cancelFunc of Done has run.
JobState == {"unused", "running", "ended", "released", "done"}

Created == {j \in Job : state[j] # "unused"}
Ended   == {j \in Job : state[j] \in {"ended", "released", "done"}}

\* Between the creation of a job and the return of its done handler.
Unfinished(j) == state[j] \in {"running", "ended"}

Holders(s) == {j \in Job : slotOf[j] = s /\ Unfinished(j)}

JobsTypeOK ==
    /\ jobSlots \in [Slot -> Job \cup {NoJob}]
    /\ jobMap \in SUBSET Job
    /\ state \in [Job -> JobState]
    /\ slotOf \in [Job -> Slot \cup {NoSlot}]
    /\ old \in SUBSET Job
    /\ cancelled \in SUBSET Job
    /\ oldJobs \in SUBSET Job
    /\ ctxDone \in BOOLEAN

JobsInit ==
    /\ jobSlots = [s \in Slot |-> NoJob]
    /\ jobMap = {}
    /\ state = [j \in Job |-> "unused"]
    /\ slotOf = [j \in Job |-> NoSlot]
    /\ old = {}
    /\ cancelled = {}
    /\ oldJobs = {}
    /\ ctxDone = FALSE

-----------------------------------------------------------------------------
(* Creation.  The context of a new job derives from the handler's context. *)

NewJob(j, s) ==
    /\ state[j] = "unused"
    /\ state' = [state EXCEPT ![j] = "running"]
    /\ slotOf' = [slotOf EXCEPT ![j] = s]
    /\ jobMap' = jobMap \cup {j}
    /\ cancelled' = IF ctxDone THEN cancelled \cup {j} ELSE cancelled
    /\ UNCHANGED <<old, oldJobs, ctxDone>>

CreateJob(j) ==
    /\ NewJob(j, NoSlot)
    /\ UNCHANGED jobSlots

CreateSlotJob(j, s) ==
    /\ jobSlots[s] = NoJob
    /\ NewJob(j, s)
    /\ jobSlots' = [jobSlots EXCEPT ![s] = j]

\* CurrentSlotJobs(S) is not empty.
ActiveSlotJob(S) == \E s \in S : jobSlots[s] # NoJob

-----------------------------------------------------------------------------
(* Job.Done, called at the end of the job's goroutine: three steps under   *)
(* three different locks.  slotJobDone deletes the entry of a slot number, *)
(* whatever job it holds.                                                  *)

SetEnd(j) ==
    /\ state[j] = "running"
    /\ state' = [state EXCEPT ![j] = "ended"]
    /\ UNCHANGED <<jobSlots, jobMap, slotOf, old, cancelled, oldJobs, ctxDone>>

\* Faulty variant: the done handler looks the job up and finds it evicted.
SlotJobDoneIfListed(j) ==
    /\ state[j] = "ended"
    /\ state' = [state EXCEPT ![j] = "released"]
    /\ jobSlots' = IF slotOf[j] = NoSlot
                   THEN jobSlots
                   ELSE [jobSlots EXCEPT ![slotOf[j]] = NoJob]
    /\ j \in jobMap
    /\ UNCHANGED <<jobMap, slotOf, old, cancelled, oldJobs, ctxDone>>

SlotJobDone(j) ==
    /\ state[j] = "ended"
    /\ state' = [state EXCEPT ![j] = "released"]
    /\ jobSlots' = IF slotOf[j] = NoSlot
                   THEN jobSlots
                   ELSE [jobSlots EXCEPT ![slotOf[j]] = NoJob]
    /\ UNCHANGED <<jobMap, slotOf, old, cancelled, oldJobs, ctxDone>>

CancelOwnContext(j) ==
    /\ state[j] = "released"
    /\ state' = [state EXCEPT ![j] = "done"]
    /\ cancelled' = cancelled \cup {j}
    /\ UNCHANGED <<jobSlots, jobMap, slotOf, old, oldJobs, ctxDone>>

-----------------------------------------------------------------------------
(* Callers cancel what Jobs(ids) returns: without ids that is every job of *)
(* the map.  The look-up precedes the calls of Cancel, which are harmless  *)
(* for a job that has finished meanwhile.                                  *)

Jobs(ids) == IF ids = {} THEN jobMap ELSE jobMap \cap ids

Cancel(ids) ==
    /\ cancelled' = cancelled \cup Jobs(ids)
    /\ UNCHANGED <<jobSlots, jobMap, state, slotOf, old, oldJobs, ctxDone>>

-----------------------------------------------------------------------------
(* The cleanup loop: evict under the handler's lock, then call back.  When *)
(* the timer and the end of the context are both ready, select takes       *)
(* either.                                                                 *)

\* now.Sub(job.End()) >= MaxJobAge
OldEnough(j) == state[j] = "running" \/ j \in old

Evict ==
    /\ oldJobs = {}
    /\ oldJobs' = {j \in jobMap : OldEnough(j)}
    /\ jobMap' = jobMap \ oldJobs'
    /\ UNCHANGED <<jobSlots, state, slotOf, old, cancelled, ctxDone>>

CallCleanupHandler ==
    /\ oldJobs # {}
    /\ oldJobs' = {}
    /\ UNCHANGED <<jobSlots, jobMap, state, slotOf, old, cancelled, ctxDone>>

\* MaxJobAge passes after the end of a job.
Age(j) ==
    /\ j \in Ended \ old
    /\ old' = old \cup {j}
    /\ UNCHANGED <<jobSlots, jobMap, state, slotOf, cancelled, oldJobs, ctxDone>>

\* The main context ends: every job context derived from it is done, and the
\* cleanup loop may return at its next select.
Shutdown ==
    /\ ~ctxDone
    /\ ctxDone' = TRUE
    /\ cancelled' = cancelled \cup Created
    /\ UNCHANGED <<jobSlots, jobMap, state, slotOf, old, oldJobs>>

-----------------------------------------------------------------------------
(* Specification *)

Finish(j) == SetEnd(j) \/ SlotJobDone(j) \/ CancelOwnContext(j)

JobsNext ==
    \/ \E j \in Job : CreateJob(j)
    \/ \E j \in Job, s \in Slot : CreateSlotJob(j, s)
    \/ \E j \in Job : Finish(j)
    \/ \E ids \in SUBSET Job : Cancel(ids)
    \/ Evict
    \/ CallCleanupHandler
    \/ \E j \in Job : Age(j)
    \/ Shutdown

JobsSpec == JobsInit /\ [][JobsNext]_jobVars

\* The goroutine of a job is scheduled until it returns, the cleanup loop's
\* timer fires again and again until the shutdown, and time passes.  Nobody
\* has to create or cancel a job.
JobsFairness ==
    /\ \A j \in Job : WF_jobVars(Finish(j)) /\ WF_jobVars(Age(j))
    /\ WF_jobVars(~ctxDone /\ Evict) /\ WF_jobVars(CallCleanupHandler)

FairJobsSpec == JobsSpec /\ JobsFairness

-----------------------------------------------------------------------------
(* Properties *)

\* jobSlots is exactly the set of slots whose job has not returned from its
\* done handler: slotJobDone, which deletes by number, never frees a slot
\* under another job, and no slot stays taken by a finished job
\* (CreateSlotJob, slotJobDone).
SlotsMatchHolders ==
    \A s \in Slot : Holders(s) = {jobSlots[s]} \ {NoJob}

\* The slots implement a fair lock: a job that holds a slot releases it, and
\* nobody gets the slot before.
Lock == INSTANCE SlotLock WITH
    holding <- [j \in Job |-> IF Unfinished(j) THEN slotOf[j] ELSE NoSlot],
    begun   <- Created

LockRefinement == Lock!LockSpec
FairLockRefinement == Lock!FairLockSpec

=============================================================================
