------------------------------- MODULE SlotLock -------------------------------
(***************************************************************************)
(* What the job slots promise to the operations of the service: a slot is  *)
(* a lock that a job may take when it begins, that at most one job holds   *)
(* at a time, and that every holder gives back.  A job begins once.        *)
(***************************************************************************)
CONSTANTS Job, Slot, NoSlot

VARIABLES
    holding, \* the slot each job holds
    begun    \* the jobs that have begun

lockVars == <<holding, begun>>

LockInit ==
    /\ holding = [j \in Job |-> NoSlot]
    /\ begun = {}

Begin(j) ==
    /\ j \notin begun
    /\ begun' = begun \cup {j}
    /\ UNCHANGED holding

BeginHolding(j, s) ==
    /\ j \notin begun
    /\ \A k \in Job : holding[k] # s
    /\ begun' = begun \cup {j}
    /\ holding' = [holding EXCEPT ![j] = s]

Release(j) ==
    /\ holding[j] # NoSlot
    /\ holding' = [holding EXCEPT ![j] = NoSlot]
    /\ UNCHANGED begun

LockNext ==
    \E j \in Job : Begin(j) \/ Release(j) \/ \E s \in Slot : BeginHolding(j, s)

LockSpec == LockInit /\ [][LockNext]_lockVars

FairLockSpec == LockSpec /\ \A j \in Job : WF_lockVars(Release(j))

=============================================================================
