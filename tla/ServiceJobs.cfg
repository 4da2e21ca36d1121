SPECIFICATION FairSpec
CONSTANTS
    Job = {j1, j2}
    Slot = {0, 1, 2}
    NoJob = NoJob
    NoSlot = NoSlot
    NoOperation = NoOperation
    Operation <- JobOperation
INVARIANTS
    ModulesStableWhileDeploying
    ListedEndHasResult
    OnlyKnownLeaks
PROPERTIES
    ResultsReclaimed
    FairLockRefinement
CHECK_DEADLOCK FALSE
