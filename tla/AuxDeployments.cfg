SPECIFICATION OperationsSpec
CONSTANTS
    Deployment = {d1}
    Uuid = {u1, u2, u3}
    Ref = {v1}
    MaxFaults = 1
    NoRow = NoRow
    NoCall = NoCall
    NoJob = NoJob
    NotSeen = NotSeen
    NoDeletion = NoDeletion
    NoName = NoName
    Absent = Absent
SYMMETRY Symmetry
INVARIANTS
    OneContainerPerRow
    SuccessIsComplete
PROPERTIES
    RowsOutliveResources
    MountedVolumesAreKept
CHECK_DEADLOCK FALSE
