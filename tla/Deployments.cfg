SPECIFICATION Spec
CONSTANTS
    v1 = v1
    v2 = v2
    s1 = s1
    s2 = s2
    x1 = x1
    x2 = x2
    Uuid = {u1, u2}
    Version = {v1, v2}
    Service = {s1, s2}
    Volume = {x1, x2}
    ServicesOf <- TheServicesOf
    VolumesOf <- TheVolumesOf
    MaxFaults = 1
    NoRow = NoRow
    NoCall = NoCall
    NoJob = NoJob
    NotSeen = NotSeen
SYMMETRY UuidSymmetry
INVARIANTS
    EverythingIsAccounted
    DirsAreFree
    EnabledAsWanted
    SuccessIsComplete
PROPERTIES
    VolumesAreKept
CHECK_DEADLOCK FALSE
