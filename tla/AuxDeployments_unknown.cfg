SPECIFICATION Spec
CONSTANTS
    Deployment = {d1}
    Uuid = {u1, u2}
    Ref = {v1}
    MaxFaults = 0
    NoRow = NoRow
    NoCall = NoCall
    NoJob = NoJob
    NotSeen = NotSeen
    NoDeletion = NoDeletion
    NoName = NoName
    Absent = Absent
PROPERTIES
    UnknownUpdateChangesNothing
CHECK_DEADLOCK FALSE
