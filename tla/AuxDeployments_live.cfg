SPECIFICATION LiveSpec
CONSTANTS
    Deployment = {d1}
    Uuid = {u1, u2}
    Ref = {}
    MaxFaults = 1
    NoRow = NoRow
    NoCall = NoCall
    NoJob = NoJob
    NotSeen = NotSeen
    NoDeletion = NoDeletion
    NoName = NoName
    Absent = Absent
PROPERTIES
    MonitorSettles
CHECK_DEADLOCK FALSE
