SPECIFICATION LiveSpec
CONSTANTS
    v1 = v1
    v2 = v2
    s1 = s1
    s2 = s2
    x1 = x1
    x2 = x2
    Uuid = {u1}
    Version = {v1}
    Service = {s1, s2}
    Volume = {x1, x2}
    ServicesOf <- OnlyServicesOf
    VolumesOf <- OnlyVolumesOf
    MaxFaults = 2
    NoRow = NoRow
    NoCall = NoCall
    NoJob = NoJob
    NotSeen = NotSeen
PROPERTIES
    MonitorSettles
CHECK_DEADLOCK FALSE
