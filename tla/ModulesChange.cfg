SPECIFICATION FairSpec
CONSTANTS
    m1 = m1
    m2 = m2
    p1 = p1
    p2 = p2
    p3 = p3
    Module = {m1, m2}
    Package = {p1, p2, p3}
    NoPackage = NoPackage
    Broken = Broken
    NoRequest = NoRequest
    ModuleOf <- TheModuleOf
    Offers <- TheOffers
    Removable = {m2}
    Deployable = {m2}
INVARIANTS
    DeployedAreInstalled
    PendingRequestIsValid
    UndisturbedExecIsApproved
    ReportIsTrue
PROPERTIES
    DeployedKeepFiles
    ExecConsumesRequest
