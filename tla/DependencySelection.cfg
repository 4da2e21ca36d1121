SPECIFICATION FairSpec
CONSTANTS
    a = a
    b = b
    x = x
    y = y
    r1 = r1
    r2 = r2
    r3 = r3
    c1 = c1
    c2 = c2
    v1 = v1
    v2 = v2
    Module = {a, b, x, y}
    Source = {r1, r2, r3}
    Channel = {c1, c2}
    Version = {v1, v2}
    Repository <- TheRepository
    Catalog <- TheCatalog
    Asked <- TheAsked
    Named <- TheNamed
    NotOffered = NotOffered
    NotInstalled = NotInstalled
    NoSelection = NoSelection
    NoCollection = NoCollection
    NoModule = NoModule
INVARIANTS
    MainComesFirst
    SelectionIsClosed
PROPERTIES
    EnabledWithDependencies
    RequestsEnd
