SPECIFICATION MigrationsSpec
CONSTANTS
    v1 = v1
    v2 = v2
    w1 = w1
    Null = Null
    ConfigKey = {c1}
    ListConfigKey = {l1}
    Types <- TheTypes
    Lists <- TheLists
    Container = {x1}
    Refusals <- TheRefusals
INVARIANTS
    SchemaIsCurrent
    FailsOnlyWhereKnown
PROPERTIES
    ValuesStayStored
