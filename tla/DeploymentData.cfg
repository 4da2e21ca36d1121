SPECIFICATION Spec
CONSTANTS
    a = a
    b = b
    i1 = i1
    i2 = i2
    i3 = i3
    g1 = g1
    t1 = t1
    c1 = c1
    c2 = c2
    p1 = p1
    p2 = p2
    s1 = s1
    s2 = s2
    u1 = u1
    u2 = u2
    u3 = u3
    r1 = r1
    r2 = r2
    Module = {a, b}
    Id = {u1, u2, u3}
    Type = {t1}
    Item = {i1, i2, i3}
    Global = {g1}
    Content = {c1, c2}
    Path = {p1, p2}
    Ref = {r1, r2}
    SecretId = {s1, s2}
    ConfigSpec <- TheConfigSpec
    FileSpec <- TheFileSpec
    GroupSpec <- TheGroupSpec
    SecretSpec <- TheSecretSpec
    DependsOn <- TheDependsOn
    Input <- TheInput
    GlobalInput <- TheGlobalInput
    Unstorable <- TheUnstorable
    Unusable <- TheUnusable
    MaxFaults = 1
    NoValue = NoValue
    NoContent = NoContent
    NoRow = NoRow
    NoEnv = NoEnv
    NoModule = NoModule
    NoOp = NoOp
SYMMETRY IdSymmetry
INVARIANTS
    EnvironmentIsCurrent
    StoredDataStaysUsable
PROPERTIES
    MisledOnlyWhereKnown
    LateRefusalsAreKnown
