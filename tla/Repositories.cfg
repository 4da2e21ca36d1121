SPECIFICATION Spec
CONSTANTS
    s1 = s1
    s2 = s2
    c1 = c1
    c2 = c2
    m1 = m1
    m2 = m2
    Source = {s1, s2}
    Priority = {1, 2}
    Commit = {c1, c2}
    Module = {m1, m2}
    ModulesIn <- TheModules
    Missing = Missing
    Damaged = Damaged
SYMMETRY SourceSymmetry
INVARIANTS
    SuccessIsCurrent
    ListedIsServed
