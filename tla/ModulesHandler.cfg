SPECIFICATION Spec
CONSTANTS
    m1 = m1
    m2 = m2
    p1 = p1
    p2 = p2
    p3 = p3
    i1 = i1
    i2 = i2
    i3 = i3
    Module = {m1, m2}
    Package = {p1, p2, p3}
    Image = {i1, i2, i3}
    Dir = {d1, d2, d3}
    NoPackage = NoPackage
    NoDir = NoDir
    NoCall = NoCall
    Broken = Broken
    ModuleOf <- TheModuleOf
    ImagesOf <- TheImagesOf
SYMMETRY DirSymmetry
INVARIANTS
    RowsAreIntact
    CacheIsCurrent
    DirsAreAccounted
    ImagesMatchModules
PROPERTIES
    StoreRefinement
