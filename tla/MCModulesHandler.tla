--------------------------- MODULE MCModulesHandler ---------------------------
(* Instance of ModulesHandler for TLC: two versions of module m1, one of   *)
(* module m2.  The second version of m1 shares an image with m2.           *)
EXTENDS ModulesHandler, TLC

CONSTANTS m1, m2, p1, p2, p3, i1, i2, i3

TheModuleOf == p1 :> m1 @@ p2 :> m1 @@ p3 :> m2
TheImagesOf == p1 :> {i1} @@ p2 :> {i1, i2} @@ p3 :> {i2, i3}

DirSymmetry == Permutations(Dir)

=============================================================================
