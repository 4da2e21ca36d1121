--------------------------- MODULE MCModulesChange ---------------------------
(* Instance of ModulesChange for TLC: two modules, one of them in two      *)
(* versions.                                                               *)
EXTENDS ModulesChange, TLC

CONSTANTS m1, m2, p1, p2, p3

TheModuleOf == p1 :> m1 @@ p2 :> m1 @@ p3 :> m2

\* A new version of m1; a repository deleted, or m2 not published any more.
TheOffers == {m1 :> p1 @@ m2 :> p3, m1 :> p2 @@ m2 :> p3, m1 :> p2 @@ m2 :> NoPackage}

=============================================================================
