---------------------------- MODULE MCRepositories ----------------------------
(* Instance of Repositories for TLC: two sources; the second commit has a  *)
(* module that the first one lacks.                                        *)
EXTENDS Repositories, TLC

CONSTANTS s1, s2, c1, c2, m1, m2

TheModules == c1 :> {m1} @@ c2 :> {m1, m2}

SourceSymmetry == Permutations(Source)

=============================================================================
