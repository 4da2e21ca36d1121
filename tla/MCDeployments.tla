----------------------------- MODULE MCDeployments -----------------------------
(* Instance of Deployments for TLC: the second version of the module loses *)
(* a service and replaces its volume.                                      *)
EXTENDS Deployments, TLC

CONSTANTS v1, v2, s1, s2, x1, x2

TheServicesOf == v1 :> {s1, s2} @@ v2 :> {s1}
TheVolumesOf == v1 :> {x1} @@ v2 :> {x2}

\* The run of the liveness properties has one version.
OnlyServicesOf == v1 :> {s1, s2}
OnlyVolumesOf == v1 :> {x1}

UuidSymmetry == Permutations(Uuid)

=============================================================================
