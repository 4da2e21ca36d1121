--------------------------- MODULE MCAuxDeployments ---------------------------
(* Deployments and ids are interchangeable. *)
EXTENDS AuxDeployments, TLC

Symmetry == Permutations(Deployment) \cup Permutations(Uuid)

=============================================================================
