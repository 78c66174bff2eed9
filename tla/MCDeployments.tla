--------------------------- MODULE MCDeployments ---------------------------
(* Deployments on small sets of model values.                              *)
EXTENDS Deployments, TLC

Symmetry ==
  Permutations(Deployments) \cup Permutations(Configs) \cup Permutations(Commits)

=============================================================================
