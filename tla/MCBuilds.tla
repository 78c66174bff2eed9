------------------------------ MODULE MCBuilds -------------------------------
(* Instances of Builds.                                                     *)
EXTENDS Builds, TLC

Interchangeable == Permutations(Builds) \cup Permutations(Commits)

=============================================================================
