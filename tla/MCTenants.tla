------------------------------ MODULE MCTenants ------------------------------
(* Instances of Tenants: every name of a resource is one database.          *)
EXTENDS Tenants, TLC

MCTursoName == [u \in Users |-> [n \in ResourceNames |-> CHOOSE d \in AtTurso : TRUE]]

Interchangeable ==
  Permutations(Users) \cup Permutations(GitHubAccounts) \cup
  Permutations(Usernames) \cup Permutations(ResourceNames)

=============================================================================
