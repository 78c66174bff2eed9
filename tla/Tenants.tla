------------------------------- MODULE Tenants -------------------------------
(* What the requests of users do to their accounts, repositories and        *)
(* databases, all of them together: one set of requests goes on in Accounts *)
(* until its project is known, and then in Repos or Databases.              *)
EXTENDS Repos, Databases

vars == <<accountVars, repoVars, databaseVars>>

Init == AccountInit /\ RepoInit /\ DatabaseInit

Next ==
  \/ AccountNext /\ UNCHANGED <<repoVars, databaseVars>>
  \/ RepoNext /\ UNCHANGED databaseVars
  \/ DatabaseNext /\ UNCHANGED repoVars

Spec == Init /\ [][Next]_vars

(* Every variable has its type.                                             *)
TypeOK ==
  /\ AccountTypeOK /\ RepoTypeOK /\ DatabaseTypeOK
  /\ req \in [Requests -> RequestType(AccountPcs \cup RepoPcs \cup DatabasePcs)]

=============================================================================
