------------------------------ MODULE Accounts -------------------------------
(* Users, their default project and their link to GitHub.                   *)
(*                                                                          *)
(* internal/auth inserts a user on the first login and starts a workflow of *)
(* internal/account that gives the user a default project.  Every other     *)
(* request looks a project up by its ref and creates it when it is not      *)
(* there, "default" included.  LinkGitHub writes two tables, one after the  *)
(* other.  What a request does with the project is in Repos and Databases.  *)
EXTENDS Integers

CONSTANTS
  Users,           \* users who log in
  GitHubAccounts,  \* accounts of GitHub
  MaxRequests,     \* requests that are ever made (a bound)
  FaultsHappen,    \* calls may fail, replies be lost and requests die
  NoUser, NoGitHub

ASSUME NobodyOK == NoUser \notin Users /\ NoGitHub \notin GitHubAccounts
ASSUME RequestsOK == MaxRequests \in Nat

Requests == 1..MaxRequests   \* in the order in which they begin

VARIABLES
  user,     \* users that have a row
  github,   \* users.github_id
  creds,    \* github_creds: the account its token is of, and a "repo" scope
  project,  \* the project with ref "default", and whether is_default is set
  setup,    \* SetupAccountWorkflow, one id per user
  req,      \* the next step of each request, and what it works on
  spoilt,   \* users whose set-up a fault or another request met (history)
  mixed     \* users whose link a fault or another link met (history)

accountVars == <<user, github, creds, project, setup, req, spoilt, mixed>>

Kinds == {"none", "login", "link", "repo", "service", "database"}

AccountPcs == {"new", "createUser", "trigger", "findCreds", "createCreds",
               "updateCreds", "createProject", "resolved", "ended"}

Tokens == [of : GitHubAccounts \cup {NoGitHub}, repo : BOOLEAN]

NoToken == [of |-> NoGitHub, repo |-> FALSE]

RequestType(pcs) ==
  [pc : pcs, kind : Kinds, user : Users \cup {NoUser}, token : Tokens]

NewRequest == [pc |-> "new", kind |-> "none", user |-> NoUser, token |-> NoToken]

(* Users who have logged in before have what the set-up gave them.          *)
AccountInit ==
  /\ user \in SUBSET Users
  /\ github = [u \in Users |-> NoGitHub]
  /\ creds = [u \in Users |-> NoToken]
  /\ project = [u \in Users |-> IF u \in user THEN "default" ELSE "none"]
  /\ setup = [u \in Users |-> IF u \in user THEN "closed" ELSE "none"]
  /\ req = [q \in Requests |-> NewRequest]
  /\ spoilt = {} /\ mixed = {}

At(q, pc) == req[q].pc = pc

AtWork(q) == req[q].pc \notin {"new", "ended"}

(* What a request worked on is forgotten when it ends, in success or not.   *)
Goto(q, pc) ==
  req' = [req EXCEPT ![q] =
            IF pc = "ended" THEN [NewRequest EXCEPT !.pc = pc] ELSE [@ EXCEPT !.pc = pc]]

IsNext(q) == At(q, "new") /\ \A r \in 1..(q - 1) : ~At(r, "new")

Begin(q, u, kind, pc) ==
  /\ IsNext(q)
  /\ req' = [req EXCEPT ![q] = [@ EXCEPT !.pc = pc, !.kind = kind, !.user = u]]

Others(q, u, kind) ==
  {r \in Requests \ {q} : AtWork(r) /\ req[r].user = u /\ req[r].kind = kind}

-----------------------------------------------------------------------------
(* The first login.                                                         *)

(* A user who has a row is answered with it.                                *)
GetOrCreateUser(q, u) ==
  /\ u \notin user
  /\ Begin(q, u, "login", "createUser")
  /\ UNCHANGED <<user, github, creds, project, setup, spoilt, mixed>>

(* A second first login finds the row when it inserts its own.              *)
CreateFirebaseUser(q) ==
  /\ At(q, "createUser")
  /\ IF req[q].user \in user
       THEN Goto(q, "ended") /\ UNCHANGED user
       ELSE Goto(q, "trigger") /\ user' = user \cup {req[q].user}
  /\ UNCHANGED <<github, creds, project, setup, spoilt, mixed>>

(* Mutated form: the workflow is not started.                               *)
TriggerNothing(q) ==
  /\ At(q, "trigger")
  /\ Goto(q, "ended")
  /\ UNCHANGED <<user, github, creds, project, setup, spoilt, mixed>>

TriggerAccountSetup(q) ==
  /\ At(q, "trigger")
  /\ setup' = [setup EXCEPT ![req[q].user] = "running"]
  /\ Goto(q, "ended")
  /\ UNCHANGED <<user, github, creds, project, spoilt, mixed>>

(* Mutated form: the project is inserted as any other.                      *)
CreatePlainProject(u) ==
  /\ setup[u] = "running"
  /\ project[u] = "none"
  /\ project' = [project EXCEPT ![u] = "plain"]
  /\ UNCHANGED <<user, github, creds, setup, req, spoilt, mixed>>

(* An attempt of the workflow's only activity; UNIQUE(user_id, ref) refuses *)
(* it when there is a project of that ref.                                  *)
CreateDefaultProject(u) ==
  /\ setup[u] = "running"
  /\ project[u] = "none"
  /\ project' = [project EXCEPT ![u] = "default"]
  /\ UNCHANGED <<user, github, creds, setup, req, spoilt, mixed>>

(* Mutated form: a set-up that fails has a state of its own.                *)
SetupClosesOrFails(u) ==
  /\ setup[u] = "running"
  /\ setup' = [setup EXCEPT ![u] = IF project[u] = "default" THEN "closed" ELSE "failed"]
  /\ UNCHANGED <<user, github, creds, project, req, spoilt, mixed>>

(* The attempt is reported, or the third has failed: of itself, or because  *)
(* an earlier one, or another request, has left a project.                  *)
SetupCloses(u) ==
  /\ setup[u] = "running"
  /\ \/ project[u] # "none" /\ UNCHANGED spoilt
     \/ FaultsHappen /\ spoilt' = spoilt \cup {u}
  /\ setup' = [setup EXCEPT ![u] = "closed"]
  /\ UNCHANGED <<user, github, creds, project, req, mixed>>

-----------------------------------------------------------------------------
(* The project of a request.                                                *)

(* getOrCreateProject with the ref "default", for create_repo,              *)
(* create_resource and create_service of a repository by its name.          *)
GetProjectByRef(q, u, kind) ==
  /\ u \in user
  /\ kind \in {"repo", "database", "service"}
  /\ Begin(q, u, kind, IF project[u] = "none" THEN "createProject" ELSE "resolved")
  /\ UNCHANGED <<user, github, creds, project, setup, spoilt, mixed>>

(* CreateProject leaves is_default FALSE, and fails when the ref is taken.  *)
CreateProject(q) ==
  LET u == req[q].user IN
  /\ At(q, "createProject")
  /\ IF project[u] = "none"
       THEN /\ project' = [project EXCEPT ![u] = "plain"]
            /\ spoilt' = spoilt \cup {u}
            /\ Goto(q, "resolved")
       ELSE Goto(q, "ended") /\ UNCHANGED <<project, spoilt>>
  /\ UNCHANGED <<user, github, creds, setup, mixed>>

-----------------------------------------------------------------------------
(* LinkGitHub.                                                              *)

(* The row of the user; github_id is UNIQUE.                                *)
LinkGitHub(q, u, token) ==
  /\ u \in user
  /\ \A v \in Users \ {u} : github[v] # token.of
  /\ IsNext(q)
  /\ req' = [req EXCEPT ![q] = [pc |-> "findCreds", kind |-> "link", user |-> u,
                                token |-> token]]
  /\ github' = [github EXCEPT ![u] = token.of]
  /\ mixed' = IF Others(q, u, "link") # {} THEN mixed \cup {u} ELSE mixed
  /\ UNCHANGED <<user, creds, project, setup, spoilt>>

(* "preserve repo scope if needed": a token that still works is kept.       *)
KeepsToken(old, new) == old.repo /\ ~new.repo

(* The credentials are read, and updated or created from what was read.     *)
FindCreds(q) ==
  LET u == req[q].user IN
  /\ At(q, "findCreds")
  /\ IF creds[u] = NoToken
       THEN Goto(q, "createCreds") /\ UNCHANGED mixed
       ELSE \/ Goto(q, "updateCreds") /\ UNCHANGED mixed
            \/ /\ KeepsToken(creds[u], req[q].token)
               /\ req' = [req EXCEPT ![q].pc = "updateCreds", ![q].token = creds[u]]
               /\ mixed' = IF creds[u].of # req[q].token.of THEN mixed \cup {u} ELSE mixed
  /\ UNCHANGED <<user, github, creds, project, setup, spoilt>>

(* One row per user.                                                        *)
CreateGitHubCreds(q) ==
  LET u == req[q].user IN
  /\ At(q, "createCreds")
  /\ Goto(q, "ended")
  /\ creds' = [creds EXCEPT ![u] = IF @ = NoToken THEN req[q].token ELSE @]
  /\ UNCHANGED <<user, github, project, setup, spoilt, mixed>>

(* Mutated form: only the scopes are written.                               *)
UpdateScopes(q) ==
  /\ At(q, "updateCreds")
  /\ creds' = [creds EXCEPT ![req[q].user].repo = req[q].token.repo]
  /\ Goto(q, "ended")
  /\ UNCHANGED <<user, github, project, setup, spoilt, mixed>>

UpdateGitHubOAuthToken(q) ==
  /\ At(q, "updateCreds")
  /\ creds' = [creds EXCEPT ![req[q].user] = req[q].token]
  /\ Goto(q, "ended")
  /\ UNCHANGED <<user, github, project, setup, spoilt, mixed>>

-----------------------------------------------------------------------------
(* A call of the request fails, or its process dies.  (A workflow that does *)
(* not start is only logged.)                                               *)
AccountRequestFails(q) ==
  LET u == req[q].user IN
  /\ FaultsHappen
  /\ AtWork(q)
  /\ req[q].pc \in AccountPcs
  /\ Goto(q, "ended")
  /\ spoilt' = IF At(q, "trigger") THEN spoilt \cup {u} ELSE spoilt
  /\ mixed' = IF req[q].kind = "link" THEN mixed \cup {u} ELSE mixed
  /\ UNCHANGED <<user, github, creds, project, setup>>

AccountStep(q) ==
  \/ CreateFirebaseUser(q) \/ TriggerAccountSetup(q)
  \/ CreateProject(q)
  \/ FindCreds(q) \/ CreateGitHubCreds(q) \/ UpdateGitHubOAuthToken(q)
  \/ AccountRequestFails(q)

AccountNext ==
  \/ \E q \in Requests, u \in Users :
       \/ GetOrCreateUser(q, u)
       \/ \E kind \in Kinds : GetProjectByRef(q, u, kind)
       \/ \E token \in Tokens \ {NoToken} : token.of # NoGitHub /\ LinkGitHub(q, u, token)
  \/ \E q \in Requests : AccountStep(q)
  \/ \E u \in Users : CreateDefaultProject(u) \/ SetupCloses(u)

-----------------------------------------------------------------------------
(* Properties.                                                              *)

AccountTypeOK ==
  /\ user \subseteq Users
  /\ github \in [Users -> GitHubAccounts \cup {NoGitHub}]
  /\ creds \in [Users -> Tokens]
  /\ project \in [Users -> {"none", "plain", "default"}]
  /\ setup \in [Users -> {"none", "running", "closed"}]
  /\ spoilt \subseteq Users /\ mixed \subseteq Users

(* create_service needs a project with is_default set ("default project not *)
(* found for user"): with the first login answered and the set-up closed a  *)
(* user has one, however logins overlap, unless another request took the    *)
(* ref "default" before the set-up came to it, or a fault did away with it. *)
LoggingIn(u) ==
  setup[u] = "running" \/ \E q \in Requests : At(q, "trigger") /\ req[q].user = u

DefaultUnlessTaken ==
  \A u \in user \ spoilt : LoggingIn(u) \/ project[u] = "default"

(* With no link under way, the token in github_creds is of the account that *)
(* the user's row names, unless two links of the user overlapped, one       *)
(* failed on its way, or an older token was kept for its scope.             *)
TokenIsOfLinked ==
  \A u \in user \ mixed :
    \/ \E q \in Requests : AtWork(q) /\ req[q].kind = "link" /\ req[q].user = u
    \/ creds[u].of = github[u]

=============================================================================
