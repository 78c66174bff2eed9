-------------------------------- MODULE Repos --------------------------------
(* Repositories of the platform's own git server (internal/internalgit).    *)
(*                                                                          *)
(* create_repo gives the user a git username the first time, which is read, *)
(* checked and set in three statements, then a row under that name and a    *)
(* push token.  One repository name, in the default project, is looked at.  *)
EXTENDS Accounts

CONSTANTS
  Usernames,  \* petnames, with and without a suffix
  MaxRepos,   \* rows that are ever inserted (a bound)
  NoUsername

ASSUME UsernamesOK == NoUsername \notin Usernames /\ MaxRepos \in Nat

RepoIds == 1..MaxRepos

VARIABLES
  username,   \* users.gitea_username
  repo,       \* internal_repos
  token,      \* repositories with a token that is not revoked
  repoReq,    \* the username and the repository a request works with
  renamed,    \* users who had two names picked at a time (history)
  revoked,    \* repositories whose deletion has begun (history)
  answered,   \* repositories whose remote was answered (history)
  refused     \* users who were told they have no default project (history)

historyVars == <<revoked, answered, refused>>
repoVars    == <<username, repo, token, repoReq, renamed, historyVars>>

RepoPcs == {"setUsername", "findRepo", "insertRepo", "createToken",
            "revokeTokens", "deleteRepo", "findDefault"}

RepoType == [state : {"absent", "live", "removed"}, user : Users \cup {NoUser},
             owner : Usernames \cup {NoUsername}]

AbsentRepo == [state |-> "absent", user |-> NoUser, owner |-> NoUsername]

RepoRequestType == [owner : Usernames \cup {NoUsername}, id : RepoIds \cup {0}]

NoRepoRequest == [owner |-> NoUsername, id |-> 0]

RepoInit ==
  /\ username = [u \in Users |-> NoUsername]
  /\ repo = [i \in RepoIds |-> AbsentRepo]
  /\ token = {}
  /\ repoReq = [q \in Requests |-> NoRepoRequest]
  /\ renamed = {} /\ revoked = {} /\ answered = {} /\ refused = {}

LiveRepo(i) == repo[i].state = "live"

(* GetInternalRepoByProjectAndName, in the default project of the user.     *)
RepoOf(u) == {i \in RepoIds : LiveRepo(i) /\ repo[i].user = u}

RepoStep(q, pc, next, work) ==
  /\ At(q, pc)
  /\ Goto(q, next)
  /\ repoReq' = [repoReq EXCEPT ![q] = work]
  /\ UNCHANGED <<user, github, creds, project, setup, spoilt, mixed>>

-----------------------------------------------------------------------------
(* create_repo.                                                             *)

(* Mutated form: a name is picked every time.                               *)
ResolveUsernameAnew(q) ==
  LET u == req[q].user IN
  /\ req[q].kind = "repo"
  /\ \E n \in Usernames :
       /\ \A v \in Users : username[v] # n
       /\ RepoStep(q, "resolved", "setUsername", [owner |-> n, id |-> 0])
  /\ renamed' = IF \E r \in Requests \ {q} : At(r, "setUsername") /\ req[r].user = u
                  THEN renamed \cup {u} ELSE renamed
  /\ UNCHANGED <<username, repo, token, historyVars>>

(* The user is read; one who has no username gets one that is free.         *)
ResolveUsername(q) ==
  LET u == req[q].user IN
  /\ req[q].kind = "repo"
  /\ username[u] = NoUsername
  /\ \E n \in Usernames :
       /\ \A v \in Users : username[v] # n
       /\ RepoStep(q, "resolved", "setUsername", [owner |-> n, id |-> 0])
  /\ renamed' = IF \E r \in Requests \ {q} : At(r, "setUsername") /\ req[r].user = u
                  THEN renamed \cup {u} ELSE renamed
  /\ UNCHANGED <<username, repo, token, historyVars>>

UsernameKnown(q) ==
  LET u == req[q].user IN
  /\ req[q].kind = "repo"
  /\ username[u] # NoUsername
  /\ RepoStep(q, "resolved", "findRepo", [owner |-> username[u], id |-> 0])
  /\ UNCHANGED <<username, repo, token, renamed, historyVars>>

(* Whatever the user's name is by now; gitea_username is UNIQUE.            *)
SetGiteaUsername(q) ==
  LET u == req[q].user IN
  /\ \/ /\ RepoStep(q, "setUsername", "findRepo", repoReq[q])
        /\ \A v \in Users \ {u} : username[v] # repoReq[q].owner
        /\ username' = [username EXCEPT ![u] = repoReq[q].owner]
     \/ /\ RepoStep(q, "setUsername", "ended", NoRepoRequest)
        /\ \E v \in Users \ {u} : username[v] = repoReq[q].owner
        /\ UNCHANGED username
  /\ UNCHANGED <<repo, token, renamed, historyVars>>

(* Mutated form: no new token for a repository that is there.               *)
FindRepoAnswers(q) ==
  /\ \/ \E i \in RepoOf(req[q].user) :
          /\ RepoStep(q, "findRepo", "ended", NoRepoRequest)
          /\ answered' = answered \cup {i}
     \/ /\ RepoOf(req[q].user) = {}
        /\ RepoStep(q, "findRepo", "insertRepo", repoReq[q])
        /\ UNCHANGED answered
  /\ UNCHANGED <<username, repo, token, renamed, revoked, refused>>

(* "If repo with same name already exists in the same project, returns a    *)
(* new token for it."                                                       *)
FindRepo(q) ==
  /\ \/ \E i \in RepoOf(req[q].user) :
          RepoStep(q, "findRepo", "createToken", [repoReq[q] EXCEPT !.id = i])
     \/ /\ RepoOf(req[q].user) = {}
        /\ RepoStep(q, "findRepo", "insertRepo", repoReq[q])
  /\ UNCHANGED <<username, repo, token, renamed, historyVars>>

(* UNIQUE(project_id, name); the slug makes the full name free.             *)
CreateInternalRepo(q) ==
  /\ \/ \E i \in RepoIds :
          /\ RepoOf(req[q].user) = {}
          /\ repo[i].state = "absent" /\ \A j \in 1..(i - 1) : repo[j].state # "absent"
          /\ repo' = [repo EXCEPT ![i] = [state |-> "live", user |-> req[q].user,
                                          owner |-> repoReq[q].owner]]
          /\ RepoStep(q, "insertRepo", "createToken", [repoReq[q] EXCEPT !.id = i])
     \/ /\ RepoOf(req[q].user) # {}
        /\ RepoStep(q, "insertRepo", "ended", NoRepoRequest)
        /\ UNCHANGED repo
  /\ UNCHANGED <<username, token, renamed, historyVars>>

(* A token refers to the row of its repository.                             *)
CreateToken(q) ==
  /\ RepoStep(q, "createToken", "ended", NoRepoRequest)
  /\ IF LiveRepo(repoReq[q].id)
       THEN /\ token' = token \cup {repoReq[q].id}
            /\ answered' = answered \cup {repoReq[q].id}
       ELSE UNCHANGED <<token, answered>>
  /\ UNCHANGED <<username, repo, renamed, revoked, refused>>

-----------------------------------------------------------------------------
(* GetPushToken and DeleteRepo, of a repository found by its full name.     *)

GetPushToken(q, i) ==
  /\ LiveRepo(i)
  /\ Begin(q, repo[i].user, "repo", "createToken")
  /\ repoReq' = [repoReq EXCEPT ![q].id = i]
  /\ UNCHANGED <<user, github, creds, project, setup, spoilt, mixed>>
  /\ UNCHANGED <<username, repo, token, renamed, historyVars>>

DeleteRepo(q, i) ==
  /\ LiveRepo(i)
  /\ Begin(q, repo[i].user, "repo", "revokeTokens")
  /\ repoReq' = [repoReq EXCEPT ![q].id = i]
  /\ revoked' = revoked \cup {i}
  /\ UNCHANGED <<user, github, creds, project, setup, spoilt, mixed>>
  /\ UNCHANGED <<username, repo, token, renamed, answered, refused>>

RevokeTokensByRepoID(q) ==
  /\ RepoStep(q, "revokeTokens", "deleteRepo", repoReq[q])
  /\ token' = token \ {repoReq[q].id}
  /\ UNCHANGED <<username, repo, renamed, historyVars>>

(* The tokens go with the row (ON DELETE CASCADE).                          *)
DeleteInternalRepoByFullName(q) ==
  LET i == repoReq[q].id IN
  /\ RepoStep(q, "deleteRepo", "ended", NoRepoRequest)
  /\ repo' = [repo EXCEPT ![i].state = "removed"]
  /\ token' = token \ {i}
  /\ UNCHANGED <<username, renamed, historyVars>>

-----------------------------------------------------------------------------
(* create_service of the repository, with no project given: the repository  *)
(* is looked up in the project with ref "default", ...                      *)
ResolveInternalRepo(q) ==
  /\ req[q].kind = "service"
  /\ RepoStep(q, "resolved", IF RepoOf(req[q].user) = {} THEN "ended" ELSE "findDefault",
              NoRepoRequest)
  /\ UNCHANGED <<username, repo, token, renamed, historyVars>>

(* ... and the service put into the project with is_default set.            *)
GetDefaultProject(q) ==
  LET u == req[q].user IN
  /\ RepoStep(q, "findDefault", "ended", NoRepoRequest)
  /\ refused' = IF project[u] = "default" THEN refused ELSE refused \cup {u}
  /\ UNCHANGED <<username, repo, token, renamed, revoked, answered>>

RepoRequestFails(q) ==
  /\ FaultsHappen
  /\ req[q].pc \in RepoPcs
  /\ RepoStep(q, req[q].pc, "ended", NoRepoRequest)
  /\ UNCHANGED <<username, repo, token, renamed, historyVars>>

RepoNext ==
  \/ \E q \in Requests :
       \/ ResolveUsername(q) \/ UsernameKnown(q) \/ SetGiteaUsername(q)
       \/ FindRepo(q) \/ CreateInternalRepo(q) \/ CreateToken(q)
       \/ RevokeTokensByRepoID(q) \/ DeleteInternalRepoByFullName(q)
       \/ ResolveInternalRepo(q) \/ GetDefaultProject(q)
       \/ RepoRequestFails(q)
  \/ \E q \in Requests, i \in RepoIds : GetPushToken(q, i) \/ DeleteRepo(q, i)

-----------------------------------------------------------------------------
(* Properties.                                                              *)

RepoTypeOK ==
  /\ username \in [Users -> Usernames \cup {NoUsername}]
  /\ repo \in [RepoIds -> RepoType]
  /\ token \subseteq RepoIds
  /\ repoReq \in [Requests -> RepoRequestType]
  /\ renamed \subseteq Users /\ refused \subseteq Users
  /\ revoked \subseteq RepoIds /\ answered \subseteq RepoIds

(* A repository lies under the username of its owner (and so under nobody   *)
(* else's), through failures and repeated requests; only two first          *)
(* create_repo that overlap may leave it under a name the user has lost.    *)
RepoUnderOwner ==
  \A i \in RepoIds :
    LiveRepo(i) /\ repo[i].user \notin renamed => repo[i].owner = username[repo[i].user]

(* A git remote that was answered can be pushed to until the deletion of    *)
(* its repository begins, whichever requests come in between.               *)
RemoteWorks == \A i \in answered \ revoked : LiveRepo(i) /\ i \in token

(* create_service of a repository that create_repo made does not fail for   *)
(* want of a default project, with the exceptions of DefaultUnlessTaken.    *)
ServiceFindsDefault == refused \subseteq spoilt

=============================================================================
