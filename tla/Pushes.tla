------------------------------- MODULE Pushes --------------------------------
(* Pushes to the branch a service is deployed from.                         *)
(*                                                                          *)
(* The platform's own git server (internal/gitserver) takes a snapshot of   *)
(* the refs before and after it has run git receive-pack, and asks for what *)
(* differs; GitHub pushes first and calls the webhook                       *)
(* (internal/webhooks/github.go) later, in any order.  Both are to end in a *)
(* request to deploy one commit (deployments.Service, see Deployments).     *)
EXTENDS Naturals, FiniteSets

CONSTANTS
  Commits,       \* commits that are ever pushed
  Pushers,       \* pushes to the git server in progress at a time (a bound)
  Repush,        \* a commit may become head again (a bound when FALSE)
  FaultsHappen,  \* clients disconnect, deliveries and requests fail
  NoCommit

ASSUME NoCommitOK == NoCommit \notin Commits /\ Repush \in BOOLEAN

VARIABLES
  provider,    \* where the repository is; it never moves
  head,        \* the branch's commit, NoCommit when there is no branch
  push,        \* pushes in progress at the git server
  deliveries,  \* calls of the webhook that GitHub has yet to make
  asked,       \* commits whose deployment was requested
  since,       \* what was head since each commit first was (history)
  dropped      \* commits whose request a fault has lost (history)

pushVars == <<provider, head, push, deliveries, asked, since, dropped>>

MaybeCommit == Commits \cup {NoCommit}

PushType == [pc : {"idle", "snapshot", "receive", "trigger"},
             commit : MaybeCommit, known : MaybeCommit, before : MaybeCommit]

NoPush == [pc |-> "idle", commit |-> NoCommit, known |-> NoCommit, before |-> NoCommit]

PushInit ==
  /\ provider \in {"internal", "github"}
  /\ head = NoCommit
  /\ push = [p \in Pushers |-> NoPush]
  /\ deliveries = {} /\ asked = {}
  /\ since = [c \in Commits |-> {}]
  /\ dropped = {}

Pushed(c) == c \in Commits /\ since[c] # {}

MayBecomeHead(c) == c # head /\ (Repush \/ ~Pushed(c))

MoveHead(c) ==
  /\ head' = c
  /\ since' = [b \in Commits |->
                 IF c # NoCommit /\ (b = c \/ Pushed(b)) THEN since[b] \cup {c} ELSE since[b]]

-----------------------------------------------------------------------------
(* The git server.                                                          *)

(* GET info/refs: the client learns the head and prepares a commit for it,  *)
(* or the removal of the branch.                                            *)
Advertise(p, c) ==
  /\ provider = "internal"
  /\ push[p].pc = "idle"
  /\ MayBecomeHead(c)
  /\ push' = [push EXCEPT ![p] = [NoPush EXCEPT !.pc = "snapshot", !.commit = c,
                                                !.known = head]]
  /\ UNCHANGED <<provider, head, deliveries, asked, since, dropped>>

(* What snapshotRefs says of the branch.  It runs "git for-each-ref" with   *)
(* the repository's path as a pattern for the names of refs, and nothing    *)
(* that makes that repository the one git looks into: outside a repository  *)
(* git fails, which is taken for a repository without refs, and inside      *)
(* another one no ref has the name.  So it never says anything.             *)
SnapshotRefs == NoCommit

(* New and changed branches; removed ones are passed over.                  *)
DiffRefs(before, after) == {after} \ {before, NoCommit}

SnapshotBefore(p) ==
  /\ push[p].pc = "snapshot"
  /\ push' = [push EXCEPT ![p].pc = "receive", ![p].before = SnapshotRefs]
  /\ UNCHANGED <<provider, head, deliveries, asked, since, dropped>>

(* git receive-pack moves the ref when it is still where the client saw it, *)
(* and exits with 0 when it is not.                                         *)
ReceivePack(p) ==
  /\ push[p].pc = "receive"
  /\ push' = [push EXCEPT ![p].pc = "trigger"]
  /\ IF head = push[p].known
       THEN MoveHead(push[p].commit)
       ELSE UNCHANGED <<head, since>>
  /\ UNCHANGED <<provider, deliveries, asked, dropped>>

(* The second snapshot, and RedeployFromInternalGitPush for the service of  *)
(* a branch that differs.                                                   *)
TriggerDeploys(p) ==
  /\ push[p].pc = "trigger"
  /\ asked' = asked \cup DiffRefs(push[p].before, SnapshotRefs)
  /\ push' = [push EXCEPT ![p] = NoPush]
  /\ UNCHANGED <<provider, head, deliveries, since, dropped>>

(* The client goes away, which ends the request's context, or a step of it  *)
(* fails: nothing triggers what was pushed.                                 *)
PushAborts(p) ==
  /\ FaultsHappen
  /\ push[p].pc # "idle"
  /\ dropped' = IF push[p].pc = "trigger" THEN dropped \cup ({push[p].commit} \cap Commits)
                ELSE dropped
  /\ push' = [push EXCEPT ![p] = NoPush]
  /\ UNCHANGED <<provider, head, deliveries, asked, since>>

-----------------------------------------------------------------------------
(* GitHub.                                                                  *)

GitHubPush(c) ==
  /\ provider = "github"
  /\ MayBecomeHead(c)
  /\ MoveHead(c)
  /\ deliveries' = deliveries \cup {c}
  /\ UNCHANGED <<provider, push, asked, dropped>>

(* handlePushWebhook.  A delivery that is made again asks for what was      *)
(* asked for already.                                                       *)
HandlePushWebhook(c) ==
  /\ c \in deliveries
  /\ deliveries' = deliveries \ {c}
  /\ asked' = asked \cup {c}
  /\ UNCHANGED <<provider, head, push, since, dropped>>

(* The delivery is lost, or answered with an error, or with 200 when only   *)
(* the redeployment has failed.                                             *)
DeliveryFails(c) ==
  /\ FaultsHappen
  /\ c \in deliveries
  /\ deliveries' = deliveries \ {c}
  /\ dropped' = dropped \cup {c}
  /\ UNCHANGED <<provider, head, push, asked, since>>

PushStep(p) == SnapshotBefore(p) \/ ReceivePack(p) \/ TriggerDeploys(p)

PushNext ==
  \/ \E p \in Pushers :
       (\E c \in MaybeCommit : Advertise(p, c)) \/ PushStep(p) \/ PushAborts(p)
  \/ \E c \in Commits : GitHubPush(c) \/ HandlePushWebhook(c) \/ DeliveryFails(c)

PushSpec == PushInit /\ [][PushNext]_pushVars

-----------------------------------------------------------------------------
(* Properties.                                                              *)

(* Every variable has its type.                                             *)
PushTypeOK ==
  /\ provider \in {"internal", "github"}
  /\ head \in MaybeCommit
  /\ push \in [Pushers -> PushType]
  /\ deliveries \subseteq Commits /\ asked \subseteq Commits
  /\ since \in [Commits -> SUBSET Commits]
  /\ dropped \subseteq Commits

AtRest == (\A p \in Pushers : push[p].pc = "idle") /\ deliveries = {}

(* "I push, it deploys": with no push or delivery under way, the commit     *)
(* that is head was asked for, unless a fault lost its request.             *)
HeadIsAsked == AtRest => head \in asked \cup dropped \cup {NoCommit}

(* Who keeps that promise: at rest a head that was asked for is GitHub's,   *)
(* and GitHub's head was asked for unless a fault lost the request.         *)
OnlyGitHubAsks ==
  AtRest => /\ head \in asked => provider = "github"
            /\ provider = "github" => head \in asked \cup dropped \cup {NoCommit}

=============================================================================
