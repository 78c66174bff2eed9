---------------------------- MODULE Deployments ----------------------------
(***************************************************************************)
(* How a service gets deployed: the request handlers of the API process    *)
(* (deployments/service.go), the Temporal workflow each request starts     *)
(* (k8sdeployments/workflows.go), the activity attempts workers run for it *)
(* (activity_status.go, activity_deploy.go) and the deletion of a service, *)
(* over the services and deployments tables and one k8s Deployment object  *)
(* per service.                                                            *)
(*                                                                         *)
(* A deployment id d names four things that share it: the request that     *)
(* allocates it, its row, its workflow "deploy-d" and the activity         *)
(* attempts of that workflow.  Nothing serialises two requests for one     *)
(* service, a cancelled workflow does not wait for the attempt it leaves   *)
(* running, and attempts run at least once.                                *)
(*                                                                         *)
(* Faults (a lost connection, a crashed process, an expired timeout) are   *)
(* drawn from a budget of MaxFaults.                                       *)
(***************************************************************************)
EXTENDS DeploymentTable, Naturals, FiniteSets

CONSTANTS
  Configs,       (* values of a service's mutable configuration            *)
  Commits,       (* commits a push can name                                *)
  MaxAttempts,   (* RetryPolicy.MaximumAttempts of the activities          *)
  MaxFaults,     (* bound on the faults of a behaviour                     *)
  Deletable      (* the services a user may delete                         *)

ASSUME NoneIsNoValue  == None \notin Configs \cup Commits
ASSUME DeletableOk    == Deletable \subseteq Services
ASSUME BoundsAreNat   == MaxAttempts \in Nat \ {0} /\ MaxFaults \in Nat

VARIABLES
  svcState,      (* services row: "absent", "live" or is_deleted           *)
  svcConfig,     (* services.env_vars, build_config, port, memory, ...     *)
  current,       (* services.current_deployment_id                         *)
  reqPc,         (* where the request handler of d is                      *)
  target,        (* the service the request is for                         *)
  commit,        (* the commit of a git_push request, None for the others  *)
  snapshot,      (* the configuration the handler read                     *)
  toCancel,      (* workflows returned by CancelInFlightDeployments        *)
  wf,            (* the deploy workflow: the activity it awaits, or how it *)
                 (* closed                                                 *)
  cancelReq,     (* a cancellation request is recorded in its history      *)
  build,         (* the child workflow build-<service>-<commit>            *)
  attempts,      (* activity attempts that workers are running             *)
  cluster,       (* last applied k8s Deployment object of a service        *)
  serving,       (* the deployment whose pods are available                *)
  applied,       (* deployments whose object was ever applied (history)    *)
  late,          (* deployments marked active while the row of d was in    *)
                 (* flight (history)                                       *)
  del,           (* the workflow delete-svc-<service>                      *)
  faults         (* faults so far                                          *)

svcVars == <<svcState, svcConfig, current>>
reqVars == <<reqPc, target, commit, snapshot, toCancel>>
wfVars  == <<wf, cancelReq, build>>
k8sVars == <<cluster, serving, applied, late>>
vars == <<tableVars, svcVars, reqVars, wfVars, attempts, k8sVars, del, faults>>

-----------------------------------------------------------------------------

Acts     == {"building", "deploy", "deploying", "active", "failing"}
WfOpen   == Acts \cup {"build", "rollout"}
WfClosed == {"completed", "failed", "cancelled", "unrecorded"}

(* The first statement of each activity.                                   *)
FirstStep == [a \in Acts |-> CASE a = "deploy" -> "read"
                               [] a = "active" -> "supersede"
                               [] OTHER        -> "write"]

(* An attempt is "awaited" by its workflow, "abandoned" by it but still    *)
(* running to its end, or "expired": its context is done, so that only the *)
(* statement already sent takes effect.                                    *)
Attempt == [dep  : Deployments,
            act  : Acts,
            pc   : {"read", "apply", "write", "supersede", "mark", "point"},
            mode : {"awaited", "abandoned", "expired"},
            try  : 1 .. MaxAttempts,
            cfg  : Configs \cup {None}]

NewAttempt(d, act, n) ==
  [dep |-> d, act |-> act, pc |-> FirstStep[act], mode |-> "awaited",
   try |-> n, cfg |-> None]

AwaitedOf(d) == {a \in attempts : a.dep = d /\ a.mode = "awaited"}

Object == [dep : Deployments, cfg : Configs]

SvcTypeOK ==
  /\ svcState  \in [Services -> {"absent", "live", "deleted"}]
  /\ svcConfig \in [Services -> Configs \cup {None}]
  /\ current   \in [Services -> Deployments \cup {None}]

ReqTypeOK ==
  /\ reqPc \in [Deployments -> {"idle", "read", "cancel", "insert", "start",
                                "done", "failed"}]
  /\ target    \in [Deployments -> Services \cup {None}]
  /\ commit    \in [Deployments -> Commits \cup {None}]
  /\ snapshot  \in [Deployments -> Configs \cup {None}]
  /\ toCancel  \in [Deployments -> SUBSET Deployments]

WfTypeOK ==
  /\ wf        \in [Deployments -> {"none"} \cup WfOpen \cup WfClosed]
  /\ cancelReq \in [Deployments -> BOOLEAN]
  /\ build     \in [Deployments -> {"none", "open", "resolved", "closed"}]
  /\ attempts  \in SUBSET Attempt

K8sTypeOK ==
  /\ cluster   \in [Services -> Object \cup {None}]
  /\ serving   \in [Services -> Deployments \cup {None}]
  /\ applied   \in SUBSET Deployments
  /\ late      \in [Deployments -> SUBSET Deployments]
  /\ del \in [Services -> {"none", "workload", "soft", "done", "failed"}]

TypeOK ==
  /\ TableTypeOK /\ SvcTypeOK /\ ReqTypeOK /\ WfTypeOK /\ K8sTypeOK
  /\ faults \in 0 .. MaxFaults

Init ==
  /\ TableInit
  /\ svcState  = [s \in Services |-> "absent"]
  /\ svcConfig = [s \in Services |-> None]
  /\ current   = [s \in Services |-> None]
  /\ reqPc     = [d \in Deployments |-> "idle"]
  /\ target    = [d \in Deployments |-> None]
  /\ commit    = [d \in Deployments |-> None]
  /\ snapshot  = [d \in Deployments |-> None]
  /\ toCancel  = [d \in Deployments |-> {}]
  /\ wf        = [d \in Deployments |-> "none"]
  /\ cancelReq = [d \in Deployments |-> FALSE]
  /\ build     = [d \in Deployments |-> "none"]
  /\ attempts  = {}
  /\ cluster   = [s \in Services |-> None]
  /\ serving   = [s \in Services |-> None]
  /\ applied   = {}
  /\ late      = [d \in Deployments |-> {}]
  /\ del       = [s \in Services |-> "none"]
  /\ faults    = 0

Fault == faults < MaxFaults /\ faults' = faults + 1

-----------------------------------------------------------------------------
(* Request handlers.                                                       *)

Goto(d, pc) == reqPc' = [reqPc EXCEPT ![d] = pc]

(* CreateService up to the INSERT of the services row.                     *)
BeginCreate(d, s, c) ==
  /\ reqPc[d] = "idle" /\ svcState[s] = "absent"
  /\ svcState'  = [svcState EXCEPT ![s] = "live"]
  /\ svcConfig' = [svcConfig EXCEPT ![s] = c]
  /\ target'    = [target EXCEPT ![d] = s]
  /\ snapshot'  = [snapshot EXCEPT ![d] = c]
  /\ Goto(d, "insert")
  /\ UNCHANGED <<tableVars, current, commit, toCancel, wfVars, attempts,
                 k8sVars, del, faults>>

(* A manual redeploy (c = None) or a push naming commit c.                 *)
BeginRedeploy(d, s, c) ==
  /\ reqPc[d] = "idle" /\ svcState[s] = "live"
  /\ target' = [target EXCEPT ![d] = s]
  /\ commit' = [commit EXCEPT ![d] = c]
  /\ Goto(d, "read")
  /\ UNCHANGED <<tableVars, svcVars, snapshot, toCancel, wfVars, attempts,
                 k8sVars, del, faults>>

(* UpdateService: UpdateServiceConfig, then RedeployService.               *)
BeginUpdate(d, s, c) ==
  /\ reqPc[d] = "idle" /\ svcState[s] = "live"
  /\ svcConfig' = [svcConfig EXCEPT ![s] = c]
  /\ target'    = [target EXCEPT ![d] = s]
  /\ Goto(d, "read")
  /\ UNCHANGED <<tableVars, svcState, current, commit, snapshot, toCancel,
                 wfVars, attempts, k8sVars, del, faults>>

(* redeployWithTrigger: GetServiceByID, which sees only undeleted rows.    *)
ReadService(d) ==
  /\ reqPc[d] = "read"
  /\ \/ /\ svcState[target[d]] = "live"
        /\ snapshot' = [snapshot EXCEPT ![d] = svcConfig[target[d]]]
        /\ Goto(d, "cancel")
     \/ /\ svcState[target[d]] # "live"
        /\ Goto(d, "failed")
        /\ UNCHANGED snapshot
  /\ UNCHANGED <<tableVars, svcVars, target, commit, toCancel, wfVars,
                 attempts, k8sVars, del, faults>>

CancelInFlight(d) ==
  /\ reqPc[d] = "cancel"
  /\ toCancel' =
       [toCancel EXCEPT ![d] = RowsOf(target[d], InFlight) \ {d}]
  /\ CancelInFlightDeployments(target[d], d)
  /\ Goto(d, "insert")
  /\ UNCHANGED <<svcVars, target, commit, snapshot, wfVars, attempts, k8sVars,
                 del, faults>>

(* Mutated form: acts on rows whose UPDATE was not committed.              *)
CancelInFlightKeepsIds(d) ==
  /\ reqPc[d] = "cancel"
  /\ Fault
  /\ toCancel' = [toCancel EXCEPT ![d] = RowsOf(target[d], InFlight) \ {d}]
  /\ Goto(d, "insert")
  /\ UNCHANGED <<tableVars, svcVars, target, commit, snapshot, wfVars, attempts,
                 k8sVars, del>>

(* The error is only logged: the request goes on with nothing cancelled.   *)
CancelInFlightFails(d) ==
  /\ reqPc[d] = "cancel"
  /\ Fault
  /\ Goto(d, "insert")
  /\ UNCHANGED <<tableVars, svcVars, target, commit, snapshot, toCancel,
                 wfVars, attempts, k8sVars, del>>

(* CancelWorkflow of one returned workflow id.  It fails when that         *)
(* workflow is not started yet or has closed; the error is only logged.    *)
SignalCancel(d, e) ==
  /\ reqPc[d] = "insert" /\ e \in toCancel[d]
  /\ toCancel' = [toCancel EXCEPT ![d] = @ \ {e}]
  /\ cancelReq' =
       [cancelReq EXCEPT ![e] = @ \/ wf[e] \in WfOpen]
  /\ UNCHANGED <<tableVars, svcVars, reqPc, target, commit, snapshot, wf,
                 build, attempts, k8sVars, del, faults>>

(* CancelWorkflow cannot reach the server; the error is only logged.       *)
SignalCancelFails(d, e) ==
  /\ reqPc[d] = "insert" /\ e \in toCancel[d]
  /\ Fault
  /\ toCancel' = [toCancel EXCEPT ![d] = @ \ {e}]
  /\ UNCHANGED <<tableVars, svcVars, reqPc, target, commit, snapshot, wfVars,
                 attempts, k8sVars, del>>

(* CreateDeployment, once the loop over the cancelled workflows is done.   *)
(* idx_deployments_one_inflight refuses it when another request inserted   *)
(* its row since this one cancelled what was in flight.                    *)
InsertRow(d) ==
  /\ reqPc[d] = "insert" /\ toCancel[d] = {}
  /\ \/ CreateDeployment(d, target[d]) /\ Goto(d, "start")
     \/ /\ ~Accepted(d, target[d], "queued", FALSE)
        /\ Goto(d, "failed")
        /\ UNCHANGED tableVars
  /\ UNCHANGED <<svcVars, target, commit, snapshot, toCancel, wfVars, attempts,
                 k8sVars, del, faults>>

(* ExecuteWorkflow.  The new workflow's first activity is scheduled.       *)
StartWorkflow(d) ==
  /\ reqPc[d] = "start"
  /\ Goto(d, "done")
  /\ wf'       = [wf EXCEPT ![d] = "building"]
  /\ attempts' = attempts \cup {NewAttempt(d, "building", 1)}
  /\ UNCHANGED <<tableVars, svcVars, target, commit, snapshot, toCancel,
                 cancelReq, build, k8sVars, del, faults>>

(* Mutated form: the handler deletes the row it inserted.                  *)
RequestAbortsUndoes(d) ==
  /\ reqPc[d] \in {"read", "cancel", "insert", "start"}
  /\ Fault
  /\ Goto(d, "failed")
  /\ status' = [status EXCEPT ![d] = "absent"]
  /\ UNCHANGED <<startedAt, finishedAt, serviceId, svcVars, target, commit,
                 snapshot, toCancel, wfVars, attempts, k8sVars, del>>

(* The process dies, the client hangs up (the request's context is         *)
(* cancelled), the INSERT or ExecuteWorkflow fails: the handler returns    *)
(* and undoes nothing.                                                     *)
RequestAborts(d) ==
  /\ reqPc[d] \in {"read", "cancel", "insert", "start"}
  /\ Fault
  /\ Goto(d, "failed")
  /\ UNCHANGED <<tableVars, svcVars, target, commit, snapshot, toCancel,
                 wfVars, attempts, k8sVars, del>>

-----------------------------------------------------------------------------
(* Activity attempts and what their workflow makes of them.                *)

(* Workflow d goes on to st, scheduling st's activity if it has one; its   *)
(* awaited attempt becomes the attempts in left.                           *)
Enter(d, st, left) ==
  /\ wf'       = [wf EXCEPT ![d] = st]
  /\ attempts' = (attempts \ AwaitedOf(d)) \cup left \cup
                   (IF st \in Acts THEN {NewAttempt(d, st, 1)} ELSE {})

(* What follows each activity when it succeeds, and when its last attempt  *)
(* fails.  fail() runs MarkDeploymentFailed; the two returns that do not   *)
(* go through it leave the row as it is.                                   *)
OnSuccess == [building |-> "build",     deploy  |-> "deploying",
              deploying |-> "rollout",  active  |-> "completed",
              failing |-> "failed"]
(* Mutated forms of the second: an error only logged, fail() forgotten,    *)
(* fail() called after MarkDeploymentActive too.                           *)
OnFailureLogged ==
  [building |-> "build", deploy |-> "deploying", deploying |-> "rollout",
   active |-> "unrecorded", failing |-> "unrecorded"]
OnFailureUnmarked ==
  [building |-> "unrecorded", deploy |-> "failed", deploying |-> "rollout",
   active |-> "unrecorded", failing |-> "unrecorded"]
OnFailureAlwaysMarked ==
  [building |-> "unrecorded", deploy |-> "failing", deploying |-> "rollout",
   active |-> "failing", failing |-> "unrecorded"]

OnFailure == [building |-> "unrecorded", deploy |-> "failing",
              deploying |-> "rollout",   active |-> "unrecorded",
              failing |-> "unrecorded"]

(* Attempt a goes on to its step pc.                                       *)
Proceed(a, pc) ==
  /\ attempts' = (attempts \ {a}) \cup
       (IF a.mode = "expired" THEN {} ELSE {[a EXCEPT !.pc = pc]})
  /\ UNCHANGED wf

(* Attempt a is over, and what it leaves running is left.  The workflow    *)
(* hears of an awaited attempt only; the server retries a failed one       *)
(* MaxAttempts times before the workflow sees the error.                   *)
Succeeded(a) ==
  \/ a.mode = "awaited" /\ Enter(a.dep, OnSuccess[a.act], {})
  \/ a.mode # "awaited" /\ attempts' = attempts \ {a} /\ UNCHANGED wf

Failed(a, left) ==
  \/ /\ a.mode = "awaited" /\ a.try < MaxAttempts
     /\ attempts' = (attempts \ {a}) \cup left \cup
                       {NewAttempt(a.dep, a.act, a.try + 1)}
     /\ UNCHANGED wf
  \/ /\ a.mode = "awaited" /\ a.try = MaxAttempts
     /\ Enter(a.dep, OnFailure[a.act], left)
  \/ a.mode # "awaited" /\ attempts' = (attempts \ {a}) \cup left /\ UNCHANGED wf

(* Attempt a has run its last statement; its report may be lost.           *)
Finished(a) ==
  \/ Succeeded(a) /\ UNCHANGED faults
  \/ a.mode = "awaited" /\ Failed(a, {}) /\ Fault

(* The one UPDATE of UpdateDeploymentBuilding, UpdateDeploymentDeploying   *)
(* and MarkDeploymentFailed.                                               *)
RunWrite(a) ==
  LET d == a.dep IN
  /\ a.pc = "write"
  /\ \/ a.act = "building"  /\ UpdateDeploymentBuilding(d)  /\ Finished(a)
     \/ a.act = "deploying" /\ UpdateDeploymentDeploying(d) /\ Finished(a)
     \/ a.act = "failing"   /\ MarkDeploymentFailed(d)      /\ Finished(a)
     \/ /\ a.act \in {"building", "deploying"}
        /\ ~Accepted(d, serviceId[d], a.act, finishedAt[d])
        /\ Failed(a, {})
        /\ UNCHANGED <<tableVars, faults>>
  /\ UNCHANGED <<svcVars, reqVars, cancelReq, build, k8sVars, del>>

(* Deploy reads the live services row, not the deployment's snapshot.      *)
RunDeployRead(a) ==
  LET s == target[a.dep] IN
  /\ a.pc = "read"
  /\ \/ /\ svcState[s] = "live"
        /\ attempts' = (attempts \ {a}) \cup
                          {[a EXCEPT !.pc = "apply", !.cfg = svcConfig[s]]}
        /\ UNCHANGED wf
     \/ svcState[s] # "live" /\ Failed(a, {})
  /\ UNCHANGED <<tableVars, svcVars, reqVars, cancelReq, build, k8sVars, del,
                 faults>>

(* Server-side apply of the service's objects, under the service's name.   *)
RunDeployApply(a) ==
  LET s == target[a.dep] IN
  /\ a.pc = "apply"
  /\ cluster' = [cluster EXCEPT ![s] = [dep |-> a.dep, cfg |-> a.cfg]]
  /\ applied' = applied \cup {a.dep}
  /\ Finished(a)
  /\ UNCHANGED <<tableVars, svcVars, reqVars, cancelReq, build, serving, late,
                 del>>

(* MarkDeploymentActive is three statements in no transaction.             *)
RunSupersede(a) ==
  /\ a.pc = "supersede"
  /\ SupersedeActiveDeployment(target[a.dep])
  /\ Proceed(a, "mark")
  /\ UNCHANGED <<svcVars, reqVars, cancelReq, build, k8sVars, del, faults>>

(* Every row of service s that is in flight sees d marked active.          *)
NoteLate(d, s) ==
  late' = [e \in Deployments |-> IF e \in RowsOf(s, InFlight) \ {d}
                                   THEN late[e] \cup {d} ELSE late[e]]

(* Mutated form: the refused UPDATE is only logged.                        *)
RunMarkActiveLogged(a) ==
  LET d == a.dep IN
  /\ a.pc = "mark"
  /\ Proceed(a, "point")
  /\ \/ MarkDeploymentActive(d) /\ NoteLate(d, serviceId[d])
     \/ /\ ~Accepted(d, serviceId[d], "active", TRUE)
        /\ UNCHANGED <<tableVars, late>>
  /\ UNCHANGED <<svcVars, reqVars, cancelReq, build, cluster, serving, applied,
                 del, faults>>

RunMarkActive(a) ==
  LET d == a.dep IN
  /\ a.pc = "mark"
  /\ \/ /\ MarkDeploymentActive(d)
        /\ NoteLate(d, serviceId[d])
        /\ Proceed(a, "point")
     \/ /\ ~Accepted(d, serviceId[d], "active", TRUE)
        /\ Failed(a, {})
        /\ UNCHANGED <<tableVars, late>>
  /\ UNCHANGED <<svcVars, reqVars, cancelReq, build, cluster, serving, applied,
                 del, faults>>

(* SetCurrentDeploymentID ... WHERE is_deleted = false.                    *)
RunSetPointer(a) ==
  LET s == target[a.dep] IN
  /\ a.pc = "point"
  /\ current' = [current EXCEPT ![s] = IF svcState[s] = "live" THEN a.dep ELSE @]
  /\ Finished(a)
  /\ UNCHANGED <<tableVars, svcState, svcConfig, reqVars, cancelReq, build,
                 k8sVars, del>>

(* A statement or API call fails, or its worker dies.                      *)
AttemptFails(a) ==
  /\ Failed(a, {}) /\ Fault
  /\ UNCHANGED <<tableVars, svcVars, reqVars, cancelReq, build, k8sVars, del>>

(* The server times the attempt out while it runs.  Deploy sends no        *)
(* heartbeat, so its HeartbeatTimeout expires long before its own context. *)
AttemptTimesOut(a) ==
  /\ a.mode = "awaited"
  /\ Failed(a, {[a EXCEPT !.mode =
                    IF a.act = "deploy" THEN "abandoned" ELSE "expired"]})
  /\ Fault
  /\ UNCHANGED <<tableVars, svcVars, reqVars, cancelReq, build, k8sVars, del>>

-----------------------------------------------------------------------------
(* The deploy workflow.                                                    *)

(* The child's id is build-<serviceID>-<CommitSHA>, and the CommitSHA of   *)
(* every request that is not a push is empty.                              *)
SameBuildId(d, e) == target[d] = target[e] /\ commit[d] = commit[e]

BuildIdInUse(d) ==
  \E e \in Deployments \ {d} :
    build[e] \in {"open", "resolved"} /\ SameBuildId(d, e)

SetBuild(d, st) == build' = [build EXCEPT ![d] = st]

StartBuild(d) ==
  /\ wf[d] = "build" /\ build[d] = "none"
  /\ \/ ~BuildIdInUse(d) /\ SetBuild(d, "open") /\ UNCHANGED <<wf, attempts>>
     \/ BuildIdInUse(d) /\ Enter(d, "failing", {}) /\ UNCHANGED build
  /\ UNCHANGED <<tableVars, svcVars, reqVars, cancelReq, k8sVars, del, faults>>

(* The child's activities read the services row before they build.         *)
ResolveBuild(d) ==
  /\ wf[d] = "build" /\ build[d] = "open"
  /\ svcState[target[d]] = "live"
  /\ SetBuild(d, "resolved")
  /\ UNCHANGED <<tableVars, svcVars, reqVars, wf, cancelReq, attempts,
                 k8sVars, del, faults>>

(* A build may always fail: the user's code does not build.                *)
FinishBuild(d) ==
  /\ wf[d] = "build" /\ build[d] \in {"open", "resolved"}
  /\ SetBuild(d, "closed")
  /\ \/ build[d] = "resolved" /\ Enter(d, "deploy", {})
     \/ Enter(d, "failing", {})
  /\ UNCHANGED <<tableVars, svcVars, reqVars, cancelReq, k8sVars, del, faults>>

(* WaitForRollout compares the updated and the available replicas with the *)
(* desired ones, each on its own and of whatever generation: while a new   *)
(* pod comes up beside an available old one, both counts are right.        *)
RolloutSucceeds(d) ==
  /\ wf[d] = "rollout"
  /\ cluster[target[d]] # None /\ serving[target[d]] # None
  /\ Enter(d, "active", {})
  /\ UNCHANGED <<tableVars, svcVars, reqVars, cancelReq, build, k8sVars, del,
                 faults>>

(* Mutated form: no timeout ends the polling.                              *)
RolloutFailsOnlyReady(d) == RolloutSucceeds(d)

RolloutFails(d) ==
  /\ wf[d] = "rollout"
  /\ Enter(d, "failing", {})
  /\ UNCHANGED <<tableVars, svcVars, reqVars, cancelReq, build, k8sVars, del,
                 faults>>

(* The workflow's context is cancelled: whatever it awaits returns         *)
(* CanceledError at once, nothing more can be scheduled on that context    *)
(* (markFailed included) and the workflow closes.  The attempt it awaited  *)
(* is not told: only heartbeats carry the news, and these activities send  *)
(* none.                                                                   *)
DeliverCancel(d) ==
  /\ wf[d] \in WfOpen /\ cancelReq[d]
  /\ Enter(d, "cancelled", {[a EXCEPT !.mode = "abandoned"] : a \in AwaitedOf(d)})
  /\ UNCHANGED <<tableVars, svcVars, reqVars, cancelReq, build, k8sVars,
                 del, faults>>

(* The server terminates the child of a closed workflow some time later.   *)
TerminateBuild(d) ==
  /\ wf[d] \in WfClosed /\ build[d] \in {"open", "resolved"}
  /\ SetBuild(d, "closed")
  /\ UNCHANGED <<tableVars, svcVars, reqVars, wf, cancelReq, attempts,
                 k8sVars, del, faults>>

-----------------------------------------------------------------------------
(* The cluster and the deletion of a service.                              *)

PodsReady(s) ==
  /\ cluster[s] # None
  /\ serving[s] # cluster[s].dep
  /\ serving' = [serving EXCEPT ![s] = cluster[s].dep]
  /\ UNCHANGED <<tableVars, svcVars, reqVars, wfVars, attempts, cluster,
                 applied, late, del, faults>>

(* DeleteService starts a workflow and cancels no deployment.              *)
StartDelete(s) ==
  /\ s \in Deletable
  /\ svcState[s] = "live" /\ del[s] \in {"none", "failed"}
  /\ del' = [del EXCEPT ![s] = "workload"]
  /\ UNCHANGED <<tableVars, svcVars, reqVars, wfVars, attempts, k8sVars,
                 faults>>

DeleteWorkload(s) ==
  /\ del[s] = "workload"
  /\ cluster' = [cluster EXCEPT ![s] = None]
  /\ serving' = [serving EXCEPT ![s] = None]
  /\ \/ del' = [del EXCEPT ![s] = "soft"] /\ UNCHANGED faults
     \/ (* the report is lost, and the activity runs again *)
        UNCHANGED del /\ Fault
  /\ UNCHANGED <<tableVars, svcVars, reqVars, wfVars, attempts, applied, late>>

SoftDelete(s) ==
  /\ del[s] = "soft"
  /\ svcState' = [svcState EXCEPT ![s] = "deleted"]
  /\ \/ del' = [del EXCEPT ![s] = "done"] /\ UNCHANGED faults
     \/ (* the report is lost, and a retry finds no undeleted row          *)
        del' = [del EXCEPT ![s] = "failed"] /\ Fault
  /\ UNCHANGED <<tableVars, svcConfig, current, reqVars, wfVars, attempts,
                 k8sVars>>

DeleteFails(s) ==
  /\ del[s] \in {"workload", "soft"}
  /\ Fault
  /\ del' = [del EXCEPT ![s] = "failed"]
  /\ UNCHANGED <<tableVars, svcVars, reqVars, wfVars, attempts, k8sVars>>

-----------------------------------------------------------------------------

RequestStep(d) ==
  \/ ReadService(d) \/ CancelInFlight(d) \/ InsertRow(d)
  \/ StartWorkflow(d)
  \/ \E e \in Deployments : SignalCancel(d, e)

RequestFault(d) ==
  \/ CancelInFlightFails(d) \/ RequestAborts(d)
  \/ \E e \in Deployments : SignalCancelFails(d, e)

NewRequest(d) ==
  \E s \in Services :
    \/ \E c \in Configs : BeginCreate(d, s, c) \/ BeginUpdate(d, s, c)
    \/ \E c \in Commits \cup {None} : BeginRedeploy(d, s, c)

RunAttempt(a) ==
  \/ RunWrite(a) \/ RunDeployRead(a) \/ RunDeployApply(a)
  \/ RunSupersede(a) \/ RunMarkActive(a) \/ RunSetPointer(a)

AttemptFault(a) == AttemptFails(a) \/ AttemptTimesOut(a)

WorkflowStep(d) ==
  \/ StartBuild(d) \/ ResolveBuild(d) \/ FinishBuild(d)
  \/ RolloutSucceeds(d) \/ RolloutFails(d)
  \/ DeliverCancel(d) \/ TerminateBuild(d)

DeleteStep(s) ==
  StartDelete(s) \/ DeleteWorkload(s) \/ SoftDelete(s) \/ DeleteFails(s)

Next ==
  \/ \E d \in Deployments :
       NewRequest(d) \/ RequestStep(d) \/ RequestFault(d) \/ WorkflowStep(d)
  \/ \E a \in attempts : RunAttempt(a) \/ AttemptFault(a)
  \/ \E s \in Services : PodsReady(s) \/ DeleteStep(s)

Spec == Init /\ [][Next]_vars

(* The server keeps dispatching workflow tasks and attempts; the child of  *)
(* a closed workflow is terminated by a server task.  Handlers run to      *)
(* their end unless a fault stops them.  Users, faults, the pods of a      *)
(* broken image and the outcome of a build promise nothing.                *)
FairSpec ==
  /\ Spec
  /\ \A d \in Deployments : WF_vars(RequestStep(d)) /\ WF_vars(WorkflowStep(d))
  /\ WF_vars(\E a \in attempts : RunAttempt(a))

-----------------------------------------------------------------------------
(* Properties.                                                             *)

(* A deployment cancelled while it was still queued never touches the      *)
(* cluster, though its workflow may start after the cancellation and is    *)
(* then never told of it: everything ever applied passed 'building'.       *)
AppliedWasStarted == \A d \in applied : startedAt[d]

(* Nothing is recorded as live, now or in the past, that was not applied.  *)
PromotedWasApplied ==
  \A d \in Deployments : status[d] \in {"active", "superseded"} => d \in applied

(* current_deployment_id names a row of the same service that was promoted *)
(* to active: never a queued, failed or cancelled one.                     *)
PointerWasPromoted ==
  \A s \in Services : current[s] # None =>
    /\ serviceId[current[s]] = s
    /\ status[current[s]] \in {"active", "superseded"}

(* A workflow that closed leaves a finished row, except through the two    *)
(* returns that skip markFailed and a markFailed that could not be written. *)
ClosedIsRecorded ==
  \A d \in Deployments :
    wf[d] \in WfClosed \ {"unrecorded"} => finishedAt[d]

(* No workflow is told to stop before its row says so.                     *)
CancelledRowFirst == \A d \in Deployments : cancelReq[d] => finishedAt[d]

(* However many requests of a service overlap, cancel each other's         *)
(* deployments and refuse each other's rows, the service keeps a row that  *)
(* was not cancelled, or a request about to insert one.  It is left with   *)
(* none, from its creation on, only by a request that a fault interrupted. *)
ServiceIsDeployed ==
  \A s \in Services : svcState[s] # "absent" =>
    \/ \E d \in Deployments : /\ serviceId[d] = s
                              /\ status[d] \notin {"absent", "cancelled"}
    \/ \E d \in Deployments : target[d] = s /\ reqPc[d] = "insert"
    \/ faults > 0 /\ \E d \in Deployments : target[d] = s /\ reqPc[d] = "failed"

(* The UPDATE to active that idx_deployments_one_active refuses is tried   *)
(* MaxAttempts times; so many deployments would have to be marked active   *)
(* by attempts nobody waits for, one between each two tries, for the row   *)
(* of d to be left in flight.                                              *)
CrowdedOut(d) == Cardinality(late[d]) >= MaxAttempts

(* A row that is in flight has somebody at work on it: the request that is *)
(* about to start its workflow, or that workflow.  Neither being overtaken, *)
(* nor cancelled before its start, nor a refused UPDATE leaves it behind.  *)
(* A fault does so in two ways: the request is interrupted between its     *)
(* INSERT and ExecuteWorkflow, or the workflow closes without recording it. *)
InFlightIsAttended ==
  \A d \in Deployments : status[d] \in InFlight =>
    \/ reqPc[d] = "start"
    \/ wf[d] \in WfOpen
    \/ faults = 0 /\ CrowdedOut(d)
    \/ faults > 0 /\ \/ reqPc[d] = "failed" /\ wf[d] = "none" /\ status[d] = "queued"
                     \/ wf[d] = "unrecorded"

(* The moves a row can make, as its readers see them.  The surprising ones *)
(* are the work of attempts nobody waits for: a cancelled row may still be *)
(* marked active or failed, a superseded one revived by a retry, a late    *)
(* UpdateDeploymentBuilding takes a deploying row back.  A failed row is   *)
(* final, and a queued one cannot skip 'building' except by cancellation.  *)
Moves ==
  ({"absent"} \X {"queued"})
  \cup ({"queued"} \X {"building", "cancelled"})
  \cup ({"building"} \X {"deploying", "active", "failed", "cancelled"})
  \cup ({"deploying"} \X {"building", "active", "failed", "cancelled"})
  \cup ({"active"} \X {"superseded"})
  \cup ({"superseded"} \X {"active"})
  \cup ({"cancelled"} \X {"active", "failed"})

Lifecycle ==
  [][\A d \in Deployments :
       status'[d] # status[d] => <<status[d], status'[d]>> \in Moves]_vars

(* Every statement the system runs on the table is one of the table's.     *)
ImplementsTable == TableSpec

(* Whatever fails, a workflow that started closes.                         *)
WorkflowsClose ==
  \A d \in Deployments : wf[d] \in WfOpen ~> wf[d] \in WfClosed

(* Without faults no row stays in flight: it is promoted, fails or is      *)
(* cancelled, unless abandoned attempts use up its tries.                  *)
RowsFinish ==
  \A d \in Deployments :
    status[d] \in InFlight ~> (finishedAt[d] \/ faults > 0 \/ CrowdedOut(d))

-----------------------------------------------------------------------------
(* What the repository's comments say, and the code does not do.           *)

(* Nothing is under way for service s, and what was applied is available.  *)
Settled(s) ==
  /\ \A d \in Deployments : target[d] = s =>
       reqPc[d] \in {"done", "failed"} /\ wf[d] \in WfClosed
  /\ attempts = {}
  /\ svcState[s] = "live" /\ del[s] = "none"
  /\ cluster[s] # None /\ serving[s] = cluster[s].dep

(* services.current_deployment_id "points to the currently-live            *)
(* deployment" (0001_initial.sql:114), here once nothing is under way and  *)
(* no deployment that was declared failed has come up late.                *)
PointerIsLive ==
  \A s \in Services :
    /\ Settled(s)
    /\ current[s] # None
    /\ status[serving[s]] # "failed"
    => current[s] = serving[s]

(* What runs for a deployment is the configuration its row recorded        *)
(* (0001_initial.sql:99, "next deploy snapshots these", and :137, "Config  *)
(* snapshot (immutable after creation)").                                  *)
SnapshotIsDeployed ==
  \A s \in Services :
    cluster[s] # None => cluster[s].cfg = snapshot[cluster[s].dep]

=============================================================================
