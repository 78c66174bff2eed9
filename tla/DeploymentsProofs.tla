------------------------- MODULE DeploymentsProofs -------------------------
(***************************************************************************)
(* The deployment of services implements the deployments table, for any    *)
(* number of services, overlapping requests, retries and faults; what the  *)
(* table's constraints guarantee therefore holds of the whole system.      *)
(***************************************************************************)
EXTENDS Deployments, DeploymentTableProofs

(* What links an attempt to the request, the service and the configuration *)
(* it works for.                                                           *)
AttemptsOK(S) ==
  /\ S \subseteq Attempt
  /\ \A a \in S : /\ reqPc[a.dep] # "idle"
                  /\ a.pc = "apply" => a.cfg \in Configs

Linked ==
  /\ \A s \in Services :
       /\ svcState[s] # "absent" => svcConfig[s] \in Configs
       /\ del[s] # "none" => svcState[s] # "absent"
  /\ \A d \in Deployments :
       /\ reqPc[d] # "idle" => target[d] \in Services
       /\ wf[d] # "none" => reqPc[d] # "idle"
  /\ AttemptsOK(attempts)

IInv == TableInv /\ TypeOK /\ Linked

(* What a step leaves in wf and attempts when it leaves the requests alone. *)
WfStepOK ==
  /\ wf' \in [Deployments -> {"none"} \cup WfOpen \cup WfClosed]
  /\ AttemptsOK(attempts')
  /\ \A d \in Deployments : wf'[d] # "none" => reqPc[d] # "idle"

-----------------------------------------------------------------------------
(* Attempts and the workflow that awaits them.                             *)

LEMMA Names ==
  /\ Acts \subseteq WfOpen
  /\ "none" \notin WfOpen \cup WfClosed
  /\ OnSuccess \in [Acts -> WfOpen \cup WfClosed]
  /\ OnFailure \in [Acts -> WfOpen \cup WfClosed]
  BY DEF Acts, WfOpen, WfClosed, OnSuccess, OnFailure

(* A new attempt is an attempt, and has not read a configuration yet.      *)
LEMMA NewAttemptOK ==
  ASSUME NEW d \in Deployments, NEW act \in Acts, NEW n \in 1 .. MaxAttempts,
         reqPc[d] # "idle"
  PROVE  AttemptsOK({NewAttempt(d, act, n)})
<1>1. FirstStep[act] \in {"read", "supersede", "write"}
  BY DEF FirstStep, Acts
<1> QED BY <1>1 DEF AttemptsOK, NewAttempt, Attempt

LEMMA EnterOK ==
  ASSUME IInv, NEW d \in Deployments, NEW st \in WfOpen \cup WfClosed,
         NEW left, reqPc[d] # "idle", AttemptsOK(left), Enter(d, st, left)
  PROVE  WfStepOK
<1>1. wf' = [wf EXCEPT ![d] = st]
  BY DEF Enter
<1>2. AttemptsOK(IF st \in Acts THEN {NewAttempt(d, st, 1)} ELSE {})
  <2>1. 1 \in 1 .. MaxAttempts
    BY BoundsAreNat
  <2> QED BY <2>1, NewAttemptOK DEF AttemptsOK
<1>3. AttemptsOK(attempts')
  BY <1>2 DEF IInv, Linked, Enter, AttemptsOK
<1> QED BY <1>1, <1>3 DEF IInv, TypeOK, WfTypeOK, Linked, WfStepOK

LEMMA ProceedOK ==
  ASSUME IInv, NEW a \in attempts, NEW pc \in {"mark", "point"}, Proceed(a, pc)
  PROVE  WfStepOK
<1>1. AttemptsOK({[a EXCEPT !.pc = pc]})
  BY DEF IInv, Linked, AttemptsOK, Attempt
<1>2. AttemptsOK(attempts') /\ wf' = wf
  BY <1>1 DEF IInv, Linked, Proceed, AttemptsOK
<1> QED BY <1>2 DEF IInv, TypeOK, WfTypeOK, Linked, WfStepOK

LEMMA SucceededOK ==
  ASSUME IInv, NEW a \in attempts, Succeeded(a)
  PROVE  WfStepOK
<1>1. /\ a.dep \in Deployments /\ a.act \in Acts /\ reqPc[a.dep] # "idle"
      /\ OnSuccess[a.act] \in WfOpen \cup WfClosed
      /\ AttemptsOK({}) /\ AttemptsOK(attempts \ {a})
  BY Names DEF IInv, Linked, AttemptsOK, Attempt
<1>2. CASE Enter(a.dep, OnSuccess[a.act], {})
  BY <1>1, <1>2, EnterOK
<1>3. CASE attempts' = attempts \ {a} /\ wf' = wf
  BY <1>1, <1>3 DEF IInv, TypeOK, WfTypeOK, Linked, WfStepOK
<1> QED BY <1>2, <1>3 DEF Succeeded

LEMMA FailedOK ==
  ASSUME IInv, NEW a \in attempts, NEW left, AttemptsOK(left), Failed(a, left)
  PROVE  WfStepOK
<1>1. /\ a.dep \in Deployments /\ a.act \in Acts /\ reqPc[a.dep] # "idle"
      /\ a.try \in 1 .. MaxAttempts
      /\ OnFailure[a.act] \in WfOpen \cup WfClosed
      /\ AttemptsOK(attempts)
  BY Names DEF IInv, Linked, AttemptsOK, Attempt
<1>2. CASE /\ a.try < MaxAttempts
           /\ attempts' = (attempts \ {a}) \cup left \cup
                            {NewAttempt(a.dep, a.act, a.try + 1)}
           /\ wf' = wf
  <2>1. a.try + 1 \in 1 .. MaxAttempts
    BY <1>1, <1>2, BoundsAreNat
  <2>2. AttemptsOK({NewAttempt(a.dep, a.act, a.try + 1)})
    BY <1>1, <2>1, NewAttemptOK
  <2>3. AttemptsOK(attempts')
    BY <1>1, <1>2, <2>2 DEF AttemptsOK
  <2> QED BY <1>2, <2>3 DEF IInv, TypeOK, WfTypeOK, Linked, WfStepOK
<1>3. CASE Enter(a.dep, OnFailure[a.act], left)
  BY <1>1, <1>3, EnterOK
<1>4. CASE attempts' = (attempts \ {a}) \cup left /\ wf' = wf
  <2>1. AttemptsOK(attempts')
    BY <1>1, <1>4 DEF AttemptsOK
  <2> QED BY <1>4, <2>1 DEF IInv, TypeOK, WfTypeOK, Linked, WfStepOK
<1> QED BY <1>2, <1>3, <1>4 DEF Failed

LEMMA FinishedOK ==
  ASSUME IInv, NEW a \in attempts, Finished(a)
  PROVE  WfStepOK /\ faults' \in 0 .. MaxFaults
<1>1. AttemptsOK({})
  BY DEF AttemptsOK
<1>2. faults' \in 0 .. MaxFaults
  BY BoundsAreNat DEF IInv, TypeOK, Finished, Fault
<1> QED BY <1>1, <1>2, SucceededOK, FailedOK DEF Finished

-----------------------------------------------------------------------------
(* Every step of the system runs one statement on the table, or none.      *)

LEMMA AttemptFacts ==
  ASSUME IInv, NEW a \in attempts
  PROVE  a.dep \in Deployments /\ target[a.dep] \in Services
  BY DEF IInv, Linked, AttemptsOK, Attempt

LEMMA RequestTable ==
  ASSUME IInv, NEW d \in Deployments,
         NewRequest(d) \/ RequestStep(d) \/ RequestFault(d)
  PROVE  [TableNext]_tableVars
<1>1. CASE NewRequest(d)
  BY <1>1 DEF NewRequest, BeginCreate, BeginUpdate, BeginRedeploy, tableVars
<1>2. CASE CancelInFlight(d)
  <2>1. target[d] \in Services
    BY <1>2 DEF IInv, Linked, CancelInFlight
  <2> QED BY <1>2, <2>1 DEF CancelInFlight, TableNext
<1>3. CASE InsertRow(d)
  <2>1. target[d] \in Services
    BY <1>3 DEF IInv, Linked, InsertRow
  <2> QED BY <1>3, <2>1 DEF InsertRow, TableNext
<1>4. CASE ReadService(d)
  BY <1>4 DEF ReadService, tableVars
<1>5. CASE StartWorkflow(d)
  BY <1>5 DEF StartWorkflow, tableVars
<1>6. CASE \E e \in Deployments : SignalCancel(d, e)
  BY <1>6 DEF SignalCancel, tableVars
<1>7. CASE RequestFault(d)
  BY <1>7 DEF RequestFault, CancelInFlightFails, RequestAborts,
              SignalCancelFails, tableVars
<1> QED BY <1>1, <1>2, <1>3, <1>4, <1>5, <1>6, <1>7 DEF RequestStep

LEMMA AttemptTable ==
  ASSUME IInv, NEW a \in attempts, RunAttempt(a) \/ AttemptFault(a)
  PROVE  [TableNext]_tableVars
<1>1. CASE RunWrite(a)
  BY <1>1, AttemptFacts DEF RunWrite, TableNext, tableVars
<1>2. CASE RunSupersede(a)
  BY <1>2, AttemptFacts DEF RunSupersede, TableNext
<1>3. CASE RunMarkActive(a)
  BY <1>3, AttemptFacts DEF RunMarkActive, TableNext, tableVars
<1>4. CASE RunDeployRead(a) \/ RunDeployApply(a) \/ RunSetPointer(a)
  BY <1>4 DEF RunDeployRead, RunDeployApply, RunSetPointer, tableVars
<1>5. CASE AttemptFault(a)
  BY <1>5 DEF AttemptFault, AttemptFails, AttemptTimesOut, tableVars
<1> QED BY <1>1, <1>2, <1>3, <1>4, <1>5 DEF RunAttempt

LEMMA NextTable == ASSUME IInv, [Next]_vars PROVE [TableNext]_tableVars
<1>1. ASSUME NEW d \in Deployments, WorkflowStep(d)
      PROVE  UNCHANGED tableVars
  BY <1>1 DEF WorkflowStep, StartBuild, ResolveBuild, FinishBuild,
     RolloutSucceeds, RolloutFails, DeliverCancel, TerminateBuild, tableVars
<1>2. ASSUME NEW s \in Services, PodsReady(s) \/ DeleteStep(s)
      PROVE  UNCHANGED tableVars
  BY <1>2 DEF PodsReady, DeleteStep, StartDelete, DeleteWorkload, SoftDelete,
     DeleteFails, tableVars
<1>3. CASE UNCHANGED vars
  BY <1>3 DEF vars, tableVars
<1> QED BY <1>1, <1>2, <1>3, RequestTable, AttemptTable DEF Next

-----------------------------------------------------------------------------
(* The steps keep the types and the links.                                 *)

OwnInv == SvcTypeOK /\ ReqTypeOK /\ WfTypeOK /\ K8sTypeOK
            /\ faults \in 0 .. MaxFaults /\ Linked

(* A step of an attempt or of a workflow leaves the requests alone.        *)
LEMMA WfStepInv ==
  ASSUME IInv, WfStepOK, UNCHANGED <<svcState, svcConfig, reqVars, cancelReq, del>>,
         build' \in [Deployments -> {"none", "open", "resolved", "closed"}]
  PROVE  ReqTypeOK' /\ WfTypeOK' /\ Linked'
<1>1. ReqTypeOK' /\ WfTypeOK'
  BY DEF IInv, TypeOK, ReqTypeOK, WfTypeOK, WfStepOK, AttemptsOK, reqVars
<1>2. AttemptsOK(attempts)'
  BY DEF WfStepOK, AttemptsOK, reqVars
<1> QED BY <1>1, <1>2 DEF IInv, Linked, WfStepOK, reqVars

LEMMA AttemptOwn ==
  ASSUME IInv, NEW a \in attempts, RunAttempt(a) \/ AttemptFault(a)
  PROVE  OwnInv'
<1> USE DEF IInv, TypeOK
<1>1. a.dep \in Deployments /\ target[a.dep] \in Services /\ AttemptsOK({a})
  BY AttemptFacts DEF Linked, AttemptsOK
<1>2. AttemptsOK({})
  BY DEF AttemptsOK
<1>3. build \in [Deployments -> {"none", "open", "resolved", "closed"}]
  BY DEF WfTypeOK
<1>4. ASSUME WfStepOK, faults' \in 0 .. MaxFaults,
             UNCHANGED <<svcVars, reqVars, cancelReq, build, k8sVars, del>>
      PROVE  OwnInv'
  BY <1>3, <1>4, WfStepInv
  DEF OwnInv, SvcTypeOK, K8sTypeOK, svcVars, k8sVars
<1>5. CASE RunWrite(a)
  <2>1. WfStepOK /\ faults' \in 0 .. MaxFaults
    BY <1>2, <1>5, FinishedOK, FailedOK DEF RunWrite
  <2> QED BY <1>4, <1>5, <2>1 DEF RunWrite
<1>6. CASE RunDeployRead(a)
  <2>1. ASSUME svcState[target[a.dep]] = "live",
               attempts' = (attempts \ {a}) \cup
                 {[a EXCEPT !.pc = "apply", !.cfg = svcConfig[target[a.dep]]]},
               UNCHANGED wf
        PROVE  WfStepOK
    <3>1. svcConfig[target[a.dep]] \in Configs
      BY <1>1, <2>1 DEF Linked
    <3>2. AttemptsOK({[a EXCEPT !.pc = "apply",
                                !.cfg = svcConfig[target[a.dep]]]})
      BY <1>1, <3>1 DEF AttemptsOK, Attempt
    <3>3. AttemptsOK(attempts')
      BY <2>1, <3>2 DEF Linked, AttemptsOK
    <3> QED BY <2>1, <3>3 DEF WfTypeOK, Linked, WfStepOK
  <2>2. WfStepOK
    BY <1>2, <1>6, <2>1, FailedOK DEF RunDeployRead
  <2> QED BY <1>4, <1>6, <2>2 DEF RunDeployRead
<1>7. CASE RunDeployApply(a)
  <2>1. WfStepOK /\ faults' \in 0 .. MaxFaults
    BY <1>7, FinishedOK DEF RunDeployApply
  <2>2. [dep |-> a.dep, cfg |-> a.cfg] \in Object
    BY <1>1, <1>7 DEF RunDeployApply, AttemptsOK, Object
  <2>3. K8sTypeOK'
    BY <1>1, <1>7, <2>2 DEF RunDeployApply, K8sTypeOK
  <2>4. SvcTypeOK'
    BY <1>7 DEF RunDeployApply, SvcTypeOK, svcVars
  <2> QED BY <1>3, <1>7, <2>1, <2>3, <2>4, WfStepInv
      DEF RunDeployApply, OwnInv, svcVars
<1>8. CASE RunSupersede(a)
  <2>1. WfStepOK
    BY <1>8, ProceedOK DEF RunSupersede
  <2> QED BY <1>4, <1>8, <2>1 DEF RunSupersede
<1>9. CASE RunMarkActive(a)
  <2>1. WfStepOK
    BY <1>2, <1>9, ProceedOK, FailedOK DEF RunMarkActive
  <2>2. late' \in [Deployments -> SUBSET Deployments]
    <3>1. CASE NoteLate(a.dep, serviceId[a.dep])
      BY <1>1, <3>1 DEF NoteLate, K8sTypeOK
    <3>2. CASE late' = late
      BY <3>2 DEF K8sTypeOK
    <3> QED BY <1>9, <3>1, <3>2 DEF RunMarkActive
  <2>3. K8sTypeOK'
    BY <1>9, <2>2 DEF RunMarkActive, K8sTypeOK
  <2>4. SvcTypeOK'
    BY <1>9 DEF RunMarkActive, SvcTypeOK, svcVars
  <2> QED BY <1>3, <1>9, <2>1, <2>3, <2>4, WfStepInv
      DEF RunMarkActive, OwnInv, svcVars
<1>10. CASE RunSetPointer(a)
  <2>1. WfStepOK /\ faults' \in 0 .. MaxFaults
    BY <1>10, FinishedOK DEF RunSetPointer
  <2>2. SvcTypeOK'
    BY <1>1, <1>10 DEF RunSetPointer, SvcTypeOK
  <2>3. K8sTypeOK'
    BY <1>10 DEF RunSetPointer, K8sTypeOK, k8sVars
  <2> QED BY <1>3, <1>10, <2>1, <2>2, <2>3, WfStepInv
      DEF RunSetPointer, OwnInv
<1>11. CASE AttemptFault(a)
  <2>1. AttemptsOK({[a EXCEPT !.mode = "abandoned"]})
        /\ AttemptsOK({[a EXCEPT !.mode = "expired"]})
    BY <1>1 DEF AttemptsOK, Attempt
  <2>2. WfStepOK
    BY <1>2, <1>11, <2>1, FailedOK
    DEF AttemptFault, AttemptFails, AttemptTimesOut
  <2>3. faults' \in 0 .. MaxFaults
    BY <1>11, BoundsAreNat DEF AttemptFault, AttemptFails, AttemptTimesOut, Fault
  <2> QED BY <1>4, <1>11, <2>2, <2>3
      DEF AttemptFault, AttemptFails, AttemptTimesOut
<1> QED BY <1>5, <1>6, <1>7, <1>8, <1>9, <1>10, <1>11 DEF RunAttempt

LEMMA WorkflowOwn ==
  ASSUME IInv, NEW d \in Deployments, WorkflowStep(d)
  PROVE  OwnInv'
<1> USE DEF IInv, TypeOK
<1>1. wf[d] \in WfOpen \cup WfClosed => reqPc[d] # "idle"
  BY Names DEF Linked
<1>2. AttemptsOK({}) /\ AttemptsOK({[a EXCEPT !.mode = "abandoned"] : a \in AwaitedOf(d)})
  <2>1. \A a \in AwaitedOf(d) : AttemptsOK({[a EXCEPT !.mode = "abandoned"]})
    BY DEF AwaitedOf, Linked, AttemptsOK, Attempt
  <2> QED BY <2>1 DEF AttemptsOK
<1>3. ASSUME WfStepOK,
             build' \in [Deployments -> {"none", "open", "resolved", "closed"}],
             UNCHANGED <<svcVars, reqVars, cancelReq, k8sVars, del, faults>>
      PROVE  OwnInv'
  BY <1>3, WfStepInv DEF OwnInv, SvcTypeOK, K8sTypeOK, svcVars, k8sVars
<1>4. UNCHANGED <<wf, attempts>> => WfStepOK
  BY DEF WfTypeOK, Linked, WfStepOK
<1>5. build \in [Deployments -> {"none", "open", "resolved", "closed"}]
  BY DEF WfTypeOK
<1>6. \A st \in {"open", "resolved", "closed"} : SetBuild(d, st) =>
        build' \in [Deployments -> {"none", "open", "resolved", "closed"}]
  BY <1>5 DEF SetBuild
<1>7. wf[d] \in WfOpen \cup WfClosed =>
        \A st \in WfOpen \cup WfClosed : Enter(d, st, {}) => WfStepOK
  BY <1>1, <1>2, EnterOK
<1>8. {"build", "rollout", "deploy", "active", "failing"} \subseteq WfOpen
      /\ "cancelled" \in WfClosed
  BY DEF WfOpen, WfClosed, Acts
<1>9. CASE StartBuild(d)
  BY <1>3, <1>4, <1>5, <1>6, <1>7, <1>8, <1>9 DEF StartBuild
<1>10. CASE ResolveBuild(d)
  BY <1>3, <1>4, <1>6, <1>10 DEF ResolveBuild
<1>11. CASE FinishBuild(d)
  BY <1>3, <1>6, <1>7, <1>8, <1>11 DEF FinishBuild
<1>12. CASE RolloutSucceeds(d)
  BY <1>3, <1>5, <1>7, <1>8, <1>12 DEF RolloutSucceeds
<1>13. CASE RolloutFails(d)
  BY <1>3, <1>5, <1>7, <1>8, <1>13 DEF RolloutFails
<1>14. CASE DeliverCancel(d)
  <2>1. WfStepOK
    BY <1>1, <1>2, <1>8, <1>14, EnterOK DEF DeliverCancel
  <2> QED BY <1>3, <1>5, <1>14, <2>1 DEF DeliverCancel
<1>15. CASE TerminateBuild(d)
  BY <1>3, <1>4, <1>6, <1>15 DEF TerminateBuild
<1> QED BY <1>9, <1>10, <1>11, <1>12, <1>13, <1>14, <1>15 DEF WorkflowStep

(* A request's links only grow: none returns to "idle", and only a request *)
(* that is still idle gets a target.                                       *)
LEMMA RequestLinks ==
  ASSUME IInv, UNCHANGED <<wf, attempts, del>>,
         ReqTypeOK',
         \A s \in Services :
           /\ svcState'[s] # "absent" => svcConfig'[s] \in Configs
           /\ svcState[s] # "absent" => svcState'[s] # "absent",
         \A d \in Deployments :
           /\ reqPc[d] # "idle" => reqPc'[d] # "idle"
           /\ reqPc'[d] # "idle" => target'[d] \in Services
  PROVE  Linked'
<1>1. AttemptsOK(attempts)'
  BY DEF IInv, Linked, AttemptsOK, Attempt
<1> QED BY <1>1 DEF IInv, Linked

LEMMA RequestOwn ==
  ASSUME IInv, NEW d \in Deployments,
         NewRequest(d) \/ RequestStep(d) \/ RequestFault(d)
  PROVE  OwnInv'
<1> USE DEF IInv, TypeOK
<1>1. ASSUME UNCHANGED <<wfVars, attempts, k8sVars, del>>
      PROVE  WfTypeOK' /\ K8sTypeOK'
  BY <1>1 DEF WfTypeOK, K8sTypeOK, wfVars, k8sVars
<1>2. UNCHANGED svcVars =>
        /\ SvcTypeOK'
        /\ \A s \in Services :
             /\ svcState'[s] # "absent" => svcConfig'[s] \in Configs
             /\ svcState[s] # "absent" => svcState'[s] # "absent"
  BY DEF SvcTypeOK, Linked, svcVars
<1>3. Fault => faults' \in 0 .. MaxFaults
  BY BoundsAreNat DEF Fault
<1>4. ASSUME ReqTypeOK', SvcTypeOK', faults' \in 0 .. MaxFaults,
             UNCHANGED <<wfVars, attempts, k8sVars, del>>,
             \A s \in Services :
               /\ svcState'[s] # "absent" => svcConfig'[s] \in Configs
               /\ svcState[s] # "absent" => svcState'[s] # "absent",
             \A e \in Deployments :
               /\ reqPc[e] # "idle" => reqPc'[e] # "idle"
               /\ reqPc'[e] # "idle" => target'[e] \in Services
      PROVE  OwnInv'
  BY <1>1, <1>4, RequestLinks DEF OwnInv, wfVars
<1>5. ASSUME NEW s \in Services, NEW c \in Configs,
             BeginCreate(d, s, c) \/ BeginUpdate(d, s, c)
      PROVE  OwnInv'
  <2>1. ReqTypeOK' /\ SvcTypeOK'
    BY <1>5 DEF BeginCreate, BeginUpdate, Goto, ReqTypeOK, SvcTypeOK
  <2>2. /\ \A t \in Services :
             /\ svcState'[t] # "absent" => svcConfig'[t] \in Configs
             /\ svcState[t] # "absent" => svcState'[t] # "absent"
        /\ \A e \in Deployments :
             /\ reqPc[e] # "idle" => reqPc'[e] # "idle"
             /\ reqPc'[e] # "idle" => target'[e] \in Services
    BY <1>5 DEF BeginCreate, BeginUpdate, Goto, ReqTypeOK, SvcTypeOK, Linked
  <2> QED BY <1>4, <1>5, <2>1, <2>2 DEF BeginCreate, BeginUpdate
<1>6. ASSUME NEW s \in Services, NEW c \in Commits \cup {None},
             BeginRedeploy(d, s, c)
      PROVE  OwnInv'
  <2>1. ReqTypeOK'
    BY <1>6 DEF BeginRedeploy, Goto, ReqTypeOK
  <2>2. \A e \in Deployments :
           /\ reqPc[e] # "idle" => reqPc'[e] # "idle"
           /\ reqPc'[e] # "idle" => target'[e] \in Services
    BY <1>6 DEF BeginRedeploy, Goto, ReqTypeOK, Linked
  <2> QED BY <1>2, <1>4, <1>6, <2>1, <2>2 DEF BeginRedeploy
<1>7. ASSUME ReadService(d) \/ CancelInFlight(d) \/ InsertRow(d)
             \/ CancelInFlightFails(d) \/ RequestAborts(d)
      PROVE  OwnInv'
  <2>1. target[d] \in Services
    BY <1>7 DEF ReadService, CancelInFlight, InsertRow, CancelInFlightFails,
                RequestAborts, Linked
  <2>2. ReqTypeOK'
    <3>1. CASE ReadService(d)
      BY <2>1, <3>1 DEF ReadService, Goto, ReqTypeOK, SvcTypeOK
    <3>2. CASE CancelInFlight(d)
      <4>1. RowsOf(target[d], InFlight) \ {d} \in SUBSET Deployments
        BY DEF RowsOf
      <4> QED BY <3>2, <4>1 DEF CancelInFlight, Goto, ReqTypeOK
    <3>3. CASE InsertRow(d) \/ CancelInFlightFails(d) \/ RequestAborts(d)
      BY <3>3 DEF InsertRow, CancelInFlightFails, RequestAborts, Goto, ReqTypeOK
    <3> QED BY <1>7, <3>1, <3>2, <3>3
  <2>3. \A e \in Deployments :
           /\ reqPc[e] # "idle" => reqPc'[e] # "idle"
           /\ reqPc'[e] # "idle" => target'[e] \in Services
    BY <1>7, <2>1 DEF ReadService, CancelInFlight, InsertRow,
       CancelInFlightFails, RequestAborts, Goto, ReqTypeOK, Linked
  <2>4. faults' \in 0 .. MaxFaults
    BY <1>3, <1>7 DEF ReadService, CancelInFlight, InsertRow,
       CancelInFlightFails, RequestAborts
  <2> QED BY <1>2, <1>4, <1>7, <2>2, <2>3, <2>4
      DEF ReadService, CancelInFlight, InsertRow, CancelInFlightFails,
          RequestAborts
<1>8. ASSUME NEW e \in Deployments, SignalCancel(d, e) \/ SignalCancelFails(d, e)
      PROVE  OwnInv'
  <2>1. ReqTypeOK' /\ WfTypeOK'
    <3>1. toCancel' = [toCancel EXCEPT ![d] = @ \ {e}]
          /\ UNCHANGED <<reqPc, target, commit, snapshot, wf, build, attempts>>
      BY <1>8 DEF SignalCancel, SignalCancelFails, wfVars
    <3>2. ReqTypeOK'
      BY <3>1 DEF ReqTypeOK
    <3>3. cancelReq' \in [Deployments -> BOOLEAN]
      <4>1. CASE SignalCancel(d, e)
        BY <4>1, Zenon DEF SignalCancel, WfTypeOK
      <4>2. CASE SignalCancelFails(d, e)
        BY <4>2 DEF SignalCancelFails, WfTypeOK, wfVars
      <4> QED BY <1>8, <4>1, <4>2
    <3> QED BY <3>1, <3>2, <3>3 DEF WfTypeOK
  <2>2. Linked'
    BY <1>2, <1>8, <2>1, RequestLinks
    DEF SignalCancel, SignalCancelFails, Linked, wfVars
  <2>3. faults' \in 0 .. MaxFaults
    BY <1>3, <1>8 DEF SignalCancel, SignalCancelFails
  <2> QED BY <1>2, <1>8, <2>1, <2>2, <2>3
      DEF SignalCancel, SignalCancelFails, OwnInv, K8sTypeOK, k8sVars
<1>9. CASE StartWorkflow(d)
  <2>1. ReqTypeOK' /\ reqPc'[d] # "idle" /\ target[d] \in Services
    BY <1>9 DEF StartWorkflow, Goto, ReqTypeOK, Linked
  <2>2. AttemptsOK({NewAttempt(d, "building", 1)})
    <3>1. 1 \in 1 .. MaxAttempts /\ "building" \in Acts
      BY BoundsAreNat DEF Acts
    <3> QED BY <1>9, <3>1, NewAttemptOK DEF StartWorkflow
  <2>3. WfTypeOK'
    BY <1>9, <2>2 DEF StartWorkflow, WfTypeOK, AttemptsOK, WfOpen, Acts
  <2>4. AttemptsOK(attempts)'
    BY <1>9, <2>1, <2>2
    DEF StartWorkflow, Linked, AttemptsOK, Attempt, Goto, ReqTypeOK
  <2>5. Linked'
    BY <1>2, <1>9, <2>1, <2>4 DEF StartWorkflow, Linked, Goto, ReqTypeOK, WfTypeOK
  <2> QED BY <1>2, <1>9, <2>1, <2>3, <2>5
      DEF StartWorkflow, OwnInv, K8sTypeOK, k8sVars
<1> QED BY <1>5, <1>6, <1>7, <1>8, <1>9 DEF NewRequest, RequestStep, RequestFault

LEMMA ServiceOwn ==
  ASSUME IInv, NEW s \in Services, PodsReady(s) \/ DeleteStep(s)
  PROVE  OwnInv'
<1> USE DEF IInv, TypeOK
<1>1. UNCHANGED <<reqVars, wfVars, attempts>>
  BY DEF PodsReady, DeleteStep, StartDelete, DeleteWorkload, SoftDelete, DeleteFails
<1>2. ReqTypeOK' /\ WfTypeOK' /\ AttemptsOK(attempts)'
  BY <1>1 DEF ReqTypeOK, WfTypeOK, Linked, AttemptsOK, reqVars, wfVars
<1>3. faults' \in 0 .. MaxFaults
  BY BoundsAreNat
  DEF PodsReady, DeleteStep, StartDelete, DeleteWorkload, SoftDelete,
      DeleteFails, Fault
<1>4. SvcTypeOK' /\ svcConfig' = svcConfig
  BY DEF PodsReady, DeleteStep, StartDelete, DeleteWorkload, SoftDelete,
      DeleteFails, SvcTypeOK, svcVars
<1>6. \A t \in Services :
        /\ svcState'[t] # "absent" <=> svcState[t] # "absent"
        /\ del'[t] # "none" => svcState[t] # "absent"
  BY DEF PodsReady, DeleteStep, StartDelete, DeleteWorkload, SoftDelete,
      DeleteFails, SvcTypeOK, K8sTypeOK, Linked, svcVars
<1>5. K8sTypeOK'
  BY DEF PodsReady, DeleteStep, StartDelete, DeleteWorkload, SoftDelete,
      DeleteFails, K8sTypeOK, Object, k8sVars
<1> QED BY <1>1, <1>2, <1>3, <1>4, <1>5, <1>6
    DEF OwnInv, Linked, reqVars, wfVars

-----------------------------------------------------------------------------

LEMMA InitInv == ASSUME Init PROVE IInv
<1>1. TableInv
  BY TableInitInv DEF Init
<1>2. SvcTypeOK /\ ReqTypeOK /\ WfTypeOK /\ K8sTypeOK
  BY DEF Init, SvcTypeOK, ReqTypeOK, WfTypeOK, K8sTypeOK
<1>3. faults \in 0 .. MaxFaults
  BY BoundsAreNat DEF Init
<1>4. Linked
  BY DEF Init, Linked, AttemptsOK
<1> QED BY <1>1, <1>2, <1>3, <1>4 DEF IInv, TypeOK, TableInv

LEMMA NextInv == ASSUME IInv, [Next]_vars PROVE IInv'
<1>1. TableInv'
  BY NextTable, TableNextInv DEF IInv
<1>2. OwnInv'
  <2>1. CASE Next
    BY <2>1, RequestOwn, AttemptOwn, WorkflowOwn, ServiceOwn DEF Next
  <2>2. CASE UNCHANGED vars
    <3>1. SvcTypeOK' /\ ReqTypeOK' /\ WfTypeOK' /\ K8sTypeOK'
          /\ faults' \in 0 .. MaxFaults
      BY <2>2 DEF IInv, TypeOK, SvcTypeOK, ReqTypeOK, WfTypeOK, K8sTypeOK,
         vars, svcVars, reqVars, wfVars, k8sVars
    <3>2. Linked'
      BY <2>2 DEF IInv, Linked, AttemptsOK, vars, svcVars, reqVars, wfVars
    <3> QED BY <3>1, <3>2 DEF OwnInv
  <2> QED BY <2>1, <2>2
<1> QED BY <1>1, <1>2 DEF IInv, OwnInv, TypeOK, TableInv

(* Every variable keeps its type, for any constants.                       *)
THEOREM TypeCorrect == Spec => []TypeOK
<1>1. Init => IInv
  BY InitInv
<1>2. IInv /\ [Next]_vars => IInv'
  BY NextInv
<1>3. IInv => TypeOK
  BY DEF IInv
<1> QED BY <1>1, <1>2, <1>3, PTL DEF Spec

(* The handlers, workflows and attempts, overlapping and failing as they   *)
(* may, touch the deployments table only through its statements, each      *)
(* refused or applied as a whole.                                          *)
THEOREM Implements == Spec => ImplementsTable
<1>1. Init => IInv
  BY InitInv
<1>2. IInv /\ [Next]_vars => IInv'
  BY NextInv
<1>3. IInv /\ [Next]_vars => [TableNext]_tableVars
  BY NextTable
<1>4. Init => TableInit
  BY DEF Init
<1> QED BY <1>1, <1>2, <1>3, <1>4, PTL DEF Spec, TableSpec, ImplementsTable

(* So, however many requests overlap, a service has one live row at most   *)
(* and one in flight.                                                      *)
THEOREM OneDeploymentPerService == Spec => []OnePerService
  BY Implements, TableOnePerService, PTL DEF ImplementsTable

(* And rows agree with their timestamps.                                   *)
THEOREM RowsAgreeWithTimestamps == Spec => []FinishedIffEnded
  BY Implements, TableFinishedIffEnded, PTL DEF ImplementsTable

(* And no late attempt reopens or restarts a finished row.                 *)
THEOREM FinishedRowsStayFinished == Spec => FinishedIsFinal
  BY Implements, TableFinishedIsFinal, PTL DEF ImplementsTable

-----------------------------------------------------------------------------
(* What a deployment has behind it when it reaches a stage: nothing is     *)
(* applied that did not start, nothing is recorded as live that was not    *)
(* applied, and no workflow closes or is told to stop before its row says  *)
(* so, except on the returns that leave the row as it is.                  *)

(* What deployment d has behind it when its workflow, or one of its        *)
(* attempts, is at stage st.                                               *)
Earned(d, st) ==
  /\ st \in {"build", "deploy", "deploying", "rollout", "active",
             "completed", "failing"} => startedAt[d]
  /\ st \in {"deploying", "rollout", "active", "completed"} => d \in applied
  /\ st \in {"completed", "failed", "cancelled"} => finishedAt[d]

(* The steps of an attempt are those of its activity.                      *)
PcFits(a) ==
  /\ a.act = "deploy" <=> a.pc \in {"read", "apply"}
  /\ a.act = "active" <=> a.pc \in {"supersede", "mark", "point"}

AttemptHistory(a) ==
  /\ PcFits(a)
  /\ Earned(a.dep, a.act)
  /\ a.pc = "point" => finishedAt[a.dep]

WfHistory ==
  /\ \A d \in Deployments : Earned(d, wf[d])
  /\ \A a \in attempts : AttemptHistory(a)

RequestHistory ==
  \A d \in Deployments :
    /\ cancelReq[d] => finishedAt[d]
    /\ \A e \in toCancel[d] : finishedAt[e]

History ==
  /\ WfHistory /\ RequestHistory /\ AppliedWasStarted /\ PromotedWasApplied

HInv == IInv /\ History

(* What a deployment has behind it, it keeps.                              *)
Grows ==
  /\ applied \subseteq applied'
  /\ \A d \in Deployments :
       /\ startedAt[d] => startedAt'[d]
       /\ finishedAt[d] => finishedAt'[d]

-----------------------------------------------------------------------------

(* Only Deploy applies an object.                                          *)
LEMMA NextApplied ==
  ASSUME [Next]_vars
  PROVE  \/ applied' = applied
         \/ \E a \in attempts : RunDeployApply(a) /\ applied' = applied \cup {a.dep}
<1>1. ASSUME NEW d \in Deployments,
             NewRequest(d) \/ RequestStep(d) \/ RequestFault(d) \/ WorkflowStep(d)
      PROVE  applied' = applied
  BY <1>1 DEF NewRequest, BeginCreate, BeginUpdate, BeginRedeploy, RequestStep,
     ReadService, CancelInFlight, InsertRow, StartWorkflow, SignalCancel,
     RequestFault, CancelInFlightFails, RequestAborts, SignalCancelFails,
     WorkflowStep, StartBuild, ResolveBuild, FinishBuild, RolloutSucceeds,
     RolloutFails, DeliverCancel, TerminateBuild, k8sVars
<1>2. ASSUME NEW a \in attempts, RunAttempt(a) \/ AttemptFault(a)
      PROVE  \/ applied' = applied
             \/ RunDeployApply(a) /\ applied' = applied \cup {a.dep}
  BY <1>2 DEF RunAttempt, RunWrite, RunDeployRead, RunDeployApply, RunSupersede,
     RunMarkActive, RunSetPointer, AttemptFault, AttemptFails,
     AttemptTimesOut, k8sVars
<1>3. ASSUME NEW s \in Services, PodsReady(s) \/ DeleteStep(s)
      PROVE  applied' = applied
  BY <1>3 DEF PodsReady, DeleteStep, StartDelete, DeleteWorkload, SoftDelete,
     DeleteFails, k8sVars
<1> QED BY <1>1, <1>2, <1>3 DEF Next, vars, k8sVars

LEMMA NextGrows == ASSUME IInv, [Next]_vars PROVE Grows
<1>1. TableInv /\ [TableNext]_tableVars
  BY NextTable DEF IInv
<1> QED BY <1>1, NextApplied, TableNextStarted, TableNextFinal DEF Grows

LEMMA EarnedGrows ==
  ASSUME Grows, NEW d \in Deployments, NEW st, Earned(d, st)
  PROVE  Earned(d, st)'
  BY DEF Grows, Earned

LEMMA AttemptHistoryGrows ==
  ASSUME Grows, NEW a, a.dep \in Deployments, AttemptHistory(a)
  PROVE  AttemptHistory(a)'
  BY EarnedGrows DEF Grows, AttemptHistory, PcFits

(* An attempt's stage and mode are all that its history depends on.        *)
LEMMA NewAttemptHistory ==
  ASSUME NEW d \in Deployments, NEW act \in Acts, NEW n, Earned(d, act)'
  PROVE  AttemptHistory(NewAttempt(d, act, n))'
<1>1. /\ act = "deploy" <=> FirstStep[act] \in {"read", "apply"}
      /\ act = "active" <=> FirstStep[act] \in {"supersede", "mark", "point"}
      /\ FirstStep[act] # "point"
  BY DEF FirstStep, Acts
<1> QED BY <1>1 DEF AttemptHistory, PcFits, NewAttempt

(* wf' is Earned when what it moves to is.                                 *)
LEMMA WfHistoryGrows ==
  ASSUME IInv, WfHistory, Grows, NEW S, attempts' = S,
         \A a \in S : AttemptHistory(a)',
         wf' = wf \/ \E d \in Deployments, st \in WfOpen \cup WfClosed :
                       wf' = [wf EXCEPT ![d] = st] /\ Earned(d, st)'
  PROVE  WfHistory'
<1>1. ASSUME NEW e \in Deployments PROVE Earned(e, wf[e])'
  <2>1. CASE wf' = wf
    BY <2>1 DEF WfHistory, Grows, Earned
  <2>2. ASSUME NEW d \in Deployments, NEW st \in WfOpen \cup WfClosed,
               wf' = [wf EXCEPT ![d] = st], Earned(d, st)'
        PROVE  Earned(e, wf[e])'
    <3>1. wf'[e] = IF e = d THEN st ELSE wf[e]
      BY <2>2 DEF IInv, TypeOK, WfTypeOK
    <3> QED BY <2>2, <3>1 DEF WfHistory, Grows, Earned
  <2> QED BY <2>1, <2>2
<1> QED BY <1>1 DEF WfHistory

LEMMA AttemptIs ==
  ASSUME IInv, NEW a \in attempts
  PROVE  a \in Attempt /\ a.dep \in Deployments /\ a.act \in Acts
  BY DEF IInv, Linked, AttemptsOK, Attempt

LEMMA KeptHistory ==
  ASSUME IInv, WfHistory, Grows, NEW a \in attempts
  PROVE  AttemptHistory(a)'
  BY AttemptIs, AttemptHistoryGrows DEF WfHistory

LEMMA EnterHistory ==
  ASSUME IInv, WfHistory, Grows, NEW d \in Deployments,
         NEW st \in WfOpen \cup WfClosed, Earned(d, st)',
         NEW left, \A a \in left : AttemptHistory(a)', Enter(d, st, left)
  PROVE  WfHistory'
<1>1. \A a \in attempts' : AttemptHistory(a)'
  BY KeptHistory, NewAttemptHistory DEF Enter
<1> QED BY <1>1, WfHistoryGrows DEF Enter

LEMMA SucceededHistory ==
  ASSUME IInv, WfHistory, Grows, NEW a \in attempts,
         Earned(a.dep, OnSuccess[a.act])', Succeeded(a)
  PROVE  WfHistory'
<1>1. CASE Enter(a.dep, OnSuccess[a.act], {})
  BY <1>1, AttemptIs, Names, EnterHistory
<1>2. CASE attempts' = attempts \ {a} /\ wf' = wf
  BY <1>2, KeptHistory, WfHistoryGrows
<1> QED BY <1>1, <1>2 DEF Succeeded

(* A failure earns nothing, and nothing is needed for what follows it.     *)
LEMMA FailedHistory ==
  ASSUME IInv, WfHistory, Grows, NEW a \in attempts,
         NEW left, \A b \in left : AttemptHistory(b)', Failed(a, left)
  PROVE  WfHistory'
<1>1. Earned(a.dep, a.act)'
  BY AttemptIs, EarnedGrows DEF WfHistory, AttemptHistory
<1>2. Earned(a.dep, OnFailure[a.act])'
  BY <1>1, AttemptIs DEF Acts, OnFailure, Earned
<1>3. CASE /\ attempts' = (attempts \ {a}) \cup left \cup
                            {NewAttempt(a.dep, a.act, a.try + 1)}
           /\ wf' = wf
  <2>1. AttemptHistory(NewAttempt(a.dep, a.act, a.try + 1))'
    BY <1>1, AttemptIs, NewAttemptHistory
  <2> QED BY <1>3, <2>1, KeptHistory, WfHistoryGrows
<1>4. CASE Enter(a.dep, OnFailure[a.act], left)
  BY <1>2, <1>4, AttemptIs, Names, EnterHistory
<1>5. CASE attempts' = (attempts \ {a}) \cup left /\ wf' = wf
  BY <1>5, KeptHistory, WfHistoryGrows
<1> QED BY <1>3, <1>4, <1>5 DEF Failed

LEMMA FinishedHistory ==
  ASSUME IInv, WfHistory, Grows, NEW a \in attempts,
         Earned(a.dep, OnSuccess[a.act])', Finished(a)
  PROVE  WfHistory'
  BY SucceededHistory, FailedHistory DEF Finished

LEMMA ProceedHistory ==
  ASSUME IInv, WfHistory, Grows, NEW a \in attempts, NEW pc,
         AttemptHistory([a EXCEPT !.pc = pc])', Proceed(a, pc)
  PROVE  WfHistory'
<1>1. \A b \in attempts' : AttemptHistory(b)'
  BY KeptHistory DEF Proceed
<1> QED BY <1>1, WfHistoryGrows DEF Proceed

-----------------------------------------------------------------------------
(* The steps of attempts and workflows.                                    *)

LEMMA AttemptStepHistory ==
  ASSUME HInv, Grows, IInv', NEW a \in attempts, RunAttempt(a) \/ AttemptFault(a)
  PROVE  WfHistory'
<1> USE DEF HInv, History
<1>1. a \in Attempt /\ a.dep \in Deployments /\ a.act \in Acts
  BY AttemptIs
<1>2. AttemptHistory(a) /\ AttemptHistory(a)'
  BY KeptHistory DEF WfHistory
<1>3. CASE RunWrite(a)
  <2>1. Earned(a.dep, OnSuccess[a.act])' \/ Failed(a, {})
    <3>1. a.act \in {"building", "deploying", "failing"} \/ Failed(a, {})
      BY <1>3 DEF RunWrite
    <3>2. CASE a.act = "building" /\ UpdateDeploymentBuilding(a.dep)
      BY <1>1, <3>2 DEF UpdateDeploymentBuilding, UpdateRow, Earned, OnSuccess,
         IInv, TableInv, TableTypeOK
    <3>3. CASE a.act = "deploying"
      BY <1>2, <3>3 DEF AttemptHistory, Earned, OnSuccess
    <3>4. CASE a.act = "failing" /\ MarkDeploymentFailed(a.dep)
      BY <1>1, <3>4 DEF MarkDeploymentFailed, UpdateRow, Earned, OnSuccess,
         IInv, TableInv, TableTypeOK
    <3> QED BY <1>3, <3>1, <3>2, <3>3, <3>4 DEF RunWrite
  <2>2. Finished(a) \/ Failed(a, {})
    BY <1>3 DEF RunWrite
  <2> QED BY <2>1, <2>2, FinishedHistory, FailedHistory
<1>4. CASE RunDeployRead(a)
  <2>1. ASSUME attempts' = (attempts \ {a}) \cup
                 {[a EXCEPT !.pc = "apply", !.cfg = svcConfig[target[a.dep]]]},
               wf' = wf
        PROVE  WfHistory'
    <3>1. ASSUME NEW b,
                 b = [a EXCEPT !.pc = "apply", !.cfg = svcConfig[target[a.dep]]]
          PROVE  AttemptHistory(b)'
      BY <1>1, <1>2, <1>4, <3>1
      DEF RunDeployRead, AttemptHistory, PcFits, Attempt
    <3> QED BY <2>1, <3>1, KeptHistory, WfHistoryGrows
  <2> QED BY <1>4, <2>1, FailedHistory DEF RunDeployRead
<1>5. CASE RunDeployApply(a)
  <2>1. a.act = "deploy" /\ a.dep \in applied'
    BY <1>2, <1>5 DEF RunDeployApply, AttemptHistory, PcFits
  <2>2. Earned(a.dep, OnSuccess[a.act])'
    BY <1>2, <2>1 DEF AttemptHistory, Earned, OnSuccess
  <2> QED BY <1>5, <2>2, FinishedHistory DEF RunDeployApply
<1>6. CASE RunSupersede(a)
  <2>1. AttemptHistory([a EXCEPT !.pc = "mark"])'
    BY <1>1, <1>2, <1>6 DEF RunSupersede, AttemptHistory, PcFits, Attempt
  <2> QED BY <1>6, <2>1, ProceedHistory DEF RunSupersede
<1>7. CASE RunMarkActive(a)
  <2>1. ASSUME MarkDeploymentActive(a.dep), Proceed(a, "point")
        PROVE  WfHistory'
    <3>1. finishedAt'[a.dep]
      BY <1>1, <2>1 DEF MarkDeploymentActive, UpdateRow, IInv, TableInv, TableTypeOK
    <3>2. AttemptHistory([a EXCEPT !.pc = "point"])'
      BY <1>1, <1>2, <1>7, <3>1 DEF RunMarkActive, AttemptHistory, PcFits, Attempt
    <3> QED BY <2>1, <3>2, ProceedHistory
  <2> QED BY <1>7, <2>1, FailedHistory DEF RunMarkActive
<1>8. CASE RunSetPointer(a)
  <2>1. a.act = "active" /\ finishedAt'[a.dep]
    BY <1>2, <1>8 DEF RunSetPointer, AttemptHistory, PcFits
  <2>2. Earned(a.dep, OnSuccess[a.act])'
    BY <1>2, <2>1 DEF AttemptHistory, Earned, OnSuccess
  <2> QED BY <1>8, <2>2, FinishedHistory DEF RunSetPointer
<1>9. CASE AttemptFault(a)
  <2>1. \A m \in {"abandoned", "expired"} : AttemptHistory([a EXCEPT !.mode = m])'
    BY <1>1, <1>2 DEF AttemptHistory, PcFits, Attempt
  <2>2. Failed(a, {}) \/ \E m \in {"abandoned", "expired"} :
                            Failed(a, {[a EXCEPT !.mode = m]})
    BY <1>9 DEF AttemptFault, AttemptFails, AttemptTimesOut
  <2> QED BY <2>1, <2>2, FailedHistory
<1> QED BY <1>3, <1>4, <1>5, <1>6, <1>7, <1>8, <1>9 DEF RunAttempt

LEMMA WorkflowStepHistory ==
  ASSUME HInv, Grows, NEW d \in Deployments, WorkflowStep(d)
  PROVE  WfHistory'
<1> USE DEF HInv, History
<1>1. ASSUME NEW st \in WfOpen \cup WfClosed, Enter(d, st, {}), Earned(d, st)
      PROVE  WfHistory'
  BY <1>1, EarnedGrows, EnterHistory
<1>2. ASSUME UNCHANGED <<wf, attempts>>
      PROVE  WfHistory'
  BY <1>2, KeptHistory, WfHistoryGrows
<1>3. {"build", "rollout", "deploy", "active", "failing"} \subseteq WfOpen
      /\ "cancelled" \in WfClosed
  BY DEF WfOpen, WfClosed, Acts
<1>4. Earned(d, wf[d])
  BY DEF WfHistory
<1>5. wf[d] = "build" => Earned(d, "failing") /\ Earned(d, "deploy")
  BY <1>4 DEF Earned
<1>6. wf[d] = "rollout" => Earned(d, "failing") /\ Earned(d, "active")
  BY <1>4 DEF Earned
<1>7. CASE StartBuild(d)
  BY <1>1, <1>2, <1>3, <1>5, <1>7 DEF StartBuild
<1>8. CASE FinishBuild(d)
  BY <1>1, <1>3, <1>5, <1>8 DEF FinishBuild
<1>9. CASE RolloutSucceeds(d) \/ RolloutFails(d)
  BY <1>1, <1>3, <1>6, <1>9 DEF RolloutSucceeds, RolloutFails
<1>10. CASE DeliverCancel(d)
  <2>1. Earned(d, "cancelled")'
    BY <1>10 DEF DeliverCancel, RequestHistory, Grows, Earned
  <2>2. \A a \in AwaitedOf(d) : AttemptHistory([a EXCEPT !.mode = "abandoned"])'
    <3> SUFFICES ASSUME NEW a \in AwaitedOf(d)
                 PROVE  AttemptHistory([a EXCEPT !.mode = "abandoned"])'
      OBVIOUS
    <3>1. a \in Attempt /\ AttemptHistory(a)'
      BY AttemptIs, KeptHistory DEF AwaitedOf
    <3> QED BY <3>1 DEF AttemptHistory, PcFits, Attempt
  <2> QED BY <1>3, <1>10, <2>1, <2>2, EnterHistory DEF DeliverCancel
<1>11. CASE ResolveBuild(d) \/ TerminateBuild(d)
  BY <1>2, <1>11 DEF ResolveBuild, TerminateBuild
<1> QED BY <1>7, <1>8, <1>9, <1>10, <1>11 DEF WorkflowStep

-----------------------------------------------------------------------------
(* The whole invariant.                                                    *)

(* Rows a cancelling request has in hand are finished, and no cancellation *)
(* request is sent for another.                                            *)
LEMMA NextRequestHistory ==
  ASSUME HInv, Grows, [Next]_vars
  PROVE  RequestHistory'
<1> USE DEF HInv, History, IInv, TypeOK
<1>1. ASSUME UNCHANGED <<cancelReq, toCancel>>
      PROVE  RequestHistory'
  <2> SUFFICES ASSUME NEW d \in Deployments
               PROVE  (cancelReq[d] => finishedAt'[d])
                      /\ \A e \in toCancel[d] : finishedAt'[e]
    BY <1>1 DEF RequestHistory
  <2>1. toCancel[d] \subseteq Deployments
    BY DEF ReqTypeOK
  <2> QED BY <2>1 DEF RequestHistory, Grows
<1>2. ASSUME NEW d \in Deployments,
             NewRequest(d) \/ RequestStep(d) \/ RequestFault(d)
      PROVE  RequestHistory'
  <2>1. CASE CancelInFlight(d)
    <3>1. \A e \in toCancel'[d] : finishedAt'[e]
      BY <2>1 DEF CancelInFlight, CancelInFlightDeployments, FinishRows, RowsOf,
         ReqTypeOK
    <3>2. UNCHANGED cancelReq
          /\ \A f \in Deployments \ {d} : toCancel'[f] = toCancel[f]
      BY <2>1 DEF CancelInFlight, ReqTypeOK, wfVars
    <3>3. \A f \in Deployments : toCancel[f] \subseteq Deployments
      BY DEF ReqTypeOK
    <3> QED BY <3>1, <3>2, <3>3 DEF RequestHistory, Grows
  <2>2. ASSUME NEW e \in Deployments, SignalCancel(d, e) \/ SignalCancelFails(d, e)
        PROVE  RequestHistory'
    <3>1. e \in toCancel[d] /\ finishedAt[e]
      BY <2>2 DEF SignalCancel, SignalCancelFails, RequestHistory
    <3>2. \A f \in Deployments : toCancel'[f] \subseteq toCancel[f]
      BY <2>2 DEF SignalCancel, SignalCancelFails, ReqTypeOK
    <3>3. \A f \in Deployments : f # e => (cancelReq'[f] <=> cancelReq[f])
      BY <2>2 DEF SignalCancel, SignalCancelFails, WfTypeOK, wfVars
    <3>4. \A f \in Deployments : toCancel[f] \subseteq Deployments
      BY DEF ReqTypeOK
    <3> QED BY <3>1, <3>2, <3>3, <3>4 DEF RequestHistory, Grows
  <2>3. ASSUME UNCHANGED cancelReq,
               NewRequest(d) \/ ReadService(d) \/ InsertRow(d)
               \/ StartWorkflow(d) \/ CancelInFlightFails(d) \/ RequestAborts(d)
        PROVE  UNCHANGED toCancel
    BY <2>3 DEF NewRequest, BeginCreate, BeginUpdate, BeginRedeploy, ReadService,
       InsertRow, StartWorkflow, CancelInFlightFails, RequestAborts
  <2>4. ASSUME NewRequest(d) \/ ReadService(d) \/ InsertRow(d)
               \/ StartWorkflow(d) \/ CancelInFlightFails(d) \/ RequestAborts(d)
        PROVE  UNCHANGED cancelReq
    BY <2>4 DEF NewRequest, BeginCreate, BeginUpdate, BeginRedeploy, ReadService,
       InsertRow, StartWorkflow, CancelInFlightFails, RequestAborts, wfVars
  <2> QED BY <1>1, <1>2, <2>1, <2>2, <2>3, <2>4 DEF RequestStep, RequestFault
<1>3. ASSUME NEW a \in attempts, RunAttempt(a) \/ AttemptFault(a)
      PROVE  UNCHANGED <<cancelReq, toCancel>>
  BY <1>3 DEF RunAttempt, RunWrite, RunDeployRead, RunDeployApply, RunSupersede,
     RunMarkActive, RunSetPointer, AttemptFault, AttemptFails, AttemptTimesOut,
     reqVars
<1>4. ASSUME NEW d \in Deployments, WorkflowStep(d)
      PROVE  UNCHANGED <<cancelReq, toCancel>>
  BY <1>4 DEF WorkflowStep, StartBuild, ResolveBuild, FinishBuild,
     RolloutSucceeds, RolloutFails, DeliverCancel, TerminateBuild, reqVars
<1>5. ASSUME NEW s \in Services, PodsReady(s) \/ DeleteStep(s)
      PROVE  UNCHANGED <<cancelReq, toCancel>>
  BY <1>5 DEF PodsReady, DeleteStep, StartDelete, DeleteWorkload, SoftDelete,
     DeleteFails, reqVars, wfVars
<1>6. UNCHANGED vars => UNCHANGED <<cancelReq, toCancel>>
  BY DEF vars, reqVars, wfVars
<1> QED BY <1>1, <1>2, <1>3, <1>4, <1>5, <1>6 DEF Next

LEMMA NextWfHistory ==
  ASSUME HInv, Grows, IInv', [Next]_vars
  PROVE  WfHistory'
<1> USE DEF HInv, History
<1>1. ASSUME UNCHANGED <<wf, attempts>>
      PROVE  WfHistory'
  BY <1>1, KeptHistory, WfHistoryGrows
<1>2. ASSUME NEW d \in Deployments,
             NewRequest(d) \/ RequestStep(d) \/ RequestFault(d)
      PROVE  WfHistory'
  <2>1. CASE StartWorkflow(d)
    <3>1. Earned(d, "building")' /\ "building" \in Acts /\ "building" \in WfOpen
      BY DEF Earned, Acts, WfOpen
    <3>2. \A b \in attempts' : AttemptHistory(b)'
      BY <2>1, <3>1, KeptHistory, NewAttemptHistory DEF StartWorkflow
    <3> QED BY <2>1, <3>1, <3>2, WfHistoryGrows DEF StartWorkflow
  <2>2. ASSUME ~StartWorkflow(d)
        PROVE  UNCHANGED <<wf, attempts>>
    BY <1>2, <2>2 DEF NewRequest, BeginCreate, BeginUpdate, BeginRedeploy,
       RequestStep, ReadService, CancelInFlight, InsertRow, SignalCancel,
       RequestFault, CancelInFlightFails, RequestAborts, SignalCancelFails, wfVars
  <2> QED BY <1>1, <2>1, <2>2
<1>3. ASSUME NEW s \in Services, PodsReady(s) \/ DeleteStep(s)
      PROVE  UNCHANGED <<wf, attempts>>
  BY <1>3 DEF PodsReady, DeleteStep, StartDelete, DeleteWorkload, SoftDelete,
     DeleteFails, wfVars
<1>4. UNCHANGED vars => UNCHANGED <<wf, attempts>>
  BY DEF vars, wfVars
<1> QED BY <1>1, <1>2, <1>3, <1>4, AttemptStepHistory, WorkflowStepHistory DEF Next

(* A row that becomes live is made so by MarkDeploymentActive.             *)
LEMMA NextPromoted ==
  ASSUME IInv, [Next]_vars, NEW d \in Deployments,
         status'[d] \in {"active", "superseded"},
         status[d] \notin {"active", "superseded"}
  PROVE  \E a \in attempts : a.dep = d /\ a.pc = "mark"
<1> USE DEF IInv, TableInv, TableTypeOK
<1>1. ASSUME NEW e \in Deployments,
             NewRequest(e) \/ RequestStep(e) \/ RequestFault(e) \/ WorkflowStep(e)
      PROVE  status' = status \/ CancelInFlight(e) \/ InsertRow(e)
  BY <1>1 DEF NewRequest, BeginCreate, BeginUpdate, BeginRedeploy, RequestStep,
     ReadService, StartWorkflow, SignalCancel, RequestFault, CancelInFlightFails,
     RequestAborts, SignalCancelFails, WorkflowStep, StartBuild, ResolveBuild,
     FinishBuild, RolloutSucceeds, RolloutFails, DeliverCancel, TerminateBuild,
     tableVars
<1>2. ASSUME NEW e \in Deployments, CancelInFlight(e) \/ InsertRow(e)
      PROVE  FALSE
  BY <1>2 DEF CancelInFlight, CancelInFlightDeployments, FinishRows, InsertRow,
     CreateDeployment, tableVars
<1>3. ASSUME NEW a \in attempts, RunAttempt(a) \/ AttemptFault(a)
      PROVE  \/ status' = status
             \/ RunWrite(a) \/ RunSupersede(a) \/ RunMarkActive(a)
  BY <1>3 DEF RunAttempt, RunDeployRead, RunDeployApply, RunSetPointer,
     AttemptFault, AttemptFails, AttemptTimesOut, tableVars
<1>4. ASSUME NEW a \in attempts, RunWrite(a)
      PROVE  FALSE
  BY <1>4 DEF RunWrite, UpdateDeploymentBuilding, UpdateDeploymentDeploying,
     MarkDeploymentFailed, UpdateRow, tableVars
<1>5. ASSUME NEW a \in attempts, RunSupersede(a)
      PROVE  FALSE
  BY <1>5 DEF RunSupersede, SupersedeActiveDeployment, FinishRows, RowsOf
<1>6. ASSUME NEW a \in attempts, RunMarkActive(a)
      PROVE  a.dep = d /\ a.pc = "mark"
  BY <1>6 DEF RunMarkActive, MarkDeploymentActive, UpdateRow, tableVars
<1>7. ASSUME NEW s \in Services, PodsReady(s) \/ DeleteStep(s)
      PROVE  status' = status
  BY <1>7 DEF PodsReady, DeleteStep, StartDelete, DeleteWorkload, SoftDelete,
     DeleteFails, tableVars
<1> QED BY <1>1, <1>2, <1>3, <1>4, <1>5, <1>6, <1>7 DEF Next, vars, tableVars

LEMMA InitHistory == ASSUME Init PROVE HInv
<1>1. IInv
  BY InitInv
<1>2. WfHistory /\ RequestHistory
  BY DEF Init, WfHistory, RequestHistory, Earned
<1>3. AppliedWasStarted /\ PromotedWasApplied
  BY DEF Init, TableInit, AppliedWasStarted, PromotedWasApplied
<1> QED BY <1>1, <1>2, <1>3 DEF HInv, History

LEMMA NextHistory == ASSUME HInv, [Next]_vars PROVE HInv'
<1> USE DEF HInv, History
<1>1. IInv' /\ Grows
  BY NextInv, NextGrows
<1>2. WfHistory' /\ RequestHistory'
  BY <1>1, NextWfHistory, NextRequestHistory
<1>3. AppliedWasStarted'
  <2>1. applied \subseteq Deployments
    BY DEF IInv, TypeOK, K8sTypeOK
  <2>2. ASSUME NEW a \in attempts, RunDeployApply(a)
        PROVE  a.dep \in Deployments /\ startedAt[a.dep]
    BY <2>2, AttemptIs
    DEF RunDeployApply, WfHistory, AttemptHistory, PcFits, Earned
  <2> QED BY <1>1, <2>1, <2>2, NextApplied DEF AppliedWasStarted, Grows
<1>4. PromotedWasApplied'
  <2> SUFFICES ASSUME NEW d \in Deployments, status'[d] \in {"active", "superseded"}
               PROVE  d \in applied'
    BY DEF PromotedWasApplied
  <2>1. CASE status[d] \in {"active", "superseded"}
    BY <1>1, <2>1 DEF PromotedWasApplied, Grows
  <2>2. CASE status[d] \notin {"active", "superseded"}
    <3>1. PICK a \in attempts : a.dep = d /\ a.pc = "mark"
      BY <2>2, NextPromoted
    <3>2. a.act = "active"
      BY <3>1 DEF WfHistory, AttemptHistory, PcFits
    <3> QED BY <1>1, <3>1, <3>2 DEF WfHistory, AttemptHistory, Earned, Grows
  <2> QED BY <2>1, <2>2
<1> QED BY <1>1, <1>2, <1>3, <1>4

LEMMA AlwaysHistory == Spec => []HInv
  BY InitHistory, NextHistory, PTL DEF Spec

(* A deployment cancelled while it was queued never reaches the cluster,   *)
(* although nothing tells its workflow.                                    *)
THEOREM OnlyStartedIsApplied == Spec => []AppliedWasStarted
<1>1. HInv => AppliedWasStarted
  BY DEF HInv, History
<1> QED BY <1>1, AlwaysHistory, PTL

(* The table calls no deployment live, now or in the past, whose object    *)
(* was not applied.                                                        *)
THEOREM OnlyAppliedIsPromoted == Spec => []PromotedWasApplied
<1>1. HInv => PromotedWasApplied
  BY DEF HInv, History
<1> QED BY <1>1, AlwaysHistory, PTL

(* A workflow is told to stop only when its row is finished.               *)
THEOREM RowIsCancelledFirst == Spec => []CancelledRowFirst
<1>1. HInv => CancelledRowFirst
  BY DEF HInv, History, RequestHistory, CancelledRowFirst
<1> QED BY <1>1, AlwaysHistory, PTL

(* A workflow that closed left a finished row, except on the returns that  *)
(* do not write it.                                                        *)
THEOREM ClosedWorkflowIsRecorded == Spec => []ClosedIsRecorded
<1>1. HInv => ClosedIsRecorded
  BY DEF HInv, History, WfHistory, Earned, WfClosed, ClosedIsRecorded
<1> QED BY <1>1, AlwaysHistory, PTL

=============================================================================
