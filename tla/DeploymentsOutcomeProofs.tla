---------------------- MODULE DeploymentsOutcomeProofs ----------------------
(***************************************************************************)
(* How deployments end.  The attempts a workflow leaves behind make rows   *)
(* move in ways the workflow does not show; the exact moves, and that a    *)
(* service points to a row that was promoted, rest on one fact: no         *)
(* deployment has both an attempt that would promote it and one that would *)
(* record its failure.                                                     *)
(***************************************************************************)
EXTENDS DeploymentsProofs

Promoted == {"active", "superseded"}

Promoting(d) ==
  \/ status[d] \in Promoted
  \/ \E a \in attempts : a.dep = d /\ a.act = "active"

Failing(d) ==
  \/ status[d] = "failed"
  \/ \E a \in attempts : a.dep = d /\ a.act = "failing"

AttemptOutcome ==
  \A a \in attempts :
    /\ a.mode = "awaited" => wf[a.dep] = a.act
    /\ a.pc = "point" => status[a.dep] \in Promoted

Exclusive ==
  \A d \in Deployments :
    /\ Promoting(d) => wf[d] \in {"active", "completed", "unrecorded", "cancelled"}
    /\ Failing(d)   => wf[d] \in {"failing", "failed", "unrecorded", "cancelled"}
    /\ ~(Promoting(d) /\ Failing(d))

RowOfRequest ==
  \A d \in Deployments :
    /\ status[d] # "absent" => reqPc[d] # "idle" /\ serviceId[d] = target[d]
    /\ status[d] \in {"absent", "queued"} => ~startedAt[d]
    /\ reqPc[d] = "start" => wf[d] = "none"
    /\ wf[d] # "none" => reqPc[d] = "done"

Outcome == AttemptOutcome /\ Exclusive /\ RowOfRequest /\ PointerWasPromoted

OInv == HInv /\ Outcome

-----------------------------------------------------------------------------
(* The flow of workflows and attempts.                                     *)

WfMoves ==
  ({"building"}  \X {"build", "unrecorded"})
  \cup ({"build"}     \X {"deploy", "failing"})
  \cup ({"deploy"}    \X {"deploying", "failing"})
  \cup ({"deploying"} \X {"rollout"})
  \cup ({"rollout"}   \X {"active", "failing"})
  \cup ({"active"}    \X {"completed", "unrecorded"})
  \cup ({"failing"}   \X {"failed", "unrecorded"})
  \cup (WfOpen \X {"cancelled"})

(* After a step, an attempt stands for one that was there before or is the *)
(* first of the activity its workflow has just gone on to.                 *)
Inherited(b) ==
  \E a \in attempts :
    /\ b.dep = a.dep /\ b.act = a.act
    /\ b.mode = "awaited" => a.mode = "awaited" /\ wf'[b.dep] = wf[b.dep]
    /\ b.pc = "point" => a.pc = "point" \/ status'[b.dep] = "active"
    /\ b.pc = "apply" => \/ a.pc = "apply" /\ b.cfg = a.cfg
                         \/ b.cfg = svcConfig[target[b.dep]]

Fresh(b) ==
  /\ b.dep \in Deployments /\ b.mode = "awaited" /\ b.pc \notin {"point", "apply"}
  /\ wf'[b.dep] = b.act /\ <<wf[b.dep], b.act>> \in WfMoves \cup {<<"none", "building">>}

FlowOK ==
  /\ \A d \in Deployments :
       \/ wf'[d] = wf[d]
       \/ <<wf[d], wf'[d]>> \in WfMoves
       \/ wf[d] = "none" /\ wf'[d] = "building" /\ reqPc'[d] = "done"
  /\ \A b \in attempts' : Inherited(b) \/ Fresh(b)

LEMMA NewAttemptIs ==
  ASSUME NEW d, NEW act \in Acts, NEW n
  PROVE  LET b == NewAttempt(d, act, n)
         IN  /\ b.dep = d /\ b.act = act /\ b.mode = "awaited"
             /\ b.pc \notin {"point", "apply"}
  BY DEF NewAttempt, FirstStep, Acts

LEMMA EnterFlow ==
  ASSUME IInv, NEW d \in Deployments, NEW st, <<wf[d], st>> \in WfMoves,
         NEW left, \A b \in left : b.mode # "awaited" /\ Inherited(b),
         Enter(d, st, left)
  PROVE  FlowOK
<1>1. \A e \in Deployments : wf'[e] = IF e = d THEN st ELSE wf[e]
  BY DEF Enter, IInv, TypeOK, WfTypeOK
<1>2. ASSUME NEW b \in attempts \ AwaitedOf(d)
      PROVE  Inherited(b)
  <2>1. b.mode = "awaited" => b.dep # d
    BY <1>2 DEF AwaitedOf
  <2> QED BY <1>1, <1>2, <2>1, AttemptIs DEF Inherited
<1>3. ASSUME st \in Acts PROVE Fresh(NewAttempt(d, st, 1))
  BY <1>1, <1>3, NewAttemptIs DEF Fresh
<1> QED BY <1>1, <1>2, <1>3 DEF Enter, FlowOK

(* The flow when the workflow stays where it is.                           *)
LEMMA StayFlow ==
  ASSUME wf' = wf, \A b \in attempts' : Inherited(b)
  PROVE  FlowOK
  BY DEF FlowOK

LEMMA KeptInherited ==
  ASSUME wf' = wf, NEW a \in attempts
  PROVE  Inherited(a)
  BY DEF Inherited

LEMMA SucceededFlow ==
  ASSUME IInv, AttemptOutcome, NEW a \in attempts, Succeeded(a)
  PROVE  FlowOK
<1>1. a.dep \in Deployments /\ a.act \in Acts
  BY AttemptIs
<1>2. CASE a.mode = "awaited" /\ Enter(a.dep, OnSuccess[a.act], {})
  <2>1. <<wf[a.dep], OnSuccess[a.act]>> \in WfMoves
    BY <1>1, <1>2 DEF AttemptOutcome, OnSuccess, Acts, WfMoves
  <2> QED BY <1>1, <1>2, <2>1, EnterFlow
<1>3. CASE attempts' = attempts \ {a} /\ wf' = wf
  BY <1>3, StayFlow, KeptInherited
<1> QED BY <1>2, <1>3 DEF Succeeded

LEMMA FailedFlow ==
  ASSUME IInv, AttemptOutcome, NEW a \in attempts, NEW left,
         \A b \in left : b.mode # "awaited" /\ Inherited(b), Failed(a, left)
  PROVE  FlowOK
<1>1. a.dep \in Deployments /\ a.act \in Acts
  BY AttemptIs
<1>2. CASE /\ a.mode = "awaited" /\ wf' = wf
           /\ attempts' = (attempts \ {a}) \cup left \cup
                            {NewAttempt(a.dep, a.act, a.try + 1)}
  <2>1. Inherited(NewAttempt(a.dep, a.act, a.try + 1))
    BY <1>1, <1>2, NewAttemptIs DEF Inherited
  <2> QED BY <1>2, <2>1, StayFlow, KeptInherited
<1>3. CASE a.mode = "awaited" /\ Enter(a.dep, OnFailure[a.act], left)
  <2>1. <<wf[a.dep], OnFailure[a.act]>> \in WfMoves
    BY <1>1, <1>3 DEF AttemptOutcome, OnFailure, Acts, WfMoves
  <2> QED BY <1>1, <1>3, <2>1, EnterFlow
<1>4. CASE attempts' = (attempts \ {a}) \cup left /\ wf' = wf
  BY <1>4, StayFlow, KeptInherited
<1> QED BY <1>2, <1>3, <1>4 DEF Failed

LEMMA FinishedFlow ==
  ASSUME IInv, AttemptOutcome, NEW a \in attempts, Finished(a)
  PROVE  FlowOK
  BY SucceededFlow, FailedFlow DEF Finished

LEMMA ProceedFlow ==
  ASSUME NEW a \in attempts, NEW pc, Inherited([a EXCEPT !.pc = pc]),
         Proceed(a, pc)
  PROVE  FlowOK
<1>1. \A b \in attempts' : Inherited(b)
  BY KeptInherited DEF Proceed
<1> QED BY <1>1, StayFlow DEF Proceed

LEMMA AttemptFlow ==
  ASSUME OInv, NEW a \in attempts, RunAttempt(a) \/ AttemptFault(a)
  PROVE  FlowOK
<1> USE DEF OInv, HInv, Outcome
<1>1. a \in Attempt /\ a.dep \in Deployments
  BY AttemptIs
<1>2. CASE RunWrite(a)
  BY <1>2, FinishedFlow, FailedFlow DEF RunWrite
<1>3. CASE RunDeployRead(a)
  <2>1. ASSUME attempts' = (attempts \ {a}) \cup
                 {[a EXCEPT !.pc = "apply", !.cfg = svcConfig[target[a.dep]]]},
               wf' = wf
        PROVE  FlowOK
    <3>1. ASSUME NEW b,
                 b = [a EXCEPT !.pc = "apply", !.cfg = svcConfig[target[a.dep]]]
          PROVE  Inherited(b)
      BY <1>1, <2>1, <3>1 DEF Inherited, Attempt
    <3> QED BY <2>1, <3>1, StayFlow, KeptInherited
  <2> QED BY <1>3, <2>1, FailedFlow DEF RunDeployRead
<1>4. CASE RunDeployApply(a)
  BY <1>4, FinishedFlow DEF RunDeployApply
<1>5. CASE RunSupersede(a)
  <2>1. Proceed(a, "mark") => Inherited([a EXCEPT !.pc = "mark"])
    BY <1>1 DEF Proceed, Inherited, Attempt
  <2> QED BY <1>5, <2>1, ProceedFlow DEF RunSupersede
<1>6. CASE RunMarkActive(a)
  <2>1. ASSUME MarkDeploymentActive(a.dep), Proceed(a, "point")
        PROVE  FlowOK
    <3>1. status'[a.dep] = "active"
      BY <1>1, <2>1 DEF MarkDeploymentActive, UpdateRow, IInv, TableInv, TableTypeOK
    <3>2. Inherited([a EXCEPT !.pc = "point"])
      BY <1>1, <2>1, <3>1 DEF Proceed, Inherited, Attempt
    <3> QED BY <2>1, <3>2, ProceedFlow
  <2> QED BY <1>6, <2>1, FailedFlow DEF RunMarkActive
<1>7. CASE RunSetPointer(a)
  BY <1>7, FinishedFlow DEF RunSetPointer
<1>8. CASE AttemptFails(a)
  BY <1>8, FailedFlow DEF AttemptFails
<1>9. CASE AttemptTimesOut(a)
  <2>1. PICK m \in {"abandoned", "expired"} : Failed(a, {[a EXCEPT !.mode = m]})
    BY <1>9 DEF AttemptTimesOut
  <2>2. [a EXCEPT !.mode = m].mode # "awaited" /\ Inherited([a EXCEPT !.mode = m])
    BY <1>1 DEF Inherited, Attempt
  <2> QED BY <2>1, <2>2, FailedFlow
<1> QED BY <1>2, <1>3, <1>4, <1>5, <1>6, <1>7, <1>8, <1>9
    DEF RunAttempt, AttemptFault

LEMMA WorkflowFlow ==
  ASSUME OInv, NEW d \in Deployments, WorkflowStep(d)
  PROVE  FlowOK
<1> USE DEF OInv, HInv, Outcome
<1>1. ASSUME NEW st, <<wf[d], st>> \in WfMoves, Enter(d, st, {})
      PROVE  FlowOK
  BY <1>1, EnterFlow
<1>2. ASSUME UNCHANGED <<wf, attempts>>
      PROVE  FlowOK
  BY <1>2, StayFlow, KeptInherited
<1>3. CASE StartBuild(d) \/ FinishBuild(d)
  <2>1. <<wf[d], "failing">> \in WfMoves /\ <<wf[d], "deploy">> \in WfMoves
    BY <1>3 DEF StartBuild, FinishBuild, WfMoves
  <2> QED BY <1>1, <1>2, <1>3, <2>1 DEF StartBuild, FinishBuild
<1>4. CASE RolloutSucceeds(d) \/ RolloutFails(d)
  <2>1. <<wf[d], "failing">> \in WfMoves /\ <<wf[d], "active">> \in WfMoves
    BY <1>4 DEF RolloutSucceeds, RolloutFails, WfMoves
  <2> QED BY <1>1, <1>4, <2>1 DEF RolloutSucceeds, RolloutFails
<1>5. CASE DeliverCancel(d)
  <2>1. <<wf[d], "cancelled">> \in WfMoves
    BY <1>5 DEF DeliverCancel, WfMoves
  <2>2. ASSUME NEW a \in AwaitedOf(d)
        PROVE  /\ [a EXCEPT !.mode = "abandoned"].mode # "awaited"
               /\ Inherited([a EXCEPT !.mode = "abandoned"])
    <3>1. a \in Attempt
      BY AttemptIs DEF AwaitedOf
    <3> QED BY <3>1 DEF AwaitedOf, Inherited, Attempt
  <2>3. \A b \in {[a EXCEPT !.mode = "abandoned"] : a \in AwaitedOf(d)} :
          b.mode # "awaited" /\ Inherited(b)
    BY <2>2
  <2> QED BY <1>5, <2>1, <2>3, EnterFlow DEF DeliverCancel
<1>6. CASE ResolveBuild(d) \/ TerminateBuild(d)
  BY <1>2, <1>6 DEF ResolveBuild, TerminateBuild
<1> QED BY <1>3, <1>4, <1>5, <1>6 DEF WorkflowStep

LEMMA NextFlow == ASSUME OInv, [Next]_vars PROVE FlowOK
<1>1. ASSUME UNCHANGED <<wf, attempts>>
      PROVE  FlowOK
  BY <1>1, StayFlow, KeptInherited
<1>2. ASSUME NEW d \in Deployments,
             NewRequest(d) \/ RequestStep(d) \/ RequestFault(d)
      PROVE  FlowOK
  <2>1. CASE StartWorkflow(d)
    <3>1. wf[d] = "none" /\ "building" \in Acts /\ reqPc'[d] = "done"
      BY <2>1 DEF StartWorkflow, Goto, OInv, HInv, IInv, TypeOK, ReqTypeOK,
         Outcome, RowOfRequest, Acts
    <3>2. \A e \in Deployments : wf'[e] = IF e = d THEN "building" ELSE wf[e]
      BY <2>1 DEF StartWorkflow, OInv, HInv, IInv, TypeOK, WfTypeOK
    <3>3. ASSUME NEW a \in attempts PROVE Inherited(a)
      <4>1. a.mode = "awaited" => a.dep # d
        BY <2>1, AttemptIs
        DEF StartWorkflow, OInv, HInv, Outcome, AttemptOutcome, RowOfRequest, Acts
      <4> QED BY <3>2, <4>1, AttemptIs DEF Inherited, OInv, HInv
    <3>4. Fresh(NewAttempt(d, "building", 1))
      BY <3>1, <3>2, NewAttemptIs DEF Fresh
    <3> QED BY <2>1, <3>1, <3>2, <3>3, <3>4 DEF StartWorkflow, FlowOK
  <2>2. ASSUME ~StartWorkflow(d)
        PROVE  UNCHANGED <<wf, attempts>>
    BY <1>2, <2>2 DEF NewRequest, BeginCreate, BeginUpdate, BeginRedeploy,
       RequestStep, ReadService, CancelInFlight, InsertRow, SignalCancel,
       RequestFault, CancelInFlightFails, RequestAborts, SignalCancelFails, wfVars
  <2> QED BY <1>1, <2>1, <2>2
<1>3. ASSUME NEW s \in Services, PodsReady(s) \/ DeleteStep(s)
      PROVE  UNCHANGED <<wf, attempts>>
  BY <1>3 DEF PodsReady, DeleteStep, StartDelete, DeleteWorkload, SoftDelete,
     DeleteFails, wfVars
<1>4. UNCHANGED vars => UNCHANGED <<wf, attempts>>
  BY DEF vars, wfVars
<1> QED BY <1>1, <1>2, <1>3, <1>4, AttemptFlow, WorkflowFlow DEF Next

-----------------------------------------------------------------------------
(* What a step may make of a row.                                          *)

StatusMove(d) ==
  \/ status[d] = "absent" /\ status'[d] = "queued"
  \/ status[d] \in InFlight /\ status'[d] \in {"building", "cancelled"}
  \/ status[d] \in InFlight /\ startedAt[d] /\ status'[d] = "deploying"
  \/ status[d] = "active" /\ status'[d] = "superseded"
  \/ /\ status[d] # "absent" /\ status'[d] = "active"
     /\ \E a \in attempts : a.dep = d /\ a.act = "active"
  \/ /\ status[d] # "absent" /\ status'[d] = "failed"
     /\ \E a \in attempts : a.dep = d /\ a.act = "failing"

LEMMA AttemptStatus ==
  ASSUME HInv, NEW a \in attempts, RunAttempt(a) \/ AttemptFault(a),
         NEW d \in Deployments, status'[d] # status[d]
  PROVE  StatusMove(d)
<1> USE DEF HInv, IInv, TableInv
<1>1. a.dep \in Deployments /\ AttemptHistory(a)
  BY AttemptIs DEF History, WfHistory
<1>2. CASE RunWrite(a)
  <2>1. CASE a.act = "building" /\ UpdateDeploymentBuilding(a.dep)
    BY <1>1, <2>1
    DEF UpdateDeploymentBuilding, UpdateRow, Accepted, CheckOk, StatusMove,
        InFlight, Ended, TableTypeOK, FinishedIffEnded
  <2>2. CASE a.act = "deploying" /\ UpdateDeploymentDeploying(a.dep)
    BY <1>1, <2>2
    DEF UpdateDeploymentDeploying, UpdateRow, Accepted, CheckOk, StatusMove,
        InFlight, Ended, TableTypeOK, FinishedIffEnded, AttemptHistory, Earned
  <2>3. CASE a.act = "failing" /\ MarkDeploymentFailed(a.dep)
    BY <1>1, <2>3 DEF MarkDeploymentFailed, UpdateRow, StatusMove, TableTypeOK
  <2> QED BY <1>2, <2>1, <2>2, <2>3 DEF RunWrite, tableVars
<1>3. CASE RunSupersede(a)
  BY <1>3 DEF RunSupersede, SupersedeActiveDeployment, FinishRows, RowsOf, StatusMove
<1>4. CASE RunMarkActive(a)
  <2>1. a.act = "active" /\ MarkDeploymentActive(a.dep)
    BY <1>1, <1>4 DEF RunMarkActive, AttemptHistory, PcFits, tableVars
  <2> QED BY <1>1, <2>1
      DEF MarkDeploymentActive, UpdateRow, StatusMove, TableTypeOK
<1>5. ~(RunDeployRead(a) \/ RunDeployApply(a) \/ RunSetPointer(a) \/ AttemptFault(a))
  BY DEF RunDeployRead, RunDeployApply, RunSetPointer, AttemptFault, AttemptFails,
     AttemptTimesOut, tableVars
<1> QED BY <1>2, <1>3, <1>4, <1>5 DEF RunAttempt

LEMMA NextStatus ==
  ASSUME HInv, [Next]_vars, NEW d \in Deployments, status'[d] # status[d]
  PROVE  StatusMove(d)
<1>1. ASSUME NEW e \in Deployments,
             NewRequest(e) \/ RequestStep(e) \/ RequestFault(e) \/ WorkflowStep(e)
      PROVE  status' = status \/ CancelInFlight(e) \/ InsertRow(e)
  BY <1>1 DEF NewRequest, BeginCreate, BeginUpdate, BeginRedeploy, RequestStep,
     ReadService, StartWorkflow, SignalCancel, RequestFault, CancelInFlightFails,
     RequestAborts, SignalCancelFails, WorkflowStep, StartBuild, ResolveBuild,
     FinishBuild, RolloutSucceeds, RolloutFails, DeliverCancel, TerminateBuild,
     tableVars
<1>2. ASSUME NEW e \in Deployments, CancelInFlight(e) \/ InsertRow(e)
      PROVE  StatusMove(d)
  BY <1>2 DEF CancelInFlight, CancelInFlightDeployments, FinishRows, RowsOf,
     InsertRow, CreateDeployment, StatusMove, tableVars, HInv, IInv, TableInv,
     TableTypeOK
<1>3. ASSUME NEW s \in Services, PodsReady(s) \/ DeleteStep(s)
      PROVE  status' = status
  BY <1>3 DEF PodsReady, DeleteStep, StartDelete, DeleteWorkload, SoftDelete,
     DeleteFails, tableVars
<1> QED BY <1>1, <1>2, <1>3, AttemptStatus DEF Next, vars, tableVars

LEMMA NextRow ==
  ASSUME OInv, [Next]_vars, NEW d \in Deployments
  PROVE  /\ reqPc[d] # "idle" => reqPc'[d] # "idle" /\ target'[d] = target[d]
         /\ reqPc[d] = "done" => reqPc'[d] = "done"
         /\ reqPc'[d] = "start" => reqPc[d] \in {"insert", "start"}
         /\ status[d] # "absent" => serviceId'[d] = serviceId[d]
         /\ status[d] = "absent" /\ status'[d] # "absent" =>
              reqPc[d] # "idle" /\ serviceId'[d] = target[d]
         /\ startedAt'[d] # startedAt[d] => status'[d] = "building"
<1> USE DEF OInv, HInv, IInv, TypeOK, TableTypeOK, ReqTypeOK
<1>1. ASSUME NEW e \in Deployments,
             NewRequest(e) \/ ReadService(e) \/ StartWorkflow(e) \/ RequestFault(e)
             \/ \E f \in Deployments : SignalCancel(e, f)
      PROVE  /\ UNCHANGED tableVars
             /\ reqPc[d] # "idle" => reqPc'[d] # "idle" /\ target'[d] = target[d]
             /\ reqPc[d] = "done" => reqPc'[d] = "done"
             /\ reqPc'[d] = "start" => reqPc[d] \in {"insert", "start"}
  BY <1>1 DEF NewRequest, BeginCreate, BeginUpdate, BeginRedeploy, ReadService,
     StartWorkflow, SignalCancel, RequestFault, CancelInFlightFails,
     RequestAborts, SignalCancelFails, Goto
<1>2. ASSUME NEW e \in Deployments, CancelInFlight(e) \/ InsertRow(e)
      PROVE  /\ startedAt' = startedAt /\ target' = target
             /\ reqPc[d] # "idle" => reqPc'[d] # "idle"
             /\ reqPc[d] = "done" => reqPc'[d] = "done"
             /\ reqPc'[d] = "start" => reqPc[d] \in {"insert", "start"}
             /\ status[d] # "absent" => serviceId'[d] = serviceId[d]
             /\ status[d] = "absent" /\ status'[d] # "absent" =>
                  reqPc[d] # "idle" /\ serviceId'[d] = target[d]
  <2>1. CASE CancelInFlight(e)
    BY <2>1 DEF CancelInFlight, CancelInFlightDeployments, FinishRows, RowsOf,
       InFlight, Goto
  <2>2. CASE InsertRow(e)
    <3>1. startedAt' = startedAt /\ target' = target /\ reqPc[e] = "insert"
      BY <2>2 DEF InsertRow, CreateDeployment, tableVars
    <3>2. \/ reqPc' = [reqPc EXCEPT ![e] = "start"]
          \/ reqPc' = [reqPc EXCEPT ![e] = "failed"]
      BY <2>2 DEF InsertRow, Goto
    <3>3. \/ /\ status[e] = "absent"
             /\ status' = [status EXCEPT ![e] = "queued"]
             /\ serviceId' = [serviceId EXCEPT ![e] = target[e]]
          \/ status' = status /\ serviceId' = serviceId
      BY <2>2 DEF InsertRow, CreateDeployment, tableVars
    <3> QED BY <3>1, <3>2, <3>3
  <2> QED BY <1>2, <2>1, <2>2
<1>3. ASSUME NEW a \in attempts, RunAttempt(a) \/ AttemptFault(a)
      PROVE  /\ UNCHANGED <<serviceId, reqPc, target>>
             /\ startedAt'[d] # startedAt[d] => status'[d] = "building"
             /\ status[d] = "absent" => status'[d] = "absent"
  <2>1. a.dep \in Deployments
    BY AttemptIs
  <2>2. CASE RunWrite(a)
    BY <2>1, <2>2 DEF RunWrite, UpdateDeploymentBuilding, UpdateDeploymentDeploying,
       MarkDeploymentFailed, UpdateRow, reqVars, tableVars
  <2>3. CASE RunSupersede(a) \/ RunMarkActive(a)
    BY <2>1, <2>3 DEF RunSupersede, SupersedeActiveDeployment, FinishRows, RowsOf,
       RunMarkActive, MarkDeploymentActive, UpdateRow, reqVars, tableVars
  <2>4. CASE RunDeployRead(a) \/ RunDeployApply(a) \/ RunSetPointer(a)
             \/ AttemptFault(a)
    BY <2>4 DEF RunDeployRead, RunDeployApply, RunSetPointer, AttemptFault,
       AttemptFails, AttemptTimesOut, reqVars, tableVars
  <2> QED BY <1>3, <2>2, <2>3, <2>4 DEF RunAttempt
<1>4. ASSUME NEW e \in Deployments, WorkflowStep(e)
      PROVE  UNCHANGED <<tableVars, reqPc, target>>
  BY <1>4 DEF WorkflowStep, StartBuild, ResolveBuild, FinishBuild,
     RolloutSucceeds, RolloutFails, DeliverCancel, TerminateBuild, reqVars
<1>5. ASSUME NEW s \in Services, PodsReady(s) \/ DeleteStep(s)
      PROVE  UNCHANGED <<tableVars, reqPc, target>>
  BY <1>5 DEF PodsReady, DeleteStep, StartDelete, DeleteWorkload, SoftDelete,
     DeleteFails, reqVars
<1>6. UNCHANGED vars => UNCHANGED <<tableVars, reqPc, target>>
  BY DEF vars, reqVars
<1>7. CASE Next
  BY <1>1, <1>2, <1>3, <1>4, <1>5, <1>7 DEF Next, RequestStep, tableVars
<1> QED BY <1>6, <1>7 DEF tableVars

-----------------------------------------------------------------------------
(* The invariant.                                                          *)

LEMMA PromotedStays ==
  ASSUME OInv, [Next]_vars, NEW d \in Deployments, status[d] \in Promoted
  PROVE  status'[d] \in Promoted
  BY NextStatus
  DEF OInv, Outcome, Exclusive, Promoting, Failing, StatusMove, Promoted, InFlight

LEMMA PromotingStep ==
  ASSUME OInv, [Next]_vars, NEW d \in Deployments, Promoting(d)'
  PROVE  Promoting(d) \/ (wf'[d] = "active" /\ <<wf[d], "active">> \in WfMoves)
<1>1. CASE status'[d] \in Promoted
  BY <1>1, NextStatus DEF OInv, StatusMove, Promoting, Promoted
<1>2. ASSUME NEW b \in attempts', b.dep = d, b.act = "active"
      PROVE  Promoting(d) \/ (wf'[d] = "active" /\ <<wf[d], "active">> \in WfMoves)
  BY <1>2, NextFlow DEF FlowOK, Inherited, Fresh, Promoting
<1> QED BY <1>1, <1>2 DEF Promoting

LEMMA FailingStep ==
  ASSUME OInv, [Next]_vars, NEW d \in Deployments, Failing(d)'
  PROVE  Failing(d) \/ (wf'[d] = "failing" /\ <<wf[d], "failing">> \in WfMoves)
<1>1. CASE status'[d] = "failed"
  BY <1>1, NextStatus DEF OInv, StatusMove, Failing
<1>2. ASSUME NEW b \in attempts', b.dep = d, b.act = "failing"
      PROVE  Failing(d) \/ (wf'[d] = "failing" /\ <<wf[d], "failing">> \in WfMoves)
  BY <1>2, NextFlow DEF FlowOK, Inherited, Fresh, Failing
<1> QED BY <1>1, <1>2 DEF Failing

LEMMA NextOutcome == ASSUME OInv, [Next]_vars PROVE OInv'
<1> USE DEF OInv, Outcome
<1>1. HInv'
  BY NextHistory
<1>2. FlowOK
  BY NextFlow
<1>3. AttemptOutcome'
  <2> SUFFICES ASSUME NEW b \in attempts'
               PROVE  /\ b.mode = "awaited" => wf'[b.dep] = b.act
                      /\ b.pc = "point" => status'[b.dep] \in Promoted
    BY DEF AttemptOutcome, Promoted
  <2>1. CASE Fresh(b)
    BY <2>1 DEF Fresh
  <2>2. CASE Inherited(b)
    BY <2>2, PromotedStays, AttemptIs
    DEF Inherited, AttemptOutcome, Promoted, HInv
  <2> QED BY <1>2, <2>1, <2>2 DEF FlowOK
<1>4. Exclusive'
  <2> SUFFICES
        ASSUME NEW d \in Deployments
        PROVE  /\ Promoting(d)' =>
                    wf'[d] \in {"active", "completed", "unrecorded", "cancelled"}
               /\ Failing(d)' =>
                    wf'[d] \in {"failing", "failed", "unrecorded", "cancelled"}
               /\ ~(Promoting(d)' /\ Failing(d)')
    BY DEF Exclusive
  <2>1. \/ wf'[d] = wf[d]
        \/ <<wf[d], wf'[d]>> \in WfMoves
        \/ wf[d] = "none" /\ wf'[d] = "building"
    BY <1>2 DEF FlowOK
  <2>2. Promoting(d) =>
          wf'[d] \in {"active", "completed", "unrecorded", "cancelled"}
    BY <2>1 DEF Exclusive, WfMoves, WfOpen, Acts
  <2>3. Failing(d) =>
          wf'[d] \in {"failing", "failed", "unrecorded", "cancelled"}
    BY <2>1 DEF Exclusive, WfMoves, WfOpen, Acts
  <2>4. <<wf[d], "active">> \in WfMoves => ~Failing(d)
    BY DEF Exclusive, WfMoves, WfOpen, Acts
  <2>5. <<wf[d], "failing">> \in WfMoves => ~Promoting(d)
    BY DEF Exclusive, WfMoves, WfOpen, Acts
  <2>6. ~(Promoting(d) /\ Failing(d))
    BY DEF Exclusive
  <2> QED BY <2>2, <2>3, <2>4, <2>5, <2>6, PromotingStep, FailingStep
<1>5. RowOfRequest'
  <2> SUFFICES
        ASSUME NEW d \in Deployments
        PROVE  /\ status'[d] # "absent" =>
                    reqPc'[d] # "idle" /\ serviceId'[d] = target'[d]
               /\ status'[d] \in {"absent", "queued"} => ~startedAt'[d]
               /\ reqPc'[d] = "start" => wf'[d] = "none"
               /\ wf'[d] # "none" => reqPc'[d] = "done"
    BY DEF RowOfRequest
  <2>1. status'[d] # "absent" =>
          reqPc'[d] # "idle" /\ serviceId'[d] = target'[d]
    BY NextRow DEF RowOfRequest
  <2>2. status'[d] \in {"absent", "queued"} => ~startedAt'[d]
    BY NextRow, NextStatus DEF RowOfRequest, StatusMove
  <2>3. wf'[d] # "none" => reqPc'[d] = "done"
    BY <1>2, NextRow DEF FlowOK, RowOfRequest, WfMoves, WfOpen, Acts
  <2>4. reqPc'[d] = "start" => wf'[d] = "none"
    BY <2>3
  <2> QED BY <2>1, <2>2, <2>3, <2>4
<1>6. PointerWasPromoted'
  <2>1. ASSUME NEW s \in Services
        PROVE  current'[s] = current[s] \/
               \E a \in attempts : /\ a.pc = "point" /\ target[a.dep] = s
                                   /\ current'[s] = a.dep
    <3>1. ASSUME NEW a \in attempts, RunSetPointer(a)
          PROVE  \/ current'[s] = current[s]
                 \/ /\ a.pc = "point" /\ target[a.dep] = s
                    /\ current'[s] = a.dep
      BY <3>1 DEF RunSetPointer, HInv, IInv, TypeOK, SvcTypeOK
    <3>2. ASSUME NEW a \in attempts, RunAttempt(a) \/ AttemptFault(a)
          PROVE  current' = current \/ RunSetPointer(a)
      BY <3>2 DEF RunAttempt, RunWrite, RunDeployRead, RunDeployApply,
         RunSupersede, RunMarkActive, AttemptFault, AttemptFails,
         AttemptTimesOut, svcVars
    <3>3. ASSUME NEW d \in Deployments,
                 NewRequest(d) \/ RequestStep(d) \/ RequestFault(d)
                 \/ WorkflowStep(d)
          PROVE  current' = current
      BY <3>3 DEF NewRequest, BeginCreate, BeginUpdate, BeginRedeploy,
         RequestStep, ReadService, CancelInFlight, InsertRow, StartWorkflow,
         SignalCancel, RequestFault, CancelInFlightFails, RequestAborts,
         SignalCancelFails, WorkflowStep, StartBuild, ResolveBuild, FinishBuild,
         RolloutSucceeds, RolloutFails, DeliverCancel, TerminateBuild, svcVars
    <3>4. ASSUME NEW t \in Services, PodsReady(t) \/ DeleteStep(t)
          PROVE  current' = current
      BY <3>4 DEF PodsReady, DeleteStep, StartDelete, DeleteWorkload,
         SoftDelete, DeleteFails, svcVars
    <3> QED BY <3>1, <3>2, <3>3, <3>4 DEF Next, vars, svcVars
  <2>2. ASSUME NEW s \in Services, NEW d, d = current'[s], d # None
        PROVE  d \in Deployments /\ serviceId[d] = s /\ status[d] \in Promoted
    <3>1. CASE current'[s] = current[s]
      BY <2>2, <3>1
      DEF PointerWasPromoted, Promoted, HInv, IInv, TypeOK, SvcTypeOK
    <3>2. ASSUME NEW a \in attempts, a.pc = "point", target[a.dep] = s, d = a.dep
          PROVE  d \in Deployments /\ serviceId[d] = s /\ status[d] \in Promoted
      <4>1. d \in Deployments /\ status[d] \in Promoted
        BY <3>2, AttemptIs DEF AttemptOutcome, HInv
      <4> QED BY <3>2, <4>1 DEF RowOfRequest, Promoted
    <3> QED BY <2>1, <2>2, <3>1, <3>2
  <2>3. ASSUME NEW d \in Deployments, status[d] \in Promoted
        PROVE  serviceId'[d] = serviceId[d] /\ status'[d] \in Promoted
    BY <2>3, NextRow, PromotedStays DEF Promoted
  <2> QED BY <2>2, <2>3 DEF PointerWasPromoted, Promoted
<1> QED BY <1>1, <1>3, <1>4, <1>5, <1>6

LEMMA InitOutcome == ASSUME Init PROVE OInv
<1>1. HInv
  BY InitHistory
<1>2. AttemptOutcome /\ Exclusive /\ RowOfRequest /\ PointerWasPromoted
  BY DEF Init, TableInit, AttemptOutcome, Exclusive, Promoting, Failing,
     Promoted, RowOfRequest, PointerWasPromoted
<1> QED BY <1>1, <1>2 DEF OInv, Outcome

(* The pointer of a service names a row of that service that was promoted. *)
THEOREM PointerNamesPromoted == Spec => []PointerWasPromoted
<1>1. OInv => PointerWasPromoted
  BY DEF OInv, Outcome
<1> QED BY <1>1, InitOutcome, NextOutcome, PTL DEF Spec

LEMMA NextMoves ==
  ASSUME OInv, [Next]_vars, NEW d \in Deployments, status'[d] # status[d]
  PROVE  <<status[d], status'[d]>> \in Moves
<1>1. StatusMove(d)
  BY NextStatus DEF OInv
<1>2. status[d] \in {"absent"} \cup InFlight \cup Ended
  BY DEF OInv, HInv, IInv, TypeOK, TableTypeOK
<1>3. /\ status[d] \in Promoted => ~Failing(d)
      /\ status[d] = "failed" => ~Promoting(d)
      /\ status[d] = "queued" => ~startedAt[d]
  BY DEF OInv, Outcome, Exclusive, RowOfRequest, Promoting, Failing
<1>4. \A a \in attempts : a.act \in {"active", "failing"} => startedAt[a.dep]
  BY DEF OInv, HInv, History, WfHistory, AttemptHistory, Earned
<1> QED BY <1>1, <1>2, <1>3, <1>4
    DEF StatusMove, Moves, InFlight, Ended, Promoted, Promoting, Failing

(* Rows move along the listed moves only: a failed row is final, a live    *)
(* one is only superseded, a queued one does not skip its start, whatever  *)
(* attempts are still running.                                             *)
THEOREM RowsMoveAsListed == Spec => Lifecycle
<1>1. OInv /\ [Next]_vars =>
        [\A d \in Deployments :
           status'[d] # status[d] => <<status[d], status'[d]>> \in Moves]_vars
  BY NextMoves
<1> QED BY <1>1, InitOutcome, NextOutcome, PTL DEF Spec, Lifecycle

-----------------------------------------------------------------------------
(* Cancelling requests and what they leave.                                *)

Replaced(s) ==
  \/ \E e \in Deployments : /\ serviceId[e] = s
                            /\ status[e] \notin {"absent", "cancelled"}
  \/ \E e \in Deployments : target[e] = s /\ reqPc[e] = "insert"

LEMMA FaultFree ==
  ASSUME OInv, Fault, faults' = 0
  PROVE  FALSE
  BY BoundsAreNat DEF Fault, OInv, HInv, IInv, TypeOK

LEMMA FaultsGrow ==
  ASSUME OInv, [Next]_vars, faults' = 0
  PROVE  faults = 0
<1>1. ASSUME Fault PROVE FALSE
  BY <1>1, FaultFree
<1>2. ASSUME NEW d \in Deployments,
             NewRequest(d) \/ RequestStep(d) \/ RequestFault(d) \/ WorkflowStep(d)
      PROVE  faults' = faults \/ Fault
  BY <1>2 DEF NewRequest, BeginCreate, BeginUpdate, BeginRedeploy, RequestStep,
     ReadService, CancelInFlight, InsertRow, StartWorkflow, SignalCancel,
     RequestFault, CancelInFlightFails, RequestAborts, SignalCancelFails,
     WorkflowStep, StartBuild, ResolveBuild, FinishBuild, RolloutSucceeds,
     RolloutFails, DeliverCancel, TerminateBuild
<1>3. ASSUME NEW a \in attempts, RunAttempt(a) \/ AttemptFault(a)
      PROVE  faults' = faults \/ Fault
  BY <1>3 DEF RunAttempt, RunWrite, RunDeployRead, RunDeployApply, RunSupersede,
     RunMarkActive, RunSetPointer, AttemptFault, AttemptFails, AttemptTimesOut,
     Finished
<1>4. ASSUME NEW s \in Services, PodsReady(s) \/ DeleteStep(s)
      PROVE  faults' = faults \/ Fault
  BY <1>4 DEF PodsReady, DeleteStep, StartDelete, DeleteWorkload, SoftDelete,
     DeleteFails
<1> QED BY <1>1, <1>2, <1>3, <1>4 DEF Next, vars

(* A request that has its INSERT refused is refused by a row that stands.  *)
LEMMA InsertLeavesOne ==
  ASSUME OInv, NEW r \in Deployments, InsertRow(r)
  PROVE  Replaced(target[r])'
<1> USE DEF OInv, HInv, IInv, TypeOK, TableTypeOK
<1>1. CASE CreateDeployment(r, target[r])
  <2>1. serviceId'[r] = target[r] /\ status'[r] = "queued" /\ target' = target
    BY <1>1 DEF CreateDeployment, InsertRow
  <2> QED BY <2>1 DEF Replaced
<1>2. CASE ~Accepted(r, target[r], "queued", FALSE) /\ UNCHANGED tableVars
  <2>1. PICK e \in Deployments : serviceId[e] = target[r] /\ status[e] \in InFlight
    BY <1>2 DEF Accepted, CheckOk, NoOther, InFlight, Ended
  <2>2. UNCHANGED <<status, serviceId, target>>
    BY <1>2 DEF InsertRow, tableVars
  <2> QED BY <2>1, <2>2 DEF Replaced, InFlight
<1> QED BY <1>1, <1>2 DEF InsertRow

LEMMA CancelledByRequest ==
  ASSUME OInv, [Next]_vars, NEW d \in Deployments,
         status'[d] = "cancelled", status[d] # "cancelled"
  PROVE  \E r \in Deployments : CancelInFlight(r) /\ target[r] = serviceId[d]
<1> USE DEF OInv, HInv, IInv, TypeOK, TableTypeOK
<1>1. ASSUME NEW e \in Deployments,
             NewRequest(e) \/ RequestStep(e) \/ RequestFault(e) \/ WorkflowStep(e)
      PROVE  status' = status \/ CancelInFlight(e) \/ InsertRow(e)
  BY <1>1 DEF NewRequest, BeginCreate, BeginUpdate, BeginRedeploy, RequestStep,
     ReadService, StartWorkflow, SignalCancel, RequestFault, CancelInFlightFails,
     RequestAborts, SignalCancelFails, WorkflowStep, StartBuild, ResolveBuild,
     FinishBuild, RolloutSucceeds, RolloutFails, DeliverCancel, TerminateBuild,
     tableVars
<1>2. ASSUME NEW e \in Deployments, CancelInFlight(e)
      PROVE  target[e] = serviceId[d]
  BY <1>2 DEF CancelInFlight, CancelInFlightDeployments, FinishRows, RowsOf
<1>3. ASSUME NEW e \in Deployments, InsertRow(e)
      PROVE  FALSE
  BY <1>3 DEF InsertRow, CreateDeployment, tableVars
<1>4. ASSUME NEW a \in attempts, RunAttempt(a) \/ AttemptFault(a)
      PROVE  status'[d] = status[d]
  <2>1. a.dep \in Deployments
    BY AttemptIs
  <2>2. CASE RunWrite(a)
    BY <2>1, <2>2 DEF RunWrite, UpdateDeploymentBuilding, UpdateDeploymentDeploying,
       MarkDeploymentFailed, UpdateRow, tableVars
  <2>3. CASE RunSupersede(a) \/ RunMarkActive(a)
    BY <2>1, <2>3 DEF RunSupersede, SupersedeActiveDeployment, FinishRows, RowsOf,
       RunMarkActive, MarkDeploymentActive, UpdateRow, tableVars
  <2>4. CASE RunDeployRead(a) \/ RunDeployApply(a) \/ RunSetPointer(a)
             \/ AttemptFault(a)
    BY <2>4 DEF RunDeployRead, RunDeployApply, RunSetPointer, AttemptFault,
       AttemptFails, AttemptTimesOut, tableVars
  <2> QED BY <1>4, <2>2, <2>3, <2>4 DEF RunAttempt
<1>5. ASSUME NEW s \in Services, PodsReady(s) \/ DeleteStep(s)
      PROVE  status' = status
  BY <1>5 DEF PodsReady, DeleteStep, StartDelete, DeleteWorkload, SoftDelete,
     DeleteFails, tableVars
<1>6. CASE Next
  BY <1>1, <1>2, <1>3, <1>4, <1>5, <1>6 DEF Next
<1> QED BY <1>6 DEF vars, tableVars

(* Without faults a request leaves "insert" by its INSERT only.            *)
LEMMA InsertPending ==
  ASSUME OInv, [Next]_vars, faults' = 0,
         NEW e \in Deployments, reqPc[e] = "insert", ~InsertRow(e)
  PROVE  reqPc'[e] = "insert"
<1> USE DEF OInv, HInv, IInv, TypeOK, ReqTypeOK
<1>1. ASSUME NEW d \in Deployments, NewRequest(d) \/ RequestStep(d)
      PROVE  reqPc'[e] = "insert"
  BY <1>1 DEF NewRequest, BeginCreate, BeginUpdate, BeginRedeploy, RequestStep,
     ReadService, CancelInFlight, InsertRow, StartWorkflow, SignalCancel, Goto
<1>2. ASSUME NEW d \in Deployments, RequestFault(d)
      PROVE  FALSE
  BY <1>2, FaultFree DEF RequestFault, CancelInFlightFails, RequestAborts,
     SignalCancelFails
<1>3. ASSUME NEW a \in attempts, RunAttempt(a) \/ AttemptFault(a)
      PROVE  reqPc' = reqPc
  BY <1>3 DEF RunAttempt, RunWrite, RunDeployRead, RunDeployApply, RunSupersede,
     RunMarkActive, RunSetPointer, AttemptFault, AttemptFails, AttemptTimesOut,
     reqVars
<1>4. ASSUME NEW d \in Deployments, WorkflowStep(d)
      PROVE  reqPc' = reqPc
  BY <1>4 DEF WorkflowStep, StartBuild, ResolveBuild, FinishBuild,
     RolloutSucceeds, RolloutFails, DeliverCancel, TerminateBuild, reqVars
<1>5. ASSUME NEW s \in Services, PodsReady(s) \/ DeleteStep(s)
      PROVE  reqPc' = reqPc
  BY <1>5 DEF PodsReady, DeleteStep, StartDelete, DeleteWorkload, SoftDelete,
     DeleteFails, reqVars
<1>6. UNCHANGED vars => reqPc' = reqPc
  BY DEF vars, reqVars
<1> QED BY <1>1, <1>2, <1>3, <1>4, <1>5, <1>6 DEF Next

LEMMA ReplacedStays ==
  ASSUME OInv, [Next]_vars, faults' = 0, NEW s \in Services, Replaced(s)
  PROVE  Replaced(s)'
<1> USE DEF OInv, HInv, IInv, TypeOK, TableTypeOK, ReqTypeOK
<1>1. ASSUME NEW r \in Deployments, CancelInFlight(r), target[r] = s
      PROVE  Replaced(s)'
  BY <1>1 DEF CancelInFlight, Goto, Replaced
<1>2. ASSUME NEW r \in Deployments, InsertRow(r), target[r] = s
      PROVE  Replaced(s)'
  <2>1. target' = target
    BY <1>2 DEF InsertRow
  <2> QED BY <1>2, <2>1, InsertLeavesOne DEF Replaced
<1>3. ASSUME NEW e \in Deployments, serviceId[e] = s,
             status[e] \notin {"absent", "cancelled"},
             ~\E r \in Deployments : CancelInFlight(r) /\ target[r] = s
      PROVE  serviceId'[e] = s /\ status'[e] \notin {"absent", "cancelled"}
  <2>1. serviceId'[e] = s
    BY <1>3, NextRow
  <2>2. status'[e] # "absent"
    BY <1>3, NextStatus DEF StatusMove
  <2>3. status'[e] = "cancelled" =>
          \E r \in Deployments : CancelInFlight(r) /\ target[r] = s
    BY <1>3, CancelledByRequest
  <2> QED BY <1>3, <2>1, <2>2, <2>3
<1>4. ASSUME NEW e \in Deployments, target[e] = s, reqPc[e] = "insert",
             ~InsertRow(e)
      PROVE  target'[e] = s /\ reqPc'[e] = "insert"
  <2>1. target'[e] = s
    BY <1>4, NextRow
  <2>2. reqPc'[e] = "insert"
    BY <1>4, InsertPending
  <2> QED BY <2>1, <2>2
<1> QED BY <1>1, <1>2, <1>3, <1>4 DEF Replaced

(* A request that did not get to insert its row, and now never will.       *)
GaveUp(s) == \E d \in Deployments : target[d] = s /\ reqPc[d] = "failed"

(* Whatever faults: a request leaves "insert" by its INSERT or by a fault, *)
(* and a request that failed has failed for good.                          *)
LEMMA RequestGivesUp ==
  ASSUME OInv, [Next]_vars, NEW e \in Deployments,
         \/ reqPc[e] = "failed"
         \/ reqPc[e] = "insert" /\ ~InsertRow(e)
  PROVE  reqPc'[e] \in {reqPc[e], "failed"}
<1> USE DEF OInv, HInv, IInv, TypeOK, ReqTypeOK
<1>1. ASSUME NEW d \in Deployments, NewRequest(d) \/ RequestStep(d) \/ RequestFault(d)
      PROVE  reqPc'[e] \in {reqPc[e], "failed"}
  BY <1>1 DEF NewRequest, BeginCreate, BeginUpdate, BeginRedeploy, RequestStep,
     ReadService, CancelInFlight, InsertRow, StartWorkflow, SignalCancel,
     RequestFault, CancelInFlightFails, RequestAborts, SignalCancelFails, Goto
<1>2. ASSUME NEW a \in attempts, RunAttempt(a) \/ AttemptFault(a)
      PROVE  reqPc' = reqPc
  BY <1>2 DEF RunAttempt, RunWrite, RunDeployRead, RunDeployApply, RunSupersede,
     RunMarkActive, RunSetPointer, AttemptFault, AttemptFails, AttemptTimesOut,
     reqVars
<1>3. ASSUME NEW d \in Deployments, WorkflowStep(d)
      PROVE  reqPc' = reqPc
  BY <1>3 DEF WorkflowStep, StartBuild, ResolveBuild, FinishBuild,
     RolloutSucceeds, RolloutFails, DeliverCancel, TerminateBuild, reqVars
<1>4. ASSUME NEW s \in Services, PodsReady(s) \/ DeleteStep(s)
      PROVE  reqPc' = reqPc
  BY <1>4 DEF PodsReady, DeleteStep, StartDelete, DeleteWorkload, SoftDelete,
     DeleteFails, reqVars
<1>5. UNCHANGED vars => reqPc' = reqPc
  BY DEF vars, reqVars
<1> QED BY <1>1, <1>2, <1>3, <1>4, <1>5 DEF Next

LEMMA ReplacedOrGaveUp ==
  ASSUME OInv, [Next]_vars, NEW s \in Services, Replaced(s) \/ GaveUp(s)
  PROVE  Replaced(s)' \/ GaveUp(s)'
<1>1. ASSUME NEW e \in Deployments, target[e] = s, reqPc[e] \in {"insert", "failed"},
             ~InsertRow(e)
      PROVE  Replaced(s)' \/ GaveUp(s)'
  <2>1. target'[e] = s
    BY <1>1, NextRow
  <2>2. reqPc'[e] \in {"insert", "failed"}
    BY <1>1, RequestGivesUp
  <2> QED BY <2>1, <2>2 DEF Replaced, GaveUp
<1>2. ASSUME NEW r \in Deployments, InsertRow(r), target[r] = s
      PROVE  Replaced(s)'
  <2>1. target' = target
    BY <1>2 DEF InsertRow
  <2> QED BY <1>2, <2>1, InsertLeavesOne DEF Replaced
<1>3. ASSUME NEW r \in Deployments, CancelInFlight(r), target[r] = s
      PROVE  Replaced(s)'
  BY <1>3 DEF CancelInFlight, Goto, Replaced, OInv, HInv, IInv, TypeOK, ReqTypeOK
<1>4. ASSUME NEW e \in Deployments, serviceId[e] = s,
             status[e] \notin {"absent", "cancelled"},
             ~\E r \in Deployments : CancelInFlight(r) /\ target[r] = s
      PROVE  Replaced(s)'
  <2>1. serviceId'[e] = s
    BY <1>4, NextRow
  <2>2. status'[e] # "absent"
    BY <1>4, NextStatus DEF StatusMove, OInv
  <2>3. status'[e] # "cancelled"
    BY <1>4, CancelledByRequest
  <2> QED BY <2>1, <2>2, <2>3 DEF Replaced
<1> QED BY <1>1, <1>2, <1>3, <1>4 DEF Replaced, GaveUp

(* A service comes into being by the request that is to insert its first   *)
(* row.                                                                    *)
LEMMA ServiceAppears ==
  ASSUME OInv, [Next]_vars, NEW s \in Services,
         svcState[s] = "absent", svcState'[s] # "absent"
  PROVE  Replaced(s)'
<1> USE DEF OInv, HInv, IInv, TypeOK, SvcTypeOK, ReqTypeOK
<1>1. ASSUME NEW d \in Deployments, NEW t \in Services, NEW c \in Configs,
             BeginCreate(d, t, c)
      PROVE  Replaced(s)'
  BY <1>1 DEF BeginCreate, Goto, Replaced
<1>2. ASSUME NEW d \in Deployments,
             \/ \E t \in Services :
                  \/ \E c \in Configs : BeginUpdate(d, t, c)
                  \/ \E c \in Commits \cup {None} : BeginRedeploy(d, t, c)
             \/ RequestStep(d) \/ RequestFault(d) \/ WorkflowStep(d)
      PROVE  svcState' = svcState
  BY <1>2 DEF BeginUpdate, BeginRedeploy, RequestStep, ReadService, CancelInFlight,
     InsertRow, StartWorkflow, SignalCancel, RequestFault, CancelInFlightFails,
     RequestAborts, SignalCancelFails, WorkflowStep, StartBuild, ResolveBuild,
     FinishBuild, RolloutSucceeds, RolloutFails, DeliverCancel, TerminateBuild,
     svcVars
<1>3. ASSUME NEW a \in attempts, RunAttempt(a) \/ AttemptFault(a)
      PROVE  svcState' = svcState
  BY <1>3 DEF RunAttempt, RunWrite, RunDeployRead, RunDeployApply, RunSupersede,
     RunMarkActive, RunSetPointer, AttemptFault, AttemptFails, AttemptTimesOut,
     svcVars
<1>4. ASSUME NEW t \in Services, PodsReady(t) \/ DeleteStep(t)
      PROVE  FALSE
  BY <1>4 DEF PodsReady, DeleteStep, StartDelete, DeleteWorkload, SoftDelete,
     DeleteFails, svcVars, Linked
<1>5. UNCHANGED vars => svcState' = svcState
  BY DEF vars, svcVars
<1> QED BY <1>1, <1>2, <1>3, <1>4, <1>5 DEF Next, NewRequest

LEMMA NextDeployed ==
  ASSUME OInv, ServiceIsDeployed, [Next]_vars
  PROVE  ServiceIsDeployed'
<1> SUFFICES ASSUME NEW s \in Services, svcState'[s] # "absent"
             PROVE  Replaced(s)' \/ (faults' > 0 /\ GaveUp(s)')
  BY DEF ServiceIsDeployed, Replaced, GaveUp
<1>1. CASE svcState[s] = "absent"
  BY <1>1, ServiceAppears
<1>2. CASE svcState[s] # "absent"
  <2>1. faults' \in 0 .. MaxFaults
    BY NextOutcome DEF OInv, HInv, IInv, TypeOK
  <2>2. Replaced(s) \/ (faults > 0 /\ GaveUp(s))
    BY <1>2 DEF ServiceIsDeployed, Replaced, GaveUp
  <2>3. CASE faults' = 0
    <3>1. Replaced(s)
      BY <2>2, <2>3, FaultsGrow
    <3> QED BY <2>3, <3>1, ReplacedStays
  <2>4. CASE faults' > 0
    BY <2>2, <2>4, ReplacedOrGaveUp
  <2> QED BY <2>1, <2>3, <2>4, BoundsAreNat
<1> QED BY <1>1, <1>2

(* A service that was created keeps a deployment that was not cancelled,   *)
(* or a request about to insert one, however its requests overlap; only a  *)
(* request that a fault interrupted may leave it without.                  *)
THEOREM ServicesAreDeployed == Spec => []ServiceIsDeployed
<1>1. Init => OInv /\ ServiceIsDeployed
  BY InitOutcome DEF Init, ServiceIsDeployed
<1>2. OInv /\ ServiceIsDeployed /\ [Next]_vars => (OInv /\ ServiceIsDeployed)'
  BY NextOutcome, NextDeployed
<1> QED BY <1>1, <1>2, PTL DEF Spec

-----------------------------------------------------------------------------
(* What runs is what was recorded, as long as no configuration changes.    *)

(* No UpdateService after the creation of a service.                       *)
ConfigStays ==
  \A s \in Services : svcState[s] # "absent" => svcConfig'[s] = svcConfig[s]

RequestRead(d) ==
  /\ reqPc[d] \in {"cancel", "insert", "start", "done"} => snapshot[d] # None
  /\ snapshot[d] # None => reqPc[d] # "idle" /\ snapshot[d] = svcConfig[target[d]]
  /\ reqPc[d] # "idle" => svcState[target[d]] # "absent"

Recorded ==
  /\ \A d \in Deployments : RequestRead(d)
  /\ \A a \in attempts : /\ snapshot[a.dep] # None
                         /\ a.pc = "apply" => a.cfg = svcConfig[target[a.dep]]
  /\ \A s \in Services : cluster[s] # None =>
       /\ target[cluster[s].dep] = s /\ snapshot[cluster[s].dep] # None
       /\ cluster[s].cfg = svcConfig[s]

LEMMA ServiceStays ==
  ASSUME OInv, [Next]_vars, NEW s \in Services, svcState[s] # "absent"
  PROVE  svcState'[s] # "absent"
<1> USE DEF OInv, HInv, IInv, TypeOK, SvcTypeOK
<1>1. ASSUME NEW d \in Deployments,
             NewRequest(d) \/ RequestStep(d) \/ RequestFault(d) \/ WorkflowStep(d)
      PROVE  svcState'[s] # "absent"
  BY <1>1 DEF NewRequest, BeginCreate, BeginUpdate, BeginRedeploy, RequestStep,
     ReadService, CancelInFlight, InsertRow, StartWorkflow, SignalCancel,
     RequestFault, CancelInFlightFails, RequestAborts, SignalCancelFails,
     WorkflowStep, StartBuild, ResolveBuild, FinishBuild, RolloutSucceeds,
     RolloutFails, DeliverCancel, TerminateBuild, svcVars
<1>2. ASSUME NEW a \in attempts, RunAttempt(a) \/ AttemptFault(a)
      PROVE  svcState' = svcState
  BY <1>2 DEF RunAttempt, RunWrite, RunDeployRead, RunDeployApply, RunSupersede,
     RunMarkActive, RunSetPointer, AttemptFault, AttemptFails, AttemptTimesOut,
     svcVars
<1>3. ASSUME NEW t \in Services, PodsReady(t) \/ DeleteStep(t)
      PROVE  svcState'[s] # "absent"
  BY <1>3 DEF PodsReady, DeleteStep, StartDelete, DeleteWorkload, SoftDelete,
     DeleteFails, svcVars
<1> QED BY <1>1, <1>2, <1>3 DEF Next, vars, svcVars

LEMMA NextRead ==
  ASSUME OInv, [Next]_vars, ConfigStays, NEW d \in Deployments, RequestRead(d)
  PROVE  RequestRead(d)'
<1> USE DEF OInv, HInv, IInv, TypeOK, ReqTypeOK, SvcTypeOK
<1>1. ASSUME reqPc[d] # "idle"
      PROVE  /\ reqPc'[d] # "idle" /\ target'[d] = target[d]
             /\ target[d] \in Services /\ svcState'[target[d]] # "absent"
             /\ svcConfig'[target[d]] = svcConfig[target[d]]
             /\ svcConfig[target[d]] # None
  <2>1. reqPc'[d] # "idle" /\ target'[d] = target[d] /\ target[d] \in Services
    BY <1>1, NextRow DEF Linked
  <2>2. svcState[target[d]] # "absent" /\ svcConfig[target[d]] # None
    BY <1>1, <2>1, NoneIsNoValue DEF RequestRead, Linked
  <2> QED BY <2>1, <2>2, ServiceStays DEF ConfigStays
<1>2. ASSUME NEW e \in Deployments, NewRequest(e)
      PROVE  RequestRead(d)'
  <2>1. ASSUME NEW s \in Services, NEW c \in Configs, BeginCreate(e, s, c)
        PROVE  RequestRead(d)'
    <3>1. CASE e = d
      BY <2>1, <3>1, NoneIsNoValue DEF BeginCreate, Goto, RequestRead
    <3>2. CASE e # d
      BY <1>1, <2>1, <3>2 DEF BeginCreate, Goto, RequestRead
    <3> QED BY <3>1, <3>2
  <2>2. ASSUME NEW s \in Services,
               \/ \E c \in Configs : BeginUpdate(e, s, c)
               \/ \E c \in Commits \cup {None} : BeginRedeploy(e, s, c)
        PROVE  RequestRead(d)'
    <3>1. CASE e = d
      BY <2>2, <3>1 DEF BeginUpdate, BeginRedeploy, Goto, RequestRead, svcVars
    <3>2. CASE e # d
      BY <1>1, <2>2, <3>2 DEF BeginUpdate, BeginRedeploy, Goto, RequestRead, svcVars
    <3> QED BY <3>1, <3>2
  <2> QED BY <1>2, <2>1, <2>2 DEF NewRequest
<1>3. ASSUME NEW e \in Deployments, ReadService(e)
      PROVE  RequestRead(d)'
  <2>1. reqPc[e] = "read" /\ UNCHANGED <<svcConfig, svcState, target>>
    BY <1>3 DEF ReadService, svcVars
  <2>2. CASE e = d
    BY <1>1, <1>3, <2>1, <2>2 DEF ReadService, Goto, RequestRead
  <2>3. CASE e # d
    BY <1>3, <2>1, <2>3 DEF ReadService, Goto, RequestRead
  <2> QED BY <2>2, <2>3
<1>4. ASSUME NEW e \in Deployments,
             \/ CancelInFlight(e) \/ InsertRow(e) \/ StartWorkflow(e) \/ RequestFault(e)
             \/ \E f \in Deployments : SignalCancel(e, f)
      PROVE  RequestRead(d)'
  BY <1>4 DEF CancelInFlight, InsertRow, StartWorkflow, SignalCancel, RequestFault,
     CancelInFlightFails, RequestAborts, SignalCancelFails, Goto, RequestRead, svcVars
<1>5. ASSUME \/ \E a \in attempts : RunAttempt(a) \/ AttemptFault(a)
             \/ \E e \in Deployments : WorkflowStep(e)
             \/ \E s \in Services : PodsReady(s) \/ DeleteStep(s)
             \/ UNCHANGED vars
      PROVE  UNCHANGED <<reqPc, snapshot, target, svcConfig>>
  <2>1. ASSUME NEW a \in attempts, RunAttempt(a) \/ AttemptFault(a)
        PROVE  UNCHANGED <<reqPc, snapshot, target, svcConfig>>
    BY <2>1 DEF RunAttempt, RunWrite, RunDeployRead, RunDeployApply, RunSupersede,
       RunMarkActive, RunSetPointer, AttemptFault, AttemptFails, AttemptTimesOut,
       reqVars, svcVars
  <2>2. ASSUME NEW e \in Deployments, WorkflowStep(e)
        PROVE  UNCHANGED <<reqPc, snapshot, target, svcConfig>>
    BY <2>2 DEF WorkflowStep, StartBuild, ResolveBuild, FinishBuild,
       RolloutSucceeds, RolloutFails, DeliverCancel, TerminateBuild, reqVars, svcVars
  <2>3. ASSUME NEW s \in Services, PodsReady(s) \/ DeleteStep(s)
        PROVE  UNCHANGED <<reqPc, snapshot, target, svcConfig>>
    BY <2>3 DEF PodsReady, DeleteStep, StartDelete, DeleteWorkload, SoftDelete,
       DeleteFails, reqVars, svcVars
  <2>4. UNCHANGED vars => UNCHANGED <<reqPc, snapshot, target, svcConfig>>
    BY DEF vars, reqVars, svcVars
  <2> QED BY <1>5, <2>1, <2>2, <2>3, <2>4
<1>6. UNCHANGED <<reqPc, snapshot, target, svcConfig>> => RequestRead(d)'
  BY <1>1 DEF RequestRead
<1> QED BY <1>2, <1>3, <1>4, <1>5, <1>6 DEF Next, RequestStep

(* A snapshot is written once.                                             *)
LEMMA SnapshotStays ==
  ASSUME OInv, [Next]_vars, ConfigStays, NEW d \in Deployments, RequestRead(d),
         snapshot[d] # None
  PROVE  /\ snapshot'[d] # None /\ target'[d] = target[d]
         /\ target[d] \in Services
         /\ svcConfig'[target[d]] = svcConfig[target[d]]
<1> USE DEF OInv, HInv, IInv, TypeOK, ReqTypeOK, SvcTypeOK
<1>1. reqPc[d] # "idle" /\ target'[d] = target[d] /\ target[d] \in Services
  BY NextRow DEF RequestRead, Linked
<1>2. svcState[target[d]] # "absent" /\ svcConfig[target[d]] # None
  BY <1>1, NoneIsNoValue DEF RequestRead, Linked
<1>3. ASSUME NEW e \in Deployments,
             NewRequest(e) \/ RequestStep(e) \/ RequestFault(e) \/ WorkflowStep(e)
      PROVE  snapshot'[d] # None
  <2>1. CASE ReadService(e)
    BY <1>1, <1>2, <2>1 DEF ReadService
  <2>2. CASE NewRequest(e)
    BY <1>1, <2>2, NoneIsNoValue DEF NewRequest, BeginCreate, BeginUpdate, BeginRedeploy
  <2>3. CASE \/ CancelInFlight(e) \/ InsertRow(e) \/ StartWorkflow(e)
             \/ RequestFault(e) \/ WorkflowStep(e)
             \/ \E f \in Deployments : SignalCancel(e, f)
    BY <2>3 DEF CancelInFlight, InsertRow, StartWorkflow, SignalCancel,
       RequestFault, CancelInFlightFails, RequestAborts, SignalCancelFails,
       WorkflowStep, StartBuild, ResolveBuild, FinishBuild, RolloutSucceeds,
       RolloutFails, DeliverCancel, TerminateBuild, reqVars
  <2> QED BY <1>3, <2>1, <2>2, <2>3 DEF RequestStep
<1>4. ASSUME NEW a \in attempts, RunAttempt(a) \/ AttemptFault(a)
      PROVE  snapshot' = snapshot
  BY <1>4 DEF RunAttempt, RunWrite, RunDeployRead, RunDeployApply, RunSupersede,
     RunMarkActive, RunSetPointer, AttemptFault, AttemptFails, AttemptTimesOut,
     reqVars
<1>5. ASSUME NEW s \in Services, PodsReady(s) \/ DeleteStep(s)
      PROVE  snapshot' = snapshot
  BY <1>5 DEF PodsReady, DeleteStep, StartDelete, DeleteWorkload, SoftDelete,
     DeleteFails, reqVars
<1>6. snapshot'[d] # None
  BY <1>3, <1>4, <1>5 DEF Next, vars, reqVars
<1> QED BY <1>1, <1>2, <1>6 DEF ConfigStays

(* Only Deploy changes what is applied, and a deletion removes it.         *)
LEMMA NextCluster ==
  ASSUME OInv, [Next]_vars, NEW s \in Services
  PROVE  \/ cluster'[s] \in {cluster[s], None}
         \/ \E a \in attempts :
              /\ RunDeployApply(a) /\ target[a.dep] = s
              /\ cluster'[s] = [dep |-> a.dep, cfg |-> a.cfg]
<1> USE DEF OInv, HInv, IInv, TypeOK, K8sTypeOK
<1>1. ASSUME NEW d \in Deployments,
             NewRequest(d) \/ RequestStep(d) \/ RequestFault(d) \/ WorkflowStep(d)
      PROVE  cluster' = cluster
  BY <1>1 DEF NewRequest, BeginCreate, BeginUpdate, BeginRedeploy, RequestStep,
     ReadService, CancelInFlight, InsertRow, StartWorkflow, SignalCancel,
     RequestFault, CancelInFlightFails, RequestAborts, SignalCancelFails,
     WorkflowStep, StartBuild, ResolveBuild, FinishBuild, RolloutSucceeds,
     RolloutFails, DeliverCancel, TerminateBuild, k8sVars
<1>2. ASSUME NEW a \in attempts, RunDeployApply(a)
      PROVE  \/ cluster'[s] = cluster[s]
             \/ target[a.dep] = s /\ cluster'[s] = [dep |-> a.dep, cfg |-> a.cfg]
  BY <1>2 DEF RunDeployApply
<1>3. ASSUME NEW a \in attempts,
             \/ RunWrite(a) \/ RunDeployRead(a) \/ RunSupersede(a)
             \/ RunMarkActive(a) \/ RunSetPointer(a) \/ AttemptFault(a)
      PROVE  cluster' = cluster
  BY <1>3 DEF RunWrite, RunDeployRead, RunSupersede, RunMarkActive, RunSetPointer,
     AttemptFault, AttemptFails, AttemptTimesOut, k8sVars
<1>4. ASSUME NEW t \in Services, PodsReady(t) \/ DeleteStep(t)
      PROVE  cluster'[s] \in {cluster[s], None}
  BY <1>4 DEF PodsReady, DeleteStep, StartDelete, DeleteWorkload, SoftDelete,
     DeleteFails, k8sVars
<1> QED BY <1>1, <1>2, <1>3, <1>4 DEF Next, RunAttempt, vars, k8sVars

LEMMA NextRecorded ==
  ASSUME OInv, Recorded, [Next]_vars, ConfigStays
  PROVE  Recorded'
<1>1. OInv' /\ FlowOK
  BY NextOutcome, NextFlow
<1>2. \A d \in Deployments : RequestRead(d)'
  BY NextRead DEF Recorded
<1>3. ASSUME NEW a \in attempts
      PROVE  /\ a.dep \in Deployments
             /\ snapshot'[a.dep] # None /\ target'[a.dep] = target[a.dep]
             /\ target[a.dep] \in Services
             /\ svcConfig'[target[a.dep]] = svcConfig[target[a.dep]]
  <2>1. a.dep \in Deployments
    BY AttemptIs DEF OInv, HInv
  <2> QED BY <2>1, SnapshotStays DEF Recorded
<1>4. ASSUME NEW b \in attempts'
      PROVE  /\ snapshot'[b.dep] # None
             /\ b.pc = "apply" => b.cfg = svcConfig'[target'[b.dep]]
  <2>1. CASE Inherited(b)
    BY <1>3, <2>1 DEF Inherited, Recorded
  <2>2. CASE Fresh(b)
    <3>1. wf'[b.dep] # "none"
      BY <2>2 DEF Fresh, WfMoves, WfOpen, Acts
    <3>2. reqPc'[b.dep] = "done"
      BY <1>1, <2>2, <3>1 DEF OInv, Outcome, RowOfRequest, Fresh
    <3> QED BY <1>2, <2>2, <3>2 DEF Fresh, RequestRead
  <2> QED BY <1>1, <2>1, <2>2 DEF FlowOK
<1>5. ASSUME NEW s \in Services, cluster'[s] # None
      PROVE  /\ target'[cluster'[s].dep] = s /\ snapshot'[cluster'[s].dep] # None
             /\ cluster'[s].cfg = svcConfig'[s]
  <2>1. CASE cluster'[s] = cluster[s]
    <3>1. cluster[s].dep \in Deployments
      BY <1>5, <2>1 DEF OInv, HInv, IInv, TypeOK, K8sTypeOK, Object
    <3> QED BY <1>5, <2>1, <3>1, SnapshotStays DEF Recorded
  <2>2. CASE cluster'[s] # cluster[s]
    <3>1. PICK a \in attempts : /\ RunDeployApply(a) /\ target[a.dep] = s
                                /\ cluster'[s] = [dep |-> a.dep, cfg |-> a.cfg]
      BY <1>5, <2>2, NextCluster
    <3>2. a.cfg = svcConfig[s]
      BY <3>1 DEF RunDeployApply, Recorded
    <3> QED BY <1>3, <3>1, <3>2
  <2> QED BY <2>1, <2>2
<1> QED BY <1>2, <1>4, <1>5 DEF Recorded

(* The only thing that makes a deployment run with another configuration   *)
(* than its row recorded is an update: as long as nobody updates a service *)
(* after its creation, whatever requests overlap and whatever fails, what  *)
(* is applied for a deployment is its snapshot.                            *)
THEOREM SnapshotIsDeployedWithoutUpdates ==
  Spec /\ [][ConfigStays]_vars => []SnapshotIsDeployed
<1>1. Init => OInv /\ Recorded
  BY InitOutcome DEF Init, Recorded, RequestRead
<1>2. OInv /\ Recorded /\ [Next]_vars /\ [ConfigStays]_vars => (OInv /\ Recorded)'
  <2>1. ASSUME OInv, Recorded, UNCHANGED vars PROVE ConfigStays
    BY <2>1 DEF vars, svcVars, ConfigStays
  <2> QED BY <2>1, NextOutcome, NextRecorded
<1>3. OInv /\ Recorded => SnapshotIsDeployed
  BY DEF Recorded, RequestRead, SnapshotIsDeployed, OInv, HInv, IInv, TypeOK,
     K8sTypeOK, Object
<1> QED BY <1>1, <1>2, <1>3, PTL DEF Spec

=============================================================================
