---------------------- MODULE DeploymentsProgressProofs ----------------------
(***************************************************************************)
(* What stands between a deployment and never ending.  Liveness itself     *)
(* rests on fairness and is checked by TLC; what is proved here is what    *)
(* fairness has to work with: an open workflow always awaits something     *)
(* that is under way, each of its steps brings it nearer to its end, and   *)
(* without faults it does not close before its row has finished.           *)
(***************************************************************************)
EXTENDS DeploymentsOutcomeProofs, FiniteSetTheorems

-----------------------------------------------------------------------------
(* Open workflows are served, and every step brings one nearer to its end. *)

(* What an open workflow waits for is under way: one attempt of the        *)
(* activity it is at, or a build that has not closed.                      *)
Served(d) ==
  /\ wf[d] \in Acts => \E a \in attempts : AwaitedOf(d) = {a}
  /\ wf[d] \in {"none", "building"} => build[d] = "none"
  /\ wf[d] = "build" => build[d] # "closed"

Inserted(d) == reqPc[d] \in {"start", "done"} => status[d] # "absent"

SInv == OInv /\ \A d \in Deployments : Served(d) /\ Inserted(d)

StepOf(pc) ==
  IF pc \in {"read", "write", "supersede"} THEN 1
  ELSE IF pc \in {"apply", "mark"} THEN 2 ELSE 3

(* Attempt b is a later try than a, or the same one further on.            *)
Later(b, a) ==
  \/ a.try < b.try
  \/ a.try = b.try /\ StepOf(a.pc) < StepOf(b.pc)

(* What a step makes of the workflow of d and of the attempt it awaits.    *)
Turn(d) ==
  \/ wf'[d] = wf[d] /\ AwaitedOf(d)' = AwaitedOf(d)
  \/ /\ wf'[d] = wf[d]
     /\ \E a, b : AwaitedOf(d) = {a} /\ AwaitedOf(d)' = {b} /\ Later(b, a)
  \/ /\ <<wf[d], wf'[d]>> \in WfMoves \cup {<<"none", "building">>}
     /\ AwaitedOf(d)' = IF wf'[d] \in Acts THEN {NewAttempt(d, wf'[d], 1)} ELSE {}

LEMMA AwaitedIs ==
  ASSUME SInv, NEW a \in attempts, a.mode = "awaited"
  PROVE  /\ a \in Attempt /\ a.dep \in Deployments /\ a.act \in Acts
         /\ wf[a.dep] = a.act /\ AwaitedOf(a.dep) = {a}
<1>1. a \in Attempt /\ a.dep \in Deployments /\ a.act \in Acts
  BY AttemptIs DEF SInv, OInv, HInv
<1>2. wf[a.dep] = a.act
  BY DEF SInv, OInv, Outcome, AttemptOutcome
<1>3. PICK b \in attempts : AwaitedOf(a.dep) = {b}
  BY <1>1, <1>2 DEF SInv, Served
<1>4. a \in AwaitedOf(a.dep)
  BY DEF AwaitedOf
<1> QED BY <1>1, <1>2, <1>3, <1>4

LEMMA EnterTurn ==
  ASSUME SInv, NEW d \in Deployments, NEW st, Enter(d, st, {}) \/
           \E left : Enter(d, st, left) /\ \A b \in left : b.mode # "awaited",
         <<wf[d], st>> \in WfMoves, NEW e \in Deployments
  PROVE  Turn(e)
<1>1. PICK left : Enter(d, st, left) /\ \A b \in left : b.mode # "awaited"
  OBVIOUS
<1>2. wf' = [wf EXCEPT ![d] = st] /\ wf \in [Deployments -> {"none"} \cup WfOpen \cup WfClosed]
  BY <1>1 DEF Enter, SInv, OInv, HInv, IInv, TypeOK, WfTypeOK
<1>3. st \in Acts => LET n == NewAttempt(d, st, 1) IN n.dep = d /\ n.mode = "awaited"
  BY DEF NewAttempt
<1>4. CASE e = d
  <2>1. AwaitedOf(d)' = IF st \in Acts THEN {NewAttempt(d, st, 1)} ELSE {}
    BY <1>1, <1>3 DEF Enter, AwaitedOf
  <2> QED BY <1>2, <1>4, <2>1 DEF Turn
<1>5. CASE e # d
  <2>1. AwaitedOf(e)' = AwaitedOf(e)
    BY <1>1, <1>3, <1>5 DEF Enter, AwaitedOf
  <2> QED BY <1>2, <1>5, <2>1 DEF Turn
<1> QED BY <1>4, <1>5

(* Attempts nobody awaits come and go without the workflow's knowing.      *)
LEMMA StayTurn ==
  ASSUME wf' = wf, NEW A, \A a \in A : a.mode # "awaited",
         \A a \in attempts : a \in attempts' \/ a \in A,
         \A b \in attempts' : b \in attempts \/ b.mode # "awaited",
         NEW e \in Deployments
  PROVE  Turn(e)
  BY DEF Turn, AwaitedOf

(* The awaited attempt a is replaced by b.                                 *)
LEMMA ReplaceTurn ==
  ASSUME SInv, wf' = wf, NEW a \in attempts, a.mode = "awaited",
         NEW left, \A c \in left : c.mode # "awaited",
         NEW b, b.dep = a.dep, b.mode = "awaited", Later(b, a),
         attempts' = (attempts \ {a}) \cup left \cup {b}, NEW e \in Deployments
  PROVE  Turn(e)
<1>1. AwaitedOf(a.dep) = {a}
  BY AwaitedIs
<1>2. CASE e = a.dep
  <2>1. AwaitedOf(e)' = {b}
    BY <1>1, <1>2 DEF AwaitedOf
  <2> QED BY <1>1, <1>2, <2>1 DEF Turn
<1>3. CASE e # a.dep
  BY <1>3 DEF Turn, AwaitedOf
<1> QED BY <1>2, <1>3

LEMMA FailedTurn ==
  ASSUME SInv, NEW a \in attempts, NEW left, \A b \in left : b.mode # "awaited",
         Failed(a, left), NEW e \in Deployments
  PROVE  Turn(e)
<1>1. CASE /\ a.mode = "awaited" /\ wf' = wf
           /\ attempts' = (attempts \ {a}) \cup left \cup
                            {NewAttempt(a.dep, a.act, a.try + 1)}
  <2>1. LET n == NewAttempt(a.dep, a.act, a.try + 1)
        IN  n.dep = a.dep /\ n.mode = "awaited" /\ n.try = a.try + 1
    BY DEF NewAttempt
  <2>2. a.try \in Nat
    BY <1>1, AwaitedIs, BoundsAreNat DEF Attempt
  <2>3. Later(NewAttempt(a.dep, a.act, a.try + 1), a)
    BY <2>1, <2>2 DEF Later
  <2> QED BY <1>1, <2>1, <2>3, ReplaceTurn
<1>2. CASE a.mode = "awaited" /\ Enter(a.dep, OnFailure[a.act], left)
  <2>1. <<wf[a.dep], OnFailure[a.act]>> \in WfMoves
    BY <1>2, AwaitedIs DEF OnFailure, Acts, WfMoves
  <2> QED BY <1>2, <2>1, AwaitedIs, EnterTurn
<1>3. CASE a.mode # "awaited" /\ attempts' = (attempts \ {a}) \cup left /\ wf' = wf
  <2>1. \A b \in {a} : b.mode # "awaited"
    BY <1>3
  <2> QED BY <1>3, <2>1, StayTurn
<1> QED BY <1>1, <1>2, <1>3 DEF Failed

LEMMA SucceededTurn ==
  ASSUME SInv, NEW a \in attempts, Succeeded(a), NEW e \in Deployments
  PROVE  Turn(e)
<1>1. CASE a.mode = "awaited" /\ Enter(a.dep, OnSuccess[a.act], {})
  <2>1. <<wf[a.dep], OnSuccess[a.act]>> \in WfMoves
    BY <1>1, AwaitedIs DEF OnSuccess, Acts, WfMoves
  <2> QED BY <1>1, <2>1, AwaitedIs, EnterTurn
<1>2. CASE a.mode # "awaited" /\ attempts' = attempts \ {a} /\ wf' = wf
  <2>1. \A b \in {a} : b.mode # "awaited"
    BY <1>2
  <2> QED BY <1>2, <2>1, StayTurn
<1> QED BY <1>1, <1>2 DEF Succeeded

LEMMA FinishedTurn ==
  ASSUME SInv, NEW a \in attempts, Finished(a), NEW e \in Deployments
  PROVE  Turn(e)
  BY SucceededTurn, FailedTurn DEF Finished

(* An attempt goes on to a later step and stays what it was otherwise.     *)
LEMMA OnwardTurn ==
  ASSUME SInv, NEW a \in attempts, NEW b, b.dep = a.dep, b.mode = a.mode,
         b.try = a.try, StepOf(a.pc) < StepOf(b.pc), wf' = wf,
         attempts' = (attempts \ {a}) \cup
                       (IF a.mode = "expired" THEN {} ELSE {b}),
         NEW e \in Deployments
  PROVE  Turn(e)
<1>1. CASE a.mode = "awaited"
  <2>1. attempts' = (attempts \ {a}) \cup {} \cup {b}
    BY <1>1
  <2>2. Later(b, a)
    BY DEF Later
  <2> QED BY <1>1, <2>1, <2>2, ReplaceTurn
<1>2. CASE a.mode # "awaited"
  <2>1. \A c \in {a} : c.mode # "awaited"
    BY <1>2
  <2>2. \A c \in attempts : c \in attempts' \/ c \in {a}
    OBVIOUS
  <2>3. b.mode # "awaited"
    BY <1>2
  <2>4. \A c \in attempts' : c \in attempts \/ c = b
    OBVIOUS
  <2>5. \A c \in attempts' : c \in attempts \/ c.mode # "awaited"
    BY <2>3, <2>4
  <2> QED BY <2>1, <2>2, <2>5, StayTurn
<1> QED BY <1>1, <1>2

LEMMA AttemptTurn ==
  ASSUME SInv, NEW a \in attempts, RunAttempt(a) \/ AttemptFault(a),
         NEW e \in Deployments
  PROVE  Turn(e)
<1>1. a \in Attempt
  BY AttemptIs DEF SInv, OInv, HInv
<1>2. ASSUME NEW pc, Proceed(a, pc), StepOf(a.pc) < StepOf(pc)
      PROVE  Turn(e)
  <2>1. LET b == [a EXCEPT !.pc = pc]
        IN  b.dep = a.dep /\ b.mode = a.mode /\ b.try = a.try /\ b.pc = pc
    BY <1>1 DEF Attempt
  <2> QED BY <1>2, <2>1, OnwardTurn DEF Proceed
<1>3. CASE RunWrite(a)
  BY <1>3, FinishedTurn, FailedTurn DEF RunWrite
<1>4. CASE RunDeployRead(a)
  <2>1. ASSUME NEW b,
               b = [a EXCEPT !.pc = "apply", !.cfg = svcConfig[target[a.dep]]],
               attempts' = (attempts \ {a}) \cup {b}, wf' = wf
        PROVE  Turn(e)
    <3>1. b.dep = a.dep /\ b.mode = a.mode /\ b.try = a.try /\ b.pc = "apply"
      BY <1>1, <2>1 DEF Attempt
    <3>2. StepOf(a.pc) < StepOf(b.pc)
      BY <1>4, <3>1 DEF RunDeployRead, StepOf
    <3>3. CASE a.mode = "awaited"
      <4>1. Later(b, a)
        BY <3>1, <3>2 DEF Later
      <4>2. attempts' = (attempts \ {a}) \cup {} \cup {b}
        BY <2>1
      <4> QED BY <2>1, <3>1, <3>3, <4>1, <4>2, ReplaceTurn
    <3>4. CASE a.mode # "awaited"
      <4>1. \A c \in {a} : c.mode # "awaited"
        BY <3>4
      <4> QED BY <2>1, <3>1, <3>4, <4>1, StayTurn
    <3> QED BY <3>3, <3>4
  <2> QED BY <1>4, <2>1, FailedTurn DEF RunDeployRead
<1>5. CASE RunDeployApply(a)
  BY <1>5, FinishedTurn DEF RunDeployApply
<1>6. CASE RunSupersede(a)
  <2>1. a.pc = "supersede" /\ Proceed(a, "mark")
    BY <1>6 DEF RunSupersede
  <2>2. StepOf(a.pc) < StepOf("mark")
    BY <2>1 DEF StepOf
  <2> QED BY <1>2, <2>1, <2>2
<1>7. CASE RunMarkActive(a)
  <2>1. CASE a.pc = "mark" /\ Proceed(a, "point")
    <3>1. StepOf(a.pc) < StepOf("point")
      BY <2>1 DEF StepOf
    <3> QED BY <1>2, <2>1, <3>1
  <2>2. CASE Failed(a, {})
    BY <2>2, FailedTurn
  <2> QED BY <1>7, <2>1, <2>2 DEF RunMarkActive
<1>8. CASE RunSetPointer(a)
  BY <1>8, FinishedTurn DEF RunSetPointer
<1>9. CASE AttemptFails(a)
  BY <1>9, FailedTurn DEF AttemptFails
<1>10. CASE AttemptTimesOut(a)
  <2>1. PICK m \in {"abandoned", "expired"} : Failed(a, {[a EXCEPT !.mode = m]})
    BY <1>10 DEF AttemptTimesOut
  <2>2. [a EXCEPT !.mode = m].mode # "awaited"
    BY <1>1 DEF Attempt
  <2> QED BY <2>1, <2>2, FailedTurn
<1> QED BY <1>3, <1>4, <1>5, <1>6, <1>7, <1>8, <1>9, <1>10
    DEF RunAttempt, AttemptFault

LEMMA WorkflowTurn ==
  ASSUME SInv, NEW d \in Deployments, WorkflowStep(d), NEW e \in Deployments
  PROVE  Turn(e)
<1>1. ASSUME NEW st, <<wf[d], st>> \in WfMoves, Enter(d, st, {})
      PROVE  Turn(e)
  BY <1>1, EnterTurn
<1>2. ASSUME UNCHANGED <<wf, attempts>>
      PROVE  Turn(e)
  BY <1>2 DEF Turn, AwaitedOf
<1>3. CASE StartBuild(d) \/ FinishBuild(d)
  <2>1. <<wf[d], "failing">> \in WfMoves /\ <<wf[d], "deploy">> \in WfMoves
    BY <1>3 DEF StartBuild, FinishBuild, WfMoves
  <2> QED BY <1>1, <1>2, <1>3, <2>1 DEF StartBuild, FinishBuild
<1>4. CASE RolloutSucceeds(d) \/ RolloutFails(d)
  <2>1. <<wf[d], "failing">> \in WfMoves /\ <<wf[d], "active">> \in WfMoves
    BY <1>4 DEF RolloutSucceeds, RolloutFails, WfMoves
  <2> QED BY <1>1, <1>4, <2>1 DEF RolloutSucceeds, RolloutFails
<1>5. CASE DeliverCancel(d)
  <2>1. <<wf[d], "cancelled">> \in WfMoves
    BY <1>5 DEF DeliverCancel, WfMoves
  <2>2. ASSUME NEW a \in AwaitedOf(d)
        PROVE  [a EXCEPT !.mode = "abandoned"].mode # "awaited"
    <3>1. a \in Attempt
      BY AttemptIs DEF AwaitedOf, SInv, OInv, HInv
    <3> QED BY <3>1 DEF Attempt
  <2> DEFINE left == {[a EXCEPT !.mode = "abandoned"] : a \in AwaitedOf(d)}
  <2>3. \A b \in left : b.mode # "awaited"
    BY <2>2
  <2>4. Enter(d, "cancelled", left)
    BY <1>5 DEF DeliverCancel
  <2> HIDE DEF left
  <2> QED BY <2>1, <2>3, <2>4, EnterTurn
<1>6. CASE ResolveBuild(d) \/ TerminateBuild(d)
  BY <1>2, <1>6 DEF ResolveBuild, TerminateBuild
<1> QED BY <1>3, <1>4, <1>5, <1>6 DEF WorkflowStep

LEMMA NextTurn ==
  ASSUME SInv, [Next]_vars, NEW e \in Deployments
  PROVE  Turn(e)
<1>1. ASSUME UNCHANGED <<wf, attempts>>
      PROVE  Turn(e)
  BY <1>1 DEF Turn, AwaitedOf
<1>2. ASSUME NEW d \in Deployments,
             NewRequest(d) \/ RequestStep(d) \/ RequestFault(d)
      PROVE  Turn(e)
  <2>1. CASE StartWorkflow(d)
    <3>1. wf[d] = "none" /\ "building" \in Acts
      BY <2>1 DEF StartWorkflow, SInv, OInv, Outcome, RowOfRequest, Acts
    <3>2. \A f \in Deployments : wf'[f] = IF f = d THEN "building" ELSE wf[f]
      BY <2>1 DEF StartWorkflow, SInv, OInv, HInv, IInv, TypeOK, WfTypeOK
    <3>3. AwaitedOf(d) = {}
      <4>1. ASSUME NEW a \in attempts, a.mode = "awaited", a.dep = d
            PROVE  FALSE
        BY <3>1, <4>1, AwaitedIs DEF Acts
      <4> QED BY <4>1 DEF AwaitedOf
    <3> DEFINE n == NewAttempt(d, "building", 1)
    <3>4. n.dep = d /\ n.mode = "awaited"
      BY DEF NewAttempt
    <3> HIDE DEF n
    <3>5. attempts' = attempts \cup {n}
      BY <2>1 DEF StartWorkflow, n
    <3>6. AwaitedOf(e)' = IF e = d THEN {n} ELSE AwaitedOf(e)
      BY <3>3, <3>4, <3>5 DEF AwaitedOf
    <3> QED BY <3>1, <3>2, <3>6 DEF Turn, n
  <2>2. ASSUME ~StartWorkflow(d)
        PROVE  UNCHANGED <<wf, attempts>>
    BY <1>2, <2>2 DEF NewRequest, BeginCreate, BeginUpdate, BeginRedeploy,
       RequestStep, ReadService, CancelInFlight, InsertRow, SignalCancel,
       RequestFault, CancelInFlightFails, RequestAborts, SignalCancelFails, wfVars
  <2> QED BY <1>1, <2>1, <2>2
<1>3. ASSUME NEW s \in Services, PodsReady(s) \/ DeleteStep(s)
      PROVE  UNCHANGED <<wf, attempts>>
  BY <1>3 DEF PodsReady, DeleteStep, StartDelete, DeleteWorkload, SoftDelete,
     DeleteFails, wfVars
<1>4. UNCHANGED vars => UNCHANGED <<wf, attempts>>
  BY DEF vars, wfVars
<1> QED BY <1>1, <1>2, <1>3, <1>4, AttemptTurn, WorkflowTurn DEF Next

(* What a step makes of the build of d.                                    *)
BuildTurn(d) ==
  \/ build'[d] = build[d]
  \/ wf[d] = "build" /\ wf'[d] = "build" /\ build'[d] \in {"open", "resolved"}
  \/ wf'[d] \in {"deploy", "failing"} \cup WfClosed

LEMMA NextBuildTurn ==
  ASSUME SInv, [Next]_vars, NEW e \in Deployments
  PROVE  BuildTurn(e)
<1> USE DEF SInv, OInv, HInv, IInv, TypeOK, WfTypeOK
<1>1. ASSUME NEW d \in Deployments,
             NewRequest(d) \/ RequestStep(d) \/ RequestFault(d)
      PROVE  build' = build
  BY <1>1 DEF NewRequest, BeginCreate, BeginUpdate, BeginRedeploy, RequestStep,
     ReadService, CancelInFlight, InsertRow, StartWorkflow, SignalCancel,
     RequestFault, CancelInFlightFails, RequestAborts, SignalCancelFails, wfVars
<1>2. ASSUME NEW d \in Deployments, WorkflowStep(d)
      PROVE  BuildTurn(e)
  <2>1. CASE StartBuild(d) \/ ResolveBuild(d) \/ TerminateBuild(d)
    BY <2>1 DEF StartBuild, ResolveBuild, TerminateBuild, SetBuild, BuildTurn
  <2>2. CASE FinishBuild(d)
    <3>1. wf'[d] \in {"deploy", "failing"}
      BY <2>2 DEF FinishBuild, Enter
    <3>2. e # d => build'[e] = build[e]
      BY <2>2 DEF FinishBuild, SetBuild
    <3> QED BY <3>1, <3>2 DEF BuildTurn
  <2>3. CASE RolloutSucceeds(d) \/ RolloutFails(d) \/ DeliverCancel(d)
    BY <2>3 DEF RolloutSucceeds, RolloutFails, DeliverCancel, BuildTurn
  <2> QED BY <1>2, <2>1, <2>2, <2>3 DEF WorkflowStep
<1>3. ASSUME NEW a \in attempts, RunAttempt(a) \/ AttemptFault(a)
      PROVE  build' = build
  BY <1>3 DEF RunAttempt, RunWrite, RunDeployRead, RunDeployApply, RunSupersede,
     RunMarkActive, RunSetPointer, AttemptFault, AttemptFails, AttemptTimesOut
<1>4. ASSUME NEW s \in Services, PodsReady(s) \/ DeleteStep(s)
      PROVE  build' = build
  BY <1>4 DEF PodsReady, DeleteStep, StartDelete, DeleteWorkload, SoftDelete,
     DeleteFails, wfVars
<1>5. UNCHANGED vars => build' = build
  BY DEF vars, wfVars
<1> QED BY <1>1, <1>2, <1>3, <1>4, <1>5 DEF Next, BuildTurn

LEMMA NextServed ==
  ASSUME SInv, [Next]_vars, NEW d \in Deployments
  PROVE  Served(d)'
<1>1. Turn(d) /\ BuildTurn(d) /\ Served(d)
  BY NextTurn, NextBuildTurn DEF SInv
<1>2. wf'[d] \in Acts => \E a \in attempts' : AwaitedOf(d)' = {a}
  <2> SUFFICES ASSUME wf'[d] \in Acts PROVE \E a : AwaitedOf(d)' = {a}
    BY DEF AwaitedOf
  <2> QED BY <1>1 DEF Turn, Served
<1>3. \/ wf'[d] = wf[d]
      \/ <<wf[d], wf'[d]>> \in WfMoves \cup {<<"none", "building">>}
  BY <1>1 DEF Turn
<1>4. wf'[d] \in {"none", "building"} => wf[d] \in {"none", "building"}
  BY <1>3 DEF WfMoves, WfOpen, Acts
<1>5. wf'[d] = "build" => wf[d] \in {"building", "build"}
  BY <1>3 DEF WfMoves, WfOpen, Acts
<1> QED BY <1>1, <1>2, <1>4, <1>5 DEF Served, BuildTurn, WfClosed

LEMMA RequestInserts ==
  ASSUME SInv, [Next]_vars, NEW d \in Deployments, reqPc'[d] \in {"start", "done"}
  PROVE  reqPc[d] \in {"start", "done"} \/ status'[d] = "queued"
<1> USE DEF SInv, OInv, HInv, IInv, TypeOK, TableTypeOK, ReqTypeOK
<1>1. ASSUME NEW e \in Deployments, NewRequest(e) \/ RequestFault(e) \/ ReadService(e)
                \/ CancelInFlight(e) \/ StartWorkflow(e)
                \/ \E f \in Deployments : SignalCancel(e, f)
      PROVE  reqPc[d] \in {"start", "done"}
  BY <1>1 DEF NewRequest, BeginCreate, BeginUpdate, BeginRedeploy, ReadService,
     CancelInFlight, StartWorkflow, SignalCancel, RequestFault,
     CancelInFlightFails, RequestAborts, SignalCancelFails, Goto
<1>2. ASSUME NEW e \in Deployments, InsertRow(e)
      PROVE  reqPc[d] \in {"start", "done"} \/ status'[d] = "queued"
  BY <1>2 DEF InsertRow, CreateDeployment, Goto
<1>3. ASSUME NEW a \in attempts, RunAttempt(a) \/ AttemptFault(a)
      PROVE  reqPc' = reqPc
  BY <1>3 DEF RunAttempt, RunWrite, RunDeployRead, RunDeployApply, RunSupersede,
     RunMarkActive, RunSetPointer, AttemptFault, AttemptFails, AttemptTimesOut,
     reqVars
<1>4. ASSUME NEW e \in Deployments, WorkflowStep(e)
      PROVE  reqPc' = reqPc
  BY <1>4 DEF WorkflowStep, StartBuild, ResolveBuild, FinishBuild,
     RolloutSucceeds, RolloutFails, DeliverCancel, TerminateBuild, reqVars
<1>5. ASSUME NEW s \in Services, PodsReady(s) \/ DeleteStep(s)
      PROVE  reqPc' = reqPc
  BY <1>5 DEF PodsReady, DeleteStep, StartDelete, DeleteWorkload, SoftDelete,
     DeleteFails, reqVars
<1>6. UNCHANGED vars => reqPc' = reqPc
  BY DEF vars, reqVars
<1> QED BY <1>1, <1>2, <1>3, <1>4, <1>5, <1>6 DEF Next, RequestStep

LEMMA NextService == ASSUME SInv, [Next]_vars PROVE SInv'
<1>1. OInv'
  BY NextOutcome DEF SInv
<1>2. ASSUME NEW d \in Deployments
      PROVE  Inserted(d)'
  <2> SUFFICES ASSUME reqPc'[d] \in {"start", "done"} PROVE status'[d] # "absent"
    BY DEF Inserted
  <2>1. status'[d] = "absent" => status[d] = "absent"
    BY NextStatus DEF SInv, OInv, StatusMove
  <2> QED BY <2>1, RequestInserts DEF SInv, Inserted
<1> QED BY <1>1, <1>2, NextServed DEF SInv

LEMMA InitService == ASSUME Init PROVE SInv
<1>1. \A d \in Deployments : Served(d) /\ Inserted(d)
  BY DEF Init, Served, Inserted, Acts
<1> QED BY <1>1, InitOutcome DEF SInv

(* An open workflow never waits for nothing: whatever was lost, retried or *)
(* cancelled, it awaits exactly one attempt of the activity it is at, or a *)
(* build that has not closed, and its deployment has a row.                *)
THEOREM OpenWorkflowsAreServed ==
  Spec => [](\A d \in Deployments :
               wf[d] \in WfOpen => Served(d) /\ status[d] # "absent")
<1>1. SInv => \A d \in Deployments :
               wf[d] \in WfOpen => Served(d) /\ status[d] # "absent"
  BY DEF SInv, OInv, Outcome, RowOfRequest, Inserted, WfOpen, Acts
<1> QED BY <1>1, InitService, NextService, PTL DEF Spec

Stage(st) ==
  CASE st = "none" -> 0 [] st = "building" -> 1 [] st = "build" -> 2
    [] st = "deploy" -> 3 [] st = "deploying" -> 4 [] st = "rollout" -> 5
    [] st = "active" -> 6 [] st = "failing" -> 7 [] OTHER -> 8

Advance(d) ==
  \/ Stage(wf[d]) < Stage(wf'[d])
  \/ /\ wf'[d] = wf[d]
     /\ \A a \in AwaitedOf(d), b \in AwaitedOf(d)' : b = a \/ Later(b, a)

LEMMA NextAdvance ==
  ASSUME SInv, [Next]_vars, NEW d \in Deployments
  PROVE  Advance(d)
<1>1. Turn(d)
  BY NextTurn
<1>2. CASE wf'[d] = wf[d] /\ AwaitedOf(d)' = AwaitedOf(d)
  <2>1. wf[d] \notin Acts => AwaitedOf(d) = {}
    BY AwaitedIs DEF AwaitedOf
  <2> QED BY <1>2, <2>1 DEF Advance, SInv, Served
<1>3. CASE /\ wf'[d] = wf[d]
           /\ \E a, b : AwaitedOf(d) = {a} /\ AwaitedOf(d)' = {b} /\ Later(b, a)
  BY <1>3 DEF Advance
<1>4. CASE <<wf[d], wf'[d]>> \in WfMoves \cup {<<"none", "building">>}
  BY <1>4 DEF Advance, Stage, WfMoves, WfOpen, Acts
<1> QED BY <1>1, <1>2, <1>3, <1>4 DEF Turn

(* Every step that touches a workflow brings it nearer to its end: a later *)
(* stage, a later try of the same activity or a later statement of the     *)
(* same try.  As the stages are finitely many and the tries at most        *)
(* MaxAttempts, no workflow goes on for ever.                              *)
THEOREM WorkflowsAdvance ==
  Spec => [][\A d \in Deployments : Advance(d)]_vars
<1>1. SInv /\ [Next]_vars => [\A d \in Deployments : Advance(d)]_vars
  BY NextAdvance
<1> QED BY <1>1, InitService, NextService, PTL DEF Spec

-----------------------------------------------------------------------------
(* Without faults a row in flight is attended to.                          *)

AttemptsOf(d) == {a \in attempts : a.dep = d}

(* Without faults nothing runs twice: a deployment has one attempt at      *)
(* most, and it is abandoned by a cancelled workflow only.                 *)
Lone(d) ==
  \/ AttemptsOf(d) = {}
  \/ \E a : /\ AttemptsOf(d) = {a}
            /\ \/ a.mode = "awaited"
               \/ a.mode = "abandoned" /\ wf[d] = "cancelled"

(* Its row, until it has promoted it, is not promoted.                     *)
NotYetPromoted ==
  \A a \in attempts : a.act = "active" /\ a.pc # "point" => status[a.dep] \notin Promoted

(* Whatever faults: late[d] holds promoted deployments of the service of d. *)
LateFacts ==
  \A d \in Deployments :
    /\ IsFiniteSet(late[d])
    /\ late[d] # {} => status[d] # "absent"
    /\ \A e \in late[d] : status[e] \in Promoted /\ serviceId[e] = serviceId[d]

Superseded(d) == {e \in late[d] : status[e] = "superseded"}

(* Each try that the index refused was refused a row that another          *)
(* attempt had made active while the row of d was in flight.               *)
LateOK(a) ==
  LET d == a.dep IN
  a.mode = "awaited" /\ a.act = "active" /\ status[d] \in InFlight =>
    /\ a.pc = "supersede" => Cardinality(late[d]) >= a.try - 1
    /\ a.pc = "mark" => /\ RowsOf(serviceId[d], {"active"}) \subseteq late[d]
                        /\ Cardinality(Superseded(d)) >= a.try - 1

(* Whatever faults: a row whose workflow was never started is as its       *)
(* request inserted it, or cancelled by another, and that request is about *)
(* to start the workflow or was interrupted before it could.               *)
Begun(d) ==
  /\ status[d] # "absent" =>
       reqPc[d] \in {"start", "done"} \/ (reqPc[d] = "failed" /\ faults > 0)
  /\ reqPc[d] = "done" => wf[d] # "none"
  /\ wf[d] = "none" =>
       status[d] \notin {"building", "deploying"} /\ AttemptsOf(d) = {}

ClosedIsSettled(d) == wf[d] \in WfClosed => finishedAt[d] \/ CrowdedOut(d)

Quiet ==
  /\ \A d \in Deployments : Lone(d) /\ ClosedIsSettled(d)
  /\ NotYetPromoted
  /\ \A a \in attempts : LateOK(a)

AInv ==
  /\ SInv /\ LateFacts
  /\ \A d \in Deployments : Begun(d)
  /\ faults = 0 => Quiet

(* How the attempts of d go on in a step without faults.                   *)
QuietTurn(d) ==
  \/ wf'[d] = wf[d] /\ (AttemptsOf(d)' = AttemptsOf(d) \/ AttemptsOf(d)' = {})
  \/ /\ wf'[d] = wf[d]
     /\ \E a, b : /\ AttemptsOf(d) = {a} /\ AttemptsOf(d)' = {b}
                  /\ b.mode = a.mode
  \/ AttemptsOf(d)' = {} \/ \E b : AttemptsOf(d)' = {b} /\ b.mode = "awaited"
  \/ /\ wf'[d] = "cancelled"
     /\ \E b : AttemptsOf(d)' = {b} /\ b.mode = "abandoned"

LEMMA LoneIs ==
  ASSUME SInv, NEW a \in attempts, Lone(a.dep)
  PROVE  /\ a \in Attempt /\ a.dep \in Deployments /\ AttemptsOf(a.dep) = {a}
         /\ \/ a.mode = "awaited" /\ wf[a.dep] = a.act /\ a.act \in Acts
            \/ a.mode = "abandoned" /\ wf[a.dep] = "cancelled"
<1>1. a \in Attempt /\ a.dep \in Deployments
  BY AttemptIs DEF SInv, OInv, HInv
<1>2. a \in AttemptsOf(a.dep)
  BY DEF AttemptsOf
<1>3. a.mode = "awaited" => wf[a.dep] = a.act /\ a.act \in Acts
  BY <1>1, AwaitedIs
<1> QED BY <1>1, <1>2, <1>3 DEF Lone

LEMMA QuietEnter ==
  ASSUME SInv, NEW d \in Deployments, Lone(d), wf[d] # "cancelled",
         NEW st, Enter(d, st, {}), NEW e \in Deployments
  PROVE  QuietTurn(e)
<1>1. wf' = [wf EXCEPT ![d] = st] /\ wf \in [Deployments -> {"none"} \cup WfOpen \cup WfClosed]
  BY DEF Enter, SInv, OInv, HInv, IInv, TypeOK, WfTypeOK
<1>2. AttemptsOf(d) \subseteq AwaitedOf(d)
  BY LoneIs DEF AttemptsOf, AwaitedOf
<1> DEFINE n == NewAttempt(d, st, 1)
<1>3. n.dep = d /\ n.mode = "awaited"
  BY DEF NewAttempt
<1>4. attempts' = (attempts \ AwaitedOf(d)) \cup (IF st \in Acts THEN {n} ELSE {})
  BY DEF Enter
<1> HIDE DEF n
<1>5. CASE e = d
  <2>1. AttemptsOf(d)' = IF st \in Acts THEN {n} ELSE {}
    BY <1>2, <1>3, <1>4 DEF AttemptsOf
  <2> QED BY <1>3, <1>5, <2>1 DEF QuietTurn
<1>6. CASE e # d
  <2>1. AttemptsOf(e)' = AttemptsOf(e)
    BY <1>3, <1>4, <1>6 DEF AttemptsOf, AwaitedOf
  <2> QED BY <1>1, <1>6, <2>1 DEF QuietTurn
<1> QED BY <1>5, <1>6

(* The attempt a ends or is replaced by b, and its workflow waits on.      *)
LEMMA QuietReplace ==
  ASSUME SInv, wf' = wf, NEW a \in attempts, Lone(a.dep),
         NEW b, b.dep = a.dep, b.mode = a.mode,
         \/ attempts' = attempts \ {a}
         \/ attempts' = (attempts \ {a}) \cup {b},
         NEW e \in Deployments
  PROVE  QuietTurn(e)
<1>1. AttemptsOf(a.dep) = {a}
  BY LoneIs
<1>2. CASE e = a.dep
  <2>1. AttemptsOf(e)' = {b} \/ AttemptsOf(e)' = {}
    BY <1>1, <1>2 DEF AttemptsOf
  <2> QED BY <1>1, <1>2, <2>1 DEF QuietTurn
<1>3. CASE e # a.dep
  BY <1>3 DEF QuietTurn, AttemptsOf
<1> QED BY <1>2, <1>3

LEMMA QuietSucceeded ==
  ASSUME SInv, NEW a \in attempts, Lone(a.dep), Succeeded(a),
         NEW e \in Deployments
  PROVE  QuietTurn(e)
<1>1. CASE a.mode = "awaited" /\ Enter(a.dep, OnSuccess[a.act], {})
  <2>1. wf[a.dep] # "cancelled" /\ a.dep \in Deployments
    BY <1>1, LoneIs DEF Acts
  <2> QED BY <1>1, <2>1, QuietEnter
<1>2. CASE a.mode # "awaited" /\ attempts' = attempts \ {a} /\ wf' = wf
  BY <1>2, QuietReplace
<1> QED BY <1>1, <1>2 DEF Succeeded

LEMMA QuietFailed ==
  ASSUME SInv, NEW a \in attempts, Lone(a.dep), Failed(a, {}),
         NEW e \in Deployments
  PROVE  QuietTurn(e)
<1>1. CASE /\ a.mode = "awaited" /\ wf' = wf
           /\ attempts' = (attempts \ {a}) \cup {NewAttempt(a.dep, a.act, a.try + 1)}
  <2>1. LET n == NewAttempt(a.dep, a.act, a.try + 1)
        IN  n.dep = a.dep /\ n.mode = "awaited"
    BY DEF NewAttempt
  <2> QED BY <1>1, <2>1, QuietReplace
<1>2. CASE a.mode = "awaited" /\ Enter(a.dep, OnFailure[a.act], {})
  <2>1. wf[a.dep] # "cancelled" /\ a.dep \in Deployments
    BY <1>2, LoneIs DEF Acts
  <2> QED BY <1>2, <2>1, QuietEnter
<1>3. CASE a.mode # "awaited" /\ attempts' = attempts \ {a} /\ wf' = wf
  BY <1>3, QuietReplace
<1> QED BY <1>1, <1>2, <1>3 DEF Failed

LEMMA QuietFinished ==
  ASSUME SInv, faults' = 0, NEW a \in attempts, Lone(a.dep), Finished(a),
         NEW e \in Deployments
  PROVE  QuietTurn(e)
  BY QuietSucceeded, FaultFree DEF Finished, SInv

LEMMA QuietProceed ==
  ASSUME SInv, NEW a \in attempts, Lone(a.dep), NEW pc, Proceed(a, pc),
         NEW e \in Deployments
  PROVE  QuietTurn(e)
<1>1. a \in Attempt /\ a.mode # "expired"
  BY LoneIs
<1> DEFINE b == [a EXCEPT !.pc = pc]
<1>2. b.dep = a.dep /\ b.mode = a.mode
  BY <1>1 DEF Attempt
<1>3. attempts' = (attempts \ {a}) \cup {b} /\ wf' = wf
  BY <1>1 DEF Proceed
<1> QED BY <1>2, <1>3, QuietReplace

LEMMA QuietAttempt ==
  ASSUME SInv, faults' = 0, NEW a \in attempts, Lone(a.dep),
         RunAttempt(a) \/ AttemptFault(a), NEW e \in Deployments
  PROVE  QuietTurn(e)
<1>1. a \in Attempt
  BY LoneIs
<1>2. CASE RunWrite(a)
  BY <1>2, QuietFinished, QuietFailed DEF RunWrite
<1>3. CASE RunDeployRead(a)
  <2> DEFINE b == [a EXCEPT !.pc = "apply", !.cfg = svcConfig[target[a.dep]]]
  <2>1. b.dep = a.dep /\ b.mode = a.mode
    BY <1>1 DEF Attempt
  <2>2. CASE attempts' = (attempts \ {a}) \cup {b} /\ wf' = wf
    BY <2>1, <2>2, QuietReplace
  <2>3. CASE Failed(a, {})
    BY <2>3, QuietFailed
  <2> QED BY <1>3, <2>2, <2>3 DEF RunDeployRead
<1>4. CASE RunDeployApply(a) \/ RunSetPointer(a)
  BY <1>4, QuietFinished DEF RunDeployApply, RunSetPointer
<1>5. CASE RunSupersede(a) \/ RunMarkActive(a)
  BY <1>5, QuietProceed, QuietFailed DEF RunSupersede, RunMarkActive
<1>6. ~AttemptFault(a)
  BY FaultFree DEF AttemptFault, AttemptFails, AttemptTimesOut, SInv
<1> QED BY <1>2, <1>3, <1>4, <1>5, <1>6 DEF RunAttempt

LEMMA QuietWorkflow ==
  ASSUME SInv, NEW d \in Deployments, WorkflowStep(d), Lone(d),
         NEW e \in Deployments
  PROVE  QuietTurn(e)
<1>1. ASSUME UNCHANGED <<wf, attempts>>
      PROVE  QuietTurn(e)
  BY <1>1 DEF QuietTurn, AttemptsOf
<1>2. ASSUME NEW st, wf[d] \in {"build", "rollout"}, Enter(d, st, {})
      PROVE  QuietTurn(e)
  BY <1>2, QuietEnter
<1>3. CASE DeliverCancel(d)
  <2>1. wf[d] # "cancelled"
    BY <1>3 DEF DeliverCancel, WfOpen, Acts
  <2>2. AwaitedOf(d) = AttemptsOf(d)
    BY <2>1, LoneIs DEF AwaitedOf, AttemptsOf
  <2> DEFINE left == {[a EXCEPT !.mode = "abandoned"] : a \in AttemptsOf(d)}
  <2>3. \A b \in left : b.dep = d /\ b.mode = "abandoned"
    <3> SUFFICES ASSUME NEW a \in AttemptsOf(d)
                 PROVE  LET b == [a EXCEPT !.mode = "abandoned"]
                        IN  b.dep = d /\ b.mode = "abandoned"
      OBVIOUS
    <3>1. a \in Attempt /\ a.dep = d
      BY AttemptIs DEF AttemptsOf, SInv, OInv, HInv
    <3> QED BY <3>1 DEF Attempt
  <2>4. left = {} \/ \E b : left = {b}
    <3>1. CASE AttemptsOf(d) = {}
      BY <3>1
    <3>2. ASSUME NEW a, AttemptsOf(d) = {a}
          PROVE  left = {[a EXCEPT !.mode = "abandoned"]}
      BY <3>2
    <3> QED BY <3>1, <3>2 DEF Lone
  <2>5. /\ attempts' = (attempts \ AttemptsOf(d)) \cup left
        /\ wf' = [wf EXCEPT ![d] = "cancelled"]
    BY <1>3, <2>2 DEF DeliverCancel, Enter, Acts
  <2> HIDE DEF left
  <2>6. AttemptsOf(e)' = IF e = d THEN left ELSE AttemptsOf(e)
    BY <2>3, <2>5 DEF AttemptsOf
  <2>7. wf'[e] = IF e = d THEN "cancelled" ELSE wf[e]
    BY <2>5 DEF SInv, OInv, HInv, IInv, TypeOK, WfTypeOK
  <2> QED BY <2>3, <2>4, <2>6, <2>7 DEF QuietTurn
<1>4. CASE StartBuild(d) \/ FinishBuild(d)
  BY <1>1, <1>2, <1>4 DEF StartBuild, FinishBuild
<1>5. CASE RolloutSucceeds(d) \/ RolloutFails(d)
  BY <1>2, <1>5 DEF RolloutSucceeds, RolloutFails
<1>6. CASE ResolveBuild(d) \/ TerminateBuild(d)
  BY <1>1, <1>6 DEF ResolveBuild, TerminateBuild
<1> QED BY <1>3, <1>4, <1>5, <1>6 DEF WorkflowStep

LEMMA QuietNext ==
  ASSUME SInv, [Next]_vars, faults' = 0, \A d \in Deployments : Lone(d),
         NEW e \in Deployments
  PROVE  QuietTurn(e)
<1>1. ASSUME UNCHANGED <<wf, attempts>>
      PROVE  QuietTurn(e)
  BY <1>1 DEF QuietTurn, AttemptsOf
<1>2. ASSUME NEW d \in Deployments,
             NewRequest(d) \/ RequestStep(d) \/ RequestFault(d)
      PROVE  QuietTurn(e)
  <2>1. CASE StartWorkflow(d)
    <3>1. wf[d] = "none" /\ "building" \in Acts
      BY <2>1 DEF StartWorkflow, SInv, OInv, Outcome, RowOfRequest, Acts
    <3>2. AttemptsOf(d) = {}
      BY <3>1, LoneIs DEF AttemptsOf, Acts
    <3> DEFINE n == NewAttempt(d, "building", 1)
    <3>3. n.dep = d /\ n.mode = "awaited"
      BY DEF NewAttempt
    <3>4. attempts' = attempts \cup {n} /\ wf' = [wf EXCEPT ![d] = "building"]
      BY <2>1 DEF StartWorkflow
    <3> HIDE DEF n
    <3>5. AttemptsOf(e)' = IF e = d THEN {n} ELSE AttemptsOf(e)
      BY <3>2, <3>3, <3>4 DEF AttemptsOf
    <3>6. e # d => wf'[e] = wf[e]
      BY <3>4 DEF SInv, OInv, HInv, IInv, TypeOK, WfTypeOK
    <3> QED BY <3>3, <3>5, <3>6 DEF QuietTurn
  <2>2. ASSUME ~StartWorkflow(d)
        PROVE  UNCHANGED <<wf, attempts>>
    BY <1>2, <2>2 DEF NewRequest, BeginCreate, BeginUpdate, BeginRedeploy,
       RequestStep, ReadService, CancelInFlight, InsertRow, SignalCancel,
       RequestFault, CancelInFlightFails, RequestAborts, SignalCancelFails, wfVars
  <2> QED BY <1>1, <2>1, <2>2
<1>3. ASSUME NEW s \in Services, PodsReady(s) \/ DeleteStep(s)
      PROVE  UNCHANGED <<wf, attempts>>
  BY <1>3 DEF PodsReady, DeleteStep, StartDelete, DeleteWorkload, SoftDelete,
     DeleteFails, wfVars
<1>4. UNCHANGED vars => UNCHANGED <<wf, attempts>>
  BY DEF vars, wfVars
<1>5. ASSUME NEW a \in attempts, RunAttempt(a) \/ AttemptFault(a)
      PROVE  QuietTurn(e)
  <2>1. a.dep \in Deployments
    BY AttemptIs DEF SInv, OInv, HInv
  <2> QED BY <1>5, <2>1, QuietAttempt
<1> QED BY <1>1, <1>2, <1>3, <1>4, <1>5, QuietWorkflow DEF Next

LEMMA NextLone ==
  ASSUME SInv, [Next]_vars, faults' = 0, \A d \in Deployments : Lone(d),
         NEW d \in Deployments
  PROVE  Lone(d)'
<1>1. QuietTurn(d) /\ Lone(d)
  BY QuietNext
<1>2. wf[d] = "cancelled" => wf'[d] = "cancelled"
  BY NextFlow DEF FlowOK, WfMoves, WfOpen, Acts, SInv
<1> QED BY <1>1, <1>2 DEF QuietTurn, Lone

(* Rows become active by MarkDeploymentActive only, which is noted.        *)
Marks(a) ==
  /\ a \in attempts /\ RunMarkActive(a) /\ a.dep \in Deployments
  /\ MarkDeploymentActive(a.dep) /\ NoteLate(a.dep, serviceId[a.dep])
  /\ Proceed(a, "point")

LEMMA NextLate ==
  ASSUME SInv, [Next]_vars
  PROVE  \/ /\ late' = late
            /\ \A e \in Deployments : status'[e] = "active" => status[e] = "active"
         \/ \E a \in attempts : Marks(a)
<1> USE DEF SInv, OInv, HInv, IInv, TypeOK, TableTypeOK
<1>1. ASSUME NEW d \in Deployments,
             NewRequest(d) \/ RequestFault(d) \/ ReadService(d) \/ StartWorkflow(d)
             \/ \E e \in Deployments : SignalCancel(d, e)
      PROVE  late' = late /\ status' = status
  BY <1>1 DEF NewRequest, BeginCreate, BeginUpdate, BeginRedeploy, ReadService,
     StartWorkflow, SignalCancel, RequestFault, CancelInFlightFails,
     RequestAborts, SignalCancelFails, tableVars, k8sVars
<1>2. ASSUME NEW d \in Deployments, CancelInFlight(d) \/ InsertRow(d)
      PROVE  /\ late' = late
             /\ \A e \in Deployments : status'[e] = "active" => status[e] = "active"
  BY <1>2 DEF CancelInFlight, CancelInFlightDeployments, FinishRows, InsertRow,
     CreateDeployment, tableVars, k8sVars
<1>3. ASSUME NEW d \in Deployments, WorkflowStep(d)
      PROVE  late' = late /\ status' = status
  BY <1>3 DEF WorkflowStep, StartBuild, ResolveBuild, FinishBuild,
     RolloutSucceeds, RolloutFails, DeliverCancel, TerminateBuild, tableVars, k8sVars
<1>4. ASSUME NEW s \in Services, PodsReady(s) \/ DeleteStep(s)
      PROVE  late' = late /\ status' = status
  BY <1>4 DEF PodsReady, DeleteStep, StartDelete, DeleteWorkload, SoftDelete,
     DeleteFails, tableVars, k8sVars
<1>5. ASSUME NEW a \in attempts, RunAttempt(a) \/ AttemptFault(a)
      PROVE  \/ /\ late' = late
                /\ \A e \in Deployments : status'[e] = "active" => status[e] = "active"
             \/ Marks(a)
  <2>1. a.dep \in Deployments
    BY AttemptIs
  <2>2. CASE RunWrite(a)
    BY <2>1, <2>2 DEF RunWrite, UpdateDeploymentBuilding, UpdateDeploymentDeploying,
       MarkDeploymentFailed, UpdateRow, tableVars, k8sVars
  <2>3. CASE RunSupersede(a)
    BY <2>3 DEF RunSupersede, SupersedeActiveDeployment, FinishRows, k8sVars
  <2>4. CASE RunMarkActive(a)
    BY <2>1, <2>4 DEF RunMarkActive, Marks, tableVars
  <2>5. CASE RunDeployRead(a) \/ RunDeployApply(a) \/ RunSetPointer(a)
             \/ AttemptFault(a)
    BY <2>5 DEF RunDeployRead, RunDeployApply, RunSetPointer, AttemptFault,
       AttemptFails, AttemptTimesOut, tableVars, k8sVars
  <2> QED BY <1>5, <2>2, <2>3, <2>4, <2>5 DEF RunAttempt
<1>6. UNCHANGED vars => late' = late /\ status' = status
  BY DEF vars, k8sVars, tableVars
<1> QED BY <1>1, <1>2, <1>3, <1>4, <1>5, <1>6 DEF Next, RequestStep

LEMMA MarksIs ==
  ASSUME SInv, NEW a, Marks(a)
  PROVE  /\ a.act = "active" /\ a.pc = "mark" /\ serviceId' = serviceId
         /\ status[a.dep] # "absent" /\ status'[a.dep] = "active"
         /\ \A e \in Deployments \ {a.dep} : status'[e] = status[e]
         /\ \A e \in Deployments :
              late'[e] = IF /\ serviceId[e] = serviceId[a.dep] /\ e # a.dep
                            /\ status[e] \in InFlight
                           THEN late[e] \cup {a.dep} ELSE late[e]
<1> USE DEF SInv, OInv, HInv, IInv, TypeOK, TableTypeOK
<1>1. a.pc = "mark"
  BY DEF Marks, RunMarkActive
<1>2. a.act = "active"
  BY <1>1 DEF Marks, History, WfHistory, AttemptHistory, PcFits
<1> QED BY <1>1, <1>2
    DEF Marks, MarkDeploymentActive, UpdateRow, NoteLate, RowsOf

LEMMA NextLateFacts == ASSUME SInv, LateFacts, [Next]_vars PROVE LateFacts'
<1> SUFFICES ASSUME NEW d \in Deployments
             PROVE  /\ IsFiniteSet(late'[d])
                    /\ late'[d] # {} => status'[d] # "absent"
                    /\ \A e \in late'[d] : /\ status'[e] \in Promoted
                                           /\ serviceId'[e] = serviceId'[d]
  BY DEF LateFacts, Promoted
<1>1. status[d] # "absent" => status'[d] # "absent" /\ serviceId'[d] = serviceId[d]
  BY NextRow, NextStatus DEF StatusMove, SInv, OInv
<1>2. late[d] \subseteq Deployments
  BY DEF SInv, OInv, HInv, IInv, TypeOK, K8sTypeOK
<1>3. ASSUME NEW e \in late[d]
      PROVE  status'[e] \in Promoted /\ serviceId'[e] = serviceId'[d]
  <2>1. e \in Deployments /\ status[e] \in Promoted /\ serviceId[e] = serviceId[d]
        /\ status[d] # "absent"
    BY <1>2, <1>3 DEF LateFacts
  <2>2. serviceId'[e] = serviceId[e]
    BY <2>1, NextRow DEF SInv, Promoted
  <2> QED BY <1>1, <2>1, <2>2, PromotedStays DEF SInv
<1>4. CASE late' = late
  BY <1>1, <1>3, <1>4 DEF LateFacts
<1>5. ASSUME NEW a \in attempts, Marks(a)
      PROVE  /\ IsFiniteSet(late'[d])
             /\ late'[d] # {} => status'[d] # "absent"
             /\ \A e \in late'[d] : /\ status'[e] \in Promoted
                                    /\ serviceId'[e] = serviceId'[d]
  <2>1. IsFiniteSet(late[d]) /\ IsFiniteSet(late[d] \cup {a.dep})
    BY FS_AddElement DEF LateFacts
  <2>2. CASE late'[d] = late[d]
    BY <1>1, <1>3, <2>1, <2>2 DEF LateFacts
  <2>3. CASE /\ late'[d] = late[d] \cup {a.dep} /\ status[d] \in InFlight
             /\ serviceId[d] = serviceId[a.dep]
    <3>1. status'[a.dep] = "active" /\ serviceId' = serviceId
      BY <1>5, MarksIs
    <3> QED BY <1>1, <1>3, <2>1, <2>3, <3>1 DEF Promoted, InFlight
  <2> QED BY <1>5, <2>2, <2>3, MarksIs
<1> QED BY <1>4, <1>5, NextLate

-----------------------------------------------------------------------------

(* Where an attempt of MarkDeploymentActive before its last statement      *)
(* comes from in a step without faults.                                    *)
ActiveKept(b) == b \in attempts
ActiveLeft(b) ==
  /\ b.mode # "awaited"
  /\ \E a \in attempts : a.dep = b.dep /\ a.act = "active" /\ a.pc = b.pc
ActiveNew(b) ==
  b = NewAttempt(b.dep, "active", 1) /\ wf[b.dep] = "rollout"
ActiveOn(b, a) ==
  /\ RunSupersede(a) /\ a.act = "active"
  /\ b.dep = a.dep /\ b.mode = a.mode /\ b.try = a.try /\ b.pc = "mark"
ActiveAgain(b, a) ==
  /\ RunMarkActive(a) /\ a.act = "active" /\ a.mode = "awaited"
  /\ ~Accepted(a.dep, serviceId[a.dep], "active", TRUE)
  /\ UNCHANGED <<tableVars, late>>
  /\ b = NewAttempt(a.dep, "active", a.try + 1)

ActiveFrom(b) ==
  \/ ActiveKept(b) \/ ActiveLeft(b) \/ ActiveNew(b)
  \/ \E a \in attempts : ActiveOn(b, a) \/ ActiveAgain(b, a)

LEMMA NewActive ==
  ASSUME NEW d, NEW act, NEW n
  PROVE  /\ NewAttempt(d, act, n).act = act /\ NewAttempt(d, act, n).dep = d
         /\ NewAttempt(d, act, n).mode = "awaited" /\ NewAttempt(d, act, n).try = n
  BY DEF NewAttempt

LEMMA NewActivePc ==
  ASSUME NEW d, NEW n
  PROVE  NewAttempt(d, "active", n).pc = "supersede"
  BY DEF NewAttempt, FirstStep, Acts

(* Only a finished rollout enters "active".                                *)
LEMMA EnterNotActive ==
  ASSUME NEW d, NEW st, st # "active", Enter(d, st, {}), NEW b \in attempts',
         b.act = "active"
  PROVE  b \in attempts
  BY NewActive DEF Enter

LEMMA AttemptActive ==
  ASSUME SInv, faults' = 0, NEW a \in attempts, RunAttempt(a) \/ AttemptFault(a),
         NEW b \in attempts', b.act = "active", b.pc # "point"
  PROVE  ActiveFrom(b)
<1>1. /\ a \in Attempt /\ PcFits(a) /\ a.dep \in Deployments
      /\ a.mode = "awaited" => a.act \in Acts
  BY AttemptIs, AwaitedIs DEF SInv, OInv, HInv, History, WfHistory, AttemptHistory
<1>2. ASSUME Succeeded(a) PROVE b \in attempts
  <2>1. a.mode = "awaited" => OnSuccess[a.act] # "active"
    BY <1>1 DEF OnSuccess, Acts
  <2> QED BY <1>2, <2>1, EnterNotActive DEF Succeeded
<1>3. ASSUME Failed(a, {})
      PROVE  \/ b \in attempts
             \/ /\ a.mode = "awaited" /\ a.act = "active"
                /\ b = NewAttempt(a.dep, "active", a.try + 1)
  <2>1. a.mode = "awaited" => OnFailure[a.act] # "active"
    BY <1>1 DEF OnFailure, Acts
  <2>2. CASE a.mode = "awaited" /\ Enter(a.dep, OnFailure[a.act], {})
    BY <2>1, <2>2, EnterNotActive
  <2>3. CASE /\ a.mode = "awaited"
             /\ attempts' = (attempts \ {a}) \cup {} \cup
                              {NewAttempt(a.dep, a.act, a.try + 1)}
    BY <2>3, NewActive
  <2>4. CASE attempts' = (attempts \ {a}) \cup {}
    BY <2>4
  <2> QED BY <1>3, <2>2, <2>3, <2>4 DEF Failed
<1>4. Finished(a) => b \in attempts
  BY <1>2, FaultFree DEF Finished, SInv
<1>5. CASE RunWrite(a)
  BY <1>1, <1>3, <1>4, <1>5 DEF RunWrite, PcFits, ActiveFrom, ActiveKept
<1>6. CASE RunDeployRead(a)
  <2>1. a.act = "deploy"
    BY <1>1, <1>6 DEF RunDeployRead, PcFits
  <2>2. [a EXCEPT !.pc = "apply", !.cfg = svcConfig[target[a.dep]]].act = a.act
    BY <1>1 DEF Attempt
  <2> QED BY <1>3, <1>6, <2>1, <2>2 DEF RunDeployRead, ActiveFrom, ActiveKept
<1>7. CASE RunDeployApply(a) \/ RunSetPointer(a)
  BY <1>4, <1>7 DEF RunDeployApply, RunSetPointer, ActiveFrom, ActiveKept
<1>8. CASE RunSupersede(a)
  <2>1. a.act = "active"
    BY <1>1, <1>8 DEF RunSupersede, PcFits
  <2> DEFINE c == [a EXCEPT !.pc = "mark"]
  <2>2. c.dep = a.dep /\ c.mode = a.mode /\ c.try = a.try /\ c.pc = "mark"
    BY <1>1 DEF Attempt
  <2>3. b \in attempts \/ b = c
    BY <1>8 DEF RunSupersede, Proceed
  <2> QED BY <1>8, <2>1, <2>2, <2>3 DEF ActiveFrom, ActiveKept, ActiveOn
<1>9. CASE RunMarkActive(a)
  <2>1. CASE Proceed(a, "point")
    <3>1. [a EXCEPT !.pc = "point"].pc = "point"
      BY <1>1 DEF Attempt
    <3> QED BY <2>1, <3>1 DEF Proceed, ActiveFrom, ActiveKept
  <2>2. CASE /\ ~Accepted(a.dep, serviceId[a.dep], "active", TRUE)
             /\ Failed(a, {}) /\ UNCHANGED <<tableVars, late>>
    BY <1>3, <1>9, <2>2 DEF ActiveFrom, ActiveKept, ActiveAgain
  <2> QED BY <1>9, <2>1, <2>2 DEF RunMarkActive
<1>10. ~AttemptFault(a)
  BY FaultFree DEF AttemptFault, AttemptFails, AttemptTimesOut, SInv
<1> QED BY <1>5, <1>6, <1>7, <1>8, <1>9, <1>10 DEF RunAttempt

LEMMA WorkflowActive ==
  ASSUME SInv, NEW d \in Deployments, WorkflowStep(d),
         NEW b \in attempts', b.act = "active"
  PROVE  ActiveFrom(b)
<1> USE DEF ActiveFrom, ActiveKept
<1>1. CASE StartBuild(d) \/ FinishBuild(d) \/ RolloutFails(d)
  BY <1>1, EnterNotActive DEF StartBuild, FinishBuild, RolloutFails
<1>2. CASE RolloutSucceeds(d)
  <2>1. wf[d] = "rollout" /\ (b \in attempts \/ b = NewAttempt(d, "active", 1))
    BY <1>2 DEF RolloutSucceeds, Enter, Acts
  <2> QED BY <2>1, NewActive DEF ActiveNew
<1>3. CASE DeliverCancel(d)
  <2>1. ASSUME NEW a \in AwaitedOf(d), b = [a EXCEPT !.mode = "abandoned"]
        PROVE  ActiveLeft(b)
    <3>1. a \in Attempt /\ a \in attempts
      BY AttemptIs DEF AwaitedOf, SInv, OInv, HInv
    <3>2. b.dep = a.dep /\ b.act = a.act /\ b.pc = a.pc /\ b.mode = "abandoned"
      BY <2>1, <3>1 DEF Attempt
    <3> QED BY <3>1, <3>2 DEF ActiveLeft
  <2>2. \/ b \in attempts
        \/ b \in {[a EXCEPT !.mode = "abandoned"] : a \in AwaitedOf(d)}
    BY <1>3 DEF DeliverCancel, Enter, Acts
  <2> QED BY <2>1, <2>2
<1>4. CASE ResolveBuild(d) \/ TerminateBuild(d)
  BY <1>4 DEF ResolveBuild, TerminateBuild
<1> QED BY <1>1, <1>2, <1>3, <1>4 DEF WorkflowStep

LEMMA NextActive ==
  ASSUME SInv, [Next]_vars, faults' = 0,
         NEW b \in attempts', b.act = "active", b.pc # "point"
  PROVE  ActiveFrom(b)
<1>1. ASSUME NEW d \in Deployments,
             NewRequest(d) \/ RequestStep(d) \/ RequestFault(d)
      PROVE  b \in attempts
  <2>1. CASE StartWorkflow(d)
    BY <2>1, NewActive DEF StartWorkflow
  <2>2. CASE ~StartWorkflow(d)
    BY <1>1, <2>2 DEF NewRequest, BeginCreate, BeginUpdate, BeginRedeploy,
       RequestStep, ReadService, CancelInFlight, InsertRow, SignalCancel,
       RequestFault, CancelInFlightFails, RequestAborts, SignalCancelFails
  <2> QED BY <2>1, <2>2
<1>2. ASSUME NEW s \in Services, PodsReady(s) \/ DeleteStep(s)
      PROVE  attempts' = attempts
  BY <1>2 DEF PodsReady, DeleteStep, StartDelete, DeleteWorkload, SoftDelete,
     DeleteFails
<1>3. UNCHANGED vars => attempts' = attempts
  BY DEF vars
<1> QED BY <1>1, <1>2, <1>3, AttemptActive, WorkflowActive
    DEF Next, ActiveFrom, ActiveKept

LEMMA NextNotYetPromoted ==
  ASSUME SInv, \A d \in Deployments : Lone(d), NotYetPromoted,
         [Next]_vars, faults' = 0
  PROVE  NotYetPromoted'
<1> SUFFICES ASSUME NEW b \in attempts', b.act = "active", b.pc # "point",
                    status'[b.dep] \in Promoted
             PROVE  FALSE
  BY DEF NotYetPromoted, Promoted
<1>1. b.dep \in Deployments
  <2>1. OInv'
    BY NextOutcome DEF SInv
  <2> QED BY <2>1 DEF OInv, HInv, IInv, TypeOK, WfTypeOK, Attempt
<1>2. CASE status[b.dep] \in Promoted
  <2>1. ~ActiveNew(b)
    BY <1>1, <1>2 DEF ActiveNew, SInv, OInv, Outcome, Exclusive, Promoting
  <2>2. ASSUME NEW a \in attempts, ActiveOn(b, a) \/ ActiveAgain(b, a)
        PROVE  a.dep = b.dep /\ a.act = "active" /\ a.pc # "point"
    <3>1. CASE ActiveOn(b, a)
      BY <3>1 DEF ActiveOn, RunSupersede
    <3>2. CASE ActiveAgain(b, a)
      <4>1. a.pc = "mark"
        BY <3>2 DEF ActiveAgain, RunMarkActive
      <4> QED BY <3>2, <4>1, NewActive DEF ActiveAgain
    <3> QED BY <2>2, <3>1, <3>2
  <2> QED BY <1>2, <2>1, <2>2, NextActive
      DEF ActiveFrom, ActiveKept, ActiveLeft, NotYetPromoted
<1>3. CASE status[b.dep] \notin Promoted
  <2>1. status'[b.dep] = "active" /\ status[b.dep] # "active"
    BY <1>1, <1>3, NextStatus DEF StatusMove, Promoted, SInv, OInv
  <2>2. PICK m \in attempts : Marks(m)
    BY <1>1, <2>1, NextLate
  <2>3. m.dep = b.dep
    BY <1>1, <2>1, <2>2, MarksIs
  <2>4. m \in Attempt /\ m.mode # "expired" /\ AttemptsOf(b.dep) = {m}
    BY <1>1, <2>3, LoneIs
  <2>5. attempts' = (attempts \ {m}) \cup {[m EXCEPT !.pc = "point"]}
    BY <2>2, <2>4 DEF Marks, Proceed
  <2>6. [m EXCEPT !.pc = "point"].pc = "point"
    BY <2>4 DEF Attempt
  <2> QED BY <2>4, <2>5, <2>6 DEF AttemptsOf
<1> QED BY <1>2, <1>3

LEMMA LateGrows ==
  ASSUME SInv, [Next]_vars, NEW d \in Deployments
  PROVE  late[d] \subseteq late'[d]
  BY NextLate, MarksIs

LEMMA CardinalityGrows ==
  ASSUME NEW T, IsFiniteSet(T), NEW S, S \subseteq T
  PROVE  /\ IsFiniteSet(S) /\ Cardinality(S) \in Nat /\ Cardinality(T) \in Nat
         /\ Cardinality(S) <= Cardinality(T)
  BY FS_Subset, FS_CardinalityType

(* A superseded row stays what it is while nobody revives it.              *)
LEMMA SupersededStays ==
  ASSUME SInv, LateFacts, NotYetPromoted, [Next]_vars, NEW d \in Deployments
  PROVE  Superseded(d) \subseteq Superseded(d)'
<1> SUFFICES ASSUME NEW e \in late[d], status[e] = "superseded"
             PROVE  e \in late'[d] /\ status'[e] = "superseded"
  BY DEF Superseded
<1>1. e \in Deployments
  BY DEF SInv, OInv, HInv, IInv, TypeOK, K8sTypeOK
<1>2. status'[e] \in Promoted
  BY <1>1, PromotedStays DEF Promoted, SInv
<1>3. status'[e] # "active"
  <2> SUFFICES ASSUME status'[e] = "active" PROVE FALSE
    OBVIOUS
  <2>1. PICK m \in attempts : Marks(m)
    BY <1>1, NextLate
  <2>2. m.dep = e /\ m.act = "active" /\ m.pc = "mark"
    BY <1>1, <2>1, MarksIs
  <2> QED BY <2>2 DEF NotYetPromoted, Promoted
<1> QED BY <1>2, <1>3, LateGrows DEF Promoted

LEMMA NextLateOK ==
  ASSUME SInv, LateFacts, \A d \in Deployments : Lone(d), NotYetPromoted,
         \A a \in attempts : LateOK(a),
         [Next]_vars, faults' = 0, NEW b \in attempts'
  PROVE  LateOK(b)'
<1> DEFINE d == b.dep
<1> SUFFICES ASSUME b.mode = "awaited", b.act = "active", status'[d] \in InFlight
             PROVE  /\ b.pc = "supersede" => Cardinality(late'[d]) >= b.try - 1
                    /\ b.pc = "mark" =>
                         /\ RowsOf(serviceId[d], {"active"})' \subseteq late'[d]
                         /\ Cardinality(Superseded(d)') >= b.try - 1
  BY DEF LateOK, InFlight
<1>1. SInv' /\ LateFacts'
  BY NextService, NextLateFacts
<1>2. b \in Attempt /\ d \in Deployments /\ b.try \in Nat /\ wf'[d] = "active"
  BY <1>1, BoundsAreNat
  DEF SInv, OInv, HInv, IInv, TypeOK, WfTypeOK, Attempt, Outcome, AttemptOutcome
<1>3. status[d] # "absent"
  <2>1. wf[d] # "none"
    BY <1>2, NextFlow DEF FlowOK, WfMoves, WfOpen, Acts, SInv
  <2> QED BY <1>2, <2>1 DEF SInv, OInv, Outcome, RowOfRequest, Inserted
<1>4. status[d] \in InFlight /\ serviceId'[d] = serviceId[d]
  BY <1>2, <1>3, NextStatus, NextRow DEF StatusMove, InFlight, SInv, OInv
<1>5. IsFiniteSet(late[d]) /\ IsFiniteSet(late'[d]) /\ late'[d] \subseteq Deployments
  BY <1>1, <1>2 DEF LateFacts, SInv, OInv, HInv, IInv, TypeOK, K8sTypeOK
<1>6. /\ Cardinality(late[d]) \in Nat /\ Cardinality(late'[d]) \in Nat
      /\ Cardinality(late[d]) <= Cardinality(late'[d])
  BY <1>2, <1>5, LateGrows, CardinalityGrows
<1>7. CASE b.pc # "supersede" /\ b.pc # "mark"
  BY <1>7
<1>8. CASE b \in attempts
  <2>1. LateOK(b)
    BY <1>8
  <2>2. b.pc = "supersede" => Cardinality(late'[d]) >= b.try - 1
    BY <1>2, <1>4, <1>6, <2>1 DEF LateOK
  <2>3. ASSUME b.pc = "mark"
        PROVE  Cardinality(Superseded(d)') >= b.try - 1
    <3>1. Superseded(d)' \subseteq late'[d]
      BY DEF Superseded
    <3>2. IsFiniteSet(Superseded(d)')
      BY <1>5, <3>1, CardinalityGrows
    <3>3. /\ Cardinality(Superseded(d)) \in Nat /\ Cardinality(Superseded(d)') \in Nat
          /\ Cardinality(Superseded(d)) <= Cardinality(Superseded(d)')
      BY <1>2, <3>2, SupersededStays, CardinalityGrows
    <3>4. Cardinality(Superseded(d)) >= b.try - 1
      BY <1>4, <2>1, <2>3 DEF LateOK
    <3> QED BY <1>2, <3>3, <3>4
  <2>4. ASSUME b.pc = "mark", NEW e \in Deployments, status'[e] = "active",
               serviceId'[e] = serviceId'[d]
        PROVE  e \in late'[d]
    <3>1. CASE status[e] = "active"
      <4>1. serviceId[e] = serviceId[d]
        BY <1>4, <2>4, <3>1, NextRow DEF SInv
      <4> QED BY <1>2, <1>4, <2>1, <2>4, <3>1, <4>1, LateGrows DEF LateOK, RowsOf
    <3>2. CASE status[e] # "active"
      <4>1. PICK m \in attempts : Marks(m)
        BY <2>4, <3>2, NextLate
      <4>2. m.dep = e /\ serviceId' = serviceId
        BY <2>4, <3>2, <4>1, MarksIs
      <4>3. d # e
        BY <2>4 DEF InFlight
      <4> QED BY <1>2, <1>4, <2>4, <4>1, <4>2, <4>3, MarksIs
    <3> QED BY <3>1, <3>2
  <2> QED BY <2>2, <2>3, <2>4 DEF RowsOf
<1>9. CASE ActiveNew(b)
  BY <1>2, <1>6, <1>9, NewActive, NewActivePc DEF ActiveNew
<1>10. ASSUME NEW a \in attempts, ActiveOn(b, a)
       PROVE  /\ b.pc = "mark"
              /\ RowsOf(serviceId[d], {"active"})' \subseteq late'[d]
              /\ Cardinality(Superseded(d)') >= b.try - 1
  <2>1. /\ a.dep = d /\ a.act = "active" /\ a.mode = "awaited" /\ a.try = b.try
        /\ b.pc = "mark" /\ a.pc = "supersede"
    BY <1>10 DEF ActiveOn, RunSupersede
  <2>2. late' = late /\ SupersedeActiveDeployment(target[d])
    BY <1>10, <2>1 DEF ActiveOn, RunSupersede, k8sVars
  <2>3. serviceId[d] = target[d]
    BY <1>2, <1>3 DEF SInv, OInv, Outcome, RowOfRequest
  <2>4. RowsOf(serviceId[d], {"active"})' = {}
    BY <1>4, <2>2, <2>3
    DEF SupersedeActiveDeployment, FinishRows, RowsOf, SInv, OInv, HInv, IInv,
        TypeOK, TableTypeOK
  <2>5. Superseded(d)' = late[d]
    <3>1. \A e \in late[d] : status'[e] = "superseded"
      <4> TAKE e \in late[d]
      <4>1. /\ e \in Deployments /\ status[e] \in Promoted
            /\ serviceId[e] = target[d]
        BY <1>2, <2>3 DEF LateFacts, SInv, OInv, HInv, IInv, TypeOK, K8sTypeOK
      <4> QED BY <2>2, <4>1
          DEF SupersedeActiveDeployment, FinishRows, RowsOf, Promoted
    <3> QED BY <2>2, <3>1 DEF Superseded
  <2>6. Cardinality(late[d]) >= b.try - 1
    BY <1>4, <2>1 DEF LateOK
  <2> QED BY <2>1, <2>4, <2>5, <2>6
<1>11. ASSUME NEW a \in attempts, ActiveAgain(b, a)
       PROVE  b.pc = "supersede" /\ Cardinality(late'[d]) >= b.try - 1
  <2>1. /\ a.dep = d /\ b.try = a.try + 1 /\ b.pc = "supersede"
        /\ a.act = "active" /\ a.mode = "awaited" /\ a.pc = "mark"
    BY <1>11, NewActive, NewActivePc DEF ActiveAgain, RunMarkActive
  <2>2. PICK e \in Deployments : serviceId[e] = serviceId[d] /\ status[e] = "active"
    BY <1>11, <2>1 DEF ActiveAgain, Accepted, CheckOk, NoOther, InFlight
  <2>3. /\ e \in late[d] /\ Cardinality(Superseded(d)) >= a.try - 1
    BY <1>4, <2>1, <2>2 DEF LateOK, RowsOf
  <2>4. Superseded(d) \cup {e} \subseteq late[d] /\ e \notin Superseded(d)
    BY <2>2, <2>3 DEF Superseded
  <2>5. IsFiniteSet(Superseded(d))
    BY <1>5, <2>4, CardinalityGrows
  <2>6. Cardinality(Superseded(d) \cup {e}) = Cardinality(Superseded(d)) + 1
    BY <2>4, <2>5, FS_AddElement
  <2>7. Cardinality(Superseded(d) \cup {e}) <= Cardinality(late[d])
        /\ Cardinality(Superseded(d)) \in Nat
    BY <1>5, <2>4, <2>5, CardinalityGrows
  <2>8. late' = late
    BY <1>11 DEF ActiveAgain
  <2>9. a.try \in Nat
    BY AttemptIs, BoundsAreNat DEF Attempt, SInv, OInv, HInv
  <2> QED BY <1>6, <2>1, <2>3, <2>6, <2>7, <2>8, <2>9
<1>12. ~ActiveLeft(b)
  BY DEF ActiveLeft
<1> QED BY <1>7, <1>8, <1>9, <1>10, <1>11, <1>12, NextActive
    DEF ActiveFrom, ActiveKept

(* The two statements whose refusal leaves a workflow unrecorded.          *)
Refused(a) ==
  /\ a.mode = "awaited" /\ UNCHANGED <<tableVars, late>>
  /\ \/ /\ a.act = "building"
        /\ ~Accepted(a.dep, serviceId[a.dep], "building", finishedAt[a.dep])
     \/ /\ a.act = "active" /\ a.pc = "mark" /\ a.try = MaxAttempts
        /\ ~Accepted(a.dep, serviceId[a.dep], "active", TRUE)

LEMMA EnterElse ==
  ASSUME SInv, NEW d \in Deployments, NEW st, NEW left, Enter(d, st, left),
         NEW e \in Deployments, wf'[e] # wf[e]
  PROVE  e = d /\ wf'[e] = st
  BY DEF Enter, SInv, OInv, HInv, IInv, TypeOK, WfTypeOK

LEMMA AttemptUnrecorded ==
  ASSUME SInv, faults' = 0, NEW a \in attempts, RunAttempt(a) \/ AttemptFault(a),
         NEW d \in Deployments, wf'[d] = "unrecorded", wf[d] # "unrecorded"
  PROVE  a.dep = d /\ Refused(a)
<1>1. /\ a \in Attempt /\ PcFits(a) /\ a.dep \in Deployments
      /\ a.mode = "awaited" => a.act \in Acts
  BY AttemptIs, AwaitedIs DEF SInv, OInv, HInv, History, WfHistory, AttemptHistory
<1>2. ASSUME Succeeded(a) PROVE FALSE
  <2>1. a.mode = "awaited" => OnSuccess[a.act] # "unrecorded"
    BY <1>1 DEF OnSuccess, Acts
  <2> QED BY <1>1, <1>2, <2>1, EnterElse DEF Succeeded
<1>3. Finished(a) => FALSE
  BY <1>2, FaultFree DEF Finished, SInv
<1>4. ASSUME Failed(a, {})
      PROVE  /\ a.dep = d /\ a.mode = "awaited" /\ a.try = MaxAttempts
             /\ OnFailure[a.act] = "unrecorded"
  <2>1. a.mode = "awaited" /\ a.try = MaxAttempts
        /\ Enter(a.dep, OnFailure[a.act], {})
    BY <1>4 DEF Failed
  <2> QED BY <1>1, <2>1, EnterElse
<1>5. CASE RunWrite(a)
  <2>1. /\ a.act \in {"building", "deploying"}
        /\ ~Accepted(a.dep, serviceId[a.dep], a.act, finishedAt[a.dep])
        /\ Failed(a, {}) /\ UNCHANGED tableVars
    BY <1>3, <1>5 DEF RunWrite
  <2>2. late' = late
    BY <1>5 DEF RunWrite, k8sVars
  <2>3. OnFailure["deploying"] # "unrecorded"
    BY DEF OnFailure, Acts
  <2> QED BY <1>4, <2>1, <2>2, <2>3 DEF Refused
<1>6. CASE RunDeployRead(a)
  <2>1. a.act = "deploy"
    BY <1>1, <1>6 DEF RunDeployRead, PcFits
  <2>2. OnFailure["deploy"] # "unrecorded"
    BY DEF OnFailure, Acts
  <2> QED BY <1>4, <1>6, <2>1, <2>2 DEF RunDeployRead
<1>7. CASE RunDeployApply(a) \/ RunSetPointer(a)
  BY <1>3, <1>7 DEF RunDeployApply, RunSetPointer
<1>8. CASE RunSupersede(a)
  BY <1>8 DEF RunSupersede, Proceed
<1>9. CASE RunMarkActive(a)
  <2>1. /\ a.pc = "mark" /\ ~Accepted(a.dep, serviceId[a.dep], "active", TRUE)
        /\ Failed(a, {}) /\ UNCHANGED <<tableVars, late>>
    BY <1>9 DEF RunMarkActive, Proceed
  <2>2. a.act = "active"
    BY <1>1, <2>1 DEF PcFits
  <2> QED BY <1>4, <2>1, <2>2 DEF Refused
<1>10. ~AttemptFault(a)
  BY FaultFree DEF AttemptFault, AttemptFails, AttemptTimesOut, SInv
<1> QED BY <1>5, <1>6, <1>7, <1>8, <1>9, <1>10 DEF RunAttempt

LEMMA NextUnrecorded ==
  ASSUME SInv, [Next]_vars, faults' = 0,
         NEW d \in Deployments, wf'[d] = "unrecorded", wf[d] # "unrecorded"
  PROVE  \E a \in attempts : a.dep = d /\ Refused(a)
<1>1. ASSUME NEW e \in Deployments,
             NewRequest(e) \/ RequestStep(e) \/ RequestFault(e)
      PROVE  FALSE
  <2>1. CASE StartWorkflow(e)
    BY <2>1 DEF StartWorkflow, SInv, OInv, HInv, IInv, TypeOK, WfTypeOK
  <2>2. CASE ~StartWorkflow(e)
    BY <1>1, <2>2 DEF NewRequest, BeginCreate, BeginUpdate, BeginRedeploy,
       RequestStep, ReadService, CancelInFlight, InsertRow, SignalCancel,
       RequestFault, CancelInFlightFails, RequestAborts, SignalCancelFails, wfVars
  <2> QED BY <2>1, <2>2
<1>2. ASSUME NEW e \in Deployments, WorkflowStep(e)
      PROVE  FALSE
  BY <1>2, EnterElse DEF WorkflowStep, StartBuild, ResolveBuild, FinishBuild,
     RolloutSucceeds, RolloutFails, DeliverCancel, TerminateBuild
<1>3. ASSUME NEW s \in Services, PodsReady(s) \/ DeleteStep(s)
      PROVE  FALSE
  BY <1>3 DEF PodsReady, DeleteStep, StartDelete, DeleteWorkload, SoftDelete,
     DeleteFails, wfVars
<1>4. UNCHANGED vars => FALSE
  BY DEF vars, wfVars
<1> QED BY <1>1, <1>2, <1>3, <1>4, AttemptUnrecorded DEF Next

LEMMA NextClosed ==
  ASSUME SInv, LateFacts, \A a \in attempts : LateOK(a), [Next]_vars, faults' = 0,
         NEW d \in Deployments, ClosedIsSettled(d)
  PROVE  ClosedIsSettled(d)'
<1> SUFFICES ASSUME wf'[d] \in WfClosed
             PROVE  finishedAt'[d] \/ CrowdedOut(d)'
  BY DEF ClosedIsSettled, WfClosed
<1>1. SInv' /\ LateFacts'
  BY NextService, NextLateFacts
<1>2. finishedAt[d] => finishedAt'[d]
  BY NextGrows DEF Grows, SInv, OInv, HInv
<1>3. /\ IsFiniteSet(late'[d]) /\ Cardinality(late[d]) \in Nat
      /\ Cardinality(late'[d]) \in Nat /\ Cardinality(late[d]) <= Cardinality(late'[d])
  BY <1>1, LateGrows, CardinalityGrows DEF LateFacts
<1>4. CrowdedOut(d) => CrowdedOut(d)'
  BY <1>3, BoundsAreNat DEF CrowdedOut
<1>5. CASE wf[d] \in WfClosed
  BY <1>2, <1>4, <1>5 DEF ClosedIsSettled
<1>6. CASE wf'[d] \in {"completed", "failed", "cancelled"}
  BY <1>1, <1>6 DEF SInv, OInv, HInv, History, WfHistory, Earned
<1>7. CASE wf'[d] = "unrecorded" /\ wf[d] \notin WfClosed
  <2>1. PICK a \in attempts : a.dep = d /\ Refused(a)
    BY <1>7, NextUnrecorded DEF WfClosed
  <2>2. a.mode = "awaited" /\ wf[d] = a.act /\ a.act \in Acts
    BY <2>1, AwaitedIs DEF Refused
  <2>3. status[d] # "absent"
    BY <2>2 DEF SInv, OInv, Outcome, RowOfRequest, Inserted, Acts
  <2>4. CASE finishedAt[d]
    BY <1>2, <2>4
  <2>5. CASE ~finishedAt[d]
    <3>1. status[d] \in InFlight
      BY <2>3, <2>5
      DEF SInv, OInv, HInv, IInv, TableInv, FinishedIffEnded, TypeOK, TableTypeOK
    <3>2. finishedAt[d] = FALSE
      BY <2>5 DEF SInv, OInv, HInv, IInv, TypeOK, TableTypeOK
    <3>3. Accepted(d, serviceId[d], "building", finishedAt[d])
      BY <3>1, <3>2 DEF Accepted, CheckOk, NoOther, InFlight, Ended, SInv, OInv,
         HInv, IInv, TableInv, OnePerService
    <3>4. /\ a.act = "active" /\ a.pc = "mark" /\ a.try = MaxAttempts
          /\ ~Accepted(d, serviceId[d], "active", TRUE)
      BY <2>1, <3>3 DEF Refused
    <3>5. PICK e \in Deployments : serviceId[e] = serviceId[d] /\ status[e] = "active"
      BY <3>4 DEF Accepted, CheckOk, NoOther, InFlight
    <3>6. e \in late[d] /\ Cardinality(Superseded(d)) >= a.try - 1
      BY <2>1, <2>2, <3>1, <3>4, <3>5 DEF LateOK, RowsOf
    <3>7. Superseded(d) \cup {e} \subseteq late[d] /\ e \notin Superseded(d)
      BY <3>5, <3>6 DEF Superseded
    <3>8. IsFiniteSet(Superseded(d))
      BY <3>7, CardinalityGrows DEF LateFacts
    <3>9. /\ Cardinality(Superseded(d) \cup {e}) = Cardinality(Superseded(d)) + 1
          /\ Cardinality(Superseded(d)) \in Nat
      BY <3>7, <3>8, FS_AddElement, CardinalityGrows
    <3>10. Cardinality(Superseded(d) \cup {e}) <= Cardinality(late[d])
      BY <3>7, CardinalityGrows DEF LateFacts
    <3>11. CrowdedOut(d)
      BY <1>3, <3>4, <3>6, <3>9, <3>10, BoundsAreNat DEF CrowdedOut
    <3> QED BY <1>4, <3>11
  <2> QED BY <2>4, <2>5
<1> QED BY <1>5, <1>6, <1>7 DEF WfClosed

LEMMA FaultsStay ==
  ASSUME OInv, [Next]_vars, faults > 0
  PROVE  faults' > 0
<1>1. OInv'
  BY NextOutcome
<1> QED BY <1>1, FaultsGrow, BoundsAreNat DEF OInv, HInv, IInv, TypeOK

(* A row appears by the INSERT of its request, which is then to start its  *)
(* workflow.                                                               *)
LEMMA RowAppears ==
  ASSUME SInv, [Next]_vars, NEW d \in Deployments,
         status[d] = "absent", status'[d] # "absent"
  PROVE  reqPc'[d] = "start"
<1>1. status'[d] = "queued"
  BY NextStatus DEF SInv, OInv, StatusMove, InFlight
<1> USE DEF SInv, OInv, HInv, IInv, TypeOK, TableTypeOK, ReqTypeOK
<1>2. ASSUME NEW e \in Deployments, InsertRow(e) PROVE reqPc'[d] = "start"
  <2>1. CreateDeployment(e, target[e]) /\ Goto(e, "start")
    BY <1>1, <1>2 DEF InsertRow, tableVars
  <2>2. e = d
    BY <1>1, <2>1 DEF CreateDeployment
  <2> QED BY <2>1, <2>2 DEF Goto
<1>3. ASSUME NEW e \in Deployments,
             \/ NewRequest(e) \/ ReadService(e) \/ StartWorkflow(e)
             \/ RequestFault(e) \/ WorkflowStep(e)
             \/ \E f \in Deployments : SignalCancel(e, f)
      PROVE  status' = status
  BY <1>3 DEF NewRequest, BeginCreate, BeginUpdate, BeginRedeploy, ReadService,
     StartWorkflow, SignalCancel, RequestFault, CancelInFlightFails,
     RequestAborts, SignalCancelFails, WorkflowStep, StartBuild, ResolveBuild,
     FinishBuild, RolloutSucceeds, RolloutFails, DeliverCancel, TerminateBuild,
     tableVars
<1>4. ASSUME NEW e \in Deployments, CancelInFlight(e) PROVE FALSE
  BY <1>1, <1>4 DEF CancelInFlight, CancelInFlightDeployments, FinishRows
<1>5. ASSUME NEW s \in Services, PodsReady(s) \/ DeleteStep(s)
      PROVE  status' = status
  BY <1>5 DEF PodsReady, DeleteStep, StartDelete, DeleteWorkload, SoftDelete,
     DeleteFails, tableVars
<1>6. ASSUME NEW a \in attempts, RunAttempt(a) \/ AttemptFault(a) PROVE FALSE
  <2>1. a.dep \in Deployments
    BY AttemptIs
  <2>2. CASE RunWrite(a)
    BY <1>1, <2>1, <2>2 DEF RunWrite, UpdateDeploymentBuilding,
       UpdateDeploymentDeploying, MarkDeploymentFailed, UpdateRow, tableVars
  <2>3. CASE RunSupersede(a) \/ RunMarkActive(a)
    BY <1>1, <2>1, <2>3 DEF RunSupersede, SupersedeActiveDeployment, FinishRows,
       RunMarkActive, MarkDeploymentActive, UpdateRow, tableVars
  <2>4. CASE RunDeployRead(a) \/ RunDeployApply(a) \/ RunSetPointer(a)
             \/ AttemptFault(a)
    BY <2>4 DEF RunDeployRead, RunDeployApply, RunSetPointer, AttemptFault,
       AttemptFails, AttemptTimesOut, tableVars
  <2> QED BY <1>6, <2>2, <2>3, <2>4 DEF RunAttempt
<1> QED BY <1>1, <1>2, <1>3, <1>4, <1>5, <1>6 DEF Next, RequestStep, vars, tableVars

(* A request past its INSERT starts the workflow or is interrupted.        *)
LEMMA RequestPast ==
  ASSUME SInv, [Next]_vars, NEW d \in Deployments,
         reqPc[d] \in {"start", "done", "failed"}
  PROVE  \/ reqPc'[d] = reqPc[d]
         \/ reqPc'[d] = "done" /\ wf'[d] = "building"
         \/ reqPc'[d] = "failed" /\ Fault
<1> USE DEF SInv, OInv, HInv, IInv, TypeOK, ReqTypeOK, WfTypeOK
<1>1. ASSUME NEW e \in Deployments, NewRequest(e) \/ RequestStep(e)
      PROVE  \/ reqPc'[d] = reqPc[d]
             \/ reqPc'[d] = "done" /\ wf'[d] = "building"
  BY <1>1 DEF NewRequest, BeginCreate, BeginUpdate, BeginRedeploy, RequestStep,
     ReadService, CancelInFlight, InsertRow, StartWorkflow, SignalCancel, Goto
<1>2. ASSUME NEW e \in Deployments, RequestFault(e)
      PROVE  \/ reqPc'[d] = reqPc[d]
             \/ reqPc'[d] = "failed" /\ Fault
  BY <1>2 DEF RequestFault, CancelInFlightFails, RequestAborts, SignalCancelFails,
     Goto
<1>3. ASSUME NEW a \in attempts, RunAttempt(a) \/ AttemptFault(a)
      PROVE  reqPc' = reqPc
  BY <1>3 DEF RunAttempt, RunWrite, RunDeployRead, RunDeployApply, RunSupersede,
     RunMarkActive, RunSetPointer, AttemptFault, AttemptFails, AttemptTimesOut,
     reqVars
<1>4. ASSUME NEW e \in Deployments, WorkflowStep(e)
      PROVE  reqPc' = reqPc
  BY <1>4 DEF WorkflowStep, StartBuild, ResolveBuild, FinishBuild,
     RolloutSucceeds, RolloutFails, DeliverCancel, TerminateBuild, reqVars
<1>5. ASSUME NEW s \in Services, PodsReady(s) \/ DeleteStep(s)
      PROVE  reqPc' = reqPc
  BY <1>5 DEF PodsReady, DeleteStep, StartDelete, DeleteWorkload, SoftDelete,
     DeleteFails, reqVars
<1>6. UNCHANGED vars => reqPc' = reqPc
  BY DEF vars, reqVars
<1> QED BY <1>1, <1>2, <1>3, <1>4, <1>5, <1>6 DEF Next

(* Only an attempt of the activity 'building' makes a queued row building. *)
LEMMA RowIsBuilt ==
  ASSUME SInv, [Next]_vars, NEW d \in Deployments,
         status'[d] \in {"building", "deploying"}, status[d] # status'[d]
  PROVE  AttemptsOf(d) # {}
<1> USE DEF SInv, OInv, HInv, IInv, TypeOK, TableTypeOK
<1>1. ASSUME NEW e \in Deployments,
             NewRequest(e) \/ RequestStep(e) \/ RequestFault(e) \/ WorkflowStep(e)
      PROVE  status' = status \/ status'[d] \in {status[d], "queued", "cancelled"}
  BY <1>1 DEF NewRequest, BeginCreate, BeginUpdate, BeginRedeploy, RequestStep,
     ReadService, CancelInFlight, CancelInFlightDeployments, FinishRows,
     InsertRow, CreateDeployment, StartWorkflow, SignalCancel,
     RequestFault, CancelInFlightFails,
     RequestAborts, SignalCancelFails, WorkflowStep, StartBuild, ResolveBuild,
     FinishBuild, RolloutSucceeds, RolloutFails, DeliverCancel, TerminateBuild,
     tableVars
<1>2. ASSUME NEW s \in Services, PodsReady(s) \/ DeleteStep(s)
      PROVE  status' = status
  BY <1>2 DEF PodsReady, DeleteStep, StartDelete, DeleteWorkload, SoftDelete,
     DeleteFails, tableVars
<1>3. ASSUME NEW a \in attempts, RunAttempt(a) \/ AttemptFault(a) PROVE a.dep = d
  <2>1. a.dep \in Deployments
    BY AttemptIs
  <2>2. CASE RunWrite(a)
    BY <2>1, <2>2 DEF RunWrite, UpdateDeploymentBuilding,
       UpdateDeploymentDeploying, MarkDeploymentFailed, UpdateRow, tableVars
  <2>3. CASE RunSupersede(a) \/ RunMarkActive(a)
    BY <2>1, <2>3 DEF RunSupersede, SupersedeActiveDeployment, FinishRows,
       RunMarkActive, MarkDeploymentActive, UpdateRow, tableVars
  <2>4. CASE RunDeployRead(a) \/ RunDeployApply(a) \/ RunSetPointer(a)
             \/ AttemptFault(a)
    BY <2>4 DEF RunDeployRead, RunDeployApply, RunSetPointer, AttemptFault,
       AttemptFails, AttemptTimesOut, tableVars
  <2> QED BY <1>3, <2>2, <2>3, <2>4 DEF RunAttempt
<1> QED BY <1>1, <1>2, <1>3 DEF Next, vars, tableVars, AttemptsOf

LEMMA NextBegun ==
  ASSUME SInv, [Next]_vars, NEW d \in Deployments, Begun(d)
  PROVE  Begun(d)'
<1>1. wf[d] # "none" => wf'[d] # "none"
  BY NextFlow DEF FlowOK, WfMoves, WfOpen, Acts, SInv
<1>2. faults > 0 => faults' > 0
  BY FaultsStay DEF SInv
<1>3. Fault => faults' > 0
  BY BoundsAreNat DEF Fault, SInv, OInv, HInv, IInv, TypeOK
<1>4. status'[d] # "absent" =>
        reqPc'[d] \in {"start", "done"} \/ (reqPc'[d] = "failed" /\ faults' > 0)
  BY <1>2, <1>3, RowAppears, RequestPast DEF Begun
<1>5. reqPc'[d] = "done" => wf'[d] # "none"
  <2> SUFFICES ASSUME reqPc'[d] = "done" PROVE wf'[d] # "none"
    OBVIOUS
  <2>1. CASE reqPc[d] \in {"start", "done"}
    BY <1>1, <2>1, RequestPast DEF Begun
  <2>2. CASE reqPc[d] \notin {"start", "done"}
    <3>1. status'[d] = "queued"
      BY <2>2, RequestInserts
    <3>2. CASE status[d] = "absent"
      BY <3>1, <3>2, RowAppears
    <3>3. CASE status[d] # "absent"
      BY <2>2, <3>3, RequestPast DEF Begun
    <3> QED BY <3>2, <3>3
  <2> QED BY <2>1, <2>2
<1>6. wf'[d] = "none" =>
        status'[d] \notin {"building", "deploying"} /\ AttemptsOf(d)' = {}
  <2> SUFFICES ASSUME wf'[d] = "none"
               PROVE  /\ status'[d] \notin {"building", "deploying"}
                      /\ AttemptsOf(d)' = {}
    OBVIOUS
  <2>1. wf[d] = "none" /\ AttemptsOf(d) = {}
    BY <1>1 DEF Begun
  <2>2. status'[d] \notin {"building", "deploying"}
    BY <2>1, RowIsBuilt DEF Begun
  <2>3. ASSUME NEW b \in attempts', b.dep = d PROVE FALSE
    <3>1. ~Inherited(b)
      BY <2>1, <2>3 DEF Inherited, AttemptsOf
    <3>2. <<"none", "none">> \notin WfMoves \cup {<<"none", "building">>}
      BY DEF WfMoves, WfOpen, Acts
    <3>3. ~Fresh(b)
      BY <2>1, <2>3, <3>2 DEF Fresh
    <3> QED BY <3>1, <3>3, NextFlow DEF FlowOK, SInv
  <2> QED BY <2>2, <2>3 DEF AttemptsOf
<1> QED BY <1>4, <1>5, <1>6 DEF Begun

LEMMA NextAttended == ASSUME AInv, [Next]_vars PROVE AInv'
<1>1. SInv' /\ LateFacts'
  BY NextService, NextLateFacts DEF AInv
<1>2. \A d \in Deployments : Begun(d)'
  BY NextBegun DEF AInv
<1>3. ASSUME faults' = 0 PROVE Quiet'
  <2>1. Quiet /\ SInv /\ LateFacts
    BY <1>3, FaultsGrow DEF AInv, SInv
  <2>2. \A d \in Deployments : Lone(d)'
    BY <1>3, <2>1, NextLone DEF Quiet
  <2>3. \A d \in Deployments : ClosedIsSettled(d)'
    BY <1>3, <2>1, NextClosed DEF Quiet
  <2>4. NotYetPromoted'
    BY <1>3, <2>1, NextNotYetPromoted DEF Quiet
  <2>5. \A b \in attempts' : LateOK(b)'
    BY <1>3, <2>1, NextLateOK DEF Quiet
  <2> QED BY <2>2, <2>3, <2>4, <2>5 DEF Quiet
<1> QED BY <1>1, <1>2, <1>3 DEF AInv

LEMMA InitAttended == ASSUME Init PROVE AInv
<1>1. LateFacts
  BY FS_EmptySet DEF Init, LateFacts
<1>2. Quiet
  BY DEF Init, TableInit, Lone, AttemptsOf, ClosedIsSettled, WfClosed, Quiet,
     NotYetPromoted
<1>3. \A d \in Deployments : Begun(d)
  BY DEF Init, TableInit, Begun, AttemptsOf
<1> QED BY <1>1, <1>2, <1>3, InitService DEF AInv

(* A row in flight has its request about to start its workflow or that     *)
(* workflow open, however requests overlap and whichever UPDATE the index  *)
(* refuses.  Without faults the only way out is that attempts abandoned by *)
(* cancelled workflows use up every try of its own last activity; with     *)
(* them, a request interrupted after its INSERT, whose row is then still   *)
(* queued, and the workflow that closes without a record.                  *)
THEOREM InFlightRowsAreAttended == Spec => []InFlightIsAttended
<1>1. ASSUME AInv, NEW d \in Deployments, status[d] \in InFlight
      PROVE  \/ reqPc[d] = "start"
             \/ wf[d] \in WfOpen
             \/ faults = 0 /\ CrowdedOut(d)
             \/ faults > 0 /\ \/ reqPc[d] = "failed" /\ wf[d] = "none" /\ status[d] = "queued"
                              \/ wf[d] = "unrecorded"
  <2>1. SInv /\ Begun(d) /\ (faults = 0 => Quiet)
    BY <1>1 DEF AInv
  <2>2. ~finishedAt[d]
    BY <1>1, <2>1 DEF SInv, OInv, HInv, IInv, TableInv, FinishedIffEnded, InFlight, Ended
  <2>3. wf[d] \in {"none"} \cup WfOpen \cup WfClosed /\ faults \in 0 .. MaxFaults
    BY <2>1 DEF SInv, OInv, HInv, IInv, TypeOK, WfTypeOK
  <2>4. faults = 0 \/ faults > 0
    BY <2>3, BoundsAreNat
  <2>5. CASE wf[d] = "none"
    BY <1>1, <2>1, <2>4, <2>5 DEF Begun, InFlight
  <2>6. CASE wf[d] \in WfClosed
    <3>1. wf[d] = "unrecorded"
      BY <2>1, <2>2, <2>6
      DEF SInv, OInv, HInv, History, WfHistory, Earned, WfClosed
    <3>2. faults = 0 => CrowdedOut(d)
      BY <2>1, <2>2, <2>6 DEF Quiet, ClosedIsSettled
    <3> QED BY <2>4, <3>1, <3>2
  <2> QED BY <2>3, <2>5, <2>6
<1>2. AInv => InFlightIsAttended
  BY <1>1 DEF InFlightIsAttended
<1> QED BY <1>2, InitAttended, NextAttended, PTL DEF Spec

-----------------------------------------------------------------------------
(* The pointer of a service whose requests do not overlap.                 *)

(* Something of deployment d is under way.                                 *)
Busy(d) ==
  \/ reqPc[d] \notin {"idle", "done", "failed"}
  \/ wf[d] \in WfOpen
  \/ AttemptsOf(d) # {}

(* A request comes in only when nothing is under way for its service.      *)
OneAtATime ==
  \A d \in Deployments : target'[d] # target[d] =>
    \A e \in Deployments : target[e] = target'[d] => ~Busy(e)

Alone(d) ==
  Busy(d) => \A e \in Deployments \ {d} : target[e] = target[d] => ~Busy(e)

(* What the deployments of one service do to each other: here, nothing.    *)
Undisturbed(d) ==
  /\ ~cancelReq[d] /\ toCancel[d] = {} /\ late[d] = {}
  /\ wf[d] \notin {"cancelled", "unrecorded"} /\ status[d] # "cancelled"

Rooted(d) ==
  IF reqPc[d] = "idle" THEN target[d] = None ELSE svcState[target[d]] # "absent"

(* A deployment on its way to active has its own object in the cluster.    *)
Newest(d) ==
  LET s == target[d] IN
  wf[d] \in {"deploying", "rollout", "active"} /\ cluster[s] # None =>
    cluster[s].dep = d

(* What was applied last and completed is what the pointer names.          *)
Pointed(s) ==
  cluster[s] # None =>
    /\ svcState[s] # "absent" /\ target[cluster[s].dep] = s
    /\ svcState[s] = "live" /\ wf[cluster[s].dep] = "completed" =>
         current[s] = cluster[s].dep

Serial ==
  /\ \A d \in Deployments : Alone(d) /\ Undisturbed(d) /\ Rooted(d) /\ Newest(d)
  /\ \A s \in Services : Pointed(s)

PInv == AInv /\ (faults = 0 => Serial)

(* What Serial says in a state without faults.                             *)
LEMMA SerialRows ==
  ASSUME AInv, Serial, faults = 0, NEW d \in Deployments
  PROVE  /\ status[d] \in InFlight => Busy(d)
         /\ status[d] # "absent" => serviceId[d] = target[d] /\ reqPc[d] # "idle"
         /\ Busy(d) => reqPc[d] # "idle" /\ target[d] \in Services
<1> USE DEF AInv, SInv, OInv, HInv, IInv
<1>1. ASSUME status[d] \in InFlight PROVE Busy(d)
  <2>1. reqPc[d] \in {"start", "done"} /\ (reqPc[d] = "done" => wf[d] # "none")
    BY <1>1 DEF Begun, InFlight
  <2>2. ~finishedAt[d]
    BY <1>1 DEF TableInv, FinishedIffEnded, InFlight, Ended
  <2>3. ~CrowdedOut(d)
    BY FS_EmptySet, BoundsAreNat DEF Serial, Undisturbed, CrowdedOut
  <2>4. wf[d] \notin WfClosed
    BY <2>2, <2>3 DEF Quiet, ClosedIsSettled
  <2> QED BY <2>1, <2>4 DEF Busy, TypeOK, WfTypeOK
<1>2. status[d] # "absent" => serviceId[d] = target[d] /\ reqPc[d] # "idle"
  BY DEF Outcome, RowOfRequest
<1>3. ASSUME Busy(d) PROVE reqPc[d] # "idle"
  <2>1. CASE wf[d] \in WfOpen
    BY <2>1 DEF Outcome, RowOfRequest, WfOpen, Acts
  <2>2. CASE AttemptsOf(d) # {}
    BY <2>2 DEF AttemptsOf, Linked, AttemptsOK
  <2> QED BY <1>3, <2>1, <2>2 DEF Busy
<1> QED BY <1>1, <1>2, <1>3 DEF Linked

LEMMA SerialAttempts ==
  ASSUME AInv, Serial, faults = 0, NEW a \in attempts
  PROVE  /\ a \in Attempt /\ a.dep \in Deployments /\ a.mode = "awaited"
         /\ wf[a.dep] = a.act /\ a.act \in Acts /\ PcFits(a)
         /\ Busy(a.dep) /\ target[a.dep] \in Services
<1>1. a \in Attempt /\ a.dep \in Deployments /\ PcFits(a)
  BY AttemptIs DEF AInv, SInv, OInv, HInv, History, WfHistory, AttemptHistory
<1>2. Lone(a.dep) /\ wf[a.dep] # "cancelled"
  BY <1>1 DEF AInv, Quiet, Serial, Undisturbed
<1>3. a.mode = "awaited" /\ wf[a.dep] = a.act /\ a.act \in Acts
  BY <1>2, LoneIs DEF AInv
<1>4. Busy(a.dep)
  BY <1>3 DEF Busy, WfOpen
<1> QED BY <1>1, <1>3, <1>4, SerialRows

(* Requests take one service, once.                                        *)
LEMMA NextTarget ==
  ASSUME SInv, [Next]_vars, NEW d \in Deployments, target'[d] # target[d]
  PROVE  /\ reqPc[d] = "idle" /\ reqPc'[d] # "idle"
         /\ target'[d] \in Services /\ svcState'[target'[d]] = "live"
         /\ \A e \in Deployments \ {d} : target'[e] = target[e]
<1> USE DEF SInv, OInv, HInv, IInv, TypeOK, ReqTypeOK, SvcTypeOK
<1>1. ASSUME NEW e \in Deployments, NewRequest(e)
      PROVE  /\ reqPc[d] = "idle" /\ reqPc'[d] # "idle"
             /\ target'[d] \in Services /\ svcState'[target'[d]] = "live"
             /\ \A f \in Deployments \ {d} : target'[f] = target[f]
  BY <1>1 DEF NewRequest, BeginCreate, BeginUpdate, BeginRedeploy, Goto, svcVars
<1>2. ASSUME NEW e \in Deployments, RequestStep(e) \/ RequestFault(e)
      PROVE  target' = target
  BY <1>2 DEF RequestStep, ReadService, CancelInFlight, InsertRow, StartWorkflow,
     SignalCancel, RequestFault, CancelInFlightFails, RequestAborts,
     SignalCancelFails
<1>3. ASSUME NEW a \in attempts, RunAttempt(a) \/ AttemptFault(a)
      PROVE  target' = target
  BY <1>3 DEF RunAttempt, RunWrite, RunDeployRead, RunDeployApply, RunSupersede,
     RunMarkActive, RunSetPointer, AttemptFault, AttemptFails, AttemptTimesOut,
     reqVars
<1>4. ASSUME NEW e \in Deployments, WorkflowStep(e)
      PROVE  target' = target
  BY <1>4 DEF WorkflowStep, StartBuild, ResolveBuild, FinishBuild,
     RolloutSucceeds, RolloutFails, DeliverCancel, TerminateBuild, reqVars
<1>5. ASSUME NEW s \in Services, PodsReady(s) \/ DeleteStep(s)
      PROVE  target' = target
  BY <1>5 DEF PodsReady, DeleteStep, StartDelete, DeleteWorkload, SoftDelete,
     DeleteFails, reqVars
<1>6. UNCHANGED vars => target' = target
  BY DEF vars, reqVars
<1> QED BY <1>1, <1>2, <1>3, <1>4, <1>5, <1>6 DEF Next

LEMMA IdleBefore ==
  ASSUME SInv, [Next]_vars, NEW d \in Deployments, reqPc[d] = "idle",
         reqPc'[d] # "idle"
  PROVE  target'[d] \in Services /\ svcState'[target'[d]] = "live"
<1> USE DEF SInv, OInv, HInv, IInv, TypeOK, ReqTypeOK, SvcTypeOK
<1>1. ASSUME NEW e \in Deployments, NewRequest(e)
      PROVE  target'[d] \in Services /\ svcState'[target'[d]] = "live"
  BY <1>1 DEF NewRequest, BeginCreate, BeginUpdate, BeginRedeploy, Goto, svcVars
<1>2. ASSUME NEW e \in Deployments, RequestStep(e) \/ RequestFault(e)
      PROVE  reqPc'[d] = "idle"
  BY <1>2 DEF RequestStep, ReadService, CancelInFlight, InsertRow, StartWorkflow,
     SignalCancel, RequestFault, CancelInFlightFails, RequestAborts,
     SignalCancelFails, Goto
<1>3. ASSUME NEW a \in attempts, RunAttempt(a) \/ AttemptFault(a)
      PROVE  reqPc' = reqPc
  BY <1>3 DEF RunAttempt, RunWrite, RunDeployRead, RunDeployApply, RunSupersede,
     RunMarkActive, RunSetPointer, AttemptFault, AttemptFails, AttemptTimesOut,
     reqVars
<1>4. ASSUME NEW e \in Deployments, WorkflowStep(e)
      PROVE  reqPc' = reqPc
  BY <1>4 DEF WorkflowStep, StartBuild, ResolveBuild, FinishBuild,
     RolloutSucceeds, RolloutFails, DeliverCancel, TerminateBuild, reqVars
<1>5. ASSUME NEW s \in Services, PodsReady(s) \/ DeleteStep(s)
      PROVE  reqPc' = reqPc
  BY <1>5 DEF PodsReady, DeleteStep, StartDelete, DeleteWorkload, SoftDelete,
     DeleteFails, reqVars
<1>6. UNCHANGED vars => reqPc' = reqPc
  BY DEF vars, reqVars
<1> QED BY <1>1, <1>2, <1>3, <1>4, <1>5, <1>6 DEF Next

LEMMA NextRooted ==
  ASSUME SInv, [Next]_vars, NEW d \in Deployments, Rooted(d)
  PROVE  Rooted(d)'
<1>1. CASE reqPc[d] = "idle"
  BY <1>1, IdleBefore, NextTarget DEF Rooted
<1>2. CASE reqPc[d] # "idle"
  <2>1. /\ reqPc'[d] # "idle" /\ target'[d] = target[d] /\ target[d] \in Services
    BY <1>2, NextRow DEF SInv, OInv, HInv, IInv, Linked
  <2>2. svcState'[target[d]] # "absent"
    BY <1>2, <2>1, ServiceStays DEF Rooted, SInv
  <2> QED BY <2>1, <2>2 DEF Rooted
<1> QED BY <1>1, <1>2

(* A deployment gets busy by its request only.                             *)
LEMMA GetsBusy ==
  ASSUME AInv, [Next]_vars, faults' = 0, NEW d \in Deployments, ~Busy(d), Busy(d)'
  PROVE  reqPc[d] = "idle" /\ reqPc'[d] # "idle"
<1>1. SInv /\ Begun(d) /\ faults = 0 /\ AInv'
  BY FaultsGrow, NextAttended DEF AInv, SInv
<1>2. reqPc'[d] # "idle"
  <2>1. CASE wf'[d] \in WfOpen
    BY <1>1, <2>1 DEF AInv, SInv, OInv, Outcome, RowOfRequest, WfOpen, Acts
  <2>2. CASE AttemptsOf(d)' # {}
    BY <1>1, <2>2 DEF AttemptsOf, AInv, SInv, OInv, HInv, IInv, Linked, AttemptsOK
  <2> QED BY <2>1, <2>2 DEF Busy
<1>3. ASSUME reqPc[d] \in {"done", "failed"} PROVE FALSE
  <2>1. reqPc'[d] \in {"done", "failed"}
    BY <1>1, <1>3, RequestPast
  <2>2. wf'[d] \notin WfOpen
    <3>1. CASE wf[d] = "none"
      <4>1. reqPc[d] = "failed"
        BY <1>1, <1>3, <3>1 DEF Begun
      <4>2. reqPc'[d] # "done"
        <5>1. SUFFICES ASSUME reqPc'[d] = "done" PROVE FALSE
          OBVIOUS
        <5>2. status'[d] = "queued"
          BY <1>1, <4>1, <5>1, RequestInserts
        <5>3. status[d] = "absent"
          BY <1>1, <4>1 DEF Begun, AInv, SInv, OInv, HInv, IInv, TypeOK
        <5> QED BY <1>1, <5>1, <5>2, <5>3, RowAppears
      <4> QED BY <1>1, <4>2 DEF AInv, SInv, OInv, Outcome, RowOfRequest, WfOpen, Acts
    <3>2. CASE wf[d] # "none"
      <4>1. wf[d] \in WfClosed
        BY <1>1, <3>2 DEF Busy, SInv, OInv, HInv, IInv, TypeOK, WfTypeOK
      <4>2. wf'[d] = wf[d]
        BY <1>1, <4>1, NextFlow DEF FlowOK, WfMoves, WfOpen, Acts, WfClosed, SInv
      <4> QED BY <4>1, <4>2 DEF WfClosed, WfOpen, Acts
    <3> QED BY <3>1, <3>2
  <2>3. ASSUME NEW b \in attempts', b.dep = d PROVE FALSE
    <3>1. ~Inherited(b)
      BY <2>3 DEF Busy, Inherited, AttemptsOf
    <3>2. Fresh(b)
      BY <1>1, <3>1, NextFlow DEF FlowOK, SInv
    <3>3. b.act \in Acts
      BY <1>1 DEF AInv, SInv, OInv, HInv, IInv, Linked, AttemptsOK, Attempt
    <3>4. wf'[d] \in WfOpen
      BY <2>3, <3>2, <3>3 DEF Fresh, WfOpen
    <3> QED BY <2>2, <3>4
  <2> QED BY <2>1, <2>2, <2>3 DEF Busy, AttemptsOf
<1>4. reqPc[d] \in {"idle", "done", "failed"}
  BY DEF Busy
<1> QED BY <1>2, <1>3, <1>4

LEMMA NextAlone ==
  ASSUME AInv, Serial, [Next]_vars, OneAtATime, faults' = 0, NEW d \in Deployments
  PROVE  Alone(d)'
<1> SUFFICES ASSUME NEW e \in Deployments \ {d}, Busy(d)', Busy(e)',
                    target'[e] = target'[d]
             PROVE  FALSE
  BY DEF Alone
<1>1. faults = 0 /\ SInv
  BY FaultsGrow DEF AInv, SInv
<1>2. ASSUME NEW f \in Deployments, Busy(f)
      PROVE  target'[f] = target[f]
  <2>1. reqPc[f] # "idle"
    BY <1>1, <1>2, SerialRows
  <2> QED BY <1>1, <2>1, NextRow DEF SInv
<1>3. ASSUME NEW f \in Deployments, ~Busy(f), Busy(f)'
      PROVE  /\ target'[f] # target[f]
             /\ \A g \in Deployments : target[g] = target'[f] => ~Busy(g)
  <2>1. reqPc[f] = "idle" /\ reqPc'[f] # "idle"
    BY <1>3, GetsBusy
  <2>2. target[f] = None /\ target'[f] \in Services
    BY <1>1, <2>1, IdleBefore DEF Serial, Rooted
  <2>3. target'[f] # target[f]
    BY <2>2, NoneIsNoId
  <2> QED BY <2>3 DEF OneAtATime
<1>4. CASE Busy(d) /\ Busy(e)
  BY <1>2, <1>4 DEF Serial, Alone
<1>5. CASE Busy(d) /\ ~Busy(e)
  BY <1>2, <1>3, <1>5
<1>6. CASE ~Busy(d) /\ Busy(e)
  BY <1>2, <1>3, <1>6
<1>7. CASE ~Busy(d) /\ ~Busy(e)
  BY <1>1, <1>3, <1>7, NextTarget
<1> QED BY <1>4, <1>5, <1>6, <1>7

(* No request finds anything to cancel.                                    *)
LEMMA NothingToCancel ==
  ASSUME AInv, Serial, faults = 0, NEW d \in Deployments, Busy(d)
  PROVE  RowsOf(target[d], InFlight) \ {d} = {}
<1>1. ASSUME NEW e \in Deployments \ {d}, serviceId[e] = target[d],
             status[e] \in InFlight
      PROVE  FALSE
  <2>1. Busy(e) /\ target[e] = target[d]
    BY <1>1, SerialRows DEF InFlight
  <2> QED BY <2>1 DEF Serial, Alone
<1> QED BY <1>1 DEF RowsOf

LEMMA NextCancels ==
  ASSUME AInv, Serial, [Next]_vars, faults' = 0, NEW d \in Deployments
  PROVE  ~cancelReq'[d] /\ toCancel'[d] = {}
<1> USE DEF AInv, SInv, OInv, HInv, IInv, TypeOK, ReqTypeOK, WfTypeOK
<1>1. faults = 0 /\ ~cancelReq[d] /\ toCancel[d] = {}
  BY FaultsGrow DEF Serial, Undisturbed
<1>2. ASSUME NEW e \in Deployments, CancelInFlight(e)
      PROVE  ~cancelReq'[d] /\ toCancel'[d] = {}
  <2>1. Busy(e)
    BY <1>2 DEF CancelInFlight, Busy
  <2>2. RowsOf(target[e], InFlight) \ {e} = {}
    BY <1>1, <2>1, NothingToCancel
  <2> QED BY <1>1, <1>2, <2>2 DEF CancelInFlight, wfVars
<1>3. ASSUME NEW e \in Deployments, NEW f \in Deployments,
             SignalCancel(e, f) \/ SignalCancelFails(e, f)
      PROVE  FALSE
  BY <1>3 DEF SignalCancel, SignalCancelFails, Serial, Undisturbed
<1>4. ASSUME NEW e \in Deployments,
             \/ NewRequest(e) \/ ReadService(e) \/ InsertRow(e) \/ StartWorkflow(e)
             \/ CancelInFlightFails(e) \/ RequestAborts(e) \/ WorkflowStep(e)
      PROVE  UNCHANGED <<cancelReq, toCancel>>
  BY <1>4 DEF NewRequest, BeginCreate, BeginUpdate, BeginRedeploy, ReadService,
     InsertRow, StartWorkflow, CancelInFlightFails, RequestAborts, WorkflowStep,
     StartBuild, ResolveBuild, FinishBuild, RolloutSucceeds, RolloutFails,
     DeliverCancel, TerminateBuild, reqVars, wfVars
<1>5. ASSUME NEW a \in attempts, RunAttempt(a) \/ AttemptFault(a)
      PROVE  UNCHANGED <<cancelReq, toCancel>>
  BY <1>5 DEF RunAttempt, RunWrite, RunDeployRead, RunDeployApply, RunSupersede,
     RunMarkActive, RunSetPointer, AttemptFault, AttemptFails, AttemptTimesOut,
     reqVars
<1>6. ASSUME NEW s \in Services, PodsReady(s) \/ DeleteStep(s)
      PROVE  UNCHANGED <<cancelReq, toCancel>>
  BY <1>6 DEF PodsReady, DeleteStep, StartDelete, DeleteWorkload, SoftDelete,
     DeleteFails, reqVars, wfVars
<1>7. UNCHANGED vars => UNCHANGED <<cancelReq, toCancel>>
  BY DEF vars, reqVars, wfVars
<1> QED BY <1>1, <1>2, <1>3, <1>4, <1>5, <1>6, <1>7
    DEF Next, RequestStep, RequestFault

LEMMA NextOnTime ==
  ASSUME AInv, Serial, [Next]_vars, faults' = 0, NEW d \in Deployments
  PROVE  late'[d] = {} /\ status'[d] # "cancelled"
<1>1. faults = 0 /\ SInv /\ late[d] = {} /\ status[d] # "cancelled"
  BY FaultsGrow DEF AInv, SInv, Serial, Undisturbed
<1>2. late'[d] = {}
  <2>1. ASSUME NEW a \in attempts, Marks(a) PROVE late'[d] = {}
    <3>1. Busy(a.dep) /\ a.dep \in Deployments
      BY <1>1, SerialAttempts
    <3>2. serviceId[a.dep] = target[a.dep]
      BY <1>1, <2>1, <3>1, MarksIs, SerialRows
    <3>3. ~(serviceId[d] = serviceId[a.dep] /\ d # a.dep /\ status[d] \in InFlight)
      BY <1>1, <3>1, <3>2, NothingToCancel DEF RowsOf
    <3> QED BY <1>1, <2>1, <3>3, MarksIs
  <2> QED BY <1>1, <2>1, NextLate
<1>3. status'[d] # "cancelled"
  <2>1. SUFFICES ASSUME status'[d] = "cancelled" PROVE FALSE
    OBVIOUS
  <2>2. status[d] \in InFlight
    BY <1>1, <2>1, NextStatus DEF StatusMove, SInv, OInv, InFlight
  <2>3. PICK r \in Deployments : CancelInFlight(r) /\ target[r] = serviceId[d]
    BY <1>1, <2>1, CancelledByRequest DEF SInv
  <2>4. Busy(r) /\ status[r] = "absent"
    BY <1>1, <2>3 DEF CancelInFlight, Busy, AInv, Begun
  <2>5. d # r
    BY <2>2, <2>4 DEF InFlight
  <2> QED BY <1>1, <2>2, <2>3, <2>4, <2>5, NothingToCancel DEF RowsOf
<1> QED BY <1>2, <1>3

(* No UPDATE is refused.                                                   *)
LEMMA NothingRefused ==
  ASSUME AInv, Serial, faults = 0, NEW a \in attempts
  PROVE  ~Refused(a)
<1> DEFINE d == a.dep
<1> USE DEF AInv, SInv, OInv, HInv, IInv
<1>1. /\ d \in Deployments /\ wf[d] = a.act /\ a.act \in Acts /\ a.mode = "awaited"
  BY SerialAttempts
<1>2. status[d] # "absent" /\ status[d] # "cancelled"
  BY <1>1 DEF Outcome, RowOfRequest, Inserted, Acts, Serial, Undisturbed
<1>3. ASSUME a.act = "building"
      PROVE  Accepted(d, serviceId[d], "building", finishedAt[d])
  <2>1. ~Promoting(d) /\ ~Failing(d)
    BY <1>1, <1>3 DEF Outcome, Exclusive
  <2>2. status[d] \in InFlight
    BY <1>1, <1>2, <2>1 DEF Promoting, Promoted, Failing, TypeOK, TableTypeOK, Ended
  <2>3. finishedAt[d] = FALSE
    BY <1>1, <2>2 DEF TableInv, FinishedIffEnded, InFlight, Ended, TypeOK, TableTypeOK
  <2> QED BY <1>1, <2>2, <2>3 DEF Accepted, CheckOk, NoOther, InFlight, Ended,
      TableInv, OnePerService
<1>4. ASSUME a.act = "active", a.pc = "mark"
      PROVE  Accepted(d, serviceId[d], "active", TRUE)
  <2>1. status[d] \notin Promoted
    BY <1>4 DEF Quiet, NotYetPromoted
  <2>2. status[d] # "failed"
    BY <1>1, <1>4 DEF Outcome, Exclusive, Promoting, Failing
  <2>3. status[d] \in InFlight
    BY <1>1, <1>2, <2>1, <2>2 DEF Promoted, TypeOK, TableTypeOK, Ended
  <2>4. RowsOf(serviceId[d], {"active"}) = {}
    BY <1>1, <1>4, <2>3 DEF Quiet, LateOK, Serial, Undisturbed
  <2> QED BY <2>4 DEF Accepted, CheckOk, NoOther, RowsOf, InFlight
<1> QED BY <1>3, <1>4 DEF Refused

LEMMA NextUndisturbed ==
  ASSUME AInv, Serial, [Next]_vars, faults' = 0, NEW d \in Deployments
  PROVE  Undisturbed(d)'
<1>1. faults = 0 /\ SInv /\ wf[d] \notin {"cancelled", "unrecorded"}
  BY FaultsGrow DEF AInv, SInv, Serial, Undisturbed
<1>2. wf'[d] # "unrecorded"
  BY <1>1, NextUnrecorded, NothingRefused
<1>3. wf'[d] # "cancelled"
  <2>1. SUFFICES ASSUME wf'[d] = "cancelled" PROVE FALSE
    OBVIOUS
  <2>2. AInv'
    BY NextAttended
  <2>3. wf'[d] # wf[d]
    BY <1>1, <2>1
  <2>4. \A e \in Deployments : ~DeliverCancel(e)
    BY DEF DeliverCancel, Serial, Undisturbed
  <2>5. ASSUME NEW e \in Deployments, WorkflowStep(e) PROVE FALSE
    BY <1>1, <2>1, <2>3, <2>4, <2>5, EnterElse DEF WorkflowStep, StartBuild, ResolveBuild,
       FinishBuild, RolloutSucceeds, RolloutFails, TerminateBuild
  <2>6. ASSUME NEW e \in Deployments,
               NewRequest(e) \/ RequestStep(e) \/ RequestFault(e)
        PROVE  FALSE
    <3>1. CASE StartWorkflow(e)
      BY <2>1, <2>3, <3>1 DEF StartWorkflow, AInv, SInv, OInv, HInv, IInv, TypeOK, WfTypeOK
    <3>2. CASE ~StartWorkflow(e)
      BY <2>3, <2>6, <3>2 DEF NewRequest, BeginCreate, BeginUpdate, BeginRedeploy,
         RequestStep, ReadService, CancelInFlight, InsertRow, SignalCancel,
         RequestFault, CancelInFlightFails, RequestAborts, SignalCancelFails, wfVars
    <3> QED BY <3>1, <3>2
  <2>7. ASSUME NEW a \in attempts, RunAttempt(a) \/ AttemptFault(a) PROVE FALSE
    <3>1. a.mode = "awaited" /\ a.act \in Acts /\ a.dep \in Deployments
      BY <1>1, SerialAttempts
    <3>2. OnSuccess[a.act] # "cancelled" /\ OnFailure[a.act] # "cancelled"
      BY <3>1 DEF OnSuccess, OnFailure, Acts
    <3>3. ~Succeeded(a) /\ \A left : ~Failed(a, left)
      BY <1>1, <2>1, <2>3, <3>1, <3>2, EnterElse DEF Succeeded, Failed
    <3>4. ~Finished(a) /\ ~AttemptFault(a)
      BY <3>3 DEF Finished, AttemptFault, AttemptFails, AttemptTimesOut
    <3> QED BY <2>3, <2>7, <3>3, <3>4 DEF RunAttempt, RunWrite, RunDeployRead,
        RunDeployApply, RunSupersede, RunMarkActive, RunSetPointer, Proceed
  <2>8. ASSUME NEW s \in Services, PodsReady(s) \/ DeleteStep(s)
        PROVE  FALSE
    BY <2>3, <2>8 DEF PodsReady, DeleteStep, StartDelete, DeleteWorkload, SoftDelete,
       DeleteFails, wfVars
  <2> QED BY <2>3, <2>5, <2>6, <2>7, <2>8 DEF Next, vars, wfVars
<1> QED BY <1>2, <1>3, NextCancels, NextOnTime DEF Undisturbed

(* A workflow gets past "deploy" by an apply, and completes by setting the *)
(* pointer.                                                                *)
LEMMA StageStep ==
  ASSUME AInv, Serial, [Next]_vars, faults' = 0, NEW d \in Deployments,
         wf'[d] # wf[d], wf'[d] \in {"deploying", "completed"}
  PROVE  \E a \in attempts :
           /\ a.dep = d
           /\ wf'[d] = "deploying" => RunDeployApply(a)
           /\ wf'[d] = "completed" => RunSetPointer(a)
<1>1. faults = 0 /\ SInv
  BY FaultsGrow DEF AInv, SInv
<1>2. ASSUME NEW e \in Deployments, WorkflowStep(e) PROVE FALSE
  BY <1>1, <1>2, EnterElse DEF WorkflowStep, StartBuild, ResolveBuild, FinishBuild,
     RolloutSucceeds, RolloutFails, DeliverCancel, TerminateBuild
<1>3. ASSUME NEW e \in Deployments,
             NewRequest(e) \/ RequestStep(e) \/ RequestFault(e)
      PROVE  FALSE
  <2>1. CASE StartWorkflow(e)
    BY <2>1 DEF StartWorkflow, AInv, SInv, OInv, HInv, IInv, TypeOK, WfTypeOK
  <2>2. CASE ~StartWorkflow(e)
    BY <1>3, <2>2 DEF NewRequest, BeginCreate, BeginUpdate, BeginRedeploy,
       RequestStep, ReadService, CancelInFlight, InsertRow, SignalCancel,
       RequestFault, CancelInFlightFails, RequestAborts, SignalCancelFails, wfVars
  <2> QED BY <2>1, <2>2
<1>4. ASSUME NEW s \in Services, PodsReady(s) \/ DeleteStep(s)
      PROVE  FALSE
  BY <1>4 DEF PodsReady, DeleteStep, StartDelete, DeleteWorkload, SoftDelete,
     DeleteFails, wfVars
<1>5. ASSUME NEW a \in attempts, RunAttempt(a) \/ AttemptFault(a)
      PROVE  /\ a.dep = d
             /\ wf'[d] = "deploying" => RunDeployApply(a)
             /\ wf'[d] = "completed" => RunSetPointer(a)
  <2>1. a.mode = "awaited" /\ a.act \in Acts /\ a.dep \in Deployments /\ PcFits(a)
    BY <1>1, SerialAttempts
  <2>2. OnFailure[a.act] \notin {"deploying", "completed"}
    BY <2>1 DEF OnFailure, Acts
  <2>3. \A left : ~Failed(a, left)
    BY <1>1, <2>1, <2>2, EnterElse DEF Failed
  <2>4. ASSUME Succeeded(a) PROVE a.dep = d /\ wf'[d] = OnSuccess[a.act]
    BY <1>1, <2>1, <2>4, EnterElse DEF Succeeded
  <2>5. /\ OnSuccess[a.act] = "deploying" => a.act = "deploy"
        /\ OnSuccess[a.act] = "completed" => a.act = "active"
    BY <2>1 DEF OnSuccess, Acts
  <2>6. Finished(a) => Succeeded(a)
    BY <2>3 DEF Finished
  <2>7. ~AttemptFault(a) /\ ~RunDeployRead(a) /\ ~RunSupersede(a) /\ ~RunMarkActive(a)
    BY <2>3 DEF AttemptFault, AttemptFails, AttemptTimesOut, RunDeployRead,
       RunSupersede, RunMarkActive, Proceed
  <2>8. CASE RunWrite(a)
    BY <2>3, <2>4, <2>5, <2>6, <2>8 DEF RunWrite
  <2>9. CASE RunDeployApply(a)
    <3>1. a.act = "deploy"
      BY <2>1, <2>9 DEF RunDeployApply, PcFits
    <3> QED BY <2>4, <2>5, <2>6, <2>9, <3>1 DEF RunDeployApply
  <2>10. CASE RunSetPointer(a)
    <3>1. a.act = "active"
      BY <2>1, <2>10 DEF RunSetPointer, PcFits
    <3> QED BY <2>4, <2>5, <2>6, <2>10, <3>1 DEF RunSetPointer
  <2> QED BY <1>5, <2>7, <2>8, <2>9, <2>10 DEF RunAttempt
<1> QED BY <1>2, <1>3, <1>4, <1>5 DEF Next, vars, wfVars

LEMMA NextNewest ==
  ASSUME AInv, Serial, [Next]_vars, faults' = 0, NEW d \in Deployments
  PROVE  Newest(d)'
<1> USE DEF AInv, SInv, OInv, HInv, IInv
<1> SUFFICES ASSUME wf'[d] \in {"deploying", "rollout", "active"},
                    cluster'[target'[d]] # None
             PROVE  cluster'[target'[d]].dep = d
  BY DEF Newest
<1>1. faults = 0 /\ SInv
  BY FaultsGrow
<1>2. wf[d] \in {"deploy", "deploying", "rollout", "active"}
  BY NextFlow DEF FlowOK, WfMoves, WfOpen, Acts
<1>3. Busy(d)
  BY <1>2 DEF Busy, WfOpen, Acts
<1>4. target'[d] = target[d] /\ target[d] \in Services
  BY <1>1, <1>3, SerialRows, NextRow
<1>5. CASE wf[d] = "deploy"
  <2>1. PICK a \in attempts : a.dep = d /\ RunDeployApply(a)
    BY <1>2, <1>5, StageStep, NextFlow DEF FlowOK, WfMoves, WfOpen, Acts
  <2> QED BY <1>4, <2>1 DEF RunDeployApply, TypeOK, K8sTypeOK
<1>6. CASE wf[d] # "deploy"
  <2>1. CASE cluster'[target[d]] \in {cluster[target[d]], None}
    BY <1>2, <1>4, <1>6, <2>1 DEF Serial, Newest
  <2>2. CASE \E a \in attempts :
               /\ RunDeployApply(a) /\ target[a.dep] = target[d]
               /\ cluster'[target[d]] = [dep |-> a.dep, cfg |-> a.cfg]
    <3>1. PICK a \in attempts :
               /\ RunDeployApply(a) /\ target[a.dep] = target[d]
               /\ cluster'[target[d]] = [dep |-> a.dep, cfg |-> a.cfg]
      BY <2>2
    <3>2. Busy(a.dep) /\ a.dep \in Deployments
      BY <1>1, SerialAttempts
    <3>3. a.dep = d
      BY <1>3, <3>1, <3>2 DEF Serial, Alone
    <3> QED BY <1>4, <3>1, <3>3
  <2> QED BY <1>4, <2>1, <2>2, NextCluster
<1> QED BY <1>5, <1>6

LEMMA NextCurrent ==
  ASSUME OInv, [Next]_vars, NEW s \in Services, current'[s] # current[s]
  PROVE  \E a \in attempts : RunSetPointer(a) /\ target[a.dep] = s
<1> USE DEF OInv, HInv, IInv, TypeOK, SvcTypeOK
<1>1. ASSUME NEW d \in Deployments,
             NewRequest(d) \/ RequestStep(d) \/ RequestFault(d) \/ WorkflowStep(d)
      PROVE  FALSE
  BY <1>1 DEF NewRequest, BeginCreate, BeginUpdate, BeginRedeploy, RequestStep,
     ReadService, CancelInFlight, InsertRow, StartWorkflow, SignalCancel,
     RequestFault, CancelInFlightFails, RequestAborts, SignalCancelFails,
     WorkflowStep, StartBuild, ResolveBuild, FinishBuild, RolloutSucceeds,
     RolloutFails, DeliverCancel, TerminateBuild, svcVars
<1>2. ASSUME NEW a \in attempts, RunAttempt(a) \/ AttemptFault(a)
      PROVE  RunSetPointer(a) /\ target[a.dep] = s
  BY <1>2 DEF RunAttempt, RunWrite, RunDeployRead, RunDeployApply, RunSupersede,
     RunMarkActive, RunSetPointer, AttemptFault, AttemptFails, AttemptTimesOut,
     svcVars
<1>3. ASSUME NEW t \in Services, PodsReady(t) \/ DeleteStep(t)
      PROVE  FALSE
  BY <1>3 DEF PodsReady, DeleteStep, StartDelete, DeleteWorkload, SoftDelete,
     DeleteFails, svcVars
<1> QED BY <1>1, <1>2, <1>3 DEF Next, vars, svcVars

(* A deleted service stays deleted.                                        *)
LEMMA LiveBefore ==
  ASSUME OInv, [Next]_vars, NEW s \in Services, svcState[s] # "absent",
         svcState'[s] = "live"
  PROVE  svcState[s] = "live"
<1> USE DEF OInv, HInv, IInv, TypeOK, SvcTypeOK
<1>1. ASSUME NEW d \in Deployments,
             NewRequest(d) \/ RequestStep(d) \/ RequestFault(d) \/ WorkflowStep(d)
      PROVE  svcState[s] = "live"
  BY <1>1 DEF NewRequest, BeginCreate, BeginUpdate, BeginRedeploy, RequestStep,
     ReadService, CancelInFlight, InsertRow, StartWorkflow, SignalCancel,
     RequestFault, CancelInFlightFails, RequestAborts, SignalCancelFails,
     WorkflowStep, StartBuild, ResolveBuild, FinishBuild, RolloutSucceeds,
     RolloutFails, DeliverCancel, TerminateBuild, svcVars
<1>2. ASSUME NEW a \in attempts, RunAttempt(a) \/ AttemptFault(a)
      PROVE  svcState' = svcState
  BY <1>2 DEF RunAttempt, RunWrite, RunDeployRead, RunDeployApply, RunSupersede,
     RunMarkActive, RunSetPointer, AttemptFault, AttemptFails, AttemptTimesOut,
     svcVars
<1>3. ASSUME NEW t \in Services, PodsReady(t) \/ DeleteStep(t)
      PROVE  svcState[s] = "live"
  BY <1>3 DEF PodsReady, DeleteStep, StartDelete, DeleteWorkload, SoftDelete,
     DeleteFails, svcVars
<1> QED BY <1>1, <1>2, <1>3 DEF Next, vars, svcVars

LEMMA NextPointed ==
  ASSUME AInv, Serial, [Next]_vars, faults' = 0, NEW s \in Services
  PROVE  Pointed(s)'
<1> USE DEF AInv, SInv, OInv, HInv, IInv
<1> DEFINE c == cluster'[s].dep
<1> SUFFICES ASSUME cluster'[s] # None
             PROVE  /\ svcState'[s] # "absent" /\ target'[c] = s
                    /\ svcState'[s] = "live" /\ wf'[c] = "completed" =>
                         current'[s] = c
  BY DEF Pointed
<1>1. faults = 0 /\ SInv
  BY FaultsGrow
<1>2. ASSUME NEW e \in Deployments, Busy(e)
      PROVE  /\ target'[e] = target[e] /\ target[e] \in Services
             /\ svcState[target[e]] # "absent"
  <2>1. reqPc[e] # "idle" /\ target[e] \in Services
    BY <1>1, <1>2, SerialRows
  <2> QED BY <1>1, <2>1, NextRow DEF Serial, Rooted
<1>3. ASSUME NEW a \in attempts, RunDeployApply(a), target[a.dep] = s,
             cluster'[s] = [dep |-> a.dep, cfg |-> a.cfg]
      PROVE  /\ svcState'[s] # "absent" /\ target'[c] = s
             /\ wf'[c] # "completed"
  <2>1. /\ a.dep \in Deployments /\ Busy(a.dep) /\ wf[a.dep] = a.act /\ PcFits(a)
    BY <1>1, SerialAttempts
  <2>2. c = a.dep
    BY <1>3
  <2>3. wf[c] = "deploy"
    BY <1>3, <2>1, <2>2 DEF RunDeployApply, PcFits
  <2>4. wf'[c] # "completed"
    BY <2>1, <2>2, <2>3, NextFlow DEF FlowOK, WfMoves, WfOpen, Acts
  <2> QED BY <1>2, <1>3, <2>1, <2>2, <2>4, ServiceStays
<1>4. ASSUME cluster'[s] = cluster[s]
      PROVE  /\ svcState'[s] # "absent" /\ target'[c] = s
             /\ svcState'[s] = "live" /\ wf'[c] = "completed" => current'[s] = c
  <2>1. c = cluster[s].dep /\ c \in Deployments /\ cluster[s] # None
    BY <1>4 DEF TypeOK, K8sTypeOK, Object
  <2>2. svcState[s] # "absent" /\ target[c] = s
    BY <2>1 DEF Serial, Pointed
  <2>3. reqPc[c] # "idle"
    BY <2>1, <2>2, NoneIsNoId DEF Serial, Rooted
  <2>4. target'[c] = s /\ svcState'[s] # "absent"
    BY <2>1, <2>2, <2>3, NextRow, ServiceStays
  <2>5. ASSUME svcState'[s] = "live", wf'[c] = "completed"
        PROVE  current'[s] = c
    <3>1. svcState[s] = "live"
      BY <2>2, <2>5, LiveBefore
    <3>2. CASE wf[c] = "completed"
      <4>1. current[s] = c
        BY <2>1, <3>1, <3>2 DEF Serial, Pointed
      <4>2. ASSUME NEW a \in attempts, RunSetPointer(a), target[a.dep] = s
            PROVE  FALSE
        <5>1. a.dep \in Deployments /\ wf[a.dep] = a.act /\ PcFits(a)
          BY <1>1, SerialAttempts
        <5>2. wf[a.dep] = "active"
          BY <4>2, <5>1 DEF RunSetPointer, PcFits
        <5>3. cluster[s].dep = a.dep
          BY <2>1, <4>2, <5>1, <5>2 DEF Serial, Newest
        <5> QED BY <2>1, <3>2, <5>2, <5>3
      <4> QED BY <4>1, <4>2, NextCurrent
    <3>3. CASE wf[c] # "completed"
      <4>1. PICK a \in attempts : a.dep = c /\ RunSetPointer(a)
        BY <2>1, <2>5, <3>3, StageStep
      <4> QED BY <2>2, <3>1, <4>1 DEF RunSetPointer, TypeOK, SvcTypeOK
    <3> QED BY <3>2, <3>3
  <2> QED BY <2>4, <2>5
<1> QED BY <1>3, <1>4, NextCluster

LEMMA InitSerial == ASSUME Init PROVE PInv
<1>1. \A d \in Deployments : ~Busy(d)
  BY DEF Init, Busy, WfOpen, Acts, AttemptsOf
<1>2. Serial
  BY <1>1 DEF Init, TableInit, Serial, Alone, Undisturbed, Rooted, Newest, Pointed
<1> QED BY <1>2, InitAttended DEF PInv

LEMMA NextSerial == ASSUME PInv, [Next]_vars, OneAtATime PROVE PInv'
<1>1. AInv'
  BY NextAttended DEF PInv
<1>2. ASSUME faults' = 0 PROVE Serial'
  <2>1. AInv /\ SInv /\ Serial
    BY <1>2, FaultsGrow DEF PInv, AInv, SInv
  <2>2. \A d \in Deployments : Alone(d)' /\ Undisturbed(d)' /\ Newest(d)'
    BY <1>2, <2>1, NextAlone, NextUndisturbed, NextNewest
  <2>3. \A d \in Deployments : Rooted(d)'
    BY <2>1, NextRooted DEF Serial
  <2>4. \A s \in Services : Pointed(s)'
    BY <1>2, <2>1, NextPointed
  <2> QED BY <2>2, <2>3, <2>4 DEF Serial
<1> QED BY <1>1, <1>2 DEF PInv

(* The pointer of a service goes wrong only through requests that overlap: *)
(* when each request comes in after the deployments of its service have    *)
(* come to rest, and nothing fails, current_deployment_id names what runs  *)
(* (or what runs was declared failed), whatever the builds, the rollouts,  *)
(* the requests for other services and deletions do.                       *)
THEOREM PointerIsLiveOneAtATime ==
  Spec /\ [][OneAtATime]_vars => [](faults = 0 => PointerIsLive)
<1>1. PInv /\ [Next]_vars /\ [OneAtATime]_vars => PInv'
  <2>1. UNCHANGED vars => OneAtATime
    BY DEF vars, reqVars, OneAtATime
  <2> QED BY <2>1, NextSerial
<1>2. ASSUME PInv, faults = 0, NEW s \in Services, Settled(s),
             status[serving[s]] # "failed"
      PROVE  current[s] = serving[s]
  <2> USE DEF PInv, AInv, SInv, OInv, HInv, IInv
  <2> DEFINE c == cluster[s].dep
  <2>1. c \in Deployments /\ cluster[s] # None /\ serving[s] = c /\ svcState[s] = "live"
    BY <1>2 DEF Settled, TypeOK, K8sTypeOK, Object
  <2>2. target[c] = s /\ (wf[c] = "completed" => current[s] = c)
    BY <1>2, <2>1 DEF Serial, Pointed
  <2>3. wf[c] \in WfClosed \ {"cancelled", "unrecorded"} /\ status[c] # "cancelled"
    BY <1>2, <2>1, <2>2 DEF Settled, Serial, Undisturbed
  <2>4. wf[c] # "failed"
    <3>1. SUFFICES ASSUME wf[c] = "failed" PROVE status[c] = "failed"
      BY <1>2, <2>1
    <3>2. status[c] \in Ended
      BY <1>2, <2>1, <3>1 DEF History, WfHistory, Earned, TableInv, FinishedIffEnded
    <3>3. ~Promoting(c)
      BY <1>2, <2>1, <3>1 DEF Outcome, Exclusive
    <3> QED BY <2>3, <3>2, <3>3 DEF Promoting, Promoted, Ended
  <2> QED BY <2>1, <2>2, <2>3, <2>4 DEF WfClosed
<1>3. PInv => (faults = 0 => PointerIsLive)
  BY <1>2 DEF PointerIsLive
<1> QED BY <1>1, <1>3, InitSerial, PTL DEF Spec

=============================================================================
