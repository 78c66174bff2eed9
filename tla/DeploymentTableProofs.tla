----------------------- MODULE DeploymentTableProofs -----------------------
(***************************************************************************)
(* What the constraints of the deployments table guarantee, for any number *)
(* of services and deployments and whatever statements are run on it.      *)
(***************************************************************************)
EXTENDS DeploymentTable, TLAPS

TableInv == TableTypeOK /\ FinishedIffEnded /\ OnePerService

(* The statuses of the two groups are different, and neither is "absent".  *)
LEMMA StatusGroups ==
  /\ InFlight \cap Ended = {}
  /\ "absent" \notin InFlight \cup Ended
  /\ "queued" \in InFlight /\ "building" \in InFlight /\ "deploying" \in InFlight
  /\ "active" \in Ended /\ "failed" \in Ended
  /\ "cancelled" \in Ended /\ "superseded" \in Ended
  BY DEF InFlight, Ended

(* UpdateRow writes the given values into row d and leaves the others.     *)
LEMMA UpdateRowType ==
  ASSUME NEW d \in Deployments, NEW st \in InFlight \cup Ended,
         NEW started \in BOOLEAN, NEW finished \in BOOLEAN,
         TableTypeOK, UpdateRow(d, st, started, finished)
  PROVE  TableTypeOK'
  BY DEF TableTypeOK, UpdateRow

(* A row update that the constraints accept keeps the two invariants.      *)
LEMMA UpdateRowInv ==
  ASSUME NEW d \in Deployments, NEW st \in InFlight \cup Ended,
         NEW started \in BOOLEAN, NEW finished \in BOOLEAN,
         TableInv, UpdateRow(d, st, started, finished)
  PROVE  TableInv'
<1>1. TableTypeOK'
  BY UpdateRowType DEF TableInv
<1>2. FinishedIffEnded'
  BY StatusGroups
  DEF TableInv, TableTypeOK, FinishedIffEnded, UpdateRow, Accepted, CheckOk
<1>3. OnePerService'
  <2> SUFFICES ASSUME NEW e \in Deployments, NEW f \in Deployments,
                      e # f, serviceId'[e] = serviceId'[f]
               PROVE  /\ ~(status'[e] = "active" /\ status'[f] = "active")
                      /\ ~(status'[e] \in InFlight /\ status'[f] \in InFlight)
    BY DEF OnePerService
  <2>1. serviceId[e] = serviceId[f]
    BY DEF UpdateRow
  <2>2. /\ ~(status[e] = "active" /\ status[f] = "active")
        /\ ~(status[e] \in InFlight /\ status[f] \in InFlight)
    BY <2>1 DEF TableInv, OnePerService
  <2>3. \A x \in Deployments : status'[x] = IF x = d THEN st ELSE status[x]
    BY DEF TableInv, TableTypeOK, UpdateRow
  <2>4. CASE e = d
    BY <2>1, <2>3, <2>4 DEF UpdateRow, Accepted, NoOther
  <2>5. CASE f = d
    BY <2>1, <2>3, <2>5 DEF UpdateRow, Accepted, NoOther
  <2>6. CASE e # d /\ f # d
    BY <2>2, <2>3, <2>6
  <2> QED BY <2>4, <2>5, <2>6
<1> QED BY <1>1, <1>2, <1>3 DEF TableInv

(* Finishing a set of rows keeps them too: it promotes none and revives    *)
(* none.                                                                   *)
LEMMA FinishRowsInv ==
  ASSUME NEW rows \in SUBSET Deployments, NEW st \in {"cancelled", "superseded"},
         TableInv, FinishRows(rows, st)
  PROVE  TableInv'
<1>1. TableTypeOK'
  BY StatusGroups DEF TableInv, TableTypeOK, FinishRows
<1>2. \A e \in Deployments : /\ status'[e] = IF e \in rows THEN st ELSE status[e]
                             /\ finishedAt'[e] = (e \in rows \/ finishedAt[e])
                             /\ serviceId'[e] = serviceId[e]
  BY DEF TableInv, TableTypeOK, FinishRows
<1>3. st \in Ended /\ st # "active" /\ st \notin InFlight
  BY DEF InFlight, Ended
<1>4. FinishedIffEnded'
  BY <1>2, <1>3 DEF TableInv, FinishedIffEnded
<1>5. OnePerService'
  BY <1>2, <1>3 DEF TableInv, OnePerService
<1> QED BY <1>1, <1>4, <1>5 DEF TableInv

(* An accepted INSERT keeps them.                                          *)
LEMMA CreateDeploymentInv ==
  ASSUME NEW d \in Deployments, NEW s \in Services,
         TableInv, CreateDeployment(d, s)
  PROVE  TableInv'
<1>1. TableTypeOK'
  BY StatusGroups DEF TableInv, TableTypeOK, CreateDeployment
<1>2. \A e \in Deployments :
        /\ status'[e] = IF e = d THEN "queued" ELSE status[e]
        /\ serviceId'[e] = IF e = d THEN s ELSE serviceId[e]
        /\ finishedAt'[e] = finishedAt[e]
  BY DEF TableInv, TableTypeOK, CreateDeployment
<1>3. FinishedIffEnded'
  BY <1>2, StatusGroups DEF TableInv, FinishedIffEnded, CreateDeployment
<1>4. OnePerService'
  BY <1>2, StatusGroups
  DEF TableInv, OnePerService, CreateDeployment, Accepted, NoOther
<1> QED BY <1>1, <1>3, <1>4 DEF TableInv

-----------------------------------------------------------------------------

LEMMA TableInitInv == ASSUME TableInit PROVE TableInv
  BY StatusGroups
  DEF TableInit, TableInv, TableTypeOK, FinishedIffEnded, OnePerService

(* Every statement keeps the invariant.                                    *)
LEMMA TableNextInv == ASSUME TableInv, [TableNext]_tableVars PROVE TableInv'
<1>1. ASSUME NEW d \in Deployments, NEW s \in Services, CreateDeployment(d, s)
      PROVE  TableInv'
  BY <1>1, CreateDeploymentInv
<1>2. ASSUME NEW d \in Deployments, NEW s \in Services,
             CancelInFlightDeployments(s, d)
      PROVE  TableInv'
  BY <1>2, FinishRowsInv DEF CancelInFlightDeployments, RowsOf
<1>3. ASSUME NEW d \in Deployments, UpdateDeploymentBuilding(d)
      PROVE  TableInv'
  BY <1>3, UpdateRowInv, StatusGroups
  DEF UpdateDeploymentBuilding, TableInv, TableTypeOK
<1>4. ASSUME NEW d \in Deployments, UpdateDeploymentDeploying(d)
      PROVE  TableInv'
  BY <1>4, UpdateRowInv, StatusGroups
  DEF UpdateDeploymentDeploying, TableInv, TableTypeOK
<1>5. ASSUME NEW d \in Deployments, MarkDeploymentActive(d)
      PROVE  TableInv'
  BY <1>5, UpdateRowInv, StatusGroups
  DEF MarkDeploymentActive, TableInv, TableTypeOK
<1>6. ASSUME NEW d \in Deployments, MarkDeploymentFailed(d)
      PROVE  TableInv'
  BY <1>6, UpdateRowInv, StatusGroups
  DEF MarkDeploymentFailed, TableInv, TableTypeOK
<1>7. ASSUME NEW s \in Services, SupersedeActiveDeployment(s)
      PROVE  TableInv'
  BY <1>7, FinishRowsInv DEF SupersedeActiveDeployment, RowsOf
<1>8. CASE UNCHANGED tableVars
  BY <1>8
  DEF tableVars, TableInv, TableTypeOK, FinishedIffEnded, OnePerService
<1> QED
  BY <1>1, <1>2, <1>3, <1>4, <1>5, <1>6, <1>7, <1>8 DEF TableNext

(* The values of every column stay within its type.                        *)
THEOREM TableTypeCorrect == TableSpec => []TableTypeOK
<1>1. TableInit => TableInv
  BY TableInitInv
<1>2. TableInv /\ [TableNext]_tableVars => TableInv'
  BY TableNextInv
<1>3. TableInv => TableTypeOK
  BY DEF TableInv
<1> QED BY <1>1, <1>2, <1>3, PTL DEF TableSpec

(* A service never has two live rows, nor two in flight, whatever          *)
(* statements overlapping workflows run.                                   *)
THEOREM TableOnePerService == TableSpec => []OnePerService
<1>1. TableInit => TableInv
  BY TableInitInv
<1>2. TableInv /\ [TableNext]_tableVars => TableInv'
  BY TableNextInv
<1>3. TableInv => OnePerService
  BY DEF TableInv
<1> QED BY <1>1, <1>2, <1>3, PTL DEF TableSpec

(* finished_at is set exactly on the rows that are not in flight.          *)
THEOREM TableFinishedIffEnded == TableSpec => []FinishedIffEnded
<1>1. TableInit => TableInv
  BY TableInitInv
<1>2. TableInv /\ [TableNext]_tableVars => TableInv'
  BY TableNextInv
<1>3. TableInv => FinishedIffEnded
  BY DEF TableInv
<1> QED BY <1>1, <1>2, <1>3, PTL DEF TableSpec

-----------------------------------------------------------------------------

(* A row update that the constraints accept reopens no finished row, and   *)
(* started_at is written only by the one update they refuse on such a row. *)
LEMMA UpdateRowFinal ==
  ASSUME TableInv, NEW d \in Deployments, NEW st \in InFlight \cup Ended,
         NEW started \in BOOLEAN, NEW finished \in BOOLEAN,
         UpdateRow(d, st, started, finished),
         finishedAt[d] => finished,
         st \in InFlight \/ started = startedAt[d],
         NEW e \in Deployments, finishedAt[e]
  PROVE  /\ status'[e] \notin InFlight
         /\ finishedAt'[e]
         /\ startedAt'[e] = startedAt[e]
<1>1. CASE e = d
  BY <1>1, StatusGroups DEF TableInv, TableTypeOK, UpdateRow, Accepted, CheckOk
<1>2. CASE e # d
  BY <1>2, StatusGroups DEF TableInv, TableTypeOK, FinishedIffEnded, UpdateRow
<1> QED BY <1>1, <1>2

LEMMA FinishRowsFinal ==
  ASSUME TableInv, NEW rows \in SUBSET Deployments,
         NEW st \in {"cancelled", "superseded"}, FinishRows(rows, st),
         NEW e \in Deployments, finishedAt[e]
  PROVE  /\ status'[e] \notin InFlight
         /\ finishedAt'[e]
         /\ startedAt'[e] = startedAt[e]
  BY StatusGroups
  DEF TableInv, TableTypeOK, FinishedIffEnded, FinishRows

LEMMA TableNextFinal ==
  ASSUME TableInv, [TableNext]_tableVars, NEW e \in Deployments, finishedAt[e]
  PROVE  /\ status'[e] \notin InFlight
         /\ finishedAt'[e]
         /\ startedAt'[e] = startedAt[e]
<1>1. ASSUME NEW d \in Deployments, NEW s \in Services, CreateDeployment(d, s)
      PROVE  /\ status'[e] \notin InFlight
             /\ finishedAt'[e]
             /\ startedAt'[e] = startedAt[e]
  BY <1>1, StatusGroups
  DEF CreateDeployment, TableInv, TableTypeOK, FinishedIffEnded
<1>2. ASSUME NEW d \in Deployments, NEW s \in Services,
             CancelInFlightDeployments(s, d)
      PROVE  /\ status'[e] \notin InFlight
             /\ finishedAt'[e]
             /\ startedAt'[e] = startedAt[e]
  BY <1>2, FinishRowsFinal DEF CancelInFlightDeployments, RowsOf
<1>3. ASSUME NEW s \in Services, SupersedeActiveDeployment(s)
      PROVE  /\ status'[e] \notin InFlight
             /\ finishedAt'[e]
             /\ startedAt'[e] = startedAt[e]
  BY <1>3, FinishRowsFinal DEF SupersedeActiveDeployment, RowsOf
<1>4. ASSUME NEW d \in Deployments,
             \/ UpdateDeploymentBuilding(d) \/ UpdateDeploymentDeploying(d)
             \/ MarkDeploymentActive(d) \/ MarkDeploymentFailed(d)
      PROVE  /\ status'[e] \notin InFlight
             /\ finishedAt'[e]
             /\ startedAt'[e] = startedAt[e]
  <2>1. startedAt[d] \in BOOLEAN /\ finishedAt[d] \in BOOLEAN
    BY DEF TableInv, TableTypeOK
  <2>2. CASE UpdateDeploymentBuilding(d)
    BY <2>1, <2>2, UpdateRowFinal, StatusGroups DEF UpdateDeploymentBuilding
  <2>3. CASE UpdateDeploymentDeploying(d)
    BY <2>1, <2>3, UpdateRowFinal, StatusGroups DEF UpdateDeploymentDeploying
  <2>4. CASE MarkDeploymentActive(d)
    BY <2>1, <2>4, UpdateRowFinal, StatusGroups DEF MarkDeploymentActive
  <2>5. CASE MarkDeploymentFailed(d)
    BY <2>1, <2>5, UpdateRowFinal, StatusGroups DEF MarkDeploymentFailed
  <2> QED BY <1>4, <2>2, <2>3, <2>4, <2>5
<1>5. CASE UNCHANGED tableVars
  BY <1>5 DEF tableVars, TableInv, FinishedIffEnded, InFlight, Ended
<1> QED BY <1>1, <1>2, <1>3, <1>4, <1>5 DEF TableNext

(* No statement clears started_at.                                         *)
LEMMA TableNextStarted ==
  ASSUME TableInv, [TableNext]_tableVars, NEW e \in Deployments, startedAt[e]
  PROVE  startedAt'[e]
  BY DEF TableInv, TableTypeOK, TableNext, tableVars, CreateDeployment,
     CancelInFlightDeployments, SupersedeActiveDeployment, FinishRows, UpdateRow,
     UpdateDeploymentBuilding, UpdateDeploymentDeploying, MarkDeploymentActive,
     MarkDeploymentFailed

(* An attempt that has finished stays finished, and keeps the start it had *)
(* or never had, however late a statement of its workflow arrives.         *)
THEOREM TableFinishedIsFinal == TableSpec => FinishedIsFinal
<1>1. TableInit => TableInv
  BY TableInitInv
<1>2. TableInv /\ [TableNext]_tableVars => TableInv'
  BY TableNextInv
<1>3. TableInv /\ [TableNext]_tableVars =>
        [\A d \in Deployments :
           finishedAt[d] => /\ status'[d] \notin InFlight
                            /\ finishedAt'[d]
                            /\ startedAt'[d] = startedAt[d]]_tableVars
  BY TableNextFinal
<1> QED BY <1>1, <1>2, <1>3, PTL DEF TableSpec, FinishedIsFinal

=============================================================================
