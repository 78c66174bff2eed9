-------------------------- MODULE DeploymentTable --------------------------
(***************************************************************************)
(* The deployments table of the Deploy MCP database: one row per deploy    *)
(* attempt, and one action per SQL statement the backend runs on it        *)
(* (storage/pg/queries/deployments/deployments.sql).                       *)
(*                                                                         *)
(* No statement looks at the status it overwrites: each UPDATE says        *)
(* WHERE id = $1.  What keeps a row's history sane is only the CHECK       *)
(* constraints and the two partial unique indexes of migration 0001, which *)
(* make the database refuse a statement.  A refused statement changes      *)
(* nothing and returns an error to its caller.                             *)
(*                                                                         *)
(* TableSpec is also the abstract specification of everything that runs    *)
(* statements on this table: module Deployments implements it.             *)
(***************************************************************************)

CONSTANTS
  Services,      (* ids of services                                        *)
  Deployments,   (* ids of deployments, each allocated by one request      *)
  None           (* no service, no deployment, SQL NULL                    *)

ASSUME NoneIsNoId == None \notin Services \cup Deployments

VARIABLES
  status,        (* deployments.status, "absent" before the INSERT         *)
  startedAt,     (* deployments.started_at IS NOT NULL                     *)
  finishedAt,    (* deployments.finished_at IS NOT NULL                    *)
  serviceId      (* deployments.service_id                                 *)

tableVars == <<status, startedAt, finishedAt, serviceId>>

InFlight == {"queued", "building", "deploying"}
Ended    == {"active", "failed", "cancelled", "superseded"}

TableTypeOK ==
  /\ status     \in [Deployments -> {"absent"} \cup InFlight \cup Ended]
  /\ startedAt  \in [Deployments -> BOOLEAN]
  /\ finishedAt \in [Deployments -> BOOLEAN]
  /\ serviceId  \in [Deployments -> Services \cup {None}]

TableInit ==
  /\ status     = [d \in Deployments |-> "absent"]
  /\ startedAt  = [d \in Deployments |-> FALSE]
  /\ finishedAt = [d \in Deployments |-> FALSE]
  /\ serviceId  = [d \in Deployments |-> None]

-----------------------------------------------------------------------------
(* What the database accepts.                                              *)

(* Mutated forms of the constraints: the second CHECK missing; the indexes *)
(* missing; the in-flight index counting cancelled rows too.               *)
CheckOkEndedOnly(st, finished) == st \in Ended => finished
NoOtherUnchecked(d, s, sts) == TRUE

(* CHECK terminal_has_finished_at and CHECK nonterminal_no_finished_at.    *)
CheckOk(st, finished) ==
  /\ st \in Ended    => finished
  /\ st \in InFlight => ~finished

(* Unique index idx_deployments_one_active or idx_deployments_one_inflight: *)
(* no row of service s other than d has a status among sts.                *)
NoOther(d, s, sts) ==
  \A e \in Deployments \ {d} : ~(serviceId[e] = s /\ status[e] \in sts)

AcceptedUnlessCancelled(d, s, st, finished) ==
  /\ CheckOk(st, finished)
  /\ st = "active"   => NoOther(d, s, {"active"})
  /\ st \in InFlight => NoOther(d, s, InFlight \cup {"cancelled"})

(* The statement that gives row d, of service s, this status and finished_at. *)
Accepted(d, s, st, finished) ==
  /\ CheckOk(st, finished)
  /\ st = "active"   => NoOther(d, s, {"active"})
  /\ st \in InFlight => NoOther(d, s, InFlight)

-----------------------------------------------------------------------------
(* The statements.                                                         *)

(* INSERT INTO deployments: status defaults to 'queued'.                   *)
CreateDeployment(d, s) ==
  /\ status[d] = "absent"
  /\ Accepted(d, s, "queued", FALSE)
  /\ status'    = [status EXCEPT ![d] = "queued"]
  /\ serviceId' = [serviceId EXCEPT ![d] = s]
  /\ UNCHANGED <<startedAt, finishedAt>>

(* UPDATE deployments SET ... WHERE id = d, when the constraints hold.     *)
UpdateRow(d, st, started, finished) ==
  /\ status[d] # "absent"
  /\ Accepted(d, serviceId[d], st, finished)
  /\ status'     = [status EXCEPT ![d] = st]
  /\ startedAt'  = [startedAt EXCEPT ![d] = started]
  /\ finishedAt' = [finishedAt EXCEPT ![d] = finished]
  /\ UNCHANGED serviceId

(* Neither of these two sets finished_at, so the CHECK constraint refuses  *)
(* them on a row that has already finished.                                *)
UpdateDeploymentBuilding(d)  == UpdateRow(d, "building", TRUE, finishedAt[d])
UpdateDeploymentDeploying(d) ==
  UpdateRow(d, "deploying", startedAt[d], finishedAt[d])

MarkDeploymentActive(d) == UpdateRow(d, "active", startedAt[d], TRUE)
MarkDeploymentFailed(d) == UpdateRow(d, "failed", startedAt[d], TRUE)

(* Rows of service s with a status among sts.                              *)
RowsOf(s, sts) == {e \in Deployments : serviceId[e] = s /\ status[e] \in sts}

FinishRows(rows, st) ==
  /\ status' = [e \in Deployments |-> IF e \in rows THEN st ELSE status[e]]
  /\ finishedAt' =
       [e \in Deployments |-> IF e \in rows THEN TRUE ELSE finishedAt[e]]
  /\ UNCHANGED <<startedAt, serviceId>>

CancelInFlightDeployments(s, d) ==
  FinishRows(RowsOf(s, InFlight) \ {d}, "cancelled")

(* Mutated form: a status the table does not know.                         *)
SupersedeAsReplaced(s) == FinishRows(RowsOf(s, {"active"}), "replaced")

SupersedeActiveDeployment(s) == FinishRows(RowsOf(s, {"active"}), "superseded")

-----------------------------------------------------------------------------

TableNext ==
  \/ \E d \in Deployments, s \in Services :
       \/ CreateDeployment(d, s)
       \/ CancelInFlightDeployments(s, d)
  \/ \E d \in Deployments :
       \/ UpdateDeploymentBuilding(d)
       \/ UpdateDeploymentDeploying(d)
       \/ MarkDeploymentActive(d)
       \/ MarkDeploymentFailed(d)
  \/ \E s \in Services : SupersedeActiveDeployment(s)

TableSpec == TableInit /\ [][TableNext]_tableVars

-----------------------------------------------------------------------------
(* Properties.                                                             *)

(* At any moment a service has at most one row that is live and at most    *)
(* one that is on its way: what every reader of "the active deployment"    *)
(* (GetActiveDeploymentByServiceID is a :one query) relies on.             *)
OnePerService ==
  \A d, e \in Deployments :
    /\ d # e
    /\ serviceId[d] = serviceId[e]
    => /\ ~(status[d] = "active" /\ status[e] = "active")
       /\ ~(status[d] \in InFlight /\ status[e] \in InFlight)

(* Rows agree with their timestamps: finished_at is set exactly on the     *)
(* rows that are no longer in flight.                                      *)
FinishedIffEnded ==
  \A d \in Deployments : finishedAt[d] <=> status[d] \in Ended

(* An attempt that has finished never goes back in flight, and one that    *)
(* finished without starting (cancelled while queued) never starts, however *)
(* late a status statement of its workflow arrives.                        *)
FinishedIsFinal ==
  [][\A d \in Deployments :
       finishedAt[d] => /\ status'[d] \notin InFlight
                        /\ finishedAt'[d]
                        /\ startedAt'[d] = startedAt[d]]_tableVars

=============================================================================
