------------------------- MODULE HostedZonesProofs -------------------------
(***************************************************************************)
(* Theorems about hosted zones, for any users, names and rows, any         *)
(* number of requests at a time and any faults.                            *)
(***************************************************************************)
EXTENDS HostedZones, TLAPS

Effect == [none |-> {}, CreateZone |-> {}, MarkFailed |-> {},
  WaitForNS |-> {"CreateZone"},
  ApplyWildcardCert |-> {"CreateZone", "WaitForNS"},
  WaitForCertReady |-> {"CreateZone", "WaitForNS", "ApplyWildcardCert"},
  ApplyCertLoader |-> {"CreateZone", "WaitForNS", "ApplyWildcardCert", "WaitForCertReady"},
  MarkActive |-> {"CreateZone", "WaitForNS", "ApplyWildcardCert", "WaitForCertReady",
                  "ApplyCertLoader"}]

(* The activities that have had their effect in the activation running for *)
(* row i.                                                                  *)
Behind(i) ==
  Effect[wf["activate"][i]] \cup
  (IF <<"activate", i>> \in performed THEN {wf["activate"][i]} ELSE {})

(* A row that was never inserted has left no trace; one that was keeps its *)
(* name and its owner.                                                     *)
RowOK(i) ==
  /\ status[i] = "absent" =>
       /\ i \notin txtSeen /\ i \notin deactivated
       /\ \A k \in Kinds : wf[k][i] = "none"
  /\ status[i] # "absent" => zone[i] \in Names /\ user[i] \in Users
  /\ verifiedAt[i] => i \in txtSeen

(* Each workflow awaits activities of its own, for a row it may work on.   *)
WfOK(i) ==
  /\ wf["precreate"][i] \in {"none", "CreateZone"}
  /\ wf["activate"][i] \in DOMAIN Effect
  /\ wf["deactivate"][i] \in {"none", "DeleteCertLoader", "DeleteCertificate", "DeleteZone"}
  /\ wf["precreate"][i] # "none" => i \in txtSeen
  /\ wf["activate"][i] # "none" => verifiedAt[i]
  /\ wf["deactivate"][i] # "none" => i \in deactivated
  /\ \A k \in Kinds : <<k, i>> \in performed => wf[k][i] # "none"

(* What a request may rely on at each of its steps.                        *)
ReqOK(q) ==
  LET r == req[q] IN
  /\ r.pc \in {"reclaim", "insert"} => r.user \in Users /\ r.name \in Names
  /\ r.pc \notin {"idle", "insert"} => r.id \in Ids /\ status[r.id] # "absent"
  /\ r.pc = "reclaim" => expired[r.id]
  /\ r.pc = "lookup" =>
       /\ r.status \in {"pending_verification", "pending_delegation", "failed"}
       /\ r.verified \/ r.status # "pending_verification" => verifiedAt[r.id]
  /\ r.pc \in {"verified", "precreate"} => r.id \in txtSeen
  /\ r.pc \in {"provision", "start"} => verifiedAt[r.id]
  /\ r.pc \in {"deactivate", "delete"} => <<user[r.id], r.id>> \in asked

Tracked ==
  /\ \A i \in Ids : RowOK(i) /\ WfOK(i)
  /\ \A q \in Requests : ReqOK(q)

(* What an activation has done is still there when its row turns active.   *)
Kept(i, done) ==
  /\ "WaitForNS" \in done => i \in nsSeen
  /\ "WaitForCertReady" \in done => i \in certSeen
  /\ ~Disturbed(i) =>
       /\ "CreateZone" \in done => zone[i] \in provider
       /\ "ApplyWildcardCert" \in done => certs[CertName(i)] = zone[i]
       /\ "ApplyCertLoader" \in done => CertName(i) \in loaders

Activated == Effect["MarkActive"]

Activations ==
  \A i \in Ids : status[i] # "absent" =>
    Kept(i, Behind(i)) /\ (status[i] = "active" => Kept(i, Activated))

ZInv == TypeOK /\ Tracked /\ OwnershipProven /\ Activations

(* The steps of one request that may change a row, and the others.         *)
RowStep(q) ==
  \/ CreateReclaim(q) \/ DeleteRow(q)
  \/ \E i \in Ids : CreateInsert(q, i)
  \/ MarkVerified(q) \/ MarkProvisioning(q)

StartStep(q) == StartPreCreate(q) \/ StartActivation(q) \/ StartDeactivation(q)

ReadStep(q) ==
  \/ \E u \in Users, n \in Names : CreateFind(q, u, n)
  \/ CreateRefused(q)
  \/ \E u \in Users, i \in Ids : VerifyRead(q, u, i) \/ DeleteRead(q, u, i)
  \/ LookupTXT(q) \/ LookupNS(q) \/ RetryFailed(q)
  \/ CallFails(q) \/ RequestAborts(q)

LEMMA Steps ==
  ASSUME Next
  PROVE  \/ \E q \in Requests : RowStep(q) \/ StartStep(q) \/ ReadStep(q)
         \/ \E i \in Ids : ActivityStep(i) \/ Expire(i)
         \/ \E i \in Ids, k \in Kinds : ReportSuccess(k, i) \/ ReportFailure(k, i)
  BY DEF Next, RequestStep, RowStep, StartStep, ReadStep

-----------------------------------------------------------------------------
(* Types.                                                                  *)

LEMMA InitType == ASSUME Init PROVE TypeOK
<1>1. Idle \in ReqType
  BY DEF Idle, ReqType, Pcs
<1> QED BY <1>1 DEF Init, TypeOK

(* A request that goes on, or ends, has its type.                          *)
LEMMA GotoType ==
  ASSUME req \in [Requests -> ReqType], NEW q \in Requests,
         Done(q) \/ \E pc \in Pcs : Goto(q, pc)
  PROVE  req' \in [Requests -> ReqType]
<1>1. Idle \in ReqType
  BY DEF Idle, ReqType, Pcs
<1>2. ASSUME NEW pc \in Pcs PROVE [req[q] EXCEPT !.pc = pc] \in ReqType
  BY DEF ReqType
<1> QED BY <1>1, <1>2 DEF Done, Goto

LEMMA RowStepType ==
  ASSUME TypeOK, NEW q \in Requests, RowStep(q) PROVE TypeOK'
<1> USE DEF TypeOK, rowVars, wfVars, outsideVars, historyVars
<1>1. req[q] \in ReqType
  OBVIOUS
<1>2. CASE CreateReclaim(q)
  <2>1. "insert" \in Pcs BY DEF Pcs
  <2> QED BY <1>2, <2>1, GotoType DEF CreateReclaim, RemoveRow
<1>3. CASE DeleteRow(q)
  BY <1>3, GotoType DEF DeleteRow, RemoveRow
<1>4. ASSUME NEW i \in Ids, CreateInsert(q, i) PROVE TypeOK'
  <2>1. req[q].user \in Users \cup {NoUser} /\ req[q].name \in Names \cup {NoName}
    BY <1>1 DEF ReqType
  <2> QED BY <1>4, <2>1, GotoType DEF CreateInsert, Statuses
<1>5. CASE MarkVerified(q)
  <2>1. "precreate" \in Pcs BY DEF Pcs
  <2> QED BY <1>5, <2>1, GotoType DEF MarkVerified, Statuses
<1>6. CASE MarkProvisioning(q)
  <2>1. "start" \in Pcs BY DEF Pcs
  <2> QED BY <1>6, <2>1, GotoType DEF MarkProvisioning, Statuses
<1> QED BY <1>2, <1>3, <1>4, <1>5, <1>6 DEF RowStep

LEMMA StartType ==
  ASSUME TypeOK, NEW k \in Kinds, NEW i, ExecuteWorkflow(k, i)
  PROVE  wf' \in [Kinds -> [Ids -> Activities \cup {"none"}]]
  BY DEF TypeOK, ExecuteWorkflow, Activities, First

LEMMA StartStepType ==
  ASSUME TypeOK, NEW q \in Requests, StartStep(q), ReqOK(q)
  PROVE  TypeOK'
<1> USE DEF TypeOK, rowVars, wfVars, outsideVars, historyVars
<1>0. req[q].pc \in {"precreate", "start", "deactivate"} /\ req[q].id \in Ids
  BY DEF StartStep, StartPreCreate, StartActivation, StartDeactivation, ReqOK
<1>1. CASE StartPreCreate(q)
  BY <1>0, <1>1, StartType, GotoType DEF StartPreCreate, Kinds, ExecuteWorkflow
<1>2. CASE StartActivation(q)
  BY <1>0, <1>2, StartType, GotoType DEF StartActivation, Kinds, ExecuteWorkflow
<1>3. CASE StartDeactivation(q)
  <2>1. "delete" \in Pcs BY DEF Pcs
  <2> QED BY <1>0, <1>3, <2>1, StartType, GotoType DEF StartDeactivation, Kinds, ExecuteWorkflow
<1> QED BY <1>1, <1>2, <1>3 DEF StartStep

LEMMA ReadStepType ==
  ASSUME TypeOK, NEW q \in Requests, ReadStep(q), ReqOK(q)
  PROVE  TypeOK'
<1> USE DEF TypeOK, rowVars, wfVars, outsideVars, historyVars
<1>1. /\ req[q] \in ReqType /\ Idle \in ReqType
      /\ {"insert", "lookup", "verified", "precreate", "provision", "delete"} \subseteq Pcs
  BY DEF Idle, ReqType, Pcs
<1>2. ASSUME NEW u \in Users, NEW n \in Names, CreateFind(q, u, n) PROVE TypeOK'
  <2>1. ASSUME NEW i \in Ids
        PROVE  [Idle EXCEPT !.pc = "reclaim", !.user = u, !.name = n, !.id = i] \in ReqType
    BY DEF Idle, ReqType, Pcs
  <2>2. [Idle EXCEPT !.pc = "insert", !.user = u, !.name = n] \in ReqType
    BY DEF Idle, ReqType, Pcs
  <2> QED BY <1>2, <2>1, <2>2 DEF CreateFind, FindOverlapping
<1>3. CASE CreateRefused(q)
  BY <1>3, GotoType DEF CreateRefused
<1>4. ASSUME NEW u \in Users, NEW i \in Ids, VerifyRead(q, u, i) PROVE TypeOK'
  <2>1. status[i] \in Statuses
    BY <1>4 DEF VerifyRead, Live
  <2>2. [Idle EXCEPT !.pc = "lookup", !.id = i, !.status = status[i],
                     !.verified = verifiedAt[i]] \in ReqType
    BY <2>1 DEF Idle, ReqType, Pcs
  <2> QED BY <1>4, <2>2 DEF VerifyRead
<1>5. ASSUME NEW u \in Users, NEW i \in Ids, DeleteRead(q, u, i) PROVE TypeOK'
  <2>1. PICK pc \in {"deactivate", "delete"} :
          req' = [req EXCEPT ![q] = [Idle EXCEPT !.id = i, !.pc = pc]]
    BY <1>5 DEF DeleteRead
  <2>2. [Idle EXCEPT !.id = i, !.pc = pc] \in ReqType
    BY DEF Idle, ReqType, Pcs
  <2>3. req' \in [Requests -> ReqType]
    BY <2>1, <2>2
  <2> QED BY <1>5, <2>3 DEF DeleteRead
<1>6. CASE LookupTXT(q)
  <2>1. req[q].id \in Ids
    BY <1>6 DEF LookupTXT, ReqOK
  <2> QED BY <1>1, <1>6, <2>1, GotoType DEF LookupTXT
<1>7. CASE LookupNS(q) \/ RetryFailed(q)
  BY <1>1, <1>7, GotoType DEF LookupNS, RetryFailed
<1>8. CASE CallFails(q)
  <2>1. GoesOn[req[q].pc] \in Pcs
    BY <1>1, <1>8 DEF CallFails, GoesOn
  <2> QED BY <1>8, <2>1, GotoType DEF CallFails
<1>9. CASE RequestAborts(q)
  BY <1>9, GotoType DEF RequestAborts
<1> QED
  BY <1>2, <1>3, <1>4, <1>5, <1>6, <1>7, <1>8, <1>9 DEF ReadStep

LEMMA ActivityStepType ==
  ASSUME TypeOK, NEW i \in Ids, ActivityStep(i), RowOK(i)
  PROVE  TypeOK'
<1> USE LabelOK DEF TypeOK, rowVars, wfVars, outsideVars, historyVars, Attempt, CertName
<1>1. \A k \in Kinds, c \in Activities : wf[k][i] = c => status[i] # "absent"
  BY DEF RowOK, Activities
<1>2. /\ \A k \in Kinds, c \in Activities :
           Attempt(k, i, c) => zone[i] \in Names /\ Label[zone[i]] \in Labels
      /\ \A k \in Kinds : <<k, i>> \in Kinds \X Ids
      /\ {"precreate", "activate", "deactivate"} = Kinds
  BY <1>1 DEF RowOK, Kinds
<1> USE <1>2 DEF Activities
<1>3. CASE CreateZone("precreate", i) \/ CreateZone("activate", i)
  BY <1>3 DEF CreateZone
<1>4. CASE WaitForNS(i) \/ WaitForCertReady(i)
  BY <1>4 DEF WaitForNS, WaitForCertReady
<1>5. CASE ApplyWildcardCert(i)
  BY <1>5 DEF ApplyWildcardCert
<1>6. CASE ApplyCertLoader(i)
  BY <1>6 DEF ApplyCertLoader
<1>7. CASE UpdateZoneStatus(i, "MarkActive", "active") \/ UpdateZoneStatus(i, "MarkFailed", "failed")
  BY <1>7 DEF UpdateZoneStatus, Statuses
<1>8. CASE DeleteCertLoader(i)
  BY <1>8 DEF DeleteCertLoader
<1>9. CASE DeleteCertificate(i)
  BY <1>9 DEF DeleteCertificate
<1>10. CASE DeleteZone(i)
  BY <1>10 DEF DeleteZone
<1> QED
  BY <1>3, <1>4, <1>5, <1>6, <1>7, <1>8, <1>9, <1>10 DEF ActivityStep

LEMMA ReportType ==
  ASSUME TypeOK, NEW i \in Ids, NEW k \in Kinds, ReportSuccess(k, i) \/ ReportFailure(k, i)
  PROVE  TypeOK'
<1>1. ASSUME NEW c \in Activities
      PROVE  OnSuccess(k, c) \in Activities \cup {"none"} /\ OnFailure(k, c) \in Activities \cup {"none"}
  BY DEF Activities, OnSuccess, OnFailure, NextActivity
<1>2. wf[k][i] \in Activities
  BY DEF ReportSuccess, ReportFailure, Running
<1>3. PICK c \in Activities \cup {"none"} : wf' = [wf EXCEPT ![k][i] = c]
  BY <1>1, <1>2 DEF ReportSuccess, ReportFailure, TypeOK
<1>4. wf' \in [Kinds -> [Ids -> Activities \cup {"none"}]]
  BY <1>3 DEF TypeOK
<1> QED
  BY <1>4 DEF ReportSuccess, ReportFailure, TypeOK, rowVars, wfVars, outsideVars, historyVars

LEMMA NextType == ASSUME TypeOK, Tracked, [Next]_vars PROVE TypeOK'
<1>1. ASSUME NEW q \in Requests, RowStep(q) \/ StartStep(q) \/ ReadStep(q) PROVE TypeOK'
  BY <1>1, RowStepType, StartStepType, ReadStepType DEF Tracked
<1>2. ASSUME NEW i \in Ids, ActivityStep(i) PROVE TypeOK'
  BY <1>2, ActivityStepType DEF Tracked
<1>3. ASSUME NEW i \in Ids, Expire(i) PROVE TypeOK'
  BY <1>3 DEF Expire, TypeOK, wfVars, outsideVars, historyVars
<1>4. CASE UNCHANGED vars
  BY <1>4 DEF vars, TypeOK, rowVars, wfVars, outsideVars, historyVars
<1> QED BY <1>1, <1>2, <1>3, <1>4, Steps, ReportType

-----------------------------------------------------------------------------
(* What only grows, and who moves what.                                    *)

Grows ==
  /\ \A i \in Ids :
       /\ status[i] # "absent" =>
            status'[i] # "absent" /\ zone'[i] = zone[i] /\ user'[i] = user[i]
       /\ verifiedAt[i] => verifiedAt'[i]
       /\ expired[i] => expired'[i]
  /\ txtSeen \subseteq txtSeen' /\ nsSeen \subseteq nsSeen' /\ certSeen \subseteq certSeen'
  /\ asked \subseteq asked' /\ deactivated \subseteq deactivated'

LEMMA StartFrame ==
  ASSUME NEW q, StartStep(q)
  PROVE  /\ UNCHANGED <<rowVars, performed, outsideVars, txtSeen, nsSeen, certSeen, asked>>
         /\ \/ deactivated' = deactivated
            \/ StartDeactivation(q) /\ deactivated' = deactivated \cup {req[q].id}
  BY DEF StartStep, StartPreCreate, StartActivation, StartDeactivation,
     ExecuteWorkflow, historyVars

LEMMA ReadFrame ==
  ASSUME NEW q, ReadStep(q)
  PROVE  /\ UNCHANGED <<rowVars, wfVars, outsideVars, nsSeen, certSeen, deactivated>>
         /\ txtSeen \subseteq txtSeen' /\ asked \subseteq asked'
  BY DEF ReadStep, CreateFind, CreateRefused, VerifyRead, DeleteRead, LookupTXT,
     LookupNS, RetryFailed, CallFails, RequestAborts, historyVars

LEMMA RowFrame ==
  ASSUME NEW q, RowStep(q)
  PROVE  UNCHANGED <<wfVars, outsideVars, historyVars>>
  BY DEF RowStep, CreateReclaim, DeleteRow, CreateInsert, MarkVerified, MarkProvisioning

LEMMA ActivityFrame ==
  ASSUME NEW i, ActivityStep(i)
  PROVE  /\ UNCHANGED <<user, zone, verifiedAt, expired, req, wf, txtSeen, asked, deactivated>>
         /\ nsSeen \subseteq nsSeen' /\ certSeen \subseteq certSeen'
         /\ \/ status' = status
            \/ UpdateZoneStatus(i, "MarkActive", "active")
            \/ UpdateZoneStatus(i, "MarkFailed", "failed")
  BY DEF ActivityStep, CreateZone, WaitForNS, ApplyWildcardCert, WaitForCertReady,
     ApplyCertLoader, UpdateZoneStatus, DeleteCertLoader, DeleteCertificate,
     DeleteZone, Attempt, outsideVars

LEMMA ReportFrame ==
  ASSUME NEW i, NEW k, ReportSuccess(k, i) \/ ReportFailure(k, i)
  PROVE  UNCHANGED <<rowVars, req, outsideVars, historyVars>>
  BY DEF ReportSuccess, ReportFailure

LEMMA RowStepGrows ==
  ASSUME TypeOK, NEW q \in Requests, RowStep(q), ReqOK(q)
  PROVE  Grows
<1> USE DEF TypeOK, Grows
<1>1. UNCHANGED historyVars
  BY RowFrame
<1>2. CASE CreateReclaim(q) \/ DeleteRow(q)
  BY <1>1, <1>2 DEF CreateReclaim, DeleteRow, RemoveRow, historyVars
<1>3. ASSUME NEW i \in Ids, CreateInsert(q, i) PROVE Grows
  BY <1>1, <1>3 DEF CreateInsert, historyVars
<1>4. CASE MarkVerified(q)
  BY <1>1, <1>4 DEF MarkVerified, historyVars
<1>5. CASE MarkProvisioning(q)
  BY <1>1, <1>5 DEF MarkProvisioning, historyVars
<1> QED BY <1>2, <1>3, <1>4, <1>5 DEF RowStep

LEMMA NextGrows == ASSUME TypeOK, Tracked, [Next]_vars PROVE Grows
<1>1. ASSUME NEW q \in Requests, RowStep(q) PROVE Grows
  BY <1>1, RowStepGrows DEF Tracked
<1>2. ASSUME NEW q \in Requests, StartStep(q) PROVE Grows
  BY <1>2, StartFrame DEF Grows, rowVars
<1>3. ASSUME NEW q \in Requests, ReadStep(q) PROVE Grows
  BY <1>3, ReadFrame DEF Grows, rowVars
<1>4. ASSUME NEW i \in Ids, ActivityStep(i) PROVE Grows
  BY <1>4, ActivityFrame DEF Grows, UpdateZoneStatus, TypeOK
<1>5. ASSUME NEW i \in Ids, Expire(i) PROVE Grows
  BY <1>5 DEF Expire, Grows, TypeOK, historyVars
<1>6. ASSUME NEW i \in Ids, NEW k \in Kinds, ReportSuccess(k, i) \/ ReportFailure(k, i)
      PROVE  Grows
  BY <1>6, ReportFrame DEF Grows, rowVars, historyVars
<1>7. CASE UNCHANGED vars
  BY <1>7 DEF vars, Grows, rowVars, historyVars
<1> QED BY <1>1, <1>2, <1>3, <1>4, <1>5, <1>6, <1>7, Steps

(* Only these steps move a workflow.                                       *)
LEMMA WfMoves ==
  ASSUME TypeOK, [Next]_vars, NEW k \in Kinds, NEW i \in Ids, wf'[k][i] # wf[k][i]
  PROVE  \/ ReportSuccess(k, i) /\ wf'[k][i] = OnSuccess(k, wf[k][i])
         \/ ReportFailure(k, i) /\ wf'[k][i] = OnFailure(k, wf[k][i])
         \/ \E q \in Requests :
              /\ req[q].id = i /\ ~Running(k, i) /\ wf'[k][i] = First(k)
              /\ \/ k = "precreate" /\ StartPreCreate(q)
                 \/ k = "activate" /\ StartActivation(q)
                 \/ k = "deactivate" /\ StartDeactivation(q)
<1>1. ASSUME NEW j \in Ids, NEW l \in Kinds, ReportSuccess(l, j)
      PROVE  ReportSuccess(k, i) /\ wf'[k][i] = OnSuccess(k, wf[k][i])
  BY <1>1 DEF ReportSuccess, TypeOK
<1>2. ASSUME NEW j \in Ids, NEW l \in Kinds, ReportFailure(l, j)
      PROVE  ReportFailure(k, i) /\ wf'[k][i] = OnFailure(k, wf[k][i])
  BY <1>2 DEF ReportFailure, TypeOK
<1>3. ASSUME NEW q \in Requests, StartStep(q)
      PROVE  /\ req[q].id = i /\ ~Running(k, i) /\ wf'[k][i] = First(k)
             /\ \/ k = "precreate" /\ StartPreCreate(q)
                \/ k = "activate" /\ StartActivation(q)
                \/ k = "deactivate" /\ StartDeactivation(q)
  BY <1>3 DEF StartStep, StartPreCreate, StartActivation, StartDeactivation,
     ExecuteWorkflow, TypeOK, Kinds
<1>4. \/ \E q \in Requests : StartStep(q)
      \/ \E j \in Ids, l \in Kinds : ReportSuccess(l, j) \/ ReportFailure(l, j)
  BY Steps, RowFrame, ReadFrame, ActivityFrame DEF Expire, wfVars, vars
<1> QED BY <1>1, <1>2, <1>3, <1>4

-----------------------------------------------------------------------------
(* The invariant, row by row, workflow by workflow, request by request.    *)

(* A history is only written for a row that was inserted.                  *)
LEMMA Traces ==
  ASSUME TypeOK, Tracked, [Next]_vars, NEW i \in Ids, status[i] = "absent"
  PROVE  /\ i \notin txtSeen' /\ i \notin deactivated'
         /\ \A k \in Kinds : wf'[k][i] = "none"
<1>1. /\ i \notin txtSeen /\ i \notin deactivated
      /\ \A k \in Kinds : wf[k][i] = "none"
      /\ \A q \in Requests : req[q].pc \notin {"idle", "insert"} => req[q].id # i
  BY DEF Tracked, RowOK, ReqOK
<1>2. ASSUME NEW k \in Kinds PROVE wf'[k][i] = "none"
  <2>1. ~Running(k, i) /\ \A q \in Requests : req[q].id = i => req[q].pc \in {"idle", "insert"}
    BY <1>1 DEF Running, Activities
  <2>2. ~ReportSuccess(k, i) /\ ~ReportFailure(k, i)
    BY <2>1 DEF ReportSuccess, ReportFailure
  <2>3. \A q \in Requests : req[q].id = i =>
          ~StartPreCreate(q) /\ ~StartActivation(q) /\ ~StartDeactivation(q)
    BY <2>1 DEF StartPreCreate, StartActivation, StartDeactivation
  <2> QED BY <1>1, <2>2, <2>3, WfMoves
<1>3. ASSUME NEW q \in Requests, RowStep(q) \/ StartStep(q) \/ ReadStep(q)
      PROVE  i \notin txtSeen' /\ i \notin deactivated'
  <2>1. CASE RowStep(q)
    BY <1>1, <2>1, RowFrame DEF historyVars
  <2>2. CASE StartStep(q)
    BY <1>1, <2>2, StartFrame DEF StartDeactivation
  <2>3. CASE ReadStep(q)
    <3>1. txtSeen' = txtSeen \/ LookupTXT(q)
      BY <2>3 DEF ReadStep, CreateFind, CreateRefused, VerifyRead, DeleteRead, LookupNS,
         RetryFailed, CallFails, RequestAborts, historyVars
    <3>2. LookupTXT(q) => i \notin txtSeen'
      BY <1>1 DEF LookupTXT
    <3> QED BY <1>1, <2>3, <3>1, <3>2, ReadFrame
  <2> QED BY <1>3, <2>1, <2>2, <2>3
<1>4. ASSUME NEW j \in Ids, ActivityStep(j) PROVE i \notin txtSeen' /\ i \notin deactivated'
  BY <1>1, <1>4, ActivityFrame
<1>5. ASSUME NEW j \in Ids, Expire(j) PROVE i \notin txtSeen' /\ i \notin deactivated'
  BY <1>1, <1>5 DEF Expire, historyVars
<1>6. ASSUME NEW j \in Ids, NEW k \in Kinds, ReportSuccess(k, j) \/ ReportFailure(k, j)
      PROVE  i \notin txtSeen' /\ i \notin deactivated'
  BY <1>1, <1>6, ReportFrame DEF historyVars
<1>7. CASE UNCHANGED vars
  BY <1>1, <1>2, <1>7 DEF vars, historyVars
<1> QED
  BY <1>2, <1>3, <1>4, <1>5, <1>6, <1>7, Steps

(* Only these steps change a row.                                          *)
LEMMA RowMoves ==
  ASSUME [Next]_vars
  PROVE  \/ UNCHANGED rowVars
         \/ \E q \in Requests : RowStep(q)
         \/ \E i \in Ids : Expire(i) \/ ActivityStep(i)
  BY Steps, StartFrame, ReadFrame, ReportFrame DEF vars

LEMMA NextRow ==
  ASSUME TypeOK, Tracked, [Next]_vars, NEW i \in Ids
  PROVE  RowOK(i)'
<1> USE DEF TypeOK
<1>0. RowOK(i) /\ Grows /\ \A q \in Requests : ReqOK(q)
  BY NextGrows DEF Tracked
<1>1. CASE status[i] # "absent" /\ (verifiedAt'[i] => i \in txtSeen')
  BY <1>0, <1>1 DEF RowOK, Grows
<1>2. CASE status[i] = "absent" /\ status'[i] = "absent" /\ verifiedAt'[i] = verifiedAt[i]
  BY <1>0, <1>2, Traces DEF RowOK
<1>3. ASSUME NEW q \in Requests, NEW j \in Ids, CreateInsert(q, j) PROVE RowOK(i)'
  <2>1. CASE j = i
    <3>1. req[q].user \in Users /\ req[q].name \in Names
      BY <1>0, <1>3 DEF CreateInsert, ReqOK
    <3>2. status'[i] # "absent" /\ zone'[i] \in Names /\ user'[i] \in Users
          /\ verifiedAt' = verifiedAt
      BY <1>3, <2>1, <3>1 DEF CreateInsert
    <3> QED BY <1>0, <3>2 DEF RowOK, Grows
  <2>2. CASE j # i
    <3>1. status'[i] = status[i] /\ verifiedAt' = verifiedAt
      BY <1>3, <2>2 DEF CreateInsert
    <3> QED BY <1>0, <1>1, <1>2, <3>1 DEF RowOK, Grows
  <2> QED BY <2>1, <2>2
<1>4. ASSUME NEW q \in Requests, MarkVerified(q) PROVE RowOK(i)'
  <2>1. req[q].id \in txtSeen /\ txtSeen' = txtSeen /\ status[req[q].id] # "absent"
    BY <1>0, <1>4 DEF MarkVerified, ReqOK, historyVars
  <2>2. (verifiedAt'[i] = verifiedAt[i] /\ status'[i] = status[i]) \/ i = req[q].id
    BY <1>4 DEF MarkVerified
  <2> QED BY <1>0, <1>1, <1>2, <2>1, <2>2 DEF RowOK
<1>5. ASSUME verifiedAt' = verifiedAt, status[i] = "absent" => status'[i] = "absent"
      PROVE  RowOK(i)'
  BY <1>0, <1>1, <1>2, <1>5 DEF RowOK, Grows
<1>6. ASSUME NEW q \in Requests, CreateReclaim(q) \/ DeleteRow(q) \/ MarkProvisioning(q)
      PROVE  RowOK(i)'
  <2>1. verifiedAt' = verifiedAt
    BY <1>6 DEF CreateReclaim, DeleteRow, MarkProvisioning
  <2>2. status[i] = "absent" => status'[i] = "absent"
    BY <1>6 DEF CreateReclaim, DeleteRow, MarkProvisioning, RemoveRow, Live, Statuses
  <2> QED BY <1>5, <2>1, <2>2
<1>7. ASSUME NEW j \in Ids, Expire(j) \/ ActivityStep(j) PROVE RowOK(i)'
  <2>1. verifiedAt' = verifiedAt /\ (status' = status \/ \E c, s : UpdateZoneStatus(j, c, s))
    BY <1>7, ActivityFrame DEF Expire
  <2>2. ASSUME NEW c, NEW s, UpdateZoneStatus(j, c, s), s \in Statuses,
               c \in {"MarkActive", "MarkFailed"}
        PROVE  status[i] = "absent" => status'[i] = "absent"
    BY <2>2 DEF UpdateZoneStatus, Attempt, CanPerform, Live, Statuses
  <2>3. status[i] = "absent" => status'[i] = "absent"
    BY <1>7, <2>2, ActivityFrame DEF Expire, Statuses
  <2> QED BY <1>5, <2>1, <2>3
<1>8. CASE UNCHANGED rowVars
  BY <1>5, <1>8 DEF rowVars
<1> QED BY <1>3, <1>4, <1>6, <1>7, <1>8, RowMoves DEF RowStep


(* A workflow whose activity has had its effect still awaits its report.   *)
LEMMA NextPerformed ==
  ASSUME TypeOK, Tracked, [Next]_vars, NEW i \in Ids, NEW k \in Kinds, <<k, i>> \in performed'
  PROVE  wf'[k][i] # "none"
<1>1. <<k, i>> \in performed => wf[k][i] # "none"
  BY DEF Tracked, WfOK
<1>2. CASE performed' = performed
  <2>1. ASSUME wf'[k][i] # wf[k][i] PROVE wf'[k][i] # "none"
    <3>1. ~ReportSuccess(k, i) /\ ~ReportFailure(k, i)
      BY <1>2 DEF ReportSuccess, ReportFailure
    <3> QED BY <2>1, <3>1, WfMoves DEF First
  <2> QED BY <1>1, <1>2, <2>1
<1>3. ASSUME NEW j \in Ids, ActivityStep(j) PROVE wf'[k][i] # "none"
  <2>1. wf' = wf
    BY <1>3, ActivityFrame
  <2>2. PICK l \in Kinds, c \in Activities : Attempt(l, j, c)
    BY <1>3 DEF ActivityStep, CreateZone, WaitForNS, ApplyWildcardCert, WaitForCertReady,
       ApplyCertLoader, UpdateZoneStatus, DeleteCertLoader, DeleteCertificate, DeleteZone,
       Kinds, Activities
  <2>3. performed' = performed \cup {<<l, j>>} /\ wf[l][j] # "none"
    BY <2>2 DEF Attempt, Activities
  <2> QED BY <1>1, <2>1, <2>3
<1>4. ASSUME NEW j \in Ids, NEW l \in Kinds, ReportSuccess(l, j) \/ ReportFailure(l, j)
      PROVE  wf'[k][i] # "none"
  <2>1. performed' = performed \ {<<l, j>>}
    BY <1>4 DEF ReportSuccess, ReportFailure
  <2>2. PICK c : wf' = [wf EXCEPT ![l][j] = c]
    BY <1>4 DEF ReportSuccess, ReportFailure
  <2>3. wf'[k][i] = wf[k][i]
    BY <2>1, <2>2 DEF TypeOK
  <2> QED BY <1>1, <2>1, <2>3
<1> QED BY <1>2, <1>3, <1>4, Steps, RowFrame, ReadFrame, StartFrame DEF wfVars, Expire, vars

LEMMA NextWf ==
  ASSUME TypeOK, Tracked, [Next]_vars, NEW i \in Ids
  PROVE  WfOK(i)'
<1>0. WfOK(i) /\ RowOK(i) /\ Grows /\ \A q \in Requests : ReqOK(q)
  BY NextGrows DEF Tracked
<1>1. ASSUME NEW k \in Kinds, wf'[k][i] # wf[k][i],
             \/ ReportSuccess(k, i) /\ wf'[k][i] = OnSuccess(k, wf[k][i])
             \/ ReportFailure(k, i) /\ wf'[k][i] = OnFailure(k, wf[k][i])
      PROVE  /\ wf[k][i] # "none"
             /\ k = "precreate" => wf'[k][i] = "none"
             /\ k = "activate" => wf'[k][i] \in DOMAIN Effect
             /\ k = "deactivate" => wf'[k][i] \in {"none", "DeleteCertificate", "DeleteZone"}
  <2>1. wf[k][i] \in Activities
    BY <1>1 DEF ReportSuccess, ReportFailure, Running
  <2> QED BY <1>0, <1>1, <2>1 DEF WfOK, OnSuccess, OnFailure, NextActivity, Effect, Activities
<1>2. ASSUME NEW k \in Kinds, wf'[k][i] # wf[k][i], NEW q \in Requests,
             req[q].id = i, wf'[k][i] = First(k),
             \/ k = "precreate" /\ StartPreCreate(q)
             \/ k = "activate" /\ StartActivation(q)
             \/ k = "deactivate" /\ StartDeactivation(q)
      PROVE  /\ k = "precreate" => wf'[k][i] = "CreateZone" /\ i \in txtSeen
             /\ k = "activate" => wf'[k][i] = "CreateZone" /\ verifiedAt[i]
             /\ k = "deactivate" => wf'[k][i] = "DeleteCertLoader" /\ i \in deactivated'
  BY <1>0, <1>2 DEF ReqOK, First, StartPreCreate, StartActivation, StartDeactivation
<1>3. ASSUME NEW k \in Kinds
      PROVE  /\ k = "precreate" =>
                  /\ wf'[k][i] \in {"none", "CreateZone"}
                  /\ wf'[k][i] # "none" => i \in txtSeen
             /\ k = "activate" =>
                  /\ wf'[k][i] \in DOMAIN Effect
                  /\ wf'[k][i] # "none" => verifiedAt[i]
             /\ k = "deactivate" =>
                  /\ wf'[k][i] \in {"none", "DeleteCertLoader", "DeleteCertificate", "DeleteZone"}
                  /\ wf'[k][i] # "none" => i \in deactivated'
  <2>1. CASE wf'[k][i] = wf[k][i]
    BY <1>0, <2>1 DEF WfOK, Grows
  <2>2. CASE wf'[k][i] # wf[k][i]
    <3>1. CASE \/ ReportSuccess(k, i) /\ wf'[k][i] = OnSuccess(k, wf[k][i])
               \/ ReportFailure(k, i) /\ wf'[k][i] = OnFailure(k, wf[k][i])
      BY <1>0, <1>1, <2>2, <3>1 DEF WfOK, Grows
    <3>2. CASE \E q \in Requests :
                 /\ req[q].id = i /\ ~Running(k, i) /\ wf'[k][i] = First(k)
                 /\ \/ k = "precreate" /\ StartPreCreate(q)
                    \/ k = "activate" /\ StartActivation(q)
                    \/ k = "deactivate" /\ StartDeactivation(q)
      BY <1>2, <2>2, <3>2 DEF Effect
    <3> QED BY <2>2, <3>1, <3>2, WfMoves
  <2> QED BY <2>1, <2>2
<1>4. ASSUME NEW k \in Kinds, <<k, i>> \in performed'
      PROVE  wf'[k][i] # "none"
  BY <1>4, NextPerformed
<1> QED BY <1>0, <1>3, <1>4 DEF WfOK, Grows, Kinds

(* What a request relies on stays true while it waits.                     *)
LEMMA ReqKept ==
  ASSUME Grows, TypeOK, NEW q \in Requests, ReqOK(q), req'[q] = req[q]
  PROVE  ReqOK(q)'
  BY DEF ReqOK, Grows, ReqType, TypeOK

(* A step of one request leaves the others where they are.                 *)
LEMMA ReqMoves ==
  ASSUME TypeOK, [Next]_vars, NEW q \in Requests
  PROVE  \/ req'[q] = req[q]
         \/ RowStep(q) \/ StartStep(q) \/ ReadStep(q)
<1>1. ASSUME NEW p \in Requests, RowStep(p) \/ StartStep(p) \/ ReadStep(p), p # q
      PROVE  req'[q] = req[q]
  <2>1. \E r : req' = [req EXCEPT ![p] = r]
    <3>1. CASE RowStep(p)
      BY <3>1 DEF RowStep, CreateReclaim, DeleteRow, CreateInsert, MarkVerified,
         MarkProvisioning, Goto, Done
    <3>2. CASE StartStep(p)
      BY <3>2 DEF StartStep, StartPreCreate, StartActivation, StartDeactivation, Goto, Done
    <3>3. CASE ReadStep(p)
      BY <3>3 DEF ReadStep, CreateFind, CreateRefused, VerifyRead, DeleteRead, LookupTXT,
         LookupNS, RetryFailed, CallFails, RequestAborts, Goto, Done
    <3> QED BY <1>1, <3>1, <3>2, <3>3
  <2> QED BY <1>1, <2>1 DEF TypeOK
<1> QED BY <1>1, Steps, ActivityFrame, ReportFrame DEF Expire, vars

(* A request that goes on to a step it may take, or ends.                  *)
LEMMA ReqGoes ==
  ASSUME TypeOK, Grows, NEW q \in Requests, ReqOK(q), NEW pc \in Pcs, Goto(q, pc),
         req[q].pc \notin {"idle", "insert"} \/ pc = "insert",
         pc # "reclaim", pc # "lookup",
         pc = "insert" => req[q].pc = "reclaim",
         pc \in {"verified", "precreate"} => req[q].id \in txtSeen',
         pc \in {"provision", "start"} => verifiedAt'[req[q].id],
         pc \in {"deactivate", "delete"} => <<user[req[q].id], req[q].id>> \in asked
  PROVE  ReqOK(q)'
<1>1. req'[q] = [req[q] EXCEPT !.pc = pc]
  BY DEF Goto, TypeOK
<1>2. req[q] \in ReqType
  BY DEF TypeOK
<1>3. /\ req'[q].pc = pc /\ req'[q].id = req[q].id
      /\ req'[q].user = req[q].user /\ req'[q].name = req[q].name
  BY <1>1, <1>2 DEF ReqType
<1> QED BY <1>3 DEF ReqOK, Grows, TypeOK

LEMMA ReqEnds ==
  ASSUME TypeOK, NEW q \in Requests, Done(q)
  PROVE  ReqOK(q)'
<1>1. req'[q].pc = "idle"
  BY DEF Done, Idle, TypeOK
<1> QED BY <1>1 DEF ReqOK

LEMMA RowStepReq ==
  ASSUME TypeOK, Grows, NEW q \in Requests, ReqOK(q), RowStep(q)
  PROVE  ReqOK(q)'
<1>0. {"insert", "precreate", "start"} \subseteq Pcs
  BY DEF Pcs
<1>1. CASE CreateReclaim(q)
  BY <1>0, <1>1, ReqGoes DEF CreateReclaim
<1>2. CASE DeleteRow(q) \/ \E i \in Ids : CreateInsert(q, i)
  BY <1>2, ReqEnds DEF DeleteRow, CreateInsert
<1>3. CASE MarkVerified(q)
  <2>1. req[q].pc = "verified" /\ Goto(q, "precreate") /\ req[q].id \in txtSeen'
    BY <1>3 DEF MarkVerified, ReqOK, Grows
  <2> QED BY <1>0, <2>1, ReqGoes
<1>4. CASE MarkProvisioning(q)
  <2>1. /\ req[q].pc = "provision" /\ verifiedAt'[req[q].id]
        /\ Goto(q, "start") \/ Done(q)
    BY <1>4 DEF MarkProvisioning, ReqOK, Grows
  <2> QED BY <1>0, <2>1, ReqGoes, ReqEnds
<1> QED BY <1>1, <1>2, <1>3, <1>4 DEF RowStep

LEMMA StartStepReq ==
  ASSUME TypeOK, Grows, NEW q \in Requests, ReqOK(q), StartStep(q)
  PROVE  ReqOK(q)'
<1>1. CASE StartPreCreate(q) \/ StartActivation(q)
  BY <1>1, ReqEnds DEF StartPreCreate, StartActivation
<1>2. CASE StartDeactivation(q)
  <2>1. /\ req[q].pc = "deactivate" /\ Goto(q, "delete") /\ "delete" \in Pcs
        /\ <<user[req[q].id], req[q].id>> \in asked
    BY <1>2 DEF StartDeactivation, ReqOK, Pcs
  <2> QED BY <2>1, ReqGoes
<1> QED BY <1>1, <1>2 DEF StartStep

LEMMA ReadStepReq ==
  ASSUME TypeOK, Grows, NEW q \in Requests, ReqOK(q), \A i \in Ids : RowOK(i),
         OwnershipProven, ReadStep(q)
  PROVE  ReqOK(q)'
<1>0. {"insert", "verified", "precreate", "provision", "delete"} \subseteq Pcs
  BY DEF Pcs
<1>1. ASSUME NEW u \in Users, NEW n \in Names, CreateFind(q, u, n) PROVE ReqOK(q)'
  <2>1. ASSUME NEW i \in FindOverlapping(n), CanReclaim(i),
               req' = [req EXCEPT ![q] = [Idle EXCEPT !.pc = "reclaim", !.user = u,
                                                     !.name = n, !.id = i]]
        PROVE  ReqOK(q)'
    <3>1. i \in Ids /\ status[i] # "absent" /\ expired[i]
      BY <2>1 DEF FindOverlapping, CanReclaim, Live, Statuses
    <3>2. status'[i] # "absent" /\ expired'[i]
      BY <3>1 DEF Grows
    <3>3. /\ req'[q].pc = "reclaim" /\ req'[q].user = u
          /\ req'[q].name = n /\ req'[q].id = i
      BY <2>1 DEF Idle, TypeOK
    <3> QED BY <3>1, <3>2, <3>3 DEF ReqOK
  <2>2. ASSUME req' = [req EXCEPT ![q] = [Idle EXCEPT !.pc = "insert", !.user = u, !.name = n]]
        PROVE  ReqOK(q)'
    <3>1. req'[q].pc = "insert" /\ req'[q].user = u /\ req'[q].name = n
      BY <2>2 DEF Idle, TypeOK
    <3> QED BY <3>1 DEF ReqOK
  <2> QED BY <1>1, <2>1, <2>2 DEF CreateFind
<1>2. CASE CreateRefused(q) \/ RequestAborts(q)
  BY <1>2, ReqEnds DEF CreateRefused, RequestAborts
<1>3. ASSUME NEW u \in Users, NEW i \in Ids, VerifyRead(q, u, i) PROVE ReqOK(q)'
  <2>1. /\ req'[q].pc = "lookup" /\ req'[q].id = i
        /\ req'[q].status = status[i] /\ req'[q].verified = verifiedAt[i]
    BY <1>3 DEF VerifyRead, Idle, TypeOK
  <2>2. status[i] \in {"pending_verification", "pending_delegation", "failed"}
    BY <1>3 DEF VerifyRead, Live, Statuses
  <2>3. verifiedAt[i] \/ status[i] # "pending_verification" => verifiedAt'[i]
    BY <1>3 DEF VerifyRead, OwnershipProven, RowsAreVerified, Grows
  <2>4. status'[i] # "absent"
    BY <2>2 DEF Grows
  <2> QED BY <2>1, <2>2, <2>3, <2>4 DEF ReqOK
<1>4. ASSUME NEW u \in Users, NEW i \in Ids, DeleteRead(q, u, i) PROVE ReqOK(q)'
  <2>1. /\ status[i] # "absent" /\ user[i] = u /\ <<u, i>> \in asked'
    BY <1>4 DEF DeleteRead, Live, Owns, Statuses
  <2>2. PICK pc \in {"deactivate", "delete"} :
          req' = [req EXCEPT ![q] = [Idle EXCEPT !.id = i, !.pc = pc]]
    BY <1>4 DEF DeleteRead
  <2>3. req'[q].pc = pc /\ req'[q].id = i
    BY <2>2 DEF Idle, TypeOK
  <2> QED BY <2>1, <2>2, <2>3 DEF ReqOK, Grows
<1>5. CASE LookupTXT(q)
  <2>1. /\ req[q].pc = "lookup" /\ req[q].id \in Ids
        /\ Goto(q, "verified") \/ Done(q)
        /\ Goto(q, "verified") => req[q].verified \/ req[q].id \in txtSeen'
    BY <1>5 DEF LookupTXT, ReqOK, Goto, Done, Idle, TypeOK
  <2>2. req[q].verified => req[q].id \in txtSeen'
    BY <2>1 DEF ReqOK, RowOK, Grows
  <2> QED BY <1>0, <2>1, <2>2, ReqGoes, ReqEnds
<1>6. CASE LookupNS(q) \/ RetryFailed(q)
  <2>1. /\ req[q].pc = "lookup" /\ req[q].id \in Ids
        /\ req[q].status # "pending_verification"
        /\ Goto(q, "provision") \/ Done(q)
    BY <1>6 DEF LookupNS, RetryFailed, ReqOK
  <2>2. verifiedAt'[req[q].id]
    BY <2>1 DEF ReqOK, Grows
  <2> QED BY <1>0, <2>1, <2>2, ReqGoes, ReqEnds
<1>7. CASE CallFails(q)
  <2>1. PICK pc \in {"insert", "precreate", "delete"} :
          /\ Goto(q, pc)
          /\ pc = "insert" => req[q].pc = "reclaim"
          /\ pc = "precreate" => req[q].pc = "verified"
          /\ pc = "delete" => req[q].pc = "deactivate"
    BY <1>7 DEF CallFails, GoesOn
  <2>2. /\ pc = "precreate" => req[q].id \in txtSeen'
        /\ pc = "delete" => <<user[req[q].id], req[q].id>> \in asked
    BY <2>1 DEF ReqOK, Grows
  <2> QED BY <1>0, <2>1, <2>2, ReqGoes
<1> QED BY <1>1, <1>2, <1>3, <1>4, <1>5, <1>6, <1>7 DEF ReadStep

LEMMA NextTracked ==
  ASSUME TypeOK, Tracked, OwnershipProven, [Next]_vars
  PROVE  Tracked'
<1>1. Grows
  BY NextGrows
<1>2. ASSUME NEW q \in Requests PROVE ReqOK(q)'
  BY <1>1, ReqMoves, ReqKept, RowStepReq, StartStepReq, ReadStepReq DEF Tracked
<1> QED BY <1>2, NextRow, NextWf DEF Tracked

-----------------------------------------------------------------------------
(* Ownership.                                                              *)

LEMMA NextRowsAreVerified ==
  ASSUME TypeOK, Tracked, OwnershipProven, [Next]_vars
  PROVE  RowsAreVerified'
<1> SUFFICES ASSUME NEW i \in Ids, Live(i)', status'[i] # "pending_verification"
             PROVE  verifiedAt'[i]
  BY NextRow DEF RowsAreVerified, RowOK
<1>0. /\ Grows /\ \A q \in Requests : ReqOK(q)
      /\ Live(i) /\ status[i] # "pending_verification" => verifiedAt[i]
      /\ wf["activate"][i] # "none" => verifiedAt[i]
  BY NextGrows DEF Tracked, OwnershipProven, RowsAreVerified, WfOK
<1>1. CASE status'[i] = status[i]
  BY <1>0, <1>1 DEF Grows, Live
<1>2. ASSUME NEW q \in Requests, CreateReclaim(q) \/ DeleteRow(q) PROVE verifiedAt'[i]
  <2>1. status'[i] = status[i] \/ status'[i] = "deleted"
    BY <1>2 DEF CreateReclaim, DeleteRow, RemoveRow, TypeOK
  <2> QED BY <1>1, <2>1 DEF Live, Statuses
<1>3. ASSUME NEW q \in Requests, NEW j \in Ids, CreateInsert(q, j) PROVE verifiedAt'[i]
  BY <1>1, <1>3 DEF CreateInsert, TypeOK
<1>4. ASSUME NEW q \in Requests, MarkVerified(q) PROVE verifiedAt'[i]
  <2>1. status'[i] = status[i] \/ (i = req[q].id /\ Live(i))
    BY <1>4 DEF MarkVerified, TypeOK
  <2>2. i = req[q].id /\ Live(i) => verifiedAt'[i]
    BY <1>4 DEF MarkVerified, TypeOK
  <2> QED BY <1>1, <2>1, <2>2
<1>5. ASSUME NEW q \in Requests, MarkProvisioning(q) PROVE verifiedAt'[i]
  <2>1. status'[i] = status[i] \/ i = req[q].id
    BY <1>5 DEF MarkProvisioning, TypeOK
  <2>2. i = req[q].id => verifiedAt'[i]
    BY <1>0, <1>5 DEF MarkProvisioning, ReqOK, Grows
  <2> QED BY <1>1, <2>1, <2>2
<1>6. ASSUME NEW j \in Ids, ActivityStep(j) PROVE verifiedAt'[i]
  <2>1. ASSUME NEW c \in {"MarkActive", "MarkFailed"}, NEW s, UpdateZoneStatus(j, c, s)
        PROVE  status'[i] = status[i] \/ wf["activate"][i] # "none"
    BY <2>1 DEF UpdateZoneStatus, Attempt, TypeOK
  <2> QED BY <1>0, <1>1, <1>6, <2>1, ActivityFrame DEF Grows
<1>7. ASSUME NEW j \in Ids, Expire(j) PROVE verifiedAt'[i]
  BY <1>1, <1>7 DEF Expire
<1> QED BY <1>1, <1>2, <1>3, <1>4, <1>5, <1>6, <1>7, RowMoves DEF RowStep, rowVars

(* What the workflows have written outside, and for which row.             *)
LEMMA OutsideMoves ==
  ASSUME TypeOK, [Next]_vars
  PROVE  \/ UNCHANGED outsideVars
         \/ \E i \in Ids : ActivityStep(i)
  BY Steps, RowFrame, StartFrame, ReadFrame, ReportFrame DEF Expire, vars

LEMMA NextNamesAreVerified ==
  ASSUME TypeOK, Tracked, OwnershipProven, [Next]_vars
  PROVE  NamesAreVerified'
<1> DEFINE Outside == provider \cup {certs[l] : l \in Labels}
<1>0. Grows /\ \A i \in Ids : i \in txtSeen => status[i] # "absent"
  BY NextGrows DEF Tracked, RowOK
<1>1. ASSUME NEW i \in txtSeen PROVE i \in txtSeen' /\ zone'[i] = zone[i]
  BY <1>0, <1>1 DEF Grows, TypeOK
<1>2. ASSUME NEW n, n \in Outside' => n \in Outside \/ n = NoName \/ \E i \in txtSeen : n = zone[i],
             n \in Outside', n # NoName
      PROVE  \E i \in txtSeen' : zone'[i] = n
  BY <1>1, <1>2 DEF OwnershipProven, NamesAreVerified
<1>3. ASSUME NEW i \in Ids, ActivityStep(i), NEW n \in Outside'
      PROVE  n \in Outside \/ n = NoName \/ \E j \in txtSeen : n = zone[j]
  <2>1. /\ wf["precreate"][i] # "none" => i \in txtSeen
        /\ wf["activate"][i] # "none" => i \in txtSeen
    BY DEF Tracked, WfOK, RowOK
  <2>2. CASE CreateZone("precreate", i) \/ CreateZone("activate", i)
    BY <1>3, <2>1, <2>2 DEF CreateZone, Attempt
  <2>3. CASE ApplyWildcardCert(i)
    <3>1. i \in txtSeen /\ provider' = provider /\ certs' = [certs EXCEPT ![CertName(i)] = zone[i]]
      BY <2>1, <2>3 DEF ApplyWildcardCert, Attempt
    <3> QED BY <1>3, <3>1 DEF TypeOK
  <2>4. CASE DeleteCertificate(i)
    <3>1. provider' = provider /\ certs' = [certs EXCEPT ![CertName(i)] = NoName]
      BY <2>4 DEF DeleteCertificate
    <3> QED BY <1>3, <3>1 DEF TypeOK
  <2>5. CASE provider' \subseteq provider /\ certs' = certs
    BY <1>3, <2>5
  <2>6. \/ CreateZone("precreate", i) \/ CreateZone("activate", i)
        \/ ApplyWildcardCert(i) \/ DeleteCertificate(i)
        \/ provider' \subseteq provider /\ certs' = certs
    BY <1>3 DEF ActivityStep, WaitForNS, WaitForCertReady, ApplyCertLoader, UpdateZoneStatus,
       DeleteCertLoader, DeleteZone, outsideVars
  <2> QED BY <2>2, <2>3, <2>4, <2>5, <2>6
<1>4. CASE UNCHANGED outsideVars
  BY <1>2, <1>4 DEF NamesAreVerified, outsideVars
<1>5. ASSUME NEW i \in Ids, ActivityStep(i) PROVE NamesAreVerified'
  BY <1>2, <1>3, <1>5 DEF NamesAreVerified
<1> QED BY <1>4, <1>5, OutsideMoves

-----------------------------------------------------------------------------
(* Activations.                                                            *)

LEMMA DisturbedStays ==
  ASSUME Grows, NEW i \in Ids, status[i] # "absent", Disturbed(i)
  PROVE  Disturbed(i)'
<1>1. PICK j \in Ids : /\ status[j] # "absent"
                       /\ CertName(j) = CertName(i)
                       /\ j \in deactivated \/ zone[j] # zone[i]
  BY DEF Disturbed
<1>2. /\ status'[j] # "absent" /\ zone'[j] = zone[j] /\ zone'[i] = zone[i]
      /\ j \in deactivated => j \in deactivated'
  BY <1>1 DEF Grows
<1> QED BY <1>1, <1>2 DEF Disturbed, CertName

(* Only another zone of the same name or label undoes what an activation   *)
(* has done for an undisturbed row.                                        *)
LEMMA OutsideKept ==
  ASSUME TypeOK, Tracked, [Next]_vars, NEW i \in Ids, status[i] # "absent", ~Disturbed(i)
  PROVE  /\ zone[i] \in provider => zone[i] \in provider'
         /\ certs[CertName(i)] = zone[i] => certs'[CertName(i)] = zone[i]
         /\ CertName(i) \in loaders => CertName(i) \in loaders'
<1>0. CertName(i) \in Labels
  BY LabelOK DEF Tracked, RowOK, CertName
<1>1. ASSUME NEW j \in Ids, ActivityStep(j), ~UNCHANGED outsideVars
      PROVE  status[j] # "absent"
  <2>1. PICK k \in Kinds, c \in Activities : Attempt(k, j, c)
    BY <1>1 DEF ActivityStep, CreateZone, WaitForNS, ApplyWildcardCert, WaitForCertReady,
       ApplyCertLoader, UpdateZoneStatus, DeleteCertLoader, DeleteCertificate, DeleteZone,
       Kinds, Activities
  <2>2. wf[k][j] # "none"
    BY <2>1 DEF Attempt, Activities
  <2> QED BY <2>2 DEF Tracked, RowOK
<1>2. ASSUME NEW j \in Ids, status[j] # "absent", CertName(j) = CertName(i)
      PROVE  zone[j] = zone[i] /\ j \notin deactivated
  BY <1>2 DEF Disturbed
<1>3. ASSUME NEW j \in Ids, wf["deactivate"][j] # "none" PROVE j \in deactivated
  BY <1>3 DEF Tracked, WfOK
<1>4. ASSUME NEW j \in Ids, DeleteCertLoader(j) \/ DeleteCertificate(j) \/ DeleteZone(j),
             status[j] # "absent"
      PROVE  CertName(j) # CertName(i) /\ zone[j] # zone[i]
  <2>1. j \in deactivated
    BY <1>3, <1>4 DEF DeleteCertLoader, DeleteCertificate, DeleteZone, Attempt
  <2> QED BY <1>2, <1>4, <2>1 DEF CertName
<1>5. ASSUME NEW j \in Ids, ActivityStep(j), status[j] # "absent"
      PROVE  /\ zone[i] \in provider => zone[i] \in provider'
             /\ certs[CertName(i)] = zone[i] => certs'[CertName(i)] = zone[i]
             /\ CertName(i) \in loaders => CertName(i) \in loaders'
  <2>1. CASE CreateZone("precreate", j) \/ CreateZone("activate", j)
    BY <2>1 DEF CreateZone
  <2>2. CASE UNCHANGED outsideVars
    BY <2>2 DEF outsideVars
  <2>3. CASE ApplyWildcardCert(j)
    BY <1>0, <1>2, <1>5, <2>3 DEF ApplyWildcardCert, TypeOK
  <2>4. CASE ApplyCertLoader(j)
    BY <2>4 DEF ApplyCertLoader
  <2>5. CASE DeleteCertLoader(j)
    BY <1>4, <1>5, <2>5 DEF DeleteCertLoader
  <2>6. CASE DeleteCertificate(j)
    BY <1>0, <1>4, <1>5, <2>6 DEF DeleteCertificate, TypeOK
  <2>7. CASE DeleteZone(j)
    BY <1>4, <1>5, <2>7 DEF DeleteZone
  <2> QED BY <1>5, <2>1, <2>2, <2>3, <2>4, <2>5, <2>6, <2>7
          DEF ActivityStep, WaitForNS, WaitForCertReady, UpdateZoneStatus
<1>6. CASE UNCHANGED outsideVars
  BY <1>6 DEF outsideVars
<1> QED BY <1>1, <1>5, <1>6, OutsideMoves

LEMMA KeptStays ==
  ASSUME TypeOK, Tracked, [Next]_vars, NEW i \in Ids, status[i] # "absent",
         NEW CONSTANT done, Kept(i, done)
  PROVE  Kept(i, done)'
<1>1. Grows
  BY NextGrows
<1>2. ~Disturbed(i)' => ~Disturbed(i)
  BY <1>1, DisturbedStays
<1>3. zone'[i] = zone[i]
  BY <1>1 DEF Grows
<1>4. CASE Disturbed(i)'
  BY <1>1, <1>4 DEF Kept, Grows
<1>5. CASE ~Disturbed(i)'
  BY <1>1, <1>2, <1>3, <1>5, OutsideKept DEF Kept, Grows, CertName
<1> QED BY <1>4, <1>5

(* What an activity of row i leaves there.                                 *)
There(i, c) ==
  /\ c = "WaitForNS" => i \in nsSeen
  /\ c = "WaitForCertReady" => i \in certSeen
  /\ c = "CreateZone" => zone[i] \in provider
  /\ c = "ApplyWildcardCert" => certs[CertName(i)] = zone[i]
  /\ c = "ApplyCertLoader" => CertName(i) \in loaders

(* What an activity has done is there.                                     *)
LEMMA JustDone ==
  ASSUME TypeOK, NEW i \in Ids, status[i] # "absent", zone[i] \in Names, ActivityStep(i),
         NEW c \in Activities, wf["activate"][i] = c, <<"activate", i>> \notin performed,
         <<"activate", i>> \in performed'
  PROVE  There(i, c)'
<1>1. CertName(i) \in Labels /\ zone' = zone
  BY LabelOK, ActivityFrame DEF CertName
<1>2. ASSUME NEW k \in {"precreate", "deactivate"}, NEW d, Attempt(k, i, d) PROVE FALSE
  BY <1>2 DEF Attempt
<1>3. \/ CreateZone("activate", i) \/ WaitForNS(i) \/ ApplyWildcardCert(i)
      \/ WaitForCertReady(i) \/ ApplyCertLoader(i)
      \/ c \in {"MarkActive", "MarkFailed"}
  BY <1>2 DEF ActivityStep, CreateZone, UpdateZoneStatus, DeleteCertLoader, DeleteCertificate,
     DeleteZone, Attempt
<1>4. CASE CreateZone("activate", i)
  BY <1>1, <1>4 DEF CreateZone, Attempt, There
<1>5. CASE WaitForNS(i)
  BY <1>5 DEF WaitForNS, Attempt, There
<1>6. CASE ApplyWildcardCert(i)
  <2>1. c = "ApplyWildcardCert" /\ certs'[CertName(i)] = zone[i]
    BY <1>1, <1>6 DEF ApplyWildcardCert, Attempt, TypeOK
  <2> QED BY <1>1, <2>1 DEF There, CertName
<1>7. CASE WaitForCertReady(i)
  BY <1>7 DEF WaitForCertReady, Attempt, There
<1>8. CASE ApplyCertLoader(i)
  BY <1>1, <1>8 DEF ApplyCertLoader, Attempt, There, CertName
<1>9. CASE c \in {"MarkActive", "MarkFailed"}
  BY <1>9 DEF There
<1> QED BY <1>3, <1>4, <1>5, <1>6, <1>7, <1>8, <1>9

(* An activation has behind it what it had, and what it has just done.     *)
LEMMA BehindMoves ==
  ASSUME TypeOK, Tracked, [Next]_vars, NEW i \in Ids
  PROVE  \/ Behind(i)' \subseteq Behind(i)
         \/ /\ ActivityStep(i) /\ <<"activate", i>> \notin performed
            /\ <<"activate", i>> \in performed'
            /\ wf["activate"][i] \in Activities
            /\ Behind(i)' = Behind(i) \cup {wf["activate"][i]}
<1> DEFINE c == wf["activate"][i]
<1>0. /\ c \in DOMAIN Effect /\ "activate" \in Kinds
      /\ <<"activate", i>> \in performed => c # "none"
  BY DEF Tracked, WfOK, Kinds
<1>1. CASE wf'["activate"][i] = c /\ (<<"activate", i>> \in performed' => <<"activate", i>> \in performed)
  BY <1>1 DEF Behind
<1>2. CASE wf'["activate"][i] = c /\ <<"activate", i>> \in performed' /\ <<"activate", i>> \notin performed
  <2>1. ~UNCHANGED performed
    BY <1>2
  <2>2. ASSUME NEW j \in Ids, NEW k \in Kinds, ReportSuccess(k, j) \/ ReportFailure(k, j)
        PROVE  FALSE
    BY <1>2, <2>2 DEF ReportSuccess, ReportFailure
  <2>3. PICK j \in Ids : ActivityStep(j)
    BY <2>1, <2>2, Steps, RowFrame, StartFrame, ReadFrame DEF Expire, wfVars, vars
  <2>4. PICK l \in Kinds, d \in Activities : Attempt(l, j, d)
    BY <2>3 DEF ActivityStep, CreateZone, WaitForNS, ApplyWildcardCert, WaitForCertReady,
       ApplyCertLoader, UpdateZoneStatus, DeleteCertLoader, DeleteCertificate, DeleteZone,
       Kinds, Activities
  <2>5. l = "activate" /\ j = i /\ c \in Activities
    BY <1>2, <2>4 DEF Attempt
  <2>6. Behind(i)' = Effect[c] \cup {c} /\ Behind(i) = Effect[c]
    BY <1>2 DEF Behind
  <2> QED BY <1>2, <2>3, <2>5, <2>6
<1>3. CASE wf'["activate"][i] # c
  <2>1. CASE ReportSuccess("activate", i) /\ wf'["activate"][i] = OnSuccess("activate", c)
    <3>1. Behind(i) = Effect[c] \cup {c} /\ c \in Activities
      BY <2>1 DEF ReportSuccess, Running, Behind
    <3>2. <<"activate", i>> \notin performed' /\ wf'["activate"][i] = NextActivity[c]
      BY <2>1 DEF ReportSuccess, OnSuccess
    <3>3. Effect[NextActivity[c]] \subseteq Effect[c] \cup {c}
      BY <1>0, <3>1 DEF Effect, NextActivity, Activities
    <3> QED BY <3>1, <3>2, <3>3 DEF Behind
  <2>2. CASE ReportFailure("activate", i) /\ wf'["activate"][i] = OnFailure("activate", c)
    <3>1. wf'["activate"][i] \in {"MarkFailed", "none"} /\ <<"activate", i>> \notin performed'
      BY <1>0, <2>2 DEF ReportFailure, OnFailure, Effect
    <3> QED BY <3>1 DEF Behind, Effect
  <2>3. CASE \E q \in Requests : /\ req[q].id = i /\ ~Running("activate", i)
                                 /\ wf'["activate"][i] = First("activate")
                                 /\ StartActivation(q)
    <3>1. wf'["activate"][i] = "CreateZone" /\ performed' = performed
      BY <2>3 DEF First, StartActivation, ExecuteWorkflow
    <3>2. c = "none"
      BY <2>3 DEF Running, TypeOK, Kinds
    <3> QED BY <1>0, <3>1, <3>2 DEF Behind, Effect
  <2> QED BY <1>0, <1>3, <2>1, <2>2, <2>3, WfMoves
<1> QED BY <1>1, <1>2, <1>3

(* A row only turns active when its activation has everything behind it.   *)
LEMMA ActiveMoves ==
  ASSUME TypeOK, Tracked, [Next]_vars, NEW i \in Ids,
         status'[i] = "active", status[i] # "active"
  PROVE  status[i] # "absent" /\ wf["activate"][i] = "MarkActive"
<1>1. ASSUME NEW j \in Ids, ActivityStep(j)
      PROVE  wf["activate"][i] = "MarkActive"
  <2>1. UpdateZoneStatus(j, "MarkActive", "active") \/ UpdateZoneStatus(j, "MarkFailed", "failed")
    BY <1>1, ActivityFrame
  <2>2. UpdateZoneStatus(j, "MarkActive", "active") /\ j = i
    BY <2>1 DEF UpdateZoneStatus, TypeOK
  <2> QED BY <2>2 DEF UpdateZoneStatus, Attempt
<1>2. ASSUME NEW q \in Requests, RowStep(q) PROVE FALSE
  BY <1>2 DEF RowStep, CreateReclaim, DeleteRow, RemoveRow, CreateInsert, MarkVerified,
     MarkProvisioning, TypeOK
<1>3. wf["activate"][i] = "MarkActive"
  BY <1>1, <1>2, RowMoves DEF Expire, rowVars
<1> QED BY <1>3 DEF Tracked, RowOK, Kinds

LEMMA NextActivations ==
  ASSUME TypeOK, Tracked, Activations, [Next]_vars
  PROVE  Activations'
<1> SUFFICES ASSUME NEW i \in Ids, status'[i] # "absent"
             PROVE  Kept(i, Behind(i))' /\ (status'[i] = "active" => Kept(i, Activated)')
  BY DEF Activations
<1>1. CASE status[i] = "absent"
  <2>1. wf["activate"][i] = "none" /\ wf'["activate"][i] = "none"
    BY <1>1, Traces DEF Tracked, RowOK, Kinds
  <2>2. <<"activate", i>> \notin performed'
    BY <2>1, NextPerformed DEF Kinds
  <2>3. Behind(i)' = {}
    BY <2>1, <2>2 DEF Behind, Effect
  <2>4. status'[i] # "active"
    BY <1>1, <2>1, ActiveMoves
  <2> QED BY <2>3, <2>4 DEF Kept
<1>2. CASE status[i] # "absent"
  <2>0. /\ Kept(i, Behind(i)) /\ (status[i] = "active" => Kept(i, Activated))
        /\ zone[i] \in Names
    BY <1>2 DEF Activations, Tracked, RowOK
  <2>1. ASSUME NEW CONSTANT d, Kept(i, d) PROVE Kept(i, d)'
    BY <1>2, <2>1, KeptStays
  <2>2. PICK b : b = Behind(i)
    OBVIOUS
  <2>3. Kept(i, b)'
    BY <2>0, <2>1, <2>2
  <2>4. Kept(i, Behind(i))'
    <3>1. PICK e : e = Behind(i)'
      OBVIOUS
    <3>2. CASE e \subseteq b
      <4>1. Kept(i, b)' => Kept(i, e)'
        BY <3>2 DEF Kept
      <4> QED BY <2>3, <3>1, <4>1 DEF Kept
    <3>3. CASE ~(e \subseteq b)
      <4>1. PICK c \in Activities :
              /\ c = wf["activate"][i] /\ ActivityStep(i)
              /\ <<"activate", i>> \notin performed /\ <<"activate", i>> \in performed'
              /\ e = b \cup {c}
        BY <2>2, <3>1, <3>3, BehindMoves
      <4>2. Kept(i, {c})'
        BY <1>2, <2>0, <4>1, JustDone DEF Kept, There
      <4> QED BY <2>3, <3>1, <4>1, <4>2 DEF Kept
    <3> QED BY <3>2, <3>3
  <2>5. ASSUME status'[i] = "active" PROVE Kept(i, Activated)'
    <3>1. CASE status[i] = "active"
      BY <2>0, <2>1, <3>1 DEF Activated, Effect
    <3>2. CASE status[i] # "active"
      <4>1. wf["activate"][i] = "MarkActive"
        BY <2>5, <3>2, ActiveMoves
      <4>2. Activated \subseteq b
        BY <2>2, <4>1 DEF Behind, Activated
      <4> QED BY <2>3, <4>2 DEF Kept, Activated, Effect
    <3> QED BY <3>1, <3>2
  <2> QED BY <2>4, <2>5
<1> QED BY <1>1, <1>2

-----------------------------------------------------------------------------
(* The theorems.                                                           *)

LEMMA InitZInv == ASSUME Init PROVE ZInv
<1>1. TypeOK
  BY InitType
<1>2. ASSUME NEW i \in Ids PROVE RowOK(i) /\ WfOK(i)
  BY <1>2 DEF Init, RowOK, WfOK, Kinds, Effect
<1>3. ASSUME NEW q \in Requests PROVE ReqOK(q)
  BY <1>3 DEF Init, ReqOK, Idle
<1>4. OwnershipProven
  BY DEF Init, OwnershipProven, RowsAreVerified, NamesAreVerified, Live, Statuses
<1>5. Activations
  BY DEF Init, Activations
<1> QED BY <1>1, <1>2, <1>3, <1>4, <1>5 DEF ZInv, Tracked

LEMMA NextZInv == ASSUME ZInv, [Next]_vars PROVE ZInv'
<1>1. TypeOK' /\ Tracked' /\ Activations'
  BY NextType, NextTracked, NextActivations DEF ZInv
<1>2. OwnershipProven'
  BY NextRowsAreVerified, NextNamesAreVerified DEF ZInv, OwnershipProven
<1> QED BY <1>1, <1>2 DEF ZInv

(* The types, the bookkeeping of requests and workflows, the proofs of     *)
(* ownership and the progress of activations hold together.                *)
THEOREM Invariant == Spec => []ZInv
  BY InitZInv, NextZInv, PTL DEF Spec

(* Every variable keeps its type.                                          *)
THEOREM TypesHold == Spec => []TypeOK
<1>1. ZInv => TypeOK
  BY DEF ZInv
<1> QED BY <1>1, Invariant, PTL

(* No row gets past its verification, and no name gets to the provider or  *)
(* on a certificate, unless a lookup found the token of a row of that name.*)
THEOREM OwnershipIsProven == Spec => []OwnershipProven
<1>1. ZInv => OwnershipProven
  BY DEF ZInv
<1> QED BY <1>1, Invariant, PTL

LEMMA ActivatedMeans ==
  ASSUME ZInv, NEW i \in Ids, status[i] = "active"
  PROVE  /\ i \in nsSeen \cap certSeen
         /\ ~Disturbed(i) => Served(i)
  BY DEF ZInv, Activations, Kept, Activated, Effect, Served

(* An active zone was found delegated and certified by its own activation. *)
THEOREM ActiveIsEarned == Spec => []ActiveWasEarned
<1>1. ZInv => ActiveWasEarned
  BY ActivatedMeans DEF ActiveWasEarned
<1> QED BY <1>1, Invariant, PTL

(* An active zone has its zone, certificate and loader, unless a row of    *)
(* the same name was deactivated or another name shares its label.         *)
THEOREM ActiveIsServed == Spec => []ServedUnlessDisturbed
<1>1. ZInv => ServedUnlessDisturbed
  BY ActivatedMeans DEF ServedUnlessDisturbed
<1> QED BY <1>1, Invariant, PTL

LEMMA RemovedMeans ==
  ASSUME ZInv, [Next]_vars, NEW i \in Ids, Live(i), ~Live(i)'
  PROVE  <<user[i], i>> \in asked \/ expired[i]
<1>1. ASSUME NEW q \in Requests, ReqOK(q), CreateReclaim(q) \/ DeleteRow(q)
      PROVE  <<user[i], i>> \in asked \/ expired[i]
  <2>1. req[q].id = i
    BY <1>1 DEF CreateReclaim, DeleteRow, RemoveRow, ZInv, TypeOK, Live
  <2> QED BY <1>1, <2>1 DEF CreateReclaim, DeleteRow, ReqOK
<1>2. ASSUME NEW q \in Requests,
             MarkVerified(q) \/ MarkProvisioning(q) \/ \E j \in Ids : CreateInsert(q, j)
      PROVE  FALSE
  BY <1>2 DEF MarkVerified, MarkProvisioning, CreateInsert, ZInv, TypeOK, Live, Statuses
<1>3. ASSUME NEW j \in Ids, Expire(j) \/ ActivityStep(j) PROVE FALSE
  BY <1>3, ActivityFrame DEF Expire, UpdateZoneStatus, ZInv, TypeOK, Live, Statuses
<1>4. ASSUME UNCHANGED rowVars PROVE FALSE
  BY <1>4 DEF Live, rowVars
<1> QED BY <1>1, <1>2, <1>3, <1>4, RowMoves DEF RowStep, ZInv, Tracked

(* What ActiveIsKept lacks: a verification that read a row before it       *)
(* expired still moves the row afterwards, while another user's request has*)
(* read it as expired and is to delete it.                                 *)
ExpiredStays == \A i \in Ids : expired[i] => status'[i] \in {status[i], "deleted"}

ExpiredIsPending ==
  \A i \in Ids : Live(i) /\ expired[i] =>
    status[i] \in {"pending_verification", "pending_delegation"}

LEMMA NextExpiredIsPending ==
  ASSUME ZInv, ExpiredIsPending, [Next]_vars, [ExpiredStays]_vars
  PROVE  ExpiredIsPending'
<1> SUFFICES ASSUME NEW i \in Ids, Live(i)', expired'[i]
             PROVE  status'[i] \in {"pending_verification", "pending_delegation"}
  BY DEF ExpiredIsPending, Live
<1>1. CASE expired[i]
  <2>1. status'[i] \in {status[i], "deleted"}
    BY <1>1 DEF ExpiredStays, vars, rowVars
  <2> QED BY <1>1, <2>1 DEF ExpiredIsPending, Live, Statuses
<1>2. CASE ~expired[i]
  <2>1. \E j \in Ids : Expire(j)
    BY <1>2, RowMoves, ActivityFrame DEF RowStep, CreateReclaim, DeleteRow, CreateInsert,
       MarkVerified, MarkProvisioning, rowVars, ZInv
  <2> QED BY <1>2, <2>1 DEF Expire, ZInv, TypeOK
<1> QED BY <1>1, <1>2

(* An active zone goes only when its owner asked for it, as long as no     *)
(* verification moves a row that has expired, for any number of users,     *)
(* requests and faults.                                                    *)
THEOREM ActiveIsKeptIfExpiredStays == Spec /\ [][ExpiredStays]_vars => ActiveIsKept
<1>1. Init => ExpiredIsPending
  BY DEF Init, ExpiredIsPending
<1>2. ZInv /\ ExpiredIsPending /\ [Next]_vars =>
        [\A i \in Ids : status[i] = "active" /\ ~Live(i)' => <<user[i], i>> \in asked]_vars
  BY RemovedMeans DEF ExpiredIsPending, Live, Statuses
<1>3. ZInv /\ ExpiredIsPending /\ [Next]_vars /\ [ExpiredStays]_vars => ExpiredIsPending'
  BY NextExpiredIsPending
<1> QED BY <1>1, <1>2, <1>3, Invariant, PTL DEF Spec, ActiveIsKept

-----------------------------------------------------------------------------
(* Whose certificates there are.                                           *)

(* Every certificate is under the label of the name it is for.             *)
CertsAreLabelled == \A l \in Labels : certs[l] # NoName => Label[certs[l]] = l

LEMMA NextCertsAreLabelled == ZInv /\ CertsAreLabelled /\ [Next]_vars => CertsAreLabelled'
<1> SUFFICES ASSUME ZInv, CertsAreLabelled, [Next]_vars PROVE CertsAreLabelled'
  OBVIOUS
<1>1. certs \in [Labels -> Names \cup {NoName}]
  BY DEF ZInv, TypeOK
<1>2. ASSUME NEW i \in Ids, ApplyWildcardCert(i) PROVE CertsAreLabelled'
  <2>1. zone[i] \in Names /\ CertName(i) \in Labels
    BY <1>2, LabelOK DEF ApplyWildcardCert, Attempt, ZInv, Tracked, RowOK, CertName, Kinds
  <2>2. certs' = [certs EXCEPT ![CertName(i)] = zone[i]]
    BY <1>2 DEF ApplyWildcardCert
  <2> QED BY <1>1, <2>1, <2>2 DEF CertsAreLabelled, CertName
<1>3. ASSUME NEW i \in Ids, DeleteCertificate(i) PROVE CertsAreLabelled'
  <2>1. certs' = [certs EXCEPT ![CertName(i)] = NoName]
    BY <1>3 DEF DeleteCertificate
  <2> QED BY <1>1, <2>1 DEF CertsAreLabelled
<1>4. CASE UNCHANGED certs
  BY <1>4 DEF CertsAreLabelled
<1>5. ASSUME NEW i \in Ids, ActivityStep(i) PROVE CertsAreLabelled'
  BY <1>2, <1>3, <1>4, <1>5
     DEF ActivityStep, CreateZone, WaitForNS, WaitForCertReady, ApplyCertLoader,
         UpdateZoneStatus, DeleteCertLoader, DeleteZone, outsideVars
<1> QED BY <1>4, <1>5, OutsideMoves DEF ZInv, outsideVars

(* What CertificateIsOwn misses, and all it misses: the certificate found  *)
(* under the label of a zone is the zone's own, or that of another verified*)
(* zone whose name sanitizeDNSLabel maps to the same label.                *)
CertificateIsOfTheLabel ==
  \A i \in Ids : status[i] # "absent" /\ certs[CertName(i)] \notin {zone[i], NoName} =>
    \E j \in txtSeen : /\ zone[j] = certs[CertName(i)] /\ zone[j] # zone[i]
                       /\ CertName(j) = CertName(i)

THEOREM CertificatesAreOfTheLabel == Spec => []CertificateIsOfTheLabel
<1>1. Init => CertsAreLabelled
  BY DEF Init, CertsAreLabelled
<1>2. ZInv /\ CertsAreLabelled => CertificateIsOfTheLabel
  <2> SUFFICES ASSUME ZInv, CertsAreLabelled, NEW i \in Ids, status[i] # "absent",
                      certs[CertName(i)] \notin {zone[i], NoName}
               PROVE  \E j \in txtSeen : /\ zone[j] = certs[CertName(i)] /\ zone[j] # zone[i]
                                         /\ CertName(j) = CertName(i)
    BY DEF CertificateIsOfTheLabel
  <2>1. CertName(i) \in Labels
    BY LabelOK DEF ZInv, Tracked, RowOK, CertName
  <2>2. PICK j \in txtSeen : zone[j] = certs[CertName(i)]
    BY <2>1 DEF ZInv, OwnershipProven, NamesAreVerified
  <2>3. CertName(j) = CertName(i)
    BY <2>1, <2>2 DEF CertsAreLabelled, CertName
  <2> QED BY <2>2, <2>3
<1> QED BY <1>1, <1>2, Invariant, NextCertsAreLabelled, PTL DEF Spec

(* So each active zone has its own certificate, or none, wherever no two   *)
(* names share a label.                                                    *)
THEOREM CertificatesAreOwn ==
  ASSUME \A m, n \in Names : Label[m] = Label[n] => m = n
  PROVE  Spec => []CertificateIsOwn
<1>1. ZInv /\ CertificateIsOfTheLabel => CertificateIsOwn
  <2> SUFFICES ASSUME ZInv, CertificateIsOfTheLabel, NEW i \in Ids, status[i] = "active",
                      certs[CertName(i)] \notin {zone[i], NoName}
               PROVE  FALSE
    BY DEF CertificateIsOwn
  <2>1. PICK j \in txtSeen : zone[j] # zone[i] /\ CertName(j) = CertName(i)
    BY DEF CertificateIsOfTheLabel
  <2>2. j \in Ids /\ zone[i] \in Names /\ zone[j] \in Names
    BY DEF ZInv, TypeOK, Tracked, RowOK
  <2> QED BY <2>1, <2>2 DEF CertName
<1> QED BY <1>1, Invariant, CertificatesAreOfTheLabel, PTL

-----------------------------------------------------------------------------
(* Who attends to a zone that is being provisioned.                        *)

Attended(i) ==
  \/ Running("activate", i)
  \/ \E q \in Requests : req[q].pc = "start" /\ req[q].id = i

(* The activation of row i has written its outcome, and not reported it.   *)
Marked(i) ==
  /\ wf["activate"][i] \in {"MarkActive", "MarkFailed"}
  /\ <<"activate", i>> \in performed

AttendedInv ==
  \A i \in Ids : status[i] = "provisioning" => Attended(i) /\ ~Marked(i)

(* No request sends a zone back to provisioning while its activation runs. *)
NoneIsJoined ==
  \A q \in Requests : MarkProvisioning(q) => ~Running("activate", req[q].id)

LEMMA TurnsProvisioning ==
  ASSUME ZInv, [Next]_vars, NEW i \in Ids,
         status'[i] = "provisioning", status[i] # "provisioning"
  PROVE  \E q \in Requests : /\ MarkProvisioning(q) /\ req[q].id = i
                             /\ req'[q].pc = "start" /\ req'[q].id = i
<1> USE DEF ZInv, TypeOK
<1>1. ASSUME NEW q \in Requests, RowStep(q)
      PROVE  MarkProvisioning(q) /\ req[q].id = i /\ Live(i)
  <2>1. CASE MarkProvisioning(q)
    BY <2>1 DEF MarkProvisioning
  <2>2. CASE CreateReclaim(q) \/ DeleteRow(q)
    BY <2>2 DEF CreateReclaim, DeleteRow, RemoveRow
  <2>3. CASE MarkVerified(q) \/ \E j \in Ids : CreateInsert(q, j)
    BY <2>3 DEF MarkVerified, CreateInsert
  <2> QED BY <1>1, <2>1, <2>2, <2>3 DEF RowStep
<1>2. ASSUME NEW j \in Ids, Expire(j) \/ ActivityStep(j) PROVE FALSE
  BY <1>2, ActivityFrame DEF Expire, UpdateZoneStatus
<1>3. PICK q \in Requests : MarkProvisioning(q) /\ req[q].id = i /\ Live(i)
  BY <1>1, <1>2, RowMoves DEF rowVars
<1>4. req' = [req EXCEPT ![q].pc = "start"]
  BY <1>3 DEF MarkProvisioning, Goto
<1>5. req'[q] = [req[q] EXCEPT !.pc = "start"] /\ req[q] \in ReqType
  BY <1>4
<1>6. req'[q].pc = "start" /\ req'[q].id = i
  BY <1>3, <1>5 DEF ReqType
<1> QED BY <1>3, <1>6

(* An outcome is written over the status, and its report comes after it.   *)
LEMMA TurnsMarked ==
  ASSUME ZInv, [Next]_vars, NEW i \in Ids, Marked(i)', ~Marked(i)
  PROVE  status'[i] \in {"active", "failed"}
<1> USE DEF ZInv, TypeOK
<1>0. "activate" \in Kinds
  BY DEF Kinds
<1>1. wf'["activate"][i] = wf["activate"][i]
  <2>1. ASSUME ReportSuccess("activate", i) \/ ReportFailure("activate", i) PROVE FALSE
    BY <2>1 DEF ReportSuccess, ReportFailure, Marked
  <2>2. wf'["activate"][i] # First("activate")
    BY DEF Marked, First
  <2> QED BY <1>0, <2>1, <2>2, WfMoves
<1>2. <<"activate", i>> \in performed' /\ <<"activate", i>> \notin performed
  BY <1>1 DEF Marked
<1>3. ASSUME NEW j \in Ids, NEW k \in Kinds, ReportSuccess(k, j) \/ ReportFailure(k, j)
      PROVE  FALSE
  BY <1>2, <1>3 DEF ReportSuccess, ReportFailure
<1>4. PICK j \in Ids : ActivityStep(j)
  BY <1>2, <1>3, Steps, RowFrame, StartFrame, ReadFrame DEF Expire, wfVars, vars
<1>5. ASSUME NEW k, NEW c, Attempt(k, j, c)
      PROVE  k = "activate" /\ j = i /\ c \in {"MarkActive", "MarkFailed"}
  BY <1>1, <1>2, <1>5 DEF Attempt, Marked
<1>6. \/ UpdateZoneStatus(i, "MarkActive", "active")
      \/ UpdateZoneStatus(i, "MarkFailed", "failed")
  BY <1>4, <1>5
     DEF ActivityStep, CreateZone, WaitForNS, ApplyWildcardCert, WaitForCertReady,
         ApplyCertLoader, UpdateZoneStatus, DeleteCertLoader, DeleteCertificate, DeleteZone
<1> QED BY <1>6 DEF UpdateZoneStatus

(* Without faults, an activation that has not written its outcome goes on, *)
(* and a request that is to start one starts it.                           *)
LEMMA StaysAttended ==
  ASSUME ZInv, [Next]_vars, ~FaultsHappen, NEW i \in Ids,
         status[i] = "provisioning", Attended(i), ~Marked(i)
  PROVE  Attended(i)'
<1> USE DEF ZInv, TypeOK
<1> DEFINE c == wf["activate"][i]
<1>0. "activate" \in Kinds /\ c \in DOMAIN Effect /\ Live(i)
  BY DEF Kinds, Tracked, WfOK, Live, Statuses
<1>1. CASE Running("activate", i)
  <2>1. CASE wf'["activate"][i] = c
    BY <1>1, <2>1 DEF Running, Attended
  <2>2. CASE ReportSuccess("activate", i) /\ wf'["activate"][i] = OnSuccess("activate", c)
    <3>1. c \in Activities \cap DOMAIN Effect /\ c \notin {"MarkActive", "MarkFailed"}
      BY <1>0, <1>1, <2>2 DEF ReportSuccess, Marked, Running
    <3>2. OnSuccess("activate", c) \in Activities
      BY <3>1 DEF OnSuccess, NextActivity, Activities, Effect
    <3> QED BY <2>2, <3>2 DEF Running, Attended
  <2>3. CASE ReportFailure("activate", i) /\ wf'["activate"][i] = OnFailure("activate", c)
    <3>1. c \notin {"MarkActive", "MarkFailed"}
      BY <1>0, <2>3 DEF ReportFailure, CanPerform, Waits
    <3>2. OnFailure("activate", c) \in Activities
      BY <3>1 DEF OnFailure, Activities
    <3> QED BY <2>3, <3>2 DEF Running, Attended
  <2> QED BY <1>0, <1>1, <2>1, <2>2, <2>3, WfMoves
<1>2. CASE \E q \in Requests : req[q].pc = "start" /\ req[q].id = i
  <2>1. PICK q \in Requests : req[q].pc = "start" /\ req[q].id = i
    BY <1>2
  <2>2. CASE req'[q] = req[q]
    BY <2>1, <2>2 DEF Attended
  <2>3. CASE RowStep(q) \/ ReadStep(q)
    BY <2>1, <2>3
       DEF RowStep, CreateReclaim, DeleteRow, CreateInsert, MarkVerified, MarkProvisioning,
           ReadStep, CreateFind, CreateRefused, VerifyRead, DeleteRead, LookupTXT, LookupNS,
           RetryFailed, CallFails, RequestAborts
  <2>4. CASE StartStep(q)
    <3>1. ExecuteWorkflow("activate", i)
      BY <2>1, <2>4 DEF StartStep, StartPreCreate, StartActivation, StartDeactivation
    <3>2. wf'["activate"][i] \in Activities
      BY <1>0, <3>1 DEF ExecuteWorkflow, Running, First, Activities
    <3> QED BY <3>2 DEF Running, Attended
  <2> QED BY <2>2, <2>3, <2>4, ReqMoves
<1> QED BY <1>1, <1>2 DEF Attended

LEMMA NextAttendedInv ==
  ASSUME ZInv, AttendedInv, [Next]_vars, NoneIsJoined, ~FaultsHappen
  PROVE  AttendedInv'
<1> SUFFICES ASSUME NEW i \in Ids, status'[i] = "provisioning"
             PROVE  Attended(i)' /\ ~Marked(i)'
  BY DEF AttendedInv
<1>1. CASE status[i] = "provisioning"
  BY <1>1, StaysAttended, TurnsMarked DEF AttendedInv
<1>2. CASE status[i] # "provisioning"
  <2>1. PICK q \in Requests : /\ MarkProvisioning(q) /\ req[q].id = i
                              /\ req'[q].pc = "start" /\ req'[q].id = i
    BY <1>2, TurnsProvisioning
  <2>2. ~Marked(i)
    BY <2>1 DEF NoneIsJoined, Marked, Running, Activities
  <2> QED BY <2>1, <2>2, TurnsMarked DEF Attended
<1> QED BY <1>1, <1>2

(* When no request marks a zone as provisioning while its activation runs, *)
(* and nothing fails, a zone that is being provisioned is attended to: the *)
(* request that joins a running activation is all that leaves one behind,  *)
(* however many verify and delete zones at once.                           *)
THEOREM AttendedUnlessJoined ==
  ASSUME ~FaultsHappen
  PROVE  Spec /\ [][NoneIsJoined]_vars => []ProvisioningIsAttended
<1>1. Init => AttendedInv
  BY DEF Init, AttendedInv
<1>2. ZInv /\ AttendedInv /\ [Next]_vars /\ [NoneIsJoined]_vars => AttendedInv'
  <2>1. ZInv /\ AttendedInv /\ UNCHANGED vars => AttendedInv'
    BY DEF vars, rowVars, wfVars, AttendedInv, Attended, Marked, Running
  <2> QED BY <2>1, NextAttendedInv
<1>3. AttendedInv => ProvisioningIsAttended
  BY DEF AttendedInv, Attended, ProvisioningIsAttended
<1> QED BY <1>1, <1>2, <1>3, Invariant, PTL DEF Spec

-----------------------------------------------------------------------------
(* What a deactivation undoes that outlives its row.                       *)

(* The row itself was deactivated, or another name shares its label.       *)
Undone(i) ==
  \/ i \in deactivated
  \/ \E j \in Ids : status[j] # "absent" /\ CertName(j) = CertName(i) /\ zone[j] # zone[i]

(* A deactivation of row j runs, or a request is about to start one.       *)
Closing(j) ==
  \/ Running("deactivate", j)
  \/ \E q \in Requests : req[q].pc = "deactivate" /\ req[q].id = j

(* No name is handed over again while a deactivation of it is under way.   *)
CreatedAfterwards ==
  \A q \in Requests, i \in Ids : CreateInsert(q, i) =>
    \A j \in Ids : status[j] # "absent" /\ zone[j] = req[q].name => ~Closing(j)

OneLive ==
  \A i, j \in Ids : Live(i) /\ Live(j) /\ zone[i] = zone[j] => i = j

NoneCloses ==
  \A i, j \in Ids :
    Live(i) /\ status[j] # "absent" /\ zone[j] = zone[i] /\ j # i => ~Closing(j)

Holds(i, done) ==
  ~Undone(i) =>
    /\ "CreateZone" \in done => zone[i] \in provider
    /\ "ApplyWildcardCert" \in done => certs[CertName(i)] = zone[i]
    /\ "ApplyCertLoader" \in done => CertName(i) \in loaders

HoldsInv ==
  \A i \in Ids : Live(i) => Holds(i, Behind(i)) /\ (status[i] = "active" => Holds(i, Activated))

CInv == ZInv /\ OneLive /\ NoneCloses /\ HoldsInv

(* A row is live from its INSERT on, and never again.                      *)
LEMMA TurnsLive ==
  ASSUME ZInv, [Next]_vars, NEW i \in Ids, Live(i)', ~Live(i)
  PROVE  \E q \in Requests : CreateInsert(q, i)
<1> USE DEF ZInv, TypeOK
<1>1. ASSUME NEW q \in Requests, RowStep(q) PROVE CreateInsert(q, i)
  <2>1. CASE CreateReclaim(q) \/ DeleteRow(q) \/ MarkVerified(q) \/ MarkProvisioning(q)
    BY <2>1 DEF CreateReclaim, DeleteRow, RemoveRow, MarkVerified, MarkProvisioning, Live, Statuses
  <2>2. ASSUME NEW j \in Ids, CreateInsert(q, j) PROVE CreateInsert(q, i)
    BY <2>2 DEF CreateInsert, Live
  <2> QED BY <1>1, <2>1, <2>2 DEF RowStep
<1>2. ASSUME NEW j \in Ids, Expire(j) \/ ActivityStep(j) PROVE FALSE
  <2>1. ASSUME NEW c \in {"MarkActive", "MarkFailed"}, NEW s, UpdateZoneStatus(j, c, s) PROVE FALSE
    BY <2>1 DEF UpdateZoneStatus, Attempt, CanPerform, Live
  <2> QED BY <1>2, <2>1, ActivityFrame DEF Expire, Live
<1>3. ~UNCHANGED rowVars
  BY DEF rowVars, Live
<1> QED BY <1>1, <1>2, <1>3, RowMoves

LEMMA InsertIs ==
  ASSUME ZInv, NEW q \in Requests, NEW i \in Ids, CreateInsert(q, i)
  PROVE  /\ zone'[i] = req[q].name /\ status[i] = "absent" /\ status'[i] = "pending_verification"
         /\ \A j \in Ids \ {i} : status'[j] = status[j] /\ zone'[j] = zone[j]
         /\ \A j \in Ids : Live(j) => zone[j] # req[q].name
         /\ wf' = wf /\ performed' = performed
         /\ req' = [req EXCEPT ![q] = Idle]
  BY DEF CreateInsert, NameTaken, Done, wfVars, ZInv, TypeOK

(* A row that was never inserted is inserted live.                         *)
LEMMA AbsentTurns ==
  ASSUME ZInv, [Next]_vars, NEW i \in Ids, status[i] = "absent", status'[i] # "absent"
  PROVE  Live(i)'
<1> USE DEF ZInv, TypeOK
<1>1. ASSUME NEW q \in Requests, RowStep(q) PROVE Live(i)'
  <2>1. CASE CreateReclaim(q) \/ DeleteRow(q) \/ MarkVerified(q) \/ MarkProvisioning(q)
    BY <2>1 DEF CreateReclaim, DeleteRow, RemoveRow, MarkVerified, MarkProvisioning, Live, Statuses
  <2>2. ASSUME NEW j \in Ids, CreateInsert(q, j) PROVE Live(i)'
    BY <2>2 DEF CreateInsert, Live, Statuses
  <2> QED BY <1>1, <2>1, <2>2 DEF RowStep
<1>2. ASSUME NEW j \in Ids, Expire(j) \/ ActivityStep(j) PROVE Live(i)'
  BY <1>2, ActivityFrame DEF Expire, UpdateZoneStatus, Live, Statuses
<1>3. ~UNCHANGED rowVars
  BY DEF rowVars
<1> QED BY <1>1, <1>2, <1>3, RowMoves

LEMMA NextOneLive == ASSUME ZInv, OneLive, [Next]_vars PROVE OneLive'
<1>0. Grows
  BY NextGrows DEF ZInv
<1>1. ASSUME NEW i \in Ids, NEW j \in Ids, Live(i)', Live(j)', zone'[i] = zone'[j], i # j, ~Live(i)
      PROVE  FALSE
  <2>1. PICK q \in Requests : CreateInsert(q, i)
    BY <1>1, TurnsLive
  <2>2. Live(j)
    BY <1>1, <2>1, InsertIs DEF Live
  <2> QED BY <1>1, <2>1, <2>2, InsertIs
<1>2. ASSUME NEW i \in Ids, NEW j \in Ids, Live(i)', Live(j)', zone'[i] = zone'[j],
             Live(i), Live(j)
      PROVE  i = j
  BY <1>0, <1>2 DEF OneLive, Grows, Live, Statuses
<1> QED BY <1>1, <1>2 DEF OneLive

(* A deactivation is asked for while the row is live.                      *)
LEMMA StaysUnclosed ==
  ASSUME ZInv, [Next]_vars, NEW j \in Ids, ~Live(j), ~Closing(j)
  PROVE  ~Closing(j)'
<1> USE DEF ZInv, TypeOK
<1>1. ~Running("deactivate", j)'
  <2>0. "deactivate" \in Kinds /\ ~Running("deactivate", j)
    BY DEF Kinds, Closing
  <2>1. ASSUME wf'["deactivate"][j] # wf["deactivate"][j] PROVE FALSE
    <3>1. \A q \in Requests : req[q].id = j => ~StartDeactivation(q)
      BY DEF StartDeactivation, Closing
    <3>2. ~ReportSuccess("deactivate", j) /\ ~ReportFailure("deactivate", j)
      BY <2>0 DEF ReportSuccess, ReportFailure
    <3> QED BY <2>0, <2>1, <3>1, <3>2, WfMoves
  <2> QED BY <2>0, <2>1 DEF Running
<1>2. ASSUME NEW q \in Requests, req'[q].pc = "deactivate", req'[q].id = j PROVE FALSE
  <2>0. req[q].pc # "deactivate" \/ req[q].id # j
    BY DEF Closing
  <2>1. req'[q] # req[q]
    BY <1>2, <2>0
  <2>2. ASSUME NEW r \in ReqType, req' = [req EXCEPT ![q] = r],
               r.pc # "deactivate" \/ r.id # j
        PROVE  FALSE
    BY <1>2, <2>2
  <2>3. ASSUME NEW pc \in Pcs \ {"deactivate"}, Goto(q, pc) PROVE FALSE
    <3>1. [req[q] EXCEPT !.pc = pc] \in ReqType /\ [req[q] EXCEPT !.pc = pc].pc = pc
      BY DEF ReqType
    <3> QED BY <2>2, <2>3, <3>1 DEF Goto
  <2>4. ASSUME Done(q) PROVE FALSE
    BY <1>2, <2>4 DEF Done, Idle
  <2>5. {"insert", "verified", "precreate", "provision", "start", "delete"} \subseteq Pcs \ {"deactivate"}
    BY DEF Pcs
  <2>6. ASSUME NEW u \in Users, NEW n \in Names, CreateFind(q, u, n) PROVE FALSE
    BY <1>2, <2>6 DEF CreateFind, Idle
  <2>7. ASSUME NEW u \in Users, NEW i \in Ids, VerifyRead(q, u, i) PROVE FALSE
    BY <1>2, <2>7 DEF VerifyRead, Idle
  <2>8. ASSUME NEW u \in Users, NEW i \in Ids, DeleteRead(q, u, i) PROVE FALSE
    <3>1. i = j
      BY <1>2, <2>8 DEF DeleteRead, Idle
    <3> QED BY <2>8, <3>1 DEF DeleteRead
  <2>9. ASSUME CallFails(q) PROVE FALSE
    BY <2>3, <2>5, <2>9 DEF CallFails, GoesOn
  <2>10. CASE RowStep(q)
    BY <2>3, <2>4, <2>5, <2>10
       DEF RowStep, CreateReclaim, DeleteRow, CreateInsert, MarkVerified, MarkProvisioning
  <2>11. CASE StartStep(q)
    BY <2>3, <2>4, <2>5, <2>11
       DEF StartStep, StartPreCreate, StartActivation, StartDeactivation
  <2>12. CASE ReadStep(q)
    BY <2>3, <2>4, <2>5, <2>6, <2>7, <2>8, <2>9, <2>12
       DEF ReadStep, CreateRefused, LookupTXT, LookupNS, RetryFailed, RequestAborts
  <2> QED BY <2>1, <2>10, <2>11, <2>12, ReqMoves
<1> QED BY <1>1, <1>2 DEF Closing, Running

LEMMA NextNoneCloses ==
  ASSUME CInv, [Next]_vars, CreatedAfterwards
  PROVE  NoneCloses'
<1> SUFFICES ASSUME NEW i \in Ids, NEW j \in Ids, Live(i)', status'[j] # "absent",
                    zone'[j] = zone'[i], j # i
             PROVE  ~Closing(j)'
  BY DEF NoneCloses
<1> USE DEF CInv
<1>0. Grows
  BY NextGrows DEF ZInv
<1>1. CASE ~Live(i)
  <2>1. PICK q \in Requests : CreateInsert(q, i)
    BY <1>1, TurnsLive
  <2>2. status[j] # "absent" /\ zone[j] = req[q].name /\ ~Live(j)
    BY <2>1, InsertIs
  <2>3. ~Closing(j)
    BY <2>1, <2>2 DEF CreatedAfterwards
  <2> QED BY <2>2, <2>3, StaysUnclosed
<1>2. CASE Live(i)
  <2>1. zone'[i] = zone[i]
    BY <1>0, <1>2 DEF Grows, Live, Statuses
  <2>2. CASE status[j] = "absent"
    <3>1. Live(j)'
      BY <2>2, AbsentTurns
    <3>2. PICK q \in Requests : CreateInsert(q, j)
      BY <2>2, <3>1, TurnsLive DEF Live, Statuses
    <3> QED BY <1>2, <2>1, <3>2, InsertIs
  <2>3. CASE status[j] # "absent"
    <3>1. zone[j] = zone[i]
      BY <1>0, <2>1, <2>3 DEF Grows
    <3>2. ~Live(j) /\ ~Closing(j)
      BY <1>2, <2>3, <3>1 DEF OneLive, NoneCloses
    <3> QED BY <3>2, StaysUnclosed
  <2> QED BY <2>2, <2>3
<1> QED BY <1>1, <1>2

LEMMA UndoneStays ==
  ASSUME Grows, NEW i \in Ids, status[i] # "absent", Undone(i)
  PROVE  Undone(i)'
<1>1. CASE i \in deactivated
  BY <1>1 DEF Undone, Grows
<1>2. ASSUME NEW j \in Ids, status[j] # "absent", CertName(j) = CertName(i), zone[j] # zone[i]
      PROVE  Undone(i)'
  <2>1. status'[j] # "absent" /\ zone'[j] = zone[j] /\ zone'[i] = zone[i]
    BY <1>2 DEF Grows
  <2> QED BY <1>2, <2>1 DEF Undone, CertName
<1> QED BY <1>1, <1>2 DEF Undone

(* Nothing deletes what a live row needs but its own deactivation, and that*)
(* of another name.                                                        *)
LEMMA OutsideHeld ==
  ASSUME CInv, [Next]_vars, NEW i \in Ids, Live(i), ~Undone(i)
  PROVE  /\ zone[i] \in provider => zone[i] \in provider'
         /\ certs[CertName(i)] = zone[i] => certs'[CertName(i)] = zone[i]
         /\ CertName(i) \in loaders => CertName(i) \in loaders'
<1> USE DEF CInv, ZInv
<1>0. CertName(i) \in Labels /\ "deactivate" \in Kinds
  BY LabelOK DEF Tracked, RowOK, CertName, Kinds, Live, Statuses
<1>1. ASSUME NEW j \in Ids, status[j] # "absent", CertName(j) = CertName(i)
      PROVE  zone[j] = zone[i]
  BY <1>1 DEF Undone
<1>2. ASSUME NEW j \in Ids, wf["deactivate"][j] \in Activities
      PROVE  status[j] # "absent" /\ j # i /\ Closing(j)
  BY <1>0, <1>2 DEF Tracked, RowOK, WfOK, Undone, Closing, Running, Activities
<1>3. ASSUME NEW j \in Ids, wf["deactivate"][j] \in Activities
      PROVE  zone[j] # zone[i] /\ CertName(j) # CertName(i)
  BY <1>1, <1>2, <1>3 DEF NoneCloses
<1>4. ASSUME NEW j \in Ids, DeleteCertLoader(j) \/ DeleteCertificate(j) \/ DeleteZone(j)
      PROVE  zone[j] # zone[i] /\ CertName(j) # CertName(i)
  BY <1>3, <1>4 DEF DeleteCertLoader, DeleteCertificate, DeleteZone, Attempt, Activities
<1>5. ASSUME NEW j \in Ids, ActivityStep(j)
      PROVE  /\ zone[i] \in provider => zone[i] \in provider'
             /\ certs[CertName(i)] = zone[i] => certs'[CertName(i)] = zone[i]
             /\ CertName(i) \in loaders => CertName(i) \in loaders'
  <2>1. CASE CreateZone("precreate", j) \/ CreateZone("activate", j)
    BY <2>1 DEF CreateZone
  <2>2. CASE UNCHANGED outsideVars
    BY <2>2 DEF outsideVars
  <2>3. CASE ApplyWildcardCert(j)
    <3>1. status[j] # "absent"
      BY <2>3 DEF ApplyWildcardCert, Attempt, Tracked, RowOK, Kinds
    <3> QED BY <1>0, <1>1, <2>3, <3>1 DEF ApplyWildcardCert, TypeOK
  <2>4. CASE ApplyCertLoader(j)
    BY <2>4 DEF ApplyCertLoader
  <2>5. CASE DeleteCertLoader(j)
    BY <1>4, <2>5 DEF DeleteCertLoader
  <2>6. CASE DeleteCertificate(j)
    BY <1>0, <1>4, <2>6 DEF DeleteCertificate, TypeOK
  <2>7. CASE DeleteZone(j)
    BY <1>4, <2>7 DEF DeleteZone
  <2> QED BY <1>5, <2>1, <2>2, <2>3, <2>4, <2>5, <2>6, <2>7
          DEF ActivityStep, WaitForNS, WaitForCertReady, UpdateZoneStatus
<1>6. CASE UNCHANGED outsideVars
  BY <1>6 DEF outsideVars
<1> QED BY <1>5, <1>6, OutsideMoves

LEMMA HoldsStays ==
  ASSUME CInv, [Next]_vars, NEW i \in Ids, Live(i), NEW CONSTANT done, Holds(i, done)
  PROVE  Holds(i, done)'
<1>1. Grows
  BY NextGrows DEF CInv, ZInv
<1>2. status[i] # "absent" /\ zone'[i] = zone[i]
  BY <1>1 DEF Grows, Live, Statuses
<1>3. ~Undone(i)' => ~Undone(i)
  BY <1>1, <1>2, UndoneStays
<1> QED BY <1>2, <1>3, OutsideHeld DEF Holds, CertName

LEMMA NextHoldsInv == ASSUME CInv, [Next]_vars PROVE HoldsInv'
<1> SUFFICES ASSUME NEW i \in Ids, Live(i)'
             PROVE  Holds(i, Behind(i))' /\ (status'[i] = "active" => Holds(i, Activated)')
  BY DEF HoldsInv
<1> USE DEF CInv, ZInv
<1>1. CASE ~Live(i)
  <2>1. PICK q \in Requests : CreateInsert(q, i)
    BY <1>1, TurnsLive
  <2>2. /\ status'[i] = "pending_verification" /\ status[i] = "absent"
        /\ wf' = wf /\ performed' = performed
    BY <2>1, InsertIs
  <2>3. wf["activate"][i] = "none" /\ <<"activate", i>> \notin performed
    BY <2>2 DEF Tracked, RowOK, WfOK, Kinds
  <2>4. Behind(i)' = {}
    BY <2>2, <2>3 DEF Behind, Effect
  <2> QED BY <2>2, <2>4 DEF Holds
<1>2. CASE Live(i)
  <2>0. /\ status[i] # "absent" /\ zone[i] \in Names
        /\ Holds(i, Behind(i)) /\ (status[i] = "active" => Holds(i, Activated))
    BY <1>2 DEF HoldsInv, Tracked, RowOK, Live, Statuses
  <2>1. ASSUME NEW CONSTANT d, Holds(i, d) PROVE Holds(i, d)'
    BY <1>2, <2>1, HoldsStays
  <2>2. PICK b : b = Behind(i)
    OBVIOUS
  <2>3. Holds(i, b)'
    BY <2>0, <2>1, <2>2
  <2>4. Holds(i, Behind(i))'
    <3>1. PICK e : e = Behind(i)'
      OBVIOUS
    <3>2. CASE e \subseteq b
      <4>1. Holds(i, b)' => Holds(i, e)'
        BY <3>2 DEF Holds
      <4> QED BY <2>3, <3>1, <4>1 DEF Holds
    <3>3. CASE ~(e \subseteq b)
      <4>1. PICK c \in Activities :
              /\ c = wf["activate"][i] /\ ActivityStep(i)
              /\ <<"activate", i>> \notin performed /\ <<"activate", i>> \in performed'
              /\ e = b \cup {c}
        BY <2>2, <3>1, <3>3, BehindMoves
      <4>2. Holds(i, {c})'
        BY <2>0, <4>1, JustDone DEF Holds, There
      <4> QED BY <2>3, <3>1, <4>1, <4>2 DEF Holds
    <3> QED BY <3>2, <3>3
  <2>5. ASSUME status'[i] = "active" PROVE Holds(i, Activated)'
    <3>1. CASE status[i] = "active"
      BY <2>0, <2>1, <3>1 DEF Activated, Effect
    <3>2. CASE status[i] # "active"
      <4>1. wf["activate"][i] = "MarkActive"
        BY <2>5, <3>2, ActiveMoves
      <4>2. Activated \subseteq b
        BY <2>2, <4>1 DEF Behind, Activated
      <4> QED BY <2>3, <4>2 DEF Holds, Activated, Effect
    <3> QED BY <3>1, <3>2
  <2> QED BY <2>4, <2>5
<1> QED BY <1>1, <1>2

(* What ServedUnlessDisturbed leaves out of an active zone: it lacks its   *)
(* zone, its certificate or its loader only when it was itself deactivated,*)
(* when another name has its label, or when its name was handed over again *)
(* while a deactivation of it was under way.  One that has ended, with all *)
(* its retries, undoes nothing of a row that comes after it.               *)
ServedUnlessUndone ==
  \A i \in Ids : status[i] = "active" /\ ~Undone(i) => Served(i)

THEOREM CreatedAfterwardsIsServed ==
  Spec /\ [][CreatedAfterwards]_vars => []ServedUnlessUndone
<1>1. Init => CInv
  <2>1. ASSUME Init PROVE \A i \in Ids : ~Live(i) /\ status[i] = "absent"
    BY <2>1 DEF Init, Live, Statuses
  <2> QED BY <2>1, InitZInv DEF CInv, OneLive, NoneCloses, HoldsInv
<1>2. CInv /\ [Next]_vars /\ [CreatedAfterwards]_vars => CInv'
  <2> SUFFICES ASSUME CInv, [Next]_vars, [CreatedAfterwards]_vars PROVE CInv'
    OBVIOUS
  <2>1. ZInv' /\ OneLive' /\ HoldsInv'
    BY NextZInv, NextOneLive, NextHoldsInv DEF CInv
  <2>2. CASE CreatedAfterwards
    BY <2>1, <2>2, NextNoneCloses DEF CInv
  <2>3. CASE UNCHANGED vars
    BY <2>1, <2>3 DEF CInv, NoneCloses, Live, Closing, Running, vars, rowVars, wfVars
  <2> QED BY <2>2, <2>3
<1>3. CInv => ServedUnlessUndone
  BY DEF CInv, HoldsInv, Holds, Activated, Effect, Served, ServedUnlessUndone, Live, Statuses
<1> QED BY <1>1, <1>2, <1>3, PTL DEF Spec

-----------------------------------------------------------------------------
(* How far a workflow is from its end.                                     *)

ReportsLeft ==
  [CreateZone |-> 7, WaitForNS |-> 6, ApplyWildcardCert |-> 5, WaitForCertReady |-> 4,
   ApplyCertLoader |-> 3, MarkActive |-> 2, MarkFailed |-> 1,
   DeleteCertLoader |-> 3, DeleteCertificate |-> 2, DeleteZone |-> 1, none |-> 0]

(* A workflow that runs is moved by its reports alone, each of which brings*)
(* it nearer to its end, whether it succeeded or failed: VerifyHostedZone  *)
(* and DeleteHostedZone may execute it again and join it where it is, also *)
(* when it has nothing left to do but to close.                            *)
WorkflowsDescend ==
  [][\A k \in Kinds, i \in Ids : Running(k, i) =>
       \/ wf'[k][i] = wf[k][i]
       \/ /\ ReportSuccess(k, i) \/ ReportFailure(k, i)
          /\ ReportsLeft[wf'[k][i]] < ReportsLeft[wf[k][i]]]_vars

LEMMA ReportDescends ==
  ASSUME NEW k \in Kinds, NEW c \in Activities,
         k = "activate" => c \in DOMAIN Effect
  PROVE  /\ ReportsLeft[OnSuccess(k, c)] < ReportsLeft[c]
         /\ ReportsLeft[OnFailure(k, c)] < ReportsLeft[c]
  BY DEF Kinds, Activities, ReportsLeft, OnSuccess, OnFailure, NextActivity, Effect

THEOREM ZoneWorkflowsDescend == Spec => WorkflowsDescend
<1>1. ASSUME ZInv, [Next]_vars, NEW k \in Kinds, NEW i \in Ids, Running(k, i),
             wf'[k][i] # wf[k][i]
      PROVE  /\ ReportSuccess(k, i) \/ ReportFailure(k, i)
             /\ ReportsLeft[wf'[k][i]] < ReportsLeft[wf[k][i]]
  <2>1. \/ ReportSuccess(k, i) /\ wf'[k][i] = OnSuccess(k, wf[k][i])
        \/ ReportFailure(k, i) /\ wf'[k][i] = OnFailure(k, wf[k][i])
    BY <1>1, WfMoves DEF ZInv
  <2>2. wf[k][i] \in Activities /\ (k = "activate" => wf[k][i] \in DOMAIN Effect)
    BY <1>1 DEF Running, ZInv, Tracked, WfOK
  <2> QED BY <2>1, <2>2, ReportDescends
<1>2. ZInv /\ [Next]_vars =>
        [\A k \in Kinds, i \in Ids : Running(k, i) =>
           \/ wf'[k][i] = wf[k][i]
           \/ /\ ReportSuccess(k, i) \/ ReportFailure(k, i)
              /\ ReportsLeft[wf'[k][i]] < ReportsLeft[wf[k][i]]]_vars
  BY <1>1
<1> QED BY <1>2, Invariant, PTL DEF Spec, WorkflowsDescend

=============================================================================
