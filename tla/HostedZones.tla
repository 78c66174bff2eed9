----------------------------- MODULE HostedZones -----------------------------
(* Hosted zones: the DNS names users hand over to the platform.             *)
(*                                                                          *)
(* A zone is a row of hosted_zones, written by the requests of              *)
(* internal/dns/service.go (create, verify, delete) and by three workflows  *)
(* of internal/dns/workflows.go, which also write the zones at the DNS      *)
(* provider and the certificates in the cluster.  No statement looks at the *)
(* status it overwrites, and every request acts on a row it read earlier.   *)
(* One action is one statement, one lookup, one start of a workflow, one    *)
(* effect of an activity, or one report to its workflow.                    *)
EXTENDS Naturals, FiniteSets

CONSTANTS
  Ids,            \* row ids (a bound: a row that is gone is never reused)
  Names,          \* zone names that ValidateHostedZone accepts
  Nested,         \* pairs <<parent, child>> of names
  Labels, Label,  \* sanitizeDNSLabel: what certificates and loaders are named by
  Users,
  Requests,       \* requests in progress at a time (a bound)
  MaxRunning,     \* workflows running at a time (a bound)
  FaultsHappen,   \* calls may fail, reports be lost and requests die
  NoId, NoName, NoUser

ASSUME NestedOK == Nested \subseteq Names \X Names
ASSUME LabelOK == Label \in [Names -> Labels]
ASSUME BoundOK == MaxRunning \in Nat
ASSUME NoneIsNothing == NoId \notin Ids /\ NoName \notin Names /\ NoUser \notin Users

VARIABLES
  status,      \* hosted_zones.status, "absent" before the row, "deleted" after
  user, zone,  \* hosted_zones.user_id and .zone
  verifiedAt,  \* hosted_zones.verified_at is set
  expired,     \* hosted_zones.expires_at has passed
  req,         \* what a request in progress has read, and its next step
  wf,          \* the activity a workflow awaits, "none" when it is not running
  performed,   \* workflows whose awaited activity has had its effect
  provider,    \* names with a zone at the DNS provider
  certs,       \* the zone name each certificate is for
  loaders,     \* labels with a certificate loader
  txtSeen,     \* rows whose token a lookup has found (history)
  nsSeen,      \* rows whose activation has found the delegation (history)
  certSeen,    \* rows whose activation has found its certificate ready (history)
  asked,       \* who asked for the deletion of which row (history)
  deactivated  \* rows whose deactivation was started (history)

rowVars     == <<status, user, zone, verifiedAt, expired>>
wfVars      == <<wf, performed>>
outsideVars == <<provider, certs, loaders>>
historyVars == <<txtSeen, nsSeen, certSeen, asked, deactivated>>
vars        == <<rowVars, req, wfVars, outsideVars, historyVars>>

Statuses == {"pending_verification", "pending_delegation", "provisioning",
             "active", "failed"}

Pcs == {"idle", "reclaim", "insert", "lookup", "verified", "precreate",
        "provision", "start", "deactivate", "delete"}

Kinds == {"precreate", "activate", "deactivate"}

Activities == {"CreateZone", "WaitForNS", "ApplyWildcardCert", "WaitForCertReady",
               "ApplyCertLoader", "MarkActive", "MarkFailed",
               "DeleteCertLoader", "DeleteCertificate", "DeleteZone"}

(* The two activities that poll until their timeout.                        *)
Waits == {"WaitForNS", "WaitForCertReady"}

ReqType == [pc : Pcs, user : Users \cup {NoUser}, name : Names \cup {NoName},
            id : Ids \cup {NoId}, status : Statuses \cup {"absent"},
            verified : BOOLEAN]

Idle == [pc |-> "idle", user |-> NoUser, name |-> NoName, id |-> NoId,
         status |-> "absent", verified |-> FALSE]

Init ==
  /\ status = [i \in Ids |-> "absent"]
  /\ user = [i \in Ids |-> NoUser]
  /\ zone = [i \in Ids |-> NoName]
  /\ verifiedAt = [i \in Ids |-> FALSE]
  /\ expired = [i \in Ids |-> FALSE]
  /\ req = [q \in Requests |-> Idle]
  /\ wf = [k \in Kinds |-> [i \in Ids |-> "none"]]
  /\ performed = {}
  /\ provider = {} /\ certs = [l \in Labels |-> NoName] /\ loaders = {}
  /\ txtSeen = {} /\ nsSeen = {} /\ certSeen = {}
  /\ asked = {} /\ deactivated = {}

Live(i) == status[i] \in Statuses

Goto(q, pc) == req' = [req EXCEPT ![q].pc = pc]

Done(q) == req' = [req EXCEPT ![q] = Idle]

-----------------------------------------------------------------------------
(* CreateHostedZone.                                                        *)

Overlap(m, n) == m = n \/ <<m, n>> \in Nested \/ <<n, m>> \in Nested

(* The query leaves failed rows out and returns one of the others.          *)
FindOverlapping(n) ==
  {i \in Ids : Live(i) /\ status[i] # "failed" /\ Overlap(zone[i], n)}

CanReclaim(i) ==
  \/ status[i] = "failed"
  \/ status[i] \in {"pending_verification", "pending_delegation"} /\ expired[i]

(* An overlapping row that cannot be reclaimed ends the request, which has  *)
(* then written nothing.  A query that fails is taken for an empty answer.  *)
CreateFind(q, u, n) ==
  /\ req[q].pc = "idle"
  /\ \/ \E i \in FindOverlapping(n) :
          /\ CanReclaim(i)
          /\ req' = [req EXCEPT ![q] = [Idle EXCEPT !.pc = "reclaim", !.user = u,
                                                    !.name = n, !.id = i]]
     \/ /\ FindOverlapping(n) = {} \/ FaultsHappen
        /\ req' = [req EXCEPT ![q] = [Idle EXCEPT !.pc = "insert", !.user = u,
                                                  !.name = n]]
  /\ UNCHANGED <<rowVars, wfVars, outsideVars, historyVars>>

(* Mutated form: the row is kept under a status of its own.                 *)
RemoveRowSoftly(i) ==
  status' = [status EXCEPT ![i] = IF Live(i) THEN "archived" ELSE @]

RemoveRow(i) ==
  status' = [status EXCEPT ![i] = IF Live(i) THEN "deleted" ELSE @]

(* The DELETE names the row the query found, whatever it has become since.  *)
CreateReclaim(q) ==
  /\ req[q].pc = "reclaim"
  /\ RemoveRow(req[q].id)
  /\ Goto(q, "insert")
  /\ UNCHANGED <<user, zone, verifiedAt, expired, wfVars, outsideVars, historyVars>>

NameTaken(n) == \E i \in Ids : Live(i) /\ zone[i] = n

CreateInsert(q, i) ==
  /\ req[q].pc = "insert"
  /\ ~NameTaken(req[q].name)
  /\ status[i] = "absent"
  /\ status' = [status EXCEPT ![i] = "pending_verification"]
  /\ user' = [user EXCEPT ![i] = req[q].user]
  /\ zone' = [zone EXCEPT ![i] = req[q].name]
  /\ Done(q)
  /\ UNCHANGED <<verifiedAt, expired, wfVars, outsideVars, historyVars>>

CreateRefused(q) ==
  /\ req[q].pc = "insert"
  /\ NameTaken(req[q].name)
  /\ Done(q)
  /\ UNCHANGED <<rowVars, wfVars, outsideVars, historyVars>>

-----------------------------------------------------------------------------
(* The workflows.                                                           *)

(* Certificate, secret and loader of a zone have one name.                  *)
CertName(i) == Label[zone[i]]

Running(k, i) == wf[k][i] \in Activities

First(k) == IF k = "deactivate" THEN "DeleteCertLoader" ELSE "CreateZone"

(* ExecuteWorkflow with an id of its own per row: a running workflow is     *)
(* joined, a closed one starts again.                                       *)
ExecuteWorkflow(k, i) ==
  /\ Running(k, i) \/ Cardinality({w \in Kinds \X Ids : wf[w[1]][w[2]] # "none"}) < MaxRunning
  /\ wf' = [wf EXCEPT ![k][i] = IF Running(k, i) THEN @ ELSE First(k)]
  /\ UNCHANGED performed

NextActivity ==
  [CreateZone |-> "WaitForNS", WaitForNS |-> "ApplyWildcardCert",
   ApplyWildcardCert |-> "WaitForCertReady", WaitForCertReady |-> "ApplyCertLoader",
   ApplyCertLoader |-> "MarkActive", MarkActive |-> "none", MarkFailed |-> "none",
   DeleteCertLoader |-> "DeleteCertificate", DeleteCertificate |-> "DeleteZone",
   DeleteZone |-> "none"]

OnSuccess(k, c) == IF k = "precreate" THEN "none" ELSE NextActivity[c]

(* Mutated form: ActivateZoneWorkflow goes on after a failure too.          *)
OnFailureLogged(k, c) == OnSuccess(k, c)

(* DeactivateZoneWorkflow ignores what the first two calls return.          *)
OnFailure(k, c) ==
  IF k = "activate" /\ c \notin {"MarkActive", "MarkFailed"} THEN "MarkFailed"
  ELSE IF c \in {"DeleteCertLoader", "DeleteCertificate"} THEN NextActivity[c]
  ELSE "none"

(* What an activity needs to succeed: an UPDATE ... RETURNING its row, the  *)
(* poll its certificate, the provider's DELETE its zone.                    *)
CanPerform(k, i) ==
  CASE wf[k][i] \in {"MarkActive", "MarkFailed"} -> Live(i)
    [] wf[k][i] = "WaitForCertReady"             -> certs[CertName(i)] # NoName
    [] wf[k][i] = "DeleteZone"                   -> zone[i] \in provider
    [] OTHER                                     -> TRUE

(* One effect of the awaited activity; one more when its report was lost.   *)
Attempt(k, i, c) ==
  /\ wf[k][i] = c
  /\ CanPerform(k, i)
  /\ <<k, i>> \in performed => FaultsHappen /\ c \notin Waits
  /\ performed' = performed \cup {<<k, i>>}
  /\ UNCHANGED <<user, zone, verifiedAt, expired, req, wf, txtSeen, asked, deactivated>>

(* The provider's answer "409" to an existing zone counts as success.       *)
CreateZone(k, i) ==
  /\ Attempt(k, i, "CreateZone")
  /\ provider' = provider \cup {zone[i]}
  /\ UNCHANGED <<status, certs, loaders, nsSeen, certSeen>>

WaitForNS(i) ==
  /\ Attempt("activate", i, "WaitForNS")
  /\ nsSeen' = nsSeen \cup {i}
  /\ UNCHANGED <<status, outsideVars, certSeen>>

(* The apply replaces the names of a certificate already there.             *)
ApplyWildcardCert(i) ==
  /\ Attempt("activate", i, "ApplyWildcardCert")
  /\ certs' = [certs EXCEPT ![CertName(i)] = zone[i]]
  /\ UNCHANGED <<status, provider, loaders, nsSeen, certSeen>>

WaitForCertReady(i) ==
  /\ Attempt("activate", i, "WaitForCertReady")
  /\ certSeen' = certSeen \cup {i}
  /\ UNCHANGED <<status, outsideVars, nsSeen>>

ApplyCertLoader(i) ==
  /\ Attempt("activate", i, "ApplyCertLoader")
  /\ loaders' = loaders \cup {CertName(i)}
  /\ UNCHANGED <<status, provider, certs, nsSeen, certSeen>>

UpdateZoneStatus(i, call, s) ==
  /\ Attempt("activate", i, call)
  /\ status' = [status EXCEPT ![i] = s]
  /\ UNCHANGED <<outsideVars, nsSeen, certSeen>>

DeleteCertLoader(i) ==
  /\ Attempt("deactivate", i, "DeleteCertLoader")
  /\ loaders' = loaders \ {CertName(i)}
  /\ UNCHANGED <<status, provider, certs, nsSeen, certSeen>>

DeleteCertificate(i) ==
  /\ Attempt("deactivate", i, "DeleteCertificate")
  /\ certs' = [certs EXCEPT ![CertName(i)] = NoName]
  /\ UNCHANGED <<status, provider, loaders, nsSeen, certSeen>>

DeleteZone(i) ==
  /\ Attempt("deactivate", i, "DeleteZone")
  /\ provider' = provider \ {zone[i]}
  /\ UNCHANGED <<status, certs, loaders, nsSeen, certSeen>>

ReportSuccess(k, i) ==
  /\ Running(k, i)
  /\ <<k, i>> \in performed
  /\ wf' = [wf EXCEPT ![k][i] = OnSuccess(k, @)]
  /\ performed' = performed \ {<<k, i>>}
  /\ UNCHANGED <<rowVars, req, outsideVars, historyVars>>

(* A wait may time out, an activity may be impossible; with faults any call *)
(* may use up its attempts, after its effect or before.                     *)
ReportFailure(k, i) ==
  /\ Running(k, i)
  /\ \/ FaultsHappen
     \/ <<k, i>> \notin performed /\ (wf[k][i] \in Waits \/ ~CanPerform(k, i))
  /\ wf' = [wf EXCEPT ![k][i] = OnFailure(k, @)]
  /\ performed' = performed \ {<<k, i>>}
  /\ UNCHANGED <<rowVars, req, outsideVars, historyVars>>

-----------------------------------------------------------------------------
(* VerifyHostedZone.                                                        *)

Owns(u, i) == user[i] = u

(* A zone that is active or being provisioned is reported, nothing more.    *)
VerifyRead(q, u, i) ==
  /\ req[q].pc = "idle"
  /\ Live(i) /\ Owns(u, i)
  /\ status[i] \notin {"active", "provisioning"}
  /\ req' = [req EXCEPT ![q] = [Idle EXCEPT !.pc = "lookup", !.id = i,
                                            !.status = status[i],
                                            !.verified = verifiedAt[i]]]
  /\ UNCHANGED <<rowVars, wfVars, outsideVars, historyVars>>

(* Mutated form: what the lookup found is not looked at.                    *)
LookupTXTUnread(q) ==
  /\ req[q].pc = "lookup" /\ req[q].status = "pending_verification"
  /\ Goto(q, "verified")
  /\ UNCHANGED <<rowVars, wfVars, outsideVars, historyVars>>

(* The token is looked up unless the row was verified before; without it    *)
(* only last_error is written.                                              *)
LookupTXT(q) ==
  /\ req[q].pc = "lookup" /\ req[q].status = "pending_verification"
  /\ \/ req[q].verified /\ Goto(q, "verified") /\ UNCHANGED txtSeen
     \/ /\ ~req[q].verified
        /\ txtSeen' = txtSeen \cup {req[q].id}
        /\ Goto(q, "verified")
     \/ ~req[q].verified /\ Done(q) /\ UNCHANGED txtSeen
  /\ UNCHANGED <<rowVars, wfVars, outsideVars, nsSeen, certSeen, asked, deactivated>>

LookupNS(q) ==
  /\ req[q].pc = "lookup" /\ req[q].status = "pending_delegation"
  /\ Goto(q, "provision") \/ Done(q)
  /\ UNCHANGED <<rowVars, wfVars, outsideVars, historyVars>>

(* A failed zone is activated again without a look at the answers.          *)
RetryFailed(q) ==
  /\ req[q].pc = "lookup" /\ req[q].status = "failed"
  /\ Goto(q, "provision")
  /\ UNCHANGED <<rowVars, wfVars, outsideVars, historyVars>>

(* UpdateHostedZoneTXTVerified; whether it found the row is not looked at.  *)
MarkVerified(q) ==
  LET i == req[q].id IN
  /\ req[q].pc = "verified"
  /\ status' = [status EXCEPT ![i] = IF Live(i) THEN "pending_delegation" ELSE @]
  /\ verifiedAt' = [verifiedAt EXCEPT ![i] = @ \/ Live(i)]
  /\ Goto(q, "precreate")
  /\ UNCHANGED <<user, zone, expired, wfVars, outsideVars, historyVars>>

StartPreCreate(q) ==
  /\ req[q].pc = "precreate"
  /\ ExecuteWorkflow("precreate", req[q].id)
  /\ Done(q)
  /\ UNCHANGED <<rowVars, outsideVars, historyVars>>

(* startActivation: the UPDATE fails when the row is gone.                  *)
MarkProvisioning(q) ==
  LET i == req[q].id IN
  /\ req[q].pc = "provision"
  /\ IF Live(i)
       THEN status' = [status EXCEPT ![i] = "provisioning"] /\ Goto(q, "start")
       ELSE UNCHANGED status /\ Done(q)
  /\ UNCHANGED <<user, zone, verifiedAt, expired, wfVars, outsideVars, historyVars>>

StartActivation(q) ==
  /\ req[q].pc = "start"
  /\ ExecuteWorkflow("activate", req[q].id)
  /\ Done(q)
  /\ UNCHANGED <<rowVars, outsideVars, historyVars>>

-----------------------------------------------------------------------------
(* DeleteHostedZone.                                                        *)

DeleteRead(q, u, i) ==
  /\ req[q].pc = "idle"
  /\ Live(i) /\ Owns(u, i)
  /\ req' = [req EXCEPT ![q] =
               [Idle EXCEPT !.id = i,
                 !.pc = IF status[i] \in {"active", "provisioning", "pending_delegation"}
                          THEN "deactivate" ELSE "delete"]]
  /\ asked' = asked \cup {<<u, i>>}
  /\ UNCHANGED <<rowVars, wfVars, outsideVars, txtSeen, nsSeen, certSeen,
                deactivated>>

StartDeactivation(q) ==
  /\ req[q].pc = "deactivate"
  /\ ExecuteWorkflow("deactivate", req[q].id)
  /\ deactivated' = deactivated \cup {req[q].id}
  /\ Goto(q, "delete")
  /\ UNCHANGED <<rowVars, outsideVars, txtSeen, nsSeen, certSeen, asked>>

DeleteRow(q) ==
  /\ req[q].pc = "delete"
  /\ RemoveRow(req[q].id)
  /\ Done(q)
  /\ UNCHANGED <<user, zone, verifiedAt, expired, wfVars, outsideVars, historyVars>>

-----------------------------------------------------------------------------
(* Faults and time.                                                         *)

(* The calls whose errors are dropped: the request goes on without them.    *)
GoesOn == [reclaim |-> "insert", verified |-> "precreate", deactivate |-> "delete"]

CallFails(q) ==
  /\ FaultsHappen
  /\ req[q].pc \in DOMAIN GoesOn
  /\ Goto(q, GoesOn[req[q].pc])
  /\ UNCHANGED <<rowVars, wfVars, outsideVars, historyVars>>

(* Any other error, no active cluster, or the death of the process.         *)
RequestAborts(q) ==
  /\ FaultsHappen
  /\ req[q].pc # "idle"
  /\ Done(q)
  /\ UNCHANGED <<rowVars, wfVars, outsideVars, historyVars>>

(* expires_at passes; it is set on INSERT, never moved, and looked at for   *)
(* these statuses only.                                                     *)
Expire(i) ==
  /\ status[i] \in {"pending_verification", "pending_delegation"} /\ ~expired[i]
  /\ expired' = [expired EXCEPT ![i] = TRUE]
  /\ UNCHANGED <<status, user, zone, verifiedAt, req, wfVars, outsideVars, historyVars>>

RequestStep(q) ==
  \/ \E u \in Users, n \in Names : CreateFind(q, u, n)
  \/ CreateReclaim(q)
  \/ \E i \in Ids : CreateInsert(q, i)
  \/ CreateRefused(q)
  \/ \E u \in Users, i \in Ids : VerifyRead(q, u, i) \/ DeleteRead(q, u, i)
  \/ LookupTXT(q) \/ LookupNS(q) \/ RetryFailed(q)
  \/ MarkVerified(q) \/ StartPreCreate(q)
  \/ MarkProvisioning(q) \/ StartActivation(q)
  \/ StartDeactivation(q) \/ DeleteRow(q)
  \/ CallFails(q) \/ RequestAborts(q)

ActivityStep(i) ==
  \/ CreateZone("precreate", i) \/ CreateZone("activate", i)
  \/ WaitForNS(i) \/ ApplyWildcardCert(i) \/ WaitForCertReady(i) \/ ApplyCertLoader(i)
  \/ UpdateZoneStatus(i, "MarkActive", "active")
  \/ UpdateZoneStatus(i, "MarkFailed", "failed")
  \/ DeleteCertLoader(i) \/ DeleteCertificate(i) \/ DeleteZone(i)

Next ==
  \/ \E q \in Requests : RequestStep(q)
  \/ \E i \in Ids :
       \/ ActivityStep(i)
       \/ \E k \in Kinds : ReportSuccess(k, i) \/ ReportFailure(k, i)
       \/ Expire(i)

Spec == Init /\ [][Next]_vars

-----------------------------------------------------------------------------
(* Properties.                                                              *)

(* Every variable has its type.                                             *)
TypeOK ==
  /\ status \in [Ids -> Statuses \cup {"absent", "deleted"}]
  /\ user \in [Ids -> Users \cup {NoUser}]
  /\ zone \in [Ids -> Names \cup {NoName}]
  /\ verifiedAt \in [Ids -> BOOLEAN] /\ expired \in [Ids -> BOOLEAN]
  /\ req \in [Requests -> ReqType]
  /\ wf \in [Kinds -> [Ids -> Activities \cup {"none"}]]
  /\ performed \subseteq Kinds \X Ids
  /\ provider \subseteq Names /\ certs \in [Labels -> Names \cup {NoName}]
  /\ loaders \subseteq Labels
  /\ txtSeen \subseteq Ids /\ nsSeen \subseteq Ids /\ certSeen \subseteq Ids
  /\ asked \subseteq Users \X Ids /\ deactivated \subseteq Ids

(* "TXT verification while user still controls DNS prevents unauthorized    *)
(* claiming" (infra/eu-central-1/README.md): a row is past                  *)
(* pending_verification, and a name is at the provider or on a certificate, *)
(* only after a lookup found the token of a row of that name.  Failed zones *)
(* are activated again with no look at the answers, and every write comes   *)
(* from a row read earlier.                                                 *)
RowsAreVerified ==
  \A i \in Ids : Live(i) /\ status[i] # "pending_verification" =>
                  verifiedAt[i] /\ i \in txtSeen

NamesAreVerified ==
  \A n \in provider \cup {certs[l] : l \in Labels} :
    n # NoName => \E i \in txtSeen : zone[i] = n

OwnershipProven == RowsAreVerified /\ NamesAreVerified

(* A row is active only after its own activation found the delegation and a *)
(* ready certificate, however often it was demoted, retried or reported     *)
(* late in between.                                                         *)
ActiveWasEarned ==
  \A i \in Ids : status[i] = "active" => i \in nsSeen \cap certSeen

(* An active zone is at the provider, with its own certificate and loader,  *)
(* unless a row was deactivated that shares its name, or another name its   *)
(* label.                                                                   *)
Disturbed(i) ==
  \E j \in Ids :
    /\ status[j] # "absent"
    /\ CertName(j) = CertName(i)
    /\ j \in deactivated \/ zone[j] # zone[i]

Served(i) ==
  /\ zone[i] \in provider
  /\ certs[CertName(i)] = zone[i]
  /\ CertName(i) \in loaders

ServedUnlessDisturbed ==
  \A i \in Ids : status[i] = "active" /\ ~Disturbed(i) => Served(i)

(* "Unverified zones expire after 7 days" (README.md), verified ones do     *)
(* not: an active zone goes only when its owner asked for it, whatever the  *)
(* requests of others read of it before it was active.                      *)
ActiveIsKept ==
  [][\A i \in Ids : status[i] = "active" /\ ~Live(i)' => <<user[i], i>> \in asked]_vars

(* "Zone is being provisioned; please wait": while a row is provisioning an *)
(* activation runs or a request is about to start one.                      *)
ProvisioningIsAttended ==
  \A i \in Ids : status[i] = "provisioning" =>
    \/ Running("activate", i)
    \/ \E q \in Requests : req[q].pc = "start" /\ req[q].id = i

(* "Wildcard cert per delegated zone" (infra/eu-central-1/README.md): the   *)
(* certificate an active zone is served with, if there is one, is its own.  *)
CertificateIsOwn ==
  \A i \in Ids : status[i] = "active" =>
    certs[CertName(i)] \in {zone[i], NoName}

=============================================================================
