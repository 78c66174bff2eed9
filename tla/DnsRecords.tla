----------------------------- MODULE DnsRecords ------------------------------
(* The DNS records of one active hosted zone, and the domains of services.  *)
(*                                                                          *)
(* A record is a row of dns_records; what the world sees are the record     *)
(* sets at the DNS provider and one ingress route per service.  A managed   *)
(* record (AddCustomDomain, RemoveCustomDomain) is written to both by two   *)
(* workflows of internal/dns/workflows.go, a user's record (AddDnsRecord,   *)
(* DeleteDnsRecord) by the request itself.  Requests check first and write  *)
(* later, a row may go before its workflow has run, and nothing ties the    *)
(* workflows of one row to those of another.                                *)
EXTENDS Integers, FiniteSets

CONSTANTS
  MaxRows,       \* rows that are ever inserted (a bound)
  Names,         \* names in the zone (those that are looked at)
  Apex,          \* the name "@"
  Types,         \* record types; managed records are of type "A"
  Services,      \* services of the zone's owner
  Contents, Ip,  \* contents of records; Ip[s] is that of the cluster of s
  Requests,      \* requests in progress at a time (a bound)
  MaxRunning,    \* workflows running at a time (a bound)
  FaultsHappen,  \* calls may fail, reports be lost and requests die
  NoName, NoContent, NoService

ASSUME TypesOK == {"A", "CNAME"} \subseteq Types /\ "route" \notin Types
ASSUME IpOK == Ip \in [Services -> Contents]
ASSUME BoundOK == MaxRows \in Nat /\ MaxRunning \in Nat
ASSUME NoneIsNothing ==
  NoName \notin Names /\ NoContent \notin Contents /\ NoService \notin Services

Ids == 1..MaxRows   \* in the order of created_at

VARIABLES
  row,         \* dns_records
  zoneRow,     \* the row of the zone is there
  zoneServed,  \* the DNS provider has the zone
  live,        \* services that resolveService finds
  namespaced,  \* services whose namespace is in the cluster
  req,         \* what a request in progress has read, and its next step
  wf,          \* the activity a workflow awaits, "none" when it is not running
  performed,   \* workflows whose awaited activity has had its effect
  rrset,       \* the content of each record set at the DNS provider
  ingress,     \* the name each service's "-dz" route is for
  contested,   \* what two writers met on, or a fault touched (history)
  undone       \* rows that could not be written to their targets (history)

outsideVars == <<rrset, ingress>>
wfVars      == <<wf, performed>>
zoneVars    == <<zoneRow, zoneServed>>
serviceVars == <<live, namespaced>>
historyVars == <<contested, undone>>
vars        == <<row, zoneVars, serviceVars, req, wfVars, outsideVars, historyVars>>

Pcs == {"idle", "insertDomain", "attach", "insertRecord", "upsert",
        "detach", "deleteRrset", "deleteRow"}

Kinds == {"attach", "detach"}

Activities == {"UpsertRecord", "EnsureRedirectMiddleware", "ApplySubdomainIngress",
               "DeleteIngress", "DeleteRecord"}

RowType == [state : {"absent", "live", "removed"}, name : Names \cup {NoName},
            type : Types, content : Contents \cup {NoContent}, managed : BOOLEAN,
            service : Services \cup {NoService}]

ReqType == [pc : Pcs, id : Ids \cup {0}, name : Names \cup {NoName}, type : Types,
            content : Contents \cup {NoContent}, service : Services \cup {NoService}]

Absent == [state |-> "absent", name |-> NoName, type |-> "A", content |-> NoContent,
           managed |-> FALSE, service |-> NoService]

Idle == [pc |-> "idle", id |-> 0, name |-> NoName, type |-> "A",
         content |-> NoContent, service |-> NoService]

Init ==
  /\ row = [i \in Ids |-> Absent]
  /\ zoneRow = TRUE /\ zoneServed = TRUE
  /\ live = Services /\ namespaced = {}
  /\ req = [q \in Requests |-> Idle]
  /\ wf = [k \in Kinds |-> [i \in Ids |-> "none"]]
  /\ performed = {}
  /\ rrset = [n \in Names |-> [t \in Types |-> NoContent]]
  /\ ingress = [s \in Services |-> NoName]
  /\ contested = {} /\ undone = {}

Live(i) == row[i].state = "live"

Goto(q, pc) == req' = [req EXCEPT ![q].pc = pc]

Done(q) == req' = [req EXCEPT ![q] = Idle]

Running(k, i) == wf[k][i] \in Activities

-----------------------------------------------------------------------------
(* Who writes what.  A row is written to a record set and, when managed, to *)
(* the route of its service.  Two writers meet on one of these when one     *)
(* comes while the other is at work, or when a second row is inserted.      *)

Targets(i) ==
  {<<row[i].name, row[i].type>>}
    \cup (IF row[i].managed THEN {<<row[i].service, "route">>} ELSE {})

AtWork(q) == req[q].pc \in {"attach", "upsert", "detach", "deleteRrset", "deleteRow"}

Busy(t) ==
  \/ \E q \in Requests : AtWork(q) /\ t \in Targets(req[q].id)
  \/ \E k \in Kinds, i \in Ids : Running(k, i) /\ t \in Targets(i)

Contest(targets) ==
  /\ contested' = contested \cup targets
  /\ UNCHANGED undone

Meets(targets) == Contest({t \in targets : Busy(t)})

Spoils(i) == Contest(Targets(i))

(* No attempt can make a call for row i succeed.                            *)
GivesUp(i, writing) ==
  /\ undone' = IF writing THEN undone \cup {i} ELSE undone
  /\ UNCHANGED contested

-----------------------------------------------------------------------------
(* The table.                                                               *)

ListDnsRecordsByZoneAndName(n) == {i \in Ids : Live(i) /\ row[i].name = n}

ListDnsRecordsByServiceID(s) == {i \in Ids : Live(i) /\ row[i].service = s}

(* UNIQUE(zone_id, name, rrtype, content), and the zone the row refers to.  *)
Refused(n, t, c) ==
  \/ ~zoneRow
  \/ \E i \in Ids : Live(i) /\ row[i].name = n /\ row[i].type = t /\ row[i].content = c

NextId == {i \in Ids : row[i].state = "absent" /\ \A j \in 1..(i - 1) : row[j].state # "absent"}

CreateDnsRecord(q, i, managed) ==
  row' = [row EXCEPT ![i] =
            [state |-> "live", name |-> req[q].name, type |-> req[q].type,
             content |-> req[q].content, managed |-> managed,
             service |-> req[q].service]]

(* A second row for a target is contested with the first, whatever follows. *)
InsertMeets(targets) ==
  Contest({t \in targets : Busy(t) \/ \E j \in Ids : Live(j) /\ t \in Targets(j)})

InsertFails(q) ==
  /\ req[q].pc \in {"insertDomain", "insertRecord"}
  /\ Refused(req[q].name, req[q].type, req[q].content)
  /\ Done(q)
  /\ UNCHANGED <<row, zoneVars, serviceVars, wfVars, outsideVars, historyVars>>

-----------------------------------------------------------------------------
(* Domains of services.                                                     *)

FreeForDomain(seen) == ~\E i \in seen : row[i].managed /\ row[i].type = "A"

(* The list of what is at a name, empty when the query fails.               *)
Seen(n) == {ListDnsRecordsByZoneAndName(n)} \cup (IF FaultsHappen THEN {{}} ELSE {})

AddCustomDomain(q, s, n) ==
  /\ req[q].pc = "idle"
  /\ s \in live /\ zoneRow
  /\ \E seen \in Seen(n) :
       /\ FreeForDomain(seen)
       /\ req' = [req EXCEPT ![q] =
            [Idle EXCEPT !.pc = "insertDomain", !.name = n, !.content = Ip[s],
                         !.service = s]]
  /\ UNCHANGED <<row, zoneVars, serviceVars, wfVars, outsideVars, historyVars>>

InsertDomain(q, i) ==
  /\ req[q].pc = "insertDomain"
  /\ ~Refused(req[q].name, "A", req[q].content)
  /\ i \in NextId
  /\ CreateDnsRecord(q, i, TRUE)
  /\ req' = [req EXCEPT ![q].pc = "attach", ![q].id = i]
  /\ InsertMeets({<<req[q].name, "A">>, <<req[q].service, "route">>})
  /\ UNCHANGED <<zoneVars, serviceVars, wfVars, outsideVars>>

First == [attach |-> "UpsertRecord", detach |-> "DeleteIngress"]

(* Mutated form: a running workflow is started anew.                        *)
ExecuteWorkflowAnew(k, i) ==
  /\ Running(k, i) \/ Cardinality({w \in Kinds \X Ids : Running(w[1], w[2])}) < MaxRunning
  /\ wf' = [wf EXCEPT ![k][i] = First[k]]
  /\ performed' = performed \ {<<k, i>>}

(* One id per row and kind: a running workflow is joined.                   *)
ExecuteWorkflow(k, i) ==
  /\ Running(k, i) \/ Cardinality({w \in Kinds \X Ids : Running(w[1], w[2])}) < MaxRunning
  /\ wf' = [wf EXCEPT ![k][i] = IF Running(k, i) THEN @ ELSE First[k]]
  /\ UNCHANGED performed

StartAttach(q) ==
  /\ req[q].pc = "attach"
  /\ ExecuteWorkflow("attach", req[q].id)
  /\ Done(q)
  /\ UNCHANGED <<row, zoneVars, serviceVars, outsideVars, historyVars>>

(* The newest record of the service, whatever its zone.                     *)
RemoveCustomDomain(q, s) ==
  /\ req[q].pc = "idle"
  /\ s \in live
  /\ \E i \in ListDnsRecordsByServiceID(s) :
       /\ \A j \in ListDnsRecordsByServiceID(s) : j <= i
       /\ req' = [req EXCEPT ![q] = [Idle EXCEPT !.pc = "detach", !.id = i]]
       /\ Meets(Targets(i))
  /\ UNCHANGED <<row, zoneVars, serviceVars, wfVars, outsideVars>>

StartDetach(q) ==
  /\ req[q].pc = "detach"
  /\ ExecuteWorkflow("detach", req[q].id)
  /\ Goto(q, "deleteRow")
  /\ UNCHANGED <<row, zoneVars, serviceVars, outsideVars, historyVars>>

(* Mutated form: the row of a user's record stays.                          *)
DeleteManagedRow(q) ==
  LET i == req[q].id IN
  /\ req[q].pc = "deleteRow"
  /\ row' = [row EXCEPT ![i].state = IF Live(i) /\ row[i].managed THEN "removed" ELSE @]
  /\ Done(q)
  /\ UNCHANGED <<zoneVars, serviceVars, wfVars, outsideVars, historyVars>>

(* Mutated form: the row is kept under a state of its own.                  *)
ArchiveDnsRecord(q) ==
  LET i == req[q].id IN
  /\ req[q].pc = "deleteRow"
  /\ row' = [row EXCEPT ![i].state = IF Live(i) THEN "archived" ELSE @]
  /\ Done(q)
  /\ UNCHANGED <<zoneVars, serviceVars, wfVars, outsideVars, historyVars>>

(* The last step of both deletions: DELETE ... WHERE id.                    *)
DeleteDnsRecord(q) ==
  LET i == req[q].id IN
  /\ req[q].pc = "deleteRow"
  /\ row' = [row EXCEPT ![i].state = IF Live(i) THEN "removed" ELSE @]
  /\ Done(q)
  /\ UNCHANGED <<zoneVars, serviceVars, wfVars, outsideVars, historyVars>>

-----------------------------------------------------------------------------
(* Records of the zone's owner.                                             *)

FreeForRecord(seen, n, t) ==
  /\ \A i \in seen : ~row[i].managed
  /\ t = "CNAME" => seen = {} /\ n # Apex
  /\ \A i \in seen : row[i].type # "CNAME"

AddDnsRecord(q, n, t, c) ==
  /\ req[q].pc = "idle"
  /\ zoneRow
  /\ \E seen \in Seen(n) :
       /\ FreeForRecord(seen, n, t)
       /\ req' = [req EXCEPT ![q] =
            [Idle EXCEPT !.pc = "insertRecord", !.name = n, !.type = t,
                         !.content = c]]
  /\ UNCHANGED <<row, zoneVars, serviceVars, wfVars, outsideVars, historyVars>>

InsertRecord(q, i) ==
  /\ req[q].pc = "insertRecord"
  /\ ~Refused(req[q].name, req[q].type, req[q].content)
  /\ i \in NextId
  /\ CreateDnsRecord(q, i, FALSE)
  /\ req' = [req EXCEPT ![q].pc = "upsert", ![q].id = i]
  /\ InsertMeets({<<req[q].name, req[q].type>>})
  /\ UNCHANGED <<zoneVars, serviceVars, wfVars, outsideVars>>

(* The provider refuses a CNAME beside other record sets of its name, and   *)
(* any beside a CNAME.                                                      *)
Conflicts(i) ==
  \E t \in Types \ {row[i].type} :
    rrset[row[i].name][t] # NoContent /\ "CNAME" \in {t, row[i].type}

Writable(i) == zoneServed /\ ~Conflicts(i)

(* PATCH with changetype REPLACE: one content per name and type.            *)
Replace(i, content) == rrset' = [rrset EXCEPT ![row[i].name][row[i].type] = content]

SyncRecord(q) ==
  /\ req[q].pc = "upsert"
  /\ Writable(req[q].id)
  /\ Replace(req[q].id, row[req[q].id].content)
  /\ Done(q)
  /\ UNCHANGED <<row, zoneVars, serviceVars, wfVars, ingress, historyVars>>

DeleteUserRecord(q, i) ==
  /\ req[q].pc = "idle"
  /\ zoneRow
  /\ Live(i) /\ ~row[i].managed
  /\ req' = [req EXCEPT ![q] = [Idle EXCEPT !.pc = "deleteRrset", !.id = i]]
  /\ Meets(Targets(i))
  /\ UNCHANGED <<row, zoneVars, serviceVars, wfVars, outsideVars>>

(* The whole record set goes, whoever wrote it.                             *)
DeleteRrset(q) ==
  /\ req[q].pc = "deleteRrset"
  /\ zoneServed
  /\ Replace(req[q].id, NoContent)
  /\ Goto(q, "deleteRow")
  /\ UNCHANGED <<row, zoneVars, serviceVars, wfVars, ingress, historyVars>>

-----------------------------------------------------------------------------
(* The workflows.                                                           *)

(* Mutated form: AttachSubdomainWorkflow closes after the redirect.         *)
OnSuccessWithoutRoute ==
  [UpsertRecord |-> "EnsureRedirectMiddleware", EnsureRedirectMiddleware |-> "none",
   ApplySubdomainIngress |-> "none", DeleteIngress |-> "DeleteRecord",
   DeleteRecord |-> "none"]

OnSuccess ==
  [UpsertRecord |-> "EnsureRedirectMiddleware",
   EnsureRedirectMiddleware |-> "ApplySubdomainIngress",
   ApplySubdomainIngress |-> "none", DeleteIngress |-> "DeleteRecord",
   DeleteRecord |-> "none"]

(* What an activity needs to succeed: a PATCH its zone, and an object of    *)
(* the cluster its namespace, which the first Deploy of the service makes.  *)
CanPerform(k, i) ==
  CASE wf[k][i] = "UpsertRecord" -> Writable(i)
    [] wf[k][i] = "DeleteRecord" -> zoneServed
    [] wf[k][i] \in {"EnsureRedirectMiddleware", "ApplySubdomainIngress"} ->
         row[i].service \in namespaced
    [] OTHER -> TRUE

(* One effect of the awaited activity; one more when its report was lost.   *)
Attempt(k, i, activity) ==
  /\ wf[k][i] = activity
  /\ CanPerform(k, i)
  /\ <<k, i>> \in performed => FaultsHappen
  /\ performed' = performed \cup {<<k, i>>}
  /\ UNCHANGED <<row, zoneVars, serviceVars, req, wf, historyVars>>

UpsertRecord(i) ==
  /\ Attempt("attach", i, "UpsertRecord")
  /\ Replace(i, row[i].content)
  /\ UNCHANGED ingress

EnsureRedirectMiddleware(i) ==
  /\ Attempt("attach", i, "EnsureRedirectMiddleware")
  /\ UNCHANGED outsideVars

ApplySubdomainIngress(i) ==
  /\ Attempt("attach", i, "ApplySubdomainIngress")
  /\ ingress' = [ingress EXCEPT ![row[i].service] = row[i].name]
  /\ UNCHANGED rrset

DeleteIngress(i) ==
  /\ Attempt("detach", i, "DeleteIngress")
  /\ ingress' = [ingress EXCEPT ![row[i].service] = NoName]
  /\ UNCHANGED rrset

DeleteRecord(i) ==
  /\ Attempt("detach", i, "DeleteRecord")
  /\ Replace(i, NoContent)
  /\ UNCHANGED ingress

ReportSuccess(k, i) ==
  /\ Running(k, i)
  /\ <<k, i>> \in performed
  /\ wf' = [wf EXCEPT ![k][i] = OnSuccess[@]]
  /\ performed' = performed \ {<<k, i>>}
  /\ UNCHANGED <<row, zoneVars, serviceVars, req, outsideVars, historyVars>>

(* Mutated form: only the calls to the provider are given up.               *)
ReportFailureOfProvider(k, i) ==
  /\ wf[k][i] \in {"UpsertRecord", "DeleteRecord"}
  /\ <<k, i>> \notin performed /\ ~CanPerform(k, i)
  /\ wf' = [wf EXCEPT ![k][i] = "none"]
  /\ GivesUp(i, k = "attach")
  /\ UNCHANGED <<row, zoneVars, serviceVars, req, performed, outsideVars>>

(* The last attempt has failed: both workflows return at once and undo      *)
(* nothing.                                                                 *)
ReportFailure(k, i) ==
  /\ Running(k, i)
  /\ <<k, i>> \notin performed /\ ~CanPerform(k, i)
  /\ wf' = [wf EXCEPT ![k][i] = "none"]
  /\ GivesUp(i, k = "attach")
  /\ UNCHANGED <<row, zoneVars, serviceVars, req, performed, outsideVars>>

(* With faults any call may use up its attempts, also when only its report  *)
(* was lost.                                                                *)
ReportFault(k, i) ==
  /\ FaultsHappen
  /\ Running(k, i)
  /\ wf' = [wf EXCEPT ![k][i] = "none"]
  /\ performed' = performed \ {<<k, i>>}
  /\ Spoils(i)
  /\ UNCHANGED <<row, zoneVars, serviceVars, req, outsideVars>>

-----------------------------------------------------------------------------
(* What happens around the records.                                         *)

(* A call to the DNS provider fails; the request goes on.                   *)
SyncFails(q) ==
  /\ \/ req[q].pc = "upsert" /\ Done(q)
     \/ req[q].pc = "deleteRrset" /\ Goto(q, "deleteRow")
  /\ \/ FaultsHappen /\ Spoils(req[q].id)
     \/ /\ IF req[q].pc = "upsert" THEN ~Writable(req[q].id) ELSE ~zoneServed
        /\ GivesUp(req[q].id, req[q].pc = "upsert")
  /\ UNCHANGED <<row, zoneVars, serviceVars, wfVars, outsideVars>>

(* Any other error, or the death of the process.                            *)
RequestAborts(q) ==
  /\ FaultsHappen
  /\ req[q].pc # "idle"
  /\ Done(q)
  /\ IF AtWork(q) THEN Spoils(req[q].id) ELSE UNCHANGED historyVars
  /\ UNCHANGED <<row, zoneVars, serviceVars, wfVars, outsideVars>>

(* Deploy makes the namespace of the service before anything else.          *)
EnsureNamespace(s) ==
  /\ s \notin namespaced
  /\ namespaced' = namespaced \cup {s}
  /\ UNCHANGED <<row, zoneVars, live, req, wfVars, outsideVars, historyVars>>

(* The deletion of the service leaves its records and its "-dz" route; the  *)
(* route goes only with the namespace, when nothing else is in it.          *)
DeleteService(s) ==
  /\ s \in live
  /\ live' = live \ {s}
  /\ \/ /\ ingress' = [ingress EXCEPT ![s] = NoName]
        /\ namespaced' = namespaced \ {s}
     \/ UNCHANGED <<ingress, namespaced>>
  /\ Contest({<<s, "route">>})
  /\ UNCHANGED <<row, zoneVars, req, wfVars, rrset>>

(* DeleteHostedZone: its row, with ON DELETE CASCADE, ...                   *)
DeleteHostedZone ==
  /\ zoneRow
  /\ zoneRow' = FALSE
  /\ row' = [i \in Ids |-> IF Live(i) THEN [row[i] EXCEPT !.state = "removed"] ELSE row[i]]
  /\ UNCHANGED <<zoneServed, serviceVars, req, wfVars, outsideVars, historyVars>>

(* ... and its zone at the DNS provider, by a workflow of its own.          *)
DeleteZone ==
  /\ zoneServed
  /\ zoneServed' = FALSE
  /\ rrset' = [n \in Names |-> [t \in Types |-> NoContent]]
  /\ UNCHANGED <<row, zoneRow, serviceVars, req, wfVars, ingress, historyVars>>

RequestStep(q) ==
  \/ \E s \in Services, n \in Names : AddCustomDomain(q, s, n)
  \/ \E s \in Services : RemoveCustomDomain(q, s)
  \/ \E n \in Names, t \in Types, c \in Contents : AddDnsRecord(q, n, t, c)
  \/ \E i \in Ids : InsertDomain(q, i) \/ InsertRecord(q, i) \/ DeleteUserRecord(q, i)
  \/ InsertFails(q)
  \/ StartAttach(q) \/ StartDetach(q)
  \/ SyncRecord(q) \/ DeleteRrset(q) \/ DeleteDnsRecord(q)
  \/ SyncFails(q) \/ RequestAborts(q)

ActivityStep(i) ==
  \/ UpsertRecord(i) \/ EnsureRedirectMiddleware(i) \/ ApplySubdomainIngress(i)
  \/ DeleteIngress(i) \/ DeleteRecord(i)

Next ==
  \/ \E q \in Requests : RequestStep(q)
  \/ \E i \in Ids :
       \/ ActivityStep(i)
       \/ \E k \in Kinds : ReportSuccess(k, i) \/ ReportFailure(k, i) \/ ReportFault(k, i)
  \/ \E s \in Services : EnsureNamespace(s) \/ DeleteService(s)
  \/ DeleteHostedZone
  \/ DeleteZone

Spec == Init /\ [][Next]_vars

-----------------------------------------------------------------------------
(* Properties.                                                              *)

(* Every variable has its type.                                             *)
TypeOK ==
  /\ row \in [Ids -> RowType]
  /\ zoneRow \in BOOLEAN /\ zoneServed \in BOOLEAN
  /\ live \subseteq Services /\ namespaced \subseteq Services
  /\ req \in [Requests -> ReqType]
  /\ wf \in [Kinds -> [Ids -> Activities \cup {"none"}]]
  /\ performed \subseteq Kinds \X Ids
  /\ rrset \in [Names -> [Types -> Contents \cup {NoContent}]]
  /\ ingress \in [Services -> Names \cup {NoName}]
  /\ contested \subseteq (Names \X Types) \cup (Services \X {"route"})
  /\ undone \subseteq Ids

(* When no request or workflow is at work on it, a record set that two      *)
(* never met on and no fault touched holds what the live row says, and      *)
(* nothing when there is none or its write could not succeed; the route of  *)
(* a service likewise.  Rows come and go many times, and each workflow acts *)
(* long after its row was read.                                             *)
RecordSetsMatch ==
  zoneRow /\ zoneServed =>
    \A n \in Names, t \in Types :
      LET rows == {i \in Ids : Live(i) /\ <<n, t>> \in Targets(i)} IN
      <<n, t>> \notin contested /\ ~Busy(<<n, t>>) =>
        rrset[n][t] \in {row[i].content : i \in rows}
                          \cup (IF rows \subseteq undone THEN {NoContent} ELSE {})

RoutesMatch ==
  zoneRow =>
    \A s \in Services :
      LET rows == {i \in Ids : Live(i) /\ <<s, "route">> \in Targets(i)} IN
      <<s, "route">> \notin contested /\ ~Busy(<<s, "route">>) =>
        ingress[s] \in {row[i].name : i \in rows}
                         \cup (IF rows \subseteq undone THEN {NoName} ELSE {})

ServedAsRecorded == RecordSetsMatch /\ RoutesMatch

(* "Subdomain ... will be live in seconds" (AddCustomDomain): a domain      *)
(* whose row was inserted is served, or its own attach runs, or the request *)
(* that is to start it does, if nothing else touches its record set or its  *)
(* route - or a call could not succeed: the service was never deployed, or  *)
(* there is a CNAME at the name, and nothing tries again.                   *)
Attached(i) == Live(i) /\ row[i].managed

Served(i) ==
  /\ rrset[row[i].name]["A"] = row[i].content
  /\ ingress[row[i].service] = row[i].name

DomainsComeLive ==
  \A i \in Ids :
    Attached(i) /\ zoneRow /\ zoneServed /\ Targets(i) \cap contested = {} =>
      \/ Served(i) \/ Running("attach", i)
      \/ \E q \in Requests : AtWork(q) /\ req[q].id = i
      \/ i \in undone

(* Every workflow closes, also when what it needs has gone or never was:    *)
(* while it runs a step of it can be taken without help from a fault, and   *)
(* each report leaves fewer activities to await.  The Temporal server takes *)
(* those steps.                                                             *)
WorkflowsGoOn ==
  \A k \in Kinds, i \in Ids : Running(k, i) =>
    ENABLED (\/ ActivityStep(i) /\ <<k, i>> \in performed'
             \/ ReportSuccess(k, i) \/ ReportFailure(k, i))

ActivitiesLeft ==
  [none |-> 0, UpsertRecord |-> 3, EnsureRedirectMiddleware |-> 2,
   ApplySubdomainIngress |-> 1, DeleteIngress |-> 2, DeleteRecord |-> 1]

WorkflowsDescend ==
  [][\A k \in Kinds, i \in Ids : Running(k, i) =>
       \/ wf'[k][i] = wf[k][i]
       \/ ActivitiesLeft[wf'[k][i]] < ActivitiesLeft[wf[k][i]]]_vars

=============================================================================
