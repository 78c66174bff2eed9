------------------------------ MODULE Databases ------------------------------
(* Databases of users (internal/resources) at their provider, Turso.        *)
(*                                                                          *)
(* ProvisionDatabase checks the name, creates the database at the provider, *)
(* then its token, then the row, and deletes the database again when a step *)
(* after its creation fails.  DeleteResource deletes the database and then  *)
(* the row.  Both name the database by TursoName of the user and the name:  *)
(* not by the id of what they created or read.                              *)
EXTENDS Accounts

CONSTANTS
  ResourceNames,  \* names of resources
  AtTurso,        \* names of databases at the provider
  TursoName,      \* generateTursoDBName, which is not one-to-one
  NoResource

ASSUME TursoNameOK == TursoName \in [Users -> [ResourceNames -> AtTurso]]
ASSUME NoResourceOK == NoResource \notin ResourceNames

NoRequest == 0

VARIABLES
  database,  \* the request that created each database there is
  resource,  \* the rows of resources, by the request that inserts them
  dbReq,     \* the name and the row a request works with
  crossed    \* databases two deletions met on, or a fault touched (history)

databaseVars == <<database, resource, dbReq, crossed>>

DatabasePcs == {"createDatabase", "createAuthToken", "saveResource", "compensate",
                "deleteDatabase", "deleteRow"}

ResourceType == [state : {"absent", "live", "removed"}, user : Users \cup {NoUser},
                 name : ResourceNames \cup {NoResource}]

AbsentResource == [state |-> "absent", user |-> NoUser, name |-> NoResource]

DbRequestType ==
  [name : ResourceNames \cup {NoResource}, id : Requests \cup {NoRequest}]

NoDbRequest == [name |-> NoResource, id |-> NoRequest]

DatabaseInit ==
  /\ database = [d \in AtTurso |-> NoRequest]
  /\ resource = [r \in Requests |-> AbsentResource]
  /\ dbReq = [q \in Requests |-> NoDbRequest]
  /\ crossed = {}

LiveResource(r) == resource[r].state = "live"

RowsOf(d) ==
  {r \in Requests :
     LiveResource(r) /\ TursoName[resource[r].user][resource[r].name] = d}

Target(q) == TursoName[req[q].user][dbReq[q].name]

WorkingOn(d, pcs) == {q \in Requests : req[q].pc \in pcs /\ Target(q) = d}

Deleting(d) == WorkingOn(d, {"deleteDatabase", "deleteRow", "compensate"})

Busy(d) == WorkingOn(d, DatabasePcs \ {"createDatabase"}) # {}

Crosses(d) == crossed' = IF Deleting(d) # {} THEN crossed \cup {d} ELSE crossed

DatabaseStep(q, pc, next) ==
  /\ At(q, pc)
  /\ Goto(q, next)
  /\ dbReq' = IF next = "ended" THEN [dbReq EXCEPT ![q] = NoDbRequest] ELSE dbReq
  /\ UNCHANGED <<user, github, creds, project, setup, spoilt, mixed>>

-----------------------------------------------------------------------------
(* ProvisionDatabase.                                                       *)

ProvisionDatabase(q, n) ==
  LET u == req[q].user IN
  /\ req[q].kind = "database"
  /\ ~\E r \in Requests : LiveResource(r) /\ resource[r].user = u /\ resource[r].name = n
  /\ At(q, "resolved")
  /\ Goto(q, "createDatabase")
  /\ UNCHANGED <<user, github, creds, project, setup, spoilt, mixed>>
  /\ dbReq' = [dbReq EXCEPT ![q].name = n]
  /\ UNCHANGED <<database, resource, crossed>>

(* Mutated form: the provider's database is taken as it is.                 *)
CreateDatabaseOrUse(q) ==
  /\ DatabaseStep(q, "createDatabase", "createAuthToken")
  /\ database' = [database EXCEPT ![Target(q)] = IF @ = NoRequest THEN q ELSE @]
  /\ UNCHANGED <<resource, crossed>>

(* A name that is there is refused.                                         *)
CreateDatabase(q) ==
  LET d == Target(q) IN
  /\ \/ /\ DatabaseStep(q, "createDatabase", "createAuthToken")
        /\ database[d] = NoRequest
        /\ database' = [database EXCEPT ![d] = q]
     \/ /\ DatabaseStep(q, "createDatabase", "ended")
        /\ database[d] # NoRequest
        /\ UNCHANGED database
  /\ UNCHANGED <<resource, crossed>>

(* The provider refuses a token for a database that is gone.                *)
CreateAuthToken(q) ==
  /\ At(q, "createAuthToken")
  /\ DatabaseStep(q, "createAuthToken",
       IF database[Target(q)] = NoRequest THEN "compensate" ELSE "saveResource")
  /\ UNCHANGED <<database, resource, crossed>>

InsertRow(q) ==
  resource' = [resource EXCEPT ![q] = [state |-> "live", user |-> req[q].user,
                                       name |-> dbReq[q].name]]

CreateResource(q) ==
  /\ DatabaseStep(q, "saveResource", "ended")
  /\ InsertRow(q)
  /\ UNCHANGED <<database, crossed>>

(* DELETE of whatever has the name; its failure is passed over.             *)
Compensate(q) ==
  /\ DatabaseStep(q, "compensate", "ended")
  /\ database' = [database EXCEPT ![Target(q)] = NoRequest]
  /\ UNCHANGED <<resource, crossed>>

-----------------------------------------------------------------------------
(* DeleteResource.                                                          *)

(* handleDeleteResource finds the row by its name.                          *)
DeleteResource(q, r) ==
  LET d == TursoName[resource[r].user][resource[r].name] IN
  /\ LiveResource(r)
  /\ Begin(q, resource[r].user, "database", "deleteDatabase")
  /\ dbReq' = [dbReq EXCEPT ![q] = [name |-> resource[r].name, id |-> r]]
  /\ Crosses(d)
  /\ UNCHANGED <<user, github, creds, project, setup, spoilt, mixed>>
  /\ UNCHANGED <<database, resource>>

(* A database that is gone already is only logged.                          *)
DeleteDatabase(q) ==
  /\ DatabaseStep(q, "deleteDatabase", "deleteRow")
  /\ database' = [database EXCEPT ![Target(q)] = NoRequest]
  /\ UNCHANGED <<resource, crossed>>

DeleteResourceByUserAndID(q) ==
  /\ DatabaseStep(q, "deleteRow", "ended")
  /\ resource' = [resource EXCEPT ![dbReq[q].id].state = "removed"]
  /\ UNCHANGED <<database, crossed>>

-----------------------------------------------------------------------------
(* A call to the provider fails: a creation may have been done, and is not  *)
(* undone; a token sends the request back; a deletion lets it go on.        *)
ProviderFails(q) ==
  LET d == Target(q) IN
  /\ FaultsHappen
  /\ \/ /\ DatabaseStep(q, "createDatabase", "ended")
        /\ database' = [database EXCEPT ![d] = IF @ = NoRequest THEN q ELSE @]
     \/ /\ \/ DatabaseStep(q, "createAuthToken", "compensate")
           \/ DatabaseStep(q, "compensate", "ended")
           \/ DatabaseStep(q, "deleteDatabase", "deleteRow")
        /\ UNCHANGED database
  /\ crossed' = crossed \cup {d}
  /\ UNCHANGED resource

(* The INSERT fails, or only its answer is lost.                            *)
SaveFails(q) ==
  /\ FaultsHappen
  /\ DatabaseStep(q, "saveResource", "compensate")
  /\ \/ UNCHANGED resource /\ Crosses(Target(q))
     \/ InsertRow(q) /\ crossed' = crossed \cup {Target(q)}
  /\ UNCHANGED database

(* The process of the request dies, or its last DELETE fails.               *)
DatabaseRequestDies(q) ==
  /\ FaultsHappen
  /\ req[q].pc \in DatabasePcs
  /\ DatabaseStep(q, req[q].pc, "ended")
  /\ crossed' = crossed \cup {Target(q)}
  /\ UNCHANGED <<database, resource>>

DatabaseNext ==
  \/ \E q \in Requests :
       \/ \E n \in ResourceNames : ProvisionDatabase(q, n)
       \/ CreateDatabase(q) \/ CreateAuthToken(q) \/ CreateResource(q) \/ Compensate(q)
       \/ DeleteDatabase(q) \/ DeleteResourceByUserAndID(q)
       \/ ProviderFails(q) \/ SaveFails(q) \/ DatabaseRequestDies(q)
  \/ \E q, r \in Requests : DeleteResource(q, r)

-----------------------------------------------------------------------------
(* Properties.                                                              *)

DatabaseTypeOK ==
  /\ database \in [AtTurso -> Requests \cup {NoRequest}]
  /\ resource \in [Requests -> ResourceType]
  /\ dbReq \in [Requests -> DbRequestType]
  /\ crossed \subseteq AtTurso

(* When no request is at work on it, a database is there exactly when a row *)
(* is, it is the one its row was inserted for, and there is one row: the    *)
(* row's credentials work and nothing is left behind under a name that can  *)
(* then never be provisioned again.  Names that clash, requests that        *)
(* overlap and an INSERT that fails keep this; a provider that fails and    *)
(* two deletions that overlap do not (the later one deletes by name what    *)
(* may have been provisioned since).                                        *)
DatabasesMatch ==
  \A d \in AtTurso \ crossed :
    ~Busy(d) => RowsOf(d) = IF database[d] = NoRequest THEN {} ELSE {database[d]}

=============================================================================
