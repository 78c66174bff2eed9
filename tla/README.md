# Deploy MCP backend: a verification project in TLA+

This directory models the backend of Deploy MCP (`src/go-backend`): a
deployment platform whose API processes write to PostgreSQL and start Temporal
workflows, whose workers build images and apply Kubernetes objects, and whose
DNS, git and database services lead lives of their own beside it. The modules
are checked with TLC on small instances; the theorems are proved with TLAPS for
every instance.

## 1. The system

| Part | Code (`src/go-backend/internal`) | State it keeps | Operations |
|---|---|---|---|
| deployments table | `storage/pg` | one row per deploy attempt: status, started_at, finished_at, configuration snapshot | nine SQL statements |
| deployment requests | `deployments/service.go` | services rows, `current_deployment_id` | create, update, redeploy (user, GitHub push, internal push), delete |
| deploy workflow | `k8sdeployments/workflows.go`, `activity_*.go` | Temporal histories, the k8s objects of a service | building, build, deploy, deploying, rollout, active; failure path |
| build workflow | `k8sdeployments/workflows.go`, `activity_clone.go`, `buildkit.go` | source directories of a worker, image tags of a registry | skip, clone, resolve, look for the image, build, clean up, a second round |
| service deletion | `k8sdeployments/activity_delete.go` | the same objects, the namespace | delete workload, delete empty namespace, soft-delete the row |
| hosted zones | `dns/service.go`, `dns/workflows.go` | `hosted_zones` rows, zones at the DNS provider, certificates, loaders | create, verify, activate, delete |
| custom domains, DNS records | `dns/service.go`, `dns/workflows.go`, `dns/activity_ingress.go` | `dns_records` rows, record sets at the DNS provider, "-dz" ingress routes | add and remove a domain, attach and detach, add and delete a record |
| push triggers | `webhooks`, `gitserver` | bare repositories, what GitHub has yet to deliver | webhook delivery, receive-pack between two snapshots of the references, request to deploy |
| resources | `resources`, `turso` | resources rows, databases at Turso | provision (with compensation), delete |
| internal git | `internalgit` | repositories, push tokens, git user names | create, get a token, delete, allocate a name |
| accounts, authentication | `auth`, `account`, `authz` | users, projects, GitHub credentials | first login, account workflow, project of a request, link to GitHub |
| MCP OAuth bridge | `mcp_oauth` | nothing stored: signed codes | authorize, exchange |
| status checker | `statuschecker` | last results | ticker loop, stop |
| MCP tools, GraphQL | `mcpserver`, `graph` | none | validate, call the services above |

How they interact: the requests call SQL statements and the Temporal client,
with no transaction around them; a workflow runs activities on workers, each
attempt at least once, and is told of a cancellation while its attempts are
not; push triggers call the redeploy of every service of a repository and
branch; deletions and custom domains reach the same Kubernetes objects as
deployments.

What is hard: nothing serialises two requests for one service; the database
refuses statements (unique indexes, CHECK constraints) instead of locking;
attempts outlive the workflow that scheduled them; reports get lost and
statements run twice; several handlers die between two writes and nothing
repairs what they leave; checks are made before the lookups and calls whose
result they guard.

`PROJECT.json` lists the components with what is and is not modelled, and the
hazards one by one at the lines where they bite.

## 2. The modules

| Module | Models |
|---|---|
| `DeploymentTable` | the deployments table: one action per SQL statement, accepted or refused by the constraints of migration 0001; `TableSpec` is the abstract specification of the rest |
| `Deployments` | requests, deploy workflows, activity attempts, the cluster and the deletion of a service, over that table |
| `MCDeployments` | small sets for TLC |
| `DeploymentTableProofs` | the constraints hold under any sequence of statements |
| `DeploymentsProofs` | types, that the system implements the table, and what a deployment has behind it at each stage |
| `DeploymentsOutcomeProofs` | promotion and failure exclude each other, and what follows; that a service stays deployed; that what runs is the snapshot unless a service is updated |
| `DeploymentsProgressProofs` | an open workflow is served and advances; a row in flight is attended to; the pointer is right where deployments do not overlap |
| `HostedZones` | the requests and the three workflows of hosted zones, with the zones at the DNS provider and the certificates and loaders in the cluster |
| `MCHostedZones` | small sets of names and users for TLC |
| `HostedZonesProofs` | its types, its three safety properties, when an active zone is kept, whose certificates there are, when a provisioning zone is attended to, what a late deactivation can undo, that workflows descend |
| `DnsRecords` | the records and custom domains of one active zone: requests, attach and detach workflows, the provider's record sets, the ingress routes |
| `MCDnsRecords` | small sets for TLC |
| `DnsRecordsProofs` | its types, that what is served is what is recorded, that domains are served or attended to, that workflows descend |
| `Pushes` | pushes to the platform's git server and to GitHub, up to the request to deploy a commit |
| `Builds` | the build workflow, its worker and the registry, over `Pushes` |
| `ImageCache` | the abstract specification of `Builds`: what a build promises the deployment that starts it |
| `MCBuilds` | small sets for TLC |
| `BuildsProofs` | which pushes are asked for, safety of builds, that builds end, and that they implement `ImageCache` |
| `Accounts` | users, the default project, the link to GitHub |
| `Repos` | repositories of the internal git server, over `Accounts` |
| `Databases` | databases and their provider, over `Accounts` |
| `Tenants` | the three together: one set of requests |
| `MCTenants` | small sets for TLC |
| `TenantsProofs` | its types and its six safety properties |

The modules meet where the components do. `Deployments` is composed with the
table it writes by refinement (`ImplementsTable`); `Builds` extends `Pushes`,
because what a clone finds is what the pushes have left of the branch; `Tenants`
composes `Accounts`, `Repos` and `Databases` over one set of requests, because a
request of any kind looks the project up before it does anything else.
`Deployments` and `Builds` are kept apart: a deployment sees of a build that it
answers once, with an image that was built, or fails. That is `ImageCache`, and
it is what the `build` variable of `Deployments` assumes.

### `DeploymentTable`

No statement looks at the status it overwrites (`WHERE id = $1`); what keeps a
row's history sane is `terminal_has_finished_at`, `nonterminal_no_finished_at`,
`idx_deployments_one_active` and `idx_deployments_one_inflight`. `Accepted` is
their conjunction; a statement is an action guarded by it, and a caller whose
statement is refused takes its error path.

### `Deployments`

A deployment id names a request, a row, a workflow (`deploy-<id>`) and that
workflow's attempts. The state is a program counter per request (`reqPc`, with
what the handler has read so far in `target`, `snapshot`, `toCancel`), the
services rows (`svcState`, `svcConfig`, `current`), the workflow (`wf`: which
call it awaits, or how it closed), whether its history holds a cancellation
request (`cancelReq`), its build (`build`), the set of running attempts
(`attempts`), and the cluster (`cluster`: last applied object, `serving`: whose
pods are available). Two history variables record what was ever `applied` and, for
each row, which deployments were marked active while it was in flight (`late`).
One action is one database statement or one call of
another system:

- **Requests.** `BeginCreate`, `BeginUpdate`, `BeginRedeploy`, then
  `ReadService`, `CancelInFlight`, one `SignalCancel` per cancelled workflow,
  `InsertRow`, `StartWorkflow`: `redeployWithTrigger` line by line. A request
  may die at each of these (`RequestAborts`) and undoes nothing.
- **Attempts.** An attempt is a record with the step it is at.
  `MarkDeploymentActive` has three steps (supersede, mark, point), `Deploy` two
  (read the services row, apply). An attempt is *awaited* by its workflow,
  *abandoned* when the workflow was cancelled (none of these activities
  heartbeats, so none is told) or when `Deploy` misses its heartbeat timeout,
  or *expired* when its context ended with one statement under way.
- **Workflow.** `Enter` moves the workflow from one awaited call to the next.
  `OnSuccess` and `OnFailure` are the control flow of `deployService`;
  "unrecorded" is the end of the two returns that do not mark the row.
- **Build and rollout.** The build is a child workflow that may find its id in
  use, may read the services row, and may fail; the rollout succeeds on any
  available pods, as `WaitForRollout` does not compare generations.
- **Deletion.** `DeleteServiceWorkflow` in two steps. It cancels no deployment.

Not modelled: several services sharing a namespace or a name, the FQDN column,
progress columns, regions, the statements and activities that no worker
registers. A service name can be reused after a deletion; the model's services
have names of their own.

### `HostedZones`

The state is the rows of `hosted_zones` (`status`, `user`, `zone`,
`verifiedAt`, `expired`), a program counter per request with what the request
has read (`req`), the activity each workflow awaits (`wf`, by kind and row) and
whether that activity has had its effect (`performed`), and what lies outside
the database: `provider`, `certs`, `loaders`. One action is one statement, one
lookup, one start of a workflow, one effect of an activity, or one report of an
activity to its workflow.

- **Requests.** `CreateHostedZone` finds an overlapping row, deletes it when it
  may be reclaimed, and inserts (`CreateFind`, `CreateReclaim`,
  `CreateInsert`, `CreateRefused`). `VerifyHostedZone` reads the row, looks the
  token or the delegation up, writes what it concludes and starts a workflow.
  `DeleteHostedZone` reads, starts the deactivation, deletes. Each step acts on
  the row as the request read it. The answer of a DNS lookup is free:
  nothing the platform does decides it.
- **Workflows.** `ExecuteWorkflow` has one id per kind and row, so a workflow
  that has not closed is joined. `OnSuccess` and `OnFailure` are the control
  flow of the three workflows. An activity takes effect (`Attempt`) and is
  reported in separate steps, may take effect again when its report was lost,
  and may fail after its effect; what it needs in order to succeed is in
  `CanPerform`.
- **Names of objects.** Certificate, secret and loader are named by
  `sanitizeDNSLabel` of the zone (`Label`), which is not injective. `Nested`
  stands for the suffix test of the overlap query.
- **Time.** `Expire` is the passing of `expires_at`.

The DNS provider and cert-manager are not in the repository: they are modelled
from how the activities use them (a POST that answers 409 for a zone that
exists, a DELETE that needs one, an apply that replaces, a poll of the
certificate's conditions).

Not modelled: `last_error`, the effect of a timed-out attempt that arrives after
its workflow has gone on. The records inside a zone are `DnsRecords`.

### `DnsRecords`

The state is the rows of `dns_records` (`row`), whether the zone has its row and
is at the provider (`zoneRow`, `zoneServed`), the services that can be resolved
(`live`) and those whose namespace exists (`namespaced`), a program counter per request (`req`), the activity each workflow
awaits and whether it has had its effect (`wf`, `performed`), and the outside:
`rrset`, the content of each record set, and `ingress`, the name each service's
"-dz" route is for. A managed row and a user's row go different ways:

- `AddCustomDomain` lists what is at the name, `InsertDomain` inserts,
  `StartAttach` starts `AttachSubdomainWorkflow`: upsert the record set, ensure
  the redirect, apply the ingress. `RemoveCustomDomain` picks the newest record
  of the service, `StartDetach` starts `DetachSubdomainWorkflow` (delete the
  ingress, delete the record set), `DeleteDnsRecord` deletes the row, which the
  workflow may outlive.
- `AddDnsRecord` checks, `InsertRecord` inserts, `SyncRecord` writes the record
  set; `DeleteUserRecord`, `DeleteRrset` and `DeleteDnsRecord` undo it in the
  request itself.
- A PATCH replaces or removes the whole record set of a name and type
  (`Replace`), whoever wrote it. A call to a zone that is gone fails, and so does
  one that would put a CNAME beside another record set of its name
  (`Conflicts`): AddCustomDomain looks at managed records only and may insert an
  A beside a user's CNAME.
- The redirect and the route are applied into the service's namespace, which the
  first `Deploy` of the service makes (`EnsureNamespace`) and not before:
  `AddCustomDomain` takes any service that can be resolved. `CanPerform` says
  what an activity needs.
- `ReportFailure` closes a workflow one of whose calls cannot succeed, after its
  attempts: it undoes nothing. With faults any call may use up its attempts
  (`ReportFault`). `SyncFails` is logged and the request goes on;
  `RequestAborts` is any other error or the death of the process.
- `DeleteService` and `DeleteHostedZone` happen around them, with the cascade
  to the rows; `DeleteZone` is the effect of the zone's own workflow.

There are two history variables. `contested` has the record sets and routes on
which two writers have met (one came while the other was at work, or a second
live row was inserted), or which a fault touched. `undone` has the rows of which
a write could not succeed: the zone or the namespace was not there, or the
provider refused. Names are independent of one another, as no statement about
one name reads another's, except through the route of a service that two rows of
different names claim, which the proofs cover and the run, with one name, does
not. The rule about CNAME records at the apex holds of `Apex`, which the run
leaves out of `Names`.

Not modelled: TTLs, the FQDN column, the choice of a zone for a domain.

### `Pushes`

`head` is the branch. A push to the internal server is `Advertise` (the client
learns the head), `SnapshotBefore`, `ReceivePack` (git moves the reference if it
is still where the client saw it) and `TriggerDeploys` (the second snapshot, and
a request for each branch that differs: `DiffRefs`); any number of pushes
overlap. `SnapshotRefs` is what a snapshot says of the branch, and it is always
nothing: `snapshotRefs` hands the repository's path to `git for-each-ref` as a
pattern for ref names, with nothing that tells git which repository to look
into. Outside a repository git fails, and `repo.go:39-41` takes the failure for
a repository without refs; inside another one, no ref has that name. The error
returns of the two calls are therefore never taken. A push to GitHub is
`GitHubPush`, and the webhook delivery (`HandlePushWebhook`) comes later, in any
order. `asked` collects the commits that a deployment was requested for. `since`
and `dropped` are history variables: what was head since a commit was first
pushed, and whose request a fault lost. GitHub and git are modelled from how the
handlers use them.

Not modelled: several branches or services of one repository, installations,
authentication of a push.

### `Builds` and `ImageCache`

A build is a record with the step its workflow is at, the commit it was started
for (`input`, none for a build of whatever the branch holds), its round, its tag,
its directory, its failed attempts and what follows its clean-up. `disk` holds
the commit in each directory of the worker, `image` and `collected` the
registry, `stray` the image builds that go on after their workflow was
terminated. `StartBuild` marks the open builds as orphans, since the deployment
that starts it has closed the workflows above them; `Terminate` is the server's
doing so, in its own time. `ResolveImageRef`, `SkipBuild` and `NoSkip` are
`trySkipBuild`; `CloneRepo` to `CleanupSource` are a round, of which a missing
source path allows a second. `CloneRepo` takes the branch as it is and labels it
with the commit that was asked for (`Label`), as the code does. Faults are lost
reports, failed calls and restarts of the worker, which empty `/tmp`; the
registry's nightly job (`CollectImage`) removes any tag while more than
`RetainCount` are stored.

`ImageCache` has the set of tags ever `published` and one `answer` per build;
`ImplementsCache` is the refinement mapping.

Not modelled: what the build packs produce, several worker pods (a restart
stands for a round on another pod), which tags the nightly job picks.

### `Accounts`, `Repos`, `Databases`, `Tenants`

One set of `Requests`, numbered in the order in which they begin, and one
program counter each (`req`). `Repos` and `Databases` keep what a request works
with in functions of their own (`repoReq`, `dbReq`) and leave the rest to
`Accounts`.

- **Accounts.** `GetOrCreateUser`, `CreateFirebaseUser` and
  `TriggerAccountSetup` are a first login; `CreateDefaultProject` and
  `SetupCloses` the workflow it starts. `GetProjectByRef` and `CreateProject`
  are how every other request comes to its project, creating it without
  `is_default` when it is missing. `LinkGitHub`, `FindCreds`,
  `CreateGitHubCreds` and `UpdateGitHubOAuthToken` are a link: two tables,
  one after the other, the second as it was read.
- **Repos.** `create_repo` resolves the user name (`ResolveUsername`,
  `UsernameKnown`, `SetGiteaUsername`), looks for the repository, inserts it and
  creates a token; `GetPushToken`, `DeleteRepo`; and `create_service` of a
  repository, which looks the repository up in the project with ref "default"
  and then asks for the project with `is_default` set.
- **Databases.** `ProvisionDatabase`, `CreateDatabase`, `CreateAuthToken`,
  `CreateResource` and the compensation; `DeleteResource`, `DeleteDatabase`,
  `DeleteResourceByUserAndID`. Both name the database by `TursoName`, which is
  not one-to-one. A provider's call may fail after its effect, an INSERT may be
  done although its answer is lost, a request may die.

Not modelled: API keys, verification and expiry of tokens, GitHub App
installations, repositories made at GitHub, the bare repository on disk,
regions and sizes of databases.

## 3. Properties and runs

One service is enough for what the properties of deployments say: no statement
of a request or workflow mentions another service's rows (the theorems do not
need the restriction).

| Run | Module | Instance | Shows |
|---|---|---|---|
| `deployments_redeploy` | `MCDeployments` | 2 deployments, 1 commit, 2 attempts per activity, 1 fault, deletion | overlapping requests on a service that may go: all safety properties |
| `deployments_progress` | `MCDeployments` | the same, no fault | liveness |
| `zones_races` | `MCHostedZones` | 1 row, 1 name, 2 users, 2 requests, 2 running workflows, faults | overlapping requests on one zone: all safety properties |
| `records` | `MCDnsRecords` | 2 rows, 1 name, 2 types, 1 service, 2 requests, 2 running workflows, faults | whether what is served is what is recorded, when a domain comes live, that workflows close |
| `builds` | `MCBuilds` | 2 commits pushed to either server, 1 pusher, 2 builds, 1 tag retained, 1 fault | images, directories, that builds end, and the refinement |
| `tenants` | `MCTenants` | 2 users, 2 GitHub accounts, 3 requests, 2 user names, 2 repositories, 2 resource names with one name at the provider, faults | default projects, tokens, user names, remotes and databases agree with the rows |
| `finding_pointer` | `MCDeployments` | 2 deployments, no fault | the pointer is not the live deployment |
| `finding_snapshot` | `MCDeployments` | 2 deployments, 2 configurations, no fault | the snapshot is not what runs |
| `finding_provisioning` | `MCHostedZones` | 1 row, 1 request, no fault | a zone stays provisioning for good |
| `finding_certificate` | `MCHostedZones` | 2 rows, 1 request, no fault | two zones share a certificate |
| `finding_reclaim` | `MCHostedZones` | 1 row, 2 users, 2 requests, no fault | an active zone is deleted by another user's create |
| `finding_push` | `Pushes` | 2 commits, 1 pusher, no fault | what is pushed to the internal server is not asked for |

Bounds. `MaxAttempts` is 3 in the code; 2 attempts show every retry and let an
abandoned attempt act beside its successor's. Two deployments are the least that
let one request cancel the other's deployment before and after its start.
`MaxFaults` limits lost connections, crashes and timeouts per behaviour;
refusals by the database and failed builds or rollouts are not faults and are
unlimited.

`InFlightIsAttended` and `RowsFinish` have one exception where no fault occurs.
The attempts of `MarkDeploymentActive` that cancelled workflows abandoned go on;
each may mark its own row active just before the UPDATE of a successor, which
`idx_deployments_one_active` then refuses. When this happens to every one of the
successor's `MaxAttempts` tries, its workflow returns without `markFailed` and
its row stays in flight until the next request cancels it. `CrowdedOut(d)` says
that so many deployments were marked active while the row of d was in flight
(`late`); the theorem `InFlightRowsAreAttended` says that nothing else leaves a
row behind, as long as nothing fails. With the code's 3 attempts it takes three
abandoned attempts, so the instance of two deployments does not reach it with
`MaxAttempts = 2`, and an instance with three deployments does (two of them
cancelled).

In the run of zones, `Ids` bounds how many rows a behaviour inserts, and
`MaxRunning` how many workflows run at a time. Two requests on one row are the
least that let one act on what the other has overwritten. Zones of the same
name, nested names or names with the same label need two rows; of these
`finding_certificate` checks the labels, and the proofs cover all of them.

In the run of records, two rows are the least that let one record exclude or
replace another, or a name be used again after a deletion that is not over; the
single service has one route that both may claim, and is deployed before, after
or never. In `builds` the head is moved by GitHub or by a pusher of the internal
server; a second pusher would give the branch no history that these do not. Two builds
let one be terminated, join or outlive the other, `RetainCount = 1` lets the
registry drop a tag while a build relies on it, and one fault may strike at any
call of either. In `tenants` three requests let two of one user overlap while a
third, of another user, takes the name; two resource names on one name at the
provider let them clash, of one user or of two.

The runs with `CHECK_DEADLOCK FALSE` are of systems that may really stop: once
every request, row and build of the bound is used and every workflow has closed,
nothing needs to happen. Faults are unlimited where no `MaxFaults` bounds them.

The safety properties of deployments:

- `OnePerService`: one live and one in-flight row per service.
- `FinishedIsFinal`: no late statement reopens a finished row or gives it a start
  it never had.
- `InFlightIsAttended`: a row in flight has a request about to start its
  workflow or an open workflow, however requests overlap, are refused or cancel
  each other. The property names the exceptions: without faults `CrowdedOut`
  (see the bounds); with faults a request interrupted between its INSERT and
  `ExecuteWorkflow`, which leaves a queued row and no workflow, and a workflow
  that closed through one of the returns that record nothing.
- `Lifecycle`: the exact set of moves a row can make. Every move listed does
  occur; that a failed row is final and that an active one only ever becomes
  superseded depends on the whole control flow.
- `AppliedWasStarted`: a deployment cancelled while queued never reaches the
  cluster, although its workflow may start after the cancellation and is never
  told of it. What stops it is the CHECK constraint refusing "building".
- `PromotedWasApplied`, `PointerWasPromoted`: what the table calls live was
  applied, and the service points to a promoted row of its own.
- `ClosedIsRecorded`, `CancelledRowFirst`: a closed workflow has a finished row
  except on two known returns; no workflow is stopped while its row is in flight.
- `ServiceIsDeployed`: from its creation on a service has a row that was not
  cancelled or a request about to insert one. Overlapping requests never cancel
  each other into nothing; only a request that a fault interrupted leaves a
  service without, be it the one that created it or one that had cancelled.
- `ImplementsTable`: the system implements `TableSpec`.

The safety properties of hosted zones:

- `OwnershipProven`: a row is past "pending_verification", and a name is at the
  provider or on a certificate, only if a lookup found the token of a row of
  that name. Failed zones are activated again with no lookup, and no statement
  looks at the status it overwrites; it holds because `verified_at` is written
  with the first move and never cleared.
- `ActiveWasEarned`: an active row's own activation found the delegation and a
  ready certificate, however often the row was demoted and retried.
- `ServedUnlessDisturbed`: an active zone has its provider zone, certificate and
  loader unless a row sharing its name was deactivated or another name shares
  its label. The two exceptions are real: the first is the hazard of
  `DeleteHostedZone` removing the row while its deactivation runs, the second
  is a finding.

The safety properties of records and builds:

- `ServedAsRecorded`: a record set and a route that two writers never met on and
  no fault touched hold what the live row says whenever nobody is at work on
  them, and nothing when there is no row or its write could not succeed, although
  each workflow acts long after its row was read and the row may go before.
- `DomainsComeLive` ("will be live in seconds", the answer of `AddCustomDomain`):
  a domain whose row was inserted is served, or its own attach runs, or a request
  is at work on it, as long as nobody else writes to its record set or route. The
  exception, `undone`, is real and needs no fault; see section 4.
- `WorkflowsGoOn`, `WorkflowsDescend`: while a workflow of a record is open, an
  activity of it can have its effect, or succeed or fail without the help of a
  fault, and each report leaves it fewer to await. Together they say that
  workflows close, also when the zone is gone or the namespace never was.
- `ImageFromBranch`: an image tagged with a commit holds what the branch held
  when that commit was pushed or later. It may be later; see section 4.
- `WorkspaceRemoved`: a closed build leaves no directory, in whichever round and
  at whichever step it failed, unless a report or clean-up was lost or it was
  terminated.
- `ImplementsCache`: a deployment is given only images that were built, and a
  build answers once.
- `OpenBuildsGoOn`, `OpenBuildsDescend`: while a build is open a step of it can be
  taken, and every step brings it nearer to its end (`StepsLeft`). Together they
  say that builds end, also when each round finds its directory missing.

The safety properties of tenants:

- `DefaultUnlessTaken`: with the first login answered and the set-up closed, a
  user has a project with `is_default`, however logins overlap, unless another
  request took its ref first or a fault did away with it.
- `ServiceFindsDefault`: what this means for `create_service`.
- `TokenIsOfLinked`: with no link under way, the stored token is of the account
  that the user's row names, unless two links overlapped, one failed, or an
  older token was kept for its scope.
- `RepoUnderOwner`: a repository lies under the user name of its owner, unless
  two names were picked for a user at a time.
- `RemoteWorks`: a remote that was answered can be pushed to until the deletion
  of its repository begins.
- `DatabasesMatch`: with nobody at work on it, a database is there exactly when
  one row is, the row of the request that created it. Clashing names, overlapping
  requests and a failing INSERT keep this; two deletions that meet and a provider
  that fails do not (`crossed`).

Liveness and fairness. Nothing is assumed of users, faults, pods or the outcome of
builds.

- `WorkflowsClose`, `RowsFinish` (deployments) assume `FairSpec`: the Temporal
  server keeps dispatching workflow tasks and attempts, and a handler that is not
  struck by a fault runs to its end. A build and a rollout end because their
  activities have timeouts and a bounded number of attempts. The run has no
  faults because the code has none of the recovery that `RowsFinish` would need
  after one (`RequestAborts` after the INSERT leaves a queued row behind).

Nothing else is checked under fairness: `OpenBuildsGoOn` with `OpenBuildsDescend`,
and `WorkflowsGoOn` with `WorkflowsDescend`, say of builds and of the workflows of
records that they end, wherever their open steps are taken in the end.

## 4. Findings

Six statements of the repository that the code does not keep; each has a run
`finding_*` with a counterexample.

- **The pointer** (`0001_initial.sql:114`, "Points to the currently-live
  deployment"). A cancelled workflow leaves its `Deploy` attempt running; it
  may apply after its successor's `Deploy`, whose rollout then succeeds on the
  older pods. Where deployments of a service come one after the other and
  nothing fails, the pointer is right (`PointerIsLiveOneAtATime`).
- **The snapshot** (`0001_initial.sql:99`, `:137`). `Deploy` reads the live
  services row; nothing reads the snapshot. Updates are all it takes: without
  them what runs is the snapshot (`SnapshotIsDeployedWithoutUpdates`).
- **Stuck provisioning** (`dns/service.go:194`, "please wait"). A failed zone
  verified again before its activation has closed is set to "provisioning" and
  joins the closing workflow, which writes nothing more; from then on every
  verification answers "please wait" and starts nothing. As long as no request
  joins a running activation this does not happen (`AttendedUnlessJoined`).
- **The shared certificate** (`infra/eu-central-1/README.md:106`, "Wildcard
  cert per delegated zone"). Zones whose names differ in '.' and '-' only share
  certificate, secret and loader. Where no two names share a label every zone
  has its own (`CertificatesAreOwn`).
- **The reclaimed zone** (`README.md:513`, `infra/eu-central-1/README.md:110`,
  "Unverified zones expire after 7 days"). `CreateHostedZone` judges a zone by the
  row it has read and deletes it by its id alone (`dns/service.go:87-93`). A zone
  that is verified in between, and even activated, is deleted with no look at its
  status. It takes a row that expires while its verification is under way:
  as long as no verification moves a row that has expired, an active zone goes only
  when its owner asks (`ActiveIsKeptIfExpiredStays`).
- **Pushes to the internal server** (`README.md:255`, "Internal git pushes
  trigger deploys directly"; `gitserver/handlers.go:139`). Both snapshots of the
  references are empty (`gitserver/repo.go:37`, see `Pushes` above), so no push is
  ever asked for, with no fault and no error. GitHub's pushes are
  (`OnlyGitHubIsAsked`).

Differences met while modelling that need no run, as the code can be read for
them, or that no document speaks of:

- `README.md:132` and `:255` say that a push that is delivered twice is rejected
  by its workflow id (`REJECT_DUPLICATE`). Workflow ids are fresh per request
  and no reuse policy is set: a delivery made again cancels and redeploys.
- An image tagged with a commit may hold a later commit's source: the clone takes
  the branch as it is. `ImageFromBranch` is the most that holds.
- The registry's nightly job looks at the age of tags only and may remove the
  image that an older, still active deployment runs.
- A custom domain may be added to a service that was never deployed and is then
  answered "will be live in seconds" (`dns/service.go:472`). The namespace is made
  by the first `Deploy`, so the redirect fails three times
  (`dns/workflows.go:158-165`, `dns/activity_ingress.go:76`), the workflow closes,
  and no later deployment tries again. `DomainsComeLive` names it (`undone`).
- `AddCustomDomain` inserts an A record beside a user's CNAME
  (`dns/service.go:411-415`), which `dns/service.go:609-610` says cannot coexist;
  the provider refuses it, and the domain is left as above.
- A zone whose TXT record was found but whose delegation was not
  ("pending_delegation") may be reclaimed after its expiry as well, although it
  is verified.
- A webhook whose redeploy failed is answered 200: GitHub does not deliver it again.
- A custom domain whose service was deleted can no longer be removed: the removal
  resolves the service, and the record API refuses managed records.
- A request that needs a project before the set-up workflow ran creates "default"
  without `is_default`; `create_service` of a repository then fails for that
  user, and the workflow's attempts too.
- `LinkGitHub` keeps an older token with the "repo" scope, also when it is of
  another account than the one being linked.
- Deleting a database deletes at the provider by name: the later of two
  deletions of one row may take a database provisioned since.

## 5. Proofs

`DeploymentTableProofs` proves, for any sets of services and deployments, that
`TableSpec` keeps its types, `OnePerService`, `FinishedIffEnded` and
`FinishedIsFinal`. The three invariants are inductive together (`TableInv`):
`FinishedIffEnded` is what turns the CHECK constraints into "a finished row is
not in flight", and the types are what lets an UPDATE be read row by row.

`DeploymentsProofs` proves that `Deployments` keeps its types and implements
the table (`Implements`), so that the table's theorems hold of the system:
`OneDeploymentPerService`, `RowsAgreeWithTimestamps`,
`FinishedRowsStayFinished`. A step can only be read as a table statement when
the request or attempt that takes it has a service, so the inductive invariant
adds `Linked`: a request past "idle" has a target, every workflow and attempt
has such a request, and an attempt about to apply has read a configuration of a
service that exists. The assumptions are `NoneIsNoId`, `NoneIsNoValue`,
`DeletableOk` and `BoundsAreNat`.

The second part of it proves `AppliedWasStarted`, `PromotedWasApplied`,
`CancelledRowFirst` and `ClosedIsRecorded`. None is inductive: a row is applied
by an attempt, which a workflow scheduled, because an earlier attempt reported
success, perhaps of a workflow cancelled since. `History` states the chain.
`Earned(d, stage)` is what the deployment must have behind it at a stage
(started, then applied, then finished); every workflow has earned the call it
awaits, every attempt, abandoned or not, the step it is at (`AttemptHistory`,
`WfHistory`), and every id a request has yet to signal is of a finished row
(`RequestHistory`). What is earned is never lost: a row stays started, applied
and finished (`Grows`), which is where the table's `FinishedIsFinal` is needed.
The inductive invariant is `HInv == IInv /\ History`.

`DeploymentsOutcomeProofs` proves `PointerWasPromoted`, `Lifecycle` and
`ServiceIsDeployed`. That a live row never turns failed, and a failed one never
live, is not written in any statement: `UpdateDeploymentActive` and
`UpdateDeploymentFailed` look at no status. It holds because no deployment ever
has both an attempt that would promote it and one that would record its failure
(`Exclusive`), which rests on `MarkDeploymentActive` and `UpdateDeploymentFailed`
being awaited by disjoint ends of the workflow, and on a cancelled workflow
scheduling nothing more. With `AttemptOutcome` (what a row may be while such an
attempt runs) and `RowOfRequest` (a row exists from its request's INSERT on) it
makes `OInv == HInv /\ Outcome` inductive. `ServiceIsDeployed` is an invariant
of its own over `OInv`: a row is cancelled by a request that has its INSERT ahead
of it; the INSERT is refused only by a row in flight, which is one that was not
cancelled; and a request that a fault keeps from its INSERT has failed for good
(`GaveUp`), which is what the third disjunct says.

The module also proves the true form of the second finding.
`SnapshotIsDeployedWithoutUpdates` assumes `[][ConfigStays]_vars` (a service,
once created, keeps its configuration; redeploys, deletions and faults are free)
and concludes `SnapshotIsDeployed`. `Recorded` is its invariant: every snapshot,
every configuration an attempt has read, and the object in the cluster are those
of the service's row.

`DeploymentsProgressProofs` proves what liveness rests on, and
`InFlightIsAttended`. `Served(d)` says what an open workflow waits for: exactly one
attempt that is not abandoned, of the activity it is at, or a build that has not
closed. With `Inserted` (a row is there before its workflow) it is inductive over
`OInv` (`SInv`), which is `OpenWorkflowsAreServed`: the workflow cannot be waiting
for nothing. `WorkflowsAdvance` is an action property: a step leaves a workflow
and its awaited attempt alone, or moves it to a later stage, or the attempt to a
later statement or try. As stages, statements and tries are bounded, the two are
the safety part of `WorkflowsClose`; the rest of it is fairness.

`InFlightIsAttended` has to say why a workflow that closes without recording
anything has been crowded out. The inductive invariant is
`AInv`: `SInv`, `LateFacts`, `Begun(d)` for every d, and `faults = 0 => Quiet`.
`LateFacts`: `late[d]` is a finite set of deployments that are live or superseded.
`Begun` holds with faults, too: a row has its request or its workflow ahead of
it, or its request has failed before a workflow was there, and then the row has
not left "queued" but by being cancelled. `Quiet` is what holds while nothing has
gone wrong: a deployment has at most one attempt, abandoned by a cancelled
workflow only (`Lone`); a closed workflow left a finished row or was crowded out
(`ClosedIsSettled`); an attempt that has yet to mark a row finds it not promoted
(`NotYetPromoted`); and `LateOK` does the counting. In the k-th try of the awaited
`MarkDeploymentActive`, `late` of its row has at least k - 1 members; once the
try's first statement has superseded them, all k - 1 are superseded, and a live
row of the service, if there is one to make the index refuse the second
statement, is a further member. So each refused try adds one.

`PointerIsLiveOneAtATime` is the true form of the first finding: with
`[][OneAtATime]_vars` (a request comes in only when no request, workflow or
attempt of its service is under way) and no fault so far, `PointerIsLive` holds.
The invariant is `PInv == AInv /\ (faults = 0 => Serial)`: of the deployments of a
service one at most is at work (`Alone`), none is cancelled or crowded by another
(`Undisturbed`), a deployment past its `Deploy` has its own object in the cluster
(`Newest`), and what was applied last and completed is what the pointer names
(`Pointed`). `AInv` is needed to know that a row in flight has somebody at work.

`HostedZonesProofs` proves the type invariant and the three safety properties of
`HostedZones` for any users, names, rows, requests and faults, from `LabelOK`
alone (every name has a label). One inductive invariant, `ZInv`, carries them
all. `Tracked` says what a row (`RowOK`), a workflow (`WfOK`) and a request
(`ReqOK`) may rely on at each step: a request that is about to write
"provisioning" has read a verified row, one about to reclaim has read an expired
one, one about to delete acts for the owner. Requests rely only on facts that
are never lost (`Grows`: a row keeps its name and owner, stays verified, stays
expired), which is why acting on a stale row is harmless to these properties.
`Behind(i)` is what the activation running for row i has done so far;
`Activations` says that all of it is still there, unless the row is `Disturbed`,
and that an active row has the whole of an activation behind it. The step that
needs `Disturbed` is `OutsideKept`: only a deactivation of the same name, or an
activation with the same label, undoes what an activation has done.
`CertificatesAreOfTheLabel` is the most that holds in place of `CertificateIsOwn`:
a certificate that is not the zone's own is of another verified zone with the
same label (`CertsAreLabelled` is the invariant it adds to `ZInv`). So where no
two names share a label every zone has its own (`CertificatesAreOwn`), and the
finding is about `sanitizeDNSLabel` alone, not about the order of the workflows.

`ActiveIsKeptIfExpiredStays` is the true form of the finding about reclaimed
zones: with `[][ExpiredStays]_vars` (a row that has expired is moved by its
removal only) it concludes `ActiveIsKept`. A row that is removed was asked to be
or had expired (`RemovedMeans`, from `ZInv`), and a row that has expired is still
pending (`ExpiredIsPending`), so it is not active.

Three more theorems of that module say how far the workflows of a zone can be
trusted. `AttendedUnlessJoined` assumes that nothing fails and
`[][NoneIsJoined]_vars` (no request marks a zone as provisioning while its
activation runs), and concludes `ProvisioningIsAttended`; its invariant adds that
the activation of a provisioning row has not written its outcome yet (`Marked`).
`CreatedAfterwardsIsServed` narrows what `ServedUnlessDisturbed` leaves open: with
`[][CreatedAfterwards]_vars` (no row is inserted under a name of which a
deactivation runs or is about to be started) an active zone is served unless it
was itself deactivated or shares its label. A deactivation that has ended, with
its retries, undoes nothing of a later row, so the hazard of
`DeleteHostedZone` is exactly the overlap. Its invariant (`CInv`) has one live row
per name (`OneLive`), none of them with a deactivation of its name under way
(`NoneCloses`), and what activations have done still there (`HoldsInv`).
`ZoneWorkflowsDescend` is an action property without conditions: a running
workflow is moved by reports alone, and each brings it nearer to its end
(`ReportsLeft`), however often requests execute it again.

`DnsRecordsProofs` proves the type invariant, `ServedAsRecorded` and
`DomainsComeLive`, from `TypesOK`, `IpOK` and `NoneIsNothing`. `Shapes` says what
rows, requests and workflows look like (a workflow's row is in the table, live or
removed, and managed). `TargetsOK` is about one record set or route at a time (a
target): while the zone has its row, an uncontested target has at most one row,
one request and one workflow at work on it, and a request and a workflow together
only when the request is about to delete the row that its detach workflow is
cleaning up after (`WritersOK`); and what it holds is what they make of it
(`ContentOK`). With nobody at work it shows the row's content, or nothing when
the row is `undone` (`Shown`). With a workflow at work, what the workflow has
`Written` is there, and an attach that has not written yet finds nothing (`Right`):
that is needed because an attach may give up at any of its calls, and must then
not leave what an earlier row had. `Written` depends on the activity, because the
attach workflow writes the record set first and the route last and the detach
workflow the other way round. A step concerns the targets of one row (`Frame`,
`OneRow`); the others are left as they were (`Elsewhere`).

`DomainsAreServedOrAttended` reads `DomainsComeLive` off `TargetsOK` of the two
targets of the domain. `RecordWorkflowsDescend` (`WorkflowsDescend`) needs the
types only.

`BuildsProofs` proves types and `OnlyGitHubAsks` of `Pushes`, and types,
`ImageFromBranch`, `WorkspaceRemoved`, `ImplementsCache` and `OpenBuildsDescend`
of `Builds`. `OnlyGitHubAsks` is what `OnItsWay` says of a moment at which nothing
is under way: at every moment GitHub's head was asked for, is being delivered or
lost its request to a fault, and nothing of the internal server ever was, as
every snapshot a push has taken is empty (`RequestsOK`). `SinceOK` ties `since` to the head, so that what a clone
finds is in `since` of every commit pushed before it; `BInv` adds for each build
that its input was pushed (`InputOK`), that its directory holds something of
`since` of its tag or nothing (`SourceOK`), what its clean-up leads to (`EndOK`)
and which directories can be left (`LeftOK`). `OpenBuildsDescend` needs only the
types and `EndOK`: it is a case distinction on the step. `BuildsHaveRoom` bounds the
directories of a build by two in each round (`Room`), so that a build about to clone
has fewer than the four of `Dirs`. This is the one condition of `BuildStep` that
could leave an open build with no step to take; every other one comes with its
opposite in another disjunct. It is as near to `OpenBuildsGoOn` as can be said
without ENABLED.

`TenantsProofs` proves the type invariant and the six safety properties of
`Tenants`. `TInv` has a part for each module: `AInv`, `RInv`, `DInv`. A disjunct
of `Next` keeps the part of its own module, and moves one request at most
between the others' steps, which leaves their parts alone. In `AInv`, `LinksOf`
says of a user whose links never overlapped that the one link under way carries
a token of the account in the user's row. In `DInv`, `OnDb` says of a database
that no two deletions met on whose it is at each step: of the request that is
provisioning it, of its row, of the row whose deletion has taken it away; it
rests on the provider's refusing a name that is there and on rows being found by
name and user before anything is deleted.

So every invariant and every action property of the passing runs is proved for
all constants, except `OpenBuildsGoOn` and `WorkflowsGoOn`, which are about ENABLED
and out of the prover's reach. Only model-checked: those two, and the liveness
properties of deployments (`WorkflowsClose`, `RowsFinish`), which need fairness;
what they rest on is proved (`OpenWorkflowsAreServed` and `WorkflowsAdvance`,
`InFlightRowsAreAttended`). That the six statements of the findings do not hold in
general is TLC's to show, by its counterexamples; five theorems prove each of the
first five under the one condition that the code does not meet
(`PointerIsLiveOneAtATime`, `SnapshotIsDeployedWithoutUpdates`,
`AttendedUnlessJoined`, `CertificatesAreOwn`, `ActiveIsKeptIfExpiredStays`), and
`OnlyGitHubIsAsked` says how far the sixth goes: to every push to the internal
server, and to none to GitHub.

The conditions of the first three and of the fifth are action formulas beside `Spec`: they restrict
which requests come in and when, and leave every other step of the system as it
is. Behaviours that satisfy them are the ordinary ones, with one deployment after
the other, services that are redeployed and not edited, verifications that wait for
the activation to close, and zones that are verified well before they expire.

## 6. Not modelled

- **MCP OAuth bridge.** The handlers keep nothing between requests:
  registrations, states and codes travel, signed, in the requests themselves. No
  property relates two steps of this code.
- **Status checker.** A ticker loop that replaces one snapshot under a lock.
- **GraphQL.** `graph/generated.go` is a third of the implementation's lines and
  is generated; the resolvers call the services above. With the SQL bindings
  nothing calls, the HTTP clients, the tools' input validation and the wiring of
  the binaries it is why the map names about a seventh of the lines: what is left
  out has no state of its own.
- **The shared namespace.** `DeleteService` deletes a namespace that looks empty
  while another service of the project may be deployed into it; `Deploy` applies
  the namespace first and is retried, and no document says what is promised.
- **API keys and token verification.** Reads, except one INSERT or UPDATE each.
- **Outside systems.** GitHub, git, Temporal, PowerDNS, cert-manager, Turso and
  Kubernetes are modelled only as far as the code uses them.

What could be added: the namespace with two services, once the code says what it
promises; several services of one repository, each asked for by one push; and a
composition of `Deployments` with `Builds`, in place of the assumption that
`ImageCache` states, on an instance that TLC can finish.
