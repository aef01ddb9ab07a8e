# GIDP: verification project

GIDP is a Go backend that provisions infrastructure on a developer's behalf:
PostgreSQL hosts and k3s hosts on AWS (through Terraform), databases in those
PostgreSQL hosts, container deployments on those k3s hosts, GitHub
repositories and Docker Hub registries. Its own state is one PostgreSQL
database (`db/migrations`), a directory of Terraform workspaces and a
directory of SSH keys. What is hard about it is the work a request leaves
behind: a `POST` answers `202` at once and a goroutine runs Terraform for
minutes, while other requests read and write the same row, the same workspace
and the same host, nothing holds a lock, and nothing survives a restart.

The modules here model that work one step at a time. TLC checks them on small
instances; TLAPS proves for every value of the constants what is about safety.

    tlc -workers 2 -config db_instance.cfg MCDbInstance.tla
    tlapm DbInstanceProofs.tla

## 1. Inventory

| Component | State it keeps | Operations that change it | Who else touches that state |
|---|---|---|---|
| `dbinstance` | `db_instances` rows (`status`, `container_status`, `status_message`, `deleted_at`), a key pair, a Terraform workspace, AWS resources | `Create`, `Delete`, and the goroutines `provisionAsync`, `awaitPostgres`, `destroyAsync` | `databases` reads the row and lives on the host; its cascade runs inside `destroyAsync` |
| `databases` | `managed_databases` rows; databases and roles inside the PostgreSQL server of the instance | `CreateDatabase`, `DeleteDatabase`, `TeardownInstanceDatabases` | called by `dbinstance` through the teardown hook (`server.go:97`) |
| `deploymentinstance` | `deploymentinstance` rows, a key pair, a workspace, AWS resources, a kubeconfig file | `Create`, `Delete`, `provisionAsync`, `destroyAsync` | `deployment` reads the row and its kubeconfig; the delete guard counts deployments (`server.go:83`) |
| `deployment` | `deployment` and `deploymentrevision` rows, the objects in the k3s cluster | `Create`, `Delete`, the goroutine `watchRollout` | uses `registry` and `repo` rows, the live deployment instance |
| `repo` | `repos` rows, repositories on GitHub | `Create`, `Update`, `Delete` | `deployment.repo_id` refers to it |
| `registry` | `registries` rows, Docker Hub repositories, a cached hub token under a mutex | `Create`, `Update`, `Delete`, `accessToken` | `deployment` reads the row at create and at delete |
| `team` | `teams`, `team_members` rows | `Create`, `Update`, `Delete`, `AddMember`, `RemoveMember` | none |
| `auth`, `user` | `users` rows | `Register`, `Login` (time of last login) | `team` refers to users |
| terraform runner (`platform/terraform`) | the workspace directories | `prepare`, `Apply`, `Destroy`, `RemoveWorkspace` | `dbinstance`, `deploymentinstance` |
| `platform/sshkey` | the key directory | `Ensure`, `Remove` | the same two |
| server | none of its own | wiring of the hook and the guard; graceful shutdown | ends the process with goroutines still running (`server.go:166`) |
| lookup, health, config, small platform packages, tools | none | reads only | - |

Behaviours that are hard to get right and hard to test:

* *Interleaving.* Requests and goroutines share rows and files with no lock.
  Every check (`CountActive`, `status == ...`, quota, name) is separated from
  the write it protects by calls to disk, AWS, PostgreSQL or Kubernetes. What
  really decides are the partial unique indexes and the `WHERE` clauses.
* *Context lifetime.* A goroutine's context expires after `ProvisionTimeout`;
  the statement that would record the expiry often runs on that context.
* *Partial failure.* Row, workspace, key and AWS are written one after the
  other; every call may fail, and a failed SQL statement may have committed.
* *External services.* GitHub and Docker Hub are asked between two statements
  about a row, by name, with a 15 s timeout and on the context of the HTTP
  request: the answer may be lost, the service may act later, and the client
  may leave in between.
* *Restart.* Goroutines die with the process and nobody resumes their rows.
* *Teardown across components.* Destroying a host takes with it what other
  components stored on it.

What makes each component correct:

* `dbinstance`: one live row; whatever exists in AWS keeps what a teardown needs
  (a live row by which DELETE finds it, the state file, the key pair), although
  DELETE refuses a row in `provisioning` or `deleting`, where a crash or an
  expired context leaves it; a row says `running` only for a complete host; apply and
  destroy never overlap in a workspace; a deleted row is final; a row does not
  stay in a transient state for ever; the slot can always be regained.
* `databases`: one live database of a name per instance; a bounded overrun of
  the quota; a stored database exists; metadata goes only with a DELETE
  of the database or with its instance.
* `deploymentinstance`: as `dbinstance`, and an active row has a kubeconfig.
* `deployment`: one live workload of a name in a namespace; a bounded overrun
  of `max_deployments`; a running row has its workload; no live deployment on
  a terminated instance; a rollout is decided.
* `repo`, `registry`: a row has its external repository and a repository its
  row, whatever two requests do to each other; a request does not destroy the
  repository of another row; no row stays unfinished unnoticed.
* the hub token: valid whenever it is sent, renewed once for all callers, and
  never in the way of a caller for ever.
* `team`, `auth`: unique slugs, e-mails and usernames; memberships are unique.

PROJECT.json lists the hazards one by one, each at its line with the
properties about it. Some hazards do bite in the code: where a property must
except what the code does, the hazard's note says what is excepted and what the
property still catches.

## 2. Modules

| Module | Models | Lines up with |
|---|---|---|
| `InstanceSlot` | abstract: what a client can see of one slot of instances | the states of `db_instances.status` and of `deploymentinstance.status` |
| `HostRunner` | what the two kinds of instances share: AWS, workspaces, keys, goroutines, timeouts and crashes | `internal/platform/terraform`, `internal/platform/sshkey`, shutdown in `internal/server` |
| `DbInstance` | the `dbinstance` module, extends `HostRunner` | `internal/modules/dbinstance`, `internal/store/db_instances.sql.go` |
| `ManagedDatabases` | the `databases` module, extends `DbInstance` | `internal/modules/databases`, `internal/store/managed_databases.sql.go` |
| `DeploymentInstance` | the `deploymentinstance` module, extends `HostRunner` | `internal/modules/deploymentinstance`, `internal/store/deploymentinstance.sql.go` |
| `Deployments` | the `deployment` module, extends `DeploymentInstance` | `internal/modules/deployment`, `internal/platform/kubernetes`, `internal/store/deployments.sql.go` |
| `Repositories` | the `repo` module, with GitHub outside | `internal/modules/repo`, `internal/store/repos.sql.go` |
| `Registries` | the `registry` module, with Docker Hub outside | `internal/modules/registry`, `internal/store/registries.sql.go` |
| `HubToken` | the login token that the requests of `registry` share | `accessToken` in `internal/modules/registry/client.go` |
| `DbInstanceProofs`, `ManagedDatabasesProofs`, `DeploymentInstanceProofs`, `DeploymentsProofs`, `RepositoriesProofs`, `RegistriesProofs`, `HubTokenProofs` | theorems about the module of that name | - |
| `MC...` | symmetry for TLC, the namespaces of `Deployments`, the owners and names that GitHub and Docker Hub give in `Repositories` and `Registries` | - |

A definition marked `Mutant` is a plausible bug in the definition below it. No
specification uses it; replacing the one by the other shows that a property
notices.

### HostRunner

`keys` is the key directory. `workspace[i]` is `"none"`, `"empty"` (the
directory with the rendered `main.tf.json`) or `"tracked"` (a state file that
records resources). `cloud[i]` is what exists in AWS. Instances, random names,
workspaces and keys share one identity, as the code derives the others from
the random name.

A *worker* stands for one request and the goroutine it spawns. `pc[w]` says
which statement comes next, so each step is one access to a shared store, and
`inst[w]` the instance it is about. `Prepare, Apply...` are `Runner.Apply`;
`PrepareDestroy, Destroy..., RemoveWorkspace` are `provisioner.destroy`. Every
step has its failures beside it; that the key pair cannot be removed is at most a
warning, so `DropKey` may leave it. `expired` holds the workers whose context has
expired: their Terraform runs and the statements on that context fail from
then on. `Die` returns every worker to idle and leaves the stores as they are.

The constant `Faults` selects the faults of a run: `"db"` (a statement errors,
before or after it committed), `"timeout"` and `"crash"`. Terraform itself may
fail in every run. Assumed of the outside, because the code relies on it:
Terraform records a resource in its state file when it creates it and is
stopped with its context (`tfexec`); pgx fails a statement at once when its
context has expired; a random name is fresh.

Rows and names are never reused, so a finite instance runs out of them: the
configurations say `CHECK_DEADLOCK FALSE` for that reason only. That the code
itself does not get stuck is what `Driven` and the liveness properties say.

### DbInstance

`status`, `container`, `message` and `deleted` are the columns of
`db_instances` that decide anything; a row not yet inserted has status
`"absent"`. `CreateCount, Insert` are `Create` in service.go, `MarkProvisioned`
and `Postgres...` finish `provisionAsync` and `awaitPostgres`, `DeleteRead,
DeleteMark` are `Delete`, and `TeardownHook`, the destroy, `SoftDelete` and
`RemoveKey` are `destroyAsync`. `Timeout` expires the context of
`ProvisionTimeout` or the one of `ReadinessTimeout` that `awaitPostgres` polls
and reports success with; that it gave up it says on a context without an end.

### ManagedDatabases

Extends `DbInstance`: all its steps stay, `TeardownHook` becomes the three
steps of the cascade, and a host that disappears takes its databases with it.
`db` are the rows, `remote[i]` the databases in the server of instance `i`,
`task[c]` a request in flight with what it read. POST goes through
`CreateRequest` (the instance is ready), `Admit` (the sum), `CheckName`,
`RemoteCreate` and `InsertDatabase`, with `Refuse` and `Rollback` for its
failures; DELETE through `DeleteRequest`, `LookupHost` (which decides whether
anything is dropped), `DropRemote` (whose error is a warning) and `ForgetRow`,
whose UPDATE may fail before or after it committed. `suspect` is a history
variable: the names whose row and server have, or may have, parted, because
two requests for the name overlapped, a statement failed after the remote
change, or the process died between the two. `Backed` says there is no other
way. The bound of the model is in `CreateRequest`: one unused row per request.

`MinSize` and `MaxSize` are `MinSizeMB` and `MaxSizeMB`, in a coarser unit.
`Allocated`, the sum that `GetTotalAllocatedMBByInstanceID` computes, counts
the units of space of the active databases (pairs of a database and a number
up to its size): a sum over a set is a recursion over data, about which
nothing can be proved here, and a cardinality is not.

### DeploymentInstance

The same life of a host, with the differences that the code has: `DeleteRead`
refuses only `provisioning` and nothing marks the row, so an instance is
active while it is destroyed and any number of teardowns may run;
`CaptureKubeconfig` stands for `awaitK3s` and `captureKubeconfig` and writes
the file (`kubeconfigs`); only the failure of the apply is recorded on the
expired context. `referenced` are the rows with a `credentials_ref`.
`condemned` is a history variable: the rows a teardown was started for, which
no column tells. `GuardPasses` and `GuardRefuses` are the delete guard, left
open here.

### Deployments

Extends `DeploymentInstance`: its steps stay, the guard now counts deployments
(`server.go:83`), and a host that disappears takes its workloads with it.
`db` are the rows, `cluster[i]` the workloads in the k3s of instance `i`, each
known by its key (namespace and name). A client is one request to
`/deployments` with the watcher it leaves behind; `task[c]` is where it is and
what it has read. A manifest is deleted from its last object to its first, so
`DeleteWorkload` comes before `DeleteNamespace`, which never succeeds for the
default one. Kubernetes deletes a namespace asynchronously: the call only marks
it (`ending[i]`), the objects in it go one at a time later (`WorkloadGoes`), then
the namespace (`NamespaceGoes`), and until then it takes no new object
(`Applied`). Any call of `DeleteManifest` may fail before or after the cluster
acted on it (`DeleteManifestFails`). `Delete` works on the instance that is
active, whatever instance the row names (`Locate`). `SetStatus` is the UPDATE
by id alone; the unique index may refuse it.

`suspect` is a history variable: the keys whose row and workload may differ
because two requests met on them, a deletion could remove the workload of
another row, the result of a deletion could not be written, or the process
died. `RunningIsBacked` and `WorkloadAccounted` say that there is no other
way. The bound of the model is in `CreateRequest`: one unused row per request.

In the run there is one instance: that a DELETE which works on another instance
than its row's does no harm there is shown by the proof, for any instances.

### Repositories

`rows` is the table `repos`; of a row the status, the unique key `owner`,
`name`, and the `full_name` GitHub gave (`full`, set with `external_id`) are
kept. `github` says which request's repository has a full name. `task[c]` is a
request in flight: POST goes through `Insert, MarkCreating`, one of
`GitHubCreates, GitHubRefuses, GitHubUnanswered`, and `Activate` or `Fail`;
DELETE through `DeleteRead`, which goes to GitHub only for an active row with an
`external_id`, one of `GitHubDelete...`, and `EraseRow` or the refusal by the
foreign key of `deployment`. `Update` is the single UPDATE of PUT.

`Login` and `Slug` are what GitHub makes of the owner and the name it is asked
for; the code stores GitHub's answer. A request without an organization is
stored under the portal's username and created under the account of the token,
so two owners may be one on GitHub, and `Activate`, which makes GitHub's owner
the row's (and leaves the name as it was asked for), may meet the unique key.
`calls` are the requests GitHub received and nobody waits for; `LateCall` is
GitHub acting on one. `Cut` ends a request anywhere: all its statements and calls
use the context of the HTTP request, and shutdown waits 10 s (`server.go:186`)
for a client of 15 s.

Three history variables name the exceptions, and the properties say that there
are no others.

* `parted`, identifiers whose row and repository have, or may have, been
  separated: the answer to the creation or to the DELETE was lost; the request
  was cut off in the call to GitHub or later in a DELETE; the DELETE read the row
  when it was not active or recorded nothing; the foreign key held the row; or
  the repository was made under a full name that another row, request or late
  call still aims at (`Aimed`).
* `dropped`, rows whose POST ended before it could say how: it was cut off, or
  `Activate` met the unique key (`service.go:103`). The latter leaves a
  repository on GitHub that its row, which stays in `creating`, does not record;
  `RepositoryRecorded` says that the row is there, not that DELETE reaches GitHub.
* `reopened`, rows a PUT has put back into `pending` or `creating`, which the API
  accepts (`dto.go:18`): nobody works on them.

### Registries

The same for Docker Hub, in the opposite order: POST looks the name up, asks the
hub and inserts the row last, so a broken request leaves a repository without a
row and never an unfinished row. A name is a namespace with a name, and the row
stores the one the hub answers with, `Slug` of the one that was asked for and
looked up; so a POST may make a repository and then meet a row of its name. A
live row is one with `deleted_at IS NULL`, and a name is free again after the
soft delete. PUT changes the status and not the name, and DELETE asks the hub in
every status. `parted` are the identifiers of a POST or DELETE that lost the
hub's answer or was cut off, of a POST that could not insert its row, and of a
repository made under a name that a row, a request or a late DELETE still aims at.

### HubToken

`accessToken` with time. `token` is the cached token with the time it was
issued, which the code does not know, and the expiry the code gave it;
`mutex` is held from `Lock` to `Use`, through a login; `call[c]` is a caller
with the start of its HTTP call. `Tick` is the clock, which cannot pass an HTTP
call's timeout while the call is open. The hub stamps a token when it handles
the login, the code counts `tokenTTL` from the arrival of the answer, and the
request that bears the token reaches the hub up to another timeout after the
check: `MarginAssumption` is that 25 minutes and twice 15 seconds fit into the
30 minutes of a token. That the request fails after its timeout is Go's
`http.Client.Timeout`.

## 3. Runs

| Run | Instance | Shows |
|---|---|---|
| `db_instance` | 2 rows, 3 workers, all faults | safety of `dbinstance`: `AtMostOneLive`, `Recoverable`, `RunningIsUp`, `ApplyIsAlone`, `DeletedIsFinal`, and that it implements `InstanceSlot` |
| `db_instance_liveness` | 2 rows, 2 workers, no faults | `Driven`; `provisioning`, `deleting` and a pending container end; an insisting client regains the slot |
| `db_instance_stuck` | 1 row, 1 worker, timeouts | violated: a provisioning that times out never leaves `provisioning` |
| `managed_databases` | 1 instance, 1 worker, 2 clients, 3 rows and names, database errors and crashes | `NamesUnique`, `OverrunBounded`, `Backed`, `OnlyItsOwnTeardown` |
| `databases_cascade` | 1 instance, 2 clients, no faults | violated: a database is stored on a deleted instance |
| `deployment_instance` | 2 rows, 3 workers, all faults | safety of `deploymentinstance`: `AtMostOneLive`, `Recoverable`, `ActiveIsUsable`, `ApplyIsAlone`, `TerminatedIsFinal`, and that it implements `InstanceSlot` |
| `deployments` | 1 instance, 1 worker, 2 clients, 2 rows, 3 keys in two namespaces (one the default), database errors and crashes | `HolderUnique`, `RunningIsBacked`, `WorkloadAccounted` |
| `deployments_capacity` | 3 rows and 3 keys in one namespace, a limit of 1, no faults | `CapacityOverrunBounded` |
| `deployments_guard` | 1 instance, 1 client, 1 row, no faults | violated: a deployment holds a terminated instance |
| `repositories` | 2 rows, 3 clients, two names and two owners in the portal that are one on GitHub, `pending`, `active` and `archived` by PUT, lost answers and cuts | `RecordedExists`, `RepositoryRecorded`, `NamesakesAreRenamed`, `UnfinishedIsWorkedOn` |
| `registries` | 3 rows, 3 clients, 3 names of which two are one on the hub, lost answers and cuts | `RegistryExists`, `RepositoryListed` |
| `hub_token` | 3 callers, TTL 2, timeout 1, lifetime 4 (the least `MarginAssumption` admits), clock to 8 | `ValidInFlight`, `OneLoginWhenStale`, `EveryCallerProceeds` |

*Why the bounds are enough.* A hazard of `dbinstance` needs two rows (an old
one whose goroutines are late and its successor in the slot) and up to three
workers on one row: a late `awaitPostgres` and two overlapping teardowns, or
two POSTs with a DELETE. The quota and the names of `databases` need two
requests at once and a third row for a name that is created again; one
database of size 2 fills the capacity of 2, so a second one admitted with it
overruns it. The hazards of `deployment` need two clients (a watcher or a
creation, and a deletion), a row that took over the name or shares the
namespace of another, and for the capacity a third row beyond the two that a
limit of one admits at worst. In `repositories` the second row is the successor
whose repository a late call or a second DELETE destroys, and the third client
the one that makes it meanwhile; all portal names and owners being one full name
on GitHub, every two rows contend for it, and that different full names do not
disturb each other is left to the proof. Of the statuses of a PUT, `pending`
stands for `creating` and `archived` for `failed`: the code compares a status
with `active` only. In `registries` it takes a third row, and as third client a
POST whose own repository was removed while it waited to insert. In `hub_token`
the clock lets a token expire and be renewed twice. Rows, workers, clients and
the names of `databases` and of deployments in one namespace are interchangeable,
which makes their symmetry sound (it is not used for the callers of `hub_token`
nor for the owners and names that GitHub and the hub tell apart); the runs of
temporal properties do not use it.

*Fairness.* `FairSpec` assumes that a request or goroutine that has begun
keeps being scheduled (weak fairness of each worker's steps; Terraform and the
readiness poll end because their contexts do). It assumes neither that
requests arrive nor that Terraform succeeds. `FreedIfInsisted` states those
two as its own hypotheses: a client that repeats DELETE and a destroy that
does not fail for ever. Liveness is checked with `Faults = {}`: the code
promises nothing after a crash or an expired context, which
`db_instance_stuck` shows. That the context of the readiness poll expires between
the dial and its UPDATE is therefore in `db_instance` and not in
`db_instance_liveness`. `TLiveSpec` of `HubToken` assumes weak fairness of
a caller that holds the mutex or has an HTTP call open, which ends by its
timeout, and strong fairness of `Lock`: Go's `sync.Mutex` goes over to strict
hand-over when a goroutine has waited for a millisecond. No login is assumed to
succeed.

## 4. Proofs

The proof modules prove their results for every value of the constants.

`DbInstanceProofs` proves, for any sets of instances and workers and any
`Faults`:

* `TypeCorrect`, `OneLiveInstance` (`AtMostOneLive`), `NothingOrphaned`
  (`Recoverable`), `RunningHasHost` (`RunningIsUp`), `ApplyUndisturbed`
  (`ApplyIsAlone`), `DeletedRowsFinal` (`DeletedIsFinal`);
* `SlotImplemented`: `Spec => Slot!Spec`, the refinement of `InstanceSlot`
  with `host` the instances that own anything in AWS;
* `NothingAbandoned` (`Driven`), under the assumption `Faults = {}`.

None of the invariants is inductive alone. `IndInv` conjoins `TypeOK`,
`AtMostOneLive` and
`Control` (what a program counter says of the row, the workspace and the
key: for instance that a worker between `destroyed` and `unkey` finds nothing
in AWS), `CreatorIsAlone` (a worker between drawing a name and the end of its
apply shares its instance with nobody), `Recoverable` and `RunningIsUp`.
The heart of the argument is that `DeleteRead` refuses `provisioning`, the
status a row keeps while its creator works, so an apply never meets a destroy;
and that destroys only shrink what exists, so overlapping ones do no harm to
`Recoverable`. The proof has one case per action; the step and refinement
theorems reuse `IndInv`.

`DeploymentInstanceProofs` proves `TypeCorrect`, `OneLiveInstance`,
`NothingOrphaned`, `ActiveHasHost` (`ActiveIsUsable`), `ApplyUndisturbed`,
`TerminatedRowsFinal` and `SlotImplemented` along the same lines. Its `IndInv`
has one more part, `CondemnedIsPast`: an instance is condemned only once its
apply is over and its row has left `provisioning`, which stands in for the
status that DELETE does not write. The abstract `"deleting"` is an active row
that is condemned.

`HubTokenProofs` proves `TokenValidInFlight` and `TokenOneLogin` for any set of
callers and any times that satisfy `MarginAssumption`; type correctness
(`TTypeOK`) is proved rather than checked. The invariant `TInv` adds who holds
the mutex (`Held`), that a login runs only on a stale cache (`Stale`), where
the clock is in an open HTTP call (`Timely`), and what a late answer can add to
the life of a token (`Margin`), from which `ValidInFlight` follows by adding up
the two timeouts.

`RepositoriesProofs` proves, for any rows, requests, names and GitHub owners,
`RepositoryTypeCorrect`, `NamesakesRenamed` and `UnfinishedWorkedOn`. The
invariant `RInv` conjoins the types, what a request in a given step carries
(`NamedTask`), the unique key over the stored rows (`KeysUnique`), and that a
row which records a repository has GitHub's owner of it (`OwnerIsGitHubs`). Two
rows that record one full name then have one owner, so by the key two names, and
one of them is not GitHub's: a PUT renamed it, or GitHub named it otherwise.
`UnfinishedIsWorkedOn` is inductive given the types (`UnfinishedStep`, one case
per action), for any `Edits` the API accepts.

`ManagedDatabasesProofs` and `DeploymentsProofs` are about a component on top
of another. `InstanceImplemented` shows in each that the composition implements
the module below (every step of it is a step of the instance or a stutter), so
`IndInv` and all that follows from it hold without being proved again.
`StatusMoves` and `HostMoves` say what the instance may do meanwhile, the former
read off the refinement of `InstanceSlot`: no status goes back to `provisioning`.

`ManagedDatabasesProofs` proves `DatabasesTypeCorrect`, `OneDatabaseOfAName`
(`NamesUnique`), `DatabaseExists` (`Backed`), `MetadataDeletedByOwner`
(`OnlyItsOwnTeardown`) and `QuotaOverrun` (`OverrunBounded`). `Backed` is not
inductive: a rollback could drop the database of another row. `MDInv` says why
it does not, outside `suspect`: a request is alone on its name (`Solo`), so one
that has something to roll back has seen no row of the name, and one that
inserts has a database on the server (`Informed`); rows and requests belong to
hosts that have left `provisioning` (`Placed`), so the host does not change
under them; and between `DropRemote` and `ForgetRow` it is the DELETE that
answers for the row (`BackedOrForgotten`). `OverrunBounded` adds up what is
stored and what the requests past the check may still store: the invariant
`Room` names one of them by its own size, since the last one admitted was seen
to fit, and allows `MaxSize` for each other. Three kinds of steps carry it
(`RoomStep`): those that bring nothing new, those that admit a request and those
that store one.

`DeploymentsProofs` proves `DeploymentTypeCorrect`, `OneHolderOfAName`
(`HolderUnique`), `RunningHasWorkload` (`RunningIsBacked`), `WorkloadHasRow`
(`WorkloadAccounted`) and `CapacityOverrun` (`CapacityOverrunBounded`). `DInv`
adds the unique index (`OneHolder`); which row a creator, a watcher or a DELETE
has in hand, and that a DELETE works on another host than its row's only when
that one has been terminated (`CarriesItsRow`, `OneMaker`); that a DELETE has made suspect
whatever else it may remove (`Met`), and so is what is left in a namespace on its
way out (`Leaving`); what a request that met nobody may rely on (`Informed`); and
whose fault a missing workload is (`BackedOrDeleting`). The capacity is the harder part, because a failed row
gives its place up and its watcher may take it back after another request has
been let in: `Counted` bounds the rows that hold capacity together with
`Claims`, the requests that may yet make one hold. Each step keeps both, takes
up a claim, gives up capacity for one claim, or lets a request past a count
below the limit (`Keeps`, `Takes`, `Yields`, `Admits`); `CountStep` shows from
facts about cardinalities that each of the four stays within the bound.

`RegistriesProofs` proves `RegistryTypeCorrect`, `RegistryHasRepository`
(`RegistryExists`) and `RepositoryHasRegistry` (`RepositoryListed`). `GInv` says
that outside `parted` an identifier is used by one POST (`CarriesItsRow`), that
what a POST has made is still there when it stores the row (`MadeIsKept`), that
nobody but its own DELETE aims at what a live row stands for (`ListedIsKept`,
`NotTargeted`), and that what the hub has is listed or about to be
(`KeptIsListed`); a call nobody waits for is about a parted identifier
(`LateIsParted`).

`RepositoriesProofs` proves the same of GitHub, `RecordHasRepository`
(`RecordedExists`) and `RepositoryHasRecord` (`RepositoryRecorded`), from `HInv`
beside `RInv`. Here the row comes first and a rename may aim two rows at one
repository, so there is more to say: a POST under way is the only maker of its
row (`OneMaker`, `MadeAlone`), once a DELETE has removed the repository,
nothing of that identifier is left (`ErasedIsGone`), and no POST works on a row
that was dropped (`DroppedIsLeft`).

The assumptions are those of the modules: times as in `MarginAssumption`,
`MaxDeployments` at least 1, `MinSize` at least 1, a finite set of clients (in
`ManagedDatabases` not empty) where something is counted, and that `None` is
none of the values it stands beside; that what GitHub and the hub make of an
owner or a name is an owner or a name (`Login`, `Slug`). Instances, rows, workers, names and keys
may be any sets, and `Faults` any subset of the faults.

Every safety property of a passing run is proved. Only model-checked is liveness,
which is out of the prover's reach: `ProvisioningEnds`, `DeletingEnds`,
`ContainerReported` and `FreedIfInsisted` of `db_instance_liveness`, and
`EveryCallerProceeds` of `hub_token`.

## 5. Findings

Three disagreements between the code and what its docs or comments say, each
shown by a violation run and described in PROJECT.json under `findings`:
`db_instance_stuck`, `databases_cascade`, `deployments_guard`. The models have
other surprises that no document speaks about, as exceptions their properties
must make: two DELETEs of an instance run two teardowns; a rollback can drop the
database of another request (`suspect` of `ManagedDatabases`); DELETE of a
namespace takes the workloads of others with it; a second, late DELETE destroys
the repository of a successor (`parted` of `Repositories` and `Registries`); a
POST of a repository that GitHub puts under the owner of a namesake leaves it
unrecorded and its row in `creating` (`dropped`).

## 6. Plan

Done: the two kinds of hosts, the two modules that live on them, the two modules
that mirror an external service, and the hub token, each with the proofs of its
safety properties.

1. `Registries` joined with `Deployments`, whose DELETE needs the registry row.
2. Roles and passwords in `ManagedDatabases`.
3. Liveness of `DeploymentInstance`, and of the rollout watcher.

## 7. What is not modelled

Users and teams: each operation is one SQL statement (a registration two
look-ups and one), whose uniqueness is an index's or, for memberships, nobody's;
a model could only repeat the schema. Login, reads and listings (no state),
request validation (inputs are drawn from valid ones), the text of Terraform
files, manifests, e-mails and passwords, generated code, and the `tools`
directory. Roles inside PostgreSQL
are not modelled, so the password races of `client.go` have a hazard and no
property.
