# A verification project for CoderManager

CoderManager is an HTTP service that provisions Coder instances. It keeps its
state in PostgreSQL, runs its operations as durable jobs on Celery workers and
changes three remote systems: Argo CD, a pool of PostgreSQL databases, and
Coder. This directory holds TLA+ models of it, TLC configurations that check
them on small instances, and TLAPS proofs for every size. Paths below are
relative to `src/src/coder_manager/` unless they start with `src/`.

## 1. Inventory

| Component | State | Operations | What makes it correct |
|---|---|---|---|
| Durable job engine (`tasks/common/execution.py`, `registry.py`, `repositories/job_executions.py`) | `job_executions` rows; `job_id`, `action`, `step`, `status` of every resource row | claim, advance, complete, defer, fail, heartbeat, retry preparation, dispatch | one owner per resource; the two rows agree; every step is committed once and in order; every job settles |
| Beat recovery scan (`tasks/retry_job_executions.py`) | a list of identifiers and a threshold, in memory | snapshot; per job prepare and dispatch | never takes a fresh claim away; brings every stuck job back |
| Instance operations (`repositories/instances.py`, `tasks/instance/**`) | instance row, administrator password and candidate, `state` | create, start, stop, sync, delete | schema before Application and after it; absence confirmed before destruction; password never lost; success means usable |
| Argo CD client (`domains/argocd/`) | none locally; the Application remotely | ensure, exists, delete | never writes over an active operation; deletion is confirmed |
| Hourly state check (`tasks/check_instance_states.py`) | a snapshot in memory | observe, store | stores only what is still true |
| Member reconciliation (`repositories/members.py`, `tasks/instance/update/`) | member rows | create, change role, delete, claim, fail, defer, finalize | every accepted change is applied; a removed member loses its Coder user |
| Workspaces (`repositories/workspaces.py`, `tasks/workspace/`) | workspace rows, remote identifiers | create, update, delete; adopt, build, wait | at most one remote workspace per row, none after deletion; success means the requested name and parameters |
| Templates, assignments (`repositories/templates.py`, `template_assignments.py`, `tasks/template/`) | template, assignment and deployment rows | catalog changes, sync, assign, unassign; upload, import, publish, remove | a successful deployment is what Coder serves; no foreign template is touched; no request wedges the others |
| Parameters, images, modules (`repositories/template_parameters.py`, `template_images.py`, `domains/workspaces/`) | definitions, images, modules; parameter snapshots of workspaces | define, change, delete; resolve, snapshot, mark applied | fixed and historical values stay; a payload can be repeated; what is accepted is delivered |
| Kubernetes provider (`repositories/instance_kubernetes.py`) | cluster settings of an instance | upload, which opens an instance update | starts only on an instance without an operation under way |
| Database pool (`repositories/managed_databases.py`) | databases, allocations | add, change, delete, reserve | never more than `instance_max` allocations; no allocated database is deleted |
| Daily workspace stops, Coder loops (`tasks/daily_workspace_stops.py`, `domains/coder/service.py`) | a listing, builds waited for, a deadline, in memory | page, submit, wait, list again | ends; misses nothing |
| Row locks (`SELECT ... FOR UPDATE` in all repositories and steps) | locks held by sessions | lock, wait, commit | no circle of sessions that wait for each other |
| API, authentication, crypto, metrics, configuration, template source | | | not state machines; see section 8 |

Components interact through rows of one database and through Celery messages
that carry a job identifier and name a task. A route commits a resource
transition together with its job and dispatches afterwards. A worker claims the
job in one transaction, calls remote systems without holding a lock, and
finishes in another transaction that is fenced by job, step and attempt. Beat
redelivers what was lost, deferred or failed, and takes expired claims back.

The hard behaviours are therefore: two workers in the same step after a
reclaim; messages lost, repeated and late; a crash between a remote call and
the transaction that records it; a scan or an observation used after the row
has moved on; a listing read page by page while its workspaces change; catalog
requests between a workspace request and its retries; a crash between the
creation of a remote object and the store of its identifier; and everything
that only Beat brings forward again. The
`hazards` of `PROJECT.json` list them at the line where they bite.

## 2. Modules

| Module | Models | Uses |
|---|---|---|
| `JobRows` | the rows, and each transition of `execution.py` as an operator on records | |
| `JobExecution` | the engine: requests, broker, workers, Beat scan, faults | `JobRows` |
| `DurableWorkflow` | abstract specification: what the engine promises | |
| `Workflows` | the step graphs and the states in which requests are accepted | |
| `InstanceLifecycle` | one instance, its remote systems and the hourly check, on the engine | `JobExecution` |
| `MemberReconciliation` | member rows, access policy and Coder accounts of one instance, on the engine | `JobExecution` |
| `DatabasePool` | capacity reservations as interleaved database transactions | |
| `WorkspaceLifecycle` | workspace rows, their remote workspaces and builds, and the deletion of the instance around them, on the engine | `JobExecution`, `Workflows` |
| `WorkspaceSweep` | the loops that stop or delete all workspaces, page by page, with users around them | |
| `WorkspaceConfiguration` | parameter definitions, images and modules against the workspaces that use them | |
| `TemplatePublication` | template and assignment requests, publication and removal, on the engine | `JobExecution`, `Workflows` |
| `RowLocks` | the order of the row locks of every transaction | |
| `MC...` | constants for TLC; the ones on the engine take their tables from `Workflows` | the module of that name, `Workflows` |
| `JobExecutionProofs` | type correctness and the engine's invariants, and that it implements `DurableWorkflow`, proved | `JobExecution` |
| `InstanceLifecycleProofs` | the safety properties of instances, proved | `InstanceLifecycle`, `JobExecutionProofs` |
| `MemberReconciliationProofs` | the safety properties of members, proved | `MemberReconciliation`, `JobExecutionProofs` |
| `TemplatePublicationProofs` | the safety properties of templates and assignments, proved | `TemplatePublication`, `JobExecutionProofs` |
| `WorkspaceLifecycleProofs` | the safety properties of workspaces, proved | `WorkspaceLifecycle`, `JobExecutionProofs` |
| `TransactionProofs` | no database is overbooked, and a deadlock includes one of four transactions, proved | `DatabasePool`, `RowLocks` |
| `WorkspaceSweepProofs` | the loops that stop or delete workspaces miss only what slips behind their listing, proved | `WorkspaceSweep` |
| `WorkspaceConfigurationProofs` | all properties of the configuration, proved | `WorkspaceConfiguration` |

### JobExecution

`jobs` and `resources` are the tables, `queue` the undelivered messages,
`claims[w]` the `ExecutionClaim` a worker runs under, `scans[s]` a running
recovery scan. Each action is one transaction of the code with the dispatch
that follows its commit. Merging the two loses nothing, since the broker may
hold the message for any time, and a process that dies in between is a
refused dispatch.

* Time is the field `claimed` of a job: `none`, `fresh` or `expired`. `Expire`
  moves it. A scan keeps the set of jobs that were expired under its own
  `stale_before`; a claim or a heartbeat takes the job out of that set.
* The registry pairs every step with one task, so one field stands for
  `job.step` and `job.task_name`.
* `Request` covers every route that opens a job on a row; `Transitions` says
  from which action and status. A creation may take a row identifier that was
  deleted before: this stands for a new row and only adds behaviours.
* `Continue` is the end of `_finalize_update` that opens a successor job.
* `disturbances` counts what goes wrong: refused, lost or repeated messages,
  failures, deferrals, crashes, claims that expire under a live worker, scans
  that die; in `TemplatePublication` also an administrator's templates. It is
  the only bound on behaviour besides the constants, and the proofs hold for
  every value of it.

### InstanceLifecycle

Each action of the engine is conjoined with what the step writes on the
instance row in that transaction (`LAdvance`, `LComplete`, ...), and each
remote call is an action of its own between claim and finish, with `call[w]`
the place inside the step. `app` is the Argo CD Application (absent, idle, busy
with an operation, deleting), `schema` the PostgreSQL schema, `admin` the
password of Coder's first user, which lives in that schema. `check` is the
hourly task, in three steps: snapshot, observation, store.

Argo CD is external. It ends operations and deletions when it likes
(`Settle`), may start an operation when an Application is written (`Written`),
and refuses to synchronize an Application that is absent or being deleted.

`StaleWorkersAct` tells two deployments apart. With `FALSE`, a remote call
returns before the claim it runs under is reclaimed; with `TRUE`, it may be
later, since nothing but a heartbeat stops it and most steps send none.

### MemberReconciliation

`members` are the member rows, `policy` what the Application grants, `users`
the Coder accounts, `pass[w]` how far a worker is inside its step and which
members it claimed. Step 1 of an update claims the members and takes the policy
snapshot in one transaction (`ClaimMembers`), writes it (`WritePolicy`) and
advances; step 2 claims again (`ClaimCleanup`), lists and deletes accounts, each
behind a heartbeat, and ends in `_finalize_update`: `MComplete` when nothing is
queued, `MContinue` when a change came in meanwhile. A start reads the members
without claiming them and shares step 2. Stops, syncs, failures, deferrals and
crashes run next to them. The instance starts after a successful update, with
any set of reconciled members. Writing and removing the Application are single
steps here; `InstanceLifecycle` takes them apart. Refusals for protected names,
workspaces or template assignments only narrow the requests. `Spare` keeps an
unused job identifier for the successor, so that the bound on jobs never
blocks `MContinue`.

### DatabasePool

Transactions under READ COMMITTED are split into the row locks of their
`SELECT ... FOR UPDATE`, taken one at a time, the allocation count with a
snapshot of its own, and the commit. A row that disappears while it is waited
for drops out of the result. `FreeSlot` takes no lock on a database row, as in
the code. Locks are taken in any order, and `Rollback` may end any transaction,
so a lock cycle is a rollback (PostgreSQL aborts one of the sessions).

### WorkspaceLifecycle

`rows` are the columns of a workspace besides those of the engine: its name,
parameters, remote identifier, and whether the parameters are still to be
built. `coder` holds the remote workspaces with their latest build, `act[w]`
how far a worker is inside its step, `inst` the instance as its deletion
leaves it. A step is split at its remote calls: look up by identifier or by
name (`Lookup`), create or submit a build, store the identifiers, wait, store the
result. Builds end or fail when Coder likes, and owners stop and start their
workspaces. Requests rename a row from
`success` and from `error`, as in the code. `misnamed` is a history variable: a
request was accepted that gave a row another name than its remote workspace has
while the row does not know that workspace by its identifier, or a name that the
workspace of another row still has in Coder (`Misnames`). Nothing in the code
looks for either, and the properties hold until it happens; what happens then
is in section 6. `Empty` is the snapshot without parameters: the create step
compares it with the empty parameters of a build that starts nothing, and so
reuses such a build. `InstanceDeletes`
lets the deletion of the instance run next to workspace jobs.

Two things a reader of the code may want to know, which the properties allow
for by name. After a failed deletion whose delete build still runs, an update
without new parameters waits for nothing and reports success while the remote
workspace disappears (`SuccessIsApplied` excludes it). And the image and the
modules of a workspace are stored and validated, but no step sends them.

### WorkspaceSweep

One loop of `domains/coder/service.py`, by `sweep.mode`: `stop`, `delete_all`
and `delete_template` list, submit, wait and list again until a listing is
empty; `daily` lists once. A listing is read page by page, each page a separate
answer of Coder at its own moment, with the checks of `_all_workspaces` (an
equal count, no repeated identifier) and the restart when one fails. Users
create, start, stop and delete at any time. `kept` is a history variable: the
targets that stayed targets since the listing began. A loop that returns while
`kept` is not empty has missed a workspace that was there all along; one
created or started during the listing is no miss. `slipped` is another: what
moved behind the listing while it ran. That is a workspace whose start build
ended (`running` is listed before `starting`), and, when a workspace leaves the
listing between two pages, those that come after it and move up by one. Both
may happen at any point of any loop; `NothingIsMissed` says that they are the
only ways to miss a workspace, and that `delete_all` misses none even so.

### TemplatePublication

`src` is what a synchronization reads (source path, branch head, revision of
the system parameters), `dep` the deployment rows, `remote` and `version` the
templates and versions in Coder, `inst` and `ws` the instance and the
workspaces of an assignment as far as requests look at them. `configured` are
the instances that have a provider configuration, which is uploaded once and
opens an instance update whatever the assignments do. Workspace requests want
an instance without an operation under way, stopped or not. `strays` is a
history variable: the manager's own templates whose only trace, the stored
version, was dropped because the attempt after a push wanted another commit
(`Forgotten`). Publication is split at each remote call and each store of an
identifier: fetch, prepare, find the managed template, upload, wait for the
import, create or publish, store. Removal is the sweep of the template's
workspaces (its loop is in `WorkspaceSweep`), the deletion of the remote
template, and the removal of the local rows. `Events` switches on what may
happen besides requests and faults: a moving branch, a changed source path or
parameter, an instance stop, a failing import, a template made by an
administrator, an upload of a provider configuration. `MaxChanges` bounds the
changes and uploads, `MaxAttempts` the attempts of a job. An instance update
refuses any number of attempts; the last two that the bound leaves wait for its
end.

### RowLocks

Each transaction is the sequence of its locking statements, read from the
repository method or step that runs it: one row of a table, several in the
order of an `ORDER BY`, or several in any order. A session runs one
statement after the other, asks for its rows one at a time, waits
while another session holds one, and releases all at its end. `Detect` is
PostgreSQL, which rolls back a session of a circle. `AllTransactions` has them
all. `Disorderly` are the four that do not follow `LockOrder`: the two removals
at the end of an instance and of an assignment deletion, which go back to the
workspaces, and the end of an update and the synchronization of an instance,
which lock its members in no fixed order. A job is
`live_job` or `settled_job`: the catalog deletes only jobs that have
succeeded, and no step locks those before another row.

### WorkspaceConfiguration

`defs` are the parameter definitions (user or system, required, mutable,
default), `catalog` the images and modules, `ws` the workspace rows, `sent` the
snapshot an attempt has read, `coder` the values of the last build. Requests
resolve a payload as `resolve_user_parameters` does; a step sends those of the
row's values whose parameter is still defined. `put` and `touched` are history
variables. `SuccessIsDelivered` leaves out the parameters in `touched`: a user
parameter that is deleted before its value was built and then defined again is
not delivered, and repeating the request changes nothing, since the row already
has that value.

## 3. Runs

| Run | Bounds | Shows |
|---|---|---|
| `engine_safety` | 3 jobs, 1 instance, 2 workers, 1 scan, 2 faults, all instance operations | the engine's invariants, the two action properties and the refinement |
| `engine_liveness` | 2 jobs, workspace operations and a system job, 2 workers, 2 faults | every accepted job settles |
| `instance` | 3 jobs, 1 worker, 1 fault, 2 passwords | `ConfirmedAbsence`, `ApplicationHasSchema`, `SuccessIsUsable`, `AdminPasswordIsKept`, `NoOrphans`; an accepted deletion completes |
| `database_pool` | 2 databases, 2 instances, 3 sessions, `instance_max` up to 2 | `WithinCapacity`, `CountsAreSafe` |
| `members` | 2 members, 2 roles, one request and its successor, 1 worker, 1 fault | `MembersAreReconciled`, `DeletedMembersAreGone`; every queued change is carried through, unless a stop takes over |
| `stale_members` | 2 members, updates only, 2 workers, 1 fault, `StaleWorkersAct` | `MembersAreReconciled` violated: the finding of section 6 |
| `workspaces` | 1 row, 3 requests, 2 names, 2 parameter values, 1 worker, 1 fault, instance deletion | `RemotesAreReachable`, `SuccessIsApplied`, unless misnamed; every request is carried through, unless the instance is deleted and except the update of a workspace that was never created |
| `sweep` | all four loops, 2 workspaces, pages of 1 | `NothingIsMissed`; every loop ends |
| `template_requests` | 1 assignment, 3 requests, 1 worker, 1 fault, 1 change: a push, a changed path or parameter, or a provider upload; failing imports, instance stops | `SuccessIsPublished`, `OwnTemplatesAreRecognised`, `RequestsExclude`; every request is carried through, unless a target is stuck |
| `template_targets` | 2 assignments, 3 requests, 1 worker, 1 fault, a moving branch, failing imports, an administrator's template | `SyncReachesEveryTarget`, `SuccessIsPublished`, `ForeignTemplatesAreSafe` |
| `row_locks` | 2 sessions, all transactions, 2 rows of every table of which one locks several | `DeadlocksNeedDisorder`; every transaction ends |
| `configuration` | 1 workspace, 1 parameter, 2 values, 2 images, 2 modules, 4 catalog changes | `ConfigurationIsAllowed`, `PutIsIdempotent`, `SuccessIsDelivered`, `FixedValuesStay` |

`MCWorkspaceLifecycle_two.cfg` is a further passing configuration: two rows that
pass two names to each other, two workers, one fault, `AdoptsOnlyItsOwn`. The
other `.cfg` files reproduce the observations of section 6, one each; TLC
finds the property they name violated.

Why the bounds are enough: a race on a resource needs two workers and the
attempts of one job, or a job and its successor; three jobs add a successor of
a successor, so that a superseded job meets a third owner. The engine's runs
have these two workers. The passing runs on top of it have one. There a
reclaimed worker makes no further remote call: `StaleWorkersAct` is false, and
workspace and template steps send a heartbeat while they wait, so that the time
to their next call is far below the staleness threshold. All that is left to
such a worker is a commit, which the fence refuses (`OneOwnerPerResource`). The
runs in which it does act (`stale_members` and section 6) have two workers.
One fault puts a crash, a loss or a failure at any point of any step; two let a
retry fail as well. One scan process is enough because the scan keeps nothing
between its transactions but identifiers. A second password shows a candidate
that is not reused. Two members are a change that a pass has read and one that
it has missed; three sessions of the pool are a holder of a row lock, one that
waits, and one that changes the capacity or deletes.

Two names let a row give up one and take another. Pages of one workspace put a
change between any two pages. One commit and one more, with the fault between
them, put every store of an identifier on either side of a move of the branch;
a second target is one that fails while the other is done. A failed import
needs a worker that reads the failure and one more attempt that recovers it.
Two sessions are the shortest circle of locks, over rows of two tables or two
rows of a table of which a transaction locks several; longer ones are covered by
the proof. A parameter may be in the payload, in the
snapshot, or left to the default; four changes define, delete and redefine it,
or exchange the image and the modules below a workspace.

Identifiers that the code or Coder draws at random (jobs, passwords, remote
workspaces, templates, versions) are drawn by `Draw`: one stands for all that
were not used before, since nothing compares identifiers but for equality. So
the liveness runs need no symmetry. The safety runs without a temporal property
use symmetry where constants are interchangeable.

Deadlock is checked in every run but `configuration`: there the catalog
requests are bounded, and a template without image and without workspace has
nothing left to do.

When the budget of faults is spent, a worker that meets a busy Application
waits for Argo CD instead of deferring once more. That only cuts behaviours
after the last fault.

## 4. Fairness

`Fairness`, `LFairness` and `MFairness` assume weak fairness of: a message
being consumed (Celery keeps consuming), a step ending (remote calls have time
limits), a claim expiring once its worker is gone (time passes), the scan
starting, handling its identifiers and ending (`celery_app.py` schedules it at
a fixed interval), and Argo CD ending an operation or a deletion. Nothing is
assumed of requests, of members, of the hourly check, or of a fault; faults are
finite, so after the last one the remote systems answer. `WFairness` and
`TFairness` add that builds and imports end, and that an instance stop that has
checked its template commits. `SFairSpec` assumes only that the loop goes on
and that time passes: Coder and the users may do anything. `RowLocks!LFairness`
is strong for taking a row, since PostgreSQL serves the sessions that wait for
a row in turn, and weak for ending a transaction that has its locks and for the
deadlock detection, which PostgreSQL runs after `deadlock_timeout`. With
unbounded failures the code promises nothing, since a failed step is retried
for ever.

## 5. Proofs

Proved by TLAPS for every set of jobs, resources, workers, scans and steps,
every workflow table that meets `WorkflowAssumption`, and every number of
faults:

* `TypeCorrect`: `Spec => []TypeOK`.
* `FencedCorrect`: the conjunction `Fenced` of `Linked` (a row that names a job
  agrees with it), `LiveJobsAreCurrent` and `TokensAreUnique` is invariant. None
  of the three is inductive alone. `Linked` needs `LiveJobsAreCurrent`, or a job
  that was superseded while live could write the row of its successor.
  `LiveJobsAreCurrent` needs `Linked`: a request looks at the status of the
  resource only, and that says something about its job only if the rows agree.
  A claim raises the attempt, so tokens stay unique if none is ahead of its job.
* `MirrorCorrect` adds that a row that exists has a job (`RowsAreBound`). That
  part is separate because it is false of the catalog row of a template, which
  is created without a job; `Fenced` holds for it too.
* `OneOwner` (`OneOwnerPerResource`) follows: two owners of one resource own
  its one current job, both with the job's attempt, hence are the same worker.
* `FreshClaims` needs one more invariant, that an identifier a scan holds as
  stale is not running under a fresh claim.
* `NoHandover`: a resource changes hands only when its job has no owner.
* `Refinement`: every step of the engine is a step of `DurableWorkflow` or
  leaves its variables alone, under the mapping of `JobExecution!Workflow`.

A last section of `JobExecutionProofs`, "One resource row", says what the engine
does to the row of a given resource, so that the modules on the engine need not
open it again: the worker that owns the row's job is its only holder
(`HoldersOwnRows`), a claim makes a holder and lets the earlier one go, a step
of the others leaves the row and its holder alone (`QuietStepKeeps`), a scan
changes no more than the status (`ScanKeeps`), and no job is forgotten
(`JobsAreKept`).

For an instance, for every set of workers, scans, jobs and passwords, every
number of faults, and every step graph that meets `InstanceTables`:

* `InstanceTypeCorrect` (`LTypeOK`) and `AdminPasswordCorrect`
  (`AdminPasswordIsKept`), whether or not stale workers act. The candidate is
  stored before it is given to Coder and no later step replaces it while an
  account stands, which is an argument about writes alone.
* Under `~StaleWorkersAct`: `ConfirmedAbsenceCorrect`,
  `ApplicationHasSchemaCorrect`, `SuccessIsUsableCorrect` and
  `NoOrphansCorrect`. They are not inductive: the step that lets a row rest, or
  removes it, relies on remote calls of several transactions before.
  `LifecycleInv` adds what the row says while an operation is under way
  (`RowFacts`: whoever may write the Application finds the schema, whoever
  signs in finds an Application that is not going away, the last step of a
  removal finds nothing left), what the holder of the row has achieved at each
  place inside its step (`OutcomesHold`), and that an observation of the hourly
  check that can still be stored on a stopped row saw no Application
  (`CheckIsFenced`). Without the second a crash between two remote calls, or a
  second worker, would be taken for progress; the holder lemmas say that a new
  holder starts at the beginning. Without the third the check could contradict
  a confirmed absence. `NoOrphans` needs `RemovedLast`, the facts about the
  steps of a removal.

For members, for any sets of members, roles, workers and jobs, and every part
of the instance's step graph (`MemberTables`):

* `MemberTypeCorrect` (`MTypeOK`), whether or not stale workers act.
* Under `~StaleWorkersAct`: `MembersReconciledCorrect` and
  `DeletedMembersCorrect`. `MemberInv` carries what one step of an update has
  done to the next: between the steps the policy agrees with every change that
  is not queued (`PolicyWritten`), a worker in step 1 has read, then written,
  such a policy, and a worker in step 2 has taken every change that was written
  and has removed, or is about to remove, the accounts of the deletions among
  them (`PassesHold`). A change that is queued meanwhile is `pending` and is
  left out of all three, which is why `_finalize_update` may call the running
  ones a success. The initial state is an instance after a successful update,
  with a finished job; that this state meets the engine's `Fenced` is a lemma.

`~StaleWorkersAct` says that a remote call returns before
`job_stale_after_seconds` lets the scan reclaim its job. It is a hypothesis of
those six theorems and not of the model; the run `stale_members` and
`MCInstanceLifecycle_stale_worker.cfg` show that they are false without it.
The inductive invariants were model-checked in the instances of the runs
before they were proved.

For templates and assignments, for any sets of assignments, remote templates,
versions, workers and jobs, any events, and every part of the step
graph of templates (`TemplateTables`). The invariants build on each other:

* the engine's `Fenced`, and that only the worker that owns the row's job is
  its `Current` worker; together with the types of rows and of the places in a
  step (`Columns`, `ActsAreTyped`) this gives `TemplateTypeCorrect` (`TTypeOK`);
* `ForeignCorrect` (`ForeignTemplatesAreSafe`). `NothingForeign` says that
  whatever a row or a worker refers to was made by the manager, and that a
  foreign template has no version of the manager's as its active one, so
  `_managed_remote_template` cannot recover it;
* `TransitionsExcludeCorrect` (`TransitionsExclude` and `SyncsAreStable`) and
  `RequestsExcludeCorrect` (`RequestsExclude`). The second says which requests
  exclude each other: the instance of an assignment in a transition is ready, or
  a provider upload has put it into an update (`AssignmentsKeepInstances`).
  `MCTemplatePublication_provider.cfg` violates the statement without the second
  half. Besides the exclusion of the statuses the invariant needs that a worker's targets are
  stable rows as long as it publishes (`TargetsAreStable`), which is what the
  checks in the other requests are for;
* two workers that publish have no target in common (`Apart`). A synchronization
  and a creation run under different rows, so this takes more than one owner
  per row: the exclusion of their rows;
* `SuccessIsPublishedCorrect` and `SyncReachesEveryTargetCorrect`.
  `PublicationInv` says what the columns of a row are worth by themselves,
  whoever wrote them (`RowsAreTrue`: a stored version was made for the stored
  target, a stored template is this assignment's; `SuccessIsSpelled`: a success
  is what is active), and what a worker has achieved at each place of its step
  (`Achieved`, `Sweeps`, `Reached`). The first is what a later attempt may rely
  on after a crash, the second what the store at the end relies on;
* `OwnTemplatesCorrect` (`OwnTemplatesAreRecognised`), of all of the manager's
  templates that are not `strays`, with pushes at any time. `Recognition` says
  that one template bears the name on an instance, that a template of the manager
  is known by its identifier or, while its creation is under way, by the version
  stored before it was made, and that an attempt replaces that version only when
  it wants another commit: the parameters do not change while the row is in a
  transition (`RevisionIsStill`), so only a push makes a stray (`StraysStep`).

For the pool, for any sets of databases and sessions, any finite set of
instances and any capacities:

* `PoolCorrect`: `PoolInv`, the conjunction of `PTypeOK`, `WithinCapacity` and
  `CountsAreSafe`, is invariant. `WithinCapacity` alone is not inductive: a
  commit trusts a number counted some steps earlier. `CountsAreSafe` says why
  it may: the row is still locked by this session, so others can only have
  lowered the number of allocations, and nobody can have changed the capacity.
* `CapacityCorrect`: `WithinCapacity`, which also says that a database in use
  is never deleted.

`LiveJobsCorrect`, `TokensCorrect`, `CountsCorrect` and `PoolTypeCorrect` state
the parts of these two invariants that the runs check on their own.

For the row locks, for any finite set of sessions and any rows:

* `OthersLockInOrder`: every transaction of the code outside `Disorderly` locks
  its tables in `LockOrder`, and rows of one table in the order of the statement.
* `DeadlocksNeedDisorderCorrect` (`DeadlocksNeedDisorder`), with all
  transactions running: sessions that wait in a circle include one of a
  transaction in `Disorderly`. The invariant says that a session of another
  transaction holds only rows before the one it waits for. Before is by the
  rank of the table, then by the identifier of the row (`BeforeIsAnOrder`), so
  a circle of such sessions would have no last wait (`OrderPreventsDeadlock`).

For the workspaces, for any rows, names, parameters, remote workspaces, workers,
requests, failed builds and faults, and with the deletion of the instance around
them:

* `WorkspaceTypeCorrect` (`WTypeOK`) and `WorkspaceOwnerCorrect`
  (`OneOwnerPerResource`, now on top of steps that fail by their build, and of
  `RemoveRows`, which deletes rows under their jobs: from then on nobody owns
  anything). Both come from `GroundInv`: the engine's fence until the rows go,
  remote workspaces whose status agrees with their transition, and nothing that
  outlives its instance.
* `RemotesReachable`, `SuccessApplied` and `AdoptionCorrect`
  (`RemotesAreReachable`, `SuccessIsApplied`, `AdoptsOnlyItsOwn`), for any number
  of rows and renames from `success` and `error`. Each says what holds as long as
  no request `Misnames`; the configurations `adoption` and `orphan` of
  `MCWorkspaceLifecycle` show what one such request does.

`WorkspaceInv` adds three things to `GroundInv` until a request misnames, none
of them inductive alone. `NamesAreUnique`, because a lookup by name must not
meet another row. `RowsAreTrue`: at most one remote workspace of a row is
there, the row is there with it, and it carries the row's name or is known to
the row by its identifier; a row without pending parameters has them applied.
And `WorkersKnow`: what the one worker of a row has seen is still true when it
acts on it, namely that none is there (`missing`), that this is the only one
(`found`, `submitted`, `stored`), that after its submission name and parameters
are the row's, and that an awaited delete build is over only when the remote
workspace is gone. The proof has a lemma for each action (`LookInv`,
`CreateRemoteInv`, ...). `OwnRowStep` is the frame: a worker touches the remote
workspaces of its own row, and the fence lets no other worker work on that row.

For the loops, for any finite set of workspaces, any page size and any activity
of users, builds and time:

* `LoopsMissNothing` (`NothingIsMissed`): what a loop that returned has missed
  has slipped, and `delete_all_workspaces`, the loop that guards the removal of
  an instance, has missed nothing. The invariant `SweepInv` says what a listing
  knows on each of its pages. An offset above zero has seen something, so a loop
  that goes on until a listing is empty (`stop`, `delete_all`) can only return
  after first pages that were empty. A loop that may end with what it found has
  to be exact: all that comes before the offset was seen or slipped, which rests
  on lemmas about places in a listing (`RankBounds`, `RankOrders`, `PageBound`,
  `PageGoesOn`), and so was all that is kept of the statuses already listed. The
  daily stop is followed to its end: what it saw is still to do, stopped, or
  refused, and a refusal lets the job fail.

For the configuration, for any workspaces, parameters, values, images, modules
and catalog requests:

* `ConfigurationTypeCorrect` and `AllowedCorrect` (`ConfigurationIsAllowed`),
  which are inductive as they stand;
* `FixedValues` (`FixedValuesStay`), from the resolution of a payload: a value
  that changes belongs to a parameter that is defined and mutable;
* `IdempotentCorrect` (`PutIsIdempotent`), from a lemma about the resolution:
  resolving a payload against its own result gives that result again;
* `DeliveryCorrect` (`SuccessIsDelivered`), from an invariant about every point
  of an attempt: a row that is not dirty has been built with its values, and a
  snapshot that is being sent equals the row's values, outside `touched`.

The type invariants `TypeOK` and `PTypeOK` are checked and proved, `LTypeOK`,
`MTypeOK`, `TTypeOK`, `WTypeOK` and `CTypeOK` are proved, `LocksTypeOK` as a
part of `LockInv`. `STypeOK`, of the loops, holds in the run's instance; it
documents the variables and is not listed with the runs.

The assumptions on constants are `NullAssumption`, `WorkflowAssumption`,
`DisturbancesAssumption`, `PoolAssumption`, `LockAssumption`,
`SweepAssumption`, `ConfigurationAssumption`, `TemplateAssumption`,
`WorkspaceAssumption`, `InstanceTables`, `MemberTables`, `TemplateTables` and
`WorkspaceTables`; TLC evaluates them in the runs of their modules. The last
four say that the engine runs the step graph of `Workflows`, which is the
code's registry, or a part of it: a run or a proof about fewer operations is
about fewer behaviours.

Only model-checked:

* the liveness properties, since fairness and ENABLED are out of the prover's
  reach. Every other property of a passing run is stated by a theorem.

## 6. Findings and observations

The finding is the run `stale_members`, quoted in `PROJECT.json`. The other
points are what the properties of the passing runs allow for by name, or what
those runs leave out by a constant. The `.cfg` named with each reproduces it:
`tlc -config X_y.cfg X` stops at its one property with the shortest order of
events. Where a comment or document of the repository says otherwise, the point
ends with it.

* **A stale observation is stored**
  (`MCInstanceLifecycle_stale_observation.cfg`). The store of
  `check_instance_states` compares job, action and status with the snapshot,
  not the step or the attempt. A creation fails before the Application exists;
  the check reads 404; Beat retries the same job, which creates the Application
  and fails in the bootstrap step; now job, action and status are those of the
  snapshot, and `stopped` is stored. The job then succeeds without touching
  `state`. The row says `stopped` and the Application runs, until the next
  hourly check. `src/README.md:241`: "`state` is an observed value"; `stopped`
  "means that it is absent".
* **A reclaimed worker still acts** (`MCInstanceLifecycle_stale_worker.cfg`).
  The fence stops its transaction, not its next remote call: a POST of an
  Application it saw absent before it was reclaimed recreates it after a newer
  stop has confirmed the absence.
  `tasks/instance/stop/step_02_stop_instance.py:44`: "Persist stopped only
  after Argo confirms deletion."
* **A reclaimed worker claims a member change** (run `stale_members`).
  `_claim_members` does not check the claim. A slow worker is reclaimed, the
  newer attempt takes its snapshot, the creation of a second member joins the
  update, and then the slow worker marks that row `running`. The cleanup step
  of the newer attempt finalizes every running member: the creation is reported
  as a success, no pending row opens another update, and the member has no
  access. With the claim checked (`StaleWorkersAct` false) the run `members`
  shows that this cannot happen.
* **A row adopts another row's workspace**
  (`MCWorkspaceLifecycle_adoption.cfg`). A request renames a successful row,
  whose remote workspace keeps the old name until the step runs. The next row
  may have that name already; its creation finds the workspace by owner and
  name, and only the template is compared. `tasks/workspace/_remote.py:153`:
  "Reject adoption of an unrelated same-name remote workspace."
* **A deleted row leaves its workspace behind**
  (`MCWorkspaceLifecycle_orphan.cfg`). A creation dies after its remote
  workspace exists and before the identifier is stored; an update renames the
  row in error, and fails. The deletion looks under the new name, finds nothing
  and removes the row. `src/README.md:629`: "Deletion starts and waits for a
  `delete` build before deleting the local row".
* **An update after a failed creation can never succeed**
  (`MCWorkspaceLifecycle_failed_creation.cfg`). It supersedes the only job that
  would create the remote workspace; only a deletion leaves this state.
  `src/README.md:621`: "workspaces in `error` can still be updated or deleted
  after their parent is successful".
* **A workspace outlives the sweep of its instance**
  (`MCWorkspaceLifecycle_instance_deletion.cfg`). The deletion of an instance
  does not look at workspace jobs; one of them creates its workspace after the
  last empty listing. `tasks/instance/delete/step_01_remove_workspaces.py:43`:
  "Restore Coder when needed and prove that every workspace is deleted."
* **The stop loop misses a workspace** (`MCWorkspaceSweep_stop_misses.cfg`).
  Running workspaces are listed before starting ones; a start build that ends
  in between is in neither listing. The loop then ends, and the Application
  goes under a running workspace. `service.py:106`: "Stop every running or
  starting remote workspace before instance shutdown."
* **The listing of a template's workspaces is no snapshot**
  (`MCWorkspaceSweep_template_misses.cfg`). A deletion and a creation between
  two pages keep the count and repeat no identifier, and a workspace is
  skipped. `service.py:411`: "Load one complete stable snapshot of every
  non-deleted workspace".
* **The daily stop skips a workspace** (`MCWorkspaceSweep_daily_misses.cfg`).
  The same three listings, once: a workspace whose start build ends between two
  of them gets no stop build. `src/README.md:666`: it "submits one `stop` build
  for every `running` or `starting` workspace".
* **A changed source path is not published**
  (`MCTemplatePublication_source_path.cfg`). A deployment is compared by commit
  and parameter revision only.
* **The manager's own template is taken for a foreign one**
  (`MCTemplatePublication_crash_window.cfg`). A crash between the creation of
  the template and the store of its identifier, then a new commit, which resets
  the version's identifier: nothing is left to recognise it by, and the
  assignment in error blocks the requests that could repair it.
  `tasks/template/_sync.py:269`: "Persist remote identifiers immediately to
  close retry windows."
* **The provider upload ignores assignments**
  (`MCTemplatePublication_provider.cfg`). It opens an instance update while an
  assignment of the instance is in a transition; every other instance request
  refuses. `repositories/instances.py:406`: "Return whether template
  convergence currently owns the instance."
* **A failed import is never repeated**
  (`MCTemplatePublication_failed_import.cfg`). Retries recover the stored
  version, whose import has failed for good, until the branch moves.
* **Transactions can deadlock** (`MCRowLocks_instance_removal.cfg`). The two
  removals delete workspaces while they hold the instance or the assignment,
  and workspace requests lock the workspace first; the end of an update and a
  synchronization update the members of an instance in no fixed order, while
  `_claim_members` takes them by identifier. PostgreSQL aborts one of the
  sessions, and the step or the request fails.

## 7. Plan

Done: the engine with its refinement; instances; members; the database pool;
workspaces next to instance deletion; templates and assignments; the loops;
parameters, images and modules; the row locks; the proofs of section 5. Left, in
this order:

1. the Argo CD client in more detail: ownership and payload merging;
2. templates that an administrator renames, archives or deletes in Coder.

## 8. Not modelled

Request decoding, authorization, response formatting, encryption, metrics,
configuration, archive building and migrations hold no state that the
properties above distinguish. The same goes for the decoding of Coder's answers
and the redaction of import logs. `update_action` of the instance and workspace
repositories has no caller. Archived template versions, and remote templates
that an administrator renames or deletes, are not modelled. Where a transaction
is one action, its locks are not: `RowLocks` looks at their order alone. The
contents of an Application, and an Application owned by another instance, are
not modelled; the client refuses the latter, which is a failure of the step
(`LFail`). The schema statements on a managed database are one step.
