-------------------------- MODULE TemplatePublication --------------------------
(***************************************************************************)
(* One catalog template and its explicit assignments, each to an instance  *)
(* of its own: the requests with their mutual exclusion, the publication   *)
(* that template.sync and template_assignment.create share                 *)
(* (sync_template_target), and the removal of an assignment.               *)
(*                                                                         *)
(* The requests of one template and one instance are serialized by the row *)
(* locks they all take, so each is one action.  The stop of an instance    *)
(* locks only the instance: it checks the template in one step and commits *)
(* in a later one.  A worker acts only while it owns its job.              *)
(*                                                                         *)
(* The settled actions "created" and "updated" of the rows are the engine's*)
(* "creating" and "updating" with status "success".                        *)
(***************************************************************************)
EXTENDS JobExecution, Workflows, FiniteSets

CONSTANTS Template,       \* the catalog row
          Assignments,    \* the assignment rows
          Templates,      \* identifiers of remote templates
          Versions,       \* identifiers of remote template versions
          NoTemplate, NoVersion,
          Events,         \* what may happen besides requests and faults
          MaxChanges,     \* bound on changes of branch, source and parameters
                          \* and on uploads of a provider
          MaxAttempts     \* bound on the attempts of a job

ASSUME TemplateAssumption ==
    /\ Template \notin Assignments
    /\ Resources = Assignments \cup {Template}
    /\ NoTemplate \notin Templates
    /\ NoVersion \notin Versions
    /\ Events \subseteq {"branch", "source", "parameters", "stops", "imports",
                         "admin", "provider"}
    /\ MaxChanges \in Nat
    /\ MaxAttempts \in Nat

\* The engine runs the step graph of the template operations.
ASSUME TemplateTables ==
    /\ Transitions \subseteq TemplateTransitions
    /\ DeletingSteps = TemplateDeletingSteps

VARIABLES src,      \* source path, branch head and system parameter revision
          dep,      \* dep[a]: the deployment row of assignment a
          inst,     \* inst[a]: the instance of assignment a
          ws,       \* ws[a]: the workspace rows of the pair
          remote,   \* remote[t]: remote template t
          version,  \* version[v]: remote template version v
          act,      \* act[w]: how far worker w is inside its step
          configured,  \* the assignments whose instance has its Kubernetes provider
          strays    \* history: the manager's templates that a push made it forget

tvars == <<vars, src, dep, inst, ws, remote, version, act, configured, strays>>
aside == <<src, dep, inst, ws, remote, version, act, configured, strays>>

SyncStep   == "step_01_sync_template"
CreateStep == "step_01_create_template"
DeleteStep == "step_01_delete_template"

Source(path, commit, rev) == [path |-> path, commit |-> commit, rev |-> rev]
NoSource == Source(0, 0, 0)

\* What a deployment records of a source, and a version's name spells.
Key(s) == <<s.commit, s.rev>>
NoKey == <<0, 0>>

Deployment(status, target, applied, t, v) ==
    [status |-> status, target |-> target, applied |-> applied,
     template |-> t, version |-> v]
NoDeployment == Deployment("none", NoKey, NoKey, NoTemplate, NoVersion)

Remote(on, by, active, status) ==
    [on |-> on, by |-> by, active |-> active, status |-> status]
NoRemote == Remote(NoResource, "manager", NoVersion, "unused")

Version(on, s, of, status) ==
    [on |-> on, source |-> s, of |-> of, status |-> status]
UnusedVersion == Version(NoResource, NoSource, NoTemplate, "unused")

\* targets are the assignments to publish, todo those still to come, target the
\* one at hand, want the fetched source, template and version what was found or
\* made for it.
Act(at, targets, todo, want, failed, target, t, v) ==
    [at |-> at, targets |-> targets, todo |-> todo, want |-> want, failed |-> failed,
     target |-> target, template |-> t, version |-> v]
NoAct == Act("begin", {}, {}, NoSource, FALSE, NoResource, NoTemplate, NoVersion)

Sources == [path : Nat, commit : Nat, rev : Nat]
Unsettled == {"pending", "running", "error"}

\* Every row and remote object has its type, and an assignment that exists not
\* has no deployment and no workspaces.
TTypeOK ==
    /\ src \in Sources
    /\ dep \in [Assignments ->
                  [status : {"none", "running", "success", "error"},
                   target : Nat \X Nat, applied : Nat \X Nat,
                   template : Templates \cup {NoTemplate},
                   version : Versions \cup {NoVersion}]]
    /\ inst \in [Assignments -> {"ready", "checked", "down", "updating"}]
    /\ ws \in [Assignments -> {"none", "busy", "settled"}]
    /\ \A a \in Assignments : resources[a].status = "absent" =>
                                  dep[a] = NoDeployment /\ ws[a] = "none"
    /\ remote \in [Templates -> [on : Resources \cup {NoResource},
                                 by : {"manager", "admin"},
                                 active : Versions \cup {NoVersion},
                                 status : {"unused", "present", "gone"}]]
    /\ version \in [Versions -> [on : Resources \cup {NoResource},
                                 source : Sources,
                                 of : Templates \cup {NoTemplate},
                                 status : {"unused", "pending", "succeeded",
                                           "failed"}]]
    /\ act \in [Workers -> [at : {"begin", "targets", "prepared", "located",
                                  "uploaded", "importing", "created",
                                  "published", "sweep", "removed"},
                            targets : SUBSET Assignments,
                            todo : SUBSET Assignments,
                            want : Sources,
                            failed : BOOLEAN,
                            target : Resources \cup {NoResource},
                            template : Templates \cup {NoTemplate},
                            version : Versions \cup {NoVersion}]]
    /\ configured \subseteq Assignments
    /\ strays \subseteq Templates

\* The catalog row as TemplateRepository.create stores it.
CatalogRow(action) == [job |-> NoJob, action |-> action, step |-> NoStep,
                       status |-> "success"]

TInit ==
    /\ jobs = [j \in Jobs |-> AbsentJob]
    /\ queue = {}
    /\ claims = [w \in Workers |-> NoClaim]
    /\ scans = [s \in Scanners |-> IdleScan]
    /\ disturbances = 0
    /\ resources = [r \in Resources |-> IF r = Template THEN CatalogRow("creating")
                                                        ELSE AbsentResource]
    /\ src = Source(1, 1, 0)
    /\ dep = [a \in Assignments |-> NoDeployment]
    /\ inst = [a \in Assignments |-> "ready"]
    /\ ws = [a \in Assignments |-> "none"]
    /\ remote = [t \in Templates |-> NoRemote]
    /\ version = [v \in Versions |-> UnusedVersion]
    /\ act = [w \in Workers |-> NoAct]
    /\ configured = {}
    /\ strays = {}

-----------------------------------------------------------------------------
\* Requests.

Transition(name, j, r) ==
    \E t \in Transitions : t.name = name /\ Request(j, r, t)

\* _ensure_no_active_assignments and _ensure_no_active_workspaces
NoActiveAssignments == \A a \in Assignments : resources[a].status \notin Unsettled
NoActiveWorkspaces  == \A a \in Assignments : ws[a] # "busy"

\* _require_mutation_available
MutationAvailable(a) == inst[a] = "ready" /\ resources[Template].status = "success"

\* TemplateAssignmentRepository.put, where it changes anything
PutAssignment(j, a) ==
    /\ MutationAvailable(a)
    /\ Transition("template_assignment.create", j, a)
    /\ UNCHANGED aside

\* Mutant of DeleteAssignment: workspaces in a transition are not looked for.
DeleteUnderWorkspaces(j, a) ==
    /\ MutationAvailable(a)
    /\ Transition("template_assignment.delete", j, a)
    /\ UNCHANGED aside

\* TemplateAssignmentRepository.request_deletion
DeleteAssignment(j, a) ==
    /\ MutationAvailable(a)
    /\ ws[a] # "busy"
    /\ Transition("template_assignment.delete", j, a)
    /\ UNCHANGED aside

\* TemplateRepository.request_sync; the superseded job is not seen again.
SyncTemplate(j) ==
    /\ NoActiveAssignments
    /\ NoActiveWorkspaces
    /\ Transition("template.sync", j, Template)
    /\ UNCHANGED aside

\* The source starts with path and commit 1.
WithinChanges ==
    src.path + src.commit + src.rev + Cardinality(configured) < MaxChanges + 2

Change(event, s) ==
    /\ event \in Events
    /\ WithinChanges
    /\ src' = s

CatalogTo(row) == resources' = WithResource(Template, row)

\* TemplateRepository.update of the source fields
UpdateTemplate ==
    /\ resources[Template].status = "success"
    /\ NoActiveAssignments
    /\ NoActiveWorkspaces
    /\ Change("source", Source(src.path + 1, src.commit, src.rev))
    /\ CatalogTo(CatalogRow("updating"))
    /\ UNCHANGED <<jobs, queue, claims, scans, disturbances>>
    /\ UNCHANGED <<dep, inst, ws, remote, version, act, configured, strays>>

\* TemplateRepository.delete and create
DeleteTemplate ==
    /\ resources[Template].status = "success"
    /\ \A a \in Assignments : resources[a].status = "absent"
    /\ CatalogTo(AbsentResource)
    /\ UNCHANGED <<jobs, queue, claims, scans, disturbances, aside>>

CreateTemplate ==
    /\ resources[Template].status = "absent"
    /\ CatalogTo(CatalogRow("creating"))
    /\ src' = Source(src.path, src.commit, 0)
    /\ UNCHANGED <<jobs, queue, claims, scans, disturbances>>
    /\ UNCHANGED <<dep, inst, ws, remote, version, act, configured, strays>>

\* TemplateParameterRepository._lock_template
ParametersMayChange == /\ resources[Template].status = "success"
                       /\ NoActiveAssignments

\* A system parameter is created, gets another value, or is deleted.
ChangeParameters ==
    /\ ParametersMayChange
    /\ Change("parameters", Source(src.path, src.commit, src.rev + 1))
    /\ UNCHANGED <<vars, dep, inst, ws, remote, version, act, configured, strays>>

\* A push to the branch
MoveBranch ==
    /\ Change("branch", Source(src.path, src.commit + 1, src.rev))
    /\ UNCHANGED <<vars, dep, inst, ws, remote, version, act, configured, strays>>

\* _has_active_template_assignment
Converging(a) == /\ resources[a].status # "absent"
                 /\ \/ resources[a].status \in Unsettled
                    \/ resources[Template].status \in Unsettled

SetInstance(a, s) == /\ inst' = [inst EXCEPT ![a] = s]
                     /\ UNCHANGED <<vars, src, dep, ws, remote, version, act>>
                     /\ UNCHANGED <<configured, strays>>

\* The request to stop the instance reads the other tables with the instance
\* row locked ...
CheckStop(a) == /\ "stops" \in Events
                /\ inst[a] = "ready"
                /\ ~Converging(a)
                /\ SetInstance(a, "checked")

\* ... and commits.
CommitStop(a) == inst[a] = "checked" /\ SetInstance(a, "down")

StartInstance(a) == inst[a] = "down" /\ ~Converging(a) /\ SetInstance(a, "ready")

\* InstanceKubernetesRepository.create_and_request_update looks at the instance
\* alone, started or stopped; a provider cannot be replaced.  The update ends with
\* the instance started.
ConfigureProvider(a) == /\ "provider" \in Events
                        /\ WithinChanges
                        /\ inst[a] \in {"ready", "down"}
                        /\ a \notin configured
                        /\ configured' = configured \cup {a}
                        /\ inst' = [inst EXCEPT ![a] = "updating"]
                        /\ UNCHANGED <<vars, src, dep, ws, remote, version, act>>
                        /\ UNCHANGED strays

FinishUpdate(a) == inst[a] = "updating" /\ SetInstance(a, "ready")

SetWorkspaces(a, s) == /\ ws' = [ws EXCEPT ![a] = s]
                       /\ UNCHANGED <<vars, src, dep, inst, remote, version, act>>
                       /\ UNCHANGED <<configured, strays>>

\* WorkspaceRepository: _lock_available_instance, which takes a stopped instance
\* too, and _require_remote_template
RequestWorkspace(a) == /\ inst[a] \in {"ready", "down"}
                       /\ resources[Template].status = "success"
                       /\ resources[a].status = "success"
                       /\ dep[a].template # NoTemplate
                       /\ ws[a] # "busy"
                       /\ SetWorkspaces(a, "busy")

\* A workspace job ends; the row of a deleted workspace is gone.
SettleWorkspace(a) == ws[a] = "busy" /\ \E s \in {"settled", "none"} : SetWorkspaces(a, s)

-----------------------------------------------------------------------------
\* The publication of one target, sync_template_target.

Working(w, at) == /\ claims[w] # NoClaim
                  /\ act[w].at = at
                  /\ Owns(w, claims[w].job)

Goto(w, a) == act' = [act EXCEPT ![w] = a]

\* The worker w at another point of the publication of its current target.
Within(w, at, t, v) ==
    Goto(w, Act(at, act[w].targets, act[w].todo, act[w].want, act[w].failed,
                act[w].target, t, v))

\* The worker w is done with target a.
NextTarget(w, a, failed) ==
    Goto(w, Act("targets", act[w].targets, act[w].todo \ {a}, act[w].want,
                act[w].failed \/ failed, NoResource, NoTemplate, NoVersion))

\* The instance row says started and success; an uncommitted stop is not seen.
Successful == {"ready", "checked"}

\* stable_assignment_ids
StableAssignments == {a \in Assignments : /\ resources[a].action = "creating"
                                          /\ resources[a].status = "success"
                                          /\ inst[a] \in Successful}

\* The targets, the source snapshot and the fetched branch.
Begin(w) ==
    /\ Working(w, "begin")
    /\ claims[w].step # DeleteStep
    /\ LET targets == IF claims[w].step = SyncStep THEN StableAssignments
                      ELSE {jobs[claims[w].job].resource}
       IN  Goto(w, Act("targets", targets, targets, src, FALSE, NoResource,
                       NoTemplate, NoVersion))
    /\ UNCHANGED <<vars, src, dep, inst, ws, remote, version, configured, strays>>

\* The row locks of _lock_owned_template_target can be had.
Lockable(a) == inst[a] # "checked"

SetDeployment(a, d) == dep' = [dep EXCEPT ![a] = d]

Named(a) == {t \in Templates : remote[t].on = a /\ remote[t].status = "present"}

\* Mutant of Recovered: only the stored identifier counts.
KnownById(a) == {t \in Named(a) : t = dep[a].template}

\* Mutant of Recovered: a template of that name is taken for the manager's.
AnyNamed(a) == Named(a)

\* _managed_remote_template: the remote template that is known to be this
\* assignment's, by its identifier or by the version stored before it was made.
Recovered(a) ==
    {t \in Named(a) : \/ t = dep[a].template
                      \/ /\ dep[a].version # NoVersion
                         /\ remote[t].active = dep[a].version}

\* The templates known by their version alone, when a push of another commit
\* makes _prepare_deployment drop it.
Forgotten(a, want) ==
    {t \in Recovered(a) : t # dep[a].template /\ dep[a].target[1] # want.commit}

AlreadyApplied(a, want) == dep[a].status = "success" /\ dep[a].applied = Key(want)

\* Mutant of Prepared: a new target keeps the version of the old one.
PreparedKeepsVersion(a, want) ==
    Deployment("running", Key(want), dep[a].applied, dep[a].template,
               dep[a].version)

Prepared(a, want) ==
    Deployment("running", Key(want), dep[a].applied, dep[a].template,
               IF dep[a].target = Key(want) THEN dep[a].version ELSE NoVersion)

\* _prepare_deployment refuses an instance that is not ready ...
RefuseTarget(w, a) ==
    /\ Working(w, "targets")
    /\ a \in act[w].todo
    /\ inst[a] \notin Successful
    /\ NextTarget(w, a, TRUE)
    /\ UNCHANGED <<vars, src, dep, inst, ws, remote, version, configured, strays>>

\* ... passes over a target that is up to date ...
SkipTarget(w, a) ==
    /\ Working(w, "targets")
    /\ a \in act[w].todo
    /\ inst[a] = "ready"
    /\ AlreadyApplied(a, act[w].want)
    /\ NextTarget(w, a, FALSE)
    /\ UNCHANGED <<vars, src, dep, inst, ws, remote, version, configured, strays>>

\* ... or stores what is to be published.
Prepare(w, a) ==
    /\ Working(w, "targets")
    /\ a \in act[w].todo
    /\ inst[a] = "ready"
    /\ ~AlreadyApplied(a, act[w].want)
    /\ SetDeployment(a, Prepared(a, act[w].want))
    /\ Goto(w, Act("prepared", act[w].targets, act[w].todo, act[w].want,
                   act[w].failed, a, NoTemplate, NoVersion))
    /\ strays' = strays \cup Forgotten(a, act[w].want)
    /\ UNCHANGED <<vars, src, inst, ws, remote, version, configured>>

NewVersions == Draw({v \in Versions : version[v].status = "unused"})
NewTemplates == Draw({t \in Templates : remote[t].status = "unused"})

\* Another template bears the name: "already owned outside CoderManager".
Conflict(a) == Named(a) # {} /\ Recovered(a) = {}

\* template_version_by_name, else the version stored earlier
KnownVersions(a, t, want) ==
    LET named == {v \in Versions : /\ t # NoTemplate
                                   /\ version[v].of = t
                                   /\ Key(version[v].source) = Key(want)}
    IN  IF named # {} THEN named ELSE {dep[a].version}

\* Find the remote template, store its identifier, and find the version.
Locate(w) ==
    LET a == act[w].target
        d == dep[a]
    IN  /\ Working(w, "prepared")
        /\ Lockable(a)
        /\ ~Conflict(a)
        /\ \E t \in IF Recovered(a) = {} THEN {NoTemplate} ELSE Recovered(a) :
              \E v \in KnownVersions(a, t, act[w].want) :
                 /\ SetDeployment(a, Deployment(d.status, d.target, d.applied,
                       IF t = NoTemplate THEN d.template ELSE t, d.version))
                 /\ Within(w, IF v = NoVersion THEN "located" ELSE "importing", t, v)
        /\ UNCHANGED <<vars, src, inst, ws, remote, version, configured, strays>>

\* upload_template_archive and create_template_version
CreateVersion(w, v) ==
    /\ Working(w, "located")
    /\ version[v].status = "unused"
    /\ version' = [version EXCEPT ![v] =
          Version(act[w].target, act[w].want, act[w].template, "pending")]
    /\ Within(w, "uploaded", act[w].template, v)
    /\ UNCHANGED <<vars, src, dep, inst, ws, remote, configured, strays>>

\* Mutant of StoreVersion: the identifier is not written.
ForgetVersion(w) ==
    /\ Working(w, "uploaded")
    /\ Within(w, "importing", act[w].template, act[w].version)
    /\ UNCHANGED <<vars, src, dep, inst, ws, remote, version, configured, strays>>

\* _store_remote_ids of the version
StoreVersion(w) ==
    LET a == act[w].target
        d == dep[a]
    IN  /\ Working(w, "uploaded")
        /\ Lockable(a)
        /\ SetDeployment(a, Deployment(d.status, d.target, d.applied, d.template,
                                       act[w].version))
        /\ Within(w, "importing", act[w].template, act[w].version)
        /\ UNCHANGED <<vars, src, inst, ws, remote, version, configured, strays>>

\* wait_template_version has returned.
Imported(w) == Working(w, "importing") /\ version[act[w].version].status = "succeeded"

\* create_template, with the version as its active one
CreateRemote(w, t) ==
    LET v == act[w].version
    IN  /\ Imported(w)
        /\ act[w].template = NoTemplate
        /\ Named(act[w].target) = {}
        /\ remote[t].status = "unused"
        /\ remote' = [remote EXCEPT ![t] =
              Remote(act[w].target, "manager", v, "present")]
        /\ version' = [version EXCEPT ![v] =
              Version(version[v].on, version[v].source, t, version[v].status)]
        /\ Within(w, "created", t, v)
        /\ UNCHANGED <<vars, src, dep, inst, ws, configured, strays>>

\* _store_remote_ids of the template
StoreTemplate(w) ==
    LET a == act[w].target
        d == dep[a]
    IN  /\ Working(w, "created")
        /\ Lockable(a)
        /\ SetDeployment(a, Deployment(d.status, d.target, d.applied,
                                       act[w].template, d.version))
        /\ Within(w, "published", act[w].template, act[w].version)
        /\ UNCHANGED <<vars, src, inst, ws, remote, version, configured, strays>>

\* Mutant of Activated: the template keeps its active version.
NotActivated(t, v) == remote[t]

Activated(t, v) == Remote(remote[t].on, remote[t].by, v, remote[t].status)

\* activate_template_version
Activate(w) ==
    LET t == act[w].template
        v == act[w].version
    IN  /\ Imported(w)
        /\ t # NoTemplate
        /\ remote[t].status = "present"
        /\ remote' = [remote EXCEPT ![t] = Activated(t, v)]
        /\ Within(w, "published", t, v)
        /\ UNCHANGED <<vars, src, dep, inst, ws, version, configured, strays>>

\* _finish_deployment with success
FinishTarget(w) ==
    LET a == act[w].target
        d == dep[a]
    IN  /\ Working(w, "published")
        /\ Lockable(a)
        /\ SetDeployment(a, Deployment("success", d.target, Key(act[w].want),
                                       d.template, d.version))
        /\ NextTarget(w, a, FALSE)
        /\ UNCHANGED <<vars, src, inst, ws, remote, version, configured, strays>>

\* The publication cannot go on: the name is taken, or the import failed.
Hopeless(w) ==
    \/ Working(w, "prepared") /\ Conflict(act[w].target)
    \/ Working(w, "importing") /\ version[act[w].version].status = "failed"
    \/ Imported(w) /\ act[w].template = NoTemplate /\ Named(act[w].target) # {}

\* It fails, or any of its remote calls does: _finish_deployment with an error.
FailTarget(w) ==
    LET a == act[w].target
        d == dep[a]
    IN  /\ act[w].target # NoResource
        /\ Working(w, act[w].at)
        /\ Lockable(a)
        /\ IF Hopeless(w) THEN UNCHANGED disturbances ELSE Disturb
        /\ SetDeployment(a, Deployment("error", d.target, d.applied, d.template,
                                       d.version))
        /\ NextTarget(w, a, TRUE)
        /\ UNCHANGED <<jobs, resources, queue, claims, scans>>
        /\ UNCHANGED <<src, inst, ws, remote, version, configured, strays>>

Publish(w) ==
    \/ Begin(w)
    \/ \E a \in Assignments : RefuseTarget(w, a) \/ SkipTarget(w, a) \/ Prepare(w, a)
    \/ Locate(w)
    \/ \E v \in NewVersions : CreateVersion(w, v)
    \/ StoreVersion(w)
    \/ \E t \in NewTemplates : CreateRemote(w, t)
    \/ StoreTemplate(w)
    \/ Activate(w)
    \/ FinishTarget(w)
    \/ Hopeless(w) /\ FailTarget(w)

-----------------------------------------------------------------------------
\* The removal of an assignment.

\* _removal_snapshot: a known remote template needs a ready instance.
BeginRemoval(w) ==
    LET a == jobs[claims[w].job].resource
        t == dep[a].template
    IN  /\ Working(w, "begin")
        /\ claims[w].step = DeleteStep
        /\ t # NoTemplate => inst[a] \in Successful
        /\ Goto(w, Act("sweep", {}, {}, NoSource, FALSE, NoResource, t, NoVersion))
        /\ UNCHANGED <<vars, src, dep, inst, ws, remote, version, configured, strays>>

\* delete_template_workspaces (see WorkspaceSweep), then delete_template
DeleteRemote(w) ==
    LET t == act[w].template
    IN  /\ Working(w, "sweep")
        /\ remote' = [x \in Templates |->
              IF x = t /\ remote[x].status = "present"
              THEN Remote(remote[x].on, remote[x].by, remote[x].active, "gone")
              ELSE remote[x]]
        /\ Goto(w, Act("removed", {}, {}, NoSource, FALSE, NoResource, NoTemplate,
                       NoVersion))
        /\ UNCHANGED <<vars, src, dep, inst, ws, version, configured, strays>>

\* _remove_local_assignment
RemoveLocal(w) ==
    LET a == jobs[claims[w].job].resource
    IN  /\ Working(w, "removed")
        /\ Complete(w)
        /\ SetDeployment(a, NoDeployment)
        /\ ws' = [ws EXCEPT ![a] = "none"]
        /\ Goto(w, NoAct)
        /\ UNCHANGED <<src, inst, remote, version, configured, strays>>

Removal(w) == BeginRemoval(w) \/ DeleteRemote(w) \/ RemoveLocal(w)

-----------------------------------------------------------------------------
\* MaxAttempts must leave a job its last attempts: an instance update refuses
\* any number of them, so the last two wait for its end.
WithinAttempts(j) ==
    /\ jobs[j].attempt < MaxAttempts
    /\ (\E a \in Assignments : inst[a] = "updating") =>
          jobs[j].attempt + 2 < MaxAttempts

TClaim(w, m) ==
    /\ WithinAttempts(m[1])
    /\ Claim(w, m)
    /\ Goto(w, NoAct)
    /\ UNCHANGED <<src, dep, inst, ws, remote, version, configured, strays>>

\* Mutant of AllPublished: partial failures are not reported.
AllAttempted(w) == Working(w, "targets") /\ act[w].todo = {}

AllPublished(w) == Working(w, "targets") /\ act[w].todo = {} /\ ~act[w].failed

\* complete_execution of a publication
CompletePublication(w) ==
    /\ AllPublished(w)
    /\ Complete(w)
    /\ Goto(w, NoAct)
    /\ UNCHANGED <<src, dep, inst, ws, remote, version, configured, strays>>

\* A publication with failed targets raises, whatever the bound on disturbances.
Raise(w) ==
    LET j == claims[w].job
        r == jobs[j].resource
    IN  /\ Working(w, "targets")
        /\ act[w].todo = {}
        /\ act[w].failed
        /\ jobs' = [jobs EXCEPT ![j] = FailedJob(jobs[j])]
        /\ resources' = WithResource(r,
              ResourceWith(resources[r], claims[w].step, "error"))
        /\ claims' = [claims EXCEPT ![w] = NoClaim]
        /\ Goto(w, NoAct)
        /\ UNCHANGED <<queue, scans, disturbances>>
        /\ UNCHANGED <<src, dep, inst, ws, remote, version, configured, strays>>

\* An error of the database or outside a publication, a lost claim, or the
\* death of the process.
TStop(w) ==
    /\ Fail(w) \/ Abandon(w) \/ Crash(w)
    /\ Goto(w, NoAct)
    /\ UNCHANGED <<src, dep, inst, ws, remote, version, configured, strays>>

-----------------------------------------------------------------------------
\* Coder and its administrators.

EndImport(v, status) ==
    /\ version[v].status = "pending"
    /\ version' = [version EXCEPT ![v] =
          Version(version[v].on, version[v].source, version[v].of, status)]
    /\ UNCHANGED <<jobs, resources, queue, claims, scans>>
    /\ UNCHANGED <<src, dep, inst, ws, remote, act, configured, strays>>

ImportSucceeds(v) == EndImport(v, "succeeded") /\ UNCHANGED disturbances

ImportFails(v) == "imports" \in Events /\ EndImport(v, "failed") /\ Disturb

\* Somebody else's template under the same technical name
AdminCreates(a, t) ==
    /\ "admin" \in Events
    /\ Named(a) = {}
    /\ remote[t].status = "unused"
    /\ remote' = [remote EXCEPT ![t] = Remote(a, "admin", NoVersion, "present")]
    /\ Disturb
    /\ UNCHANGED <<jobs, resources, queue, claims, scans>>
    /\ UNCHANGED <<src, dep, inst, ws, version, act, configured, strays>>

-----------------------------------------------------------------------------
Engine(A) == A /\ UNCHANGED aside

TNext ==
    \/ \E j \in NewIds, a \in Assignments : PutAssignment(j, a) \/ DeleteAssignment(j, a)
    \/ \E j \in NewIds : SyncTemplate(j)
    \/ UpdateTemplate \/ DeleteTemplate \/ CreateTemplate
    \/ ChangeParameters \/ MoveBranch
    \/ \E a \in Assignments : \/ CheckStop(a) \/ CommitStop(a) \/ StartInstance(a)
                              \/ ConfigureProvider(a) \/ FinishUpdate(a)
                              \/ RequestWorkspace(a) \/ SettleWorkspace(a)
    \/ \E w \in Workers, m \in queue : TClaim(w, m)
    \/ \E w \in Workers : Publish(w) \/ Removal(w) \/ FailTarget(w)
                          \/ CompletePublication(w) \/ Raise(w) \/ TStop(w)
    \/ \E v \in Versions : ImportSucceeds(v) \/ ImportFails(v)
    \/ \E a \in Assignments, t \in NewTemplates : AdminCreates(a, t)
    \/ \E m \in queue : Engine(IgnoreDelivery(m)) \/ Engine(Lose(m))
    \/ \E j \in Jobs : Engine(Expire(j))
    \/ \E s \in Scanners : Engine(ScanStart(s)) \/ Engine(ScanEnd(s))
    \/ \E s \in Scanners, j \in Jobs : Engine(ScanJob(s, j))

TSpec == TInit /\ [][TNext]_tvars

\* The fairness of the engine; an import ends, and so does a transaction that
\* holds a row lock.  Nothing is assumed of requests.
TFairness ==
    /\ \A m \in Jobs \X Steps :
          WF_tvars((\E w \in Workers : TClaim(w, m)) \/ Engine(IgnoreDelivery(m)))
    /\ \A w \in Workers :
          WF_tvars(\/ Publish(w) \/ Removal(w) \/ CompletePublication(w) \/ Raise(w)
                   \/ TStop(w) /\ disturbances' = disturbances)
    /\ \A v \in Versions : WF_tvars(ImportSucceeds(v))
    /\ \A a \in Assignments : WF_tvars(CommitStop(a)) /\ WF_tvars(FinishUpdate(a))
    /\ \A j \in Jobs : WF_tvars(Engine(Expire(j)))
    /\ \A s \in Scanners : /\ WF_tvars(Engine(ScanStart(s)))
                           /\ WF_tvars(\E j \in Jobs : Engine(ScanJob(s, j)))
                           /\ WF_tvars(Engine(ScanEnd(s)))

TFairSpec == TSpec /\ TFairness

-----------------------------------------------------------------------------
\* A deployment recorded as successful is what users of the instance get: the
\* stored remote template is there, is the manager's, and its active version
\* was imported from the recorded commit with the recorded system parameters,
\* whichever attempts of which jobs contributed to it.  The source path is not
\* recorded, and nothing is said of it.
SuccessIsPublished ==
    \A a \in Assignments :
        (dep[a].status = "success" /\ resources[a].action = "creating") =>
            LET t == dep[a].template
            IN  /\ t \in Named(a)
                /\ remote[t].by = "manager"
                /\ Key(version[remote[t].active].source) = dep[a].applied

\* The template belongs to an assignment whose next attempt takes it for its own.
Recognised(t) == /\ resources[remote[t].on].status # "absent"
                 /\ t \in Recovered(remote[t].on)

Made(t) == remote[t].by = "manager" /\ remote[t].status = "present"

\* Every template the manager made on an instance belongs to an assignment
\* that the next attempt recognises as its own, wherever its maker crashed or
\* failed and whatever was requested since, unless the identifier was not stored
\* yet and a push of another commit made an attempt drop the version before.
OwnTemplatesAreRecognised ==
    \A t \in Templates \ strays : Made(t) => Recognised(t)

\* The store of the remote identifiers closes the retry windows: a template
\* that the manager made is recognised by every later attempt.
RetryWindowsAreClosed == \A t \in Templates : Made(t) => Recognised(t)

\* A template of the same name that somebody else made is never adopted,
\* published to or deleted.
ForeignTemplatesAreSafe ==
    \A t \in Templates : remote[t].by = "admin" =>
        /\ remote[t].status = "present"
        /\ remote[t].active = NoVersion
        /\ \A a \in Assignments : dep[a].template # t

\* An assignment in a transition finds its instance started: the requests that
\* could take it down read the assignments first.  The upload of a provider
\* configuration does not, so the instance may be in an update.
AssignmentsKeepInstances ==
    \A a \in Assignments : resources[a].status \in Unsettled =>
        inst[a] \in {"ready", "updating"}

\* While an assignment is in a transition it owns its instance: no job changes
\* the instance.
AssignmentsOwnInstances ==
    \A a \in Assignments : resources[a].status \in Unsettled => inst[a] = "ready"

\* While an assignment is in a transition no workspace of the pair is, and the
\* template is not synchronized, in whatever order the requests were accepted.
TransitionsExclude ==
    \A a \in Assignments : resources[a].status \in Unsettled =>
        /\ ws[a] # "busy"
        /\ resources[Template].status = "success"

\* While a template is synchronized its workspaces are in no transition and
\* its system parameters are those the workers have read.
SyncsAreStable ==
    /\ resources[Template].status \in Unsettled => NoActiveWorkspaces
    /\ \A w \in Workers : (Working(w, act[w].at) /\ act[w].want # NoSource) =>
          act[w].want.rev = src.rev /\ act[w].want.path = src.path

\* The requests on assignments, workspaces and the template, and the stop and
\* start of instances, exclude each other: each reads the tables of the others
\* before it commits.  Provider uploads are not among them.
RequestsExclude == AssignmentsKeepInstances /\ TransitionsExclude /\ SyncsAreStable

\* A synchronization that succeeded has published the current source path on
\* every assigned instance.
SyncPublishesSource ==
    (resources[Template].action = "syncing" /\ resources[Template].status = "success")
        => \A a \in Assignments : dep[a].status = "success" =>
              version[remote[dep[a].template].active].source.path = src.path

\* When a synchronization succeeds, every assigned instance that was up when
\* its worker read the targets has the commit the worker fetched with the system
\* parameters it read, partial failures of earlier attempts included.
SyncReachesEveryTarget ==
    [][\A w \in Workers :
         (/\ claims[w] # NoClaim
          /\ claims[w].step = SyncStep
          /\ Owns(w, claims[w].job)
          /\ resources'[Template].status = "success") =>
             \A a \in act[w].targets : /\ dep[a].status = "success"
                                       /\ dep[a].applied = Key(act[w].want)
      ]_tvars

\* A new attempt does not take up a version whose import has failed.
RetriesImportAnew ==
    [][\A w \in Workers : (act[w].at = "prepared" /\ act'[w].at = "importing") =>
          version[act'[w].version].status # "failed"]_tvars

\* What no retry mends: a template of its own that the assignment does not
\* recognise, and a stored version whose import has failed.
Stuck(a) == \/ \E t \in strays : remote[t].on = a
            \/ \E v \in Versions : v = dep[a].version /\ version[v].status = "failed"

\* Every accepted assignment, removal and synchronization is carried through,
\* after a crash or a failure at any point, unless a target is stuck.
TemplateRequestsSettle ==
    \A r \in Resources : resources[r].status = "pending" ~>
        \/ resources[r].status \in {"success", "absent"}
        \/ \E a \in Assignments : r \in {a, Template} /\ Stuck(a)
=============================================================================
