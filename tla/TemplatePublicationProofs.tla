---------------------- MODULE TemplatePublicationProofs ----------------------
(***************************************************************************)
(* Safety of the publication of a template, for every set of assignments,  *)
(* remote templates and versions, every number of workers, attempts and    *)
(* faults, and every event but those that a theorem names.  The requests   *)
(* keep the workers apart: two workers never work for one assignment at a  *)
(* time.  What a worker finds, makes and stores then stays as it left it.  *)
(***************************************************************************)
EXTENDS TemplatePublication, JobExecutionProofs

USE DisturbancesAssumption, NullAssumption, WorkflowAssumption, TemplateAssumption

\* Worker w owns its job.
Current(w) == claims[w] # NoClaim /\ Owns(w, claims[w].job)

\* The row that the job of worker w is about.
Row(w) == jobs[claims[w].job].resource

\* Every stored job is one of the three template operations, on its own table.
JobIsPlaced(j) ==
    \/ /\ jobs[j].name = "template.sync"
       /\ jobs[j].resource = Template
       /\ jobs[j].step = SyncStep
    \/ /\ jobs[j].name = "template_assignment.create"
       /\ jobs[j].resource \in Assignments
       /\ jobs[j].step = CreateStep
    \/ /\ jobs[j].name = "template_assignment.delete"
       /\ jobs[j].resource \in Assignments
       /\ jobs[j].step = DeleteStep

JobsArePlaced == \A j \in Jobs : jobs[j].status # "absent" => JobIsPlaced(j)

\* Only a catalog row that rests has no job.
RowsHaveJobs ==
    \A r \in Resources :
        (resources[r].status # "absent" /\ resources[r].job = NoJob) =>
            r = Template /\ resources[r].status = "success"

\* The engine's own invariants.
Fence == TypeOK /\ Fenced /\ JobsArePlaced /\ RowsHaveJobs

-----------------------------------------------------------------------------
\* An assignment that does not exist has no deployment and no workspaces.
AbsentIsClean ==
    \A a \in Assignments : resources[a].status = "absent" =>
        dep[a] = NoDeployment /\ ws[a] = "none"

\* The points of a publication at which a worker has a target.
Publishing == {"prepared", "located", "uploaded", "importing", "created", "published"}

\* The types of the rows and of the remote objects.
DeploymentRow == [status : {"none", "running", "success", "error"},
                  target : Nat \X Nat, applied : Nat \X Nat,
                  template : Templates \cup {NoTemplate},
                  version : Versions \cup {NoVersion}]

RemoteRow == [on : Resources \cup {NoResource},
              by : {"manager", "admin"},
              active : Versions \cup {NoVersion},
              status : {"unused", "present", "gone"}]

VersionRow == [on : Resources \cup {NoResource},
               source : Sources,
               of : Templates \cup {NoTemplate},
               status : {"unused", "pending", "succeeded", "failed"}]

Columns ==
    /\ src \in Sources
    /\ dep \in [Assignments -> DeploymentRow]
    /\ inst \in [Assignments -> {"ready", "checked", "down", "updating"}]
    /\ ws \in [Assignments -> {"none", "busy", "settled"}]
    /\ remote \in [Templates -> RemoteRow]
    /\ version \in [Versions -> VersionRow]

Places == Publishing \cup {"begin", "targets", "sweep", "removed"}

Acts == [at : Places, targets : SUBSET Assignments, todo : SUBSET Assignments,
         want : Sources, failed : BOOLEAN, target : Resources \cup {NoResource},
         template : Templates \cup {NoTemplate},
         version : Versions \cup {NoVersion}]

\* A worker at a target has one; a worker that waits for an import, or has one,
\* has the version; a worker that has made or activated a template has that.
Equipped(x) ==
    /\ x.at \in Publishing => x.target \in Assignments
    /\ x.at \notin Publishing => x.target = NoResource
    /\ x.at \in {"uploaded", "importing", "created", "published"} =>
          x.version \in Versions
    /\ x.at \in {"created", "published"} => x.template \in Templates

ActsAreTyped == act \in [Workers -> Acts] /\ \A w \in Workers : Equipped(act[w])

-----------------------------------------------------------------------------
\* A template somebody has is the manager's.
Managed(t) == remote[t].by = "manager" /\ remote[t].status # "unused"

\* Neither a row nor a worker ever names a template of somebody else.
NothingForeign ==
    /\ \A t \in Templates : remote[t].by = "admin" =>
          remote[t].status = "present" /\ remote[t].active = NoVersion
    /\ \A a \in Assignments : dep[a].template # NoTemplate =>
          Managed(dep[a].template)
    /\ \A w \in Workers : act[w].template # NoTemplate =>
          Managed(act[w].template)

-----------------------------------------------------------------------------
\* The requests keep each other out, provider uploads aside.
Exclusion == AbsentIsClean /\ TransitionsExclude /\ SyncsAreStable

\* The targets of a worker: assignments that stay assigned while it runs.
TargetsStay(w) ==
    /\ act[w].todo \subseteq act[w].targets
    /\ act[w].at \in Publishing => act[w].target \in act[w].todo
    /\ act[w].at \in Publishing \cup {"targets"} =>
          claims[w].step \in {SyncStep, CreateStep}
    /\ act[w].at \notin Publishing \cup {"targets"} => act[w].targets = {}
    /\ act[w].at \in {"sweep", "removed"} => claims[w].step = DeleteStep
    /\ claims[w].step = CreateStep => act[w].targets \subseteq {Row(w)}
    /\ claims[w].step = SyncStep =>
          \A a \in act[w].targets : resources[a].status = "success"

TargetsAreStable == \A w \in Workers : Current(w) => TargetsStay(w)

\* Worker w works for assignment a.
WorksFor(w, a) == Row(w) = a \/ a \in act[w].targets

\* No two workers work for one assignment.
Apart ==
    \A v \in Workers, w \in Workers, a \in Assignments :
        (Current(v) /\ Current(w) /\ WorksFor(v, a) /\ WorksFor(w, a)) => v = w

-----------------------------------------------------------------------------
\* A version that is stored, active or at hand exists and has this key.
Spells(v, key) == /\ v \in Versions
                  /\ version[v].status # "unused"
                  /\ Key(version[v].source) = key

\* Template t is the one of assignment a.
Belongs(t, a) == t \in Templates /\ Managed(t) /\ remote[t].on = a

\* A version that has not been made has no template.
UnusedAreBlank ==
    \A v \in Versions : version[v].status = "unused" => version[v].of = NoTemplate

\* Unused identifiers are blank, and rows name what is theirs.
RowsAreTrue ==
    /\ UnusedAreBlank
    /\ \A a \in Assignments :
          /\ dep[a].version # NoVersion => Spells(dep[a].version, dep[a].target)
          /\ dep[a].template # NoTemplate => Belongs(dep[a].template, a)

\* A successful deployment, with its active version spelled out.
Published(a) ==
    /\ Belongs(dep[a].template, a)
    /\ remote[dep[a].template].status = "present"
    /\ Spells(remote[dep[a].template].active, dep[a].applied)

SuccessIsSpelled ==
    \A a \in Assignments :
        (dep[a].status = "success" /\ resources[a].action = "creating") =>
            Published(a)

\* What worker w has achieved for its target at each point of a publication.
Achieved(w) ==
    LET a == act[w].target
        t == act[w].template
        v == act[w].version
    IN  act[w].at \in Publishing =>
          /\ dep[a].status = "running"
          /\ dep[a].target = Key(act[w].want)
          /\ act[w].at \in {"uploaded", "importing", "created", "published"} =>
                Spells(v, Key(act[w].want))
          /\ t # NoTemplate => Belongs(t, a)
          /\ (t # NoTemplate /\ act[w].at # "created") => dep[a].template = t
          /\ act[w].at \in {"created", "published"} =>
                remote[t].status = "present" /\ remote[t].active = v

\* A worker that removes an assignment has its template.
Sweeps(w) == (act[w].at = "sweep" /\ act[w].template # NoTemplate) =>
                 Belongs(act[w].template, Row(w))

\* The targets behind worker w are published, or it will report a failure.
Reached(w) == ~act[w].failed =>
    \A a \in act[w].targets \ act[w].todo :
        dep[a].status = "success" /\ dep[a].applied = Key(act[w].want)

WorkersAreTrue ==
    \A w \in Workers : Current(w) => Achieved(w) /\ Sweeps(w) /\ Reached(w)

PublicationInv == RowsAreTrue /\ SuccessIsSpelled /\ WorkersAreTrue

-----------------------------------------------------------------------------
(***************************************************************************)
(* The engine below: its types and its fence hold here as well, though the *)
(* catalog row comes and goes without a job.                               *)
(***************************************************************************)

\* What the three requests start.
LEMMA TemplateRequests ==
    ASSUME NEW t \in Transitions
    PROVE  /\ t.name \in DOMAIN RESOURCE_ACTIONS
           /\ t.first \in Steps
           /\ \/ /\ t.name = "template.sync"
                 /\ t.status = "success"
                 /\ t.first = SyncStep
                 /\ RESOURCE_ACTIONS[t.name] = "syncing"
              \/ /\ t.name = "template_assignment.create"
                 /\ t.status = "absent"
                 /\ t.first = CreateStep
                 /\ RESOURCE_ACTIONS[t.name] = "creating"
              \/ /\ t.name = "template_assignment.delete"
                 /\ t.status = "success"
                 /\ t.first = DeleteStep
                 /\ RESOURCE_ACTIONS[t.name] = "deleting"
<1>1. /\ RESOURCE_ACTIONS["template.sync"] = "syncing"
      /\ RESOURCE_ACTIONS["template_assignment.create"] = "creating"
      /\ RESOURCE_ACTIONS["template_assignment.delete"] = "deleting"
  BY DEF RESOURCE_ACTIONS
<1>2. t \in TemplateTransitions
  BY TemplateTables
<1>3. \/ /\ t.name = "template.sync"
         /\ t.status = "success"
         /\ t.first = "step_01_sync_template"
      \/ /\ t.name = "template_assignment.create"
         /\ t.status = "absent"
         /\ t.first = "step_01_create_template"
      \/ /\ t.name = "template_assignment.delete"
         /\ t.status = "success"
         /\ t.first = "step_01_delete_template"
  BY <1>2 DEF TemplateTransitions
<1>4. /\ t.name \in DOMAIN RESOURCE_ACTIONS
      /\ t.first \in Steps
  BY <1>3
<1> QED
  BY <1>1, <1>3, <1>4 DEF SyncStep, CreateStep, DeleteStep

\* The catalog row is written outside the engine, while no job has it.
CatalogStep ==
    /\ resources[Template].status \in {"success", "absent"}
    /\ \E new \in {CatalogRow("creating"), CatalogRow("updating"), AbsentResource} :
          CatalogTo(new)
    /\ UNCHANGED <<jobs, queue, claims, scans, disturbances>>

\* Somebody else disturbs.
Tick == /\ UNCHANGED <<jobs, resources, queue, claims, scans>>
        /\ disturbances' \in Nat

\* A step is one of the engine, or one of these.
LEMMA TemplateStep ==
    ASSUME TypeOK, [TNext]_tvars
    PROVE  \/ [Next]_vars
           \/ CatalogStep
           \/ \E w \in Workers : Raise(w)
           \/ Tick
<1>1. NewIds \subseteq Jobs
  BY DEF NewIds, Draw
<1>2. Disturb => disturbances' \in Nat
  BY DEF Disturb, TypeOK
<1>3. ASSUME NEW j \in NewIds, NEW a \in Assignments,
             PutAssignment(j, a) \/ DeleteAssignment(j, a)
      PROVE  Next
  BY <1>1, <1>3 DEF PutAssignment, DeleteAssignment, Transition, Next
<1>4. ASSUME NEW j \in NewIds, SyncTemplate(j)
      PROVE  Next
  BY <1>1, <1>4 DEF SyncTemplate, Transition, Next
<1>5. UpdateTemplate \/ DeleteTemplate \/ CreateTemplate => CatalogStep
  BY DEF UpdateTemplate, DeleteTemplate, CreateTemplate, CatalogStep
<1>6. ASSUME NEW a \in Assignments,
             \/ CheckStop(a) \/ CommitStop(a) \/ StartInstance(a)
             \/ FinishUpdate(a) \/ RequestWorkspace(a) \/ SettleWorkspace(a)
      PROVE  UNCHANGED vars
  BY <1>6 DEF CheckStop, CommitStop, StartInstance, FinishUpdate,
              RequestWorkspace, SettleWorkspace, SetInstance, SetWorkspaces
<1>7. ASSUME NEW a \in Assignments, ConfigureProvider(a)
      PROVE  UNCHANGED vars
  BY <1>7 DEF ConfigureProvider
<1>8. ASSUME NEW w \in Workers, NEW m \in queue, TClaim(w, m)
      PROVE  Next
  BY <1>8 DEF TClaim, Next
<1>9. ASSUME NEW w \in Workers, FailTarget(w)
      PROVE  Tick
  BY <1>2, <1>9, SMTT(20) DEF FailTarget, Tick, TypeOK
<1>10. ASSUME NEW w \in Workers, Publish(w)
       PROVE  UNCHANGED vars \/ Tick
  BY <1>9, <1>10
     DEF Publish, Begin, RefuseTarget, SkipTarget, Prepare, Locate,
         CreateVersion, StoreVersion, CreateRemote, StoreTemplate, Activate,
         FinishTarget
<1>11. ASSUME NEW w \in Workers, Removal(w) \/ CompletePublication(w) \/ TStop(w)
       PROVE  [Next]_vars
  BY <1>11 DEF Removal, BeginRemoval, DeleteRemote, RemoveLocal,
               CompletePublication, TStop, Next
<1>12. ASSUME NEW v \in Versions, ImportSucceeds(v) \/ ImportFails(v)
       PROVE  Tick
  BY <1>2, <1>12 DEF ImportSucceeds, ImportFails, EndImport, Tick, TypeOK
<1>13. ASSUME NEW a \in Assignments, NEW t \in NewTemplates, AdminCreates(a, t)
       PROVE  Tick
  BY <1>2, <1>13 DEF AdminCreates, Tick
<1>14. ASSUME \/ \E m \in queue : Engine(IgnoreDelivery(m)) \/ Engine(Lose(m))
              \/ \E j \in Jobs : Engine(Expire(j))
              \/ \E s \in Scanners : Engine(ScanStart(s)) \/ Engine(ScanEnd(s))
              \/ \E s \in Scanners, j \in Jobs : Engine(ScanJob(s, j))
       PROVE  Next
  BY <1>14 DEF Engine, Next
<1>15. ChangeParameters \/ MoveBranch \/ UNCHANGED tvars => UNCHANGED vars
  BY DEF ChangeParameters, MoveBranch, tvars
<1> QED
  BY <1>3, <1>4, <1>5, <1>6, <1>7, <1>8, <1>9, <1>10, <1>11, <1>12, <1>13,
     <1>14, <1>15 DEF TNext

\* Somebody claims job j.
Claimed(j) == \E w \in Workers, m \in queue : TClaim(w, m) /\ m[1] = j

\* A job keeps its operation, its row and its step; only a claim makes it run.
JobMoves(j) ==
    /\ jobs'[j].status # "absent" =>
          \/ /\ jobs[j].status # "absent"
             /\ jobs'[j].name = jobs[j].name
             /\ jobs'[j].resource = jobs[j].resource
             /\ jobs'[j].step = jobs[j].step
          \/ jobs[j].status = "absent" /\ JobIsPlaced(j)'
    /\ jobs'[j].status = "running" =>
          \/ jobs[j].status = "running" /\ jobs'[j].attempt = jobs[j].attempt
          \/ Claimed(j)

LEMMA JobsMove ==
    ASSUME TypeOK, [TNext]_tvars, NEW j \in Jobs
    PROVE  JobMoves(j)
<1>1. jobs' = jobs => JobMoves(j)
  BY DEF JobMoves
<1>2. ASSUME NEW k \in Jobs, NEW status, NEW claimed, jobs[k].status # "absent",
             status # "running",
             jobs' = [jobs EXCEPT ![k] = JobWith(jobs[k], jobs[k].step, status,
                                                 jobs[k].attempt, claimed)]
      PROVE  JobMoves(j)
  <2>1. jobs'[j] = IF j = k THEN JobWith(jobs[k], jobs[k].step, status,
                                         jobs[k].attempt, claimed)
                   ELSE jobs[j]
    BY <1>2 DEF TypeOK
  <2> QED
    BY <1>2, <2>1 DEF JobMoves, JobWith
<1>3. ASSUME NEW k \in Jobs, NEW t \in Transitions, NEW r \in Resources,
             Request(k, r, t), r = Template <=> t.name = "template.sync"
      PROVE  JobMoves(j)
  <2>1. jobs' = [jobs EXCEPT ![k] = NewJob(t.name, r, t.first)]
        /\ jobs[k].status = "absent"
    BY <1>3 DEF Request
  <2>2. CASE j # k
    BY <2>1, <2>2 DEF TypeOK, JobMoves
  <2>3. CASE j = k
    <3>1. jobs'[j] = NewJob(t.name, r, t.first)
      BY <2>1, <2>3 DEF TypeOK
    <3>2. JobIsPlaced(j)'
      BY <1>3, <3>1, TemplateRequests DEF NewJob, JobIsPlaced
    <3> QED
      BY <2>1, <2>3, <3>1, <3>2 DEF JobMoves, NewJob
  <2> QED
    BY <2>2, <2>3
<1>4. NewIds \subseteq Jobs
  BY DEF NewIds, Draw
<1>5. ASSUME NEW k \in NewIds, NEW a \in Assignments,
             PutAssignment(k, a) \/ DeleteAssignment(k, a)
      PROVE  JobMoves(j)
  BY <1>3, <1>4, <1>5 DEF PutAssignment, DeleteAssignment, Transition
<1>6. ASSUME NEW k \in NewIds, SyncTemplate(k)
      PROVE  JobMoves(j)
  BY <1>3, <1>4, <1>6 DEF SyncTemplate, Transition
<1>7. ASSUME NEW w \in Workers, NEW m \in queue, TClaim(w, m)
      PROVE  JobMoves(j)
  <2>1. /\ m[1] \in Jobs /\ jobs[m[1]].status # "absent"
        /\ jobs' = [jobs EXCEPT ![m[1]] = ClaimedJob(jobs[m[1]])]
    BY <1>7 DEF TClaim, Claim, Claimable, TypeOK
  <2>2. CASE j # m[1]
    BY <2>1, <2>2 DEF TypeOK, JobMoves
  <2>3. CASE j = m[1]
    <3>1. jobs'[j] = ClaimedJob(jobs[j])
      BY <2>1, <2>3 DEF TypeOK
    <3>2. Claimed(j)
      BY <1>7, <2>3 DEF Claimed
    <3> QED
      BY <2>1, <2>3, <3>1, <3>2 DEF JobMoves, ClaimedJob, JobWith
  <2> QED
    BY <2>2, <2>3
<1>8. ASSUME NEW w \in Workers, claims[w] # NoClaim, Owns(w, claims[w].job)
      PROVE  claims[w].job \in Jobs /\ jobs[claims[w].job].status # "absent"
  BY <1>8 DEF Owns, Owned, TypeOK, Claims
<1>9. ASSUME NEW w \in Workers, Complete(w)
      PROVE  JobMoves(j)
  BY <1>2, <1>8, <1>9 DEF Complete, CompletedJob
<1>10. ASSUME NEW w \in Workers, Fail(w) \/ Raise(w)
       PROVE  JobMoves(j)
  <2>1. /\ claims[w] # NoClaim /\ Owns(w, claims[w].job)
        /\ jobs' = [jobs EXCEPT ![claims[w].job] = FailedJob(jobs[claims[w].job])]
    BY <1>10 DEF Fail, Finish, Raise, Working
  <2> QED
    BY <1>2, <1>8, <2>1 DEF FailedJob
<1>11. ASSUME NEW k \in Jobs, Expire(k)
       PROVE  JobMoves(j)
  <2>1. jobs'[j] = IF j = k THEN ExpiredJob(jobs[j]) ELSE jobs[j]
    BY <1>11 DEF Expire, TypeOK
  <2> QED
    BY <2>1 DEF JobMoves, ExpiredJob, JobWith
<1>12. ASSUME NEW s \in Scanners, NEW k \in Jobs, ScanJob(s, k)
       PROVE  JobMoves(j)
  <2>1. \/ jobs' = jobs
        \/ jobs'[j] = IF j = k THEN ReclaimedJob(jobs[j]) ELSE jobs[j]
    BY <1>12 DEF ScanJob, TypeOK
  <2>2. CASE jobs'[j] = IF j = k THEN ReclaimedJob(jobs[j]) ELSE jobs[j]
    <3>1. CASE j = k /\ jobs[j].status = "running"
      <4>1. jobs'[j] = JobWith(jobs[j], jobs[j].step, "pending",
                               jobs[j].attempt, "none")
        BY <2>2, <3>1 DEF ReclaimedJob, DeferredJob
      <4> QED
        BY <3>1, <4>1 DEF JobMoves, JobWith
    <3>2. CASE ~(j = k /\ jobs[j].status = "running")
      BY <2>2, <3>2, SMTT(30) DEF JobMoves, ReclaimedJob
    <3> QED
      BY <3>1, <3>2
  <2> QED
    BY <1>1, <2>1, <2>2
<1>13. ASSUME NEW w \in Workers, Publish(w) \/ FailTarget(w)
       PROVE  jobs' = jobs
  BY <1>13
     DEF Publish, Begin, RefuseTarget, SkipTarget, Prepare, Locate,
         CreateVersion, StoreVersion, CreateRemote, StoreTemplate, Activate,
         FinishTarget, FailTarget, vars
<1>14. ASSUME NEW a \in Assignments,
             \/ CheckStop(a) \/ CommitStop(a) \/ StartInstance(a)
             \/ ConfigureProvider(a) \/ FinishUpdate(a)
             \/ RequestWorkspace(a) \/ SettleWorkspace(a)
       PROVE  jobs' = jobs
  BY <1>14 DEF CheckStop, CommitStop, StartInstance, FinishUpdate, vars,
               RequestWorkspace, SettleWorkspace, SetInstance, SetWorkspaces,
               ConfigureProvider
<1>15. ASSUME NEW w \in Workers,
              Removal(w) \/ CompletePublication(w) \/ Raise(w) \/ TStop(w)
       PROVE  JobMoves(j)
  BY <1>1, <1>9, <1>10, <1>15
     DEF Removal, BeginRemoval, DeleteRemote, RemoveLocal, vars,
         CompletePublication, TStop, Abandon, Crash
<1>16. ASSUME UpdateTemplate \/ DeleteTemplate \/ CreateTemplate
              \/ ChangeParameters \/ MoveBranch \/ UNCHANGED tvars
       PROVE  jobs' = jobs
  BY <1>16 DEF UpdateTemplate, DeleteTemplate, CreateTemplate,
               ChangeParameters, MoveBranch, tvars, vars
<1>17. ASSUME \/ \E v \in Versions : ImportSucceeds(v) \/ ImportFails(v)
              \/ \E a \in Assignments, t \in NewTemplates : AdminCreates(a, t)
       PROVE  jobs' = jobs
  BY <1>17 DEF ImportSucceeds, ImportFails, EndImport, AdminCreates
<1>18. ASSUME \/ \E m \in queue : Engine(IgnoreDelivery(m)) \/ Engine(Lose(m))
              \/ \E s \in Scanners : Engine(ScanStart(s)) \/ Engine(ScanEnd(s))
       PROVE  jobs' = jobs
  BY <1>18 DEF Engine, IgnoreDelivery, Lose, ScanStart, ScanEnd
<1>19. ASSUME \/ \E k \in Jobs : Engine(Expire(k))
              \/ \E s \in Scanners, k \in Jobs : Engine(ScanJob(s, k))
       PROVE  JobMoves(j)
  BY <1>11, <1>12, <1>19 DEF Engine
<1> HIDE DEF JobMoves
<1> QED
  BY <1>1, <1>5, <1>6, <1>7, <1>13, <1>14, <1>15, <1>16, <1>17, <1>18, <1>19
     DEF TNext

-----------------------------------------------------------------------------
\* The row of r keeps its job and its action, and rests or is in transition as
\* before.
RowKept(r) ==
    /\ resources'[r].job = resources[r].job
    /\ resources'[r].action = resources[r].action
    /\ \/ resources'[r].status = resources[r].status
       \/ resources[r].status \in Unsettled /\ resources'[r].status \in Unsettled

\* A step of the broker, of time or of the recovery scan.
EngineStep ==
    \/ \E m \in queue : Engine(IgnoreDelivery(m)) \/ Engine(Lose(m))
    \/ \E j \in Jobs : Engine(Expire(j))
    \/ \E s \in Scanners : Engine(ScanStart(s)) \/ Engine(ScanEnd(s))
    \/ \E s \in Scanners, j \in Jobs : Engine(ScanJob(s, j))

\* The owner of a job works on a row that is running.
LEMMA CurrentRow ==
    ASSUME TypeOK, Fenced, JobsArePlaced, NEW w \in Workers, Current(w)
    PROVE  /\ claims[w].job \in Jobs
           /\ jobs[claims[w].job].status = "running"
           /\ claims[w].step = jobs[claims[w].job].step
           /\ Row(w) \in Resources
           /\ resources[Row(w)].status = "running"
           /\ resources[Row(w)].job = claims[w].job
           /\ resources[Row(w)].step = claims[w].step
           /\ ResourceOf(jobs[claims[w].job]) = resources[Row(w)]
           /\ \/ Row(w) = Template /\ claims[w].step = SyncStep
              \/ /\ Row(w) \in Assignments /\ claims[w].step = CreateStep
                 /\ resources[Row(w)].action = "creating"
              \/ /\ Row(w) \in Assignments /\ claims[w].step = DeleteStep
                 /\ resources[Row(w)].action = "deleting"
<1> DEFINE j == claims[w].job
<1>1. /\ j \in Jobs
      /\ jobs[j].status = "running"
      /\ claims[w].step = jobs[j].step
      /\ ResourceMatches(j, jobs[j], ResourceOf(jobs[j]))
  BY DEF Current, Owns, Owned, TypeOK, Claims
<1>2. JobIsPlaced(j)
  BY <1>1 DEF JobsArePlaced
<1>3. Row(w) \in Resources /\ Row(w) # NoResource
  BY <1>2 DEF JobIsPlaced, Row
<1>4. ResourceOf(jobs[j]) = resources[Row(w)]
  BY <1>3 DEF ResourceOf, Row
<1>5. /\ resources[Row(w)].status # "absent"
      /\ resources[Row(w)].job = j
      /\ resources[Row(w)].step = jobs[j].step
      /\ resources[Row(w)].action = RESOURCE_ACTIONS[jobs[j].name]
  BY <1>1, <1>3, <1>4 DEF ResourceMatches, Row
<1>6. resources[Row(w)].status = "running"
  BY <1>1, <1>3, <1>5 DEF Fenced, Linked
<1>7. /\ RESOURCE_ACTIONS["template_assignment.create"] = "creating"
      /\ RESOURCE_ACTIONS["template_assignment.delete"] = "deleting"
  BY DEF RESOURCE_ACTIONS
<1>8. \/ Row(w) = Template /\ claims[w].step = SyncStep
      \/ /\ Row(w) \in Assignments /\ claims[w].step = CreateStep
         /\ resources[Row(w)].action = "creating"
      \/ /\ Row(w) \in Assignments /\ claims[w].step = DeleteStep
         /\ resources[Row(w)].action = "deleting"
  BY <1>1, <1>2, <1>5, <1>7 DEF JobIsPlaced, Row
<1> QED
  BY <1>1, <1>3, <1>4, <1>5, <1>6, <1>8

\* Claims, ends of attempts and the recovery scan settle nothing and start nothing.
LEMMA EngineKeepsRows ==
    ASSUME TypeOK, Fenced, JobsArePlaced,
           \/ \E w \in Workers, m \in queue : TClaim(w, m)
           \/ \E w \in Workers : TStop(w) \/ Raise(w)
           \/ EngineStep
    PROVE  \A r \in Resources : RowKept(r)
<1>1. resources' = resources => \A r \in Resources : RowKept(r)
  BY DEF RowKept
<1>2. ASSUME NEW x, NEW step, NEW status, status \in Unsettled,
             x \in Resources => resources[x].status \in Unsettled,
             resources' = WithResource(x, ResourceWith(resources[x], step, status))
      PROVE  \A r \in Resources : RowKept(r)
  BY <1>2 DEF WithResource, ResourceWith, RowKept
<1>3. ASSUME NEW j \in Jobs, jobs[j].status \in Unsettled,
             ResourceMatches(j, jobs[j], ResourceOf(jobs[j]))
      PROVE  /\ jobs[j].resource \in Resources
             /\ ResourceOf(jobs[j]) = resources[jobs[j].resource]
             /\ resources[jobs[j].resource].status = jobs[j].status
  <2>1. jobs[j].resource \in Resources /\ jobs[j].resource # NoResource
    BY <1>3 DEF JobsArePlaced, JobIsPlaced, Unsettled
  <2>2. ResourceOf(jobs[j]) = resources[jobs[j].resource]
    BY <2>1 DEF ResourceOf
  <2> QED
    BY <1>3, <2>1, <2>2 DEF ResourceMatches, Fenced, Linked
<1>4. ASSUME NEW w \in Workers, NEW m \in queue, TClaim(w, m)
      PROVE  \A r \in Resources : RowKept(r)
  <2>1. /\ m[1] \in Jobs /\ jobs[m[1]].status \in {"pending", "error"}
        /\ ResourceMatches(m[1], jobs[m[1]], ResourceOf(jobs[m[1]]))
        /\ resources' = WithResource(jobs[m[1]].resource,
              ResourceWith(ResourceOf(jobs[m[1]]),
                           ResourceOf(jobs[m[1]]).step, "running"))
    BY <1>4 DEF TClaim, Claim, Claimable, TypeOK
  <2>2. jobs[m[1]].status \in Unsettled /\ "running" \in Unsettled
    BY <2>1 DEF Unsettled
  <2>3. /\ ResourceOf(jobs[m[1]]) = resources[jobs[m[1]].resource]
        /\ resources[jobs[m[1]].resource].status \in Unsettled
    BY <1>3, <2>1, <2>2
  <2> QED
    BY <1>2, <2>1, <2>2, <2>3
<1>5. ASSUME NEW w \in Workers, Fail(w) \/ Raise(w)
      PROVE  \A r \in Resources : RowKept(r)
  <2>1. Current(w)
    BY <1>5 DEF Fail, Finish, Raise, Working, Current
  <2>2. /\ Row(w) \in Resources
        /\ resources[Row(w)].status = "running"
        /\ ResourceOf(jobs[claims[w].job]) = resources[Row(w)]
    BY <2>1, CurrentRow, SMTT(20)
  <2>3. \E step : resources' =
           WithResource(Row(w), ResourceWith(resources[Row(w)], step, "error"))
    BY <1>5, <2>2 DEF Fail, Finish, Raise, Row
  <2>4. "error" \in Unsettled /\ "running" \in Unsettled
    BY DEF Unsettled
  <2> QED
    BY <1>2, <2>2, <2>3, <2>4
<1>6. ASSUME NEW s \in Scanners, NEW j \in Jobs, ScanJob(s, j)
      PROVE  \A r \in Resources : RowKept(r)
  <2> DEFINE old == ResourceOf(jobs[j])
  <2>1. CASE ~Retryable(j, jobs[j], old, j \in scans[s].stale)
    BY <1>1, <1>6, <2>1 DEF ScanJob
  <2>2. CASE Retryable(j, jobs[j], old, j \in scans[s].stale)
    <3>1. /\ jobs[j].resource \in Resources
          /\ old = resources[jobs[j].resource]
          /\ old.status = jobs[j].status
          /\ jobs[j].status \in Unsettled
      BY <1>3, <2>2 DEF Retryable, Unsettled
    <3>2. resources' = WithResource(jobs[j].resource,
             ResourceWith(old, old.step,
                IF jobs[j].status = "running" THEN "pending" ELSE old.status))
      BY <1>6, <2>2 DEF ScanJob
    <3>3. PICK st \in Unsettled :
             resources' = WithResource(jobs[j].resource,
                                       ResourceWith(old, old.step, st))
      BY <3>1, <3>2 DEF Unsettled
    <3> QED
      BY <1>2, <3>1, <3>3
  <2> QED
    BY <2>1, <2>2
<1> QED
  BY <1>1, <1>4, <1>5, <1>6
     DEF EngineStep, Engine, TStop, Abandon, Crash, IgnoreDelivery, Lose,
         Expire, ScanStart, ScanEnd

\* A completion settles the row, or removes it.
LEMMA CompletionEnds ==
    ASSUME TypeOK, Fenced, JobsArePlaced, NEW w \in Workers, Complete(w)
    PROVE  /\ Current(w)
           /\ claims'[w] = NoClaim
           /\ \A r \in Resources : r # Row(w) => resources'[r] = resources[r]
           /\ claims[w].step = DeleteStep => resources'[Row(w)] = AbsentResource
           /\ claims[w].step # DeleteStep =>
                 /\ resources'[Row(w)].status = "success"
                 /\ resources'[Row(w)].action = resources[Row(w)].action
                 /\ resources'[Row(w)].job = resources[Row(w)].job
<1>1. Current(w)
  BY DEF Complete, Current
<1>2. /\ Row(w) \in Resources
      /\ claims[w].step = jobs[claims[w].job].step
      /\ ResourceOf(jobs[claims[w].job]) = resources[Row(w)]
  BY <1>1, CurrentRow
<1>3. resources' = WithResource(Row(w),
         IF claims[w].step \in DeletingSteps THEN AbsentResource
         ELSE ResourceWith(resources[Row(w)], NoStep, "success"))
  BY <1>2 DEF Complete, Row
<1>4. claims[w].step \in DeletingSteps <=> claims[w].step = DeleteStep
  BY TemplateTables DEF TemplateDeletingSteps, DeleteStep
<1>5. claims'[w] = NoClaim
  BY DEF Complete, TypeOK
<1> QED
  BY <1>1, <1>2, <1>3, <1>4, <1>5 DEF WithResource, ResourceWith

\* No step breaks the engine's types.
LEMMA TemplateTypeStep ==
    ASSUME TypeOK, Fenced, JobsArePlaced, [TNext]_tvars
    PROVE  TypeOK'
<1>1. CASE [Next]_vars
  BY <1>1, TypeStep
<1>2. CASE CatalogStep
  <2>1. \A new \in {CatalogRow("creating"), CatalogRow("updating"), AbsentResource} :
           new \in ResourceRow
    BY DEF CatalogRow, AbsentResource, ResourceRow, Actions, JobStatus
  <2> QED
    BY <1>2, <2>1 DEF CatalogStep, CatalogTo, WithResource, TypeOK
<1>3. ASSUME NEW w \in Workers, Raise(w)
      PROVE  TypeOK'
  <2> DEFINE j == claims[w].job
  <2>1. Current(w)
    BY <1>3 DEF Raise, Working, Current
  <2>2. j \in Jobs /\ Row(w) \in Resources /\ claims[w].step \in Steps
    BY <2>1, CurrentRow DEF TypeOK, Claims, Current
  <2>3. FailedJob(jobs[j]) \in JobRow /\ FailedJob(jobs[j]).step = jobs[j].step
    BY <2>2, RowTypes DEF TypeOK, FailedJob, JobWith
  <2>4. ResourceWith(resources[Row(w)], claims[w].step, "error") \in ResourceRow
    BY <2>2, ResourceWithType DEF TypeOK, JobStatus
  <2>5. jobs[j].status # "absent"
    BY <2>1, CurrentRow
  <2> QED
    BY <1>3, <2>2, <2>3, <2>4, <2>5 DEF Raise, WithResource, TypeOK, Row
<1>4. CASE Tick
  BY <1>4 DEF Tick, TypeOK
<1> QED
  BY <1>1, <1>2, <1>3, <1>4, TemplateStep

\* The catalog row is written only while it rests, so no live job loses it.
LEMMA TemplateFencedStep ==
    ASSUME TypeOK, TypeOK', Fenced, JobsArePlaced, [TNext]_tvars
    PROVE  Fenced'
<1>1. CASE [Next]_vars
  BY <1>1, FencedStep
<1>2. CASE CatalogStep
  <2>1. /\ resources[Template].status \in {"success", "absent"}
        /\ resources'[Template].job = NoJob
        /\ \A r \in Resources : r # Template => resources'[r] = resources[r]
        /\ jobs' = jobs /\ claims' = claims
    BY <1>2 DEF CatalogStep, CatalogTo, WithResource, CatalogRow, AbsentResource
  <2>2. Linked'
    BY <2>1 DEF Fenced, Linked
  <2>3. ASSUME NEW j \in Jobs, jobs[j].status \in {"pending", "running"}
        PROVE  jobs[j].resource # Template
    <3> SUFFICES ASSUME jobs[j].resource = Template
                 PROVE  FALSE
      OBVIOUS
    <3>1. /\ resources[Template].status # "absent"
          /\ resources[Template].job = j
      BY <2>3 DEF Fenced, LiveJobsAreCurrent
    <3>2. resources[Template].status = jobs[j].status
      BY <3>1 DEF Fenced, Linked
    <3> QED
      BY <2>1, <2>3, <3>2
  <2>4. LiveJobsAreCurrent'
    <3> SUFFICES ASSUME NEW j \in Jobs, jobs[j].status \in {"pending", "running"},
                        jobs[j].resource # NoResource
                 PROVE  /\ resources'[jobs[j].resource].status # "absent"
                        /\ resources'[jobs[j].resource].job = j
      BY <2>1 DEF LiveJobsAreCurrent
    <3>1. jobs[j].resource \in Resources /\ jobs[j].resource # Template
      BY <2>3 DEF TypeOK, JobRow
    <3> QED
      BY <2>1, <3>1 DEF Fenced, LiveJobsAreCurrent
  <2>5. TokensAreUnique'
    BY <2>1 DEF Fenced, TokensAreUnique
  <2> QED
    BY <2>2, <2>4, <2>5 DEF Fenced
<1>3. ASSUME NEW w \in Workers, Raise(w)
      PROVE  Fenced'
  <2> DEFINE j   == claims[w].job
             new == FailedJob(jobs[j])
             res == ResourceWith(resources[Row(w)], claims[w].step, "error")
  <2>1. Current(w)
    BY <1>3 DEF Raise, Working, Current
  <2>2. /\ j \in Jobs /\ Row(w) \in Resources
        /\ claims[w].step \in Steps
        /\ ResourceOf(jobs[j]) = resources[Row(w)]
        /\ claims[w].step = jobs[j].step
    BY <2>1, CurrentRow DEF TypeOK, Claims, Current
  <2>3. new \in JobRow /\ res \in ResourceRow
    BY <2>2, RowTypes, ResourceWithType DEF TypeOK, JobStatus
  <2>4. OwnerWrites(w, new, res)
    BY <1>3, <2>1, <2>2
       DEF Raise, OwnerWrites, Current, Row, FailedJob, JobWith, ResourceWith
  <2> HIDE DEF new, res
  <2> QED
    BY <2>3, <2>4, OwnerFinishes
<1>4. CASE Tick
  BY <1>4 DEF Tick, Fenced, Linked, LiveJobsAreCurrent, TokensAreUnique
<1> QED
  BY <1>1, <1>2, <1>3, <1>4, TemplateStep

\* What a request leaves on the row it is about; the other rows stay.
Asked(r, name) ==
    /\ resources'[r].job \in Jobs
    /\ resources'[r].status = "pending"
    /\ resources'[r].action = RESOURCE_ACTIONS[name]
    /\ \A x \in Resources : x # r => resources'[x] = resources[x]
    /\ claims' = claims

LEMMA RequestAsks ==
    ASSUME NEW j \in NewIds, NEW r \in Resources, NEW name,
           Transition(name, j, r)
    PROVE  /\ Asked(r, name)
           /\ name = "template_assignment.create" => resources[r].status = "absent"
           /\ name \in {"template.sync", "template_assignment.delete"} =>
                 resources[r].status = "success"
<1>1. PICK t \in Transitions : t.name = name /\ Request(j, r, t)
  BY DEF Transition
<1>2. j \in Jobs
  BY DEF NewIds, Draw
<1>3. resources' = WithResource(r, Requested(j, name, t.first))
      /\ resources[r].status = t.status /\ claims' = claims
  BY <1>1 DEF Request
<1>4. Asked(r, name)
  BY <1>2, <1>3 DEF Asked, WithResource, Requested
<1> QED
  BY <1>1, <1>3, <1>4, TemplateRequests

\* The engine's invariants are kept.
LEMMA TemplateFenceStep ==
    ASSUME Fence, [TNext]_tvars
    PROVE  Fence'
<1>1. TypeOK'
  BY TemplateTypeStep DEF Fence
<1>2. Fenced'
  BY <1>1, TemplateFencedStep DEF Fence
<1>3. JobsArePlaced'
  <2> SUFFICES ASSUME NEW j \in Jobs, jobs'[j].status # "absent"
               PROVE  JobIsPlaced(j)'
    BY DEF JobsArePlaced
  <2>1. JobMoves(j)
    BY JobsMove DEF Fence
  <2> QED
    BY <2>1 DEF JobMoves, Fence, JobsArePlaced, JobIsPlaced
<1>4. RowsHaveJobs'
  <2>0. RowsHaveJobs
    BY DEF Fence
  <2>1. (\A r \in Resources : RowKept(r)) => RowsHaveJobs'
    BY <2>0 DEF RowsHaveJobs, RowKept, Unsettled
  <2>2. resources' = resources => RowsHaveJobs'
    BY <2>0 DEF RowsHaveJobs
  <2>3. ASSUME NEW r \in Resources, NEW name, Asked(r, name)
        PROVE  RowsHaveJobs'
    BY <2>0, <2>3 DEF RowsHaveJobs, Asked
  <2>4. ASSUME NEW w \in Workers, Complete(w)
        PROVE  RowsHaveJobs'
    <3>1. /\ Current(w)
          /\ \A r \in Resources : r # Row(w) => resources'[r] = resources[r]
          /\ claims[w].step = DeleteStep => resources'[Row(w)] = AbsentResource
          /\ claims[w].step # DeleteStep =>
                resources'[Row(w)].job = resources[Row(w)].job
      BY <2>4, CompletionEnds DEF Fence
    <3>2. resources[Row(w)].job \in Jobs
      BY <3>1, CurrentRow DEF Fence
    <3> QED
      BY <2>0, <3>1, <3>2 DEF RowsHaveJobs, AbsentResource
  <2>5. CatalogStep => RowsHaveJobs'
    <3> SUFFICES ASSUME CatalogStep
                 PROVE  RowsHaveJobs'
      OBVIOUS
    <3>1. /\ \A r \in Resources : r # Template => resources'[r] = resources[r]
          /\ resources'[Template].status \in {"absent", "success"}
      BY DEF CatalogStep, CatalogTo, WithResource, CatalogRow, AbsentResource
    <3> QED
      BY <2>0, <3>1 DEF RowsHaveJobs
  <2>6. ASSUME NEW j \in NewIds, NEW a \in Assignments,
               PutAssignment(j, a) \/ DeleteAssignment(j, a)
        PROVE  RowsHaveJobs'
    BY <2>3, <2>6, RequestAsks DEF PutAssignment, DeleteAssignment
  <2>7. ASSUME NEW j \in NewIds, SyncTemplate(j)
        PROVE  RowsHaveJobs'
    BY <2>3, <2>7, RequestAsks DEF SyncTemplate
  <2>8. ASSUME NEW w \in Workers, NEW m \in queue, TClaim(w, m)
        PROVE  RowsHaveJobs'
    BY <2>1, <2>8, EngineKeepsRows DEF Fence
  <2>9. ASSUME NEW w \in Workers, TStop(w) \/ Raise(w)
        PROVE  RowsHaveJobs'
    BY <2>1, <2>9, EngineKeepsRows DEF Fence
  <2>10. EngineStep => RowsHaveJobs'
    BY <2>1, EngineKeepsRows DEF Fence
  <2>11. ASSUME NEW w \in Workers, RemoveLocal(w) \/ CompletePublication(w)
         PROVE  RowsHaveJobs'
    BY <2>4, <2>11, SMTT(30) DEF RemoveLocal, CompletePublication
  <2>12. ASSUME NEW w \in Workers,
                Publish(w) \/ FailTarget(w) \/ BeginRemoval(w) \/ DeleteRemote(w)
         PROVE  resources' = resources
    BY <2>12
       DEF Publish, Begin, RefuseTarget, SkipTarget, Prepare, Locate,
           CreateVersion, StoreVersion, CreateRemote, StoreTemplate, Activate,
           FinishTarget, FailTarget, BeginRemoval, DeleteRemote, vars
  <2>13. ASSUME NEW a \in Assignments,
               \/ CheckStop(a) \/ CommitStop(a) \/ StartInstance(a)
               \/ ConfigureProvider(a) \/ FinishUpdate(a)
               \/ RequestWorkspace(a) \/ SettleWorkspace(a)
         PROVE  resources' = resources
    BY <2>13 DEF CheckStop, CommitStop, StartInstance, FinishUpdate, vars,
                 RequestWorkspace, SettleWorkspace, SetInstance, SetWorkspaces,
                 ConfigureProvider
  <2>14. UpdateTemplate \/ DeleteTemplate \/ CreateTemplate => CatalogStep
    BY DEF UpdateTemplate, DeleteTemplate, CreateTemplate, CatalogStep
  <2>15. ASSUME \/ ChangeParameters \/ MoveBranch \/ UNCHANGED tvars
                \/ \E v \in Versions : ImportSucceeds(v) \/ ImportFails(v)
                \/ \E a \in Assignments, t \in NewTemplates : AdminCreates(a, t)
         PROVE  resources' = resources
    BY <2>15 DEF ChangeParameters, MoveBranch, tvars, vars, ImportSucceeds,
                 ImportFails, EndImport, AdminCreates
  <2> QED
    BY <2>2, <2>5, <2>6, <2>7, <2>8, <2>9, <2>10, <2>11, <2>12, <2>13, <2>14,
       <2>15 DEF TNext, Removal, EngineStep
<1> QED
  BY <1>1, <1>2, <1>3, <1>4 DEF Fence

\* Every reachable state is fenced.
LEMMA TemplateFenced == TSpec => []Fence
<1>1. TInit => Fence
  <2> SUFFICES ASSUME TInit
               PROVE  Fence
    OBVIOUS
  <2>1. TypeOK
    BY DEF TInit, TypeOK, AbsentJob, JobRow, JobNames, JobStatus, ClaimAge,
           CatalogRow, AbsentResource, ResourceRow, Actions, IdleScan, ScanState
  <2>2. Fenced
    BY DEF TInit, Fenced, Linked, LiveJobsAreCurrent, TokensAreUnique,
           AbsentJob, AbsentResource, CatalogRow
  <2>3. JobsArePlaced /\ RowsHaveJobs
    BY DEF TInit, JobsArePlaced, RowsHaveJobs, AbsentJob, AbsentResource,
           CatalogRow
  <2> QED
    BY <2>1, <2>2, <2>3 DEF Fence
<1>2. Fence /\ [TNext]_tvars => Fence'
  BY TemplateFenceStep
<1> QED
  BY <1>1, <1>2, PTL DEF TSpec

-----------------------------------------------------------------------------
(***************************************************************************)
(* The workers: who owns a job goes on, and what a step changes besides.   *)
(***************************************************************************)

\* A worker goes on with the claim it had.
GoesOn(w) == Current(w) /\ claims'[w] = claims[w] /\ Row(w)' = Row(w)

\* Worker w has just claimed a job.
Begins(w) == \E m \in queue : TClaim(w, m)

\* Only a claim gives a worker another claim.
LEMMA ClaimsMove ==
    ASSUME TypeOK, [TNext]_tvars, NEW w \in Workers
    PROVE  claims'[w] \in {claims[w], NoClaim} \/ Begins(w)
<1>1. ASSUME NEW v \in Workers, claims' = [claims EXCEPT ![v] = NoClaim]
      PROVE  claims'[w] \in {claims[w], NoClaim}
  BY <1>1 DEF TypeOK
<1>2. ASSUME NEW v \in Workers, NEW m \in queue, TClaim(v, m)
      PROVE  claims'[w] = claims[w] \/ Begins(w)
  BY <1>2 DEF TClaim, Claim, Begins, TypeOK
<1>3. ASSUME NEW v \in Workers,
             \/ CompletePublication(v) \/ RemoveLocal(v) \/ Raise(v) \/ TStop(v)
      PROVE  claims' = [claims EXCEPT ![v] = NoClaim]
  BY <1>3 DEF CompletePublication, RemoveLocal, Raise, TStop, Complete, Fail,
              Finish, Abandon, Crash
<1>4. ASSUME NEW v \in Workers,
             Publish(v) \/ FailTarget(v) \/ BeginRemoval(v) \/ DeleteRemote(v)
      PROVE  claims' = claims
  BY <1>4
     DEF Publish, Begin, RefuseTarget, SkipTarget, Prepare, Locate,
         CreateVersion, StoreVersion, CreateRemote, StoreTemplate, Activate,
         FinishTarget, FailTarget, BeginRemoval, DeleteRemote, vars
<1>5. ASSUME NEW a \in Assignments,
             \/ CheckStop(a) \/ CommitStop(a) \/ StartInstance(a)
             \/ ConfigureProvider(a) \/ FinishUpdate(a)
             \/ RequestWorkspace(a) \/ SettleWorkspace(a)
      PROVE  claims' = claims
  BY <1>5 DEF CheckStop, CommitStop, StartInstance, FinishUpdate, vars,
              RequestWorkspace, SettleWorkspace, SetInstance, SetWorkspaces,
              ConfigureProvider
<1>6. ASSUME \/ UpdateTemplate \/ DeleteTemplate \/ CreateTemplate
             \/ ChangeParameters \/ MoveBranch \/ UNCHANGED tvars
             \/ \E v \in Versions : ImportSucceeds(v) \/ ImportFails(v)
             \/ \E a \in Assignments, t \in NewTemplates : AdminCreates(a, t)
             \/ EngineStep
      PROVE  claims' = claims
  BY <1>6 DEF UpdateTemplate, DeleteTemplate, CreateTemplate, ChangeParameters,
              MoveBranch, tvars, vars, ImportSucceeds, ImportFails, EndImport,
              AdminCreates, EngineStep, Engine, IgnoreDelivery, Lose, Expire,
              ScanStart, ScanEnd, ScanJob
<1>7. ASSUME \/ \E j \in NewIds, a \in Assignments :
                   PutAssignment(j, a) \/ DeleteAssignment(j, a)
             \/ \E j \in NewIds : SyncTemplate(j)
      PROVE  claims' = claims
  BY <1>7 DEF PutAssignment, DeleteAssignment, SyncTemplate, Transition, Request
<1> QED
  BY <1>1, <1>2, <1>3, <1>4, <1>5, <1>6, <1>7 DEF TNext, Removal, EngineStep

\* With the fence, a claim is current as long as its attempt runs.
CurrentIsRunning ==
    \A w \in Workers :
        Current(w) <=> /\ claims[w] # NoClaim
                       /\ jobs[claims[w].job].status = "running"
                       /\ jobs[claims[w].job].step = claims[w].step
                       /\ jobs[claims[w].job].attempt = claims[w].attempt

LEMMA CurrentIs == Fence => CurrentIsRunning
<1> SUFFICES ASSUME Fence, NEW w \in Workers
             PROVE  Current(w) <=>
                       /\ claims[w] # NoClaim
                       /\ jobs[claims[w].job].status = "running"
                       /\ jobs[claims[w].job].step = claims[w].step
                       /\ jobs[claims[w].job].attempt = claims[w].attempt
  BY DEF CurrentIsRunning
<1>1. ASSUME claims[w] # NoClaim, jobs[claims[w].job].status = "running"
      PROVE  ResourceMatches(claims[w].job, jobs[claims[w].job],
                             ResourceOf(jobs[claims[w].job]))
  <2> DEFINE j == claims[w].job
             r == jobs[j].resource
  <2>1. j \in Jobs
    BY <1>1 DEF Fence, TypeOK, Claims
  <2>2. r \in Resources /\ r # NoResource
    BY <1>1, <2>1 DEF Fence, JobsArePlaced, JobIsPlaced
  <2>3. /\ ResourceOf(jobs[j]) = resources[r]
        /\ resources[r].status # "absent" /\ resources[r].job = j
    BY <1>1, <2>1, <2>2 DEF ResourceOf, Fence, Fenced, LiveJobsAreCurrent
  <2>4. /\ jobs[j].name \in DOMAIN RESOURCE_ACTIONS
        /\ resources[r].action = RESOURCE_ACTIONS[jobs[j].name]
        /\ resources[r].status = jobs[j].status
        /\ resources[r].status # "success" => resources[r].step = jobs[j].step
    BY <2>1, <2>2, <2>3 DEF Fence, Fenced, Linked
  <2> QED
    BY <1>1, <2>3, <2>4 DEF ResourceMatches
<1> QED
  BY <1>1 DEF Current, Owns, Owned

\* The same in the next state.
LEMMA CurrentIsAfter == Fence' => CurrentIsRunning'
  BY CurrentIs, PTL

\* A worker that owns its job after a step owned it before, or claimed it.
LEMMA CurrentStep ==
    ASSUME Fence, Fence', [TNext]_tvars, NEW w \in Workers, Current(w)'
    PROVE  GoesOn(w) \/ Begins(w)
<1> SUFFICES ASSUME ~Begins(w)
             PROVE  GoesOn(w)
  OBVIOUS
<1> DEFINE j == claims[w].job
<1>1. claims'[w] = claims[w] /\ claims[w] # NoClaim
  BY ClaimsMove DEF Fence, Current
<1>2. j \in Jobs
  BY <1>1 DEF Fence, TypeOK, Claims
<1>3. /\ jobs'[j].status = "running"
      /\ jobs'[j].step = claims[w].step
      /\ jobs'[j].attempt = claims[w].attempt
  BY <1>1, CurrentIsAfter DEF CurrentIsRunning
<1>4. /\ jobs[j].status # "absent"
      /\ claims[w].attempt <= jobs[j].attempt
  BY <1>1 DEF Fence, Fenced, TokensAreUnique
<1>5. JobMoves(j)
  BY <1>2, JobsMove DEF Fence
<1>6. ~Claimed(j)
  <2> SUFFICES ASSUME NEW v \in Workers, NEW m \in queue, TClaim(v, m), m[1] = j
               PROVE  FALSE
    BY DEF Claimed
  <2>1. jobs'[j] = ClaimedJob(jobs[j])
    BY <1>2 DEF TClaim, Claim, Fence, TypeOK
  <2>2. jobs'[j].attempt = jobs[j].attempt + 1
    BY <2>1 DEF ClaimedJob, JobWith
  <2>3. jobs[j].attempt \in Nat /\ claims[w].attempt \in Nat
    BY <1>1, <1>2 DEF Fence, TypeOK, JobRow, Claims
  <2> QED
    BY <1>3, <1>4, <2>2, <2>3
<1>7. /\ jobs[j].status = "running"
      /\ jobs'[j].attempt = jobs[j].attempt
      /\ jobs'[j].step = jobs[j].step
      /\ jobs'[j].resource = jobs[j].resource
  BY <1>3, <1>4, <1>5, <1>6 DEF JobMoves
<1>8. Current(w)
  BY <1>1, <1>3, <1>7, CurrentIs DEF CurrentIsRunning
<1> QED
  BY <1>1, <1>7, <1>8 DEF GoesOn, Row

\* What a step changes of deployments, remote objects and workers.
LEMMA Effects ==
    ASSUME [TNext]_tvars
    PROVE  \/ UNCHANGED <<dep, remote, version, act>>
           \/ \E w \in Workers : /\ act' = [act EXCEPT ![w] = NoAct]
                                 /\ UNCHANGED <<dep, remote, version>>
           \/ \E w \in Workers : Publish(w) \/ FailTarget(w) \/ Removal(w)
           \/ \E v \in Versions : ImportSucceeds(v) \/ ImportFails(v)
           \/ \E a \in Assignments, t \in NewTemplates : AdminCreates(a, t)
<1>1. ASSUME NEW a \in Assignments,
             \/ CheckStop(a) \/ CommitStop(a) \/ StartInstance(a)
             \/ ConfigureProvider(a) \/ FinishUpdate(a)
             \/ RequestWorkspace(a) \/ SettleWorkspace(a)
      PROVE  UNCHANGED <<dep, remote, version, act>>
  BY <1>1 DEF CheckStop, CommitStop, StartInstance, FinishUpdate,
              RequestWorkspace, SettleWorkspace, SetInstance, SetWorkspaces,
              ConfigureProvider
<1>2. ASSUME \/ UpdateTemplate \/ DeleteTemplate \/ CreateTemplate
             \/ ChangeParameters \/ MoveBranch \/ UNCHANGED tvars
             \/ EngineStep
             \/ \E j \in NewIds, a \in Assignments :
                   PutAssignment(j, a) \/ DeleteAssignment(j, a)
             \/ \E j \in NewIds : SyncTemplate(j)
      PROVE  UNCHANGED <<dep, remote, version, act>>
  BY <1>2 DEF UpdateTemplate, DeleteTemplate, CreateTemplate, ChangeParameters,
              MoveBranch, tvars, EngineStep, Engine, PutAssignment,
              DeleteAssignment, SyncTemplate, aside
<1>3. ASSUME NEW w \in Workers,
             \/ \E m \in queue : TClaim(w, m)
             \/ CompletePublication(w) \/ Raise(w) \/ TStop(w)
      PROVE  /\ act' = [act EXCEPT ![w] = NoAct]
             /\ UNCHANGED <<dep, remote, version>>
  BY <1>3 DEF TClaim, CompletePublication, Raise, TStop, Goto
<1> QED
  BY <1>1, <1>2, <1>3 DEF TNext, EngineStep

-----------------------------------------------------------------------------
(***************************************************************************)
(* Types.                                                                  *)
(***************************************************************************)

\* The keys of sources are pairs of numbers.
LEMMA KeyType == ASSUME NEW s \in Sources PROVE Key(s) \in Nat \X Nat
BY DEF Sources, Key

\* A worker goes to a typed point.
LEMMA GotoType ==
    ASSUME ActsAreTyped, NEW w \in Workers, NEW x \in Acts, Equipped(x),
           Goto(w, x)
    PROVE  ActsAreTyped'
<1>1. \A v \in Workers : act'[v] = IF v = w THEN x ELSE act[v]
  BY DEF Goto, ActsAreTyped
<1>2. act' \in [Workers -> Acts]
  BY DEF Goto, ActsAreTyped
<1> QED
  BY <1>1, <1>2 DEF ActsAreTyped

\* A deployment row is replaced by another one.
LEMMA DeploymentType ==
    ASSUME Columns, NEW a, NEW d, a \in Assignments => d \in DeploymentRow,
           SetDeployment(a, d)
    PROVE  dep' \in [Assignments -> DeploymentRow]
BY DEF Columns, SetDeployment

\* The deployment rows that a publication writes.
LEMMA DeploymentTypes ==
    ASSUME Columns, NEW a \in Assignments, NEW want \in Sources,
           NEW t \in Templates \cup {NoTemplate}, NEW v \in Versions \cup {NoVersion},
           NEW status \in {"none", "running", "success", "error"}
    PROVE  /\ Prepared(a, want) \in DeploymentRow
           /\ Deployment(status, dep[a].target, dep[a].applied, t, v)
                 \in DeploymentRow
           /\ Deployment(status, dep[a].target, Key(want), t, v) \in DeploymentRow
           /\ NoDeployment \in DeploymentRow
           /\ dep[a].template \in Templates \cup {NoTemplate}
           /\ dep[a].version \in Versions \cup {NoVersion}
<1>1. /\ dep[a] \in DeploymentRow
      /\ Key(want) \in Nat \X Nat
      /\ NoKey \in Nat \X Nat
  BY KeyType DEF Columns, NoKey
<1>2. Prepared(a, want) \in DeploymentRow
  BY <1>1 DEF Prepared, Deployment, DeploymentRow
<1>3. NoDeployment \in DeploymentRow
  BY <1>1 DEF NoDeployment, Deployment, DeploymentRow
<1>4. /\ Deployment(status, dep[a].target, dep[a].applied, t, v) \in DeploymentRow
      /\ Deployment(status, dep[a].target, Key(want), t, v) \in DeploymentRow
      /\ dep[a].template \in Templates \cup {NoTemplate}
      /\ dep[a].version \in Versions \cup {NoVersion}
  BY <1>1 DEF Deployment, DeploymentRow
<1> QED
  BY <1>2, <1>3, <1>4

\* Every point of a step has its type.
LEMMA ActTypes ==
    ASSUME ActsAreTyped, NEW w \in Workers
    PROVE  /\ act[w] \in Acts
           /\ act[w].want \in Sources
           /\ act[w].template \in Templates \cup {NoTemplate}
           /\ act[w].version \in Versions \cup {NoVersion}
           /\ Equipped(act[w])
           /\ NoAct \in Acts /\ Equipped(NoAct)
           /\ \A a \in Assignments, failed \in BOOLEAN :
                 NextTarget(w, a, failed) => ActsAreTyped'
           /\ \A at \in Publishing, t \in Templates \cup {NoTemplate},
                 v \in Versions \cup {NoVersion} :
                 (/\ act[w].at \in Publishing
                  /\ at \in {"uploaded", "importing", "created", "published"} =>
                        v \in Versions
                  /\ at \in {"created", "published"} => t \in Templates
                  /\ Within(w, at, t, v)) => ActsAreTyped'
<1>1. act[w] \in Acts /\ Equipped(act[w])
  BY DEF ActsAreTyped
<1>2. /\ act[w].want \in Sources
      /\ act[w].template \in Templates \cup {NoTemplate}
      /\ act[w].version \in Versions \cup {NoVersion}
  BY <1>1 DEF Acts
<1>3. NoAct \in Acts /\ Equipped(NoAct)
  BY DEF NoAct, Act, Acts, Equipped, NoSource, Source, Sources, Places,
         Publishing
<1>4. ASSUME NEW a \in Assignments, NEW failed \in BOOLEAN,
             NextTarget(w, a, failed)
      PROVE  ActsAreTyped'
  <2> DEFINE x == Act("targets", act[w].targets, act[w].todo \ {a}, act[w].want,
                      act[w].failed \/ failed, NoResource, NoTemplate, NoVersion)
  <2>1. x \in Acts
    BY <1>1 DEF Act, Acts, Places
  <2>2. Equipped(x)
    BY DEF Act, Equipped, Publishing
  <2>3. Goto(w, x)
    BY <1>4 DEF NextTarget
  <2> HIDE DEF x
  <2> QED
    BY <2>1, <2>2, <2>3, GotoType
<1>5. ASSUME NEW at \in Publishing, NEW t \in Templates \cup {NoTemplate},
             NEW v \in Versions \cup {NoVersion}, act[w].at \in Publishing,
             at \in {"uploaded", "importing", "created", "published"} =>
                v \in Versions,
             at \in {"created", "published"} => t \in Templates,
             Within(w, at, t, v)
      PROVE  ActsAreTyped'
  <2> DEFINE x == Act(at, act[w].targets, act[w].todo, act[w].want,
                      act[w].failed, act[w].target, t, v)
  <2>1. x \in Acts
    BY <1>1, <1>5 DEF Act, Acts, Places
  <2>2. Equipped(x)
    BY <1>1, <1>5 DEF Act, Equipped
  <2>3. Goto(w, x)
    BY <1>5 DEF Within
  <2> HIDE DEF x
  <2> QED
    BY <2>1, <2>2, <2>3, GotoType
<1> QED
  BY <1>1, <1>2, <1>3, <1>4, <1>5

\* The steps of a worker keep the types.
LEMMA WorkTypes ==
    ASSUME Fence, Columns, ActsAreTyped, NEW w \in Workers,
           Publish(w) \/ FailTarget(w) \/ Removal(w)
    PROVE  /\ ActsAreTyped'
           /\ dep' \in [Assignments -> DeploymentRow]
           /\ remote' \in [Templates -> RemoteRow]
           /\ version' \in [Versions -> VersionRow]
<1> DEFINE Goal == /\ ActsAreTyped'
                   /\ dep' \in [Assignments -> DeploymentRow]
                   /\ remote' \in [Templates -> RemoteRow]
                   /\ version' \in [Versions -> VersionRow]
<1>0. /\ dep \in [Assignments -> DeploymentRow]
      /\ remote \in [Templates -> RemoteRow]
      /\ version \in [Versions -> VersionRow]
      /\ src \in Sources
  BY DEF Columns
<1>1. /\ act[w] \in Acts /\ Equipped(act[w])
      /\ act[w].want \in Sources
      /\ act[w].template \in Templates \cup {NoTemplate}
      /\ act[w].version \in Versions \cup {NoVersion}
  BY ActTypes
<1>2. act[w].at \in Publishing => act[w].target \in Assignments
  BY <1>1 DEF Equipped
<1>3. CASE Begin(w)
  <2>1. Current(w) /\ claims[w].step # DeleteStep
    BY <1>3 DEF Begin, Working, Current
  <2>2. claims[w].step # SyncStep => jobs[claims[w].job].resource \in Assignments
    BY <2>1, CurrentRow DEF Fence, Row
  <2>3. PICK targets \in SUBSET Assignments :
           Goto(w, Act("targets", targets, targets, src, FALSE, NoResource,
                       NoTemplate, NoVersion))
    BY <1>3, <2>2 DEF Begin, StableAssignments
  <2> DEFINE x == Act("targets", targets, targets, src, FALSE, NoResource,
                      NoTemplate, NoVersion)
  <2>4. x \in Acts
    BY <1>0 DEF Act, Acts, Places
  <2>5. Equipped(x)
    BY DEF Act, Equipped, Publishing
  <2>6. ActsAreTyped'
    <3> HIDE DEF x
    <3> QED
      BY <2>3, <2>4, <2>5, GotoType DEF x
  <2> QED
    BY <1>0, <1>3, <2>6 DEF Begin
<1>4. ASSUME NEW a \in Assignments, RefuseTarget(w, a) \/ SkipTarget(w, a)
      PROVE  Goal
  <2>1. NextTarget(w, a, TRUE) \/ NextTarget(w, a, FALSE)
    BY <1>4 DEF RefuseTarget, SkipTarget
  <2>2. ActsAreTyped'
    BY <2>1, ActTypes
  <2> QED
    BY <1>0, <1>4, <2>2 DEF RefuseTarget, SkipTarget
<1>5. ASSUME NEW a \in Assignments, Prepare(w, a)
      PROVE  Goal
  <2> DEFINE x == Act("prepared", act[w].targets, act[w].todo, act[w].want,
                      act[w].failed, a, NoTemplate, NoVersion)
  <2>1. x \in Acts
    BY <1>1 DEF Act, Acts, Places, Publishing
  <2>2. Equipped(x)
    BY DEF Act, Equipped, Publishing
  <2>3. Goto(w, x) /\ SetDeployment(a, Prepared(a, act[w].want))
    BY <1>5 DEF Prepare
  <2>4. ActsAreTyped'
    <3> HIDE DEF x
    <3> QED
      BY <2>1, <2>2, <2>3, GotoType
  <2>5. dep' \in [Assignments -> DeploymentRow]
    BY <1>1, <2>3, DeploymentTypes, DeploymentType
  <2> QED
    BY <1>0, <1>5, <2>4, <2>5 DEF Prepare
<1>6. CASE Locate(w)
  <2> DEFINE a == act[w].target
             d == dep[a]
  <2>1. act[w].at = "prepared" /\ a \in Assignments
    BY <1>2, <1>6 DEF Locate, Working, Publishing
  <2>2. PICK t \in IF Recovered(a) = {} THEN {NoTemplate} ELSE Recovered(a) :
           \E v \in KnownVersions(a, t, act[w].want) :
              /\ SetDeployment(a, Deployment(d.status, d.target, d.applied,
                    IF t = NoTemplate THEN d.template ELSE t, d.version))
              /\ Within(w, IF v = NoVersion THEN "located" ELSE "importing", t, v)
    BY <1>6 DEF Locate
  <2>3. PICK v \in KnownVersions(a, t, act[w].want) :
           /\ SetDeployment(a, Deployment(d.status, d.target, d.applied,
                 IF t = NoTemplate THEN d.template ELSE t, d.version))
           /\ Within(w, IF v = NoVersion THEN "located" ELSE "importing", t, v)
    BY <2>2
  <2>4. t \in Templates \cup {NoTemplate}
    BY DEF Recovered, Named
  <2>5. dep[a] \in DeploymentRow
    BY <1>0, <2>1
  <2>6. v \in Versions \cup {NoVersion}
    BY <2>3, <2>5 DEF KnownVersions, DeploymentRow
  <2>7. ActsAreTyped'
    BY <2>1, <2>3, <2>4, <2>6, ActTypes DEF Publishing
  <2>8. dep' \in [Assignments -> DeploymentRow]
    <3>1. Deployment(d.status, d.target, d.applied,
                     IF t = NoTemplate THEN d.template ELSE t, d.version)
             \in DeploymentRow
      BY <2>4, <2>5 DEF Deployment, DeploymentRow
    <3> QED
      BY <2>3, <3>1, DeploymentType
  <2> QED
    BY <1>0, <1>6, <2>7, <2>8 DEF Locate
<1>7. ASSUME NEW v \in NewVersions, CreateVersion(w, v)
      PROVE  Goal
  <2>1. v \in Versions /\ act[w].at = "located"
    BY <1>7 DEF NewVersions, Draw, CreateVersion, Working
  <2>2. ActsAreTyped'
    BY <1>1, <1>7, <2>1, ActTypes DEF CreateVersion, Publishing
  <2>3. Version(act[w].target, act[w].want, act[w].template, "pending")
           \in VersionRow
    BY <1>1 DEF Version, VersionRow, Acts
  <2> QED
    BY <1>0, <1>7, <2>2, <2>3 DEF CreateVersion
<1>8. ASSUME StoreVersion(w) \/ StoreTemplate(w) \/ FinishTarget(w)
      PROVE  Goal
  <2> DEFINE a == act[w].target
             d == dep[a]
  <2>1. /\ act[w].at \in {"uploaded", "created", "published"}
        /\ act[w].at \in Publishing
    BY <1>8 DEF StoreVersion, StoreTemplate, FinishTarget, Working, Publishing
  <2>2. /\ a \in Assignments
        /\ act[w].version \in Versions
        /\ act[w].at = "created" => act[w].template \in Templates
        /\ d \in DeploymentRow
    BY <1>0, <1>1, <1>2, <2>1 DEF Equipped
  <2>3. CASE StoreVersion(w)
    <3>1. ActsAreTyped'
      BY <1>1, <2>1, <2>2, <2>3, ActTypes DEF StoreVersion, Publishing
    <3>2. Deployment(d.status, d.target, d.applied, d.template, act[w].version)
             \in DeploymentRow
      BY <2>2 DEF Deployment, DeploymentRow
    <3> QED
      BY <1>0, <2>3, <3>1, <3>2, DeploymentType DEF StoreVersion
  <2>4. CASE StoreTemplate(w)
    <3>1. act[w].template \in Templates
      BY <2>2, <2>4 DEF StoreTemplate, Working
    <3>2. ActsAreTyped'
      BY <2>1, <2>2, <2>4, <3>1, ActTypes DEF StoreTemplate, Publishing
    <3>3. Deployment(d.status, d.target, d.applied, act[w].template, d.version)
             \in DeploymentRow
      BY <2>2, <3>1 DEF Deployment, DeploymentRow
    <3> QED
      BY <1>0, <2>4, <3>2, <3>3, DeploymentType DEF StoreTemplate
  <2>5. CASE FinishTarget(w)
    <3>1. ActsAreTyped'
      BY <2>2, <2>5, ActTypes DEF FinishTarget
    <3>2. Key(act[w].want) \in Nat \X Nat
      BY <1>1, KeyType
    <3>3. Deployment("success", d.target, Key(act[w].want), d.template, d.version)
             \in DeploymentRow
      BY <2>2, <3>2 DEF Deployment, DeploymentRow
    <3> QED
      BY <1>0, <2>5, <3>1, <3>3, DeploymentType DEF FinishTarget
  <2> QED
    BY <1>8, <2>3, <2>4, <2>5
<1>9. ASSUME NEW t \in NewTemplates, CreateRemote(w, t)
      PROVE  Goal
  <2> DEFINE v == act[w].version
  <2>1. t \in Templates /\ act[w].at = "importing"
    BY <1>9 DEF NewTemplates, Draw, CreateRemote, Imported, Working
  <2>2. v \in Versions
    BY <1>1, <2>1 DEF Equipped
  <2>3. ActsAreTyped'
    BY <1>9, <2>1, <2>2, ActTypes DEF CreateRemote, Publishing
  <2>4. Remote(act[w].target, "manager", v, "present") \in RemoteRow
    BY <1>1, <2>2 DEF Remote, RemoteRow, Acts
  <2>5. Version(version[v].on, version[v].source, t, version[v].status)
           \in VersionRow
    BY <1>0, <2>1, <2>2 DEF Version, VersionRow
  <2> QED
    BY <1>0, <1>9, <2>3, <2>4, <2>5 DEF CreateRemote
<1>10. CASE Activate(w)
  <2>1. /\ act[w].template \in Templates /\ act[w].at = "importing"
    BY <1>1, <1>10 DEF Activate, Imported, Working
  <2>2. act[w].version \in Versions
    BY <1>1, <2>1 DEF Equipped
  <2>3. ActsAreTyped'
    BY <1>10, <2>1, <2>2, ActTypes DEF Activate, Publishing
  <2>4. Activated(act[w].template, act[w].version) \in RemoteRow
    BY <1>0, <2>1, <2>2 DEF Activated, Remote, RemoteRow
  <2> QED
    BY <1>0, <1>10, <2>3, <2>4 DEF Activate
<1>11. CASE FailTarget(w)
  <2>1. act[w].target \in Assignments /\ dep[act[w].target] \in DeploymentRow
    BY <1>0, <1>1, <1>11 DEF FailTarget, Equipped
  <2>2. ActsAreTyped'
    BY <1>11, <2>1, ActTypes DEF FailTarget
  <2>3. dep' \in [Assignments -> DeploymentRow]
    BY <1>11, <2>1, DeploymentType
       DEF FailTarget, Deployment, DeploymentRow
  <2> QED
    BY <1>0, <1>11, <2>2, <2>3 DEF FailTarget
<1>12. CASE BeginRemoval(w)
  <2>1. Current(w) /\ claims[w].step = DeleteStep
    BY <1>12 DEF BeginRemoval, Working, Current
  <2>2. jobs[claims[w].job].resource \in Assignments
    BY <2>1, CurrentRow DEF Fence, Row, SyncStep, CreateStep, DeleteStep
  <2> DEFINE x == Act("sweep", {}, {}, NoSource, FALSE, NoResource,
                      dep[jobs[claims[w].job].resource].template, NoVersion)
  <2>3. x \in Acts
    BY <1>0, <2>2 DEF Act, Acts, Places, NoSource, Source, Sources, DeploymentRow
  <2>4. Equipped(x)
    BY DEF Act, Equipped, Publishing
  <2>5. Goto(w, x)
    BY <1>12 DEF BeginRemoval
  <2>6. ActsAreTyped'
    <3> HIDE DEF x
    <3> QED
      BY <2>3, <2>4, <2>5, GotoType
  <2> QED
    BY <1>0, <1>12, <2>6 DEF BeginRemoval
<1>13. CASE DeleteRemote(w)
  <2> DEFINE x == Act("removed", {}, {}, NoSource, FALSE, NoResource, NoTemplate,
                      NoVersion)
  <2>1. x \in Acts /\ Equipped(x)
    BY DEF Act, Acts, Places, NoSource, Source, Sources, Equipped, Publishing
  <2>2. Goto(w, x)
    BY <1>13 DEF DeleteRemote
  <2>3. ActsAreTyped'
    <3> HIDE DEF x
    <3> QED
      BY <2>1, <2>2, GotoType
  <2>4. remote' \in [Templates -> RemoteRow]
    BY <1>0, <1>13 DEF DeleteRemote, Remote, RemoteRow
  <2> QED
    BY <1>0, <1>13, <2>3, <2>4 DEF DeleteRemote
<1>14. CASE RemoveLocal(w)
  <2>1. ActsAreTyped'
    BY <1>14, ActTypes, GotoType DEF RemoveLocal
  <2>2. NoDeployment \in DeploymentRow
    BY DEF NoDeployment, Deployment, DeploymentRow, NoKey
  <2> QED
    BY <1>0, <1>14, <2>1, <2>2, DeploymentType DEF RemoveLocal
<1> QED
  BY <1>3, <1>4, <1>5, <1>6, <1>7, <1>8, <1>9, <1>10, <1>11, <1>12, <1>13,
     <1>14 DEF Publish, Removal

\* The steps that read or write the remote objects of a worker's target leave
\* the source, the instances and, but for a removal, the workspaces.
LEMMA WorkersKeepRequests ==
    ASSUME NEW w \in Workers, Publish(w) \/ FailTarget(w) \/ Removal(w)
    PROVE  /\ UNCHANGED <<src, inst>>
           /\ ws' = ws \/ RemoveLocal(w)
<1>1. ASSUME FailTarget(w) PROVE UNCHANGED <<src, inst, ws>>
  BY <1>1, Zenon DEF FailTarget
<1>2. ASSUME Publish(w) PROVE UNCHANGED <<src, inst, ws>>
  BY <1>1, <1>2, ZenonT(30)
     DEF Publish, Begin, RefuseTarget, SkipTarget, Prepare, Locate,
         CreateVersion, StoreVersion, CreateRemote, StoreTemplate, Activate,
         FinishTarget
<1>3. ASSUME Removal(w)
      PROVE  UNCHANGED <<src, inst>> /\ (ws' = ws \/ RemoveLocal(w))
  BY <1>3 DEF Removal, BeginRemoval, DeleteRemote, RemoveLocal
<1> QED
  BY <1>1, <1>2, <1>3

\* Providers come by their requests, and templates are forgotten in _prepare_deployment.
LEMMA SetsMove ==
    ASSUME [TNext]_tvars
    PROVE  /\ \/ configured' = configured
              \/ \E a \in Assignments : ConfigureProvider(a)
           /\ \/ strays' = strays
              \/ \E w \in Workers, a \in Assignments : Prepare(w, a)
<1>1. ASSUME NEW w \in Workers, Publish(w)
      PROVE  /\ configured' = configured
             /\ strays' = strays \/ \E a \in Assignments : Prepare(w, a)
  <2>1. ASSUME NEW a \in Assignments, RefuseTarget(w, a) \/ SkipTarget(w, a)
        PROVE  UNCHANGED <<configured, strays>>
    BY <2>1 DEF RefuseTarget, SkipTarget
  <2>2. ASSUME NEW a \in Assignments, Prepare(w, a)
        PROVE  configured' = configured
    BY <2>2, Zenon DEF Prepare
  <2>3. ASSUME Hopeless(w) /\ FailTarget(w)
        PROVE  UNCHANGED <<configured, strays>>
    BY <2>3, Zenon DEF FailTarget
  <2>4. ASSUME \/ Begin(w) \/ Locate(w)
               \/ \E v \in NewVersions : CreateVersion(w, v)
               \/ StoreVersion(w)
        PROVE  UNCHANGED <<configured, strays>>
    BY <2>4, ZenonT(30) DEF Begin, Locate, CreateVersion, StoreVersion
  <2>5. ASSUME \/ \E t \in NewTemplates : CreateRemote(w, t)
               \/ StoreTemplate(w) \/ Activate(w) \/ FinishTarget(w)
        PROVE  UNCHANGED <<configured, strays>>
    BY <2>5, ZenonT(30) DEF CreateRemote, StoreTemplate, Activate, FinishTarget
  <2> QED
    BY <1>1, <2>1, <2>2, <2>3, <2>4, <2>5 DEF Publish
<1>2. ASSUME NEW w \in Workers, FailTarget(w)
      PROVE  UNCHANGED <<configured, strays>>
  BY <1>2, Zenon DEF FailTarget
<1>3. ASSUME NEW w \in Workers,
             \/ Removal(w) \/ \E m \in queue : TClaim(w, m)
             \/ CompletePublication(w) \/ Raise(w) \/ TStop(w)
      PROVE  UNCHANGED <<configured, strays>>
  BY <1>3 DEF Removal, BeginRemoval, DeleteRemote, RemoveLocal, TClaim,
              CompletePublication, Raise, TStop
<1>4. ASSUME \/ UpdateTemplate \/ DeleteTemplate \/ CreateTemplate
             \/ ChangeParameters \/ MoveBranch \/ UNCHANGED tvars
             \/ EngineStep
             \/ \E j \in NewIds, a \in Assignments :
                   PutAssignment(j, a) \/ DeleteAssignment(j, a)
             \/ \E j \in NewIds : SyncTemplate(j)
      PROVE  UNCHANGED <<configured, strays>>
  BY <1>4 DEF UpdateTemplate, DeleteTemplate, CreateTemplate, ChangeParameters,
              MoveBranch, tvars, EngineStep, Engine, PutAssignment,
              DeleteAssignment, SyncTemplate, aside
<1>5. ASSUME \/ \E v \in Versions : ImportSucceeds(v) \/ ImportFails(v)
             \/ \E a \in Assignments, t \in NewTemplates : AdminCreates(a, t)
      PROVE  UNCHANGED <<configured, strays>>
  BY <1>5 DEF ImportSucceeds, ImportFails, EndImport, AdminCreates
<1>6. ASSUME NEW a \in Assignments,
             \/ CheckStop(a) \/ CommitStop(a) \/ StartInstance(a)
             \/ FinishUpdate(a) \/ RequestWorkspace(a) \/ SettleWorkspace(a)
      PROVE  UNCHANGED <<configured, strays>>
  BY <1>6 DEF CheckStop, CommitStop, StartInstance, FinishUpdate,
              RequestWorkspace, SettleWorkspace, SetInstance, SetWorkspaces
<1>7. ASSUME NEW a \in Assignments, ConfigureProvider(a)
      PROVE  strays' = strays
  BY <1>7 DEF ConfigureProvider
<1> QED
  BY <1>1, <1>2, <1>3, <1>4, <1>5, <1>6, <1>7 DEF TNext, EngineStep

\* A request about an instance or its workspaces.
Asks(a) == \/ CheckStop(a) \/ CommitStop(a) \/ StartInstance(a)
           \/ ConfigureProvider(a) \/ FinishUpdate(a)
           \/ RequestWorkspace(a) \/ SettleWorkspace(a)

\* What a step changes of the source, the instances and the workspaces.
LEMMA RequestEffects ==
    ASSUME [TNext]_tvars
    PROVE  \/ UNCHANGED <<src, inst, ws>>
           \/ UpdateTemplate \/ CreateTemplate \/ ChangeParameters \/ MoveBranch
           \/ \E a \in Assignments : Asks(a)
           \/ \E w \in Workers : RemoveLocal(w)
<1>1. ASSUME NEW w \in Workers, Publish(w) \/ FailTarget(w) \/ Removal(w)
      PROVE  UNCHANGED <<src, inst, ws>> \/ RemoveLocal(w)
  BY <1>1, WorkersKeepRequests
<1>2. ASSUME NEW w \in Workers,
             \/ \E m \in queue : TClaim(w, m)
             \/ CompletePublication(w) \/ Raise(w) \/ TStop(w)
      PROVE  UNCHANGED <<src, inst, ws>>
  BY <1>2 DEF TClaim, CompletePublication, Raise, TStop
<1>3. ASSUME \/ DeleteTemplate \/ UNCHANGED tvars \/ EngineStep
             \/ \E j \in NewIds, a \in Assignments :
                   PutAssignment(j, a) \/ DeleteAssignment(j, a)
             \/ \E j \in NewIds : SyncTemplate(j)
      PROVE  UNCHANGED <<src, inst, ws>>
  BY <1>3 DEF DeleteTemplate, tvars, EngineStep, Engine, PutAssignment,
              DeleteAssignment, SyncTemplate, aside
<1>4. ASSUME \/ \E v \in Versions : ImportSucceeds(v) \/ ImportFails(v)
             \/ \E a \in Assignments, t \in NewTemplates : AdminCreates(a, t)
      PROVE  UNCHANGED <<src, inst, ws>>
  BY <1>4 DEF ImportSucceeds, ImportFails, EndImport, AdminCreates
<1> QED
  BY <1>1, <1>2, <1>3, <1>4 DEF TNext, EngineStep, Asks

\* Every step keeps the types.
LEMMA ColumnsStep ==
    ASSUME Fence, Columns, ActsAreTyped, [TNext]_tvars
    PROVE  Columns' /\ ActsAreTyped'
<1>0. /\ src \in Sources
      /\ dep \in [Assignments -> DeploymentRow]
      /\ inst \in [Assignments -> {"ready", "checked", "down", "updating"}]
      /\ ws \in [Assignments -> {"none", "busy", "settled"}]
      /\ remote \in [Templates -> RemoteRow]
      /\ version \in [Versions -> VersionRow]
  BY DEF Columns
<1>1. src' \in Sources
  <2>1. \A path, commit, rev \in Nat : Source(path, commit, rev) \in Sources
    BY DEF Source, Sources
  <2>2. src.path \in Nat /\ src.commit \in Nat /\ src.rev \in Nat
    BY <1>0 DEF Sources
  <2>3. CASE UpdateTemplate
    BY <2>1, <2>2, <2>3 DEF UpdateTemplate, Change
  <2>4. CASE CreateTemplate
    BY <2>1, <2>2, <2>4 DEF CreateTemplate
  <2>5. CASE ChangeParameters \/ MoveBranch
    BY <2>1, <2>2, <2>5 DEF ChangeParameters, MoveBranch, Change
  <2>6. CASE src' = src
    BY <1>0, <2>6
  <2>7. ASSUME \/ \E a \in Assignments : Asks(a)
               \/ \E w \in Workers : RemoveLocal(w)
        PROVE  src' = src
    BY <2>7 DEF Asks, CheckStop, CommitStop, StartInstance, FinishUpdate,
                RequestWorkspace, SettleWorkspace, SetInstance, SetWorkspaces,
                ConfigureProvider, RemoveLocal
  <2> QED
    BY <2>3, <2>4, <2>5, <2>6, <2>7, RequestEffects
<1>2. /\ inst' \in [Assignments -> {"ready", "checked", "down", "updating"}]
      /\ ws' \in [Assignments -> {"none", "busy", "settled"}]
  <2>1. ASSUME NEW a \in Assignments, Asks(a)
        PROVE  /\ inst' \in [Assignments -> {"ready", "checked", "down", "updating"}]
               /\ ws' \in [Assignments -> {"none", "busy", "settled"}]
    BY <1>0, <2>1 DEF Asks, CheckStop, CommitStop, StartInstance, FinishUpdate,
                RequestWorkspace, SettleWorkspace, SetInstance, SetWorkspaces,
                ConfigureProvider
  <2>2. ASSUME \/ UpdateTemplate \/ CreateTemplate \/ ChangeParameters
               \/ MoveBranch
        PROVE  UNCHANGED <<inst, ws>>
    BY <2>2 DEF UpdateTemplate, CreateTemplate, ChangeParameters, MoveBranch
  <2>3. ASSUME NEW w \in Workers, RemoveLocal(w)
        PROVE  /\ inst' = inst
               /\ ws' \in [Assignments -> {"none", "busy", "settled"}]
    BY <1>0, <2>3 DEF RemoveLocal
  <2> QED
    BY <1>0, <2>1, <2>2, <2>3, RequestEffects
<1>4. /\ ActsAreTyped'
      /\ dep' \in [Assignments -> DeploymentRow]
      /\ remote' \in [Templates -> RemoteRow]
      /\ version' \in [Versions -> VersionRow]
  <2>1. CASE UNCHANGED <<dep, remote, version, act>>
    BY <1>0, <2>1 DEF ActsAreTyped
  <2>2. ASSUME NEW w \in Workers, act' = [act EXCEPT ![w] = NoAct],
               UNCHANGED <<dep, remote, version>>
        PROVE  ActsAreTyped'
    BY <2>2, ActTypes, GotoType DEF Goto
  <2>3. ASSUME NEW v \in Versions, ImportSucceeds(v) \/ ImportFails(v)
        PROVE  /\ UNCHANGED <<dep, remote, act>>
               /\ version' \in [Versions -> VersionRow]
    <3>1. PICK status \in {"succeeded", "failed"} : EndImport(v, status)
      BY <2>3 DEF ImportSucceeds, ImportFails
    <3>2. Version(version[v].on, version[v].source, version[v].of, status)
             \in VersionRow
      BY <1>0 DEF Version, VersionRow
    <3> QED
      BY <1>0, <3>1, <3>2 DEF EndImport
  <2>4. ASSUME NEW a \in Assignments, NEW t \in NewTemplates, AdminCreates(a, t)
        PROVE  /\ UNCHANGED <<dep, version, act>>
               /\ remote' \in [Templates -> RemoteRow]
    <3>1. Remote(a, "admin", NoVersion, "present") \in RemoteRow
      BY DEF Remote, RemoteRow
    <3> QED
      BY <1>0, <2>4, <3>1 DEF AdminCreates
  <2>5. UNCHANGED act => ActsAreTyped'
    BY DEF ActsAreTyped
  <2> QED
    BY <1>0, <2>1, <2>2, <2>3, <2>4, <2>5, Effects, WorkTypes
<1> QED
  BY <1>1, <1>2, <1>4 DEF Columns

-----------------------------------------------------------------------------
(***************************************************************************)
(* Somebody else's templates.                                              *)
(***************************************************************************)

\* What a step does to remote template t.
RemoteMoves(t) ==
    \/ remote'[t] = remote[t]
    \/ /\ remote[t].status = "unused"
       /\ remote'[t].status = "present"
       /\ \/ /\ \E w \in Workers : CreateRemote(w, t)
             /\ remote'[t].by = "manager"
          \/ /\ \E a \in Assignments : AdminCreates(a, t)
             /\ remote'[t].by = "admin"
             /\ remote'[t].active = NoVersion
    \/ /\ remote'[t].on = remote[t].on
       /\ remote'[t].by = remote[t].by
       /\ \E w \in Workers :
             /\ act[w].template = t
             /\ \/ /\ Activate(w)
                   /\ remote[t].status = "present"
                   /\ remote'[t].status = "present"
                   /\ remote'[t].active = act[w].version
                \/ /\ DeleteRemote(w)
                   /\ remote[t].status = "present"
                   /\ remote'[t].status = "gone"
                   /\ remote'[t].active = remote[t].active

LEMMA RemotesMove ==
    ASSUME Columns, [TNext]_tvars, NEW t \in Templates
    PROVE  RemoteMoves(t)
<1>0. remote \in [Templates -> RemoteRow]
  BY DEF Columns
<1>1. UNCHANGED remote => RemoteMoves(t)
  BY DEF RemoteMoves
<1>2. ASSUME NEW w \in Workers, NEW x \in NewTemplates, CreateRemote(w, x)
      PROVE  RemoteMoves(t)
  <2>1. remote'[t] = IF t = x THEN Remote(act[w].target, "manager",
                                          act[w].version, "present")
                     ELSE remote[t]
    BY <1>0, <1>2 DEF CreateRemote
  <2>2. remote[x].status = "unused"
    BY <1>2 DEF CreateRemote
  <2> QED
    BY <1>2, <2>1, <2>2 DEF RemoteMoves, Remote
<1>3. ASSUME NEW w \in Workers, Activate(w)
      PROVE  RemoteMoves(t)
  <2>1. remote'[t] = IF t = act[w].template THEN Activated(t, act[w].version)
                     ELSE remote[t]
    BY <1>0, <1>3 DEF Activate
  <2>2. remote[act[w].template].status = "present"
    BY <1>3 DEF Activate
  <2> QED
    BY <1>3, <2>1, <2>2 DEF RemoteMoves, Activated, Remote
<1>4. ASSUME NEW w \in Workers, DeleteRemote(w)
      PROVE  RemoteMoves(t)
  <2>1. remote'[t] = IF t = act[w].template /\ remote[t].status = "present"
                     THEN Remote(remote[t].on, remote[t].by, remote[t].active,
                                 "gone")
                     ELSE remote[t]
    BY <1>4 DEF DeleteRemote
  <2> QED
    BY <1>4, <2>1 DEF RemoteMoves, Remote
<1>5. ASSUME NEW a \in Assignments, NEW x \in NewTemplates, AdminCreates(a, x)
      PROVE  RemoteMoves(t)
  <2>1. remote'[t] = IF t = x THEN Remote(a, "admin", NoVersion, "present")
                     ELSE remote[t]
    BY <1>0, <1>5 DEF AdminCreates
  <2>2. remote[x].status = "unused"
    BY <1>5 DEF AdminCreates
  <2> QED
    BY <1>5, <2>1, <2>2 DEF RemoteMoves, Remote
<1>6. ASSUME NEW w \in Workers, FailTarget(w)
      PROVE  UNCHANGED remote
  BY <1>6 DEF FailTarget
<1>7. ASSUME NEW w \in Workers, Publish(w)
      PROVE  RemoteMoves(t)
  <2>1. ASSUME \/ Begin(w) \/ Locate(w) \/ StoreVersion(w) \/ StoreTemplate(w)
               \/ FinishTarget(w)
               \/ \E v \in NewVersions : CreateVersion(w, v)
               \/ \E a \in Assignments :
                     RefuseTarget(w, a) \/ SkipTarget(w, a) \/ Prepare(w, a)
        PROVE  UNCHANGED remote
    BY <2>1 DEF Begin, RefuseTarget, SkipTarget, Prepare, Locate,
                CreateVersion, StoreVersion, StoreTemplate, FinishTarget
  <2> QED
    BY <1>1, <1>2, <1>3, <1>6, <1>7, <2>1 DEF Publish
<1>8. ASSUME NEW w \in Workers, Removal(w)
      PROVE  RemoteMoves(t)
  BY <1>1, <1>4, <1>8 DEF Removal, BeginRemoval, RemoveLocal
<1>9. ASSUME NEW v \in Versions, ImportSucceeds(v) \/ ImportFails(v)
      PROVE  UNCHANGED remote
  BY <1>9 DEF ImportSucceeds, ImportFails, EndImport
<1> HIDE DEF RemoteMoves
<1> QED
  BY <1>1, <1>5, <1>6, <1>7, <1>8, <1>9, Effects

\* What a worker's step does to the row of assignment a.
DeploymentMoves(a) ==
    \/ dep'[a] = dep[a]
    \/ \E w \in Workers : Prepare(w, a) /\ dep'[a] = Prepared(a, act[w].want)
    \/ \E w \in Workers :
          /\ act[w].target = a
          /\ dep'[a].target = dep[a].target
          /\ \/ /\ Locate(w)
                /\ dep'[a].status = dep[a].status
                /\ dep'[a].applied = dep[a].applied
                /\ dep'[a].version = dep[a].version
                /\ dep'[a].template \in {dep[a].template, act'[w].template}
                /\ act'[w].template # NoTemplate =>
                      dep'[a].template = act'[w].template
             \/ /\ StoreVersion(w)
                /\ dep'[a].status = dep[a].status
                /\ dep'[a].applied = dep[a].applied
                /\ dep'[a].template = dep[a].template
                /\ dep'[a].version = act[w].version
             \/ /\ StoreTemplate(w)
                /\ dep'[a].status = dep[a].status
                /\ dep'[a].applied = dep[a].applied
                /\ dep'[a].template = act[w].template
                /\ dep'[a].version = dep[a].version
             \/ /\ FinishTarget(w)
                /\ dep'[a].status = "success"
                /\ dep'[a].applied = Key(act[w].want)
                /\ dep'[a].template = dep[a].template
                /\ dep'[a].version = dep[a].version
             \/ /\ FailTarget(w)
                /\ dep'[a].status = "error"
                /\ dep'[a].applied = dep[a].applied
                /\ dep'[a].template = dep[a].template
                /\ dep'[a].version = dep[a].version
    \/ \E w \in Workers : RemoveLocal(w) /\ Row(w) = a /\ dep'[a] = NoDeployment

LEMMA DeploymentsMove ==
    ASSUME Columns, ActsAreTyped, [TNext]_tvars, NEW a \in Assignments
    PROVE  DeploymentMoves(a)
<1>0. dep \in [Assignments -> DeploymentRow]
  BY DEF Columns
<1>1. UNCHANGED dep => DeploymentMoves(a)
  BY DEF DeploymentMoves
<1>2. ASSUME NEW b, NEW d, SetDeployment(b, d)
      PROVE  dep'[a] = IF b = a THEN d ELSE dep[a]
  BY <1>0, <1>2 DEF SetDeployment
<1>3. ASSUME NEW w \in Workers, NEW b \in Assignments, Prepare(w, b)
      PROVE  DeploymentMoves(a)
  BY <1>2, <1>3, SMTT(20) DEF Prepare, DeploymentMoves
<1>4. ASSUME NEW w \in Workers, Locate(w)
      PROVE  DeploymentMoves(a)
  <2> DEFINE b == act[w].target
             d == dep[b]
  <2>1. PICK t \in IF Recovered(b) = {} THEN {NoTemplate} ELSE Recovered(b) :
           \E v \in KnownVersions(b, t, act[w].want) :
              /\ SetDeployment(b, Deployment(d.status, d.target, d.applied,
                    IF t = NoTemplate THEN d.template ELSE t, d.version))
              /\ Within(w, IF v = NoVersion THEN "located" ELSE "importing", t, v)
    BY <1>4 DEF Locate
  <2>2. act'[w].template = t
    BY <2>1 DEF Within, Goto, Act, ActsAreTyped
  <2>3. dep'[a] = IF b = a THEN Deployment(d.status, d.target, d.applied,
                       IF t = NoTemplate THEN d.template ELSE t, d.version)
                  ELSE dep[a]
    BY <1>2, <2>1
  <2> QED
    BY <1>4, <2>2, <2>3 DEF DeploymentMoves, Deployment
<1>5. ASSUME NEW w \in Workers, StoreVersion(w)
      PROVE  DeploymentMoves(a)
  <2> DEFINE b == act[w].target
  <2>1. SetDeployment(b, Deployment(dep[b].status, dep[b].target, dep[b].applied,
                                    dep[b].template, act[w].version))
    BY <1>5 DEF StoreVersion
  <2>2. dep'[a] = IF b = a THEN Deployment(dep[b].status, dep[b].target,
                                   dep[b].applied, dep[b].template, act[w].version)
                  ELSE dep[a]
    BY <1>2, <2>1
  <2> QED
    BY <1>5, <2>2 DEF DeploymentMoves, Deployment
<1>6. ASSUME NEW w \in Workers, StoreTemplate(w)
      PROVE  DeploymentMoves(a)
  <2> DEFINE b == act[w].target
  <2>1. SetDeployment(b, Deployment(dep[b].status, dep[b].target, dep[b].applied,
                                    act[w].template, dep[b].version))
    BY <1>6 DEF StoreTemplate
  <2>2. dep'[a] = IF b = a THEN Deployment(dep[b].status, dep[b].target,
                                   dep[b].applied, act[w].template, dep[b].version)
                  ELSE dep[a]
    BY <1>2, <2>1
  <2> QED
    BY <1>6, <2>2 DEF DeploymentMoves, Deployment
<1>7. ASSUME NEW w \in Workers, FinishTarget(w)
      PROVE  DeploymentMoves(a)
  <2> DEFINE b == act[w].target
  <2>1. SetDeployment(b, Deployment("success", dep[b].target, Key(act[w].want),
                                    dep[b].template, dep[b].version))
    BY <1>7 DEF FinishTarget
  <2>2. dep'[a] = IF b = a THEN Deployment("success", dep[b].target, Key(act[w].want),
                                           dep[b].template, dep[b].version)
                  ELSE dep[a]
    BY <1>2, <2>1, SMTT(20)
  <2> QED
    BY <1>7, <2>2 DEF DeploymentMoves, Deployment
<1>8. ASSUME NEW w \in Workers, FailTarget(w)
      PROVE  DeploymentMoves(a)
  <2> DEFINE b == act[w].target
  <2>1. SetDeployment(b, Deployment("error", dep[b].target, dep[b].applied,
                                    dep[b].template, dep[b].version))
    BY <1>8 DEF FailTarget
  <2>2. dep'[a] = IF b = a THEN Deployment("error", dep[b].target, dep[b].applied,
                                           dep[b].template, dep[b].version)
                  ELSE dep[a]
    BY <1>2, <2>1
  <2> QED
    BY <1>8, <2>2 DEF DeploymentMoves, Deployment
<1>9. ASSUME NEW w \in Workers, RemoveLocal(w)
      PROVE  DeploymentMoves(a)
  BY <1>2, <1>9 DEF RemoveLocal, DeploymentMoves, Row
<1>10. ASSUME NEW w \in Workers, Publish(w)
       PROVE  DeploymentMoves(a)
  <2>1. ASSUME \/ Begin(w) \/ Activate(w)
               \/ \E v \in NewVersions : CreateVersion(w, v)
               \/ \E t \in NewTemplates : CreateRemote(w, t)
               \/ \E b \in Assignments : RefuseTarget(w, b) \/ SkipTarget(w, b)
        PROVE  UNCHANGED dep
    BY <2>1 DEF Begin, RefuseTarget, SkipTarget, CreateVersion, CreateRemote,
                Activate
  <2> HIDE DEF DeploymentMoves
  <2> QED
    BY <1>1, <1>3, <1>4, <1>5, <1>6, <1>7, <1>8, <1>10, <2>1 DEF Publish
<1>11. ASSUME NEW w \in Workers, Removal(w)
       PROVE  DeploymentMoves(a)
  BY <1>1, <1>9, <1>11 DEF Removal, BeginRemoval, DeleteRemote
<1>12. ASSUME \/ \E v \in Versions : ImportSucceeds(v) \/ ImportFails(v)
              \/ \E b \in Assignments, t \in NewTemplates : AdminCreates(b, t)
       PROVE  UNCHANGED dep
  BY <1>12 DEF ImportSucceeds, ImportFails, EndImport, AdminCreates
<1> HIDE DEF DeploymentMoves
<1> QED
  BY <1>1, <1>8, <1>10, <1>11, <1>12, Effects

\* What a step does to worker w.
LEMMA ActsMove ==
    ASSUME ActsAreTyped, [TNext]_tvars, NEW w \in Workers
    PROVE  \/ act'[w] \in {act[w], NoAct}
           \/ Publish(w) \/ FailTarget(w) \/ BeginRemoval(w) \/ DeleteRemote(w)
<1>1. ASSUME NEW v \in Workers, NEW x, Goto(v, x)
      PROVE  v # w => act'[w] = act[w]
  BY <1>1 DEF Goto, ActsAreTyped
<1>2. ASSUME NEW v \in Workers, act' = [act EXCEPT ![v] = NoAct]
      PROVE  act'[w] \in {act[w], NoAct}
  BY <1>2 DEF ActsAreTyped
<1>3. ASSUME NEW v \in Workers, FailTarget(v)
      PROVE  v # w => act'[w] = act[w]
  BY <1>1, <1>3 DEF FailTarget, NextTarget
<1>4. ASSUME NEW v \in Workers, Publish(v)
      PROVE  v # w => act'[w] = act[w]
  <2>1. (\E x : Goto(v, x)) \/ FailTarget(v)
    BY <1>4
       DEF Publish, Begin, RefuseTarget, SkipTarget, Prepare, Locate,
           CreateVersion, StoreVersion, CreateRemote, StoreTemplate, Activate,
           FinishTarget, Within, NextTarget
  <2> QED
    BY <1>1, <1>3, <2>1, SMTT(30)
<1>5. ASSUME NEW v \in Workers, BeginRemoval(v) \/ DeleteRemote(v)
      PROVE  v # w => act'[w] = act[w]
  BY <1>1, <1>5 DEF BeginRemoval, DeleteRemote
<1>6. ASSUME NEW v \in Workers, RemoveLocal(v)
      PROVE  act'[w] \in {act[w], NoAct}
  BY <1>2, <1>6 DEF RemoveLocal, Goto
<1>7. ASSUME \/ \E v \in Versions : ImportSucceeds(v) \/ ImportFails(v)
             \/ \E b \in Assignments, t \in NewTemplates : AdminCreates(b, t)
      PROVE  UNCHANGED act
  BY <1>7 DEF ImportSucceeds, ImportFails, EndImport, AdminCreates
<1> QED
  BY <1>2, <1>3, <1>4, <1>5, <1>6, <1>7, Effects DEF Removal

\* The point a worker goes to.
LEMMA GoesTo ==
    ASSUME ActsAreTyped, NEW w \in Workers, NEW x, Goto(w, x)
    PROVE  act'[w] = x
BY DEF ActsAreTyped, Goto

\* A worker gets its template from the row, from Coder by its mark, or makes it.
LEMMA TemplatesFound ==
    ASSUME ActsAreTyped, [TNext]_tvars, NEW w \in Workers
    PROVE  \/ act'[w].template \in {act[w].template, NoTemplate}
           \/ Locate(w) /\ act'[w].template \in Recovered(act[w].target)
           \/ \E t \in Templates : CreateRemote(w, t) /\ act'[w].template = t
           \/ BeginRemoval(w) /\ act'[w].template = dep[Row(w)].template
<1>1. CASE act'[w] \in {act[w], NoAct}
  BY <1>1 DEF NoAct, Act
<1>2. ASSUME NEW at, NEW targets, NEW todo, NEW want, NEW failed, NEW target,
             NEW t, NEW v,
             Goto(w, Act(at, targets, todo, want, failed, target, t, v))
      PROVE  act'[w].template = t
  BY <1>2, GoesTo DEF Act
<1>3. ASSUME NEW a, NEW failed, NextTarget(w, a, failed)
      PROVE  act'[w].template = NoTemplate
  BY <1>2, <1>3 DEF NextTarget
<1>4. ASSUME NEW at, NEW t, NEW v, Within(w, at, t, v)
      PROVE  act'[w].template = t
  BY <1>2, <1>4 DEF Within
<1>5. ASSUME FailTarget(w)
      PROVE  act'[w].template = NoTemplate
  BY <1>3, <1>5 DEF FailTarget
<1>6. ASSUME \/ Begin(w) \/ FinishTarget(w)
             \/ \E a \in Assignments :
                   RefuseTarget(w, a) \/ SkipTarget(w, a) \/ Prepare(w, a)
      PROVE  act'[w].template = NoTemplate
  BY <1>2, <1>3, <1>6 DEF Begin, FinishTarget, RefuseTarget, SkipTarget, Prepare
<1>7. ASSUME \/ StoreVersion(w) \/ StoreTemplate(w) \/ Activate(w)
             \/ \E v \in NewVersions : CreateVersion(w, v)
      PROVE  act'[w].template = act[w].template
  BY <1>4, <1>7 DEF StoreVersion, StoreTemplate, Activate, CreateVersion
<1>8. ASSUME NEW t \in NewTemplates, CreateRemote(w, t)
      PROVE  t \in Templates /\ act'[w].template = t
  BY <1>4, <1>8 DEF CreateRemote, NewTemplates, Draw
<1>9. ASSUME Locate(w)
      PROVE  \/ act'[w].template = NoTemplate
             \/ act'[w].template \in Recovered(act[w].target)
  BY <1>4, <1>9 DEF Locate
<1>10. ASSUME Publish(w)
       PROVE  \/ act'[w].template \in {act[w].template, NoTemplate}
              \/ Locate(w) /\ act'[w].template \in Recovered(act[w].target)
              \/ \E t \in Templates : CreateRemote(w, t) /\ act'[w].template = t
  BY <1>5, <1>6, <1>7, <1>8, <1>9, <1>10 DEF Publish
<1>11. ASSUME BeginRemoval(w)
       PROVE  act'[w].template = dep[Row(w)].template
  BY <1>2, <1>11 DEF BeginRemoval, Row
<1>12. ASSUME DeleteRemote(w)
       PROVE  act'[w].template = NoTemplate
  BY <1>2, <1>12 DEF DeleteRemote
<1> QED
  BY <1>1, <1>5, <1>10, <1>11, <1>12, ActsMove

\* What a publication recognises is the manager's.
LEMMA RecoveredIsManaged ==
    ASSUME Columns, NothingForeign, NEW a \in Assignments, NEW t \in Recovered(a)
    PROVE  t \in Templates /\ Managed(t) /\ remote[t].on = a
<1>1. /\ t \in Templates /\ remote[t].status = "present"
      /\ remote[t].on = a
      /\ \/ t = dep[a].template
         \/ /\ dep[a].version # NoVersion
            /\ remote[t].active = dep[a].version
  BY DEF Recovered, Named
<1>2. CASE t = dep[a].template
  BY <1>1, <1>2 DEF NothingForeign
<1>3. CASE remote[t].active # NoVersion
  <2>1. remote[t].by # "admin"
    BY <1>1, <1>3 DEF NothingForeign
  <2>2. remote[t].by \in {"manager", "admin"}
    BY <1>1 DEF Columns, RemoteRow
  <2> QED
    BY <1>1, <2>1, <2>2 DEF Managed
<1> QED
  BY <1>1, <1>2, <1>3

\* No step makes a row or a worker name somebody else's template.
LEMMA ForeignStep ==
    ASSUME Fence, Columns, ActsAreTyped, NothingForeign, [TNext]_tvars
    PROVE  NothingForeign'
<1>0. /\ remote \in [Templates -> RemoteRow]
      /\ dep \in [Assignments -> DeploymentRow]
  BY DEF Columns
<1>1. ASSUME NEW t \in Templates, Managed(t)
      PROVE  Managed(t)'
  <2>1. RemoteMoves(t)
    BY RemotesMove
  <2> QED
    BY <1>1, <2>1 DEF RemoteMoves, Managed
<1>2. ASSUME NEW t \in Templates, remote'[t].by = "admin"
      PROVE  remote'[t].status = "present" /\ remote'[t].active = NoVersion
  <2>1. RemoteMoves(t)
    BY RemotesMove
  <2>2. ASSUME NEW w \in Workers, act[w].template = t
        PROVE  remote[t].by # "admin"
    BY <2>2 DEF NothingForeign, Managed
  <2> QED
    BY <1>2, <2>1, <2>2 DEF RemoteMoves, NothingForeign
<1>3. ASSUME NEW a \in Assignments, NEW t \in Recovered(a)
      PROVE  t \in Templates /\ Managed(t)
  BY RecoveredIsManaged
<1>4. ASSUME NEW w \in Workers, NEW t, t = act[w].template, t # NoTemplate
      PROVE  Managed(t)'
  BY <1>1, <1>4, ActTypes DEF NothingForeign
<1>5. ASSUME NEW a \in Assignments, NEW t, t = dep[a].template, t # NoTemplate
      PROVE  Managed(t)'
  <2>1. t \in Templates
    BY <1>0, <1>5 DEF DeploymentRow
  <2> QED
    BY <1>1, <1>5, <2>1 DEF NothingForeign
<1>6. ASSUME NEW w \in Workers, NEW t, t = act'[w].template, t # NoTemplate
      PROVE  Managed(t)'
  <2>1. CASE t = act[w].template
    BY <1>4, <1>6, <2>1
  <2>2. CASE Locate(w) /\ t \in Recovered(act[w].target)
    <3>1. act[w].target \in Assignments
      BY <2>2, ActTypes DEF Locate, Working, Equipped, Publishing
    <3> QED
      BY <1>1, <1>3, <2>2, <3>1
  <2>3. CASE t \in Templates /\ CreateRemote(w, t)
    <3>1. remote'[t] = Remote(act[w].target, "manager", act[w].version, "present")
      BY <1>0, <2>3 DEF CreateRemote
    <3> QED
      BY <3>1 DEF Remote, Managed
  <2>4. CASE BeginRemoval(w) /\ t = dep[Row(w)].template
    <3>1. Current(w) /\ claims[w].step = DeleteStep
      BY <2>4 DEF BeginRemoval, Working, Current
    <3>2. Row(w) \in Assignments
      BY <3>1, CurrentRow DEF Fence, SyncStep, CreateStep, DeleteStep
    <3> QED
      BY <1>5, <1>6, <2>4, <3>2
  <2> QED
    BY <1>6, <2>1, <2>2, <2>3, <2>4, TemplatesFound
<1>7. ASSUME NEW a \in Assignments, NEW t, t = dep'[a].template, t # NoTemplate
      PROVE  Managed(t)'
  <2>1. DeploymentMoves(a)
    BY DeploymentsMove
  <2>2. ASSUME NEW w \in Workers, t = act[w].template \/ t = act'[w].template
        PROVE  Managed(t)'
    BY <1>4, <1>6, <1>7, <2>2
  <2>3. CASE t = dep[a].template
    BY <1>5, <1>7, <2>3
  <2>4. \/ t = dep[a].template
        \/ \E w \in Workers : t = act[w].template \/ t = act'[w].template
    <3>1. /\ \A want : Prepared(a, want).template = dep[a].template
          /\ NoDeployment.template = NoTemplate
      BY DEF Prepared, Deployment, NoDeployment
    <3> QED
      BY <1>7, <2>1, <3>1 DEF DeploymentMoves
  <2> QED
    BY <2>2, <2>3, <2>4
<1> QED
  BY <1>2, <1>6, <1>7 DEF NothingForeign, Managed

\* Types, and nothing of somebody else's at hand.
Typed == Columns /\ ActsAreTyped

\* Both hold in every reachable state.
LEMMA ForeignInvariant == TSpec => [](Fence /\ Typed /\ NothingForeign)
<1>1. TInit => Typed /\ NothingForeign
  <2> SUFFICES ASSUME TInit
               PROVE  Typed /\ NothingForeign
    OBVIOUS
  <2>1. NoRemote \in RemoteRow /\ NoRemote.by = "manager"
    BY DEF NoRemote, Remote, RemoteRow
  <2>2. NoSource \in Sources /\ Source(1, 1, 0) \in Sources
    BY DEF NoSource, Source, Sources
  <2>3. UnusedVersion \in VersionRow
    BY <2>2 DEF UnusedVersion, Version, VersionRow
  <2>4. NoDeployment \in DeploymentRow /\ NoDeployment.template = NoTemplate
    BY DEF NoDeployment, Deployment, DeploymentRow, NoKey
  <2>5. NoAct \in Acts /\ Equipped(NoAct) /\ NoAct.template = NoTemplate
    BY <2>2 DEF NoAct, Act, Acts, Equipped, Places, Publishing
  <2>6. Columns
    BY <2>1, <2>2, <2>3, <2>4 DEF TInit, Columns
  <2>7. ActsAreTyped
    BY <2>5 DEF TInit, ActsAreTyped
  <2>8. NothingForeign
    BY <2>1, <2>4, <2>5 DEF TInit, NothingForeign
  <2> QED
    BY <2>6, <2>7, <2>8 DEF Typed
<1>2. Fence /\ Typed /\ NothingForeign /\ [TNext]_tvars
         => (Typed /\ NothingForeign)'
  BY ColumnsStep, ForeignStep DEF Typed
<1> QED
  BY <1>1, <1>2, TemplateFenced, PTL DEF TSpec

\* A template of the same name that somebody else made is never adopted,
\* published to or deleted: _managed_remote_template goes by the identifier or
\* by the active version, and somebody else's template has neither.
THEOREM ForeignCorrect == TSpec => []ForeignTemplatesAreSafe
<1>1. NothingForeign => ForeignTemplatesAreSafe
  BY DEF NothingForeign, ForeignTemplatesAreSafe, Managed
<1> QED
  BY <1>1, ForeignInvariant, PTL

-----------------------------------------------------------------------------
(***************************************************************************)
(* The requests exclude each other.                                        *)
(***************************************************************************)

\* What a step does to row r: it rests or is in a transition as before, or a
\* request, the end of its job or the administration of the catalog moves it.
RowMoves(r) ==
    \/ RowKept(r)
    \/ \E j \in NewIds : /\ r \in Assignments /\ PutAssignment(j, r)
                         /\ Asked(r, "template_assignment.create")
                         /\ resources[r].status = "absent"
    \/ \E j \in NewIds : /\ r \in Assignments /\ DeleteAssignment(j, r)
                         /\ Asked(r, "template_assignment.delete")
                         /\ resources[r].status = "success"
    \/ \E j \in NewIds : /\ r = Template /\ SyncTemplate(j)
                         /\ Asked(r, "template.sync")
                         /\ resources[r].status = "success"
    \/ \E w \in Workers :
          /\ CompletePublication(w) \/ RemoveLocal(w)
          /\ Current(w) /\ Row(w) = r
          /\ claims[w].step = DeleteStep => resources'[r] = AbsentResource
          /\ claims[w].step # DeleteStep =>
                /\ resources'[r].status = "success"
                /\ resources'[r].action = resources[r].action
    \/ r = Template /\ (UpdateTemplate \/ DeleteTemplate \/ CreateTemplate)

LEMMA RowsMove ==
    ASSUME Fence, [TNext]_tvars, NEW r \in Resources
    PROVE  RowMoves(r)
<1>1. RowKept(r) => RowMoves(r)
  BY DEF RowMoves
<1>2. resources'[r] = resources[r] => RowKept(r)
  BY DEF RowKept
<1>3. ASSUME NEW j \in NewIds, NEW a \in Assignments, PutAssignment(j, a)
      PROVE  RowMoves(r)
  <2>1. /\ Asked(a, "template_assignment.create")
        /\ resources[a].status = "absent"
    BY <1>3, RequestAsks DEF PutAssignment
  <2>2. CASE r = a
    BY <1>3, <2>1, <2>2 DEF RowMoves
  <2>3. CASE r # a
    BY <1>1, <1>2, <2>1, <2>3 DEF Asked
  <2> QED
    BY <2>2, <2>3
<1>4. ASSUME NEW j \in NewIds, NEW a \in Assignments, DeleteAssignment(j, a)
      PROVE  RowMoves(r)
  <2>1. /\ Asked(a, "template_assignment.delete")
        /\ resources[a].status = "success"
    BY <1>4, RequestAsks DEF DeleteAssignment
  <2>2. CASE r = a
    BY <1>4, <2>1, <2>2 DEF RowMoves
  <2>3. CASE r # a
    BY <1>1, <1>2, <2>1, <2>3 DEF Asked
  <2> QED
    BY <2>2, <2>3
<1>5. ASSUME NEW j \in NewIds, SyncTemplate(j)
      PROVE  RowMoves(r)
  <2>1. /\ Asked(Template, "template.sync")
        /\ resources[Template].status = "success"
    BY <1>5, RequestAsks DEF SyncTemplate
  <2>2. CASE r = Template
    BY <1>5, <2>1, <2>2 DEF RowMoves
  <2>3. CASE r # Template
    BY <1>1, <1>2, <2>1, <2>3 DEF Asked
  <2> QED
    BY <2>2, <2>3
<1>6. ASSUME NEW w \in Workers, CompletePublication(w) \/ RemoveLocal(w)
      PROVE  RowMoves(r)
  <2>1. Complete(w)
    BY <1>6 DEF CompletePublication, RemoveLocal
  <2>2. /\ Current(w)
        /\ \A x \in Resources : x # Row(w) => resources'[x] = resources[x]
        /\ claims[w].step = DeleteStep => resources'[Row(w)] = AbsentResource
        /\ claims[w].step # DeleteStep =>
              /\ resources'[Row(w)].status = "success"
              /\ resources'[Row(w)].action = resources[Row(w)].action
    BY <2>1, CompletionEnds DEF Fence
  <2>3. CASE r = Row(w)
    BY <1>6, <2>2, <2>3 DEF RowMoves
  <2>4. CASE r # Row(w)
    BY <1>1, <1>2, <2>2, <2>4
  <2> QED
    BY <2>3, <2>4
<1>7. ASSUME \/ \E w \in Workers, m \in queue : TClaim(w, m)
             \/ \E w \in Workers : TStop(w) \/ Raise(w)
             \/ EngineStep
      PROVE  RowMoves(r)
  BY <1>1, <1>7, EngineKeepsRows DEF Fence
<1>8. ASSUME UpdateTemplate \/ DeleteTemplate \/ CreateTemplate
      PROVE  RowMoves(r)
  <2>1. r # Template => resources'[r] = resources[r]
    BY <1>8, SMTT(30) DEF UpdateTemplate, DeleteTemplate, CreateTemplate, CatalogTo,
                WithResource
  <2> QED
    BY <1>1, <1>2, <1>8, <2>1 DEF RowMoves
<1>9. ASSUME NEW w \in Workers,
             Publish(w) \/ FailTarget(w) \/ BeginRemoval(w) \/ DeleteRemote(w)
      PROVE  resources' = resources
  BY <1>9
     DEF Publish, Begin, RefuseTarget, SkipTarget, Prepare, Locate,
         CreateVersion, StoreVersion, CreateRemote, StoreTemplate, Activate,
         FinishTarget, FailTarget, BeginRemoval, DeleteRemote, vars
<1>10. ASSUME NEW a \in Assignments, Asks(a)
       PROVE  resources' = resources
  BY <1>10 DEF Asks, CheckStop, CommitStop, StartInstance, FinishUpdate, vars,
               RequestWorkspace, SettleWorkspace, SetInstance, SetWorkspaces,
               ConfigureProvider
<1>11. ASSUME \/ ChangeParameters \/ MoveBranch \/ UNCHANGED tvars
              \/ \E v \in Versions : ImportSucceeds(v) \/ ImportFails(v)
              \/ \E a \in Assignments, t \in NewTemplates : AdminCreates(a, t)
       PROVE  resources' = resources
  BY <1>11 DEF ChangeParameters, MoveBranch, tvars, vars, ImportSucceeds,
               ImportFails, EndImport, AdminCreates
<1> HIDE DEF RowMoves, RowKept
<1> QED
  BY <1>1, <1>2, <1>3, <1>4, <1>5, <1>6, <1>7, <1>8, <1>9, <1>10, <1>11
     DEF TNext, Removal, EngineStep, Asks

\* The targets of a worker are assigned, and theirs alone.
LEMMA TargetRows ==
    ASSUME Fence, ActsAreTyped, TargetsAreStable, NEW w \in Workers, Current(w)
    PROVE  /\ TargetsStay(w)
           /\ act[w].target # NoResource => act[w].target \in act[w].targets
           /\ \A a \in act[w].targets :
                 /\ a \in Assignments
                 /\ \/ /\ claims[w].step = SyncStep /\ Row(w) = Template
                       /\ resources[a].status = "success"
                    \/ /\ claims[w].step = CreateStep /\ Row(w) = a
                       /\ resources[a].status = "running"
                       /\ resources[a].action = "creating"
<1>1. TargetsStay(w)
  BY DEF TargetsAreStable
<1>2. act[w] \in Acts /\ Equipped(act[w])
  BY ActTypes
<1>3. act[w].target # NoResource => act[w].target \in act[w].targets
  BY <1>1, <1>2 DEF Equipped, TargetsStay
<1>4. ASSUME NEW a \in act[w].targets
      PROVE  /\ a \in Assignments
             /\ \/ /\ claims[w].step = SyncStep /\ Row(w) = Template
                   /\ resources[a].status = "success"
                \/ /\ claims[w].step = CreateStep /\ Row(w) = a
                   /\ resources[a].status = "running"
                   /\ resources[a].action = "creating"
  <2>1. a \in Assignments
    BY <1>2 DEF Acts
  <2>2. claims[w].step \in {SyncStep, CreateStep}
    BY <1>1 DEF TargetsStay
  <2>3. SyncStep # CreateStep /\ CreateStep # DeleteStep /\ SyncStep # DeleteStep
    BY DEF SyncStep, CreateStep, DeleteStep
  <2>4. /\ claims[w].step = SyncStep => Row(w) = Template
        /\ claims[w].step = CreateStep =>
              /\ resources[Row(w)].status = "running"
              /\ resources[Row(w)].action = "creating"
    BY <2>3, CurrentRow DEF Fence
  <2> QED
    BY <1>1, <2>1, <2>2, <2>4 DEF TargetsStay
<1> QED
  BY <1>1, <1>3, <1>4

\* What a step does to the workspaces of assignment a.
LEMMA WorkspacesMove ==
    ASSUME Columns, [TNext]_tvars, NEW a \in Assignments
    PROVE  \/ ws'[a] = ws[a]
           \/ ws[a] = "busy" /\ ws'[a] \in {"settled", "none"}
           \/ RequestWorkspace(a) /\ resources' = resources
           \/ \E w \in Workers : RemoveLocal(w) /\ Row(w) = a /\ ws'[a] = "none"
<1>0. ws \in [Assignments -> {"none", "busy", "settled"}]
  BY DEF Columns
<1>1. ASSUME NEW b \in Assignments, NEW s, SetWorkspaces(b, s)
      PROVE  ws'[a] = (IF a = b THEN s ELSE ws[a]) /\ resources' = resources
  BY <1>0, <1>1 DEF SetWorkspaces, vars
<1>2. ASSUME NEW b \in Assignments, RequestWorkspace(b)
      PROVE  ws'[a] = ws[a] \/ (RequestWorkspace(a) /\ resources' = resources)
  <2>1. SetWorkspaces(b, "busy")
    BY <1>2 DEF RequestWorkspace
  <2> QED
    BY <1>1, <1>2, <2>1
<1>3. ASSUME NEW b \in Assignments, SettleWorkspace(b)
      PROVE  ws'[a] = ws[a] \/ (ws[a] = "busy" /\ ws'[a] \in {"settled", "none"})
  BY <1>1, <1>3 DEF SettleWorkspace
<1>4. ASSUME NEW b \in Assignments,
             \/ CheckStop(b) \/ CommitStop(b) \/ StartInstance(b)
             \/ ConfigureProvider(b) \/ FinishUpdate(b)
      PROVE  ws' = ws
  BY <1>4 DEF CheckStop, CommitStop, StartInstance, FinishUpdate, SetInstance,
              ConfigureProvider
<1>5. ASSUME NEW w \in Workers, RemoveLocal(w)
      PROVE  ws'[a] = ws[a] \/ (Row(w) = a /\ ws'[a] = "none")
  BY <1>0, <1>5 DEF RemoveLocal, Row
<1>6. ASSUME UpdateTemplate \/ CreateTemplate \/ ChangeParameters \/ MoveBranch
      PROVE  ws' = ws
  BY <1>6 DEF UpdateTemplate, CreateTemplate, ChangeParameters, MoveBranch
<1> QED
  BY <1>2, <1>3, <1>4, <1>5, <1>6, RequestEffects DEF Asks

\* Worker w takes a step of its own.
Moves(w) == Publish(w) \/ FailTarget(w) \/ Removal(w)

\* Only a worker that works for assignment a writes its row.
LEMMA DeploymentWriters ==
    ASSUME Fence, Typed, TargetsAreStable, [TNext]_tvars, NEW a \in Assignments
    PROVE  \/ dep'[a] = dep[a]
           \/ \E w \in Workers : Current(w) /\ Moves(w) /\ a \in act[w].targets
           \/ \E w \in Workers : /\ Current(w) /\ Moves(w)
                                 /\ Row(w) = a /\ RemoveLocal(w)
                                 /\ dep'[a] = NoDeployment
<1>0. Columns /\ ActsAreTyped
  BY DEF Typed
<1>1. DeploymentMoves(a)
  BY <1>0, DeploymentsMove
<1>2. ASSUME NEW w \in Workers, Prepare(w, a)
      PROVE  Current(w) /\ Moves(w) /\ a \in act[w].targets
  <2>1. Current(w) /\ a \in act[w].todo
    BY <1>2 DEF Prepare, Working, Current
  <2>2. TargetsStay(w)
    BY <2>1 DEF TargetsAreStable
  <2> QED
    BY <1>2, <2>1, <2>2 DEF TargetsStay, Moves, Publish
<1>3. ASSUME NEW w \in Workers, act[w].target = a,
             \/ Locate(w) \/ StoreVersion(w) \/ StoreTemplate(w)
             \/ FinishTarget(w) \/ FailTarget(w)
      PROVE  Current(w) /\ Moves(w) /\ a \in act[w].targets
  <2>1. Current(w)
    BY <1>3 DEF Locate, StoreVersion, StoreTemplate, FinishTarget, FailTarget,
                Working, Current
  <2> QED
    BY <1>0, <1>3, <2>1, TargetRows DEF Moves, Publish
<1>4. ASSUME NEW w \in Workers, RemoveLocal(w)
      PROVE  Current(w) /\ Moves(w)
  BY <1>4 DEF RemoveLocal, Working, Current, Moves, Removal
<1> QED
  BY <1>1, <1>2, <1>3, <1>4 DEF DeploymentMoves

\* A publication ends with success, a removal with the row.
LEMMA StepsEnd ==
    ASSUME TargetsAreStable, NEW w \in Workers
    PROVE  /\ CompletePublication(w) => claims[w].step # DeleteStep
           /\ RemoveLocal(w) => claims[w].step = DeleteStep /\ act[w].at = "removed"
<1>1. ASSUME CompletePublication(w)
      PROVE  claims[w].step # DeleteStep
  <2>1. Current(w) /\ act[w].at = "targets"
    BY <1>1 DEF CompletePublication, AllPublished, Working, Current
  <2>2. TargetsStay(w)
    BY <2>1 DEF TargetsAreStable
  <2> QED
    BY <2>1, <2>2 DEF TargetsStay, SyncStep, CreateStep, DeleteStep
<1>2. ASSUME RemoveLocal(w)
      PROVE  claims[w].step = DeleteStep /\ act[w].at = "removed"
  <2>1. Current(w) /\ act[w].at = "removed"
    BY <1>2 DEF RemoveLocal, Working, Current
  <2> QED
    BY <2>1 DEF TargetsAreStable, TargetsStay
<1> QED
  BY <1>1, <1>2

\* An owner works on a row in a transition.
LEMMA CurrentUnsettled ==
    ASSUME Fence, NEW w \in Workers, Current(w)
    PROVE  /\ Row(w) \in Resources
           /\ resources[Row(w)].status \in Unsettled
           /\ resources[Row(w)].status = "running"
           /\ Row(w) # Template => Row(w) \in Assignments
BY CurrentRow DEF Fence, Unsettled

\* While a row is in a transition, the source changes only by a push.
LEMMA SourceIsHeld ==
    ASSUME TransitionsExclude, [TNext]_tvars, NEW r \in Resources,
           resources[r].status \in Unsettled
    PROVE  src' = src \/ MoveBranch
<1>1. r # Template => r \in Assignments
  OBVIOUS
<1>2. "success" \notin Unsettled /\ "absent" \notin Unsettled
  BY DEF Unsettled
<1>3. ~(resources[Template].status = "success" /\ NoActiveAssignments)
  BY <1>1, <1>2 DEF NoActiveAssignments
<1>4. resources[Template].status # "absent"
  BY <1>1, <1>2 DEF TransitionsExclude
<1>5. ~UpdateTemplate /\ ~ChangeParameters /\ ~CreateTemplate
  BY <1>3, <1>4 DEF UpdateTemplate, ChangeParameters, ParametersMayChange,
                    CreateTemplate
<1>6. ASSUME \/ \E a \in Assignments : Asks(a)
             \/ \E v \in Workers : RemoveLocal(v)
      PROVE  src' = src
  BY <1>6 DEF Asks, CheckStop, CommitStop, StartInstance, FinishUpdate,
              RequestWorkspace, SettleWorkspace, SetInstance, SetWorkspaces,
              ConfigureProvider, RemoveLocal
<1> QED
  BY <1>5, <1>6, RequestEffects

\* While somebody works, its path and its parameters stay.
LEMMA SourceStays ==
    ASSUME Fence, TransitionsExclude, [TNext]_tvars, NEW w \in Workers, Current(w)
    PROVE  src'.rev = src.rev /\ src'.path = src.path
<1>1. Row(w) \in Resources /\ resources[Row(w)].status \in Unsettled
  BY CurrentUnsettled
<1>2. MoveBranch => src'.rev = src.rev /\ src'.path = src.path
  BY DEF MoveBranch, Change, Source
<1> QED
  BY <1>1, <1>2, SourceIsHeld

\* A worker fetches the source once, when it reads its targets.
LEMMA WantsMove ==
    ASSUME ActsAreTyped, [TNext]_tvars, NEW w \in Workers
    PROVE  \/ act'[w].want \in {act[w].want, NoSource}
           \/ Begin(w) /\ act'[w].want = src
<1>1. CASE act'[w] \in {act[w], NoAct}
  BY <1>1 DEF NoAct, Act
<1>2. ASSUME NEW at, NEW targets, NEW todo, NEW want, NEW failed, NEW target,
             NEW t, NEW v,
             Goto(w, Act(at, targets, todo, want, failed, target, t, v))
      PROVE  act'[w].want = want
  BY <1>2, GoesTo DEF Act
<1>3. ASSUME NEW a, NEW failed, NextTarget(w, a, failed)
      PROVE  act'[w].want = act[w].want
  BY <1>2, <1>3 DEF NextTarget
<1>4. ASSUME NEW at, NEW t, NEW v, Within(w, at, t, v)
      PROVE  act'[w].want = act[w].want
  BY <1>2, <1>4 DEF Within
<1>5. ASSUME FailTarget(w)
      PROVE  act'[w].want = act[w].want
  BY <1>3, <1>5 DEF FailTarget
<1>6. ASSUME Begin(w)
      PROVE  act'[w].want = src
  BY <1>2, <1>6 DEF Begin
<1>7. ASSUME \/ Locate(w) \/ StoreVersion(w) \/ StoreTemplate(w) \/ Activate(w)
             \/ FinishTarget(w)
             \/ \E v \in NewVersions : CreateVersion(w, v)
             \/ \E t \in NewTemplates : CreateRemote(w, t)
             \/ \E a \in Assignments :
                   RefuseTarget(w, a) \/ SkipTarget(w, a) \/ Prepare(w, a)
      PROVE  act'[w].want = act[w].want
  BY <1>2, <1>3, <1>4, <1>7
     DEF Locate, StoreVersion, StoreTemplate, Activate, FinishTarget,
         CreateVersion, CreateRemote, RefuseTarget, SkipTarget, Prepare
<1>8. ASSUME BeginRemoval(w) \/ DeleteRemote(w)
      PROVE  act'[w].want = NoSource
  BY <1>2, <1>8 DEF BeginRemoval, DeleteRemote
<1> QED
  BY <1>1, <1>5, <1>6, <1>7, <1>8, ActsMove DEF Publish

\* The requests keep excluding each other.
LEMMA ExclusionStep ==
    ASSUME Fence, Fence', Typed, Exclusion, TargetsAreStable, [TNext]_tvars
    PROVE  Exclusion'
<1>0. /\ Columns /\ ActsAreTyped
      /\ AbsentIsClean /\ TransitionsExclude /\ SyncsAreStable
  BY DEF Typed, Exclusion
<1>1. /\ "absent" \notin Unsettled /\ "success" \notin Unsettled
      /\ "running" \in Unsettled /\ "pending" \in Unsettled
      /\ CatalogRow("creating").status = "success"
      /\ CatalogRow("updating").status = "success"
      /\ AbsentResource.status = "absent"
      /\ NoDeployment.template = NoTemplate
  BY DEF Unsettled, CatalogRow, AbsentResource, NoDeployment, Deployment
<1>2. ASSUME NEW w \in Workers, CompletePublication(w)
      PROVE  claims[w].step # DeleteStep
  BY <1>2, StepsEnd
<1>3. ASSUME NEW r \in Resources, resources'[r].status \in Unsettled
      PROVE  \/ resources[r].status \in Unsettled
             \/ \E j \in NewIds : r \in Assignments /\ PutAssignment(j, r)
                                  /\ Asked(r, "template_assignment.create")
                                  /\ resources[r].status = "absent"
             \/ \E j \in NewIds : r \in Assignments /\ DeleteAssignment(j, r)
                                  /\ Asked(r, "template_assignment.delete")
             \/ \E j \in NewIds : r = Template /\ SyncTemplate(j)
  <2>1. RowMoves(r)
    BY RowsMove
  <2>2. ASSUME UpdateTemplate \/ DeleteTemplate \/ CreateTemplate, r = Template
        PROVE  FALSE
    BY <1>1, <1>3, <2>2
       DEF UpdateTemplate, DeleteTemplate, CreateTemplate, CatalogTo, WithResource
  <2> QED
    BY <1>1, <1>3, <2>1, <2>2 DEF RowMoves, RowKept
<1>4. AbsentIsClean'
  <2> SUFFICES ASSUME NEW a \in Assignments, resources'[a].status = "absent"
               PROVE  dep'[a] = NoDeployment /\ ws'[a] = "none"
    BY DEF AbsentIsClean
  <2>1. ASSUME NEW w \in Workers, RemoveLocal(w), Row(w) = a
        PROVE  dep'[a] = NoDeployment /\ ws'[a] = "none"
    BY <1>0, <2>1 DEF RemoveLocal, SetDeployment, Columns, Row
  <2>2. RowMoves(a)
    BY RowsMove
  <2>3. CASE resources[a].status = "absent"
    <3>1. dep[a] = NoDeployment /\ ws[a] = "none"
      BY <1>0, <2>3 DEF AbsentIsClean
    <3>2. ASSUME NEW w \in Workers, Current(w)
          PROVE  a \notin act[w].targets
      BY <1>0, <2>3, <3>2, TargetRows
    <3>3. dep'[a] = NoDeployment
      BY <3>1, <3>2, DeploymentWriters
    <3>4. ws'[a] = "none"
      BY <1>0, <2>3, <3>1, WorkspacesMove DEF RequestWorkspace
    <3> QED
      BY <3>3, <3>4
  <2>4. CASE resources[a].status # "absent"
    <3>1. \E w \in Workers : RemoveLocal(w) /\ Row(w) = a
      BY <1>1, <1>2, <2>2, <2>4 DEF RowMoves, RowKept, Asked
    <3> QED
      BY <2>1, <3>1
  <2> QED
    BY <2>3, <2>4
<1>5. TransitionsExclude'
  <2> SUFFICES ASSUME NEW a \in Assignments, resources'[a].status \in Unsettled
               PROVE  ws'[a] # "busy" /\ resources'[Template].status = "success"
    BY DEF TransitionsExclude
  <2>1. CASE resources[a].status \in Unsettled
    <3>1. ws[a] # "busy" /\ resources[Template].status = "success"
      BY <1>0, <2>1 DEF TransitionsExclude
    <3>2. ws'[a] # "busy"
      BY <1>0, <1>1, <2>1, <3>1, WorkspacesMove DEF RequestWorkspace
    <3>3. RowMoves(Template)
      BY RowsMove
    <3>4. ASSUME NEW w \in Workers, Current(w)
          PROVE  Row(w) # Template
      BY <1>1, <3>1, <3>4, CurrentUnsettled
    <3>5. CASE UpdateTemplate \/ DeleteTemplate \/ CreateTemplate
      BY <1>1, <2>1, <3>1, <3>2, <3>5
         DEF UpdateTemplate, DeleteTemplate, CreateTemplate, CatalogTo,
             WithResource
    <3>6. ~\E j \in NewIds : SyncTemplate(j)
      BY <2>1 DEF SyncTemplate, NoActiveAssignments
    <3> QED
      BY <1>1, <3>1, <3>2, <3>3, <3>4, <3>5, <3>6 DEF RowMoves, RowKept
  <2>2. ASSUME NEW j \in NewIds, PutAssignment(j, a),
               Asked(a, "template_assignment.create"),
               resources[a].status = "absent"
        PROVE  ws'[a] # "busy" /\ resources'[Template].status = "success"
    BY <1>0, <2>2
       DEF PutAssignment, MutationAvailable, aside, AbsentIsClean, Asked
  <2>3. ASSUME NEW j \in NewIds, DeleteAssignment(j, a),
               Asked(a, "template_assignment.delete")
        PROVE  ws'[a] # "busy" /\ resources'[Template].status = "success"
    BY <2>3 DEF DeleteAssignment, MutationAvailable, aside, Asked
  <2> QED
    BY <1>3, <2>1, <2>2, <2>3
<1>6. resources'[Template].status \in Unsettled => NoActiveWorkspaces'
  <2> SUFFICES ASSUME resources'[Template].status \in Unsettled,
                      NEW a \in Assignments
               PROVE  ws'[a] # "busy"
    BY DEF NoActiveWorkspaces
  <2>1. CASE resources[Template].status \in Unsettled
    <3>1. ws[a] # "busy"
      BY <1>0, <2>1 DEF SyncsAreStable, NoActiveWorkspaces
    <3> QED
      BY <1>0, <1>1, <2>1, <3>1, WorkspacesMove DEF RequestWorkspace
  <2>2. ASSUME NEW j \in NewIds, SyncTemplate(j)
        PROVE  ws'[a] # "busy"
    BY <2>2 DEF SyncTemplate, NoActiveWorkspaces, aside
  <2> QED
    BY <1>3, <2>1, <2>2
<1>7. ASSUME NEW w \in Workers, Working(w, act[w].at)', act'[w].want # NoSource
      PROVE  act'[w].want.rev = src'.rev /\ act'[w].want.path = src'.path
  <2>1. Current(w)'
    BY <1>7 DEF Working, Current
  <2>2. ~Begins(w)
    BY <1>0, <1>7, GoesTo DEF Begins, TClaim, NoAct, Act
  <2>3. Current(w)
    BY <2>1, <2>2, CurrentStep DEF GoesOn
  <2>4. src'.rev = src.rev /\ src'.path = src.path
    BY <1>0, <2>3, SourceStays
  <2>5. \/ act'[w].want = src
        \/ act'[w].want = act[w].want
    BY <1>0, <1>7, WantsMove
  <2>6. act[w].want # NoSource =>
           act[w].want.rev = src.rev /\ act[w].want.path = src.path
    BY <1>0, <2>3 DEF SyncsAreStable, Working, Current
  <2> QED
    BY <1>7, <2>4, <2>5, <2>6
<1> QED
  BY <1>4, <1>5, <1>6, <1>7 DEF Exclusion, SyncsAreStable

\* The targets of a worker stay assigned while it runs.
LEMMA TargetsStep ==
    ASSUME Fence, Fence', Typed, Exclusion, TargetsAreStable, [TNext]_tvars
    PROVE  TargetsAreStable'
<1> SUFFICES ASSUME NEW w \in Workers, Current(w)'
             PROVE  TargetsStay(w)'
  BY DEF TargetsAreStable
<1>0. Columns /\ ActsAreTyped /\ TransitionsExclude
  BY DEF Typed, Exclusion
<1>1. act'[w] = NoAct => TargetsStay(w)'
  BY DEF TargetsStay, NoAct, Act, Publishing
<1>2. CASE Begins(w)
  BY <1>0, <1>1, <1>2, GoesTo DEF Begins, TClaim
<1>3. CASE GoesOn(w)
  <2>0. /\ Current(w) /\ claims'[w].step = claims[w].step /\ Row(w)' = Row(w)
    BY <1>3 DEF GoesOn
  <2>1. TargetsStay(w)
    BY <2>0 DEF TargetsAreStable
  <2>2. SyncStep # CreateStep /\ CreateStep # DeleteStep /\ SyncStep # DeleteStep
    BY DEF SyncStep, CreateStep, DeleteStep
  <2>3. ASSUME NEW a \in Assignments, claims[w].step = SyncStep,
               resources[a].status = "success"
        PROVE  resources'[a].status = "success"
    <3>1. RowMoves(a)
      BY RowsMove
    <3>2. resources[Template].status = "running"
      BY <2>0, <2>2, <2>3, CurrentRow DEF Fence
    <3>3. ~\E j \in NewIds : DeleteAssignment(j, a)
      BY <3>2 DEF DeleteAssignment, MutationAvailable
    <3>4. ASSUME NEW v \in Workers, Current(v)
          PROVE  Row(v) # a
      BY <2>3, <3>4, CurrentUnsettled
    <3>5. "success" \notin Unsettled
      BY DEF Unsettled
    <3> QED
      BY <2>3, <3>1, <3>3, <3>4, <3>5 DEF RowMoves, RowKept
  <2>4. act[w] \in Acts /\ Equipped(act[w])
    BY <1>0, ActTypes
  <2> DEFINE Fits(x) ==
        /\ x.todo \subseteq x.targets
        /\ x.at \in Publishing => x.target \in x.todo
        /\ x.at \in Publishing \cup {"targets"} =>
              claims[w].step \in {SyncStep, CreateStep}
        /\ x.at \notin Publishing \cup {"targets"} => x.targets = {}
        /\ x.at \in {"sweep", "removed"} => claims[w].step = DeleteStep
        /\ claims[w].step = CreateStep => x.targets \subseteq {Row(w)}
        /\ claims[w].step = SyncStep =>
              \A a \in x.targets : resources'[a].status = "success"
  <2>5. Fits(act'[w]) => TargetsStay(w)'
    BY <2>0 DEF TargetsStay
  <2>6. Fits(act[w])
    BY <2>1, <2>3, <2>4 DEF TargetsStay, Acts
  <2>7. ASSUME NEW at, NEW targets, NEW todo, NEW want, NEW failed, NEW target,
               NEW t, NEW v,
               Goto(w, Act(at, targets, todo, want, failed, target, t, v)),
               Fits(Act(at, targets, todo, want, failed, target, t, v))
        PROVE  TargetsStay(w)'
    <3>1. act'[w] = Act(at, targets, todo, want, failed, target, t, v)
      BY <1>0, <2>7, GoesTo
    <3> HIDE DEF Fits
    <3> QED
      BY <2>5, <2>7, <3>1
  <2>8. ASSUME NEW a, NEW failed, NextTarget(w, a, failed),
               act[w].at \in Publishing \cup {"targets"}
        PROVE  TargetsStay(w)'
    <3>1. Fits(Act("targets", act[w].targets, act[w].todo \ {a}, act[w].want,
                   act[w].failed \/ failed, NoResource, NoTemplate, NoVersion))
      BY <2>6, <2>8 DEF Act, Publishing
    <3> HIDE DEF Fits
    <3> QED
      BY <2>7, <2>8, <3>1 DEF NextTarget
  <2>9. ASSUME NEW at \in Publishing, NEW t, NEW v, Within(w, at, t, v),
               act[w].at \in Publishing
        PROVE  TargetsStay(w)'
    <3>1. Fits(Act(at, act[w].targets, act[w].todo, act[w].want, act[w].failed,
                   act[w].target, t, v))
      BY <2>6, <2>9 DEF Act, Publishing
    <3> HIDE DEF Fits
    <3> QED
      BY <2>7, <2>9, <3>1 DEF Within
  <2>10. CASE act'[w] \in {act[w], NoAct}
    BY <1>1, <2>5, <2>6, <2>10
  <2>11. ASSUME Begin(w)
         PROVE  TargetsStay(w)'
    <3>1. claims[w].step \in {SyncStep, CreateStep} /\ resources' = resources
      BY <2>0, <2>11, CurrentRow DEF Fence, Begin, vars
    <3> DEFINE targets == IF claims[w].step = SyncStep THEN StableAssignments
                          ELSE {jobs[claims[w].job].resource}
    <3>2. Goto(w, Act("targets", targets, targets, src, FALSE, NoResource,
                      NoTemplate, NoVersion))
      BY <2>11 DEF Begin
    <3>3. Fits(Act("targets", targets, targets, src, FALSE, NoResource,
                   NoTemplate, NoVersion))
      BY <2>2, <3>1 DEF Act, StableAssignments, Row, Publishing
    <3> HIDE DEF Fits, targets
    <3> QED
      BY <2>7, <3>2, <3>3
  <2>12. ASSUME NEW a \in Assignments, Prepare(w, a)
         PROVE  TargetsStay(w)'
    <3>1. /\ act[w].at = "targets" /\ a \in act[w].todo
          /\ Goto(w, Act("prepared", act[w].targets, act[w].todo, act[w].want,
                         act[w].failed, a, NoTemplate, NoVersion))
      BY <2>12 DEF Prepare, Working
    <3>2. Fits(Act("prepared", act[w].targets, act[w].todo, act[w].want,
                   act[w].failed, a, NoTemplate, NoVersion))
      BY <2>6, <3>1 DEF Act, Publishing
    <3> HIDE DEF Fits
    <3> QED
      BY <2>7, <3>1, <3>2
  <2>13. ASSUME FailTarget(w)
         PROVE  TargetsStay(w)'
    BY <2>4, <2>8, <2>13 DEF FailTarget, Equipped
  <2>14. ASSUME \/ FinishTarget(w)
                \/ \E a \in Assignments : RefuseTarget(w, a) \/ SkipTarget(w, a)
         PROVE  TargetsStay(w)'
    BY <2>8, <2>14
       DEF FinishTarget, RefuseTarget, SkipTarget, Working, Publishing
  <2>15. ASSUME \/ Locate(w) \/ StoreVersion(w) \/ StoreTemplate(w)
                \/ Activate(w)
                \/ \E v \in NewVersions : CreateVersion(w, v)
                \/ \E t \in NewTemplates : CreateRemote(w, t)
         PROVE  TargetsStay(w)'
    <3>1. /\ act[w].at \in Publishing
          /\ \E at \in Publishing : \E t, v : Within(w, at, t, v)
      BY <2>15
         DEF Locate, StoreVersion, StoreTemplate, Activate, CreateVersion,
             CreateRemote, Imported, Working, Publishing
    <3> QED
      BY <2>9, <3>1
  <2>16. ASSUME BeginRemoval(w)
         PROVE  TargetsStay(w)'
    <3>1. /\ claims[w].step = DeleteStep
          /\ \E t : Goto(w, Act("sweep", {}, {}, NoSource, FALSE, NoResource, t,
                                NoVersion))
      BY <2>16 DEF BeginRemoval
    <3>2. \A t : Fits(Act("sweep", {}, {}, NoSource, FALSE, NoResource, t,
                          NoVersion))
      BY <2>2, <3>1 DEF Act, Publishing
    <3> HIDE DEF Fits
    <3> QED
      BY <2>7, <3>1, <3>2
  <2>17. ASSUME DeleteRemote(w)
         PROVE  TargetsStay(w)'
    <3>1. /\ claims[w].step = DeleteStep
          /\ Goto(w, Act("removed", {}, {}, NoSource, FALSE, NoResource,
                         NoTemplate, NoVersion))
      BY <2>1, <2>17 DEF DeleteRemote, Working, TargetsStay
    <3>2. Fits(Act("removed", {}, {}, NoSource, FALSE, NoResource, NoTemplate,
                   NoVersion))
      BY <2>2, <3>1 DEF Act, Publishing
    <3> HIDE DEF Fits
    <3> QED
      BY <2>7, <3>1, <3>2
  <2> HIDE DEF Fits
  <2> QED
    BY <1>0, <2>10, <2>11, <2>12, <2>13, <2>14, <2>15, <2>16, <2>17, ActsMove
       DEF Publish
<1> QED
  BY <1>2, <1>3, CurrentStep

\* A row has one owner.
LEMMA SameRow ==
    ASSUME Fence, NEW v \in Workers, NEW w \in Workers, Current(v), Current(w),
           Row(v) = Row(w)
    PROVE  v = w
<1>1. ASSUME NEW x \in Workers, Current(x)
      PROVE  /\ resources[Row(x)].job = claims[x].job
             /\ claims[x] # NoClaim
             /\ jobs[claims[x].job].attempt = claims[x].attempt
  BY <1>1, CurrentRow DEF Fence, Current, Owns, Owned
<1>2. claims[v].job = claims[w].job /\ claims[v].attempt = claims[w].attempt
  BY <1>1
<1> QED
  BY <1>1, <1>2 DEF Fence, Fenced, TokensAreUnique

\* No two workers work for one assignment: a job of its own has it alone, and a
\* synchronization has only assignments that rest.
LEMMA WorkersApart == Fence /\ Typed /\ TargetsAreStable => Apart
<1> SUFFICES ASSUME Fence, Typed, TargetsAreStable,
                    NEW v \in Workers, NEW w \in Workers, NEW a \in Assignments,
                    Current(v), Current(w), WorksFor(v, a), WorksFor(w, a)
             PROVE  v = w
  BY DEF Apart
<1>1. ASSUME NEW x \in Workers, Current(x), WorksFor(x, a)
      PROVE  \/ Row(x) = a /\ resources[a].status = "running"
             \/ Row(x) = Template /\ resources[a].status = "success"
  BY <1>1, CurrentUnsettled, TargetRows DEF WorksFor, Typed
<1> QED
  BY <1>1, SameRow

\* What keeps the workers apart.
Kept == Fence /\ Typed /\ NothingForeign /\ Exclusion /\ TargetsAreStable

\* It holds in every reachable state.
LEMMA KeptInvariant == TSpec => []Kept
<1>1. TInit => Exclusion /\ TargetsAreStable
  <2> SUFFICES ASSUME TInit
               PROVE  Exclusion /\ TargetsAreStable
    OBVIOUS
  <2>1. \A w \in Workers : ~Current(w) /\ ~Working(w, act[w].at)
    BY DEF TInit, Current, Working
  <2>2. /\ resources[Template].status = "success"
        /\ \A a \in Assignments : /\ resources[a].status = "absent"
                                  /\ dep[a] = NoDeployment /\ ws[a] = "none"
    BY DEF TInit, CatalogRow, AbsentResource
  <2> QED
    BY <2>1, <2>2 DEF Exclusion, AbsentIsClean, TransitionsExclude,
                      SyncsAreStable, TargetsAreStable, Unsettled
<1>2. Kept /\ [TNext]_tvars /\ Fence' => (Exclusion /\ TargetsAreStable)'
  BY ExclusionStep, TargetsStep DEF Kept
<1> QED
  BY <1>1, <1>2, ForeignInvariant, PTL DEF TSpec, Kept

\* Every row, remote object and worker has its type, and an assignment that
\* does not exist has neither a deployment nor workspaces.
THEOREM TemplateTypeCorrect == TSpec => []TTypeOK
<1> DEFINE Sets == configured \subseteq Assignments /\ strays \subseteq Templates
<1>1. Kept /\ Sets => TTypeOK
  <2>1. Acts \subseteq
           [at : {"begin", "targets", "prepared", "located", "uploaded",
                  "importing", "created", "published", "sweep", "removed"},
            targets : SUBSET Assignments, todo : SUBSET Assignments,
            want : Sources, failed : BOOLEAN,
            target : Resources \cup {NoResource},
            template : Templates \cup {NoTemplate},
            version : Versions \cup {NoVersion}]
    BY DEF Acts, Places, Publishing
  <2> QED
    BY <2>1 DEF Kept, Typed, Columns, ActsAreTyped, Exclusion, AbsentIsClean,
                TTypeOK, DeploymentRow, RemoteRow, VersionRow
<1>2. TInit => Sets
  BY DEF TInit
<1>3. Sets /\ [TNext]_tvars => Sets'
  <2> SUFFICES ASSUME Sets, [TNext]_tvars
               PROVE  Sets'
    OBVIOUS
  <2>1. ASSUME NEW a \in Assignments, ConfigureProvider(a)
        PROVE  configured' \subseteq Assignments
    BY <2>1 DEF ConfigureProvider
  <2>2. ASSUME NEW w \in Workers, NEW a \in Assignments, Prepare(w, a)
        PROVE  strays' \subseteq Templates
    BY <2>2 DEF Prepare, Forgotten, Recovered, Named
  <2> QED
    BY <2>1, <2>2, SetsMove
<1> HIDE DEF Sets
<1> QED
  BY <1>1, <1>2, <1>3, KeptInvariant, PTL DEF TSpec

\* While an assignment is in a transition no workspace of the pair is, and the
\* template rests; while a template is synchronized its workspaces rest, and the
\* workers have its current path and parameters.  Provider updates included.
THEOREM TransitionsExcludeCorrect == TSpec => [](TransitionsExclude /\ SyncsAreStable)
<1>1. Kept => TransitionsExclude /\ SyncsAreStable
  BY DEF Kept, Exclusion
<1> QED
  BY <1>1, KeptInvariant, PTL

\* What a step does to the instance of assignment a.
LEMMA InstancesMove ==
    ASSUME Columns, [TNext]_tvars, NEW a \in Assignments
    PROVE  \/ inst'[a] = inst[a]
           \/ inst'[a] = "ready"
           \/ CheckStop(a) /\ resources' = resources
           \/ CommitStop(a) /\ resources' = resources
           \/ ConfigureProvider(a)
<1>0. inst \in [Assignments -> {"ready", "checked", "down", "updating"}]
  BY DEF Columns
<1>1. ASSUME NEW b \in Assignments, NEW s, SetInstance(b, s)
      PROVE  inst'[a] = (IF a = b THEN s ELSE inst[a]) /\ resources' = resources
  BY <1>0, <1>1 DEF SetInstance, vars
<1>2. ASSUME NEW b \in Assignments, CheckStop(b)
      PROVE  inst'[a] = inst[a] \/ (CheckStop(a) /\ resources' = resources)
  <2>1. SetInstance(b, "checked")
    BY <1>2 DEF CheckStop
  <2> QED
    BY <1>1, <1>2, <2>1
<1>3. ASSUME NEW b \in Assignments, CommitStop(b)
      PROVE  inst'[a] = inst[a] \/ (CommitStop(a) /\ resources' = resources)
  <2>1. SetInstance(b, "down")
    BY <1>3 DEF CommitStop
  <2> QED
    BY <1>1, <1>3, <2>1
<1>4. ASSUME NEW b \in Assignments, StartInstance(b) \/ FinishUpdate(b)
      PROVE  inst'[a] \in {inst[a], "ready"}
  BY <1>1, <1>4 DEF StartInstance, FinishUpdate
<1>5. ASSUME NEW b \in Assignments, ConfigureProvider(b)
      PROVE  inst'[a] = inst[a] \/ ConfigureProvider(a)
  <2>1. b # a => inst'[a] = inst[a]
    BY <1>0, <1>5 DEF ConfigureProvider
  <2> QED
    BY <1>5, <2>1
<1>6. ASSUME NEW b \in Assignments, RequestWorkspace(b) \/ SettleWorkspace(b)
      PROVE  inst' = inst
  BY <1>6 DEF RequestWorkspace, SettleWorkspace, SetWorkspaces
<1>7. ASSUME \/ UpdateTemplate \/ CreateTemplate \/ ChangeParameters \/ MoveBranch
             \/ \E w \in Workers : RemoveLocal(w)
      PROVE  inst' = inst
  BY <1>7 DEF UpdateTemplate, CreateTemplate, ChangeParameters, MoveBranch,
              RemoveLocal
<1> QED
  BY <1>2, <1>3, <1>4, <1>5, <1>6, <1>7, RequestEffects DEF Asks

\* An instance is not taken down under an assignment in a transition.
LEMMA InstancesStep ==
    ASSUME Kept, AssignmentsKeepInstances, [TNext]_tvars
    PROVE  AssignmentsKeepInstances'
<1> SUFFICES ASSUME NEW a \in Assignments, resources'[a].status \in Unsettled
             PROVE  inst'[a] \in {"ready", "updating"}
  BY DEF AssignmentsKeepInstances
<1>0. Fence /\ Columns
  BY DEF Kept, Typed
<1>1. /\ "absent" \notin Unsettled /\ "success" \notin Unsettled
      /\ AbsentResource.status = "absent"
  BY DEF Unsettled, AbsentResource
<1>2. ConfigureProvider(a) => inst'[a] = "updating"
  BY <1>0 DEF ConfigureProvider, Columns
<1>3. CASE resources[a].status \in Unsettled
  <2>1. inst[a] \in {"ready", "updating"} /\ Converging(a)
    BY <1>1, <1>3 DEF AssignmentsKeepInstances, Converging
  <2> QED
    BY <1>0, <1>2, <2>1, InstancesMove DEF CheckStop, CommitStop
<1>4. ASSUME NEW j \in NewIds, PutAssignment(j, a) \/ DeleteAssignment(j, a)
      PROVE  inst'[a] = "ready"
  BY <1>4 DEF PutAssignment, DeleteAssignment, MutationAvailable, aside
<1>5. RowMoves(a)
  BY <1>0, RowsMove
<1> QED
  BY <1>1, <1>3, <1>4, <1>5 DEF RowMoves, RowKept

\* The requests on assignments, workspaces and the template, and the stop and
\* start of instances, exclude each other: each reads the tables of the others
\* before it commits.  A provider upload, which does not, can put the instance of
\* an assignment in a transition into an update, and into nothing else.
THEOREM RequestsExcludeCorrect == TSpec => []RequestsExclude
<1>1. TInit => AssignmentsKeepInstances
  BY DEF TInit, AssignmentsKeepInstances
<1>2. Kept /\ AssignmentsKeepInstances /\ [TNext]_tvars => AssignmentsKeepInstances'
  BY InstancesStep
<1>3. Kept /\ AssignmentsKeepInstances => RequestsExclude
  BY DEF Kept, Exclusion, RequestsExclude
<1> QED
  BY <1>1, <1>2, <1>3, KeptInvariant, PTL DEF TSpec

-----------------------------------------------------------------------------
(***************************************************************************)
(* The publication: what is stored, made and activated.                    *)
(***************************************************************************)

\* What a step does to version v.
VersionMoves(v) ==
    \/ version'[v] = version[v]
    \/ /\ version[v].status = "unused"
       /\ \E w \in Workers :
             /\ CreateVersion(w, v)
             /\ version'[v].status = "pending"
             /\ version'[v].source = act[w].want
    \/ /\ version[v].status # "unused"
       /\ version'[v].status # "unused"
       /\ version'[v].source = version[v].source

LEMMA VersionsMove ==
    ASSUME Columns, [TNext]_tvars, NEW v \in Versions
    PROVE  VersionMoves(v)
<1>0. version \in [Versions -> VersionRow]
  BY DEF Columns
<1>1. UNCHANGED version => VersionMoves(v)
  BY DEF VersionMoves
<1>2. ASSUME NEW w \in Workers, NEW x \in NewVersions, CreateVersion(w, x)
      PROVE  VersionMoves(v)
  <2>1. version'[v] = IF v = x THEN Version(act[w].target, act[w].want,
                                            act[w].template, "pending")
                      ELSE version[v]
    BY <1>0, <1>2 DEF CreateVersion
  <2>2. version[x].status = "unused"
    BY <1>2 DEF CreateVersion
  <2> QED
    BY <1>2, <2>1, <2>2 DEF VersionMoves, Version
<1>3. ASSUME NEW w \in Workers, NEW t \in NewTemplates, CreateRemote(w, t)
      PROVE  VersionMoves(v)
  <2> DEFINE x == act[w].version
  <2>1. version'[v] = IF v = x THEN Version(version[x].on, version[x].source, t,
                                            version[x].status)
                      ELSE version[v]
    BY <1>0, <1>3 DEF CreateRemote
  <2>2. version[x].status = "succeeded"
    BY <1>3 DEF CreateRemote, Imported
  <2> QED
    BY <2>1, <2>2 DEF VersionMoves, Version
<1>4. ASSUME NEW x \in Versions, ImportSucceeds(x) \/ ImportFails(x)
      PROVE  VersionMoves(v)
  <2>1. PICK status \in {"succeeded", "failed"} : EndImport(x, status)
    BY <1>4 DEF ImportSucceeds, ImportFails
  <2>2. version'[v] = IF v = x THEN Version(version[x].on, version[x].source,
                                            version[x].of, status)
                      ELSE version[v]
    BY <1>0, <2>1 DEF EndImport
  <2>3. version[x].status = "pending"
    BY <2>1 DEF EndImport
  <2> QED
    BY <2>2, <2>3 DEF VersionMoves, Version
<1>5. ASSUME NEW w \in Workers, FailTarget(w) \/ Removal(w)
      PROVE  UNCHANGED version
  BY <1>5 DEF FailTarget, Removal, BeginRemoval, DeleteRemote, RemoveLocal
<1>6. ASSUME NEW w \in Workers, Publish(w)
      PROVE  VersionMoves(v)
  <2>1. ASSUME \/ Begin(w) \/ Locate(w) \/ StoreVersion(w) \/ StoreTemplate(w)
               \/ FinishTarget(w) \/ Activate(w)
               \/ \E a \in Assignments :
                     RefuseTarget(w, a) \/ SkipTarget(w, a) \/ Prepare(w, a)
        PROVE  UNCHANGED version
    BY <2>1 DEF Begin, RefuseTarget, SkipTarget, Prepare, Locate,
                StoreVersion, StoreTemplate, FinishTarget, Activate
  <2> HIDE DEF VersionMoves
  <2> QED
    BY <1>1, <1>2, <1>3, <1>5, <1>6, <2>1 DEF Publish
<1>7. ASSUME NEW a \in Assignments, NEW t \in NewTemplates, AdminCreates(a, t)
      PROVE  UNCHANGED version
  BY <1>7 DEF AdminCreates
<1> HIDE DEF VersionMoves
<1> QED
  BY <1>1, <1>4, <1>5, <1>6, <1>7, Effects

\* What a version spells, and whose a template is, is for good.
LEMMA TruthsStay ==
    ASSUME Columns, [TNext]_tvars
    PROVE  /\ \A v, key : Spells(v, key) => Spells(v, key)'
           /\ \A t, a : Belongs(t, a) => Belongs(t, a)'
<1>1. ASSUME NEW v, NEW key, Spells(v, key)
      PROVE  Spells(v, key)'
  <2>1. v \in Versions /\ version[v].status # "unused" /\ VersionMoves(v)
    BY <1>1, VersionsMove DEF Spells
  <2> QED
    BY <1>1, <2>1 DEF Spells, VersionMoves, Key
<1>2. ASSUME NEW t, NEW a, Belongs(t, a)
      PROVE  Belongs(t, a)'
  <2>1. t \in Templates /\ RemoteMoves(t)
    BY <1>2, RemotesMove DEF Belongs
  <2> QED
    BY <1>2, <2>1 DEF Belongs, Managed, RemoteMoves
<1> QED
  BY <1>1, <1>2

\* A version that has not been made gets no template.
LEMMA BlankStep ==
    ASSUME Columns, UnusedAreBlank, [TNext]_tvars
    PROVE  UnusedAreBlank'
<1> SUFFICES ASSUME NEW v \in Versions, version'[v].status = "unused"
             PROVE  version'[v].of = NoTemplate
  BY DEF UnusedAreBlank
<1>1. VersionMoves(v)
  BY VersionsMove
<1> QED
  BY <1>1 DEF VersionMoves, UnusedAreBlank

\* What the proofs below start from.
LEMMA PublicationFacts ==
    ASSUME Kept, PublicationInv
    PROVE  /\ Fence /\ Typed /\ Columns /\ ActsAreTyped /\ NothingForeign
           /\ Exclusion /\ TargetsAreStable /\ Apart
           /\ RowsAreTrue /\ SuccessIsSpelled /\ UnusedAreBlank
           /\ \A w \in Workers : Current(w) =>
                 Achieved(w) /\ Sweeps(w) /\ Reached(w) /\ TargetsStay(w)
BY WorkersApart DEF Kept, Typed, PublicationInv, RowsAreTrue, WorkersAreTrue,
                    TargetsAreStable

\* Only a worker that works for its assignment changes a template.
LEMMA RemoteWriters ==
    ASSUME Kept, PublicationInv, [TNext]_tvars, NEW a \in Assignments, NEW t,
           Belongs(t, a)
    PROVE  \/ remote'[t] = remote[t]
           \/ \E w \in Workers : /\ Current(w) /\ Moves(w) /\ WorksFor(w, a)
                                 /\ act[w].template = t
                                 /\ \/ Activate(w) /\ act[w].target = a
                                    \/ DeleteRemote(w) /\ Row(w) = a
<1>1. /\ t \in Templates /\ t # NoTemplate /\ RemoteMoves(t)
      /\ remote[t].status # "unused" /\ remote[t].on = a
  BY PublicationFacts, RemotesMove DEF Belongs, Managed
<1>2. ASSUME NEW w \in Workers, act[w].template = t, Activate(w)
      PROVE  Current(w) /\ Moves(w) /\ WorksFor(w, a) /\ act[w].target = a
  <2>1. Current(w) /\ act[w].at = "importing"
    BY <1>2 DEF Activate, Imported, Working, Current
  <2>2. Achieved(w) /\ Equipped(act[w]) /\ TargetsStay(w)
    BY <2>1, ActTypes, PublicationFacts
  <2>3. Belongs(t, act[w].target) /\ act[w].target \in act[w].targets
    BY <1>1, <1>2, <2>1, <2>2 DEF Achieved, Publishing, TargetsStay
  <2>4. act[w].target = a
    BY <1>1, <2>3 DEF Belongs
  <2> QED
    BY <1>2, <2>1, <2>3, <2>4 DEF WorksFor, Moves, Publish
<1>3. ASSUME NEW w \in Workers, act[w].template = t, DeleteRemote(w)
      PROVE  Current(w) /\ Moves(w) /\ WorksFor(w, a) /\ Row(w) = a
  <2>1. Current(w) /\ act[w].at = "sweep"
    BY <1>3 DEF DeleteRemote, Working, Current
  <2>2. Belongs(t, Row(w))
    BY <1>1, <1>3, <2>1, PublicationFacts DEF Sweeps
  <2>3. Row(w) = a
    BY <1>1, <2>2 DEF Belongs
  <2> QED
    BY <1>3, <2>1, <2>3 DEF WorksFor, Moves, Removal
<1> QED
  BY <1>1, <1>2, <1>3 DEF RemoteMoves

\* What a worker finds: the template of its assignment, and a version of it or
\* the stored one.
LEMMA Locates ==
    ASSUME Columns, ActsAreTyped, NothingForeign, NEW w \in Workers, Locate(w)
    PROVE  /\ act[w].at = "prepared" /\ act[w].target \in Assignments
           /\ act'[w].at \in {"located", "importing"}
           /\ act'[w].target = act[w].target
           /\ act'[w].targets = act[w].targets
           /\ act'[w].todo = act[w].todo
           /\ act'[w].want = act[w].want
           /\ act'[w].failed = act[w].failed
           /\ \A t : (t = act'[w].template /\ t # NoTemplate) =>
                 Belongs(t, act[w].target) /\ t \in Recovered(act[w].target)
           /\ act'[w].template = NoTemplate => Recovered(act[w].target) = {}
           /\ act'[w].at = "located" => act'[w].version = NoVersion
           /\ act'[w].version \in
                 KnownVersions(act[w].target, act'[w].template, act[w].want)
           /\ act'[w].at = "importing" => act'[w].version # NoVersion
<1> DEFINE a == act[w].target
           d == dep[a]
<1>1. act[w].at = "prepared" /\ a \in Assignments
  BY ActTypes DEF Locate, Working, Equipped, Publishing
<1>2. PICK t \in IF Recovered(a) = {} THEN {NoTemplate} ELSE Recovered(a) :
         \E v \in KnownVersions(a, t, act[w].want) :
            Within(w, IF v = NoVersion THEN "located" ELSE "importing", t, v)
  BY DEF Locate
<1>3. PICK v \in KnownVersions(a, t, act[w].want) :
         Within(w, IF v = NoVersion THEN "located" ELSE "importing", t, v)
  BY <1>2
<1>4. act'[w] = Act(IF v = NoVersion THEN "located" ELSE "importing",
                    act[w].targets, act[w].todo, act[w].want, act[w].failed,
                    act[w].target, t, v)
  BY <1>3, GoesTo DEF Within
<1>5. /\ t # NoTemplate => Belongs(t, a) /\ t \in Recovered(a)
      /\ t = NoTemplate => Recovered(a) = {}
  <2>1. NoTemplate \notin Recovered(a)
    BY DEF Recovered, Named
  <2> QED
    BY <1>1, <1>2, <2>1, RecoveredIsManaged DEF Belongs
<1>6. /\ act'[w].at = (IF v = NoVersion THEN "located" ELSE "importing")
      /\ act'[w].target = a
      /\ act'[w].targets = act[w].targets
      /\ act'[w].todo = act[w].todo
      /\ act'[w].want = act[w].want
      /\ act'[w].failed = act[w].failed
      /\ act'[w].template = t /\ act'[w].version = v
  BY <1>4 DEF Act
<1> QED
  BY <1>1, <1>3, <1>5, <1>6

\* The rows keep naming what is theirs.
LEMMA RowsTrueStep ==
    ASSUME Kept, PublicationInv, [TNext]_tvars
    PROVE  RowsAreTrue'
<1>0. /\ Fence /\ Typed /\ Columns /\ ActsAreTyped /\ NothingForeign
      /\ TargetsAreStable /\ RowsAreTrue /\ UnusedAreBlank
  BY PublicationFacts
<1>1. UnusedAreBlank'
  BY <1>0, BlankStep
<1>2. /\ \A v, key : Spells(v, key) => Spells(v, key)'
      /\ \A t, b : Belongs(t, b) => Belongs(t, b)'
  BY <1>0, TruthsStay
<1>3. ASSUME NEW a \in Assignments, dep'[a].version # NoVersion, NEW v, NEW key,
             v = dep'[a].version, key = dep'[a].target
      PROVE  Spells(v, key)'
  <2>1. DeploymentMoves(a)
    BY <1>0, DeploymentsMove
  <2>2. dep[a].version # NoVersion => Spells(dep[a].version, dep[a].target)
    BY <1>0 DEF RowsAreTrue
  <2>3. CASE v = dep[a].version /\ key = dep[a].target
    BY <1>2, <1>3, <2>2, <2>3
  <2>4. ASSUME NEW w \in Workers, StoreVersion(w), act[w].target = a,
               v = act[w].version, key = dep[a].target
        PROVE  Spells(v, key)'
    <3>1. Current(w) /\ act[w].at = "uploaded"
      BY <2>4 DEF StoreVersion, Working, Current
    <3>2. Achieved(w)
      BY <3>1, PublicationFacts
    <3>3. Spells(act[w].version, Key(act[w].want)) /\ dep[a].target = Key(act[w].want)
      BY <2>4, <3>1, <3>2 DEF Achieved, Publishing
    <3> QED
      BY <1>2, <2>4, <3>3
  <2>5. /\ \A want : /\ Prepared(a, want).target = Key(want)
                     /\ Prepared(a, want).version =
                           IF dep[a].target = Key(want) THEN dep[a].version
                           ELSE NoVersion
        /\ NoDeployment.version = NoVersion
    BY DEF Prepared, Deployment, NoDeployment
  <2> QED
    BY <1>3, <2>1, <2>3, <2>4, <2>5 DEF DeploymentMoves
<1>4. ASSUME NEW a \in Assignments, NEW t, t = dep'[a].template, t # NoTemplate
      PROVE  Belongs(t, a)'
  <2>1. DeploymentMoves(a)
    BY <1>0, DeploymentsMove
  <2>2. CASE t = dep[a].template
    BY <1>0, <1>2, <1>4, <2>2 DEF RowsAreTrue
  <2>3. ASSUME NEW w \in Workers, Locate(w), act[w].target = a,
               t = act'[w].template
        PROVE  Belongs(t, a)'
    <3>1. Belongs(t, a)
      BY <1>0, <1>4, <2>3, Locates
    <3> QED
      BY <1>2, <3>1
  <2>4. ASSUME NEW w \in Workers, StoreTemplate(w), act[w].target = a,
               t = act[w].template
        PROVE  Belongs(t, a)'
    <3>1. Current(w) /\ act[w].at = "created"
      BY <2>4 DEF StoreTemplate, Working, Current
    <3>2. Achieved(w)
      BY <3>1, PublicationFacts
    <3>3. Belongs(act[w].template, a)
      BY <1>4, <2>4, <3>1, <3>2 DEF Achieved, Publishing
    <3> QED
      BY <1>2, <2>4, <3>3
  <2>5. /\ \A want : Prepared(a, want).template = dep[a].template
        /\ NoDeployment.template = NoTemplate
    BY DEF Prepared, Deployment, NoDeployment
  <2> QED
    BY <1>4, <2>1, <2>2, <2>3, <2>4, <2>5 DEF DeploymentMoves
<1> QED
  BY <1>1, <1>3, <1>4 DEF RowsAreTrue

\* A deployment stays what it was when it was recorded as successful.
LEMMA SuccessStep ==
    ASSUME Kept, Kept', PublicationInv, [TNext]_tvars
    PROVE  SuccessIsSpelled'
<1>0. /\ Fence /\ Typed /\ Columns /\ ActsAreTyped /\ TargetsAreStable
      /\ Exclusion /\ SuccessIsSpelled
  BY PublicationFacts
<1> SUFFICES ASSUME NEW a \in Assignments, dep'[a].status = "success",
                    resources'[a].action = "creating"
             PROVE  Published(a)'
  BY DEF SuccessIsSpelled
<1>1. /\ \A v, key : Spells(v, key) => Spells(v, key)'
      /\ \A t, b : Belongs(t, b) => Belongs(t, b)'
  BY <1>0, TruthsStay
<1>2. DeploymentMoves(a)
  BY <1>0, DeploymentsMove
<1>3. /\ \A want : Prepared(a, want).status = "running"
      /\ NoDeployment.status = "none"
  BY DEF Prepared, Deployment, NoDeployment
<1>4. ASSUME NEW w \in Workers, act[w].target = a,
             Locate(w) \/ StoreVersion(w) \/ StoreTemplate(w)
      PROVE  dep[a].status = "running"
  <2>1. Current(w) /\ act[w].at \in Publishing
    BY <1>4 DEF Locate, StoreVersion, StoreTemplate, Working, Current, Publishing
  <2> QED
    BY <1>4, <2>1, PublicationFacts DEF Achieved
<1>5. ASSUME NEW w \in Workers, FinishTarget(w), act[w].target = a,
             dep'[a].applied = Key(act[w].want),
             dep'[a].template = dep[a].template
      PROVE  Published(a)'
  <2> DEFINE t == act[w].template
             v == act[w].version
  <2>1. Current(w) /\ act[w].at = "published" /\ remote' = remote
    BY <1>5 DEF FinishTarget, Working, Current
  <2>2. Achieved(w) /\ t \in Templates
    BY <1>0, <2>1, ActTypes, PublicationFacts DEF Equipped
  <2>3. /\ Spells(v, Key(act[w].want)) /\ Belongs(t, a)
        /\ dep[a].template = t
        /\ remote[t].status = "present" /\ remote[t].active = v
    BY <1>5, <2>1, <2>2 DEF Achieved, Publishing
  <2>4. \A x, key : (x = v /\ key = Key(act[w].want)) => Spells(x, key)'
    BY <1>1, <2>3
  <2>5. \A x : x = t => Belongs(x, a)'
    BY <1>1, <2>3
  <2> QED
    BY <1>5, <2>1, <2>3, <2>4, <2>5 DEF Published
<1>6. CASE dep'[a] = dep[a]
  <2>1. dep[a].status = "success"
    BY <1>6
  <2>2. resources'[a].status # "absent"
    <3>1. AbsentIsClean'
      BY DEF Kept, Exclusion
    <3> QED
      BY <1>3, <3>1 DEF AbsentIsClean
  <2>3. resources[a].status # "absent"
    BY <1>0, <1>3, <2>1 DEF Exclusion, AbsentIsClean
  <2>4. resources[a].action = "creating"
    <3>1. RowMoves(a)
      BY <1>0, RowsMove
    <3>2. /\ RESOURCE_ACTIONS["template_assignment.delete"] = "deleting"
          /\ AbsentResource.status = "absent"
      BY DEF RESOURCE_ACTIONS, AbsentResource
    <3> QED
      BY <2>2, <2>3, <3>1, <3>2 DEF RowMoves, RowKept, Asked
  <2>5. Published(a)
    BY <1>0, <2>1, <2>4 DEF SuccessIsSpelled
  <2> DEFINE t == dep[a].template
  <2>6. remote'[t] = remote[t]
    <3>1. ASSUME NEW w \in Workers, Current(w), act[w].template = t,
                 Activate(w), act[w].target = a
          PROVE  FALSE
      <4>1. act[w].at = "importing"
        BY <3>1 DEF Activate, Imported, Working
      <4> QED
        BY <2>1, <3>1, <4>1, PublicationFacts DEF Achieved, Publishing
    <3>2. ASSUME NEW w \in Workers, Current(w), DeleteRemote(w), Row(w) = a
          PROVE  FALSE
      <4>1. act[w].at = "sweep"
        BY <3>2 DEF DeleteRemote, Working
      <4>2. claims[w].step = DeleteStep
        BY <3>2, <4>1, PublicationFacts DEF TargetsStay
      <4> QED
        BY <1>0, <2>4, <3>2, <4>2, CurrentRow
           DEF Fence, SyncStep, CreateStep, DeleteStep
    <3> QED
      BY <2>5, <3>1, <3>2, RemoteWriters DEF Published
  <2>7. \A x : x = t => Belongs(x, a)'
    BY <1>1, <2>5 DEF Published
  <2>8. \A x, key : (x = remote[t].active /\ key = dep[a].applied) => Spells(x, key)'
    BY <1>1, <2>5 DEF Published
  <2> QED
    BY <1>6, <2>5, <2>6, <2>7, <2>8 DEF Published
<1> QED
  BY <1>2, <1>3, <1>4, <1>5, <1>6 DEF DeploymentMoves

\* The worker that removes an assignment keeps its template.
LEMMA SweepsStep ==
    ASSUME Kept, PublicationInv, [TNext]_tvars, NEW w \in Workers, GoesOn(w)
    PROVE  Sweeps(w)'
<1>0. /\ Fence /\ Columns /\ ActsAreTyped /\ RowsAreTrue
      /\ Current(w) /\ Sweeps(w) /\ Row(w)' = Row(w)
  BY PublicationFacts DEF GoesOn
<1>1. \A t, b : Belongs(t, b) => Belongs(t, b)'
  BY <1>0, TruthsStay
<1> SUFFICES ASSUME NEW t, t = act'[w].template, t # NoTemplate,
                    act'[w].at = "sweep"
             PROVE  \A r : r = Row(w) => Belongs(t, r)'
  BY <1>0 DEF Sweeps, Belongs, Managed
<1>2. CASE act'[w] = act[w]
  BY <1>0, <1>1, <1>2 DEF Sweeps
<1>3. CASE BeginRemoval(w)
  <2>1. claims[w].step = DeleteStep /\ t = dep[Row(w)].template
    <3>1. Goto(w, Act("sweep", {}, {}, NoSource, FALSE, NoResource,
                      dep[Row(w)].template, NoVersion))
          /\ claims[w].step = DeleteStep
      BY <1>3 DEF BeginRemoval, Row
    <3> QED
      BY <1>0, <3>1, GoesTo DEF Act
  <2>2. Row(w) \in Assignments
    BY <1>0, <2>1, CurrentRow DEF Fence, SyncStep, CreateStep, DeleteStep
  <2> QED
    BY <1>0, <1>1, <2>1, <2>2 DEF RowsAreTrue
<1>4. act'[w] # NoAct
  BY DEF NoAct, Act
<1>5. ~Publish(w) /\ ~FailTarget(w) /\ ~DeleteRemote(w)
  <2>1. ASSUME NEW at, NEW targets, NEW todo, NEW want, NEW failed, NEW target,
               NEW x, NEW v, at # "sweep",
               Goto(w, Act(at, targets, todo, want, failed, target, x, v))
        PROVE  FALSE
    BY <1>0, <2>1, GoesTo DEF Act
  <2>2. \A a, failed : ~NextTarget(w, a, failed)
    BY <2>1 DEF NextTarget
  <2>3. \A at, x, v : at # "sweep" => ~Within(w, at, x, v)
    BY <2>1 DEF Within
  <2>4. ~FailTarget(w) /\ ~DeleteRemote(w)
    BY <2>1, <2>2 DEF FailTarget, DeleteRemote
  <2> QED
    BY <2>1, <2>2, <2>3, <2>4
       DEF Publish, Begin, RefuseTarget, SkipTarget, Prepare, Locate,
           CreateVersion, StoreVersion, CreateRemote, StoreTemplate, Activate,
           FinishTarget
<1> QED
  BY <1>0, <1>2, <1>3, <1>4, <1>5, ActsMove

\* Nobody else touches the row and the templates of a worker's assignment.
LEMMA Undisturbed ==
    ASSUME Kept, PublicationInv, [TNext]_tvars, NEW w \in Workers, Current(w),
           ~Moves(w), NEW a \in Assignments, WorksFor(w, a)
    PROVE  /\ dep'[a] = dep[a]
           /\ \A t : Belongs(t, a) => remote'[t] = remote[t]
<1>0. Fence /\ Typed /\ TargetsAreStable /\ Apart
  BY PublicationFacts
<1>1. ASSUME NEW v \in Workers, Current(v), Moves(v), WorksFor(v, a)
      PROVE  FALSE
  <2>1. v = w
    BY <1>0, <1>1 DEF Apart
  <2> QED
    BY <1>1, <2>1
<1>2. dep'[a] = dep[a]
  BY <1>0, <1>1, DeploymentWriters DEF WorksFor
<1>3. \A t : Belongs(t, a) => remote'[t] = remote[t]
  BY <1>1, RemoteWriters
<1> QED
  BY <1>2, <1>3

\* A worker achieves what its point of the publication says.
LEMMA AchievedStep ==
    ASSUME Kept, PublicationInv, [TNext]_tvars, NEW w \in Workers, GoesOn(w)
    PROVE  Achieved(w)'
<1>0. /\ Fence /\ Columns /\ ActsAreTyped /\ NothingForeign /\ RowsAreTrue
      /\ UnusedAreBlank /\ Current(w) /\ Achieved(w) /\ TargetsStay(w)
  BY PublicationFacts DEF GoesOn
<1>1. /\ \A v, key : Spells(v, key) => Spells(v, key)'
      /\ \A t, b : Belongs(t, b) => Belongs(t, b)'
  BY <1>0, TruthsStay
<1>2. /\ act[w].at \in Publishing => act[w].target \in Assignments
      /\ act[w].at \in {"uploaded", "importing", "created", "published"} =>
            act[w].version \in Versions
      /\ act[w].at \in {"created", "published"} => act[w].template \in Templates
      /\ act[w].template \in Templates \cup {NoTemplate}
  BY <1>0, ActTypes DEF Equipped
<1>3. act[w].at \in Publishing =>
        /\ dep[act[w].target].status = "running"
        /\ dep[act[w].target].target = Key(act[w].want)
        /\ act[w].at \in {"uploaded", "importing", "created", "published"} =>
              Spells(act[w].version, Key(act[w].want))
        /\ act[w].template # NoTemplate => Belongs(act[w].template, act[w].target)
        /\ (act[w].template # NoTemplate /\ act[w].at # "created") =>
              dep[act[w].target].template = act[w].template
        /\ act[w].at \in {"created", "published"} =>
              /\ remote[act[w].template].status = "present"
              /\ remote[act[w].template].active = act[w].version
  BY <1>0 DEF Achieved
<1> SUFFICES ASSUME NEW at, NEW a, NEW t, NEW v, NEW want,
                    at = act'[w].at, a = act'[w].target, t = act'[w].template,
                    v = act'[w].version, want = act'[w].want, at \in Publishing
             PROVE  /\ dep'[a].status = "running"
                    /\ dep'[a].target = Key(want)
                    /\ at \in {"uploaded", "importing", "created", "published"} =>
                          Spells(v, Key(want))'
                    /\ t # NoTemplate => Belongs(t, a)'
                    /\ (t # NoTemplate /\ at # "created") => dep'[a].template = t
                    /\ at \in {"created", "published"} =>
                          remote'[t].status = "present" /\ remote'[t].active = v
  BY DEF Achieved
<1> DEFINE Goal == /\ dep'[a].status = "running"
                   /\ dep'[a].target = Key(want)
                   /\ at \in {"uploaded", "importing", "created", "published"} =>
                         Spells(v, Key(want))'
                   /\ t # NoTemplate => Belongs(t, a)'
                   /\ (t # NoTemplate /\ at # "created") => dep'[a].template = t
                   /\ at \in {"created", "published"} =>
                         remote'[t].status = "present" /\ remote'[t].active = v
<1>4. ASSUME ~Moves(w)
      PROVE  Goal
  <2>1. act'[w] = act[w]
    <3>1. act'[w] # NoAct
      BY DEF NoAct, Act, Publishing
    <3> QED
      BY <1>0, <1>4, <3>1, ActsMove DEF Moves, Removal
  <2>2. a \in Assignments /\ WorksFor(w, a)
    BY <1>0, <1>2, <2>1 DEF TargetsStay, WorksFor
  <2>3. /\ dep'[a] = dep[a]
        /\ \A x : Belongs(x, a) => remote'[x] = remote[x]
    BY <1>0, <1>4, <2>2, Undisturbed
  <2>4. at \in {"created", "published"} => t # NoTemplate
    BY <1>2, <2>1
  <2> QED
    BY <1>1, <1>3, <2>1, <2>3, <2>4
<1>5. ASSUME NEW x, NEW targets, NEW todo, NEW s, NEW failed, NEW b, NEW y, NEW z,
             Goto(w, Act(x, targets, todo, s, failed, b, y, z))
      PROVE  at = x /\ want = s /\ a = b /\ t = y /\ v = z
  BY <1>0, <1>5, GoesTo DEF Act
<1>6. ASSUME NEW x, NEW y, NEW z, Within(w, x, y, z)
      PROVE  at = x /\ want = act[w].want /\ a = act[w].target /\ t = y /\ v = z
  BY <1>5, <1>6 DEF Within
<1>7. ASSUME NEW b, NEW d, SetDeployment(b, d), b \in Assignments
      PROVE  dep'[b] = d
  BY <1>0, <1>7 DEF SetDeployment, Columns
<1>8. ASSUME NEW b \in Assignments, Prepare(w, b)
      PROVE  Goal
  <2>1. /\ at = "prepared" /\ want = act[w].want /\ a = b /\ t = NoTemplate
        /\ dep'[b] = Prepared(b, act[w].want)
    BY <1>5, <1>7, <1>8 DEF Prepare
  <2> QED
    BY <2>1 DEF Prepared, Deployment
<1>9. ASSUME Locate(w)
      PROVE  Goal
  <2>1. /\ act[w].at = "prepared" /\ a = act[w].target /\ a \in Assignments
        /\ want = act[w].want /\ at \in {"located", "importing"}
        /\ t # NoTemplate => Belongs(t, a)
        /\ at = "importing" => v # NoVersion /\ v \in KnownVersions(a, t, want)
    BY <1>0, <1>9, Locates
  <2>2. dep[a].status = "running" /\ dep[a].target = Key(want)
    BY <1>3, <2>1 DEF Publishing
  <2>3. at = "importing" => Spells(v, Key(want))
    <3> SUFFICES ASSUME at = "importing"
                 PROVE  Spells(v, Key(want))
      OBVIOUS
    <3>1. CASE v = dep[a].version
      BY <1>0, <2>1, <2>2, <3>1 DEF RowsAreTrue
    <3>2. CASE v \in Versions /\ t # NoTemplate /\ version[v].of = t
               /\ Key(version[v].source) = Key(want)
      BY <1>0, <3>2 DEF Spells, UnusedAreBlank
    <3> QED
      BY <2>1, <3>1, <3>2 DEF KnownVersions
  <2>4. /\ dep'[a].status = dep[a].status /\ dep'[a].target = dep[a].target
        /\ t # NoTemplate => dep'[a].template = t
    <3>1. PICK y : \E z :
             /\ SetDeployment(a, Deployment(dep[a].status, dep[a].target,
                   dep[a].applied, IF y = NoTemplate THEN dep[a].template ELSE y,
                   dep[a].version))
             /\ Within(w, IF z = NoVersion THEN "located" ELSE "importing", y, z)
      BY <1>9, <2>1 DEF Locate
    <3>2. y = t
      BY <1>6, <3>1
    <3>3. dep'[a] = Deployment(dep[a].status, dep[a].target, dep[a].applied,
                       IF t = NoTemplate THEN dep[a].template ELSE t,
                       dep[a].version)
      BY <1>7, <2>1, <3>1, <3>2
    <3> QED
      BY <3>3 DEF Deployment
  <2> QED
    BY <1>1, <2>1, <2>2, <2>3, <2>4
<1>10. ASSUME NEW z \in NewVersions, CreateVersion(w, z)
       PROVE  Goal
  <2>1. /\ act[w].at = "located" /\ dep' = dep /\ remote' = remote
        /\ version' = [version EXCEPT ![z] =
              Version(act[w].target, act[w].want, act[w].template, "pending")]
        /\ z \in Versions
    BY <1>10 DEF CreateVersion, Working, NewVersions, Draw
  <2>2. at = "uploaded" /\ want = act[w].want /\ a = act[w].target
        /\ t = act[w].template /\ v = z
    BY <1>6, <1>10 DEF CreateVersion
  <2>3. version'[v] = Version(act[w].target, want, act[w].template, "pending")
    BY <1>0, <2>1, <2>2 DEF Columns
  <2>4. Spells(v, Key(want))'
    BY <2>1, <2>2, <2>3 DEF Spells, Version
  <2> QED
    BY <1>1, <1>3, <2>1, <2>2, <2>4 DEF Publishing
<1>11. ASSUME StoreVersion(w)
       PROVE  Goal
  <2>1. /\ act[w].at = "uploaded" /\ remote' = remote
        /\ a = act[w].target /\ a \in Assignments
        /\ at = "importing" /\ want = act[w].want
        /\ t = act[w].template /\ v = act[w].version
    BY <1>2, <1>6, <1>11 DEF StoreVersion, Working, Publishing
  <2>2. dep'[a] = Deployment(dep[a].status, dep[a].target, dep[a].applied,
                             dep[a].template, act[w].version)
    BY <1>7, <1>11, <2>1 DEF StoreVersion
  <2>3. /\ dep'[a].status = dep[a].status /\ dep'[a].target = dep[a].target
        /\ dep'[a].template = dep[a].template
    BY <2>2 DEF Deployment
  <2> QED
    BY <1>1, <1>3, <2>1, <2>3 DEF Publishing
<1>12. ASSUME NEW y \in NewTemplates, CreateRemote(w, y)
       PROVE  Goal
  <2>1. /\ act[w].at = "importing" /\ dep' = dep
        /\ at = "created" /\ want = act[w].want /\ a = act[w].target
        /\ t = y /\ v = act[w].version /\ t \in Templates
    BY <1>6, <1>12 DEF CreateRemote, Imported, Working, NewTemplates, Draw
  <2>2. remote'[t] = Remote(a, "manager", v, "present")
    BY <1>0, <1>12, <2>1 DEF CreateRemote, Columns
  <2>3. Belongs(t, a)' /\ remote'[t].status = "present" /\ remote'[t].active = v
    BY <2>1, <2>2 DEF Belongs, Managed, Remote
  <2> QED
    BY <1>1, <1>3, <2>1, <2>3 DEF Publishing
<1>13. ASSUME StoreTemplate(w)
       PROVE  Goal
  <2>1. /\ act[w].at = "created" /\ remote' = remote
        /\ a = act[w].target /\ a \in Assignments
        /\ at = "published" /\ want = act[w].want
        /\ t = act[w].template /\ v = act[w].version /\ t \in Templates
    BY <1>2, <1>6, <1>13 DEF StoreTemplate, Working, Publishing
  <2>2. dep'[a] = Deployment(dep[a].status, dep[a].target, dep[a].applied,
                             t, dep[a].version)
    BY <1>7, <1>13, <2>1 DEF StoreTemplate
  <2>3. /\ dep'[a].status = dep[a].status /\ dep'[a].target = dep[a].target
        /\ dep'[a].template = t
    BY <2>2 DEF Deployment
  <2> QED
    BY <1>1, <1>3, <2>1, <2>3 DEF Publishing
<1>14. ASSUME Activate(w)
       PROVE  Goal
  <2>1. /\ act[w].at = "importing" /\ dep' = dep
        /\ at = "published" /\ want = act[w].want /\ a = act[w].target
        /\ t = act[w].template /\ v = act[w].version
        /\ t # NoTemplate /\ t \in Templates /\ remote[t].status = "present"
    BY <1>2, <1>6, <1>14 DEF Activate, Imported, Working
  <2>2. remote'[t] = Activated(t, v)
    BY <1>0, <1>14, <2>1 DEF Activate, Columns
  <2>3. remote'[t].status = "present" /\ remote'[t].active = v
    BY <2>1, <2>2 DEF Activated, Remote
  <2> QED
    BY <1>1, <1>3, <2>1, <2>3 DEF Publishing
<1>15. /\ ~Begin(w) /\ ~FinishTarget(w) /\ ~FailTarget(w) /\ ~Removal(w)
       /\ \A b \in Assignments : ~RefuseTarget(w, b) /\ ~SkipTarget(w, b)
  <2>1. \A b, failed : ~NextTarget(w, b, failed)
    BY <1>5 DEF NextTarget, Publishing
  <2>2. ~Begin(w) /\ ~BeginRemoval(w) /\ ~DeleteRemote(w)
    <3>1. ASSUME Begin(w)
          PROVE  FALSE
      <4>1. \E all : Goto(w, Act("targets", all, all, src, FALSE, NoResource,
                                 NoTemplate, NoVersion))
        BY <3>1 DEF Begin
      <4>2. at = "targets"
        BY <1>5, <4>1
      <4> QED
        BY <4>2 DEF Publishing
    <3>2. ASSUME BeginRemoval(w)
          PROVE  FALSE
      <4>1. \E y : Goto(w, Act("sweep", {}, {}, NoSource, FALSE, NoResource, y,
                               NoVersion))
        BY <3>2 DEF BeginRemoval
      <4>2. at = "sweep"
        BY <1>5, <4>1
      <4> QED
        BY <4>2 DEF Publishing
    <3>3. ASSUME DeleteRemote(w)
          PROVE  FALSE
      <4>1. Goto(w, Act("removed", {}, {}, NoSource, FALSE, NoResource, NoTemplate,
                        NoVersion))
        BY <3>3 DEF DeleteRemote
      <4>2. at = "removed"
        BY <1>5, <4>1
      <4> QED
        BY <4>2 DEF Publishing
    <3> QED
      BY <3>1, <3>2, <3>3
  <2>3. ~RemoveLocal(w)
    BY <1>5 DEF RemoveLocal, NoAct, Publishing
  <2> QED
    BY <2>1, <2>2, <2>3
       DEF FinishTarget, FailTarget, Removal, RefuseTarget, SkipTarget
<1> HIDE DEF Goal
<1>16. Goal
  BY <1>4, <1>8, <1>9, <1>10, <1>11, <1>12, <1>13, <1>14, <1>15
     DEF Moves, Publish
<1> QED
  BY <1>16 DEF Goal

\* The targets behind a worker stay published.
LEMMA ReachedStep ==
    ASSUME Kept, PublicationInv, [TNext]_tvars, NEW w \in Workers, GoesOn(w)
    PROVE  Reached(w)'
<1>0. /\ Fence /\ Columns /\ ActsAreTyped /\ NothingForeign
      /\ Current(w) /\ Reached(w) /\ TargetsStay(w)
  BY PublicationFacts DEF GoesOn
<1>1. /\ act[w].todo \subseteq act[w].targets
      /\ act[w].targets \subseteq Assignments
      /\ act[w].at \in Publishing => act[w].target \in act[w].todo
      /\ act[w].failed \in BOOLEAN
  BY <1>0, ActTypes DEF TargetsStay, Acts
<1> SUFFICES ASSUME ~act'[w].failed,
                    NEW a \in act'[w].targets \ act'[w].todo, NEW want,
                    want = act'[w].want
             PROVE  dep'[a].status = "success" /\ dep'[a].applied = Key(want)
  BY DEF Reached
<1> DEFINE Goal == dep'[a].status = "success" /\ dep'[a].applied = Key(want)
<1>2. ASSUME ~act[w].failed, a \in act[w].targets \ act[w].todo
      PROVE  dep[a].status = "success" /\ dep[a].applied = Key(act[w].want)
  BY <1>0, <1>2 DEF Reached
<1>3. ASSUME ~Moves(w)
      PROVE  Goal
  <2>1. act'[w] = act[w]
    <3>1. act'[w] # NoAct
      BY DEF NoAct, Act
    <3> QED
      BY <1>0, <1>3, <3>1, ActsMove DEF Moves, Removal
  <2>2. a \in Assignments /\ WorksFor(w, a)
    BY <1>1, <2>1 DEF WorksFor
  <2>3. dep'[a] = dep[a]
    BY <1>0, <1>3, <2>2, Undisturbed
  <2> QED
    BY <1>2, <2>1, <2>3
<1>4. ASSUME NEW at, NEW targets, NEW todo, NEW s, NEW failed, NEW b, NEW y,
             NEW z, Goto(w, Act(at, targets, todo, s, failed, b, y, z))
      PROVE  a \in targets \ todo /\ want = s /\ act'[w].failed = failed
  BY <1>0, <1>4, GoesTo DEF Act
<1>5. ASSUME NEW at, NEW y, NEW z, Within(w, at, y, z)
      PROVE  /\ a \in act[w].targets \ act[w].todo /\ want = act[w].want
             /\ ~act[w].failed
  BY <1>4, <1>5 DEF Within
<1>6. ASSUME NEW b, NEW failed \in BOOLEAN, NextTarget(w, b, failed)
      PROVE  /\ ~failed /\ ~act[w].failed /\ want = act[w].want
             /\ a \in act[w].targets
             /\ a # b => a \notin act[w].todo
  <2>1. Goto(w, Act("targets", act[w].targets, act[w].todo \ {b}, act[w].want,
                    act[w].failed \/ failed, NoResource, NoTemplate, NoVersion))
    BY <1>6 DEF NextTarget
  <2>2. /\ a \in act[w].targets \ (act[w].todo \ {b}) /\ want = act[w].want
        /\ act'[w].failed = (act[w].failed \/ failed)
    BY <1>4, <2>1
  <2> QED
    BY <2>2
<1>7. ASSUME NEW b, NEW d, SetDeployment(b, d)
      PROVE  dep'[a] = IF a = b /\ a \in Assignments THEN d ELSE dep[a]
  BY <1>0, <1>7 DEF SetDeployment, Columns
<1>8. ASSUME NEW b \in Assignments, Prepare(w, b)
      PROVE  Goal
  <2>1. /\ a \in act[w].targets \ act[w].todo /\ want = act[w].want
        /\ ~act[w].failed /\ b \in act[w].todo
    BY <1>4, <1>8 DEF Prepare
  <2>2. dep'[a] = dep[a]
    BY <1>7, <1>8, <2>1 DEF Prepare
  <2> QED
    BY <1>2, <2>1, <2>2
<1>9. ASSUME \/ Locate(w) \/ StoreVersion(w) \/ StoreTemplate(w) \/ Activate(w)
             \/ \E v \in NewVersions : CreateVersion(w, v)
             \/ \E t \in NewTemplates : CreateRemote(w, t)
      PROVE  Goal
  <2>1. /\ act[w].at \in Publishing
        /\ \E at, y, z : Within(w, at, y, z)
        /\ dep' = dep \/ \E d : SetDeployment(act[w].target, d)
    BY <1>9
       DEF Locate, StoreVersion, StoreTemplate, Activate, CreateVersion,
           CreateRemote, Imported, Working, Publishing
  <2>2. /\ a \in act[w].targets \ act[w].todo /\ want = act[w].want
        /\ ~act[w].failed
    BY <1>5, <2>1
  <2>3. dep'[a] = dep[a]
    BY <1>1, <1>7, <2>1, <2>2
  <2> QED
    BY <1>2, <2>2, <2>3, SMTT(20)
<1>10. ASSUME FinishTarget(w)
       PROVE  Goal
  <2> DEFINE b == act[w].target
             d == Deployment("success", dep[b].target, Key(act[w].want),
                             dep[b].template, dep[b].version)
  <2>1. /\ act[w].at = "published" /\ NextTarget(w, b, FALSE)
        /\ SetDeployment(b, d)
    BY <1>10 DEF FinishTarget, Working
  <2>2. /\ a \in act[w].targets /\ want = act[w].want /\ ~act[w].failed
        /\ a # b => a \notin act[w].todo
    BY <1>6, <2>1
  <2>3. d.status = "success" /\ d.applied = Key(act[w].want)
    BY DEF Deployment
  <2>4. dep'[a] = IF a = b THEN d ELSE dep[a]
    BY <1>1, <1>7, <2>1, <2>2
  <2> HIDE DEF d
  <2> QED
    BY <1>2, <2>2, <2>3, <2>4
<1>11. ASSUME NEW b \in Assignments, SkipTarget(w, b)
       PROVE  Goal
  <2>1. /\ NextTarget(w, b, FALSE) /\ dep' = dep
        /\ dep[b].status = "success" /\ dep[b].applied = Key(act[w].want)
    BY <1>11 DEF SkipTarget, AlreadyApplied
  <2>2. /\ a \in act[w].targets /\ want = act[w].want /\ ~act[w].failed
        /\ a # b => a \notin act[w].todo
    BY <1>6, <2>1
  <2> QED
    BY <1>2, <2>1, <2>2
<1>12. /\ ~Begin(w) /\ ~FailTarget(w) /\ ~Removal(w)
       /\ \A b \in Assignments : ~RefuseTarget(w, b)
  <2>1. \A b : ~NextTarget(w, b, TRUE)
    BY <1>6
  <2>2. ~BeginRemoval(w) /\ ~DeleteRemote(w)
    <3>1. BeginRemoval(w) \/ DeleteRemote(w) =>
             \E at, t : Goto(w, Act(at, {}, {}, NoSource, FALSE, NoResource, t,
                                    NoVersion))
      BY DEF BeginRemoval, DeleteRemote
    <3>2. ASSUME NEW at, NEW t,
                 Goto(w, Act(at, {}, {}, NoSource, FALSE, NoResource, t, NoVersion))
          PROVE  FALSE
      <4>1. a \in {} \ {}
        BY <1>4, <3>2
      <4> QED
        BY <4>1
    <3> QED
      BY <3>1, <3>2
  <2>3. ~RemoveLocal(w)
    BY <1>4 DEF RemoveLocal, NoAct
  <2>4. ~Begin(w)
    <3>1. Begin(w) => \E targets : Goto(w, Act("targets", targets, targets, src,
                                        FALSE, NoResource, NoTemplate, NoVersion))
      BY DEF Begin
    <3> QED
      BY <1>4, <3>1
  <2> QED
    BY <2>1, <2>2, <2>3, <2>4 DEF FailTarget, Removal, RefuseTarget
<1> HIDE DEF Goal
<1>13. Goal
  BY <1>3, <1>8, <1>9, <1>10, <1>11, <1>12 DEF Moves, Publish
<1> QED
  BY <1>13 DEF Goal

\* What is stored, made and activated stays true, in every reachable state.
LEMMA PublicationInvariant == TSpec => [](Kept /\ PublicationInv)
<1>1. TInit => PublicationInv
  <2> SUFFICES ASSUME TInit
               PROVE  PublicationInv
    OBVIOUS
  <2>1. \A w \in Workers : ~Current(w)
    BY DEF TInit, Current
  <2>2. /\ NoDeployment.version = NoVersion /\ NoDeployment.template = NoTemplate
        /\ NoDeployment.status = "none"
        /\ UnusedVersion.of = NoTemplate
    BY DEF NoDeployment, Deployment, UnusedVersion, Version
  <2>3. /\ \A a \in Assignments : dep[a] = NoDeployment
        /\ \A v \in Versions : version[v] = UnusedVersion
    BY DEF TInit
  <2> QED
    BY <2>1, <2>2, <2>3 DEF PublicationInv, RowsAreTrue, UnusedAreBlank,
                            SuccessIsSpelled, WorkersAreTrue
<1>2. Kept /\ Kept' /\ PublicationInv /\ [TNext]_tvars => PublicationInv'
  <2> SUFFICES ASSUME Kept, Kept', PublicationInv, [TNext]_tvars
               PROVE  PublicationInv'
    OBVIOUS
  <2>1. WorkersAreTrue'
    <3> SUFFICES ASSUME NEW w \in Workers, Current(w)'
                 PROVE  Achieved(w)' /\ Sweeps(w)' /\ Reached(w)'
      BY DEF WorkersAreTrue
    <3>1. CASE GoesOn(w)
      BY <3>1, AchievedStep, SweepsStep, ReachedStep
    <3>2. CASE Begins(w)
      <4>1. act'[w] = NoAct
        BY <3>2, GoesTo, PublicationFacts DEF Begins, TClaim
      <4> QED
        BY <4>1 DEF Achieved, Sweeps, Reached, NoAct, Act, Publishing
    <3>3. Fence /\ Fence'
      BY DEF Kept
    <3> QED
      BY <3>1, <3>2, <3>3, CurrentStep
  <2> QED
    BY <2>1, RowsTrueStep, SuccessStep DEF PublicationInv
<1> QED
  BY <1>1, <1>2, KeptInvariant, PTL DEF TSpec

\* A deployment recorded as successful is what users of the instance get: the
\* stored remote template is there, is the manager's, and its active version
\* was imported from the recorded commit with the recorded system parameters,
\* whichever attempts of which jobs contributed to it.
THEOREM SuccessIsPublishedCorrect == TSpec => []SuccessIsPublished
<1>1. PublicationInv => SuccessIsPublished
  BY DEF PublicationInv, SuccessIsSpelled, Published, Belongs, Spells, Managed,
         SuccessIsPublished, Named
<1> QED
  BY <1>1, PublicationInvariant, PTL

\* When a synchronization succeeds, every assigned instance that was up when
\* its worker read the targets has the source the worker fetched: run_template_sync
\* raises if a target of this attempt failed, and a target that was passed over
\* had the source already.
THEOREM SyncReachesEveryTargetCorrect == TSpec => SyncReachesEveryTarget
<1> DEFINE Reaches(w) ==
      (/\ claims[w] # NoClaim
       /\ claims[w].step = SyncStep
       /\ Owns(w, claims[w].job)
       /\ resources'[Template].status = "success") =>
          \A a \in act[w].targets : /\ dep[a].status = "success"
                                    /\ dep[a].applied = Key(act[w].want)
<1>1. Kept /\ PublicationInv /\ [TNext]_tvars => \A w \in Workers : Reaches(w)
  <2> SUFFICES ASSUME Kept, PublicationInv, [TNext]_tvars, NEW w \in Workers,
                      claims[w] # NoClaim, claims[w].step = SyncStep,
                      Owns(w, claims[w].job),
                      resources'[Template].status = "success"
               PROVE  \A a \in act[w].targets :
                         /\ dep[a].status = "success"
                         /\ dep[a].applied = Key(act[w].want)
    OBVIOUS
  <2>0. Fence /\ Current(w) /\ Reached(w) /\ TargetsStay(w) /\ TargetsAreStable
    BY PublicationFacts DEF Current
  <2>1. SyncStep # CreateStep /\ SyncStep # DeleteStep
    BY DEF SyncStep, CreateStep, DeleteStep
  <2>2. Row(w) = Template /\ resources[Template].status = "running"
    BY <2>0, <2>1, CurrentRow DEF Fence
  <2>3. RowMoves(Template)
    BY <2>0, RowsMove
  <2>4. ~UpdateTemplate /\ ~CreateTemplate /\ ~DeleteTemplate
    BY <2>2 DEF UpdateTemplate, CreateTemplate, DeleteTemplate
  <2>5. PICK v \in Workers : /\ CompletePublication(v) \/ RemoveLocal(v)
                             /\ Current(v) /\ Row(v) = Template
    BY <2>2, <2>3, <2>4 DEF RowMoves, RowKept, Unsettled
  <2>6. v = w
    BY <2>0, <2>2, <2>5, SameRow
  <2>7. ~RemoveLocal(w)
    BY <2>0, <2>1 DEF RemoveLocal, Working, TargetsStay
  <2>8. act[w].todo = {} /\ ~act[w].failed
    BY <2>5, <2>6, <2>7 DEF CompletePublication, AllPublished
  <2> QED
    BY <2>0, <2>8 DEF Reached
<1> HIDE DEF Reaches
<1>2. Kept /\ PublicationInv /\ [TNext]_tvars => [\A w \in Workers : Reaches(w)]_tvars
  BY <1>1
<1>3. TSpec => [][\A w \in Workers : Reaches(w)]_tvars
  BY <1>2, PublicationInvariant, PTL DEF TSpec
<1> QED
  BY <1>3 DEF SyncReachesEveryTarget, Reaches

-----------------------------------------------------------------------------
(***************************************************************************)
(* Templates that a crash left behind.  Until a push, every attempt wants   *)
(* the same version, and finds by it what an earlier one made.             *)
(***************************************************************************)

\* A template of the manager that is there and was not forgotten.
Own(t) == Made(t) /\ t \notin strays

\* A worker publishes the current system parameters.
WantsCurrent(w) ==
    act[w].at \in Publishing \cup {"targets"} => act[w].want.rev = src.rev

\* Only what was made can be forgotten.
StraysAreMade == \A t \in strays : t \in Templates /\ remote[t].status # "unused"

\* On an instance, one template bears the name.
NamesAreUnique ==
    \A t, x \in Templates :
        (/\ remote[t].status = "present" /\ remote[x].status = "present"
         /\ remote[t].on = remote[x].on) => t = x

\* A template is known by its identifier, or its creation is under way and it
\* is known by the version that the next attempt will want again, or by the
\* version that a push makes it forget.
ByVersion(t, a) ==
    /\ dep[a].version # NoVersion
    /\ remote[t].active = dep[a].version
    /\ dep[a].target[2] = src.rev
    /\ resources[a].action = "creating"
    /\ resources[a].status \in Unsettled

TemplatesAreKnown ==
    \A t \in Templates : Own(t) =>
        /\ remote[t].on \in Assignments
        /\ resources[remote[t].on].status # "absent"
        /\ dep[remote[t].on].template = t \/ ByVersion(t, remote[t].on)

\* An assignment that rests has its template.
RestingHaveTemplates ==
    \A a \in Assignments : resources[a].status = "success" =>
        dep[a].template \in Named(a)

\* What a worker knows of the stored version, of its target and of the template
\* it removes.
WorkersKnow(w) ==
    /\ WantsCurrent(w)
    /\ act[w].at \in {"located", "uploaded"} => dep[act[w].target].version = NoVersion
    /\ (act[w].at = "importing" /\ act[w].template = NoTemplate) =>
          dep[act[w].target].version = act[w].version
    /\ (act[w].at \in Publishing \cup {"targets"} /\ claims[w].step = CreateStep) =>
          Row(w) \in act[w].targets
    /\ act[w].at = "sweep" => act[w].template = dep[Row(w)].template
    /\ act[w].at = "removed" =>
          \A t \in Templates : Own(t) => remote[t].on # Row(w)

Recognition == /\ NamesAreUnique /\ TemplatesAreKnown /\ RestingHaveTemplates
               /\ StraysAreMade
               /\ \A w \in Workers : Current(w) => WorkersKnow(w)

\* A template that is there was there, or is made under a name nobody has.
LEMMA Newcomers ==
    ASSUME Columns, [TNext]_tvars, NEW t \in Templates,
           remote'[t].status = "present"
    PROVE  \/ /\ remote[t].status = "present"
              /\ remote'[t].on = remote[t].on
              /\ remote'[t].by = remote[t].by
           \/ /\ \A x \in Templates : x # t => remote'[x] = remote[x]
              /\ Named(remote'[t].on) = {}
              /\ \/ remote'[t].by = "admin"
                 \/ \E w \in Workers :
                       /\ CreateRemote(w, t)
                       /\ remote'[t] = Remote(act[w].target, "manager",
                                              act[w].version, "present")
<1>1. remote \in [Templates -> RemoteRow]
  BY DEF Columns
<1>2. ASSUME NEW w \in Workers, CreateRemote(w, t)
      PROVE  /\ remote'[t] = Remote(act[w].target, "manager", act[w].version,
                                    "present")
             /\ \A x \in Templates : x # t => remote'[x] = remote[x]
             /\ Named(act[w].target) = {}
  BY <1>1, <1>2 DEF CreateRemote
<1>3. ASSUME NEW a \in Assignments, AdminCreates(a, t)
      PROVE  /\ remote'[t] = Remote(a, "admin", NoVersion, "present")
             /\ \A x \in Templates : x # t => remote'[x] = remote[x]
             /\ Named(a) = {}
  BY <1>1, <1>3 DEF AdminCreates
<1>4. \A r, by, v, s : Remote(r, by, v, s).on = r /\ Remote(r, by, v, s).by = by
  BY DEF Remote
<1>5. RemoteMoves(t)
  BY RemotesMove
<1>6. CASE \E w \in Workers : CreateRemote(w, t)
  BY <1>2, <1>4, <1>6
<1>7. CASE \E a \in Assignments : AdminCreates(a, t)
  BY <1>3, <1>4, <1>7
<1> QED
  BY <1>5, <1>6, <1>7 DEF RemoteMoves

\* Coder refuses a second template of one name.
LEMMA UniqueStep ==
    ASSUME Columns, NamesAreUnique, [TNext]_tvars
    PROVE  NamesAreUnique'
<1> SUFFICES ASSUME NEW t \in Templates, NEW x \in Templates,
                    remote'[t].status = "present", remote'[x].status = "present",
                    remote'[t].on = remote'[x].on, t # x
             PROVE  FALSE
  BY DEF NamesAreUnique
<1>1. ASSUME NEW y \in Templates, NEW z \in Templates, y # z,
             remote'[z].status = "present", remote'[y].on = remote'[z].on,
             \A u \in Templates : u # y => remote'[u] = remote[u],
             Named(remote'[y].on) = {}
      PROVE  FALSE
  BY <1>1 DEF Named
<1>2. CASE /\ remote[t].status = "present" /\ remote'[t].on = remote[t].on
           /\ remote[x].status = "present" /\ remote'[x].on = remote[x].on
  BY <1>2 DEF NamesAreUnique
<1> QED
  BY <1>1, <1>2, Newcomers

\* What a worker stores as the template of an assignment bears its name.
LEMMA TemplateStored ==
    ASSUME Kept, PublicationInv, [TNext]_tvars, NEW a \in Assignments
    PROVE  \/ dep'[a].template = dep[a].template
           \/ dep'[a].template \in Named(a)
           \/ \E w \in Workers : RemoveLocal(w) /\ Row(w) = a
<1>0. Columns /\ ActsAreTyped /\ NothingForeign
  BY PublicationFacts
<1>1. DeploymentMoves(a)
  BY <1>0, DeploymentsMove
<1>2. \A want : Prepared(a, want).template = dep[a].template
  BY DEF Prepared, Deployment
<1>3. ASSUME NEW w \in Workers, act[w].target = a, Locate(w),
             dep'[a].template = act'[w].template,
             act'[w].template # NoTemplate
      PROVE  dep'[a].template \in Named(a)
  <2>1. \A t : t = act'[w].template => t \in Recovered(a)
    BY <1>0, <1>3, Locates
  <2> QED
    BY <1>3, <2>1 DEF Recovered
<1>4. ASSUME NEW w \in Workers, act[w].target = a, Locate(w),
             dep'[a].template \in {dep[a].template, act'[w].template},
             act'[w].template = NoTemplate
      PROVE  dep'[a].template = dep[a].template
  <2>1. PICK y : \E z :
           /\ SetDeployment(a, Deployment(dep[a].status, dep[a].target,
                 dep[a].applied, IF y = NoTemplate THEN dep[a].template ELSE y,
                 dep[a].version))
           /\ Within(w, IF z = NoVersion THEN "located" ELSE "importing", y, z)
    BY <1>4 DEF Locate
  <2>2. y = NoTemplate
    BY <1>0, <1>4, <2>1, GoesTo DEF Within, Act
  <2>3. dep'[a] = Deployment(dep[a].status, dep[a].target, dep[a].applied,
                             dep[a].template, dep[a].version)
    BY <1>0, <2>1, <2>2 DEF SetDeployment, Columns
  <2> QED
    BY <2>3 DEF Deployment
<1>5. ASSUME NEW w \in Workers, act[w].target = a, StoreTemplate(w),
             dep'[a].template = act[w].template
      PROVE  dep'[a].template \in Named(a)
  <2>1. Current(w) /\ act[w].at = "created"
    BY <1>5 DEF StoreTemplate, Working, Current
  <2>2. Achieved(w) /\ act[w].template \in Templates
    BY <1>0, <2>1, ActTypes, PublicationFacts DEF Equipped
  <2>3. Belongs(act[w].template, a) /\ remote[act[w].template].status = "present"
    BY <1>5, <2>1, <2>2 DEF Achieved, Publishing
  <2> QED
    BY <1>5, <2>3 DEF Belongs, Named
<1> QED
  BY <1>1, <1>2, <1>3, <1>4, <1>5 DEF DeploymentMoves

\* An assignment becomes successful once its template is published.
LEMMA CompletionPublishes ==
    ASSUME Kept, PublicationInv, NEW w \in Workers, CompletePublication(w),
           Current(w), WorkersKnow(w), Row(w) \in Assignments
    PROVE  dep[Row(w)].template \in Named(Row(w))
<1>0. /\ Fence /\ SuccessIsSpelled /\ Reached(w) /\ TargetsStay(w)
      /\ TargetsAreStable
  BY PublicationFacts
<1>1. act[w].at = "targets" /\ act[w].todo = {} /\ ~act[w].failed
  BY DEF CompletePublication, AllPublished, Working
<1>2. claims[w].step = CreateStep /\ resources[Row(w)].action = "creating"
  BY <1>0, CurrentRow, StepsEnd
     DEF Fence, SyncStep, CreateStep, DeleteStep
<1>3. Row(w) \in act[w].targets
  BY <1>1, <1>2 DEF WorkersKnow
<1>4. dep[Row(w)].status = "success"
  BY <1>0, <1>1, <1>3 DEF Reached
<1>5. Published(Row(w))
  BY <1>0, <1>2, <1>4 DEF SuccessIsSpelled
<1> QED
  BY <1>5 DEF Published, Belongs, Named

\* While a row is in a transition, the system parameters stay.
LEMMA RevisionIsStill ==
    ASSUME Kept, [TNext]_tvars, NEW r \in Resources,
           resources[r].status \in Unsettled
    PROVE  src'.rev = src.rev
<1>1. MoveBranch => src'.rev = src.rev
  BY DEF MoveBranch, Change, Source
<1> QED
  BY <1>1, SourceIsHeld DEF Kept, Exclusion

\* What is forgotten stays forgotten, and was made.
LEMMA StraysStep ==
    ASSUME Columns, StraysAreMade, [TNext]_tvars
    PROVE  StraysAreMade' /\ strays \subseteq strays'
<1>1. ASSUME NEW w \in Workers, NEW a \in Assignments, Prepare(w, a)
      PROVE  /\ strays \subseteq strays'
             /\ \A t \in strays' \ strays :
                   t \in Templates /\ remote[t].status # "unused"
  BY <1>1 DEF Prepare, Forgotten, Recovered, Named
<1>2. \A t \in strays' : t \in Templates /\ remote[t].status # "unused"
  BY <1>1, SetsMove DEF StraysAreMade
<1>3. ASSUME NEW t \in Templates, remote[t].status # "unused"
      PROVE  remote'[t].status # "unused"
  BY <1>3, RemotesMove DEF RemoteMoves
<1> QED
  BY <1>1, <1>2, <1>3, SetsMove DEF StraysAreMade

\* An assignment that rests keeps its template.
LEMMA RestingStep ==
    ASSUME Kept, PublicationInv, Recognition, [TNext]_tvars
    PROVE  RestingHaveTemplates'
<1>0. /\ Fence /\ Columns /\ NamesAreUnique /\ RestingHaveTemplates /\ RowsAreTrue
      /\ TargetsAreStable
      /\ \A w \in Workers : Current(w) => WorkersKnow(w)
  BY PublicationFacts DEF Recognition
<1> SUFFICES ASSUME NEW a \in Assignments, resources'[a].status = "success"
             PROVE  dep'[a].template \in Named(a)'
  BY DEF RestingHaveTemplates
<1>1. RowMoves(a)
  BY <1>0, RowsMove
<1>2. CASE resources[a].status = "success"
  <2> DEFINE t == dep[a].template
  <2>1. t \in Named(a) /\ t \in Templates /\ t # NoTemplate
    BY <1>0, <1>2 DEF RestingHaveTemplates, Named
  <2>2. Belongs(t, a)
    BY <1>0, <2>1 DEF RowsAreTrue
  <2>3. ASSUME NEW w \in Workers, Current(w), Row(w) = a
        PROVE  FALSE
    BY <1>0, <1>2, <2>3, CurrentUnsettled
  <2>4. remote'[t].on = a /\ remote'[t].status = "present"
    <3>4. remote[t].on = a /\ remote[t].status = "present"
      BY <2>1 DEF Named
    <3>5. CASE remote'[t] = remote[t]
      BY <3>4, <3>5
    <3>6. CASE remote'[t] # remote[t]
      <4>1. PICK w \in Workers : Activate(w) /\ act[w].template = t
        BY <2>2, <2>3, <3>6, RemoteWriters
      <4>2. remote'[t] = Activated(t, act[w].version)
        BY <1>0, <2>1, <4>1 DEF Activate, Columns
      <4> QED
        BY <3>4, <4>2 DEF Activated, Remote
    <3> QED
      BY <3>5, <3>6
  <2>5. ASSUME NEW w \in Workers, RemoveLocal(w)
        PROVE  Current(w)
    BY <2>5 DEF RemoveLocal, Working, Current
  <2>6. dep'[a].template = t
    <3>1. CASE dep'[a].template \in Named(a)
      BY <1>0, <2>1, <3>1 DEF Named, NamesAreUnique
    <3> QED
      BY <2>3, <2>5, <3>1, TemplateStored
  <2> QED
    BY <2>1, <2>4, <2>6 DEF Named
<1>3. ASSUME NEW w \in Workers, CompletePublication(w), Current(w), Row(w) = a
      PROVE  dep'[a].template \in Named(a)'
  <2>1. dep' = dep /\ remote' = remote
    BY <1>3 DEF CompletePublication
  <2>2. dep[a].template \in Named(a)
    BY <1>0, <1>3, CompletionPublishes
  <2> QED
    BY <2>1, <2>2 DEF Named
<1>4. ASSUME NEW w \in Workers, RemoveLocal(w),
             claims[w].step = DeleteStep => resources'[a] = AbsentResource
      PROVE  FALSE
  <2>1. resources'[a] = AbsentResource
    BY <1>0, <1>4, StepsEnd
  <2> QED
    BY <2>1 DEF AbsentResource
<1>5. "success" \notin Unsettled
  BY DEF Unsettled
<1> QED
  BY <1>1, <1>2, <1>3, <1>4, <1>5 DEF RowMoves, RowKept, Asked

\* Whoever publishes a template anew creates an assignment, and has stored the
\* version that the template will be known by.
LEMMA CreatedIsKnown ==
    ASSUME Kept, PublicationInv, Recognition,
           [TNext]_tvars, NEW w \in Workers, NEW t \in Templates,
           CreateRemote(w, t),
           remote'[t] = Remote(act[w].target, "manager", act[w].version, "present")
    PROVE  /\ act[w].target \in Assignments
           /\ resources'[act[w].target].status # "absent"
           /\ \A a : a = act[w].target => ByVersion(t, a)'
<1> DEFINE b == act[w].target
<1>0. /\ Fence /\ Columns /\ ActsAreTyped /\ RestingHaveTemplates
      /\ TargetsAreStable
  BY PublicationFacts DEF Recognition
<1>1. /\ Current(w) /\ act[w].at = "importing" /\ act[w].template = NoTemplate
      /\ Named(b) = {} /\ UNCHANGED <<vars, src, dep>>
  BY DEF CreateRemote, Imported, Working, Current
<1>2. WorkersKnow(w) /\ Achieved(w)
  BY <1>1, PublicationFacts DEF Recognition
<1>3. b \in Assignments /\ act[w].version \in Versions
  BY <1>0, <1>1, ActTypes DEF Equipped, Publishing
<1>4. b \in act[w].targets
  BY <1>0, <1>1, <1>3, TargetRows DEF TargetsStay, Publishing
<1>5. resources[b].status = "running" /\ resources[b].action = "creating"
  <2>1. resources[b].status # "success"
    BY <1>0, <1>1, <1>3 DEF RestingHaveTemplates
  <2> QED
    BY <1>0, <1>1, <1>4, <2>1, TargetRows
<1>6. /\ dep[b].version = act[w].version /\ dep[b].version # NoVersion
      /\ dep[b].target = Key(act[w].want) /\ act[w].want.rev = src.rev
      /\ dep[b].target[2] = src.rev
  <2>1. /\ dep[b].version = act[w].version /\ dep[b].version # NoVersion
        /\ dep[b].target = Key(act[w].want) /\ act[w].want.rev = src.rev
    BY <1>1, <1>2, <1>3 DEF WorkersKnow, WantsCurrent, Achieved, Publishing
  <2> QED
    BY <2>1 DEF Key
<1>7. /\ resources' = resources /\ dep' = dep /\ src' = src
  BY <1>1 DEF vars
<1>8. remote'[t].active = dep[b].version
  BY <1>6 DEF Remote
<1>9. "running" \in Unsettled /\ "running" # "absent"
  BY DEF Unsettled
<1> QED
  BY <1>3, <1>5, <1>6, <1>7, <1>8, <1>9 DEF ByVersion

\* A template that is known stays known: by its identifier until it is removed
\* or by its version until the identifier is stored.
LEMMA KnownStays ==
    ASSUME Kept, PublicationInv, Recognition,
           [TNext]_tvars, NEW t \in Templates, Own(t),
           remote'[t].status = "present", t \notin strays', NEW a, a = remote[t].on
    PROVE  /\ a \in Assignments
           /\ resources'[a].status # "absent"
           /\ dep'[a].template = t \/ ByVersion(t, a)'
<1>0. /\ Fence /\ Columns /\ ActsAreTyped /\ TargetsAreStable /\ NamesAreUnique
      /\ \A w \in Workers : Current(w) => WorkersKnow(w)
  BY PublicationFacts DEF Recognition
<1>1. /\ a \in Assignments /\ a \in Resources
      /\ resources[a].status # "absent"
      /\ dep[a].template = t \/ ByVersion(t, a)
  BY DEF Recognition, TemplatesAreKnown
<1>2. t \in Named(a) /\ Belongs(t, a)
  BY DEF Own, Made, Named, Belongs, Managed
<1>3. ASSUME NEW w \in Workers, RemoveLocal(w), Row(w) = a
      PROVE  FALSE
  <2>1. Current(w) /\ act[w].at = "removed"
    BY <1>3 DEF RemoveLocal, Working, Current
  <2> QED
    BY <1>0, <1>3, <2>1 DEF WorkersKnow
<1>4. dep'[a].template \in {t, dep[a].template}
  <2>1. \A x \in Named(a) : x = t
    BY <1>0, <1>2 DEF Named, NamesAreUnique
  <2> QED
    BY <1>1, <1>3, <2>1, TemplateStored
<1>5. RowMoves(a) /\ a # Template
  BY <1>0, <1>1, RowsMove, SMTT(30)
<1>6. resources'[a].status # "absent"
  <2>1. "absent" \notin Unsettled
    BY DEF Unsettled
  <2>2. ASSUME NEW w \in Workers, CompletePublication(w),
               claims[w].step # DeleteStep => resources'[a].status = "success"
        PROVE  resources'[a].status = "success"
    BY <1>0, <2>2, StepsEnd
  <2> QED
    BY <1>1, <1>3, <1>5, <2>1, <2>2 DEF RowMoves, RowKept, Asked
<1>7. CASE dep[a].template = t
  BY <1>1, <1>4, <1>6, <1>7
<1>8. CASE ByVersion(t, a) /\ dep[a].template # t /\ dep'[a].template # t
  <2>1. /\ dep[a].version # NoVersion /\ remote[t].active = dep[a].version
        /\ dep[a].target[2] = src.rev /\ resources[a].action = "creating"
        /\ resources[a].status \in Unsettled
    BY <1>8 DEF ByVersion
  <2>2. src'.rev = src.rev
    BY <1>1, <2>1, RevisionIsStill
  <2>3. remote'[t].active = remote[t].active
    <3>1. ASSUME NEW w \in Workers, Current(w), act[w].template = t,
                 Activate(w), act[w].target = a
          PROVE  FALSE
      <4>1. act[w].at = "importing" /\ t # NoTemplate
        BY <3>1 DEF Activate, Imported, Working
      <4> QED
        BY <1>8, <3>1, <4>1, PublicationFacts DEF Achieved, Publishing
    <3>2. ASSUME NEW w \in Workers, act[w].template = t, DeleteRemote(w)
          PROVE  FALSE
      <4>1. remote'[t] = Remote(remote[t].on, remote[t].by, remote[t].active, "gone")
        BY <3>2, SMTT(30) DEF DeleteRemote, Own, Made
      <4> QED
        BY <4>1 DEF Remote
    <3> QED
      BY <1>1, <1>2, <3>1, <3>2, RemoteWriters
  <2>4. dep'[a].version = dep[a].version /\ dep'[a].target = dep[a].target
    <3>1. ASSUME NEW w \in Workers, Prepare(w, a),
                 dep'[a] = Prepared(a, act[w].want)
          PROVE  dep'[a].version = dep[a].version /\ dep'[a].target = dep[a].target
      <4>1. Current(w) /\ act[w].at = "targets"
        BY <3>1 DEF Prepare, Working, Current
      <4>2. act[w].want.rev = src.rev
        BY <1>0, <4>1 DEF WorkersKnow, WantsCurrent
      <4>3. dep[a].target[1] = act[w].want.commit
        <5>1. t \in Recovered(a)
          BY <1>2, <2>1 DEF Recovered
        <5>2. t \notin Forgotten(a, act[w].want)
          BY <3>1 DEF Prepare
        <5> QED
          BY <1>8, <5>1, <5>2 DEF Forgotten
      <4>4. dep[a].target \in Nat \X Nat
        BY <1>0, <1>1 DEF Columns, DeploymentRow
      <4>5. dep[a].target = Key(act[w].want)
        BY <2>1, <4>2, <4>3, <4>4 DEF Key
      <4> QED
        BY <3>1, <4>5 DEF Prepared, Deployment
    <3>2. ASSUME NEW w \in Workers, StoreVersion(w), act[w].target = a
          PROVE  FALSE
      <4>1. Current(w) /\ act[w].at = "uploaded"
        BY <3>2 DEF StoreVersion, Working, Current
      <4> QED
        BY <1>0, <2>1, <3>2, <4>1 DEF WorkersKnow
    <3>3. DeploymentMoves(a)
      BY <1>0, <1>1, DeploymentsMove
    <3> QED
      BY <1>3, <3>1, <3>2, <3>3, Zenon DEF DeploymentMoves
  <2>5. resources'[a].action = "creating" /\ resources'[a].status \in Unsettled
    <3>1. ASSUME NEW w \in Workers, CompletePublication(w), Current(w), Row(w) = a
          PROVE  FALSE
      <4>1. dep[a].template \in Named(a)
        BY <1>0, <1>1, <3>1, CompletionPublishes
      <4> QED
        BY <1>0, <1>2, <1>8, <4>1 DEF Named, NamesAreUnique
    <3>2. resources[a].status # "absent" /\ resources[a].status # "success"
      BY <2>1 DEF Unsettled
    <3> QED
      BY <1>3, <1>5, <2>1, <3>1, <3>2 DEF RowMoves, RowKept
  <2>6. ByVersion(t, a)'
    BY <2>1, <2>2, <2>3, <2>4, <2>5 DEF ByVersion
  <2> QED
    BY <1>1, <1>6, <2>6
<1> QED
  BY <1>1, <1>4, <1>6, <1>7, <1>8

\* Every template of the manager stays known.
LEMMA KnownStep ==
    ASSUME Kept, PublicationInv, Recognition, [TNext]_tvars
    PROVE  TemplatesAreKnown'
<1>0. Columns /\ strays \subseteq strays'
  BY PublicationFacts, StraysStep DEF Recognition
<1> SUFFICES ASSUME NEW t \in Templates, remote'[t].by = "manager",
                    remote'[t].status = "present", t \notin strays',
                    NEW a, a = remote'[t].on
             PROVE  /\ a \in Assignments
                    /\ resources'[a].status # "absent"
                    /\ dep'[a].template = t \/ ByVersion(t, a)'
  BY DEF TemplatesAreKnown, Own, Made
<1>1. CASE /\ remote[t].status = "present" /\ a = remote[t].on
           /\ remote[t].by = "manager"
  BY <1>0, <1>1, KnownStays DEF Own, Made
<1>2. ASSUME NEW w \in Workers, CreateRemote(w, t),
             remote'[t] = Remote(act[w].target, "manager", act[w].version, "present")
      PROVE  /\ a \in Assignments
             /\ resources'[a].status # "absent"
             /\ ByVersion(t, a)'
  <2>1. a = act[w].target
    BY <1>2 DEF Remote
  <2> QED
    BY <1>2, <2>1, CreatedIsKnown
<1> QED
  BY <1>0, <1>1, <1>2, Newcomers

\* What a worker knows stays while others take their steps.
LEMMA KnowledgeStays ==
    ASSUME Kept, PublicationInv, Recognition,
           [TNext]_tvars, NEW w \in Workers, GoesOn(w), ~Moves(w)
    PROVE  WorkersKnow(w)'
<1>0. /\ Fence /\ Typed /\ Columns /\ ActsAreTyped /\ TargetsAreStable /\ Apart
      /\ Current(w) /\ WorkersKnow(w) /\ TargetsStay(w)
      /\ claims'[w] = claims[w] /\ Row(w)' = Row(w)
  BY PublicationFacts DEF GoesOn, Recognition
<1>a. strays \subseteq strays'
  BY <1>0, StraysStep DEF Recognition
<1>1. CASE act'[w] = NoAct
  BY <1>1 DEF WorkersKnow, WantsCurrent, NoAct, Act, Publishing
<1>2. CASE act'[w] = act[w]
  <2>1. src'.rev = src.rev
    BY <1>0, CurrentUnsettled, RevisionIsStill
  <2>2. act[w].at \in Publishing =>
           dep'[act[w].target] = dep[act[w].target]
    <3> SUFFICES ASSUME act[w].at \in Publishing
                 PROVE  dep'[act[w].target] = dep[act[w].target]
      OBVIOUS
    <3>1. act[w].target \in Assignments
      BY <1>0, ActTypes DEF Equipped
    <3>2. WorksFor(w, act[w].target)
      BY <1>0 DEF TargetsStay, WorksFor
    <3> QED
      BY <1>0, <3>1, <3>2, Undisturbed
  <2>3. act[w].at \in {"sweep", "removed"} => Row(w) \in Assignments
    BY <1>0, CurrentRow DEF TargetsStay, Fence, SyncStep, CreateStep, DeleteStep
  <2>4. act[w].at = "sweep" => dep'[Row(w)] = dep[Row(w)]
    BY <1>0, <2>3, Undisturbed DEF WorksFor
  <2>5. ASSUME act[w].at = "removed", NEW t \in Templates, Own(t)',
               remote'[t].on = Row(w)
        PROVE  FALSE
    <3>1. /\ remote'[t].status = "present" /\ remote'[t].by = "manager"
          /\ t \notin strays
      BY <1>a, <2>5 DEF Own, Made
    <3>2. CASE /\ remote[t].status = "present" /\ remote'[t].on = remote[t].on
               /\ remote'[t].by = remote[t].by
      BY <1>0, <2>5, <3>1, <3>2 DEF WorkersKnow, Own, Made
    <3>3. ASSUME NEW v \in Workers, CreateRemote(v, t),
                 remote'[t] = Remote(act[v].target, "manager", act[v].version,
                                     "present")
          PROVE  FALSE
      <4>1. Current(v) /\ act[v].at = "importing"
        BY <3>3 DEF CreateRemote, Imported, Working, Current
      <4>2. act[v].target = Row(w)
        BY <2>5, <3>3 DEF Remote
      <4>3. WorksFor(v, Row(w))
        BY <4>1, <4>2, PublicationFacts DEF TargetsStay, WorksFor, Publishing
      <4>4. v = w
        BY <1>0, <2>3, <2>5, <4>1, <4>3 DEF Apart, WorksFor
      <4> QED
        BY <2>5, <4>1, <4>4
    <3> QED
      BY <1>0, <3>1, <3>2, <3>3, Newcomers
  <2>6. WantsCurrent(w)'
    BY <1>0, <1>2, <2>1 DEF WorkersKnow, WantsCurrent
  <2> QED
    BY <1>0, <1>2, <2>2, <2>4, <2>5, <2>6 DEF WorkersKnow, Publishing
<1> QED
  BY <1>0, <1>1, <1>2, ActsMove DEF Moves, Removal

\* The same for the steps of the worker itself.
LEMMA KnowledgeMoves ==
    ASSUME Kept, PublicationInv, Recognition,
           [TNext]_tvars, NEW w \in Workers, GoesOn(w), Moves(w)
    PROVE  WorkersKnow(w)'
<1>0. /\ Fence /\ Typed /\ Columns /\ ActsAreTyped /\ NothingForeign
      /\ Current(w) /\ WorkersKnow(w) /\ TargetsStay(w) /\ TemplatesAreKnown
      /\ claims'[w] = claims[w] /\ Row(w)' = Row(w)
  BY PublicationFacts DEF GoesOn, Recognition
<1>1. src'.rev = src.rev /\ strays \subseteq strays'
  BY <1>0, CurrentUnsettled, RevisionIsStill, StraysStep DEF Recognition
<1>2. /\ act[w].at \in Publishing => act[w].target \in Assignments
      /\ act[w].at \in Publishing \cup {"targets"} => act[w].want.rev = src.rev
      /\ act[w].at \in {"located", "uploaded"} =>
            dep[act[w].target].version = NoVersion
      /\ (act[w].at = "importing" /\ act[w].template = NoTemplate) =>
            dep[act[w].target].version = act[w].version
      /\ (act[w].at \in Publishing \cup {"targets"} /\ claims[w].step = CreateStep) =>
            Row(w) \in act[w].targets
  BY <1>0, ActTypes DEF WorkersKnow, WantsCurrent, Equipped
<1> SUFFICES ASSUME NEW at, NEW targets, NEW want, NEW b, NEW t, NEW v, NEW r,
                    at = act'[w].at, targets = act'[w].targets,
                    want = act'[w].want, b = act'[w].target,
                    t = act'[w].template, v = act'[w].version, r = Row(w)
             PROVE  /\ at \in Publishing \cup {"targets"} => want.rev = src.rev
                    /\ at \in {"located", "uploaded"} => dep'[b].version = NoVersion
                    /\ (at = "importing" /\ t = NoTemplate) => dep'[b].version = v
                    /\ (at \in Publishing \cup {"targets"} /\ claims[w].step = CreateStep)
                          => r \in targets
                    /\ at = "sweep" => t = dep'[r].template
                    /\ at = "removed" => \A x \in Templates : Own(x)' => remote'[x].on # r
  BY <1>0, <1>1 DEF WorkersKnow, WantsCurrent
<1> DEFINE Goal ==
      /\ at \in Publishing \cup {"targets"} => want.rev = src.rev
      /\ at \in {"located", "uploaded"} => dep'[b].version = NoVersion
      /\ (at = "importing" /\ t = NoTemplate) => dep'[b].version = v
      /\ (at \in Publishing \cup {"targets"} /\ claims[w].step = CreateStep)
            => r \in targets
      /\ at = "sweep" => t = dep'[r].template
      /\ at = "removed" => \A x \in Templates : Own(x)' => remote'[x].on # r
<1>3. ASSUME NEW x, NEW all, NEW todo, NEW s, NEW failed, NEW c, NEW y, NEW z,
             Goto(w, Act(x, all, todo, s, failed, c, y, z))
      PROVE  at = x /\ targets = all /\ want = s /\ b = c /\ t = y /\ v = z
  BY <1>0, <1>3, GoesTo DEF Act
<1>4. ASSUME NEW x, NEW y, NEW z, Within(w, x, y, z)
      PROVE  /\ at = x /\ targets = act[w].targets /\ want = act[w].want
             /\ b = act[w].target /\ t = y /\ v = z
  BY <1>3, <1>4 DEF Within
<1>5. ASSUME NEW c, NEW failed, NextTarget(w, c, failed)
      PROVE  at = "targets" /\ targets = act[w].targets /\ want = act[w].want
  BY <1>3, <1>5 DEF NextTarget
<1>6. ASSUME at \in {"targets", "prepared", "created", "published"},
             targets = act[w].targets, want = act[w].want,
             act[w].at \in Publishing \cup {"targets"}
      PROVE  Goal
  BY <1>2, <1>6 DEF Publishing
<1>7. ASSUME Begin(w)
      PROVE  Goal
  <2>1. PICK s : /\ Goto(w, Act("targets", s, s, src, FALSE, NoResource, NoTemplate,
                                NoVersion))
                 /\ claims[w].step # SyncStep => s = {Row(w)}
    BY <1>7 DEF Begin, Row
  <2>2. at = "targets" /\ targets = s /\ want = src
    BY <1>3, <2>1
  <2>3. CreateStep # SyncStep
    BY DEF CreateStep, SyncStep
  <2> QED
    BY <2>1, <2>2, <2>3
<1>8. ASSUME NEW c \in Assignments,
             RefuseTarget(w, c) \/ SkipTarget(w, c) \/ Prepare(w, c)
      PROVE  Goal
  <2>1. act[w].at = "targets"
    BY <1>8 DEF RefuseTarget, SkipTarget, Prepare, Working
  <2>2. at \in {"targets", "prepared"} /\ targets = act[w].targets
        /\ want = act[w].want
    <3>1. CASE RefuseTarget(w, c) \/ SkipTarget(w, c)
      BY <1>5, <3>1 DEF RefuseTarget, SkipTarget
    <3>2. CASE Prepare(w, c)
      BY <1>3, <3>2 DEF Prepare
    <3> QED
      BY <1>8, <3>1, <3>2
  <2> HIDE DEF Goal
  <2> QED
    BY <1>6, <2>1, <2>2
<1>9. ASSUME Locate(w)
      PROVE  Goal
  <2>1. /\ act[w].at = "prepared" /\ b = act[w].target /\ b \in Assignments
        /\ targets = act[w].targets /\ want = act[w].want
        /\ at \in {"located", "importing"}
        /\ at = "located" => v = NoVersion
        /\ v \in KnownVersions(b, t, want)
    BY <1>0, <1>9, Locates
  <2>2. dep'[b].version = dep[b].version
    <3>1. PICK y : \E z : SetDeployment(b, Deployment(dep[b].status, dep[b].target,
               dep[b].applied, IF y = NoTemplate THEN dep[b].template ELSE y,
               dep[b].version))
      BY <1>9, <2>1, ZenonT(60) DEF Locate
    <3>2. dep'[b] = Deployment(dep[b].status, dep[b].target,
               dep[b].applied, IF y = NoTemplate THEN dep[b].template ELSE y,
               dep[b].version)
      BY <1>0, <2>1, <3>1 DEF SetDeployment, Columns
    <3> QED
      BY <3>2 DEF Deployment
  <2>3. v = NoVersion \/ t = NoTemplate => v = dep[b].version
    BY <2>1 DEF KnownVersions
  <2> QED
    BY <1>2, <2>1, <2>2, <2>3 DEF Publishing
<1>10. ASSUME NEW z \in NewVersions, CreateVersion(w, z)
       PROVE  Goal
  <2>1. /\ act[w].at = "located" /\ dep' = dep /\ at = "uploaded"
        /\ targets = act[w].targets /\ want = act[w].want /\ b = act[w].target
    BY <1>4, <1>10 DEF CreateVersion, Working
  <2> QED
    BY <1>2, <2>1 DEF Publishing
<1>11. ASSUME StoreVersion(w)
       PROVE  Goal
  <2>1. /\ act[w].at = "uploaded" /\ at = "importing"
        /\ targets = act[w].targets /\ want = act[w].want
        /\ b = act[w].target /\ b \in Assignments /\ v = act[w].version
    BY <1>2, <1>4, <1>11 DEF StoreVersion, Working, Publishing
  <2>2. dep'[b] = Deployment(dep[b].status, dep[b].target, dep[b].applied,
                             dep[b].template, act[w].version)
    BY <1>0, <1>11, <2>1 DEF StoreVersion, SetDeployment, Columns
  <2>3. dep'[b].version = v
    BY <2>1, <2>2 DEF Deployment
  <2> QED
    BY <1>2, <2>1, <2>3 DEF Publishing
<1>12. ASSUME \/ \E y \in NewTemplates : CreateRemote(w, y)
              \/ StoreTemplate(w) \/ Activate(w)
       PROVE  Goal
  <2>1. act[w].at \in {"importing", "created"}
    BY <1>12 DEF CreateRemote, StoreTemplate, Activate, Imported, Working
  <2>2. \E x, y, z : x \in {"created", "published"} /\ Within(w, x, y, z)
    BY <1>12 DEF CreateRemote, StoreTemplate, Activate
  <2>3. /\ at \in {"created", "published"} /\ targets = act[w].targets
        /\ want = act[w].want
    BY <1>4, <2>2
  <2> HIDE DEF Goal
  <2> QED
    BY <1>6, <2>1, <2>3 DEF Publishing
<1>13. ASSUME FinishTarget(w) \/ FailTarget(w)
       PROVE  Goal
  <2>1. act[w].at \in Publishing
    <3>1. act[w].at = "published" \/ act[w].target # NoResource
      BY <1>13 DEF FinishTarget, FailTarget, Working
    <3> QED
      BY <1>0, <3>1, ActTypes DEF Equipped, Publishing
  <2>2. at = "targets" /\ targets = act[w].targets /\ want = act[w].want
    BY <1>5, <1>13 DEF FinishTarget, FailTarget
  <2> HIDE DEF Goal
  <2> QED
    BY <1>6, <2>1, <2>2
<1>14. ASSUME BeginRemoval(w)
       PROVE  Goal
  <2>1. Goto(w, Act("sweep", {}, {}, NoSource, FALSE, NoResource,
                    dep[Row(w)].template, NoVersion)) /\ dep' = dep
    BY <1>14 DEF BeginRemoval, Row
  <2>2. act'[w] = Act("sweep", {}, {}, NoSource, FALSE, NoResource,
                      dep[Row(w)].template, NoVersion)
    BY <1>0, <2>1, GoesTo
  <2>3. at = "sweep" /\ t = dep[Row(w)].template
    BY <2>2 DEF Act
  <2> QED
    BY <2>1, <2>3 DEF Publishing
<1>15. ASSUME DeleteRemote(w)
       PROVE  Goal
  <2>1. act[w].at = "sweep" /\ at = "removed"
    BY <1>3, <1>15 DEF DeleteRemote, Working
  <2>2. act[w].template = dep[r].template /\ claims[w].step = DeleteStep
    BY <1>0, <2>1 DEF WorkersKnow, TargetsStay
  <2>3. resources[r].action = "deleting"
    BY <1>0, <2>2, CurrentRow DEF Fence, SyncStep, CreateStep, DeleteStep
  <2>4. ASSUME NEW x \in Templates, Own(x)', remote'[x].on = r
        PROVE  FALSE
    <3>1. remote'[x] = IF x = act[w].template /\ remote[x].status = "present"
                       THEN Remote(remote[x].on, remote[x].by, remote[x].active,
                                   "gone")
                       ELSE remote[x]
      BY <1>15 DEF DeleteRemote
    <3>2. Remote(remote[x].on, remote[x].by, remote[x].active, "gone").status = "gone"
      BY DEF Remote
    <3>3. /\ remote'[x].status = "present" /\ remote'[x].by = "manager"
          /\ x \notin strays
      BY <1>1, <2>4 DEF Own, Made
    <3>4. remote'[x] = remote[x]
      BY <3>1, <3>2, <3>3
    <3>5. Own(x) /\ remote[x].on = r
      BY <2>4, <3>3, <3>4 DEF Own, Made
    <3>6. dep[r].template = x
      BY <1>0, <2>3, <3>5 DEF TemplatesAreKnown, ByVersion
    <3> QED
      BY <2>2, <3>1, <3>2, <3>3, <3>5, <3>6 DEF Own, Made
  <2> QED
    BY <2>1, <2>4 DEF Publishing
<1>16. ASSUME RemoveLocal(w)
       PROVE  Goal
  <2>1. at = "begin"
    BY <1>3, <1>16 DEF RemoveLocal, NoAct
  <2> QED
    BY <2>1 DEF Publishing
<1> HIDE DEF Goal
<1>17. Goal
  BY <1>7, <1>8, <1>9, <1>10, <1>11, <1>12, <1>13, <1>14, <1>15, <1>16
     DEF Moves, Publish, Removal
<1> QED
  BY <1>17 DEF Goal

\* Every template of the manager that was not forgotten is known.
LEMMA RecognitionInvariant == TSpec => []Recognition
<1>1. TInit => Recognition
  <2> SUFFICES ASSUME TInit
               PROVE  Recognition
    OBVIOUS
  <2>1. \A w \in Workers : ~Current(w)
    BY DEF TInit, Current
  <2>2. \A t \in Templates : remote[t].status = "unused"
    BY DEF TInit, NoRemote, Remote
  <2>3. \A a \in Assignments : resources[a].status = "absent"
    BY DEF TInit, AbsentResource
  <2> QED
    BY <2>1, <2>2, <2>3 DEF Recognition, NamesAreUnique, TemplatesAreKnown, Own,
                            Made, RestingHaveTemplates, StraysAreMade, TInit
<1>2. Kept /\ Kept' /\ PublicationInv /\ Recognition /\ [TNext]_tvars
        => Recognition'
  <2> SUFFICES ASSUME Kept, Kept', PublicationInv, Recognition, [TNext]_tvars
               PROVE  Recognition'
    OBVIOUS
  <2>1. ASSUME NEW w \in Workers, Current(w)'
        PROVE  WorkersKnow(w)'
    <3>1. CASE GoesOn(w)
      BY <3>1, KnowledgeStays, KnowledgeMoves
    <3>2. CASE Begins(w)
      <4>1. act'[w] = NoAct
        BY <3>2, GoesTo, PublicationFacts DEF Begins, TClaim
      <4> QED
        BY <4>1 DEF WorkersKnow, WantsCurrent, NoAct, Act, Publishing
    <3> QED
      BY <2>1, <3>1, <3>2, CurrentStep DEF Kept
  <2>2. NamesAreUnique'
    BY UniqueStep, PublicationFacts DEF Recognition
  <2>3. StraysAreMade'
    BY StraysStep, PublicationFacts DEF Recognition
  <2> QED
    BY <2>1, <2>2, <2>3, KnownStep, RestingStep DEF Recognition
<1> QED
  BY <1>1, <1>2, PublicationInvariant, PTL DEF TSpec

\* Every template the manager made on an instance belongs to an assignment
\* that the next attempt recognises as its own, wherever its maker crashed or
\* failed: the version's identifier is stored before create_template, and
\* _managed_remote_template finds the template by it, until a push of another
\* commit makes _prepare_deployment drop it.
THEOREM OwnTemplatesCorrect == TSpec => []OwnTemplatesAreRecognised
<1>1. Recognition => OwnTemplatesAreRecognised
  BY DEF Recognition, TemplatesAreKnown, Own, Made, ByVersion, Recovered, Named,
         OwnTemplatesAreRecognised, Recognised
<1> QED
  BY <1>1, RecognitionInvariant, PTL
=============================================================================
