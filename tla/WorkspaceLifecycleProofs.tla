----------------------- MODULE WorkspaceLifecycleProofs -----------------------
(***************************************************************************)
(* Safety of the life cycle of workspaces, for every set of rows, names,   *)
(* parameters and remote workspaces, every number of requests, workers,    *)
(* attempts and faults, and with the deletion of the instance around them. *)
(* A row is worked on by one worker at a time, so what that worker sees of *)
(* the remote workspaces of its row stays true until it acts on it, and    *)
(* what it leaves behind is found again by the next one.                   *)
(***************************************************************************)
EXTENDS WorkspaceLifecycle, JobExecutionProofs

USE DisturbancesAssumption, NullAssumption, WorkflowAssumption,
    WorkspaceAssumption

\* Worker w owns its job.
Current(w) == claims[w] # NoClaim /\ Owns(w, claims[w].job)

\* A row or a job that is not done yet.
Unsettled == {"pending", "running", "error"}

\* Every stored job is one of the three workspace operations.
JobIsPlaced(j) ==
    /\ jobs[j].resource \in Resources
    /\ \/ jobs[j].name = "workspace.create" /\ jobs[j].step = CreateStep
       \/ jobs[j].name = "workspace.update" /\ jobs[j].step = UpdateStep
       \/ jobs[j].name = "workspace.delete" /\ jobs[j].step = DeleteStep

JobsArePlaced == \A j \in Jobs : jobs[j].status # "absent" => JobIsPlaced(j)

\* The engine's own invariants, until the rows are deleted under their jobs.
Fence == TypeOK /\ Fenced /\ JobsArePlaced

-----------------------------------------------------------------------------
\* Remote workspace x was made for row r.
Of(x, r) == coder[x].status # "unused" /\ coder[x].row = r

\* Every remote workspace was made for some row, and the transition of its build
\* agrees with the status; until Coder itself goes, only deletion removes one.
RemoteIsTrue(x) ==
    /\ coder[x].status # "unused" => coder[x].row \in Resources
    /\ coder[x].status = "deleting" => coder[x].transition = "delete"
    /\ coder[x].transition = "delete" =>
          coder[x].status \in {"deleting", "failed", "gone"}
    /\ (coder[x].status = "gone" /\ inst \notin {"removed", "gone"}) =>
          coder[x].transition = "delete"

RemotesAreTrue == \A x \in Remotes : RemoteIsTrue(x)

\* Coder is gone with all its workspaces, and then the rows with it.
NothingOutlives ==
    /\ inst \in {"removed", "gone"} => \A x \in Remotes : ~Present(x)
    /\ inst = "gone" =>
          \A r \in Resources : ~RowPresent(r) /\ rows[r].remote = NoRemote

\* No two rows have the same name.
NamesAreUnique ==
    \A q, r \in Resources :
        (rows[q].name = rows[r].name /\ rows[q].name # NoName) => q = r

\* The remote workspace of r carries the name of the row; after a rename it may
\* still carry an older one, but then the row has its identifier.
Follows(x, r) ==
    \/ coder[x].name = rows[r].name
    \/ rows[r].remote = x /\ resources[r].action # "creating"

\* No remote workspace has the name of a row other than its own.
NoStrangers ==
    \A r \in Resources, x \in Remotes :
        (RowPresent(r) /\ Present(x) /\ coder[x].name = rows[r].name) =>
            coder[x].row = r

\* A row whose parameters are applied knows the only workspace it has.
Applied(r) ==
    /\ rows[r].remote # NoRemote
    /\ coder[rows[r].remote].params = rows[r].params
    /\ \A x \in Remotes : (Of(x, r) /\ Present(x)) => rows[r].remote = x

\* What holds between row r and the remote workspaces made for it.
RowIsTrue(r) ==
    /\ \A x \in Remotes : (Of(x, r) /\ Present(x)) => RowPresent(r) /\ Follows(x, r)
    /\ \A x, y \in Remotes :
          (Of(x, r) /\ Present(x) /\ Of(y, r) /\ Present(y)) => x = y
    /\ rows[r].remote # NoRemote => Of(rows[r].remote, r)
    /\ (RowPresent(r) /\ ~rows[r].dirty) => Applied(r)
    /\ resources[r].status = "success" =>
          ~rows[r].dirty /\ coder[rows[r].remote].name = rows[r].name
    /\ (resources[r].action = "creating" /\ resources[r].status \in Unsettled) =>
          /\ rows[r].dirty
          /\ \A x \in Remotes :
                (Of(x, r) /\ Present(x)) => coder[x].params = rows[r].params

RowsAreTrue == \A r \in Resources : RowIsTrue(r)

\* The points of a step at which a worker has a remote workspace.
Placed == {"found", "submitted", "stored"}

\* What worker w, the owner of row r, knows at each point of its step.
Knows(w, r) ==
    LET a == act[w]
        x == act[w].remote
    IN  /\ a.at = "missing" => \A y \in Remotes : Of(y, r) => ~Present(y)
        /\ a.at \in Placed =>
              /\ x \in Remotes
              /\ Of(x, r)
              /\ \A y \in Remotes : (Of(y, r) /\ Present(y)) => y = x
              /\ ~rows[r].dirty => rows[r].remote = x
        /\ a.at = "found" =>
              /\ a.seen.name = coder[x].name
              /\ a.seen.params = coder[x].params
              /\ claims[w].step = CreateStep =>
                    coder[x].name = rows[r].name /\ coder[x].params = rows[r].params
        /\ (a.at \in {"submitted", "stored"} /\ claims[w].step # DeleteStep) =>
              /\ coder[x].name = rows[r].name
              /\ coder[x].params = rows[r].params

\* A worker that waits for a delete build, its own or the one it found, hears of
\* its end only when the remote workspace is gone.
AwaitsDeletion(w) ==
    \/ /\ act[w].at = "found"
       /\ act[w].seen.transition = "delete" /\ act[w].seen.status # "failed"
    \/ act[w].at \in {"submitted", "stored"} /\ claims[w].step = DeleteStep

Hears(w) ==
    AwaitsDeletion(w) =>
        /\ act[w].build = "active" =>
              coder[act[w].remote].status \in {"deleting", "gone"}
        /\ act[w].build = "done" => coder[act[w].remote].status = "gone"

\* Worker w owns row r.
WorksOn(w, r) == Current(w) /\ Mine(w) = r

WorkersKnow ==
    \A w \in Workers, r \in Resources : WorksOn(w, r) => Knows(w, r) /\ Hears(w)

\* The part of the inductive invariant that names have no part in ...
GroundInv ==
    /\ TypeOK /\ JobsArePlaced /\ WTypeOK
    /\ RemotesAreTrue /\ NothingOutlives
    /\ inst # "gone" => Fenced

\* ... and the whole, as long as no request misnames.
WorkspaceInv ==
    /\ GroundInv
    /\ (inst # "gone" /\ ~misnamed) =>
          NamesAreUnique /\ NoStrangers /\ RowsAreTrue /\ WorkersKnow

-----------------------------------------------------------------------------
(***************************************************************************)
(* The engine below: its types hold here as well, and its fence until the  *)
(* deletion of the instance removes the rows.                              *)
(***************************************************************************)

\* What the three requests start.
LEMMA WorkspaceRequests ==
    ASSUME NEW t \in Transitions
    PROVE  /\ t.name \in DOMAIN RESOURCE_ACTIONS
           /\ t.first \in Steps
           /\ t.status # "none"
           /\ \/ /\ t.name = "workspace.create"
                 /\ t.status = "absent"
                 /\ t.first = CreateStep
                 /\ RESOURCE_ACTIONS[t.name] = "creating"
              \/ /\ t.name = "workspace.update"
                 /\ t.status \in {"success", "error"}
                 /\ t.first = UpdateStep
                 /\ RESOURCE_ACTIONS[t.name] = "updating"
              \/ /\ t.name = "workspace.delete"
                 /\ t.status \in {"success", "error"}
                 /\ t.first = DeleteStep
                 /\ RESOURCE_ACTIONS[t.name] = "deleting"
<1>1. /\ RESOURCE_ACTIONS["workspace.create"] = "creating"
      /\ RESOURCE_ACTIONS["workspace.update"] = "updating"
      /\ RESOURCE_ACTIONS["workspace.delete"] = "deleting"
  BY DEF RESOURCE_ACTIONS
<1>2. t \in WorkspaceTransitions
  BY WorkspaceTables
<1>3. CASE t = [name |-> "workspace.create", action |-> "creating",
                status |-> "absent", first |-> "step_01_create_workspace"]
  <2>1. /\ t.name = "workspace.create"
        /\ t.status = "absent"
        /\ t.first = "step_01_create_workspace"
    BY <1>3
  <2>2. t.name \in DOMAIN RESOURCE_ACTIONS /\ t.first \in Steps
    BY <2>1
  <2> QED
    BY <1>1, <2>1, <2>2 DEF CreateStep
<1>4. ASSUME NEW a \in {"creating", "updating", "deleting"},
             NEW s \in {"success", "error"},
             NEW n \in {<<"workspace.update", "step_01_update_workspace">>,
                        <<"workspace.delete", "step_01_delete_workspace">>},
             t = [name |-> n[1], action |-> a, status |-> s, first |-> n[2]]
      PROVE  /\ t.status \in {"success", "error"}
             /\ \/ t.name = "workspace.update" /\ t.first = UpdateStep
                \/ t.name = "workspace.delete" /\ t.first = DeleteStep
             /\ t.name \in DOMAIN RESOURCE_ACTIONS /\ t.first \in Steps
  BY <1>4 DEF UpdateStep, DeleteStep
<1>5. \/ t = [name |-> "workspace.create", action |-> "creating",
              status |-> "absent", first |-> "step_01_create_workspace"]
      \/ \E a \in {"creating", "updating", "deleting"},
            s \in {"success", "error"},
            n \in {<<"workspace.update", "step_01_update_workspace">>,
                   <<"workspace.delete", "step_01_delete_workspace">>} :
               t = [name |-> n[1], action |-> a, status |-> s, first |-> n[2]]
  BY <1>2 DEF WorkspaceTransitions
<1> QED
  BY <1>1, <1>3, <1>4, <1>5

\* Somebody else disturbs.
Tick == /\ UNCHANGED <<jobs, resources, queue, claims, scans>>
        /\ disturbances' \in Nat

\* A step of the broker, of time or of the recovery scan.
EngineStep ==
    \/ \E m \in queue : Engine(IgnoreDelivery(m)) \/ Engine(Lose(m))
    \/ \E j \in Jobs : Engine(Expire(j))
    \/ \E s \in Scanners : Engine(ScanStart(s)) \/ Engine(ScanEnd(s))
    \/ \E s \in Scanners, j \in Jobs : Engine(ScanJob(s, j))

\* A request commits a row and its job.
RequestStep ==
    \/ \E j \in NewIds, r \in Resources, n \in Names, v \in Values :
          CreateWorkspace(j, r, n, v) \/ UpdateWorkspace(j, r, n, v)
    \/ \E j \in NewIds, r \in Resources : DeleteWorkspace(j, r)

\* A step of the deletion of the instance that leaves the rows.
InstanceStep == DeleteInstance \/ SweepDone \/ RemoveApplication

\* Every step is one of these.
LEMMA Cases ==
    ASSUME [WNext]_wvars
    PROVE  \/ RequestStep
           \/ \E w \in Workers, m \in queue : WClaim(w, m)
           \/ \E w \in Workers : WorkerStep(w)
           \/ \E w \in Workers : Settle(w) \/ Remove(w)
           \/ \E w \in Workers : FailBuild(w) \/ WStop(w)
           \/ \E x \in Remotes : Environment(x)
           \/ InstanceStep
           \/ RemoveRows
           \/ EngineStep
           \/ UNCHANGED wvars
BY DEF WNext, RequestStep, InstanceStep, EngineStep

\* What a worker does inside its step leaves the engine alone.
LEMMA WorkerStepVars ==
    ASSUME NEW w \in Workers, WorkerStep(w)
    PROVE  UNCHANGED vars /\ inst' = inst /\ Current(w)
           /\ inst \notin {"removed", "gone"}
BY DEF WorkerStep, Look, Rename, Reuse, Submit, Store, CreateRemote, Standing,
       Current

\* So do the other systems, the bound on their failures aside.
LEMMA EnvironmentVars ==
    ASSUME TypeOK, NEW x \in Remotes, Environment(x)
    PROVE  Tick /\ rows' = rows /\ inst' = inst
BY DEF Environment, BuildDone, BuildFailed, StopByOwner, SweepWorkspace,
       FinishBuild, Disturb, Tick, TypeOK, vars

\* A step is one of the engine, or one of these.
LEMMA WorkspaceStep ==
    ASSUME TypeOK, [WNext]_wvars
    PROVE  \/ [Next]_vars
           \/ \E w \in Workers : FailBuild(w)
           \/ Tick
           \/ RemoveRows
<1>1. NewIds \subseteq Jobs
  BY DEF NewIds, Draw
<1>2. RequestStep => Next
  BY <1>1 DEF RequestStep, CreateWorkspace, UpdateWorkspace, DeleteWorkspace, Next
<1>3. ASSUME NEW w \in Workers, NEW m \in queue, WClaim(w, m)
      PROVE  Next
  BY <1>3 DEF WClaim, Next
<1>4. ASSUME NEW w \in Workers, Settle(w) \/ Remove(w) \/ WStop(w)
      PROVE  Next
  BY <1>4 DEF Settle, Remove, WStop, Next
<1>5. EngineStep => Next
  BY DEF EngineStep, Engine, Next
<1>6. InstanceStep \/ UNCHANGED wvars => UNCHANGED vars
  BY DEF InstanceStep, DeleteInstance, SweepDone, RemoveApplication, wvars
<1> QED
  BY <1>2, <1>3, <1>4, <1>5, <1>6, Cases, WorkerStepVars, EnvironmentVars

\* Somebody claims job j.
Claimed(j) == \E w \in Workers, m \in queue : WClaim(w, m) /\ m[1] = j

\* A job keeps its operation, its row and its step; only a claim makes it run.
JobMoves(j) ==
    /\ jobs'[j].status # "absent" =>
          \/ /\ jobs[j].status # "absent"
             /\ jobs'[j].name = jobs[j].name
             /\ jobs'[j].resource = jobs[j].resource
             /\ jobs'[j].step = jobs[j].step
          \/ jobs[j].status = "absent" /\ JobIsPlaced(j)'
    /\ jobs'[j].status = "running" =>
          \/ jobs[j].status = "running" /\ jobs'[j].attempt = jobs[j].attempt
          \/ Claimed(j)

\* The owner of a job finds it running, on a row that it still matches.
LEMMA CurrentJob ==
    ASSUME TypeOK, NEW w \in Workers, Current(w)
    PROVE  /\ claims[w].job \in Jobs
           /\ claims[w].step \in Steps
           /\ jobs[claims[w].job].status = "running"
           /\ claims[w].step = jobs[claims[w].job].step
           /\ ResourceMatches(claims[w].job, jobs[claims[w].job],
                              ResourceOf(jobs[claims[w].job]))
BY DEF Current, Owns, Owned, TypeOK, Claims

\* No step of the workspaces changes what a job is about.
LEMMA JobsMove ==
    ASSUME TypeOK, [WNext]_wvars, NEW j \in Jobs
    PROVE  JobMoves(j)
<1>1. jobs' = jobs => JobMoves(j)
  BY DEF JobMoves
<1>2. ASSUME NEW k \in Jobs, NEW status, NEW claimed, jobs[k].status # "absent",
             status # "running",
             jobs' = [jobs EXCEPT ![k] = JobWith(jobs[k], jobs[k].step, status,
                                                 jobs[k].attempt, claimed)]
      PROVE  JobMoves(j)
  <2>1. jobs'[j] = IF j = k THEN JobWith(jobs[k], jobs[k].step, status,
                                         jobs[k].attempt, claimed)
                   ELSE jobs[j]
    BY <1>2 DEF TypeOK
  <2> QED
    BY <1>2, <2>1 DEF JobMoves, JobWith
<1>3. ASSUME NEW k \in Jobs, NEW t \in Transitions, NEW r \in Resources,
             Request(k, r, t)
      PROVE  JobMoves(j)
  <2>1. jobs' = [jobs EXCEPT ![k] = NewJob(t.name, r, t.first)]
        /\ jobs[k].status = "absent"
    BY <1>3 DEF Request
  <2>2. CASE j # k
    BY <2>1, <2>2 DEF TypeOK, JobMoves
  <2>3. CASE j = k
    <3>1. jobs'[j] = NewJob(t.name, r, t.first)
      BY <2>1, <2>3 DEF TypeOK
    <3>2. JobIsPlaced(j)'
      BY <3>1, WorkspaceRequests DEF NewJob, JobIsPlaced
    <3> QED
      BY <2>1, <2>3, <3>1, <3>2 DEF JobMoves, NewJob
  <2> QED
    BY <2>2, <2>3
<1>4. NewIds \subseteq Jobs
  BY DEF NewIds, Draw
<1>5. ASSUME RequestStep
      PROVE  JobMoves(j)
  BY <1>3, <1>4, <1>5
     DEF RequestStep, CreateWorkspace, UpdateWorkspace, DeleteWorkspace
<1>6. ASSUME NEW w \in Workers, NEW m \in queue, WClaim(w, m)
      PROVE  JobMoves(j)
  <2>1. /\ m[1] \in Jobs /\ jobs[m[1]].status # "absent"
        /\ jobs' = [jobs EXCEPT ![m[1]] = ClaimedJob(jobs[m[1]])]
    BY <1>6 DEF WClaim, Claim, Claimable, TypeOK
  <2>2. CASE j # m[1]
    BY <2>1, <2>2 DEF TypeOK, JobMoves
  <2>3. CASE j = m[1]
    <3>1. jobs'[j] = ClaimedJob(jobs[j])
      BY <2>1, <2>3 DEF TypeOK
    <3>2. Claimed(j)
      BY <1>6, <2>3 DEF Claimed
    <3> QED
      BY <2>1, <2>3, <3>1, <3>2 DEF JobMoves, ClaimedJob, JobWith
  <2> QED
    BY <2>2, <2>3
<1>7. ASSUME NEW w \in Workers, Complete(w)
      PROVE  JobMoves(j)
  <2>1. Current(w)
    BY <1>7 DEF Complete, Current
  <2> QED
    BY <1>2, <1>7, <2>1, CurrentJob DEF Complete, CompletedJob
<1>8. ASSUME NEW w \in Workers, Fail(w) \/ FailBuild(w)
      PROVE  JobMoves(j)
  <2>1. /\ Current(w)
        /\ jobs' = [jobs EXCEPT ![claims[w].job] = FailedJob(jobs[claims[w].job])]
    BY <1>8 DEF Fail, Finish, FailBuild, Standing, Current
  <2> QED
    BY <1>2, <2>1, CurrentJob DEF FailedJob
<1>9. ASSUME NEW k \in Jobs, Expire(k)
      PROVE  JobMoves(j)
  <2>1. jobs'[j] = IF j = k THEN ExpiredJob(jobs[j]) ELSE jobs[j]
    BY <1>9 DEF Expire, TypeOK
  <2> QED
    BY <2>1 DEF JobMoves, ExpiredJob, JobWith
<1>10. ASSUME NEW s \in Scanners, NEW k \in Jobs, ScanJob(s, k)
       PROVE  JobMoves(j)
  <2>1. \/ jobs' = jobs
        \/ jobs'[j] = IF j = k THEN ReclaimedJob(jobs[j]) ELSE jobs[j]
    BY <1>10 DEF ScanJob, TypeOK
  <2>2. CASE jobs'[j] = IF j = k THEN ReclaimedJob(jobs[j]) ELSE jobs[j]
    <3>1. CASE j = k /\ jobs[j].status = "running"
      <4>1. jobs'[j] = JobWith(jobs[j], jobs[j].step, "pending",
                               jobs[j].attempt, "none")
        BY <2>2, <3>1 DEF ReclaimedJob, DeferredJob
      <4> QED
        BY <3>1, <4>1 DEF JobMoves, JobWith
    <3>2. CASE ~(j = k /\ jobs[j].status = "running")
      BY <2>2, <3>2 DEF JobMoves, ReclaimedJob
    <3> QED
      BY <3>1, <3>2
  <2> QED
    BY <1>1, <2>1, <2>2
<1>11. ASSUME NEW w \in Workers, Settle(w) \/ Remove(w) \/ FailBuild(w) \/ WStop(w)
       PROVE  JobMoves(j)
  BY <1>1, <1>7, <1>8, <1>11 DEF Settle, Remove, WStop, Abandon, Crash
<1>12. ASSUME EngineStep
       PROVE  JobMoves(j)
  BY <1>1, <1>9, <1>10, <1>12
     DEF EngineStep, Engine, IgnoreDelivery, Lose, ScanStart, ScanEnd
<1>13. ASSUME \/ \E w \in Workers : WorkerStep(w)
              \/ \E x \in Remotes : Environment(x)
              \/ InstanceStep \/ RemoveRows \/ UNCHANGED wvars
       PROVE  jobs' = jobs
  BY <1>13, WorkerStepVars, EnvironmentVars
     DEF InstanceStep, DeleteInstance, SweepDone, RemoveApplication, RemoveRows,
         wvars, vars, Tick
<1> HIDE DEF JobMoves
<1> QED
  BY <1>1, <1>5, <1>6, <1>11, <1>12, <1>13, Cases

\* Every job is about what a request said.
LEMMA PlacedStep ==
    ASSUME TypeOK, JobsArePlaced, [WNext]_wvars
    PROVE  JobsArePlaced'
<1> SUFFICES ASSUME NEW j \in Jobs, jobs'[j].status # "absent"
             PROVE  JobIsPlaced(j)'
  BY DEF JobsArePlaced
<1>1. JobMoves(j)
  BY JobsMove
<1> QED
  BY <1>1 DEF JobMoves, JobsArePlaced, JobIsPlaced

\* The row of a placed job is there if the job matches it.
LEMMA PlacedMatch ==
    ASSUME TypeOK, JobsArePlaced, NEW j \in Jobs, jobs[j].status # "absent",
           ResourceMatches(j, jobs[j], ResourceOf(jobs[j]))
    PROVE  /\ jobs[j].resource \in Resources
           /\ ResourceOf(jobs[j]) = resources[jobs[j].resource]
           /\ resources[jobs[j].resource].status # "absent"
           /\ resources[jobs[j].resource].job = j
           /\ resources[jobs[j].resource].step = jobs[j].step
           /\ resources[jobs[j].resource].action = RESOURCE_ACTIONS[jobs[j].name]
<1>1. jobs[j].resource \in Resources /\ jobs[j].resource # NoResource
  BY DEF JobsArePlaced, JobIsPlaced
<1>2. ResourceOf(jobs[j]) = resources[jobs[j].resource]
  BY <1>1, SMTT(20) DEF ResourceOf
<1> QED
  BY <1>1, <1>2 DEF ResourceMatches

\* The owner of a job works on a row that is there, and knows its operation.
LEMMA CurrentPlace ==
    ASSUME TypeOK, JobsArePlaced, NEW w \in Workers, Current(w)
    PROVE  /\ Mine(w) \in Resources
           /\ RowPresent(Mine(w))
           /\ resources[Mine(w)].job = claims[w].job
           /\ resources[Mine(w)].step = claims[w].step
           /\ ResourceOf(jobs[claims[w].job]) = resources[Mine(w)]
           /\ \/ /\ claims[w].step = CreateStep
                 /\ resources[Mine(w)].action = "creating"
              \/ /\ claims[w].step = UpdateStep
                 /\ resources[Mine(w)].action = "updating"
              \/ /\ claims[w].step = DeleteStep
                 /\ resources[Mine(w)].action = "deleting"
<1> DEFINE j == claims[w].job
<1>1. /\ j \in Jobs
      /\ jobs[j].status = "running"
      /\ claims[w].step = jobs[j].step
      /\ ResourceMatches(j, jobs[j], ResourceOf(jobs[j]))
  BY CurrentJob
<1>2. JobIsPlaced(j)
  BY <1>1 DEF JobsArePlaced
<1>3. /\ jobs[j].resource \in Resources
      /\ ResourceOf(jobs[j]) = resources[jobs[j].resource]
      /\ resources[jobs[j].resource].status # "absent"
      /\ resources[jobs[j].resource].job = j
      /\ resources[jobs[j].resource].step = jobs[j].step
      /\ resources[jobs[j].resource].action = RESOURCE_ACTIONS[jobs[j].name]
  BY <1>1, PlacedMatch
<1>4. /\ RESOURCE_ACTIONS["workspace.create"] = "creating"
      /\ RESOURCE_ACTIONS["workspace.update"] = "updating"
      /\ RESOURCE_ACTIONS["workspace.delete"] = "deleting"
  BY DEF RESOURCE_ACTIONS
<1> QED
  BY <1>1, <1>2, <1>3, <1>4 DEF JobIsPlaced, Mine, RowPresent

\* With the fence it is running.
LEMMA CurrentRow ==
    ASSUME Fence, NEW w \in Workers, Current(w)
    PROVE  resources[Mine(w)].status = "running"
<1>1. /\ claims[w].job \in Jobs
      /\ jobs[claims[w].job].status = "running"
  BY CurrentJob DEF Fence
<1>2. /\ Mine(w) \in Resources
      /\ RowPresent(Mine(w))
      /\ resources[Mine(w)].job = claims[w].job
  BY CurrentPlace DEF Fence
<1> QED
  BY <1>1, <1>2 DEF Fence, Fenced, Linked, RowPresent

\* Two owners of one row are the same worker.
LEMMA OneWorker ==
    ASSUME Fence, NEW v \in Workers, NEW w \in Workers, Current(v), Current(w),
           Mine(v) = Mine(w)
    PROVE  v = w
<1>1. OneOwnerPerResource
  BY FencedOwners DEF Fence
<1>2. Mine(w) # NoResource
  BY CurrentPlace DEF Fence
<1> QED
  BY <1>1, <1>2 DEF OneOwnerPerResource, Current, Mine

-----------------------------------------------------------------------------
\* The row of r keeps its action, and rests or is in transition as before.
RowKept(r) ==
    /\ resources'[r].action = resources[r].action
    /\ \/ resources'[r].status = resources[r].status
       \/ resources[r].status \in Unsettled /\ resources'[r].status \in Unsettled

\* Claims, ends of attempts and the recovery scan settle nothing and start
\* nothing.
LEMMA EngineKeepsRows ==
    ASSUME Fence,
           \/ \E w \in Workers, m \in queue : WClaim(w, m)
           \/ \E w \in Workers : FailBuild(w) \/ WStop(w)
           \/ EngineStep
    PROVE  \A r \in Resources : RowKept(r)
<1> USE DEF Fence
<1>1. resources' = resources => \A r \in Resources : RowKept(r)
  BY DEF RowKept
<1>2. ASSUME NEW x, NEW step, NEW status, status \in Unsettled,
             x \in Resources => resources[x].status \in Unsettled,
             resources' = WithResource(x, ResourceWith(resources[x], step, status))
      PROVE  \A r \in Resources : RowKept(r)
  BY <1>2 DEF WithResource, ResourceWith, RowKept
<1>3. ASSUME NEW j \in Jobs, jobs[j].status \in Unsettled,
             ResourceMatches(j, jobs[j], ResourceOf(jobs[j]))
      PROVE  /\ jobs[j].resource \in Resources
             /\ ResourceOf(jobs[j]) = resources[jobs[j].resource]
             /\ resources[jobs[j].resource].status = jobs[j].status
  <2>1. jobs[j].status # "absent"
    BY <1>3 DEF Unsettled
  <2>2. /\ jobs[j].resource \in Resources
        /\ ResourceOf(jobs[j]) = resources[jobs[j].resource]
        /\ resources[jobs[j].resource].status # "absent"
        /\ resources[jobs[j].resource].job = j
    BY <1>3, <2>1, PlacedMatch
  <2> QED
    BY <2>2 DEF Fenced, Linked
<1>4. ASSUME NEW w \in Workers, NEW m \in queue, WClaim(w, m)
      PROVE  \A r \in Resources : RowKept(r)
  <2>1. /\ m[1] \in Jobs /\ jobs[m[1]].status \in {"pending", "error"}
        /\ ResourceMatches(m[1], jobs[m[1]], ResourceOf(jobs[m[1]]))
        /\ resources' = WithResource(jobs[m[1]].resource,
              ResourceWith(ResourceOf(jobs[m[1]]),
                           ResourceOf(jobs[m[1]]).step, "running"))
    BY <1>4 DEF WClaim, Claim, Claimable, TypeOK
  <2>2. jobs[m[1]].status \in Unsettled /\ "running" \in Unsettled
    BY <2>1 DEF Unsettled
  <2>3. /\ ResourceOf(jobs[m[1]]) = resources[jobs[m[1]].resource]
        /\ resources[jobs[m[1]].resource].status \in Unsettled
    BY <1>3, <2>1, <2>2
  <2> QED
    BY <1>2, <2>1, <2>2, <2>3
<1>5. ASSUME NEW w \in Workers, Fail(w) \/ FailBuild(w)
      PROVE  \A r \in Resources : RowKept(r)
  <2>1. Current(w)
    BY <1>5 DEF Fail, Finish, FailBuild, Standing, Current
  <2>2. /\ Mine(w) \in Resources
        /\ resources[Mine(w)].status = "running"
        /\ ResourceOf(jobs[claims[w].job]) = resources[Mine(w)]
    BY <2>1, CurrentPlace, CurrentRow, SMTT(30)
  <2>3. \E step : resources' =
           WithResource(Mine(w), ResourceWith(resources[Mine(w)], step, "error"))
    BY <1>5, <2>2 DEF Fail, Finish, FailBuild, Mine
  <2>4. "error" \in Unsettled /\ "running" \in Unsettled
    BY DEF Unsettled
  <2> QED
    BY <1>2, <2>2, <2>3, <2>4
<1>6. ASSUME NEW s \in Scanners, NEW j \in Jobs, ScanJob(s, j)
      PROVE  \A r \in Resources : RowKept(r)
  <2> DEFINE old == ResourceOf(jobs[j])
  <2>1. CASE ~Retryable(j, jobs[j], old, j \in scans[s].stale)
    BY <1>1, <1>6, <2>1 DEF ScanJob
  <2>2. CASE Retryable(j, jobs[j], old, j \in scans[s].stale)
    <3>1. /\ jobs[j].resource \in Resources
          /\ old = resources[jobs[j].resource]
          /\ old.status = jobs[j].status
          /\ jobs[j].status \in Unsettled
      BY <1>3, <2>2 DEF Retryable, Unsettled
    <3>2. resources' = WithResource(jobs[j].resource,
             ResourceWith(old, old.step,
                IF jobs[j].status = "running" THEN "pending" ELSE old.status))
      BY <1>6, <2>2 DEF ScanJob
    <3>3. PICK st \in Unsettled :
             resources' = WithResource(jobs[j].resource,
                                       ResourceWith(old, old.step, st))
      BY <3>1, <3>2 DEF Unsettled
    <3> QED
      BY <1>2, <3>1, <3>3
  <2> QED
    BY <2>1, <2>2
<1> QED
  BY <1>1, <1>4, <1>5, <1>6
     DEF EngineStep, Engine, WStop, Abandon, Crash, IgnoreDelivery, Lose,
         Expire, ScanStart, ScanEnd

\* A completion settles the row, or removes it.
LEMMA CompletionEnds ==
    ASSUME TypeOK, JobsArePlaced, NEW w \in Workers, Complete(w)
    PROVE  /\ Current(w)
           /\ claims'[w] = NoClaim
           /\ Mine(w) \in Resources
           /\ \A r \in Resources : r # Mine(w) => resources'[r] = resources[r]
           /\ claims[w].step = DeleteStep => resources'[Mine(w)] = AbsentResource
           /\ claims[w].step # DeleteStep =>
                 /\ resources'[Mine(w)].status = "success"
                 /\ resources'[Mine(w)].action = resources[Mine(w)].action
<1>1. Current(w)
  BY DEF Complete, Current
<1>2. /\ Mine(w) \in Resources
      /\ claims[w].step = jobs[claims[w].job].step
      /\ ResourceOf(jobs[claims[w].job]) = resources[Mine(w)]
  BY <1>1, CurrentPlace, CurrentJob
<1>3. resources' = WithResource(Mine(w),
         IF claims[w].step \in DeletingSteps THEN AbsentResource
         ELSE ResourceWith(resources[Mine(w)], NoStep, "success"))
  BY <1>2 DEF Complete, Mine
<1>4. claims[w].step \in DeletingSteps <=> claims[w].step = DeleteStep
  BY WorkspaceTables DEF WorkspaceDeletingSteps, DeleteStep
<1>5. claims'[w] = NoClaim
  BY DEF Complete, TypeOK
<1> QED
  BY <1>1, <1>2, <1>3, <1>4, <1>5 DEF WithResource, ResourceWith

\* What a request leaves on the row it is about; the other rows stay.
Asked(r, action) ==
    /\ resources'[r].status = "pending"
    /\ resources'[r].action = action
    /\ \A x \in Resources : x # r => resources'[x] = resources[x]
    /\ claims' = claims

\* A creation finds no row, the other requests one that is not in transition.
LEMMA RequestAsks ==
    ASSUME NEW j \in NewIds, NEW r \in Resources, NEW t \in Transitions,
           Request(j, r, t)
    PROVE  \/ /\ t.name = "workspace.create" /\ Asked(r, "creating")
              /\ resources[r].status = "absent"
           \/ /\ t.name = "workspace.update" /\ Asked(r, "updating")
              /\ resources[r].status \in {"success", "error"}
           \/ /\ t.name = "workspace.delete" /\ Asked(r, "deleting")
              /\ resources[r].status \in {"success", "error"}
<1>1. resources' = WithResource(r, Requested(j, t.name, t.first))
      /\ resources[r].status = t.status /\ claims' = claims
  BY DEF Request
<1>2. Asked(r, RESOURCE_ACTIONS[t.name])
  BY <1>1 DEF Asked, WithResource, Requested
<1> QED
  BY <1>1, <1>2, WorkspaceRequests

\* No step breaks the engine's types.
LEMMA WorkspaceTypeStep ==
    ASSUME TypeOK, JobsArePlaced, [WNext]_wvars
    PROVE  TypeOK'
<1>1. CASE [Next]_vars
  BY <1>1, TypeStep
<1>2. CASE RemoveRows
  <2>1. AbsentResource \in ResourceRow
    BY DEF AbsentResource, ResourceRow, Actions, JobStatus
  <2> QED
    BY <1>2, <2>1 DEF RemoveRows, TypeOK
<1>3. ASSUME NEW w \in Workers, FailBuild(w)
      PROVE  TypeOK'
  <2> DEFINE j == claims[w].job
  <2>1. Current(w)
    BY <1>3 DEF FailBuild, Standing, Current
  <2>2. /\ j \in Jobs /\ Mine(w) \in Resources /\ claims[w].step \in Steps
        /\ jobs[j].status # "absent"
    BY <2>1, CurrentJob, CurrentPlace
  <2>3. FailedJob(jobs[j]) \in JobRow /\ FailedJob(jobs[j]).step = jobs[j].step
    BY <2>2, RowTypes DEF TypeOK, FailedJob, JobWith
  <2>4. ResourceWith(resources[Mine(w)], claims[w].step, "error") \in ResourceRow
    BY <2>2, ResourceWithType DEF TypeOK, JobStatus
  <2> QED
    BY <1>3, <2>2, <2>3, <2>4 DEF FailBuild, WithResource, TypeOK
<1>4. CASE Tick
  BY <1>4 DEF Tick, TypeOK
<1> QED
  BY <1>1, <1>2, <1>3, <1>4, WorkspaceStep

\* The fence holds as long as the rows are not deleted under their jobs.
LEMMA WorkspaceFenceStep ==
    ASSUME Fence, [WNext]_wvars, ~RemoveRows
    PROVE  Fence'
<1>1. TypeOK' /\ JobsArePlaced'
  BY WorkspaceTypeStep, PlacedStep DEF Fence
<1>2. CASE [Next]_vars
  BY <1>1, <1>2, FencedStep DEF Fence
<1>3. ASSUME NEW w \in Workers, FailBuild(w)
      PROVE  Fenced'
  <2> DEFINE j   == claims[w].job
             new == FailedJob(jobs[j])
             res == ResourceWith(resources[Mine(w)], claims[w].step, "error")
  <2>1. Current(w)
    BY <1>3 DEF FailBuild, Standing, Current
  <2>2. /\ j \in Jobs /\ Mine(w) \in Resources
        /\ claims[w].step \in Steps
        /\ ResourceOf(jobs[j]) = resources[Mine(w)]
        /\ claims[w].step = jobs[j].step
    BY <2>1, CurrentJob, CurrentPlace DEF Fence
  <2>3. new \in JobRow /\ res \in ResourceRow
    BY <2>2, RowTypes, ResourceWithType, SMTT(20) DEF Fence, TypeOK, JobStatus
  <2>4. OwnerWrites(w, new, res)
    BY <1>3, <2>1, <2>2
       DEF FailBuild, OwnerWrites, Current, Mine, FailedJob, JobWith, ResourceWith
  <2> HIDE DEF new, res
  <2> QED
    BY <1>1, <2>3, <2>4, OwnerFinishes DEF Fence
<1>4. CASE Tick
  BY <1>1, <1>4 DEF Tick, Fence, Fenced, Linked, LiveJobsAreCurrent, TokensAreUnique
<1> QED
  BY <1>1, <1>2, <1>3, <1>4, WorkspaceStep DEF Fence

-----------------------------------------------------------------------------
(***************************************************************************)
(* The workers: who owns a row goes on, until its attempt ends.            *)
(***************************************************************************)

\* A worker goes on with the claim it had, on the row it had.
GoesOn(w) == Current(w) /\ claims'[w] = claims[w] /\ Mine(w)' = Mine(w)

\* Worker w has just claimed a job.
Begins(w) == \E m \in queue : WClaim(w, m)

\* Only a claim gives a worker another claim.
LEMMA ClaimsMove ==
    ASSUME TypeOK, [WNext]_wvars, NEW w \in Workers
    PROVE  claims'[w] \in {claims[w], NoClaim} \/ Begins(w)
<1>1. ASSUME NEW v \in Workers, claims' = [claims EXCEPT ![v] = NoClaim]
      PROVE  claims'[w] \in {claims[w], NoClaim}
  BY <1>1 DEF TypeOK
<1>2. ASSUME NEW v \in Workers, NEW m \in queue, WClaim(v, m)
      PROVE  claims'[w] = claims[w] \/ Begins(w)
  BY <1>2 DEF WClaim, Claim, Begins, TypeOK
<1>3. ASSUME NEW v \in Workers, Settle(v) \/ Remove(v) \/ FailBuild(v) \/ WStop(v)
      PROVE  claims' = [claims EXCEPT ![v] = NoClaim]
  BY <1>3 DEF Settle, Remove, FailBuild, WStop, Complete, Fail, Finish, Abandon,
              Crash
<1>4. ASSUME \/ \E v \in Workers : WorkerStep(v)
             \/ \E x \in Remotes : Environment(x)
             \/ InstanceStep \/ RemoveRows \/ UNCHANGED wvars
      PROVE  claims' = claims
  BY <1>4, WorkerStepVars, EnvironmentVars
     DEF InstanceStep, DeleteInstance, SweepDone, RemoveApplication, RemoveRows,
         wvars, vars, Tick
<1>5. RequestStep => claims' = claims
  <2>1. \A j, r, t : Request(j, r, t) => claims' = claims
    BY DEF Request
  <2>2. \A j, r, n, v : CreateWorkspace(j, r, n, v) => claims' = claims
    BY <2>1 DEF CreateWorkspace
  <2>3. \A j, r, n, v : UpdateWorkspace(j, r, n, v) => claims' = claims
    BY <2>1 DEF UpdateWorkspace
  <2>4. \A j, r : DeleteWorkspace(j, r) => claims' = claims
    BY <2>1 DEF DeleteWorkspace
  <2> QED
    BY <2>2, <2>3, <2>4 DEF RequestStep
<1>6. EngineStep => claims' = claims
  BY DEF EngineStep, Engine, IgnoreDelivery, Lose, Expire, ScanStart, ScanEnd,
         ScanJob
<1> QED
  BY <1>1, <1>2, <1>3, <1>4, <1>5, <1>6, Cases

\* With the fence, a claim is current as long as its attempt runs.
CurrentIsRunning ==
    \A w \in Workers :
        Current(w) <=> /\ claims[w] # NoClaim
                       /\ jobs[claims[w].job].status = "running"
                       /\ jobs[claims[w].job].step = claims[w].step
                       /\ jobs[claims[w].job].attempt = claims[w].attempt

\* A running job is the one its row names.
LEMMA CurrentIs == Fence => CurrentIsRunning
<1> SUFFICES ASSUME Fence, NEW w \in Workers
             PROVE  Current(w) <=>
                       /\ claims[w] # NoClaim
                       /\ jobs[claims[w].job].status = "running"
                       /\ jobs[claims[w].job].step = claims[w].step
                       /\ jobs[claims[w].job].attempt = claims[w].attempt
  BY DEF CurrentIsRunning
<1>1. ASSUME claims[w] # NoClaim, jobs[claims[w].job].status = "running"
      PROVE  ResourceMatches(claims[w].job, jobs[claims[w].job],
                             ResourceOf(jobs[claims[w].job]))
  <2> DEFINE j == claims[w].job
             r == jobs[j].resource
  <2>1. j \in Jobs
    BY <1>1 DEF Fence, TypeOK, Claims
  <2>2. r \in Resources /\ r # NoResource
    BY <1>1, <2>1 DEF Fence, JobsArePlaced, JobIsPlaced
  <2>3. /\ ResourceOf(jobs[j]) = resources[r]
        /\ resources[r].status # "absent" /\ resources[r].job = j
    BY <1>1, <2>1, <2>2, SMTT(20) DEF ResourceOf, Fence, Fenced, LiveJobsAreCurrent
  <2>4. /\ jobs[j].name \in DOMAIN RESOURCE_ACTIONS
        /\ resources[r].action = RESOURCE_ACTIONS[jobs[j].name]
        /\ resources[r].status = jobs[j].status
        /\ resources[r].status # "success" => resources[r].step = jobs[j].step
    BY <2>1, <2>2, <2>3 DEF Fence, Fenced, Linked
  <2> QED
    BY <1>1, <2>3, <2>4 DEF ResourceMatches
<1> QED
  BY <1>1 DEF Current, Owns, Owned

\* The same in the next state.
LEMMA CurrentIsAfter == Fence' => CurrentIsRunning'
  BY CurrentIs, PTL

\* A worker that owns its job after a step owned it before, or claimed it.
LEMMA CurrentStep ==
    ASSUME Fence, Fence', [WNext]_wvars, NEW w \in Workers, Current(w)'
    PROVE  GoesOn(w) \/ Begins(w)
<1> SUFFICES ASSUME ~Begins(w)
             PROVE  GoesOn(w)
  OBVIOUS
<1> DEFINE j == claims[w].job
<1>1. claims'[w] = claims[w] /\ claims[w] # NoClaim
  BY ClaimsMove DEF Fence, Current
<1>2. j \in Jobs
  BY <1>1 DEF Fence, TypeOK, Claims
<1>3. /\ jobs'[j].status = "running"
      /\ jobs'[j].step = claims[w].step
      /\ jobs'[j].attempt = claims[w].attempt
  BY <1>1, CurrentIsAfter DEF CurrentIsRunning
<1>4. /\ jobs[j].status # "absent"
      /\ claims[w].attempt <= jobs[j].attempt
  BY <1>1 DEF Fence, Fenced, TokensAreUnique
<1>5. JobMoves(j)
  BY <1>2, JobsMove DEF Fence
<1>6. ~Claimed(j)
  <2> SUFFICES ASSUME NEW v \in Workers, NEW m \in queue, WClaim(v, m), m[1] = j
               PROVE  FALSE
    BY DEF Claimed
  <2>1. jobs'[j] = ClaimedJob(jobs[j])
    BY <1>2 DEF WClaim, Claim, Fence, TypeOK
  <2>2. jobs'[j].attempt = jobs[j].attempt + 1
    BY <2>1 DEF ClaimedJob, JobWith
  <2>3. jobs[j].attempt \in Nat /\ claims[w].attempt \in Nat
    BY <1>1, <1>2 DEF Fence, TypeOK, JobRow, Claims
  <2> QED
    BY <1>3, <1>4, <2>2, <2>3
<1>7. /\ jobs[j].status = "running"
      /\ jobs'[j].attempt = jobs[j].attempt
      /\ jobs'[j].step = jobs[j].step
      /\ jobs'[j].resource = jobs[j].resource
  BY <1>3, <1>4, <1>5, <1>6 DEF JobMoves
<1>8. Current(w)
  BY <1>1, <1>3, <1>7, CurrentIs DEF CurrentIsRunning
<1> QED
  BY <1>1, <1>7, <1>8 DEF GoesOn, Mine

\* A worker owns no row that is not there.
LEMMA NoneIsCurrent ==
    ASSUME TypeOK, JobsArePlaced, \A r \in Resources : ~RowPresent(r)
    PROVE  \A w \in Workers : ~Current(w)
BY CurrentPlace

\* Once the rows are deleted nothing but the queue and the claims moves.
LEMMA GoneStays ==
    ASSUME TypeOK, JobsArePlaced, NothingOutlives, inst = "gone", [WNext]_wvars
    PROVE  /\ UNCHANGED <<resources, rows, coder, inst>>
           /\ act' = act \/ \E w \in Workers : Goto(w, NoAct)
<1> DEFINE Goal == /\ UNCHANGED <<resources, rows, coder, inst>>
                   /\ act' = act \/ \E w \in Workers : Goto(w, NoAct)
<1>1. /\ \A x \in Remotes : coder[x].status \notin BuildStatus
      /\ \A r \in Resources : resources[r].status = "absent"
  BY DEF NothingOutlives, Present, RowPresent
<1>2. \A w \in Workers : ~Current(w)
  BY <1>1, NoneIsCurrent DEF RowPresent
<1>3. \A j \in Jobs : jobs[j].status # "absent" =>
         ~ResourceMatches(j, jobs[j], ResourceOf(jobs[j]))
  BY <1>1, PlacedMatch
<1>4. ~RequestStep
  BY DEF RequestStep, CreateWorkspace, UpdateWorkspace, DeleteWorkspace
<1>5. ASSUME NEW w \in Workers, NEW m \in queue, WClaim(w, m)
      PROVE  FALSE
  <2>1. /\ m[1] \in Jobs /\ jobs[m[1]].status \in {"pending", "error"}
        /\ ResourceMatches(m[1], jobs[m[1]], ResourceOf(jobs[m[1]]))
    BY <1>5 DEF WClaim, Claim, Claimable, TypeOK
  <2> QED
    BY <1>3, <2>1
<1>6. ASSUME NEW w \in Workers, WorkerStep(w) \/ Settle(w) \/ Remove(w) \/ FailBuild(w)
      PROVE  FALSE
  <2>1. Current(w)
    BY <1>6, WorkerStepVars
       DEF Settle, Remove, Complete, FailBuild, Standing, Current
  <2> QED
    BY <1>2, <2>1
<1>7. ASSUME NEW w \in Workers, WStop(w)
      PROVE  Goal
  <2>1. ~Fail(w)
    BY <1>2 DEF Fail, Finish, Current
  <2> QED
    BY <1>7, <2>1 DEF WStop, Abandon, Crash
<1>8. ASSUME NEW x \in Remotes, Environment(x)
      PROVE  FALSE
  BY <1>1, <1>8
     DEF Environment, BuildDone, BuildFailed, FinishBuild, StopByOwner,
         SweepWorkspace, BuildStatus, Active
<1>9. ~InstanceStep /\ ~RemoveRows
  BY DEF InstanceStep, DeleteInstance, SweepDone, RemoveApplication, RemoveRows
<1>10. ASSUME EngineStep
       PROVE  Goal
  <2>1. ASSUME NEW s \in Scanners, NEW j \in Jobs, ScanJob(s, j)
        PROVE  resources' = resources
    <3>1. ~Retryable(j, jobs[j], ResourceOf(jobs[j]), j \in scans[s].stale)
      BY <1>3 DEF Retryable
    <3> QED
      BY <2>1, <3>1 DEF ScanJob
  <2>2. UNCHANGED aside
    BY <1>10 DEF EngineStep, Engine
  <2>3. resources' = resources
    BY <1>10, <2>1 DEF EngineStep, Engine, IgnoreDelivery, Lose, Expire,
                       ScanStart, ScanEnd
  <2> QED
    BY <2>2, <2>3 DEF aside
<1>11. UNCHANGED wvars => Goal
  BY DEF wvars, vars
<1> HIDE DEF Goal
<1>12. Goal
  BY <1>4, <1>5, <1>6, <1>7, <1>8, <1>9, <1>10, <1>11, Cases
<1> QED
  BY <1>12 DEF Goal

-----------------------------------------------------------------------------
(***************************************************************************)
(* Types.                                                                  *)
(***************************************************************************)

\* The types of a row and of the place of a worker.
RowState == [name : Names \cup {NoName}, params : Values \cup {NoValue},
             dirty : BOOLEAN, remote : Remotes \cup {NoRemote}]

ActState == [at : {"begin", "found", "missing", "submitted", "stored"},
             remote : Remotes \cup {NoRemote}, seen : RemoteState,
             build : {"none", "active", "done", "failed"}]

\* A row has a name and parameters exactly while it exists.
NamedWhilePresent(r) == /\ RowPresent(r) <=> rows[r].name # NoName
                        /\ RowPresent(r) <=> rows[r].params # NoValue

\* A remote workspace keeps its type when it is built, stopped or deleted.
LEMMA RemoteTypes ==
    ASSUME NEW s \in RemoteState, NEW r \in Resources \cup {NoResource},
           NEW n \in Names \cup {NoName}, NEW v \in Values \cup {NoValue},
           NEW t \in {"start", "stop", "delete"},
           NEW st \in BuildStatus \cup {"unused", "gone"}
    PROVE  /\ Workspace(r, n, v, t, st) \in RemoteState
           /\ Workspace(s.row, s.name, s.params, t, st) \in RemoteState
           /\ Workspace(s.row, s.name, s.params, s.transition, st) \in RemoteState
           /\ Workspace(s.row, n, s.params, s.transition, s.status) \in RemoteState
           /\ Workspace(s.row, s.name, v, t, st) \in RemoteState
           /\ NoWorkspace \in RemoteState
BY DEF Workspace, RemoteState, NoWorkspace

\* A place of a worker has its type.
LEMMA ActTypes ==
    ASSUME NEW at \in {"begin", "found", "missing", "submitted", "stored"},
           NEW x \in Remotes \cup {NoRemote}, NEW s \in RemoteState,
           NEW b \in {"none", "active", "done", "failed"}
    PROVE  Act(at, x, s, b) \in ActState
BY DEF Act, ActState

\* Where a worker is after it moved, and where the others still are.
LEMMA GoesTo ==
    ASSUME WTypeOK, NEW w \in Workers, NEW a, Goto(w, a)
    PROVE  \A v \in Workers : act'[v] = IF v = w THEN a ELSE act[v]
BY DEF WTypeOK, Goto

\* What the variables hold.
LEMMA Typed ==
    ASSUME WTypeOK
    PROVE  /\ \A r \in Resources : rows[r] \in RowState /\ NamedWhilePresent(r)
           /\ rows \in [Resources -> RowState]
           /\ coder \in [Remotes -> RemoteState]
           /\ act \in [Workers -> ActState]
           /\ NoWorkspace \in RemoteState
           /\ NoAct \in ActState
           /\ EmptyRow \in RowState
BY DEF WTypeOK, RowState, ActState, NoWorkspace, Workspace, NoAct, Act,
       RemoteState, EmptyRow, Row, NamedWhilePresent

\* An environment step changes one remote workspace, and only its build.
LEMMA EnvironmentStep ==
    ASSUME WTypeOK, NEW x \in Remotes, Environment(x)
    PROVE  \E t \in {"start", "stop", "delete"}, st \in BuildStatus \cup {"gone"} :
              /\ Present(x)
              /\ coder' = [coder EXCEPT ![x] = Workspace(coder[x].row,
                             coder[x].name, coder[x].params, t, st)]
              /\ \/ /\ act' = act
                    /\ coder[x].status \notin Active
                    /\ \/ t = "stop" /\ st = "stopping"
                       \/ t = "delete" /\ st = "deleting"
                 \/ /\ coder[x].status \in Active
                    /\ t = coder[x].transition
                    /\ \/ /\ Notify(x, "failed")
                          /\ \/ st = "failed"
                             \/ coder[x].status = "stopping" /\ st = "stopped"
                       \/ /\ Notify(x, "done")
                          /\ \/ coder[x].status = "starting" /\ st = "running"
                             \/ coder[x].status = "deleting" /\ st = "gone"
<1> DEFINE G(t, st) ==
              /\ Present(x)
              /\ coder' = [coder EXCEPT ![x] = Workspace(coder[x].row,
                             coder[x].name, coder[x].params, t, st)]
              /\ \/ /\ act' = act
                    /\ coder[x].status \notin Active
                    /\ \/ t = "stop" /\ st = "stopping"
                       \/ t = "delete" /\ st = "deleting"
                 \/ /\ coder[x].status \in Active
                    /\ t = coder[x].transition
                    /\ \/ /\ Notify(x, "failed")
                          /\ \/ st = "failed"
                             \/ coder[x].status = "stopping" /\ st = "stopped"
                       \/ /\ Notify(x, "done")
                          /\ \/ coder[x].status = "starting" /\ st = "running"
                             \/ coder[x].status = "deleting" /\ st = "gone"
<1>0. coder[x].transition \in {"start", "stop", "delete"}
  BY Typed DEF RemoteState
<1>1. CASE BuildDone(x)
  <2>0. \/ coder[x].status = "starting" /\ FinishBuild(x, "running", "done")
        \/ coder[x].status = "stopping" /\ FinishBuild(x, "stopped", "failed")
        \/ coder[x].status = "deleting" /\ FinishBuild(x, "gone", "done")
    BY <1>1 DEF BuildDone
  <2>1. \/ G(coder[x].transition, "running") \/ G(coder[x].transition, "stopped")
        \/ G(coder[x].transition, "gone")
    BY <2>0 DEF FinishBuild, Present, Active, BuildStatus
  <2> HIDE DEF G
  <2>2. {"running", "stopped", "gone"} \subseteq BuildStatus \cup {"gone"}
    BY DEF BuildStatus
  <2>3. \E t \in {"start", "stop", "delete"}, st \in BuildStatus \cup {"gone"} : G(t, st)
    BY <1>0, <2>1, <2>2
  <2> QED
    BY <2>3 DEF G
<1>2. CASE BuildFailed(x)
  <2>1. G(coder[x].transition, "failed")
    BY <1>2 DEF BuildFailed, FinishBuild, Present, Active, BuildStatus
  <2> HIDE DEF G
  <2>2. "failed" \in BuildStatus
    BY DEF BuildStatus
  <2>3. \E t \in {"start", "stop", "delete"}, st \in BuildStatus \cup {"gone"} : G(t, st)
    BY <1>0, <2>1, <2>2
  <2> QED
    BY <2>3 DEF G
<1>3. CASE StopByOwner(x)
  <2>1. G("stop", "stopping")
    BY <1>3 DEF StopByOwner, Present, Active, BuildStatus
  <2> HIDE DEF G
  <2>2. "stopping" \in BuildStatus
    BY DEF BuildStatus
  <2>3. \E t \in {"start", "stop", "delete"}, st \in BuildStatus \cup {"gone"} : G(t, st)
    BY <2>1, <2>2
  <2> QED
    BY <2>3 DEF G
<1>4. CASE SweepWorkspace(x)
  <2>1. G("delete", "deleting")
    BY <1>4 DEF SweepWorkspace
  <2> HIDE DEF G
  <2>2. "deleting" \in BuildStatus
    BY DEF BuildStatus
  <2>3. \E t \in {"start", "stop", "delete"}, st \in BuildStatus \cup {"gone"} : G(t, st)
    BY <2>1, <2>2
  <2> QED
    BY <2>3 DEF G
<1> QED
  BY <1>1, <1>2, <1>3, <1>4 DEF Environment

\* Notified workers stay where they are.
LEMMA Notified ==
    ASSUME WTypeOK, NEW x \in Remotes, NEW b \in {"done", "failed"}, Notify(x, b)
    PROVE  /\ act' \in [Workers -> ActState]
           /\ \A w \in Workers :
                 /\ act'[w].at = act[w].at
                 /\ act'[w].remote = act[w].remote
                 /\ act'[w].seen = act[w].seen
                 /\ act'[w].build =
                       IF act[w].remote = x /\ act[w].build = "active"
                       THEN b ELSE act[w].build
<1>1. \A w \in Workers : act'[w] =
         IF act[w].remote = x /\ act[w].build = "active"
         THEN Act(act[w].at, x, act[w].seen, b) ELSE act[w]
  BY DEF Notify
<1>2. \A w \in Workers : act[w] \in ActState
  BY Typed
<1>3. ASSUME NEW w \in Workers
      PROVE  Act(act[w].at, x, act[w].seen, b) \in ActState
  BY <1>2 DEF Act, ActState
<1>4. act' \in [Workers -> ActState]
  BY <1>1, <1>2, <1>3 DEF Notify
<1> QED
  BY <1>1, <1>4 DEF Act

\* The rows keep their type, and come and go with their job columns.
LEMMA RowsTyped ==
    ASSUME Fence, WTypeOK, [WNext]_wvars, ~RemoveRows
    PROVE  /\ rows' \in [Resources -> RowState]
           /\ \A r \in Resources : NamedWhilePresent(r)'
<1> DEFINE Goal == /\ rows' \in [Resources -> RowState]
                   /\ \A r \in Resources : NamedWhilePresent(r)'
<1>0. /\ rows \in [Resources -> RowState]
      /\ \A r \in Resources : rows[r] \in RowState /\ NamedWhilePresent(r)
      /\ \A w \in Workers : act[w].remote \in Remotes \cup {NoRemote}
      /\ EmptyRow \in RowState
  BY Typed DEF ActState
<1>1. ASSUME rows' = rows, \A r \in Resources : RowPresent(r)' <=> RowPresent(r)
      PROVE  Goal
  BY <1>0, <1>1 DEF NamedWhilePresent
<1>2. ASSUME NEW r \in Resources, NEW new \in RowState, SetRow(r, new),
             new.name # NoName, new.params # NoValue, RowPresent(r)',
             \A q \in Resources : q # r => resources'[q] = resources[q]
      PROVE  Goal
  <2>1. /\ rows' \in [Resources -> RowState]
        /\ \A q \in Resources : rows'[q] = IF q = r THEN new ELSE rows[q]
    BY <1>0, <1>2 DEF SetRow
  <2> QED
    BY <1>0, <1>2, <2>1 DEF NamedWhilePresent, RowPresent
<1>3. ASSUME RequestStep
      PROVE  Goal
  <2>1. ASSUME NEW j \in NewIds, NEW r \in Resources, NEW n \in Names,
               NEW v \in Values, CreateWorkspace(j, r, n, v)
        PROVE  Goal
    <3>1. PICK t \in Transitions : t.name = "workspace.create" /\ Request(j, r, t)
      BY <2>1 DEF CreateWorkspace
    <3>2. Asked(r, "creating")
      BY <3>1, RequestAsks
    <3>3. SetRow(r, Row(n, v, TRUE, NoRemote)) /\ Row(n, v, TRUE, NoRemote) \in RowState
      BY <2>1 DEF CreateWorkspace, Row, RowState
    <3>4. Row(n, v, TRUE, NoRemote).name = n /\ Row(n, v, TRUE, NoRemote).params = v
      BY DEF Row
    <3> QED
      BY <1>2, <3>2, <3>3, <3>4 DEF Asked, RowPresent
  <2>2. ASSUME NEW j \in NewIds, NEW r \in Resources, NEW n \in Names,
               NEW v \in Values, UpdateWorkspace(j, r, n, v)
        PROVE  Goal
    <3> DEFINE new == Row(n, v, Changed(r, v), rows[r].remote)
    <3>1. PICK t \in Transitions : t.name = "workspace.update" /\ Request(j, r, t)
      BY <2>2 DEF UpdateWorkspace
    <3>2. Asked(r, "updating")
      BY <3>1, RequestAsks
    <3>3. /\ SetRow(r, new)
          /\ rows[r].remote \in Remotes \cup {NoRemote}
          /\ Changed(r, v) \in BOOLEAN
      BY <1>0, <2>2 DEF UpdateWorkspace, RowState, Changed
    <3>4. new \in RowState /\ new.name = n /\ new.params = v
      BY <3>3 DEF Row, RowState
    <3> HIDE DEF new
    <3> QED
      BY <1>2, <3>2, <3>3, <3>4 DEF Asked, RowPresent
  <2>3. ASSUME NEW j \in NewIds, NEW r \in Resources, DeleteWorkspace(j, r)
        PROVE  Goal
    <3>1. PICK t \in Transitions : t.name = "workspace.delete" /\ Request(j, r, t)
      BY <2>3 DEF DeleteWorkspace
    <3>2. Asked(r, "deleting") /\ resources[r].status \in {"success", "error"}
      BY <3>1, RequestAsks
    <3> QED
      BY <1>1, <2>3, <3>2 DEF Asked, RowPresent, DeleteWorkspace, aside
  <2> QED
    BY <1>3, <2>1, <2>2, <2>3 DEF RequestStep
<1>4. ASSUME \/ \E w \in Workers, m \in queue : WClaim(w, m)
             \/ \E w \in Workers : FailBuild(w) \/ WStop(w)
             \/ EngineStep
      PROVE  Goal
  <2>1. \A r \in Resources : RowKept(r)
    BY <1>4, EngineKeepsRows
  <2>2. rows' = rows
    BY <1>4 DEF WClaim, FailBuild, WStop, EngineStep, Engine, aside
  <2> QED
    BY <1>1, <2>1, <2>2 DEF RowKept, Unsettled, RowPresent
<1>5. ASSUME NEW w \in Workers, WorkerStep(w)
      PROVE  Goal
  <2>1. resources' = resources /\ Current(w) /\ Mine(w) \in Resources
        /\ RowPresent(Mine(w))
    BY <1>5, WorkerStepVars, CurrentPlace DEF vars, Fence
  <2>2. CASE rows' = rows
    BY <1>1, <2>1, <2>2 DEF RowPresent
  <2>3. CASE Store(w)
    <3>0. PICK r \in Resources : r = Mine(w)
      BY <2>1
    <3> DEFINE new == StoredRow(r, act[w].remote)
    <3>1. SetRow(r, new) /\ rows[r] \in RowState /\ NamedWhilePresent(r)
      BY <1>0, <2>3, <3>0 DEF Store
    <3>2. new \in RowState /\ new.name = rows[r].name /\ new.params = rows[r].params
      BY <1>0, <3>1 DEF StoredRow, Row, RowState
    <3>3. RowPresent(r) /\ RowPresent(r)'
      BY <2>1, <3>0 DEF RowPresent
    <3> HIDE DEF new
    <3> QED
      BY <1>2, <2>1, <3>1, <3>2, <3>3 DEF NamedWhilePresent
  <2> QED
    BY <1>5, <2>2, <2>3
       DEF WorkerStep, Look, Rename, Reuse, Submit, CreateRemote
<1>6. ASSUME NEW w \in Workers, Settle(w)
      PROVE  Goal
  <2> DEFINE r == Mine(w)
             new == Row(rows[r].name, rows[r].params, FALSE, act[w].remote)
  <2>1. Complete(w) /\ claims[w].step # DeleteStep /\ SetRow(r, new)
    BY <1>6 DEF Settle
  <2>2. /\ r \in Resources /\ Current(w)
        /\ \A q \in Resources : q # r => resources'[q] = resources[q]
        /\ resources'[r].status = "success"
    BY <2>1, CompletionEnds DEF Fence
  <2>3. rows[r] \in RowState /\ NamedWhilePresent(r) /\ RowPresent(r)
    BY <1>0, <2>2, CurrentPlace DEF Fence
  <2>4. new \in RowState /\ new.name = rows[r].name /\ new.params = rows[r].params
    BY <1>0, <2>3 DEF Row, RowState
  <2>6. PICK q \in Resources : q = r
    BY <2>2
  <2>7. RowPresent(q)'
    BY <2>2, <2>6 DEF RowPresent
  <2> HIDE DEF new, r
  <2> QED
    BY <1>2, <2>1, <2>2, <2>3, <2>4, <2>6, <2>7 DEF NamedWhilePresent
<1>7. ASSUME NEW w \in Workers, Remove(w)
      PROVE  Goal
  <2>1. Complete(w) /\ claims[w].step = DeleteStep /\ SetRow(Mine(w), EmptyRow)
    BY <1>7 DEF Remove
  <2>2. /\ Mine(w) \in Resources
        /\ \A q \in Resources : q # Mine(w) => resources'[q] = resources[q]
        /\ resources'[Mine(w)].status = "absent"
    BY <2>1, CompletionEnds DEF Fence, AbsentResource
  <2>3. /\ rows' \in [Resources -> RowState]
        /\ \A q \in Resources : rows'[q] = IF q = Mine(w) THEN EmptyRow ELSE rows[q]
    BY <1>0, <2>1 DEF SetRow
  <2>4. EmptyRow.name = NoName /\ EmptyRow.params = NoValue
    BY DEF EmptyRow, Row
  <2> QED
    BY <1>0, <2>2, <2>3, <2>4 DEF NamedWhilePresent, RowPresent
<1>8. ASSUME \/ \E x \in Remotes : Environment(x)
             \/ InstanceStep \/ UNCHANGED wvars
      PROVE  Goal
  <2>1. rows' = rows /\ resources' = resources
    BY <1>8, EnvironmentVars
       DEF InstanceStep, DeleteInstance, SweepDone, RemoveApplication, wvars,
           vars, Tick, Fence
  <2> QED
    BY <1>1, <2>1 DEF RowPresent
<1> HIDE DEF Goal
<1>9. Goal
  BY <1>3, <1>4, <1>5, <1>6, <1>7, <1>8, Cases
<1> QED
  BY <1>9 DEF Goal

\* The remote workspaces and the places of the workers keep their types.
LEMMA RemotesTyped ==
    ASSUME TypeOK, JobsArePlaced, WTypeOK, [WNext]_wvars
    PROVE  /\ coder' \in [Remotes -> RemoteState]
           /\ act' \in [Workers -> ActState]
<1> DEFINE Goal == /\ coder' \in [Remotes -> RemoteState]
                   /\ act' \in [Workers -> ActState]
<1>0. /\ coder \in [Remotes -> RemoteState]
      /\ act \in [Workers -> ActState]
      /\ NoWorkspace \in RemoteState
      /\ NoAct \in ActState
      /\ \A r \in Resources : rows[r] \in RowState
  BY Typed
<1>1. ASSUME NEW w \in Workers, NEW a \in ActState, Goto(w, a), coder' = coder
      PROVE  Goal
  BY <1>0, <1>1 DEF Goto
<1>2. ASSUME NEW w \in Workers, NEW a \in ActState, Goto(w, a),
             NEW x \in Remotes, NEW new \in RemoteState,
             coder' = [coder EXCEPT ![x] = new]
      PROVE  Goal
  BY <1>0, <1>2 DEF Goto
<1>3. ASSUME NEW w \in Workers, WorkerStep(w)
      PROVE  Goal
  <2> DEFINE x == act[w].remote
             r == Mine(w)
  <2>1. /\ act[w] \in ActState
        /\ x \in Remotes \cup {NoRemote}
        /\ act[w].seen \in RemoteState
        /\ act[w].build \in {"none", "active", "done", "failed"}
    BY <1>0 DEF ActState
  <2>2. r \in Resources /\ rows[r] \in RowState
    BY <1>0, <1>3, WorkerStepVars, CurrentPlace
  <2>3. rows[r].name \in Names \cup {NoName} /\ rows[r].params \in Values \cup {NoValue}
    BY <2>2 DEF RowState
  <2>4. CASE Look(w)
    <3>1. CASE Goto(w, Act("missing", NoRemote, NoWorkspace, "none"))
      BY <1>0, <1>1, <2>4, <3>1, ActTypes DEF Look
    <3>2. ASSUME NEW y \in Lookup(r), Goto(w, Act("found", y, coder[y], Outcome(y)))
          PROVE  Goal
      <4>1. y \in Remotes
        BY DEF Lookup, ByName
      <4>2. Act("found", y, coder[y], Outcome(y)) \in ActState
        BY <1>0, <4>1, ActTypes DEF Outcome
      <4> QED
        BY <1>1, <2>4, <3>2, <4>2 DEF Look
    <3> QED
      BY <2>4, <3>1, <3>2 DEF Look
  <2>5. ASSUME NEW y \in NewRemotes, CreateRemote(w, y)
        PROVE  Goal
    <3> DEFINE new == Workspace(r, rows[r].name, rows[r].params, "start", "starting")
    <3>1. y \in Remotes
      BY DEF NewRemotes, Draw
    <3>2. new \in RemoteState
      BY <2>2, <2>3 DEF Workspace, RemoteState, BuildStatus
    <3>3. Act("submitted", y, new, "active") \in ActState
      BY <3>1, <3>2, ActTypes
    <3>4. coder' = [coder EXCEPT ![y] = new] /\ Goto(w, Act("submitted", y, new, "active"))
      BY <2>5 DEF CreateRemote
    <3> HIDE DEF new
    <3> QED
      BY <1>2, <3>1, <3>2, <3>3, <3>4
  <2>6. CASE Rename(w)
    <3> DEFINE n == rows[r].name
               s == act[w].seen
               new == Workspace(coder[x].row, n, coder[x].params,
                                coder[x].transition, coder[x].status)
               see == Workspace(s.row, n, s.params, s.transition, s.status)
    <3>1. /\ coder' = [coder EXCEPT ![x] = new]
          /\ Goto(w, Act("found", x, see, act[w].build))
      BY <2>6 DEF Rename
    <3>2. see \in RemoteState
      BY <2>1, <2>3, RemoteTypes DEF Workspace, RemoteState
    <3>3. Act("found", x, see, act[w].build) \in ActState
      BY <2>1, <3>2, ActTypes
    <3>4. x \in Remotes => new \in RemoteState
      BY <1>0, <2>3 DEF Workspace, RemoteState
    <3>5. x \notin Remotes => coder' = coder
      BY <1>0, <3>1
    <3> HIDE DEF new, see
    <3> QED
      BY <1>1, <1>2, <3>1, <3>3, <3>4, <3>5
  <2>7. CASE Reuse(w)
    <3>1. Act("submitted", x, act[w].seen, act[w].build) \in ActState
      BY <2>1, ActTypes
    <3> QED
      BY <1>1, <2>7, <3>1 DEF Reuse
  <2>8. CASE Submit(w)
    <3> DEFINE new == Build(x, r, claims[w].step)
    <3>1. /\ coder' = [coder EXCEPT ![x] = new]
          /\ Goto(w, Act("submitted", x, act[w].seen, "active"))
      BY <2>8 DEF Submit
    <3>2. Act("submitted", x, act[w].seen, "active") \in ActState
      BY <2>1, ActTypes
    <3>3. x \in Remotes => new \in RemoteState
      BY <1>0, <2>3 DEF Build, Workspace, RemoteState, BuildStatus
    <3>4. x \notin Remotes => coder' = coder
      BY <1>0, <3>1
    <3> HIDE DEF new
    <3> QED
      BY <1>1, <1>2, <3>1, <3>2, <3>3, <3>4
  <2>9. CASE Store(w)
    <3>1. Act("stored", x, NoWorkspace, act[w].build) \in ActState
      BY <1>0, <2>1, ActTypes
    <3> QED
      BY <1>1, <2>9, <3>1 DEF Store
  <2> HIDE DEF Goal
  <2> QED
    BY <1>3, <2>4, <2>5, <2>6, <2>7, <2>8, <2>9 DEF WorkerStep
<1>4. ASSUME NEW w \in Workers,
             \/ \E m \in queue : WClaim(w, m)
             \/ Settle(w) \/ Remove(w) \/ FailBuild(w) \/ WStop(w)
      PROVE  Goal
  <2>1. Goto(w, NoAct) /\ coder' = coder
    BY <1>4 DEF WClaim, Settle, Remove, FailBuild, WStop
  <2> QED
    BY <1>0, <1>1, <2>1
<1>5. ASSUME NEW x \in Remotes, Environment(x)
      PROVE  Goal
  <2>1. PICK t \in {"start", "stop", "delete"}, st \in BuildStatus \cup {"gone"} :
           /\ coder' = [coder EXCEPT ![x] = Workspace(coder[x].row,
                          coder[x].name, coder[x].params, t, st)]
           /\ act' = act \/ Notify(x, "failed") \/ Notify(x, "done")
    BY <1>5, EnvironmentStep
  <2>2. Workspace(coder[x].row, coder[x].name, coder[x].params, t, st) \in RemoteState
    BY <1>0 DEF Workspace, RemoteState
  <2>3. act' \in [Workers -> ActState]
    BY <1>0, <2>1, Notified
  <2> QED
    BY <1>0, <2>1, <2>2, <2>3
<1>6. ASSUME InstanceStep
      PROVE  Goal
  <2>1. CASE RemoveApplication
    <3>1. \A x \in Remotes : Workspace(coder[x].row, coder[x].name,
              coder[x].params, coder[x].transition, "gone") \in RemoteState
      BY <1>0 DEF Workspace, RemoteState
    <3> QED
      BY <1>0, <2>1, <3>1 DEF RemoveApplication
  <2> QED
    BY <1>0, <1>6, <2>1 DEF InstanceStep, DeleteInstance, SweepDone
<1>7. ASSUME RequestStep \/ EngineStep \/ RemoveRows \/ UNCHANGED wvars
      PROVE  coder' = coder /\ act' = act
  BY <1>7 DEF RequestStep, CreateWorkspace, UpdateWorkspace, DeleteWorkspace,
              EngineStep, Engine, RemoveRows, aside, wvars
<1>8. coder' = coder /\ act' = act => Goal
  BY <1>0
<1> HIDE DEF Goal
<1>9. Goal
  BY <1>3, <1>4, <1>5, <1>6, <1>7, <1>8, Cases
<1> QED
  BY <1>9 DEF Goal

\* Only a request misnames.
LEMMA MisnamedStays ==
    ASSUME [WNext]_wvars
    PROVE  misnamed' = misnamed \/ RequestStep
<1>1. ASSUME NEW w \in Workers, WorkerStep(w)
      PROVE  misnamed' = misnamed
  BY <1>1 DEF WorkerStep, Look, Rename, Reuse, Submit, Store, CreateRemote
<1>2. ASSUME NEW x \in Remotes, Environment(x)
      PROVE  misnamed' = misnamed
  BY <1>2 DEF Environment, BuildDone, BuildFailed, StopByOwner, SweepWorkspace
<1> QED
  BY <1>1, <1>2, Cases
     DEF WClaim, Settle, Remove, FailBuild, WStop, InstanceStep, DeleteInstance,
         SweepDone, RemoveApplication, RemoveRows, EngineStep, Engine, aside,
         wvars

\* The whole type invariant is kept.
LEMMA WTypeStep ==
    ASSUME TypeOK, JobsArePlaced, inst # "gone" => Fenced, NothingOutlives,
           WTypeOK, [WNext]_wvars
    PROVE  WTypeOK'
<1>1. coder' \in [Remotes -> RemoteState] /\ act' \in [Workers -> ActState]
  BY RemotesTyped
<1>2. inst' \in {"success", "deleting", "swept", "removed", "gone"}
  <2>1. inst \in {"success", "deleting", "swept", "removed", "gone"}
    BY DEF WTypeOK
  <2>2. \/ inst' = inst \/ InstanceStep \/ RemoveRows
    BY Cases, WorkerStepVars, EnvironmentVars
       DEF RequestStep, CreateWorkspace, UpdateWorkspace, DeleteWorkspace,
           WClaim, Settle, Remove, FailBuild, WStop, EngineStep, Engine, aside,
           wvars
  <2> QED
    BY <2>1, <2>2 DEF InstanceStep, DeleteInstance, SweepDone,
                      RemoveApplication, RemoveRows
<1>3. /\ rows' \in [Resources -> RowState]
      /\ \A r \in Resources : NamedWhilePresent(r)'
  <2>0. /\ rows \in [Resources -> RowState]
        /\ \A r \in Resources : NamedWhilePresent(r)
        /\ EmptyRow \in RowState
    BY Typed
  <2>1. CASE inst = "gone"
    <3>1. rows' = rows /\ resources' = resources
      BY <2>1, GoneStays
    <3> QED
      BY <2>0, <3>1 DEF NamedWhilePresent, RowPresent
  <2>2. CASE RemoveRows
    <3>1. \A r \in Resources : rows'[r] = EmptyRow /\ resources'[r] = AbsentResource
      BY <2>2 DEF RemoveRows
    <3>2. rows' \in [Resources -> RowState]
      BY <2>0, <2>2 DEF RemoveRows
    <3>3. /\ EmptyRow.name = NoName /\ EmptyRow.params = NoValue
          /\ AbsentResource.status = "absent"
      BY DEF EmptyRow, Row, AbsentResource
    <3> QED
      BY <3>1, <3>2, <3>3 DEF NamedWhilePresent, RowPresent
  <2>3. CASE inst # "gone" /\ ~RemoveRows
    BY <2>3, RowsTyped DEF Fence
  <2> QED
    BY <2>1, <2>2, <2>3
<1>4. misnamed' \in BOOLEAN
  <2>1. misnamed' = misnamed \/ RequestStep
    BY MisnamedStays
  <2> QED
    BY <2>1 DEF WTypeOK, RequestStep, CreateWorkspace, UpdateWorkspace,
                DeleteWorkspace, aside
<1> QED
  BY <1>1, <1>2, <1>3, <1>4 DEF WTypeOK, RowState, ActState, NamedWhilePresent

-----------------------------------------------------------------------------
(***************************************************************************)
(* What a step leaves alone.                                               *)
(***************************************************************************)

\* The remote workspaces made for row r keep their name and their parameters,
\* and none of them comes back.
Still(r) ==
    \A x \in Remotes :
        /\ Of(x, r)' <=> Of(x, r)
        /\ Of(x, r) => /\ coder'[x].name = coder[x].name
                       /\ coder'[x].params = coder[x].params
                       /\ Present(x)' => Present(x)

\* The place of worker w, the outcome of its build aside.
SamePlace(w) == /\ act'[w].at = act[w].at
                /\ act'[w].remote = act[w].remote
                /\ act'[w].seen = act[w].seen

\* An untouched row stays true.
LEMMA RowStays ==
    ASSUME WTypeOK, NEW r \in Resources, RowIsTrue(r), Still(r),
           rows'[r] = rows[r], RowKept(r)
    PROVE  RowIsTrue(r)'
<1>0. rows[r].remote \in Remotes \cup {NoRemote}
  BY Typed DEF RowState
<1>1. /\ resources'[r].action = resources[r].action
      /\ RowPresent(r)' <=> RowPresent(r)
      /\ (resources'[r].status = "success") <=> (resources[r].status = "success")
      /\ (resources'[r].status \in Unsettled) <=> (resources[r].status \in Unsettled)
  BY DEF RowKept, Unsettled, RowPresent
<1>2. \A x \in Remotes : (Of(x, r)' /\ Present(x)') =>
         /\ Of(x, r) /\ Present(x)
         /\ Follows(x, r) => Follows(x, r)'
  BY <1>1 DEF Still, Follows
<1>3. \A x \in Remotes : (Of(x, r)' /\ Present(x)') => RowPresent(r)' /\ Follows(x, r)'
  BY <1>1, <1>2 DEF RowIsTrue
<1>4. \A x, y \in Remotes :
         (Of(x, r)' /\ Present(x)' /\ Of(y, r)' /\ Present(y)') => x = y
  BY <1>2 DEF RowIsTrue
<1>5. rows'[r].remote # NoRemote =>
         /\ rows[r].remote \in Remotes
         /\ Of(rows[r].remote, r) /\ Of(rows[r].remote, r)'
         /\ coder'[rows[r].remote].name = coder[rows[r].remote].name
         /\ coder'[rows[r].remote].params = coder[rows[r].remote].params
  <2> SUFFICES ASSUME rows[r].remote # NoRemote
               PROVE  /\ rows[r].remote \in Remotes
                      /\ Of(rows[r].remote, r) /\ Of(rows[r].remote, r)'
                      /\ coder'[rows[r].remote].name = coder[rows[r].remote].name
                      /\ coder'[rows[r].remote].params = coder[rows[r].remote].params
    OBVIOUS
  <2>1. PICK x \in Remotes : x = rows[r].remote
    BY <1>0
  <2>2. Of(x, r)
    BY <2>1 DEF RowIsTrue
  <2>3. Of(x, r)' /\ coder'[x].name = coder[x].name /\ coder'[x].params = coder[x].params
    BY <2>2 DEF Still
  <2> QED
    BY <2>1, <2>2, <2>3 DEF Of
<1>6. (RowPresent(r)' /\ ~rows'[r].dirty) => Applied(r)'
  BY <1>1, <1>2, <1>5 DEF RowIsTrue, Applied
<1>7. resources'[r].status = "success" =>
         ~rows'[r].dirty /\ coder'[rows'[r].remote].name = rows'[r].name
  <2> SUFFICES ASSUME resources'[r].status = "success"
               PROVE  ~rows'[r].dirty /\ coder'[rows'[r].remote].name = rows'[r].name
    OBVIOUS
  <2>1. /\ ~rows[r].dirty /\ coder[rows[r].remote].name = rows[r].name
        /\ RowPresent(r)
    BY <1>1 DEF RowIsTrue, RowPresent
  <2>2. rows[r].remote # NoRemote
    BY <2>1 DEF RowIsTrue, Applied
  <2> QED
    BY <1>5, <2>1, <2>2
<1>8. (resources'[r].action = "creating" /\ resources'[r].status \in Unsettled) =>
         /\ rows'[r].dirty
         /\ \A x \in Remotes :
               (Of(x, r)' /\ Present(x)') => coder'[x].params = rows'[r].params
  BY <1>1, <1>2 DEF RowIsTrue, Still
<1>9. rows'[r].remote # NoRemote => Of(rows[r].remote, r)'
  BY <1>5
<1> QED
  BY <1>3, <1>4, <1>6, <1>7, <1>8, <1>9 DEF RowIsTrue

\* A worker that does not move still knows what it knew of an untouched row.
LEMMA KnowsStays ==
    ASSUME NEW w \in Workers, NEW r \in Resources, Knows(w, r), Still(r),
           rows'[r] = rows[r], claims'[w] = claims[w], SamePlace(w)
    PROVE  Knows(w, r)'
<1>1. act[w].at = "missing" => \A y \in Remotes : Of(y, r)' => ~Present(y)'
  BY DEF Knows, Still
<1>2. act[w].at \in Placed =>
         /\ act[w].remote \in Remotes
         /\ Of(act[w].remote, r)
         /\ coder'[act[w].remote].name = coder[act[w].remote].name
         /\ coder'[act[w].remote].params = coder[act[w].remote].params
         /\ coder'[act[w].remote].status # "unused"
         /\ coder'[act[w].remote].row = r
         /\ \A y \in Remotes : (Of(y, r)' /\ Present(y)') => y = act[w].remote
         /\ ~rows'[r].dirty => rows'[r].remote = act[w].remote
  <2> SUFFICES ASSUME act[w].at \in Placed
               PROVE  /\ act[w].remote \in Remotes
                      /\ Of(act[w].remote, r)
                      /\ coder'[act[w].remote].name = coder[act[w].remote].name
                      /\ coder'[act[w].remote].params = coder[act[w].remote].params
                      /\ coder'[act[w].remote].status # "unused"
                      /\ coder'[act[w].remote].row = r
                      /\ \A y \in Remotes : (Of(y, r)' /\ Present(y)') => y = act[w].remote
                      /\ ~rows'[r].dirty => rows'[r].remote = act[w].remote
    OBVIOUS
  <2>1. /\ act[w].remote \in Remotes
        /\ Of(act[w].remote, r)
        /\ \A y \in Remotes : (Of(y, r) /\ Present(y)) => y = act[w].remote
        /\ ~rows[r].dirty => rows[r].remote = act[w].remote
    BY DEF Knows
  <2>2. PICK x \in Remotes : x = act[w].remote
    BY <2>1
  <2>3. Of(x, r)' /\ coder'[x].name = coder[x].name /\ coder'[x].params = coder[x].params
    BY <2>1, <2>2 DEF Still
  <2>4. \A y \in Remotes : (Of(y, r)' /\ Present(y)') => y = act[w].remote
    BY <2>1 DEF Still
  <2> QED
    BY <2>1, <2>2, <2>3, <2>4 DEF Of
<1>3. "found" \in Placed /\ "submitted" \in Placed /\ "stored" \in Placed
  BY DEF Placed
<1> QED
  BY <1>1, <1>2, <1>3 DEF Knows, SamePlace, Of

\* It hears nothing new as long as its remote workspace is as it was, or goes.
LEMMA HearsStays ==
    ASSUME NEW w \in Workers, Hears(w), claims'[w] = claims[w],
           act'[w] = act[w],
           AwaitsDeletion(w) =>
              \/ coder'[act[w].remote].status = coder[act[w].remote].status
              \/ coder'[act[w].remote].status = "gone"
    PROVE  Hears(w)'
BY DEF Hears, AwaitsDeletion

\* A worker at the beginning of its step claims to know nothing.
LEMMA NothingKnown ==
    ASSUME NEW w \in Workers, NEW r, act'[w] = NoAct
    PROVE  Knows(w, r)' /\ Hears(w)'
BY DEF NoAct, Act, Knows, Hears, AwaitsDeletion, Placed

\* Who owns a row after a step owned it before, or has just claimed it.
LEMMA WorksOnStep ==
    ASSUME Fence, Fence', [WNext]_wvars, NEW w \in Workers, NEW r,
           WorksOn(w, r)'
    PROVE  \/ WorksOn(w, r) /\ claims'[w] = claims[w]
           \/ Begins(w)
<1>1. GoesOn(w) \/ Begins(w)
  BY CurrentStep DEF WorksOn
<1> QED
  BY <1>1 DEF GoesOn, WorksOn

\* The row of a worker is running its step.
RowsRun ==
    \A w \in Workers, r \in Resources : WorksOn(w, r) =>
        /\ resources[r].status = "running"
        /\ \/ claims[w].step = CreateStep /\ resources[r].action = "creating"
           \/ claims[w].step = UpdateStep /\ resources[r].action = "updating"
           \/ claims[w].step = DeleteStep /\ resources[r].action = "deleting"

\* This follows from the fence, now ...
LEMMA RunningRows == Fence => RowsRun
BY CurrentRow, CurrentPlace DEF RowsRun, WorksOn, Fence

\* ... and after the step.
LEMMA RunningRowsAfter == Fence' => RowsRun'
BY RunningRows, PTL

\* An engine step, a claim or the end of an attempt: no row and no remote
\* workspace changes but for the status of a row.
LEMMA AloneStep ==
    ASSUME WTypeOK, Fence, Fence', [WNext]_wvars, RowsAreTrue, WorkersKnow,
           coder' = coder, rows' = rows, \A r \in Resources : RowKept(r),
           \A w \in Workers, r \in Resources :
              WorksOn(w, r)' => act'[w] \in {act[w], NoAct},
           \A w \in Workers : Begins(w) => act'[w] = NoAct
    PROVE  RowsAreTrue' /\ WorkersKnow'
<1>1. \A r \in Resources : Still(r)
  BY DEF Still, Of, Present
<1>2. RowsAreTrue'
  BY <1>1, RowStays DEF RowsAreTrue
<1>3. ASSUME NEW w \in Workers, NEW r \in Resources, WorksOn(w, r)'
      PROVE  Knows(w, r)' /\ Hears(w)'
  <2>1. CASE act'[w] = NoAct
    BY <2>1, NothingKnown
  <2>2. CASE act'[w] = act[w] /\ WorksOn(w, r) /\ claims'[w] = claims[w]
    <3>1. Knows(w, r) /\ Hears(w)
      BY <2>2 DEF WorkersKnow
    <3>2. SamePlace(w)
      BY <2>2 DEF SamePlace
    <3> QED
      BY <1>1, <2>2, <3>1, <3>2, KnowsStays, HearsStays
  <2> QED
    BY <1>3, <2>1, <2>2, WorksOnStep
<1> QED
  BY <1>2, <1>3 DEF WorkersKnow

\* A worker that claims a job starts its step from the beginning.
LEMMA BeginsBlank ==
    ASSUME WTypeOK, NEW w \in Workers, Begins(w)
    PROVE  act'[w] = NoAct
BY GoesTo DEF Begins, WClaim

\* A step that settles, removes or requests row r, and leaves nobody working on
\* it, need only keep that row true.
LEMMA OneRowStep ==
    ASSUME WTypeOK, Fence, Fence', [WNext]_wvars, RowsAreTrue, WorkersKnow,
           NEW r \in Resources, RowIsTrue(r)', coder' = coder,
           \A q \in Resources : q # r => /\ rows'[q] = rows[q]
                                         /\ resources'[q] = resources[q],
           resources'[r].status # "running",
           \A w \in Workers : act'[w] = act[w] \/ claims'[w] = NoClaim
    PROVE  RowsAreTrue' /\ WorkersKnow'
<1>1. \A q \in Resources : Still(q)
  BY DEF Still, Of, Present
<1>2. \A q \in Resources : q # r => RowKept(q)
  BY DEF RowKept
<1>3. RowsAreTrue'
  BY <1>1, <1>2, RowStays DEF RowsAreTrue
<1>4. ASSUME NEW w \in Workers, NEW q \in Resources, WorksOn(w, q)'
      PROVE  Knows(w, q)' /\ Hears(w)'
  <2>1. q # r
    BY <1>4, RunningRowsAfter DEF RowsRun
  <2>2. act'[w] = act[w]
    BY <1>4 DEF WorksOn, Current
  <2>3. CASE WorksOn(w, q) /\ claims'[w] = claims[w]
    <3>1. Knows(w, q) /\ Hears(w)
      BY <2>3 DEF WorkersKnow
    <3>2. SamePlace(w)
      BY <2>2 DEF SamePlace
    <3> QED
      BY <1>1, <2>1, <2>2, <2>3, <3>1, <3>2, KnowsStays, HearsStays
  <2>4. CASE Begins(w)
    BY <2>4, BeginsBlank, NothingKnown
  <2> QED
    BY <1>4, <2>3, <2>4, WorksOnStep
<1> QED
  BY <1>3, <1>4 DEF WorkersKnow

\* A new name is one that no other row has.
LEMMA NamesStay ==
    ASSUME NEW r \in Resources, NEW n, NamesAreUnique, NameIsFree(r, n),
           \A q \in Resources : rows'[q].name = IF q = r THEN n ELSE rows[q].name
    PROVE  NamesAreUnique'
BY DEF NamesAreUnique, NameIsFree

\* A new row has no remote workspace yet.
LEMMA CreateInv ==
    ASSUME WTypeOK, Fence, Fence', [WNext]_wvars, NamesAreUnique, RowsAreTrue,
           WorkersKnow, NEW j \in NewIds, NEW r \in Resources, NEW n \in Names,
           NEW v \in Values, CreateWorkspace(j, r, n, v)
    PROVE  NamesAreUnique' /\ RowsAreTrue' /\ WorkersKnow'
<1> DEFINE new == Row(n, v, TRUE, NoRemote)
<1>1. PICK t \in Transitions : t.name = "workspace.create" /\ Request(j, r, t)
  BY DEF CreateWorkspace
<1>2. Asked(r, "creating") /\ resources[r].status = "absent"
  BY <1>1, RequestAsks
<1>3. /\ \A q \in Resources : rows'[q] = IF q = r THEN new ELSE rows[q]
      /\ coder' = coder /\ act' = act
  BY Typed DEF CreateWorkspace, SetRow
<1>4. new.name = n /\ new.dirty = TRUE /\ new.remote = NoRemote
  BY DEF Row
<1>5. RowIsTrue(r)'
  <2>1. \A x \in Remotes : ~(Of(x, r) /\ Present(x))
    BY <1>2 DEF RowsAreTrue, RowIsTrue, RowPresent
  <2>2. \A x \in Remotes : ~(Of(x, r)' /\ Present(x)')
    BY <1>3, <2>1 DEF Of, Present
  <2>3. rows'[r] = new
    BY <1>3
  <2> HIDE DEF new
  <2> QED
    BY <1>2, <1>4, <2>2, <2>3 DEF RowIsTrue, Asked
<1>6. NameIsFree(r, n)
  BY DEF CreateWorkspace
<1> HIDE DEF new
<1>7. \A q \in Resources : rows'[q].name = IF q = r THEN n ELSE rows[q].name
  BY <1>3, <1>4
<1>8. NamesAreUnique'
  BY <1>6, <1>7, NamesStay
<1>9. /\ \A q \in Resources : q # r => /\ rows'[q] = rows[q]
                                       /\ resources'[q] = resources[q]
      /\ resources'[r].status # "running"
  BY <1>2, <1>3 DEF Asked
<1> QED
  BY <1>3, <1>5, <1>8, <1>9, OneRowStep

\* A row that is not misnamed knows its remote workspace or keeps its name, and
\* an update that changes no parameter leaves them applied.
LEMMA UpdateInv ==
    ASSUME ~misnamed', WTypeOK, Fence, Fence', [WNext]_wvars, NamesAreUnique,
           RowsAreTrue, WorkersKnow, NEW j \in NewIds, NEW r \in Resources,
           NEW n \in Names, NEW v \in Values, UpdateWorkspace(j, r, n, v)
    PROVE  NamesAreUnique' /\ RowsAreTrue' /\ WorkersKnow'
<1> DEFINE new == Row(n, v, Changed(r, v), rows[r].remote)
<1>1. PICK t \in Transitions : t.name = "workspace.update" /\ Request(j, r, t)
  BY DEF UpdateWorkspace
<1>2. Asked(r, "updating") /\ resources[r].status \in {"success", "error"}
  BY <1>1, RequestAsks
<1>3. /\ \A q \in Resources : rows'[q] = IF q = r THEN new ELSE rows[q]
      /\ coder' = coder /\ act' = act
  BY Typed DEF UpdateWorkspace, SetRow
<1>4. /\ new.name = n /\ new.params = v /\ new.remote = rows[r].remote
      /\ ~new.dirty => ~rows[r].dirty /\ v = rows[r].params
  BY DEF Row, Changed
<1>5. RowIsTrue(r)'
  <2>0. rows'[r] = new /\ RowIsTrue(r) /\ RowPresent(r) /\ RowPresent(r)'
    BY <1>2, <1>3 DEF RowsAreTrue, RowPresent, Asked
  <2>1. \A x \in Remotes : (Of(x, r)' <=> Of(x, r)) /\ (Present(x)' <=> Present(x))
    BY <1>3 DEF Of, Present
  <2>2. ASSUME NEW x \in Remotes, Of(x, r), Present(x)
        PROVE  Follows(x, r)'
    <3>0. Follows(x, r)
      BY <2>0, <2>2 DEF RowIsTrue
    <3>1. CASE n = rows[r].name
      BY <1>2, <1>3, <1>4, <2>0, <3>0, <3>1 DEF Follows, Asked
    <3>2. CASE n # rows[r].name
      <4>1. ~Misnames(r, n)
        BY DEF UpdateWorkspace
      <4>2. coder[x].name = n \/ rows[r].remote = x
        BY <2>2, <4>1 DEF Misnames, Of
      <4>3. rows'[r].name = n /\ rows'[r].remote = rows[r].remote
            /\ resources'[r].action # "creating"
        BY <1>2, <1>4, <2>0 DEF Asked
      <4> QED
        BY <1>3, <4>2, <4>3 DEF Follows
    <3> QED
      BY <3>1, <3>2
  <2>3. ~rows'[r].dirty => Applied(r)'
    <3> SUFFICES ASSUME ~rows'[r].dirty
                 PROVE  Applied(r)'
      OBVIOUS
    <3>1. Applied(r) /\ v = rows[r].params
      BY <1>4, <2>0 DEF RowIsTrue
    <3> HIDE DEF new
    <3> QED
      BY <1>3, <1>4, <2>0, <2>1, <3>1 DEF Applied
  <2>4. rows'[r].remote # NoRemote => Of(rows[r].remote, r)'
    <3> HIDE DEF new
    <3> QED
      BY <1>3, <1>4, <2>0 DEF RowIsTrue, Of
  <2>5. resources'[r].status # "success" /\ resources'[r].action # "creating"
    BY <1>2 DEF Asked
  <2>6. \A x, y \in Remotes :
           (Of(x, r)' /\ Present(x)' /\ Of(y, r)' /\ Present(y)') => x = y
    BY <2>0, <2>1 DEF RowIsTrue
  <2> HIDE DEF new
  <2> QED
    BY <2>0, <2>1, <2>2, <2>3, <2>4, <2>5, <2>6 DEF RowIsTrue
<1>6. NameIsFree(r, n)
  BY DEF UpdateWorkspace
<1> HIDE DEF new
<1>7. \A q \in Resources : rows'[q].name = IF q = r THEN n ELSE rows[q].name
  BY <1>3, <1>4
<1>8. NamesAreUnique'
  BY <1>6, <1>7, NamesStay
<1>9. /\ \A q \in Resources : q # r => /\ rows'[q] = rows[q]
                                       /\ resources'[q] = resources[q]
      /\ resources'[r].status # "running"
  BY <1>2, <1>3 DEF Asked
<1> QED
  BY <1>3, <1>5, <1>8, <1>9, OneRowStep

\* A deletion asks for nothing else.
LEMMA DeleteInv ==
    ASSUME WTypeOK, Fence, Fence', [WNext]_wvars, NamesAreUnique,
           RowsAreTrue, WorkersKnow, NEW j \in NewIds, NEW r \in Resources,
           DeleteWorkspace(j, r)
    PROVE  NamesAreUnique' /\ RowsAreTrue' /\ WorkersKnow'
<1>1. PICK t \in Transitions : t.name = "workspace.delete" /\ Request(j, r, t)
  BY DEF DeleteWorkspace
<1>2. Asked(r, "deleting") /\ resources[r].status \in {"success", "error"}
  BY <1>1, RequestAsks
<1>3. coder' = coder /\ act' = act /\ rows' = rows
  BY DEF DeleteWorkspace, aside
<1>4. RowIsTrue(r)'
  <2>1. /\ RowIsTrue(r) /\ RowPresent(r)
        /\ resources'[r].action = "deleting" /\ resources'[r].status = "pending"
    BY <1>2 DEF RowsAreTrue, RowPresent, Asked
  <2> QED
    BY <1>3, <2>1 DEF RowIsTrue, Follows, Applied, Of, Present, RowPresent
<1>5. NamesAreUnique'
  BY <1>3 DEF NamesAreUnique
<1>6. /\ \A q \in Resources : q # r => /\ rows'[q] = rows[q]
                                       /\ resources'[q] = resources[q]
      /\ resources'[r].status # "running"
  BY <1>2, <1>3 DEF Asked
<1> QED
  BY <1>3, <1>4, <1>5, <1>6, OneRowStep

\* A completed creation or update leaves the row with its own workspace, under
\* the requested name and with the requested parameters.
LEMMA SettleInv ==
    ASSUME WTypeOK, Fence, Fence', [WNext]_wvars, NamesAreUnique,
           RowsAreTrue, WorkersKnow, NEW w \in Workers, Settle(w)
    PROVE  NamesAreUnique' /\ RowsAreTrue' /\ WorkersKnow'
<1>1. /\ Complete(w) /\ claims[w].step # DeleteStep
      /\ act[w].at \in {"submitted", "stored"}
  BY DEF Settle, Built
<1>2. /\ Mine(w) \in Resources /\ Current(w)
      /\ \A q \in Resources : q # Mine(w) => resources'[q] = resources[q]
      /\ resources'[Mine(w)].status = "success"
      /\ claims'[w] = NoClaim
  BY <1>1, CompletionEnds DEF Fence
<1>3. PICK r \in Resources : r = Mine(w)
  BY <1>2
<1> DEFINE x   == act[w].remote
           new == Row(rows[r].name, rows[r].params, FALSE, x)
<1>4. /\ \A q \in Resources : rows'[q] = IF q = r THEN new ELSE rows[q]
      /\ coder' = coder
      /\ \A v \in Workers : v # w => act'[v] = act[v]
  BY <1>3, GoesTo, Typed DEF Settle, SetRow
<1>5. /\ new.name = rows[r].name /\ new.params = rows[r].params
      /\ new.dirty = FALSE /\ new.remote = x
  BY DEF Row
<1>6. Knows(w, r)
  BY <1>2, <1>3 DEF WorkersKnow, WorksOn
<1>7. /\ x \in Remotes /\ Of(x, r)
      /\ \A y \in Remotes : (Of(y, r) /\ Present(y)) => y = x
      /\ coder[x].name = rows[r].name
      /\ coder[x].params = rows[r].params
  BY <1>1, <1>6 DEF Knows, Placed
<1>8. RowIsTrue(r)'
  <2>0. rows'[r] = new /\ RowPresent(r)' /\ resources'[r].status = "success"
    BY <1>2, <1>3, <1>4 DEF RowPresent
  <2>1. \A y \in Remotes : (Of(y, r)' <=> Of(y, r)) /\ (Present(y)' <=> Present(y))
    BY <1>4 DEF Of, Present
  <2> HIDE DEF new, x
  <2>2. Applied(r)'
    BY <1>4, <1>5, <1>7, <2>0, <2>1 DEF Applied
  <2>3. \A y \in Remotes : (Of(y, r)' /\ Present(y)') => Follows(y, r)'
    BY <1>4, <1>5, <1>7, <2>0, <2>1 DEF Follows
  <2>4. Of(rows[r].remote, r)'
    BY <1>4, <1>5, <1>7, <2>0 DEF Of
  <2>5. \A y, z \in Remotes :
           (Of(y, r)' /\ Present(y)' /\ Of(z, r)' /\ Present(z)') => y = z
    BY <1>7, <2>1
  <2>6. ~rows'[r].dirty /\ coder'[rows'[r].remote].name = rows'[r].name
    BY <1>4, <1>5, <1>7, <2>0
  <2> QED
    BY <2>0, <2>1, <2>2, <2>3, <2>4, <2>5, <2>6 DEF RowIsTrue, Unsettled
<1> HIDE DEF new, x
<1>9. NamesAreUnique'
  <2>1. \A q \in Resources : rows'[q].name = rows[q].name
    BY <1>4, <1>5
  <2> QED
    BY <2>1 DEF NamesAreUnique
<1>10. /\ \A q \in Resources : q # r => /\ rows'[q] = rows[q]
                                        /\ resources'[q] = resources[q]
       /\ resources'[r].status # "running"
       /\ \A v \in Workers : act'[v] = act[v] \/ claims'[v] = NoClaim
  BY <1>2, <1>3, <1>4
<1> QED
  BY <1>4, <1>8, <1>9, <1>10, OneRowStep

\* A row is removed when nothing of it is left.
LEMMA RemoveInv ==
    ASSUME WTypeOK, Fence, Fence', [WNext]_wvars, NamesAreUnique,
           RowsAreTrue, WorkersKnow, NEW w \in Workers, Remove(w)
    PROVE  NamesAreUnique' /\ RowsAreTrue' /\ WorkersKnow'
<1>1. /\ Complete(w) /\ claims[w].step = DeleteStep
      /\ \/ act[w].at = "stored" /\ act[w].build = "done"
         \/ act[w].at = "missing"
  BY DEF Remove, Built
<1>2. /\ Mine(w) \in Resources /\ Current(w)
      /\ \A q \in Resources : q # Mine(w) => resources'[q] = resources[q]
      /\ resources'[Mine(w)].status = "absent"
      /\ claims'[w] = NoClaim
  BY <1>1, CompletionEnds DEF Fence, AbsentResource
<1>3. PICK r \in Resources : r = Mine(w)
  BY <1>2
<1>4. /\ \A q \in Resources : rows'[q] = IF q = r THEN EmptyRow ELSE rows[q]
      /\ coder' = coder
      /\ \A v \in Workers : v # w => act'[v] = act[v]
  BY <1>3, GoesTo, Typed DEF Remove, SetRow
<1>5. EmptyRow.name = NoName /\ EmptyRow.dirty = TRUE /\ EmptyRow.remote = NoRemote
  BY DEF EmptyRow, Row
<1>6. Knows(w, r) /\ Hears(w)
  BY <1>2, <1>3 DEF WorkersKnow, WorksOn
<1>7. \A y \in Remotes : Of(y, r) => ~Present(y)
  <2>1. CASE act[w].at = "missing"
    BY <1>6, <2>1 DEF Knows
  <2>2. CASE act[w].at = "stored" /\ act[w].build = "done"
    <3>1. \A y \in Remotes : (Of(y, r) /\ Present(y)) => y = act[w].remote
      BY <1>6, <2>2 DEF Knows, Placed
    <3>2. coder[act[w].remote].status = "gone"
      BY <1>1, <1>6, <2>2 DEF Hears, AwaitsDeletion
    <3> QED
      BY <3>1, <3>2 DEF Present, BuildStatus
  <2> QED
    BY <1>1, <2>1, <2>2
<1>8. RowIsTrue(r)'
  <2>0. rows'[r] = EmptyRow /\ resources'[r].status = "absent"
    BY <1>2, <1>3, <1>4
  <2>1. \A y \in Remotes : ~(Of(y, r)' /\ Present(y)')
    BY <1>4, <1>7 DEF Of, Present
  <2> QED
    BY <1>5, <2>0, <2>1 DEF RowIsTrue, Unsettled
<1>9. NamesAreUnique'
  BY <1>4, <1>5 DEF NamesAreUnique
<1>10. /\ \A q \in Resources : q # r => /\ rows'[q] = rows[q]
                                        /\ resources'[q] = resources[q]
       /\ resources'[r].status # "running"
       /\ \A v \in Workers : act'[v] = act[v] \/ claims'[v] = NoClaim
  BY <1>2, <1>3, <1>4
<1> QED
  BY <1>4, <1>8, <1>9, <1>10, OneRowStep

-----------------------------------------------------------------------------
(***************************************************************************)
(* The lookup, the other systems and the engine.                           *)
(***************************************************************************)

\* The lookup of a step finds the remote workspace made for its row, if there is
\* one, and no other: by its identifier, or by a name that no other one has.
LEMMA LookupFinds ==
    ASSUME WTypeOK, RemotesAreTrue, NoStrangers, RowsAreTrue,
           NEW r \in Resources, RowPresent(r), NEW x \in Remotes
    PROVE  x \in Lookup(r) <=> Of(x, r) /\ Present(x)
<1> DEFINE stored == {y \in Remotes : y = rows[r].remote /\ Present(y)}
<1>0. RowIsTrue(r) /\ rows[r].name # NoName
  BY Typed DEF RowsAreTrue, NamedWhilePresent
<1>1. Lookup(r) = IF stored # {} THEN stored ELSE ByName(rows[r].name)
  BY DEF Lookup
<1>2. \A y \in stored : y \in Remotes /\ Of(y, r) /\ Present(y)
  <2> SUFFICES ASSUME NEW y \in stored
               PROVE  y \in Remotes /\ Of(y, r) /\ Present(y)
    OBVIOUS
  <2>1. y \in Remotes /\ y = rows[r].remote /\ Present(y) /\ rows[r].remote # NoRemote
    OBVIOUS
  <2> QED
    BY <1>0, <2>1 DEF RowIsTrue
<1>3. CASE stored # {}
  <2>1. PICK y \in stored : TRUE
    BY <1>3
  <2>2. (Of(x, r) /\ Present(x)) => x = y
    BY <1>0, <1>2, <2>1 DEF RowIsTrue
  <2> HIDE DEF stored
  <2> QED
    BY <1>1, <1>2, <1>3, <2>1, <2>2
<1>4. CASE stored = {}
  <2>1. Present(x) => coder[x].status # "unused"
    BY DEF Present, BuildStatus
  <2>2. ASSUME Present(x), coder[x].name = rows[r].name
        PROVE  coder[x].row = r
    BY <2>2 DEF NoStrangers
  <2>3. ASSUME Of(x, r), Present(x)
        PROVE  coder[x].name = rows[r].name
    <3>1. Follows(x, r)
      BY <1>0, <2>3 DEF RowIsTrue
    <3>2. rows[r].remote # x
      BY <1>4, <2>3
    <3> QED
      BY <3>1, <3>2 DEF Follows
  <2>4. x \in Lookup(r) <=> Present(x) /\ coder[x].name = rows[r].name
    BY <1>1, <1>4 DEF ByName
  <2> HIDE DEF stored
  <2> QED
    BY <2>1, <2>2, <2>3, <2>4 DEF Of
<1> QED
  BY <1>3, <1>4

\* A lookup returns remote workspaces.
LEMMA LookupType == \A r : Lookup(r) \subseteq Remotes
BY DEF Lookup, ByName

\* A worker that waits for a deletion has a remote workspace.
LEMMA AwaitedIsPlaced ==
    ASSUME NEW w \in Workers, NEW r, Knows(w, r), AwaitsDeletion(w)
    PROVE  act[w].remote \in Remotes /\ Of(act[w].remote, r)
BY DEF Knows, AwaitsDeletion, Placed

\* Coder finishes, fails or starts a build: nobody loses what it knows, and the
\* end of an awaited deletion is the end of the remote workspace.
LEMMA EnvironmentInv ==
    ASSUME WTypeOK, Fence, Fence', [WNext]_wvars, NamesAreUnique,
           RowsAreTrue, WorkersKnow, NEW x \in Remotes, Environment(x)
    PROVE  NamesAreUnique' /\ RowsAreTrue' /\ WorkersKnow'
<1>1. PICK t \in {"start", "stop", "delete"}, st \in BuildStatus \cup {"gone"} :
         /\ Present(x)
         /\ coder' = [coder EXCEPT ![x] = Workspace(coder[x].row,
                        coder[x].name, coder[x].params, t, st)]
         /\ \/ /\ act' = act
               /\ coder[x].status \notin Active
               /\ \/ t = "stop" /\ st = "stopping"
                  \/ t = "delete" /\ st = "deleting"
            \/ /\ coder[x].status \in Active
               /\ t = coder[x].transition
               /\ \/ /\ Notify(x, "failed")
                     /\ \/ st = "failed"
                        \/ coder[x].status = "stopping" /\ st = "stopped"
                  \/ /\ Notify(x, "done")
                     /\ \/ coder[x].status = "starting" /\ st = "running"
                        \/ coder[x].status = "deleting" /\ st = "gone"
  BY EnvironmentStep
<1>0. ASSUME NEW b \in {"done", "failed"}, Notify(x, b), NEW w \in Workers
      PROVE  act'[w].build = IF act[w].remote = x /\ act[w].build = "active"
                             THEN b ELSE act[w].build
  BY <1>0, Notified
<1>2. rows' = rows /\ resources' = resources /\ claims' = claims
  BY EnvironmentVars DEF Fence, Tick
<1>3. /\ \A y \in Remotes : y # x => coder'[y] = coder[y]
      /\ coder'[x].row = coder[x].row /\ coder'[x].name = coder[x].name
      /\ coder'[x].params = coder[x].params /\ coder'[x].status = st
  BY <1>1, Typed DEF Workspace
<1>4. coder[x].status \notin {"unused", "gone"} /\ st # "unused"
  BY <1>1 DEF Present, BuildStatus
<1>5. \A r \in Resources : Still(r)
  <2> SUFFICES ASSUME NEW r \in Resources, NEW y \in Remotes
               PROVE  /\ Of(y, r)' <=> Of(y, r)
                      /\ Of(y, r) => /\ coder'[y].name = coder[y].name
                                     /\ coder'[y].params = coder[y].params
                                     /\ Present(y)' => Present(y)
    BY DEF Still
  <2>1. CASE y # x
    BY <1>3, <2>1 DEF Of, Present
  <2>2. CASE y = x
    BY <1>1, <1>3, <1>4, <2>2 DEF Of
  <2> QED
    BY <2>1, <2>2
<1>6. RowsAreTrue'
  BY <1>2, <1>5, RowStays DEF RowsAreTrue, RowKept
<1>7. ASSUME NEW w \in Workers, NEW r \in Resources, WorksOn(w, r)
      PROVE  Knows(w, r)' /\ Hears(w)'
  <2>1. Knows(w, r) /\ Hears(w)
    BY <1>7 DEF WorkersKnow
  <2>2. SamePlace(w)
    BY <1>1, Notified DEF SamePlace
  <2>3. Knows(w, r)'
    BY <1>2, <1>5, <2>1, <2>2, KnowsStays
  <2>4. AwaitsDeletion(w)' <=> AwaitsDeletion(w)
    BY <1>2, <2>2 DEF AwaitsDeletion, SamePlace
  <2>5. ASSUME ~AwaitsDeletion(w)
        PROVE  Hears(w)'
    BY <2>4, <2>5 DEF Hears
  <2>6. ASSUME AwaitsDeletion(w)
        PROVE  Hears(w)'
    <3>1. PICK y \in Remotes : y = act[w].remote
      BY <2>1, <2>6, AwaitedIsPlaced
    <3>2. act'[w].remote = y
      BY <2>2, <3>1 DEF SamePlace
    <3>3. /\ act[w].build = "active" => coder[y].status \in {"deleting", "gone"}
          /\ act[w].build = "done" => coder[y].status = "gone"
      BY <2>1, <2>6, <3>1 DEF Hears
    <3>4. CASE y # x
      <4>1. act'[w].build = act[w].build /\ coder'[y] = coder[y]
        BY <1>1, <1>3, <3>1, <3>4, Notified
      <4> QED
        BY <3>2, <3>3, <4>1 DEF Hears
    <3>5. CASE y = x /\ act' = act /\ coder[x].status \notin Active
      <4>1. act'[w].build \notin {"active", "done"}
        BY <1>4, <3>3, <3>5 DEF Active
      <4> QED
        BY <4>1 DEF Hears
    <3>6. CASE y = x /\ Notify(x, "failed")
      <4>1. act'[w].build \notin {"active", "done"}
        BY <1>0, <1>4, <3>1, <3>3, <3>6
      <4> QED
        BY <4>1 DEF Hears
    <3>7. CASE y = x /\ Notify(x, "done")
      <4>1. act'[w].build = IF act[w].build = "active" THEN "done" ELSE act[w].build
        BY <1>0, <3>1, <3>7
      <4>2. act[w].build # "done"
        BY <1>4, <3>3, <3>7
      <4>3. act[w].build = "active" => coder[x].status = "deleting"
        BY <1>4, <3>3, <3>7
      <4>4. (coder[x].status = "deleting" /\ ~(st = "failed" /\ Notify(x, "failed")))
               => st = "gone"
        BY <1>1 DEF Active
      <4>5. CASE Notify(x, "failed")
        BY <3>6, <3>7, <4>5
      <4>6. CASE ~Notify(x, "failed")
        BY <1>3, <3>2, <3>7, <4>1, <4>2, <4>3, <4>4, <4>6 DEF Hears
      <4> QED
        BY <4>5, <4>6
    <3> QED
      BY <1>1, <3>4, <3>5, <3>6, <3>7
  <2> QED
    BY <2>3, <2>5, <2>6
<1>8. ASSUME NEW w \in Workers, NEW r \in Resources, WorksOn(w, r)'
      PROVE  Knows(w, r)' /\ Hears(w)'
  <2>1. CASE Begins(w)
    BY <2>1, BeginsBlank, NothingKnown
  <2> QED
    BY <1>7, <1>8, <2>1, WorksOnStep
<1> QED
  BY <1>2, <1>6, <1>8 DEF NamesAreUnique, WorkersKnow

\* Claims, ends of attempts, the recovery scan and the acceptance of the deletion
\* of the instance touch no row's data and no remote workspace.
LEMMA QuietInv ==
    ASSUME WTypeOK, Fence, Fence', [WNext]_wvars, NamesAreUnique, RowsAreTrue,
           WorkersKnow,
           \/ \E w \in Workers, m \in queue : WClaim(w, m)
           \/ \E w \in Workers : FailBuild(w) \/ WStop(w)
           \/ EngineStep
           \/ DeleteInstance \/ SweepDone \/ UNCHANGED wvars
    PROVE  NamesAreUnique' /\ RowsAreTrue' /\ WorkersKnow'
<1>1. coder' = coder /\ rows' = rows
  BY DEF WClaim, FailBuild, WStop, EngineStep, Engine, aside, DeleteInstance,
         SweepDone, wvars
<1>2. \A r \in Resources : RowKept(r)
  <2>1. CASE DeleteInstance \/ SweepDone \/ UNCHANGED wvars
    BY <2>1 DEF DeleteInstance, SweepDone, wvars, vars, RowKept
  <2> QED
    BY <2>1, EngineKeepsRows
<1>3. act' = act \/ \E w \in Workers : Goto(w, NoAct)
  BY DEF WClaim, FailBuild, WStop, EngineStep, Engine, aside, DeleteInstance,
         SweepDone, wvars
<1>4. \A w \in Workers : act'[w] \in {act[w], NoAct}
  BY <1>3, GoesTo
<1>5. RowsAreTrue' /\ WorkersKnow'
  BY <1>1, <1>2, <1>4, BeginsBlank, AloneStep
<1> QED
  BY <1>1, <1>5 DEF NamesAreUnique

\* With the Application every remote workspace goes.
LEMMA RemoveApplicationInv ==
    ASSUME WTypeOK, Fence, Fence', [WNext]_wvars, NamesAreUnique, RowsAreTrue,
           WorkersKnow, RemoveApplication
    PROVE  NamesAreUnique' /\ RowsAreTrue' /\ WorkersKnow'
<1>1. /\ rows' = rows /\ resources' = resources /\ claims' = claims /\ act' = act
      /\ \A x \in Remotes : coder'[x] =
            IF Present(x) THEN Workspace(coder[x].row, coder[x].name,
                                  coder[x].params, coder[x].transition, "gone")
                          ELSE coder[x]
  BY DEF RemoveApplication, vars
<1>2. ASSUME NEW x \in Remotes
      PROVE  /\ coder'[x].row = coder[x].row /\ coder'[x].name = coder[x].name
             /\ coder'[x].params = coder[x].params
             /\ coder'[x].status \in {coder[x].status, "gone"}
             /\ coder'[x].status = "unused" <=> coder[x].status = "unused"
             /\ ~Present(x)'
  <2>1. CASE Present(x)
    <3>1. coder'[x] = Workspace(coder[x].row, coder[x].name, coder[x].params,
                                coder[x].transition, "gone")
      BY <1>1, <2>1
    <3>2. /\ coder'[x].row = coder[x].row /\ coder'[x].name = coder[x].name
          /\ coder'[x].params = coder[x].params /\ coder'[x].status = "gone"
      BY <3>1 DEF Workspace
    <3>3. coder[x].status # "unused"
      BY <2>1 DEF Present, BuildStatus
    <3>4. ~Present(x)'
      BY <3>2 DEF Present, BuildStatus
    <3> QED
      BY <3>2, <3>3, <3>4
  <2>2. CASE ~Present(x)
    BY <1>1, <2>2 DEF Present
  <2> QED
    BY <2>1, <2>2
<1>3. \A r \in Resources : Still(r)
  BY <1>2 DEF Still, Of
<1>4. RowsAreTrue'
  BY <1>1, <1>3, RowStays DEF RowsAreTrue, RowKept
<1>5. ASSUME NEW w \in Workers, NEW r \in Resources, WorksOn(w, r)
      PROVE  Knows(w, r)' /\ Hears(w)'
  <2>1. Knows(w, r) /\ Hears(w)
    BY <1>5 DEF WorkersKnow
  <2>2. SamePlace(w)
    BY <1>1 DEF SamePlace
  <2>3. Knows(w, r)'
    BY <1>1, <1>3, <2>1, <2>2, KnowsStays
  <2>4. AwaitsDeletion(w) =>
           coder'[act[w].remote].status \in {coder[act[w].remote].status, "gone"}
    BY <1>2, <2>1, AwaitedIsPlaced
  <2>5. Hears(w)'
    BY <1>1, <2>1, <2>4, HearsStays
  <2> QED
    BY <2>3, <2>5
<1>6. ASSUME NEW w \in Workers, NEW r \in Resources, WorksOn(w, r)'
      PROVE  Knows(w, r)' /\ Hears(w)'
  <2>1. CASE Begins(w)
    BY <2>1, BeginsBlank, NothingKnown
  <2> QED
    BY <1>5, <1>6, <2>1, WorksOnStep
<1> QED
  BY <1>1, <1>4, <1>6 DEF NamesAreUnique, WorkersKnow

-----------------------------------------------------------------------------
(***************************************************************************)
(* A worker inside its step.                                               *)
(***************************************************************************)

\* A step works on the remote workspaces of row r only: one that is already of
\* this row, or a new one.
OnlyOf(r) ==
    \A x \in Remotes :
        \/ coder'[x] = coder[x]
        \/ /\ coder'[x].status # "unused" /\ coder'[x].row = r
           /\ coder[x].status = "unused" \/ coder[x].row = r

\* A step inside row r leaves the other rows true and the other workers knowing;
\* what is left to show is about r and the worker w itself.
LEMMA OwnRowStep ==
    ASSUME WTypeOK, Fence, Fence', [WNext]_wvars, NamesAreUnique, RowsAreTrue,
           WorkersKnow, NEW w \in Workers, WorkerStep(w),
           NEW r \in Resources, WorksOn(w, r), OnlyOf(r),
           \A q \in Resources : q # r => rows'[q] = rows[q],
           rows'[r].name = rows[r].name,
           \A v \in Workers : v # w => act'[v] = act[v],
           RowIsTrue(r)', Knows(w, r)', Hears(w)'
    PROVE  NamesAreUnique' /\ RowsAreTrue' /\ WorkersKnow'
<1>1. resources' = resources /\ claims' = claims /\ jobs' = jobs
  BY WorkerStepVars DEF vars
<1>2. ASSUME NEW q \in Resources, q # r
      PROVE  Still(q) /\ \A x \in Remotes : Of(x, q) => coder'[x] = coder[x]
  <2>1. \A x \in Remotes : /\ Of(x, q)' <=> Of(x, q)
                           /\ Of(x, q) => coder'[x] = coder[x]
    BY <1>2 DEF OnlyOf, Of
  <2> QED
    BY <2>1 DEF Still, Present
<1>3. RowsAreTrue'
  BY <1>1, <1>2, RowStays DEF RowsAreTrue, RowKept
<1>4. ASSUME NEW v \in Workers, NEW q \in Resources, WorksOn(v, q)
      PROVE  Knows(v, q)' /\ Hears(v)'
  <2>1. Knows(v, q) /\ Hears(v)
    BY <1>4 DEF WorkersKnow
  <2>2. CASE v = w
    <3>1. q = r
      BY <1>4, <2>2 DEF WorksOn
    <3> QED
      BY <2>2, <3>1
  <2>3. CASE v # w
    <3>1. q # r
      BY <1>4, <2>3, OneWorker DEF WorksOn
    <3>2. act'[v] = act[v] /\ SamePlace(v)
      BY <2>3 DEF SamePlace
    <3>3. Knows(v, q)'
      BY <1>1, <1>2, <2>1, <3>1, <3>2, KnowsStays
    <3>4. AwaitsDeletion(v) => coder'[act[v].remote] = coder[act[v].remote]
      BY <1>2, <2>1, <3>1, AwaitedIsPlaced
    <3>5. Hears(v)'
      BY <1>1, <2>1, <3>2, <3>4, HearsStays
    <3> QED
      BY <3>3, <3>5
  <2> QED
    BY <2>2, <2>3
<1>5. ASSUME NEW v \in Workers, NEW q \in Resources, WorksOn(v, q)'
      PROVE  Knows(v, q)' /\ Hears(v)'
  <2>1. CASE Begins(v)
    BY <2>1, BeginsBlank, NothingKnown
  <2> QED
    BY <1>4, <1>5, <2>1, WorksOnStep
<1>6. NamesAreUnique'
  <2>1. \A q \in Resources : rows'[q].name = rows[q].name
    OBVIOUS
  <2> QED
    BY <2>1 DEF NamesAreUnique
<1> QED
  BY <1>3, <1>5, <1>6 DEF WorkersKnow

\* Where a worker inside its step stands.
Stands(w, r) ==
    /\ Mine(w) = r /\ WorksOn(w, r)
    /\ RowPresent(r) /\ RowIsTrue(r) /\ Knows(w, r) /\ Hears(w)
    /\ resources[r].status = "running"
    /\ \/ claims[w].step = CreateStep /\ resources[r].action = "creating"
                                      /\ rows[r].dirty
       \/ claims[w].step = UpdateStep /\ resources[r].action = "updating"
       \/ claims[w].step = DeleteStep /\ resources[r].action = "deleting"

\* It works on a row that is there and running, and knows what is true of it; a
\* creation has not applied its parameters yet.
LEMMA Standpoint ==
    ASSUME Fence, RowsAreTrue, WorkersKnow, NEW w \in Workers, WorkerStep(w)
    PROVE  \E r \in Resources : Stands(w, r)
<1>1. Current(w)
  BY WorkerStepVars
<1>2. Mine(w) \in Resources /\ RowPresent(Mine(w))
  BY <1>1, CurrentPlace DEF Fence
<1>3. PICK r \in Resources : r = Mine(w)
  BY <1>2
<1>4. WorksOn(w, r) /\ RowPresent(r) /\ RowIsTrue(r) /\ Knows(w, r) /\ Hears(w)
  BY <1>1, <1>2, <1>3 DEF WorksOn, RowsAreTrue, WorkersKnow
<1>5. /\ resources[r].status = "running"
      /\ \/ claims[w].step = CreateStep /\ resources[r].action = "creating"
         \/ claims[w].step = UpdateStep /\ resources[r].action = "updating"
         \/ claims[w].step = DeleteStep /\ resources[r].action = "deleting"
  BY <1>4, RunningRows DEF RowsRun
<1>6. resources[r].action = "creating" => rows[r].dirty
  BY <1>4, <1>5 DEF RowIsTrue, Unsettled
<1> QED
  BY <1>3, <1>4, <1>5, <1>6 DEF Stands

\* The three steps are different.
LEMMA StepsDiffer ==
    CreateStep # UpdateStep /\ CreateStep # DeleteStep /\ UpdateStep # DeleteStep
BY DEF CreateStep, UpdateStep, DeleteStep

\* A worker that looks finds what there is of its row.
LEMMA LookInv ==
    ASSUME WTypeOK, Fence, Fence', [WNext]_wvars, RemotesAreTrue, NoStrangers,
           NamesAreUnique, RowsAreTrue, WorkersKnow, NEW w \in Workers, Look(w)
    PROVE  NamesAreUnique' /\ RowsAreTrue' /\ WorkersKnow'
<1>0. WorkerStep(w)
  BY DEF WorkerStep
<1>1. PICK r \in Resources : Stands(w, r)
  BY <1>0, Standpoint
<1>2. /\ rows' = rows /\ coder' = coder
      /\ resources' = resources /\ claims' = claims
  BY DEF Look, vars
<1>3. \A x \in Remotes : x \in Lookup(r) <=> Of(x, r) /\ Present(x)
  BY <1>1, LookupFinds DEF Stands
<1>4. PICK a : Goto(w, a) /\
         \/ a = Act("missing", NoRemote, NoWorkspace, "none") /\ Lookup(r) = {}
         \/ \E x \in Lookup(r) : a = Act("found", x, coder[x], Outcome(x))
  BY <1>1 DEF Look, Stands
<1>5. act'[w] = a /\ \A v \in Workers : v # w => act'[v] = act[v]
  BY <1>4, GoesTo
<1>6. RowIsTrue(r)'
  BY <1>1, <1>2, RowStays DEF Stands, Still, Of, Present, RowKept
<1>7. ASSUME Lookup(r) = {}, a = Act("missing", NoRemote, NoWorkspace, "none")
      PROVE  Knows(w, r)' /\ Hears(w)'
  <2>1. act'[w].at = "missing"
    BY <1>5, <1>7 DEF Act
  <2>2. \A y \in Remotes : Of(y, r)' => ~Present(y)'
    BY <1>2, <1>3, <1>7 DEF Of, Present
  <2> QED
    BY <2>1, <2>2 DEF Knows, Hears, AwaitsDeletion, Placed
<1>8. ASSUME NEW x \in Lookup(r), a = Act("found", x, coder[x], Outcome(x))
      PROVE  Knows(w, r)' /\ Hears(w)'
  <2>1. x \in Remotes /\ Of(x, r) /\ Present(x)
    BY <1>3, LookupType
  <2>2. /\ act'[w].at = "found" /\ act'[w].remote = x
        /\ act'[w].seen = coder[x] /\ act'[w].build = Outcome(x)
    BY <1>5, <1>8 DEF Act
  <2>3. \A y \in Remotes : (Of(y, r) /\ Present(y)) => y = x
    BY <1>1, <2>1 DEF Stands, RowIsTrue
  <2>4. ~rows[r].dirty => rows[r].remote = x
    BY <1>1, <2>1 DEF Stands, RowIsTrue, Applied
  <2>5. claims[w].step = CreateStep =>
           coder[x].name = rows[r].name /\ coder[x].params = rows[r].params
    BY <1>1, <2>1, StepsDiffer DEF Stands, RowIsTrue, Follows, Unsettled
  <2>6. Knows(w, r)'
    BY <1>2, <2>1, <2>2, <2>3, <2>4, <2>5 DEF Knows, Of, Present
  <2>7. (coder[x].transition = "delete" /\ coder[x].status # "failed") =>
           coder[x].status = "deleting" /\ Outcome(x) = "active"
    BY <2>1 DEF RemotesAreTrue, RemoteIsTrue, Present, BuildStatus, Outcome, Active
  <2>8. Hears(w)'
    BY <1>2, <2>2, <2>7 DEF Hears, AwaitsDeletion
  <2> QED
    BY <2>6, <2>8
<1>9. Knows(w, r)' /\ Hears(w)'
  BY <1>4, <1>7, <1>8
<1>10. OnlyOf(r)
  BY <1>2 DEF OnlyOf
<1> QED
  BY <1>0, <1>1, <1>2, <1>5, <1>6, <1>9, <1>10, OwnRowStep DEF Stands

\* A worker goes on with a build it found only if that is the build it wants.
LEMMA ReuseInv ==
    ASSUME WTypeOK, Fence, Fence', [WNext]_wvars,
           NamesAreUnique, RowsAreTrue, WorkersKnow, NEW w \in Workers, Reuse(w)
    PROVE  NamesAreUnique' /\ RowsAreTrue' /\ WorkersKnow'
<1>0. WorkerStep(w)
  BY DEF WorkerStep
<1>1. PICK r \in Resources : Stands(w, r)
  BY <1>0, Standpoint
<1>2. /\ rows' = rows /\ coder' = coder
      /\ resources' = resources /\ claims' = claims
      /\ Goto(w, Act("submitted", act[w].remote, act[w].seen, act[w].build))
      /\ act[w].at = "found" /\ Adequate(w)
  BY DEF Reuse, Standing, vars
<1>3. \A v \in Workers : v # w => act'[v] = act[v]
  BY <1>2, GoesTo
<1>4. PICK x : x = act[w].remote
  OBVIOUS
<1>5. /\ act'[w].at = "submitted" /\ act'[w].remote = x
      /\ act'[w].seen = act[w].seen /\ act'[w].build = act[w].build
  BY <1>2, <1>4, GoesTo DEF Act
<1>6. RowIsTrue(r)'
  BY <1>1, <1>2, RowStays DEF Stands, Still, Of, Present, RowKept
<1>7. /\ x \in Remotes /\ Of(x, r)
      /\ \A y \in Remotes : (Of(y, r) /\ Present(y)) => y = x
      /\ ~rows[r].dirty => rows[r].remote = x
      /\ act[w].seen.name = coder[x].name
      /\ act[w].seen.params = coder[x].params
      /\ claims[w].step = CreateStep =>
            coder[x].name = rows[r].name /\ coder[x].params = rows[r].params
  BY <1>1, <1>2, <1>4 DEF Stands, Knows, Placed
<1>8. claims[w].step # DeleteStep =>
         coder[x].name = rows[r].name /\ coder[x].params = rows[r].params
  <2>1. CASE claims[w].step = CreateStep
    BY <1>7, <2>1
  <2>2. CASE claims[w].step = UpdateStep
    <3>1. ~rows[r].dirty => coder[x].params = rows[r].params
      BY <1>1, <1>7 DEF Stands, RowIsTrue, Applied
    <3>2. /\ act[w].seen.name = rows[r].name
          /\ ~rows[r].dirty \/ act[w].seen.params = rows[r].params
      BY <1>1, <1>2, <2>2, StepsDiffer DEF Adequate, Stands
    <3> QED
      BY <1>7, <3>1, <3>2
  <2> QED
    BY <1>1, <2>1, <2>2 DEF Stands
<1>9. Knows(w, r)'
  BY <1>2, <1>5, <1>7, <1>8 DEF Knows, Of, Present
<1>10. Hears(w)'
  <2>1. claims[w].step = DeleteStep => AwaitsDeletion(w)
    BY <1>2, StepsDiffer DEF Adequate, AwaitsDeletion
  <2>2. claims[w].step = DeleteStep =>
           /\ act[w].build = "active" => coder[x].status \in {"deleting", "gone"}
           /\ act[w].build = "done" => coder[x].status = "gone"
    BY <1>1, <1>4, <2>1 DEF Stands, Hears
  <2> QED
    BY <1>2, <1>5, <2>2 DEF Hears, AwaitsDeletion
<1>11. OnlyOf(r)
  BY <1>2 DEF OnlyOf
<1> QED
  BY <1>0, <1>1, <1>2, <1>3, <1>6, <1>9, <1>10, <1>11, OwnRowStep DEF Stands

\* The stored identifier is the one of the row's own workspace.
LEMMA StoreInv ==
    ASSUME WTypeOK, Fence, Fence', [WNext]_wvars,
           NamesAreUnique, RowsAreTrue, WorkersKnow, NEW w \in Workers, Store(w)
    PROVE  NamesAreUnique' /\ RowsAreTrue' /\ WorkersKnow'
<1>0. WorkerStep(w)
  BY DEF WorkerStep
<1>1. PICK r \in Resources : Stands(w, r)
  BY <1>0, Standpoint
<1>2. /\ SetRow(r, StoredRow(r, act[w].remote)) /\ coder' = coder
      /\ resources' = resources /\ claims' = claims
      /\ Goto(w, Act("stored", act[w].remote, NoWorkspace, act[w].build))
      /\ act[w].at = "submitted"
  BY <1>1 DEF Store, Standing, vars, Stands
<1>3. \A v \in Workers : v # w => act'[v] = act[v]
  BY <1>2, GoesTo
<1>4. PICK x : x = act[w].remote
  OBVIOUS
<1>5. /\ act'[w].at = "stored" /\ act'[w].remote = x
      /\ act'[w].build = act[w].build
  BY <1>2, <1>4, GoesTo DEF Act
<1>6. /\ \A q \in Resources : q # r => rows'[q] = rows[q]
      /\ rows'[r] = StoredRow(r, x)
  BY <1>2, <1>4, Typed DEF SetRow
<1>7. /\ rows'[r].name = rows[r].name /\ rows'[r].params = rows[r].params
      /\ rows'[r].dirty = rows[r].dirty /\ rows'[r].remote = x
  BY <1>6 DEF StoredRow, Row
<1>8. /\ x \in Remotes /\ Of(x, r)
      /\ \A y \in Remotes : (Of(y, r) /\ Present(y)) => y = x
      /\ ~rows[r].dirty => rows[r].remote = x
      /\ claims[w].step # DeleteStep =>
            coder[x].name = rows[r].name /\ coder[x].params = rows[r].params
  BY <1>1, <1>2, <1>4 DEF Stands, Knows, Placed
<1>9. \A y \in Remotes : (Of(y, r)' <=> Of(y, r)) /\ (Present(y)' <=> Present(y))
  BY <1>2 DEF Of, Present
<1>10. RowIsTrue(r)'
  <2>1. \A y \in Remotes : (Of(y, r)' /\ Present(y)') =>
           RowPresent(r)' /\ Follows(y, r)'
    BY <1>1, <1>2, <1>7, <1>8, <1>9
       DEF Stands, RowIsTrue, Follows, RowPresent
  <2>2. \A y, z \in Remotes :
           (Of(y, r)' /\ Present(y)' /\ Of(z, r)' /\ Present(z)') => y = z
    BY <1>8, <1>9
  <2>3. Of(rows[r].remote, r)'
    BY <1>2, <1>7, <1>8 DEF Of
  <2>4. ~rows'[r].dirty => Applied(r)'
    <3>1. ~rows[r].dirty => coder[x].params = rows[r].params
      BY <1>1, <1>8 DEF Stands, RowIsTrue, Applied
    <3> QED
      BY <1>2, <1>7, <1>8, <1>9, <3>1 DEF Applied
  <2>5. /\ resources'[r].status # "success"
        /\ resources'[r].action = "creating" => rows'[r].dirty
    BY <1>1, <1>2, <1>7 DEF Stands
  <2>6. resources'[r].action = "creating" => coder[x].params = rows[r].params
    BY <1>1, <1>2, <1>8, StepsDiffer DEF Stands
  <2>7. resources'[r].action = "creating" =>
           \A y \in Remotes :
              (Of(y, r)' /\ Present(y)') => coder'[y].params = rows'[r].params
    BY <1>2, <1>7, <1>8, <1>9, <2>6
  <2> QED
    BY <2>1, <2>2, <2>3, <2>4, <2>5, <2>7 DEF RowIsTrue
<1>11. Knows(w, r)'
  BY <1>2, <1>5, <1>7, <1>8, <1>9 DEF Knows, Of
<1>12. Hears(w)'
  <2>1. claims[w].step = DeleteStep =>
           /\ act[w].build = "active" => coder[x].status \in {"deleting", "gone"}
           /\ act[w].build = "done" => coder[x].status = "gone"
    BY <1>1, <1>2, <1>4 DEF Stands, Hears, AwaitsDeletion
  <2> QED
    BY <1>2, <1>5, <2>1 DEF Hears, AwaitsDeletion
<1>13. OnlyOf(r)
  BY <1>2 DEF OnlyOf
<1> QED
  BY <1>0, <1>1, <1>3, <1>6, <1>7, <1>10, <1>11, <1>12, <1>13, OwnRowStep
     DEF Stands

\* What a worker does to the remote workspace of its row changes neither whose it
\* is nor whether it is there.
LEMMA OwnWorkspace ==
    ASSUME NEW r \in Resources, NEW x \in Remotes, Of(x, r), Present(x),
           coder'[x].row = coder[x].row, coder'[x].status \in BuildStatus,
           \A y \in Remotes : y # x => coder'[y] = coder[y]
    PROVE  /\ OnlyOf(r)
           /\ \A y \in Remotes :
                 (Of(y, r)' <=> Of(y, r)) /\ (Present(y)' <=> Present(y))
<1>1. coder'[x].status # "unused" /\ coder'[x].row = r /\ Present(x)'
  BY DEF Of, Present, BuildStatus
<1>2. OnlyOf(r)
  BY <1>1 DEF OnlyOf, Of
<1>3. ASSUME NEW y \in Remotes
      PROVE  (Of(y, r)' <=> Of(y, r)) /\ (Present(y)' <=> Present(y))
  <2>1. CASE y = x
    BY <1>1, <2>1 DEF Of
  <2>2. CASE y # x
    BY <2>2 DEF Of, Present
  <2> QED
    BY <2>1, <2>2
<1> QED
  BY <1>2, <1>3

\* A new remote workspace is made when the row has none.
LEMMA CreateRemoteInv ==
    ASSUME WTypeOK, Fence, Fence', [WNext]_wvars, NamesAreUnique, RowsAreTrue,
           WorkersKnow, NEW w \in Workers, NEW x \in NewRemotes, CreateRemote(w, x)
    PROVE  NamesAreUnique' /\ RowsAreTrue' /\ WorkersKnow'
<1>0. WorkerStep(w)
  BY DEF WorkerStep
<1>1. PICK r \in Resources : Stands(w, r)
  BY <1>0, Standpoint
<1> DEFINE new == Workspace(r, rows[r].name, rows[r].params, "start", "starting")
<1>2. /\ coder' = [coder EXCEPT ![x] = new] /\ coder[x].status = "unused"
      /\ rows' = rows /\ resources' = resources /\ claims' = claims
      /\ Goto(w, Act("submitted", x, new, "active"))
      /\ act[w].at = "missing" /\ claims[w].step = CreateStep
  BY <1>1 DEF CreateRemote, Standing, vars, Stands
<1>3. x \in Remotes /\ \A v \in Workers : v # w => act'[v] = act[v]
  BY <1>2, GoesTo DEF NewRemotes, Draw
<1>4. act'[w].at = "submitted" /\ act'[w].remote = x /\ act'[w].build = "active"
  BY <1>2, GoesTo DEF Act
<1>5. /\ \A y \in Remotes : y # x => coder'[y] = coder[y]
      /\ coder'[x] = new
  BY <1>2, <1>3, Typed
<1>6. /\ coder'[x].row = r /\ coder'[x].name = rows[r].name
      /\ coder'[x].params = rows[r].params /\ coder'[x].status = "starting"
  BY <1>5 DEF Workspace
<1>7. rows[r].dirty /\ \A y \in Remotes : Of(y, r) => ~Present(y)
  BY <1>1, <1>2, StepsDiffer DEF Stands, Knows
<1> HIDE DEF new
<1>8. \A y \in Remotes : (Of(y, r)' /\ Present(y)') => y = x
  BY <1>5, <1>7 DEF Of, Present
<1>9. Of(x, r)'
  BY <1>6 DEF Of
<1>10. RowIsTrue(r)'
  <2>1. RowPresent(r)' /\ Follows(x, r)'
    BY <1>1, <1>2, <1>6 DEF Stands, RowPresent, Follows
  <2>2. rows[r].remote # NoRemote => Of(rows[r].remote, r)'
    <3> SUFFICES ASSUME rows[r].remote # NoRemote
                 PROVE  Of(rows[r].remote, r)'
      OBVIOUS
    <3>1. PICK y \in Remotes : y = rows[r].remote
      BY Typed DEF RowState
    <3>2. Of(y, r)
      BY <1>1, <3>1 DEF Stands, RowIsTrue
    <3>3. coder'[y] = coder[y]
      BY <1>2, <1>5, <3>2 DEF Of
    <3> QED
      BY <1>2, <3>1, <3>2, <3>3 DEF Of
  <2>3. resources'[r].status # "success" /\ rows'[r].dirty
    BY <1>1, <1>2, <1>7 DEF Stands
  <2> QED
    BY <1>2, <1>6, <1>8, <2>1, <2>2, <2>3 DEF RowIsTrue
<1>11. Knows(w, r)'
  BY <1>2, <1>3, <1>4, <1>6, <1>7, <1>8, <1>9 DEF Knows
<1>12. Hears(w)'
  BY <1>2, <1>4, StepsDiffer DEF Hears, AwaitsDeletion
<1>13. OnlyOf(r)
  BY <1>2, <1>5, <1>6 DEF OnlyOf
<1> QED
  BY <1>0, <1>1, <1>2, <1>3, <1>10, <1>11, <1>12, <1>13, OwnRowStep DEF Stands

\* An update renames the row's own workspace.
LEMMA RenameInv ==
    ASSUME WTypeOK, Fence, Fence', [WNext]_wvars, NamesAreUnique, RowsAreTrue,
           WorkersKnow, NEW w \in Workers, Rename(w)
    PROVE  NamesAreUnique' /\ RowsAreTrue' /\ WorkersKnow'
<1>0. WorkerStep(w)
  BY DEF WorkerStep
<1>1. PICK r \in Resources : Stands(w, r)
  BY <1>0, Standpoint
<1>2. PICK x : x = act[w].remote
  OBVIOUS
<1> DEFINE n   == rows[r].name
           s   == act[w].seen
           new == Workspace(coder[x].row, n, coder[x].params,
                            coder[x].transition, coder[x].status)
           see == Workspace(s.row, n, s.params, s.transition, s.status)
<1>3. /\ coder' = [coder EXCEPT ![x] = new] /\ Present(x)
      /\ Goto(w, Act("found", x, see, act[w].build))
  BY <1>1, <1>2 DEF Rename, Stands
<1>4. /\ rows' = rows /\ resources' = resources /\ claims' = claims
      /\ act[w].at = "found" /\ claims[w].step = UpdateStep
  BY DEF Rename, Standing, vars
<1>5. /\ x \in Remotes /\ Of(x, r)
      /\ \A y \in Remotes : (Of(y, r) /\ Present(y)) => y = x
      /\ ~rows[r].dirty => rows[r].remote = x
      /\ s.params = coder[x].params
  BY <1>1, <1>2, <1>4 DEF Stands, Knows, Placed
<1>6. /\ coder'[x] = new
      /\ \A y \in Remotes : y # x => coder'[y] = coder[y]
  BY <1>3, <1>5, Typed
<1>7. /\ coder'[x].row = coder[x].row /\ coder'[x].name = rows[r].name
      /\ coder'[x].params = coder[x].params /\ coder'[x].status = coder[x].status
  BY <1>6 DEF Workspace
<1>8. /\ act'[w].at = "found" /\ act'[w].remote = x /\ act'[w].seen = see
      /\ act'[w].build = act[w].build
      /\ \A v \in Workers : v # w => act'[v] = act[v]
  BY <1>3, GoesTo DEF Act
<1>9. /\ act'[w].seen.name = rows[r].name /\ act'[w].seen.params = coder[x].params
      /\ act'[w].seen.transition = s.transition
      /\ act'[w].seen.status = s.status
  BY <1>5, <1>8 DEF Workspace
<1> HIDE DEF n, s, new, see
<1>10. /\ OnlyOf(r)
       /\ \A y \in Remotes :
             (Of(y, r)' <=> Of(y, r)) /\ (Present(y)' <=> Present(y))
  BY <1>3, <1>5, <1>6, <1>7, OwnWorkspace DEF Present
<1>11. RowIsTrue(r)'
  <2>1. RowPresent(r)' /\ Follows(x, r)'
    BY <1>1, <1>4, <1>7 DEF Stands, RowPresent, Follows
  <2>2. rows[r].remote # NoRemote =>
           /\ Of(rows[r].remote, r)'
           /\ coder'[rows[r].remote].params = coder[rows[r].remote].params
    <3> SUFFICES ASSUME rows[r].remote # NoRemote
                 PROVE  /\ Of(rows[r].remote, r)'
                        /\ coder'[rows[r].remote].params = coder[rows[r].remote].params
      OBVIOUS
    <3>1. PICK y \in Remotes : y = rows[r].remote
      BY Typed DEF RowState
    <3>2. Of(y, r)
      BY <1>1, <3>1 DEF Stands, RowIsTrue
    <3>3. Of(y, r)' /\ coder'[y].params = coder[y].params
      BY <1>6, <1>7, <1>10, <3>2
    <3> QED
      BY <1>4, <3>1, <3>3 DEF Of
  <2>3. ~rows'[r].dirty => Applied(r)'
    BY <1>1, <1>4, <1>10, <2>2 DEF Stands, RowIsTrue, Applied
  <2>4. resources'[r].status # "success" /\ resources'[r].action # "creating"
    BY <1>1, <1>4, StepsDiffer DEF Stands
  <2>5. \A y \in Remotes : (Of(y, r)' /\ Present(y)') => y = x
    BY <1>5, <1>10
  <2>6. rows'[r].remote # NoRemote => Of(rows[r].remote, r)'
    BY <1>4, <2>2
  <2> QED
    BY <2>1, <2>3, <2>4, <2>5, <2>6 DEF RowIsTrue
<1>12. Knows(w, r)'
  BY <1>4, <1>5, <1>7, <1>8, <1>9, <1>10, StepsDiffer DEF Knows
<1>13. Hears(w)'
  <2>1. (s.transition = "delete" /\ s.status # "failed") =>
           /\ act[w].build = "active" => coder[x].status \in {"deleting", "gone"}
           /\ act[w].build = "done" => coder[x].status = "gone"
    BY <1>1, <1>2, <1>4 DEF Stands, Hears, AwaitsDeletion, s
  <2> QED
    BY <1>7, <1>8, <1>9, <2>1 DEF Hears, AwaitsDeletion
<1> QED
  BY <1>0, <1>1, <1>4, <1>8, <1>10, <1>11, <1>12, <1>13, OwnRowStep DEF Stands

\* A build of its own has the row's parameters, or is the awaited deletion.
LEMMA SubmitInv ==
    ASSUME WTypeOK, Fence, Fence', [WNext]_wvars, NamesAreUnique, RowsAreTrue,
           WorkersKnow, NEW w \in Workers, Submit(w)
    PROVE  NamesAreUnique' /\ RowsAreTrue' /\ WorkersKnow'
<1>0. WorkerStep(w)
  BY DEF WorkerStep
<1>1. PICK r \in Resources : Stands(w, r)
  BY <1>0, Standpoint
<1>2. PICK x : x = act[w].remote
  OBVIOUS
<1>3. /\ coder' = [coder EXCEPT ![x] = Build(x, r, claims[w].step)] /\ Present(x)
      /\ Goto(w, Act("submitted", x, act[w].seen, "active"))
      /\ claims[w].step = UpdateStep => act[w].seen.name = rows[r].name
  BY <1>1, <1>2 DEF Submit, Stands
<1>4. /\ rows' = rows /\ resources' = resources /\ claims' = claims
      /\ act[w].at = "found"
  BY DEF Submit, Standing, vars
<1>5. /\ x \in Remotes /\ Of(x, r)
      /\ \A y \in Remotes : (Of(y, r) /\ Present(y)) => y = x
      /\ ~rows[r].dirty => rows[r].remote = x
      /\ act[w].seen.name = coder[x].name
      /\ claims[w].step = CreateStep => coder[x].name = rows[r].name
  BY <1>1, <1>2, <1>4 DEF Stands, Knows, Placed
<1>6. /\ coder'[x] = Build(x, r, claims[w].step)
      /\ \A y \in Remotes : y # x => coder'[y] = coder[y]
  BY <1>3, <1>5, Typed
<1>7. /\ coder'[x].row = coder[x].row /\ coder'[x].name = coder[x].name
      /\ coder'[x].status \in BuildStatus
      /\ IF claims[w].step = DeleteStep
         THEN coder'[x].params = coder[x].params /\ coder'[x].status = "deleting"
         ELSE coder'[x].params = rows[r].params
  BY <1>6 DEF Build, Workspace, BuildStatus
<1>8. /\ act'[w].at = "submitted" /\ act'[w].remote = x
      /\ act'[w].build = "active"
      /\ \A v \in Workers : v # w => act'[v] = act[v]
  BY <1>3, GoesTo DEF Act
<1>9. /\ OnlyOf(r)
      /\ \A y \in Remotes :
            (Of(y, r)' <=> Of(y, r)) /\ (Present(y)' <=> Present(y))
  BY <1>3, <1>5, <1>6, <1>7, OwnWorkspace
<1>10. claims[w].step # DeleteStep => coder[x].name = rows[r].name
  BY <1>1, <1>3, <1>5 DEF Stands
<1>11. RowIsTrue(r)'
  <2>1. RowPresent(r)' /\ Follows(x, r)'
    <3>1. Follows(x, r)
      BY <1>1, <1>3, <1>5 DEF Stands, RowIsTrue
    <3> QED
      BY <1>1, <1>4, <1>7, <3>1 DEF Stands, RowPresent, Follows
  <2>2. rows'[r].remote # NoRemote => Of(rows[r].remote, r)'
    <3> SUFFICES ASSUME rows[r].remote # NoRemote
                 PROVE  Of(rows[r].remote, r)'
      BY <1>4
    <3>1. PICK y \in Remotes : y = rows[r].remote
      BY Typed DEF RowState
    <3>2. Of(y, r)
      BY <1>1, <3>1 DEF Stands, RowIsTrue
    <3>3. Of(y, r)'
      BY <1>9, <3>2
    <3> QED
      BY <1>4, <3>1, <3>3 DEF Of
  <2>3. \A y \in Remotes : (Of(y, r)' /\ Present(y)') => y = x
    BY <1>5, <1>9
  <2>4. ~rows'[r].dirty => Applied(r)'
    <3>1. ~rows[r].dirty => coder[x].params = rows[r].params /\ x # NoRemote
      BY <1>1, <1>5 DEF Stands, RowIsTrue, Applied
    <3>2. ~rows[r].dirty => coder'[x].params = rows[r].params
      BY <1>7, <3>1
    <3> QED
      BY <1>4, <1>5, <2>3, <3>1, <3>2 DEF Applied
  <2>5. /\ resources'[r].status # "success"
        /\ resources'[r].action = "creating" =>
              rows'[r].dirty /\ coder'[x].params = rows'[r].params
    BY <1>1, <1>4, <1>7, StepsDiffer DEF Stands
  <2> QED
    BY <2>1, <2>2, <2>3, <2>4, <2>5 DEF RowIsTrue
<1>12. Knows(w, r)'
  <2>1. coder'[x].name = coder[x].name /\ Of(x, r)'
        /\ (claims[w].step # DeleteStep => coder'[x].params = rows[r].params)
    BY <1>5, <1>7, <1>9
  <2> QED
    BY <1>4, <1>5, <1>8, <1>9, <1>10, <2>1 DEF Knows
<1>13. Hears(w)'
  BY <1>4, <1>7, <1>8 DEF Hears, AwaitsDeletion
<1> QED
  BY <1>0, <1>1, <1>4, <1>8, <1>9, <1>11, <1>12, <1>13, OwnRowStep DEF Stands

-----------------------------------------------------------------------------
(***************************************************************************)
(* Steps of every kind together.                                           *)
(***************************************************************************)

\* The instance moves by its own deletion only, and never back.
LEMMA InstanceMoves ==
    ASSUME TypeOK, [WNext]_wvars
    PROVE  /\ inst' = inst \/ InstanceStep \/ RemoveRows
           /\ inst \in {"removed", "gone"} => inst' \in {"removed", "gone"}
<1>1. inst' = inst \/ InstanceStep \/ RemoveRows
  BY Cases, WorkerStepVars, EnvironmentVars
     DEF RequestStep, CreateWorkspace, UpdateWorkspace, DeleteWorkspace,
         WClaim, Settle, Remove, FailBuild, WStop, EngineStep, Engine, aside,
         wvars
<1> QED
  BY <1>1 DEF InstanceStep, DeleteInstance, SweepDone, RemoveApplication,
              RemoveRows

\* What a step may do to remote workspace x: build, rename, stop, delete or
\* create it.  It appears only while the instance is there.
RemoteMoves(x) ==
    \/ coder'[x] = coder[x]
    \/ /\ RemoteIsTrue(x)'
       /\ Present(x)' => inst \notin {"removed", "gone"}

\* A worker builds, renames or creates one for its own row.
LEMMA WorkerMovesRemotes ==
    ASSUME TypeOK, JobsArePlaced, WTypeOK, RemotesAreTrue,
           NEW w \in Workers, WorkerStep(w), NEW y \in Remotes
    PROVE  RemoteMoves(y)
<1>1. /\ Mine(w) \in Resources
      /\ inst' = inst /\ inst \notin {"removed", "gone"}
  BY WorkerStepVars, CurrentPlace
<1>2. ASSUME NEW x \in Remotes, NEW s, coder' = [coder EXCEPT ![x] = s],
             s.row \in Resources, s.status \notin {"unused", "gone"},
             s.status = "deleting" => s.transition = "delete",
             s.transition = "delete" => s.status \in {"deleting", "failed", "gone"}
      PROVE  RemoteMoves(y)
  <2>1. coder'[y] = IF y = x THEN s ELSE coder[y]
    BY <1>2, Typed
  <2>2. CASE y = x
    BY <1>1, <1>2, <2>1, <2>2 DEF RemoteMoves, RemoteIsTrue
  <2> QED
    BY <2>1, <2>2 DEF RemoteMoves
<1>3. ASSUME NEW x \in Remotes, Present(x)
      PROVE  /\ coder[x].row \in Resources
             /\ coder[x].status \notin {"unused", "gone"}
             /\ RemoteIsTrue(x)
  BY <1>3 DEF RemotesAreTrue, RemoteIsTrue, Present, BuildStatus
<1>4. ASSUME NEW x \in NewRemotes, CreateRemote(w, x)
      PROVE  RemoteMoves(y)
  <2> DEFINE s == Workspace(Mine(w), rows[Mine(w)].name, rows[Mine(w)].params,
                            "start", "starting")
  <2>1. coder' = [coder EXCEPT ![x] = s] /\ x \in Remotes
    BY <1>4 DEF CreateRemote, NewRemotes, Draw
  <2>2. s.row = Mine(w) /\ s.status = "starting" /\ s.transition = "start"
    BY DEF Workspace
  <2> HIDE DEF s
  <2> QED
    BY <1>1, <1>2, <2>1, <2>2
<1>5. CASE Rename(w)
  <2>1. PICK x : x = act[w].remote
    OBVIOUS
  <2> DEFINE s == Workspace(coder[x].row, rows[Mine(w)].name, coder[x].params,
                            coder[x].transition, coder[x].status)
  <2>2. coder' = [coder EXCEPT ![x] = s] /\ Present(x)
    BY <1>5, <2>1 DEF Rename
  <2>3. /\ s.row = coder[x].row /\ s.status = coder[x].status
        /\ s.transition = coder[x].transition
    BY DEF Workspace
  <2> HIDE DEF s
  <2>4. CASE x \in Remotes
    BY <1>2, <1>3, <2>2, <2>3, <2>4 DEF RemoteIsTrue
  <2>5. CASE x \notin Remotes
    BY <2>2, <2>5, Typed DEF RemoteMoves
  <2> QED
    BY <2>4, <2>5
<1>6. CASE Submit(w)
  <2>1. PICK x : x = act[w].remote
    OBVIOUS
  <2> DEFINE s == Build(x, Mine(w), claims[w].step)
  <2>2. coder' = [coder EXCEPT ![x] = s] /\ Present(x)
    BY <1>6, <2>1 DEF Submit
  <2>3. /\ s.row = coder[x].row
        /\ \/ s.status = "starting" /\ s.transition = "start"
           \/ s.status = "deleting" /\ s.transition = "delete"
    BY DEF Build, Workspace
  <2> HIDE DEF s
  <2>4. CASE x \in Remotes
    BY <1>2, <1>3, <2>2, <2>3, <2>4
  <2>5. CASE x \notin Remotes
    BY <2>2, <2>5, Typed DEF RemoteMoves
  <2> QED
    BY <2>4, <2>5
<1>7. CASE Look(w) \/ Reuse(w) \/ Store(w)
  BY <1>7 DEF Look, Reuse, Store, RemoteMoves
<1> QED
  BY <1>4, <1>5, <1>6, <1>7 DEF WorkerStep

\* Coder builds, stops or deletes one that is there.
LEMMA EnvironmentMovesRemotes ==
    ASSUME TypeOK, WTypeOK, RemotesAreTrue, NothingOutlives, NEW x \in Remotes,
           Environment(x), NEW y \in Remotes
    PROVE  RemoteMoves(y)
<1>1. PICK t \in {"start", "stop", "delete"}, st \in BuildStatus \cup {"gone"} :
         /\ Present(x)
         /\ coder' = [coder EXCEPT ![x] = Workspace(coder[x].row,
                        coder[x].name, coder[x].params, t, st)]
         /\ \/ /\ act' = act
               /\ coder[x].status \notin Active
               /\ \/ t = "stop" /\ st = "stopping"
                  \/ t = "delete" /\ st = "deleting"
            \/ /\ coder[x].status \in Active
               /\ t = coder[x].transition
               /\ \/ /\ Notify(x, "failed")
                     /\ \/ st = "failed"
                        \/ coder[x].status = "stopping" /\ st = "stopped"
                  \/ /\ Notify(x, "done")
                     /\ \/ coder[x].status = "starting" /\ st = "running"
                        \/ coder[x].status = "deleting" /\ st = "gone"
  BY EnvironmentStep
<1>2. inst' = inst /\ inst \notin {"removed", "gone"}
  BY <1>1, EnvironmentVars DEF NothingOutlives
<1>3. coder'[y] = IF y = x THEN Workspace(coder[x].row, coder[x].name,
                                          coder[x].params, t, st)
                  ELSE coder[y]
  BY <1>1, Typed
<1>4. CASE y = x
  <2>1. /\ coder'[y].row = coder[y].row /\ coder'[y].transition = t
        /\ coder'[y].status = st
    BY <1>3, <1>4 DEF Workspace
  <2>2. coder[y].row \in Resources /\ RemoteIsTrue(y)
    BY <1>1, <1>4 DEF RemotesAreTrue, RemoteIsTrue, Present, BuildStatus
  <2>3. st = "deleting" => t = "delete"
    BY <1>1
  <2>4. t = "delete" => st \in {"deleting", "failed", "gone"}
    BY <1>1, <1>4, <2>2 DEF RemoteIsTrue
  <2>5. st = "gone" => t = "delete"
    BY <1>1, <1>4, <2>2 DEF RemoteIsTrue
  <2> QED
    BY <1>2, <2>1, <2>2, <2>3, <2>4, <2>5 DEF RemoteMoves, RemoteIsTrue
<1> QED
  BY <1>3, <1>4 DEF RemoteMoves

\* Every remote workspace stays true, and nothing outlives the instance.
LEMMA RemotesStep ==
    ASSUME TypeOK, JobsArePlaced, WTypeOK, RemotesAreTrue, NothingOutlives,
           [WNext]_wvars
    PROVE  RemotesAreTrue' /\ NothingOutlives'
<1>1. /\ inst' = inst \/ InstanceStep \/ RemoveRows
      /\ inst \in {"removed", "gone"} => inst' \in {"removed", "gone"}
  BY InstanceMoves
<1>2. CASE RemoveApplication
  <2>1. ASSUME NEW x \in Remotes
        PROVE  RemoteIsTrue(x)' /\ ~Present(x)'
    <3>1. RemoteIsTrue(x) /\ inst' = "removed"
      BY <1>2 DEF RemotesAreTrue, RemoveApplication
    <3>2. CASE Present(x)
      <4>1. coder'[x] = Workspace(coder[x].row, coder[x].name, coder[x].params,
                                  coder[x].transition, "gone")
        BY <1>2, <3>2 DEF RemoveApplication
      <4>2. coder'[x].row = coder[x].row /\ coder'[x].status = "gone"
        BY <4>1 DEF Workspace
      <4>3. coder[x].row \in Resources
        BY <3>1, <3>2 DEF RemoteIsTrue, Present, BuildStatus
      <4> QED
        BY <3>1, <4>2, <4>3 DEF RemoteIsTrue, Present, BuildStatus
    <3>3. CASE ~Present(x)
      <4>1. coder'[x] = coder[x]
        BY <1>2, <3>3 DEF RemoveApplication
      <4> QED
        BY <3>1, <3>3, <4>1 DEF RemoteIsTrue, Present
    <3> QED
      BY <3>2, <3>3
  <2>2. inst' = "removed"
    BY <1>2 DEF RemoveApplication
  <2> QED
    BY <2>1, <2>2 DEF RemotesAreTrue, NothingOutlives
<1>3. CASE ~RemoveApplication
  <2>1. \A x \in Remotes : RemoteMoves(x)
    <3>1. ASSUME \/ RequestStep
                 \/ \E w \in Workers, m \in queue : WClaim(w, m)
                 \/ \E w \in Workers : Settle(w) \/ Remove(w)
                 \/ \E w \in Workers : FailBuild(w) \/ WStop(w)
                 \/ DeleteInstance \/ SweepDone
                 \/ RemoveRows
                 \/ EngineStep
                 \/ UNCHANGED wvars
          PROVE  coder' = coder
      BY <3>1 DEF RequestStep, CreateWorkspace, UpdateWorkspace, DeleteWorkspace,
                  WClaim, Settle, Remove, FailBuild, WStop, DeleteInstance,
                  SweepDone, RemoveRows, EngineStep, Engine, aside, wvars
    <3>2. coder' = coder => \A x \in Remotes : RemoteMoves(x)
      BY DEF RemoteMoves
    <3> QED
      BY <1>3, <3>1, <3>2, Cases, WorkerMovesRemotes, EnvironmentMovesRemotes
         DEF InstanceStep
  <2>2. RemotesAreTrue'
    <3>1. ASSUME NEW x \in Remotes, coder'[x] = coder[x]
          PROVE  RemoteIsTrue(x)'
      <4>1. RemoteIsTrue(x)
        BY DEF RemotesAreTrue
      <4> QED
        BY <1>1, <3>1, <4>1 DEF RemoteIsTrue
    <3> QED
      BY <2>1, <3>1 DEF RemotesAreTrue, RemoteMoves
  <2>3. inst' \in {"removed", "gone"} => \A x \in Remotes : ~Present(x)'
    <3>1. inst' \in {"removed", "gone"} => inst \in {"removed", "gone"}
      BY <1>1, <1>3 DEF InstanceStep, DeleteInstance, SweepDone, RemoveRows
    <3>2. inst \in {"removed", "gone"} => \A x \in Remotes : ~Present(x)
      BY DEF NothingOutlives
    <3> QED
      BY <2>1, <3>1, <3>2 DEF RemoteMoves, Present
  <2>4. inst' = "gone" =>
           \A r \in Resources : ~RowPresent(r)' /\ rows'[r].remote = NoRemote
    <3>1. CASE RemoveRows
      <4>1. \A r \in Resources : resources'[r] = AbsentResource /\ rows'[r] = EmptyRow
        BY <3>1 DEF RemoveRows
      <4> QED
        BY <4>1 DEF RowPresent, AbsentResource, EmptyRow, Row
    <3>2. CASE inst = "gone"
      BY <3>2, GoneStays DEF NothingOutlives, RowPresent
    <3>3. CASE ~RemoveRows /\ inst # "gone"
      BY <1>1, <3>3 DEF InstanceStep, DeleteInstance, SweepDone,
                        RemoveApplication
    <3> QED
      BY <3>1, <3>2, <3>3
  <2> QED
    BY <2>2, <2>3, <2>4 DEF NothingOutlives
<1> QED
  BY <1>2, <1>3

\* Names, rows and workers stay true as long as the rows are there.
LEMMA RowsStep ==
    ASSUME ~misnamed', NoStrangers, WTypeOK, Fence, Fence', [WNext]_wvars, ~RemoveRows,
           RemotesAreTrue, NamesAreUnique, RowsAreTrue, WorkersKnow
    PROVE  NamesAreUnique' /\ RowsAreTrue' /\ WorkersKnow'
<1> DEFINE Goal == NamesAreUnique' /\ RowsAreTrue' /\ WorkersKnow'
<1>1. RequestStep => Goal
  BY CreateInv, UpdateInv, DeleteInv DEF RequestStep
<1>2. ASSUME NEW w \in Workers, WorkerStep(w)
      PROVE  Goal
  BY <1>2, LookInv, RenameInv, ReuseInv, SubmitInv, StoreInv, CreateRemoteInv
     DEF WorkerStep
<1>3. ASSUME NEW w \in Workers, Settle(w) \/ Remove(w)
      PROVE  Goal
  BY <1>3, SettleInv, RemoveInv
<1>4. ASSUME NEW x \in Remotes, Environment(x)
      PROVE  Goal
  BY <1>4, EnvironmentInv
<1>5. RemoveApplication => Goal
  BY RemoveApplicationInv
<1>6. (\/ \E w \in Workers, m \in queue : WClaim(w, m)
       \/ \E w \in Workers : FailBuild(w) \/ WStop(w)
       \/ EngineStep
       \/ DeleteInstance \/ SweepDone \/ UNCHANGED wvars) => Goal
  BY QuietInv
<1> HIDE DEF Goal
<1>7. Goal
  BY <1>1, <1>2, <1>3, <1>4, <1>5, <1>6, Cases DEF InstanceStep
<1> QED
  BY <1>7 DEF Goal

\* A step that gives no remote workspace and no row a new name.
LEMMA NamesMoveNot ==
    ASSUME WTypeOK, WTypeOK', NoStrangers,
           \A q \in Resources : rows'[q].name \in {rows[q].name, NoName},
           \A x \in Remotes : Present(x)' =>
              /\ Present(x) /\ coder'[x].name = coder[x].name
              /\ coder'[x].row = coder[x].row
    PROVE  NoStrangers'
<1> SUFFICES ASSUME NEW r \in Resources, NEW x \in Remotes, RowPresent(r)',
                    Present(x)', coder'[x].name = rows'[r].name
             PROVE  coder'[x].row = r
  BY DEF NoStrangers
<1>1. rows'[r].name # NoName
  BY DEF WTypeOK
<1>2. rows[r].name = rows'[r].name /\ RowPresent(r)
  BY <1>1 DEF WTypeOK
<1> QED
  BY <1>2 DEF NoStrangers

\* A worker gives its own workspace the name of its own row, ...
LEMMA WorkerNames ==
    ASSUME WTypeOK, WTypeOK', Fence, NamesAreUnique, NoStrangers, RowsAreTrue,
           WorkersKnow, NEW w \in Workers, WorkerStep(w)
    PROVE  NoStrangers'
<1>1. PICK r \in Resources : Stands(w, r)
  BY Standpoint
<1>2. resources' = resources
  BY WorkerStepVars DEF vars
<1>3. ASSUME NEW x \in Remotes, NEW s, coder' = [coder EXCEPT ![x] = s],
             rows' = rows, s.name = rows[r].name, s.row = r
      PROVE  NoStrangers'
  <2> SUFFICES ASSUME NEW q \in Resources, NEW y \in Remotes, RowPresent(q),
                      Present(y)', coder'[y].name = rows[q].name
               PROVE  coder'[y].row = q
    BY <1>2, <1>3 DEF NoStrangers, RowPresent
  <2>1. coder'[y] = IF y = x THEN s ELSE coder[y]
    BY <1>3, Typed
  <2>2. CASE y = x
    <3>1. rows[q].name # NoName
      BY DEF WTypeOK
    <3>2. q = r
      BY <1>3, <2>1, <2>2, <3>1 DEF NamesAreUnique
    <3> QED
      BY <1>3, <2>1, <2>2, <3>2
  <2>3. CASE y # x
    BY <2>1, <2>3 DEF NoStrangers, Present
  <2> QED
    BY <2>2, <2>3
<1>4. CASE \E x \in NewRemotes : CreateRemote(w, x)
  <2>1. PICK x \in Remotes : CreateRemote(w, x)
    BY <1>4 DEF NewRemotes, Draw
  <2> DEFINE new == Workspace(r, rows[r].name, rows[r].params, "start", "starting")
  <2>2. coder' = [coder EXCEPT ![x] = new] /\ rows' = rows
    BY <1>1, <2>1 DEF CreateRemote, Stands
  <2>3. new.name = rows[r].name /\ new.row = r
    BY DEF Workspace
  <2> HIDE DEF new
  <2> QED
    BY <1>3, <2>2, <2>3
<1>5. CASE Rename(w)
  <2>1. PICK x : x = act[w].remote
    OBVIOUS
  <2>2. x \in Remotes /\ Of(x, r)
    BY <1>1, <1>5, <2>1 DEF Rename, Standing, Stands, Knows, Placed
  <2> DEFINE new == Workspace(coder[x].row, rows[r].name, coder[x].params,
                              coder[x].transition, coder[x].status)
  <2>3. coder' = [coder EXCEPT ![x] = new] /\ rows' = rows
    BY <1>1, <1>5, <2>1 DEF Rename, Stands
  <2>4. new.name = rows[r].name /\ new.row = r
    BY <2>2 DEF Workspace, Of
  <2> HIDE DEF new
  <2> QED
    BY <1>3, <2>2, <2>3, <2>4
<1>6. CASE Submit(w)
  <2>1. PICK x : x = act[w].remote
    OBVIOUS
  <2>2. x \in Remotes /\ Present(x)
    BY <1>1, <1>6, <2>1 DEF Submit, Standing, Stands, Knows, Placed
  <2>3. coder' = [coder EXCEPT ![x] = Build(x, r, claims[w].step)] /\ rows' = rows
    BY <1>1, <1>6, <2>1 DEF Submit, Stands
  <2>4. \A y \in Remotes : coder'[y] = IF y = x THEN Build(x, r, claims[w].step)
                                       ELSE coder[y]
    BY <2>2, <2>3, Typed
  <2>5. /\ Build(x, r, claims[w].step).name = coder[x].name
        /\ Build(x, r, claims[w].step).row = coder[x].row
    BY DEF Build, Workspace
  <2>6. \A y \in Remotes : Present(y)' =>
           /\ Present(y) /\ coder'[y].name = coder[y].name
           /\ coder'[y].row = coder[y].row
    BY <2>2, <2>4, <2>5 DEF Present
  <2> QED
    BY <2>3, <2>6, NamesMoveNot
<1>7. CASE Look(w) \/ Reuse(w) \/ Store(w)
  <2>1. coder' = coder
    BY <1>7 DEF Look, Reuse, Store
  <2>2. \A q \in Resources : rows'[q].name = rows[q].name
    BY <1>7, Typed DEF Look, Reuse, Store, SetRow, StoredRow, Row
  <2> QED
    BY <2>1, <2>2, NamesMoveNot DEF Present
<1> QED
  BY <1>4, <1>5, <1>6, <1>7 DEF WorkerStep

\* ... and a request that does not misname gives its row a name of its own.
LEMMA RequestNames ==
    ASSUME WTypeOK, NoStrangers, ~misnamed', NEW r \in Resources, NEW n, NEW new,
           misnamed' = (misnamed \/ Misnames(r, n)), coder' = coder,
           SetRow(r, new), new.name = n,
           \A q \in Resources : q # r => resources'[q] = resources[q]
    PROVE  NoStrangers'
<1> SUFFICES ASSUME NEW q \in Resources, NEW x \in Remotes, RowPresent(q)',
                    Present(x), coder[x].name = rows'[q].name
             PROVE  coder[x].row = q
  BY DEF NoStrangers, Present
<1>1. CASE q = r
  <2>1. coder[x].name = n
    BY <1>1, Typed DEF SetRow
  <2> QED
    BY <1>1, <2>1 DEF Misnames
<1>2. CASE q # r
  <2>1. rows'[q] = rows[q] /\ RowPresent(q)
    BY <1>2, Typed DEF SetRow, RowPresent
  <2> QED
    BY <2>1 DEF NoStrangers
<1> QED
  BY <1>1, <1>2

\* So no remote workspace ever has the name of another row.
LEMMA StrangersStep ==
    ASSUME ~misnamed', NoStrangers, WTypeOK, WTypeOK', Fence, [WNext]_wvars,
           ~RemoveRows, NamesAreUnique, RowsAreTrue, WorkersKnow
    PROVE  NoStrangers'
<1>1. ASSUME NEW j \in NewIds, NEW r \in Resources, NEW n \in Names,
             NEW v \in Values,
             CreateWorkspace(j, r, n, v) \/ UpdateWorkspace(j, r, n, v)
      PROVE  NoStrangers'
  <2>1. PICK t \in Transitions : Request(j, r, t)
    BY <1>1 DEF CreateWorkspace, UpdateWorkspace
  <2>2. \A q \in Resources : q # r => resources'[q] = resources[q]
    BY <2>1 DEF Request, TypeOK, Fence, WithResource
  <2>3. PICK new : SetRow(r, new) /\ new.name = n
    BY <1>1 DEF CreateWorkspace, UpdateWorkspace, Row
  <2>4. misnamed' = (misnamed \/ Misnames(r, n)) /\ coder' = coder
    BY <1>1 DEF CreateWorkspace, UpdateWorkspace
  <2> QED
    BY <2>2, <2>3, <2>4, RequestNames
<1>2. ASSUME NEW w \in Workers, Settle(w) \/ Remove(w)
      PROVE  NoStrangers'
  <2>1. coder' = coder
    BY <1>2 DEF Settle, Remove
  <2>2. PICK r, new : /\ SetRow(r, new)
                      /\ new.name \in {rows[r].name, NoName}
    BY <1>2 DEF Settle, Remove, EmptyRow, Row
  <2>3. \A q \in Resources : rows'[q].name \in {rows[q].name, NoName}
    BY <2>2, Typed DEF SetRow
  <2> QED
    BY <2>1, <2>3, NamesMoveNot DEF Present
<1>3. ASSUME NEW x \in Remotes, Environment(x)
      PROVE  NoStrangers'
  <2>1. rows' = rows
    BY <1>3, EnvironmentVars DEF Fence
  <2>2. PICK t, st : /\ Present(x)
                     /\ coder' = [coder EXCEPT ![x] = Workspace(coder[x].row,
                                    coder[x].name, coder[x].params, t, st)]
    BY <1>3, EnvironmentStep
  <2>3. \A y \in Remotes : coder'[y] = IF y = x
           THEN Workspace(coder[x].row, coder[x].name, coder[x].params, t, st)
           ELSE coder[y]
    BY <2>2, Typed
  <2>4. \A y \in Remotes : Present(y)' =>
           /\ Present(y) /\ coder'[y].name = coder[y].name
           /\ coder'[y].row = coder[y].row
    BY <2>2, <2>3 DEF Present, Workspace
  <2> QED
    BY <2>1, <2>4, NamesMoveNot
<1>4. ASSUME RemoveApplication
      PROVE  NoStrangers'
  <2>1. rows' = rows
    BY <1>4 DEF RemoveApplication
  <2>2. \A y \in Remotes : ~Present(y)'
    BY <1>4 DEF RemoveApplication, Present, Workspace, BuildStatus
  <2> QED
    BY <2>1, <2>2, NamesMoveNot
<1>5. coder' = coder /\ rows' = rows => NoStrangers'
  BY NamesMoveNot DEF Present
<1>6. (\/ \E j \in NewIds, r \in Resources : DeleteWorkspace(j, r)
       \/ \E w \in Workers, m \in queue : WClaim(w, m)
       \/ \E w \in Workers : FailBuild(w) \/ WStop(w)
       \/ EngineStep
       \/ DeleteInstance \/ SweepDone \/ UNCHANGED wvars) => NoStrangers'
  BY <1>5 DEF DeleteWorkspace, WClaim, FailBuild, WStop, EngineStep, Engine,
              aside, DeleteInstance, SweepDone, wvars
<1> QED
  BY <1>1, <1>2, <1>3, <1>4, <1>6, Cases, WorkerNames DEF RequestStep, InstanceStep

\* The rows are removed once; before that the instance is not gone.
LEMMA NotGoneBefore ==
    ASSUME TypeOK, JobsArePlaced, NothingOutlives, [WNext]_wvars, inst' # "gone"
    PROVE  inst # "gone" /\ ~RemoveRows
BY GoneStays DEF RemoveRows

\* Types, remote workspaces and the fence need nothing else.
LEMMA GroundStep ==
    ASSUME GroundInv, [WNext]_wvars
    PROVE  GroundInv'
<1>1. TypeOK' /\ JobsArePlaced'
  BY WorkspaceTypeStep, PlacedStep DEF GroundInv
<1>2. WTypeOK'
  BY WTypeStep DEF GroundInv
<1>3. RemotesAreTrue' /\ NothingOutlives'
  BY RemotesStep DEF GroundInv
<1>4. inst' # "gone" => Fenced'
  BY NotGoneBefore, WorkspaceFenceStep DEF GroundInv, Fence
<1> QED
  BY <1>1, <1>2, <1>3, <1>4 DEF GroundInv

\* A misnamed row stays misnamed.
LEMMA NotMisnamedBefore ==
    ASSUME [WNext]_wvars, ~misnamed'
    PROVE  ~misnamed
BY MisnamedStays DEF RequestStep, CreateWorkspace, UpdateWorkspace,
                     DeleteWorkspace, aside

\* The whole invariant is inductive.
LEMMA WorkspaceInvStep ==
    ASSUME WorkspaceInv, [WNext]_wvars
    PROVE  WorkspaceInv'
<1>1. GroundInv /\ GroundInv'
  BY GroundStep DEF WorkspaceInv
<1>2. ASSUME inst' # "gone", ~misnamed'
      PROVE  NamesAreUnique' /\ NoStrangers' /\ RowsAreTrue' /\ WorkersKnow'
  <2>1. inst # "gone" /\ ~RemoveRows /\ ~misnamed
    BY <1>1, <1>2, NotGoneBefore, NotMisnamedBefore DEF GroundInv
  <2>2. Fence /\ Fence'
    BY <1>1, <1>2, <2>1 DEF GroundInv, Fence
  <2>3. /\ WTypeOK /\ WTypeOK' /\ RemotesAreTrue /\ NoStrangers
        /\ NamesAreUnique /\ RowsAreTrue /\ WorkersKnow
    BY <1>1, <2>1 DEF GroundInv, WorkspaceInv
  <2>4. NamesAreUnique' /\ RowsAreTrue' /\ WorkersKnow'
    BY <1>2, <2>1, <2>2, <2>3, RowsStep
  <2>5. NoStrangers'
    BY <1>2, <2>1, <2>2, <2>3, StrangersStep
  <2> QED
    BY <2>4, <2>5
<1> QED
  BY <1>1, <1>2 DEF WorkspaceInv

\* Nothing is there at first.
LEMMA WorkspaceInit == WInit => WorkspaceInv
<1> SUFFICES ASSUME WInit
             PROVE  WorkspaceInv
  OBVIOUS
<1>1. /\ \A r \in Resources : rows[r] = EmptyRow /\ resources[r] = AbsentResource
      /\ \A x \in Remotes : coder[x] = NoWorkspace
      /\ \A w \in Workers : claims[w] = NoClaim /\ act[w] = NoAct
      /\ \A j \in Jobs : jobs[j] = AbsentJob
      /\ inst = "success" /\ misnamed = FALSE
  BY DEF WInit, Init
<1>2. /\ EmptyRow.name = NoName /\ EmptyRow.params = NoValue
      /\ EmptyRow.dirty = TRUE /\ EmptyRow.remote = NoRemote
      /\ NoWorkspace.status = "unused" /\ NoWorkspace.transition = "start"
      /\ AbsentResource.status = "absent" /\ AbsentJob.status = "absent"
  BY DEF EmptyRow, Row, NoWorkspace, Workspace, AbsentResource, AbsentJob
<1>3. TypeOK /\ Fenced
  <2>1. Init
    BY DEF WInit
  <2>2. TypeOK
    BY <2>1 DEF Init, TypeOK, AbsentJob, AbsentResource, IdleScan, ScanState,
         JobRow, ResourceRow, JobStatus, ClaimAge, JobNames, Actions
  <2>3. Fenced
    BY <2>1 DEF Init, Fenced, Linked, LiveJobsAreCurrent, TokensAreUnique,
         AbsentJob, AbsentResource
  <2> QED
    BY <2>2, <2>3
<1>4. JobsArePlaced
  BY <1>1, <1>2 DEF JobsArePlaced
<1>5. WTypeOK
  <2>1. /\ EmptyRow \in RowState /\ NoWorkspace \in RemoteState
        /\ NoAct \in ActState
    BY DEF EmptyRow, Row, RowState, NoWorkspace, Workspace, RemoteState, NoAct,
           Act, ActState
  <2>2. /\ rows \in [Resources -> RowState] /\ coder \in [Remotes -> RemoteState]
        /\ act \in [Workers -> ActState]
    BY <2>1 DEF WInit
  <2>3. \A r \in Resources : NamedWhilePresent(r)
    BY <1>1, <1>2 DEF NamedWhilePresent, RowPresent
  <2> QED
    BY <1>1, <2>2, <2>3 DEF WTypeOK, RowState, ActState, NamedWhilePresent
<1>6. RemotesAreTrue /\ NothingOutlives
  BY <1>1, <1>2 DEF RemotesAreTrue, RemoteIsTrue, NothingOutlives
<1>7. NamesAreUnique
  BY <1>1, <1>2 DEF NamesAreUnique
<1>8. RowsAreTrue
  <2> SUFFICES ASSUME NEW r \in Resources
               PROVE  RowIsTrue(r)
    BY DEF RowsAreTrue
  <2>1. \A x \in Remotes : ~Of(x, r)
    BY <1>1, <1>2 DEF Of
  <2>2. ~RowPresent(r) /\ rows[r].remote = NoRemote /\ rows[r].dirty
        /\ resources[r].status = "absent"
    BY <1>1, <1>2 DEF RowPresent
  <2> QED
    BY <2>1, <2>2 DEF RowIsTrue
<1>9. WorkersKnow /\ NoStrangers
  BY <1>1, <1>2 DEF WorkersKnow, WorksOn, Current, NoStrangers, RowPresent
<1> QED
  BY <1>3, <1>4, <1>5, <1>6, <1>7, <1>8, <1>9 DEF WorkspaceInv, GroundInv

-----------------------------------------------------------------------------
(***************************************************************************)
(* Theorems.                                                               *)
(***************************************************************************)

\* Whatever is renamed, and while the instance is deleted: types, remote
\* workspaces and the fence of the engine.
LEMMA GroundCorrect == WSpec => []GroundInv
<1>1. WInit => GroundInv
  BY WorkspaceInit DEF WorkspaceInv
<1>2. GroundInv /\ [WNext]_wvars => GroundInv'
  BY GroundStep
<1> QED
  BY <1>1, <1>2, PTL DEF WSpec

\* Every reachable row, remote workspace and worker record has its type, and a
\* row has a name and parameters exactly while it exists.
THEOREM WorkspaceTypeCorrect == WSpec => []WTypeOK
<1>1. GroundInv => WTypeOK
  BY DEF GroundInv
<1> QED
  BY <1>1, GroundCorrect, PTL

\* A workspace row is worked on by one worker at a time, also after failed
\* builds, and when the deletion of the instance removes rows under their jobs.
THEOREM WorkspaceOwnerCorrect == WSpec => []OneOwnerPerResource
<1>1. GroundInv => OneOwnerPerResource
  <2> SUFFICES ASSUME GroundInv
               PROVE  OneOwnerPerResource
    OBVIOUS
  <2>1. CASE inst # "gone"
    BY <2>1, FencedOwners DEF GroundInv
  <2>2. CASE inst = "gone"
    <3>1. \A w \in Workers : ~Current(w)
      BY <2>2, NoneIsCurrent DEF GroundInv, NothingOutlives
    <3> QED
      BY <3>1 DEF Current, OneOwnerPerResource
  <2> QED
    BY <2>1, <2>2
<1> QED
  BY <1>1, GroundCorrect, PTL

\* The inductive invariant.
LEMMA WorkspaceInvCorrect == WSpec => []WorkspaceInv
<1>1. WorkspaceInv /\ [WNext]_wvars => WorkspaceInv'
  BY WorkspaceInvStep
<1> QED
  BY <1>1, WorkspaceInit, PTL DEF WSpec

\* Unless a request misnamed a row, with renames from success and error of any
\* number of rows: a remote workspace is reached from its row, and from no other;
\* a creation retried after its answer was lost adopts what the first attempt made,
\* and no row is removed, by its own deletion or with the instance, before its
\* remote workspace is gone.
THEOREM RemotesReachable == WSpec => []RemotesAreReachable
<1>1. ASSUME WorkspaceInv, ~misnamed, NEW x \in Remotes, Present(x)
      PROVE  RowPresent(coder[x].row) /\ Lookup(coder[x].row) = {x}
  <2>1. inst # "gone"
    BY <1>1 DEF WorkspaceInv, GroundInv, NothingOutlives
  <2>2. /\ WTypeOK /\ RemotesAreTrue /\ NoStrangers /\ RowsAreTrue
    BY <1>1, <2>1 DEF WorkspaceInv, GroundInv
  <2>3. coder[x].status # "unused"
    BY <1>1 DEF Present, BuildStatus
  <2>4. PICK r \in Resources : r = coder[x].row
    BY <2>2, <2>3 DEF RemotesAreTrue, RemoteIsTrue
  <2>5. Of(x, r) /\ RowIsTrue(r)
    BY <2>2, <2>3, <2>4 DEF Of, RowsAreTrue
  <2>6. /\ RowPresent(r)
        /\ \A y \in Remotes : (Of(y, r) /\ Present(y)) => y = x
    BY <1>1, <2>5 DEF RowIsTrue
  <2>7. \A y \in Remotes : y \in Lookup(r) <=> Of(y, r) /\ Present(y)
    BY <2>2, <2>6, LookupFinds
  <2>8. Lookup(r) = {x}
    BY <1>1, <2>5, <2>6, <2>7, LookupType
  <2> QED
    BY <2>4, <2>6, <2>8
<1>2. WorkspaceInv => RemotesAreReachable
  BY <1>1 DEF RemotesAreReachable
<1> QED
  BY <1>2, WorkspaceInvCorrect, PTL

\* What a successful row reports is true of Coder: its own remote workspace has
\* the requested name and parameters, or was deleted by a failed deletion; unless
\* a request misnamed a row.
THEOREM SuccessApplied == WSpec => []SuccessIsApplied
<1>1. ASSUME WorkspaceInv, NEW r \in Resources,
             resources[r].status = "success", inst = "success", ~misnamed
      PROVE  /\ rows[r].remote # NoRemote
             /\ Present(rows[r].remote) \/ coder[rows[r].remote].transition = "delete"
             /\ coder[rows[r].remote].row = r
             /\ coder[rows[r].remote].name = rows[r].name
             /\ coder[rows[r].remote].params = rows[r].params
  <2>1. WTypeOK /\ RemotesAreTrue /\ RowIsTrue(r)
    BY <1>1 DEF WorkspaceInv, GroundInv, RowsAreTrue
  <2>2. RowPresent(r) /\ ~rows[r].dirty /\ coder[rows[r].remote].name = rows[r].name
    BY <1>1, <2>1 DEF RowIsTrue, RowPresent
  <2>3. rows[r].remote # NoRemote /\ coder[rows[r].remote].params = rows[r].params
    BY <2>1, <2>2 DEF RowIsTrue, Applied
  <2>4. PICK x \in Remotes : x = rows[r].remote
    BY <2>1, <2>3, Typed DEF RowState
  <2>5. Of(x, r)
    BY <2>1, <2>3, <2>4 DEF RowIsTrue
  <2>6. coder[x].status \in BuildStatus \cup {"unused", "gone"}
    BY <2>1, Typed DEF RemoteState
  <2>7. Present(x) \/ coder[x].transition = "delete"
    BY <1>1, <2>1, <2>5, <2>6 DEF Of, Present, RemotesAreTrue, RemoteIsTrue
  <2> QED
    BY <2>2, <2>3, <2>4, <2>5, <2>7 DEF Of
<1>2. WorkspaceInv => SuccessIsApplied
  BY <1>1 DEF SuccessIsApplied
<1> QED
  BY <1>2, WorkspaceInvCorrect, PTL

\* Unless a request misnamed a row, no step adopts a remote workspace that was
\* made for another row, for any number of rows, workers and renames.
THEOREM AdoptionCorrect == WSpec => []AdoptsOnlyItsOwn
<1>1. ASSUME WorkspaceInv, ~misnamed, NEW r \in Resources, rows[r].remote # NoRemote
      PROVE  coder[rows[r].remote].row = r
  <2>1. inst # "gone"
    BY <1>1 DEF WorkspaceInv, GroundInv, NothingOutlives
  <2> QED
    BY <1>1, <2>1 DEF WorkspaceInv, RowsAreTrue, RowIsTrue, Of
<1>2. WorkspaceInv => AdoptsOnlyItsOwn
  BY <1>1 DEF AdoptsOnlyItsOwn, AdoptsOwnWorkspace
<1> QED
  BY <1>2, WorkspaceInvCorrect, PTL
=============================================================================
