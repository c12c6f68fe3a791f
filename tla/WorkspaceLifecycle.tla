-------------------------- MODULE WorkspaceLifecycle --------------------------
(***************************************************************************)
(* The workspaces of one owner on one instance: rows that requests create, *)
(* rename, reconfigure and delete, and the remote Coder workspaces their   *)
(* durable jobs create or adopt, build and delete.  The deletion of the    *)
(* whole instance may be accepted while workspace jobs are in flight.      *)
(*                                                                         *)
(* While a job is pending or running no request changes its row, so a step *)
(* reads the row and looks the remote workspace up in one action.  A       *)
(* worker acts only while it owns its job: the time from one heartbeat to  *)
(* the next remote call is far below job_stale_after_seconds.              *)
(***************************************************************************)
EXTENDS JobExecution, Workflows, FiniteSets

CONSTANTS Names,          \* workspace names
          Values,         \* snapshots of user parameters
          Remotes,        \* identifiers of remote workspaces
          Empty,          \* the snapshot without parameters
          NoName, NoValue, NoRemote,
          InstanceDeletes \* may the deletion of the instance be requested?

ASSUME WorkspaceAssumption ==
    /\ NoName \notin Names
    /\ NoValue \notin Values
    /\ Empty \in Values
    /\ NoRemote \notin Remotes
    /\ InstanceDeletes \in BOOLEAN

\* The engine runs the step graph of the workspace operations.
ASSUME WorkspaceTables ==
    /\ Transitions \subseteq WorkspaceTransitions
    /\ DeletingSteps = WorkspaceDeletingSteps

VARIABLES rows,   \* rows[r]: the columns of workspace r beside its job columns
          coder,  \* coder[x]: remote workspace x and its latest build
          act,    \* act[w]: how far worker w is inside its step
          inst,   \* the instance, seen from its deletion
          misnamed \* history: has a request been accepted that Misnames?

wvars == <<vars, rows, coder, act, inst, misnamed>>
aside == <<rows, coder, act, inst, misnamed>>

CreateStep == "step_01_create_workspace"
UpdateStep == "step_01_update_workspace"
DeleteStep == "step_01_delete_workspace"

\* dirty: applied_parameters_revision differs from parameters_revision.
Row(n, v, dirty, x) == [name |-> n, params |-> v, dirty |-> dirty, remote |-> x]
EmptyRow == Row(NoName, NoValue, TRUE, NoRemote)

\* A remote workspace: the row it was created for, its name, and transition,
\* status and parameters of its latest build.
Workspace(r, n, v, transition, status) ==
    [row |-> r, name |-> n, params |-> v, transition |-> transition,
     status |-> status]
NoWorkspace == Workspace(NoResource, NoName, NoValue, "start", "unused")

BuildStatus == {"starting", "running", "stopping", "stopped", "deleting",
                "failed"}
Active == {"starting", "stopping", "deleting"}

\* remote is the workspace the step works on, seen its state when it was looked
\* up, and build the outcome of the build the step waits for.
Act(at, x, seen, build) ==
    [at |-> at, remote |-> x, seen |-> seen, build |-> build]
NoAct == Act("begin", NoRemote, NoWorkspace, "none")

NewRemotes == Draw({x \in Remotes : coder[x].status = "unused"})
Present(x) == coder[x].status \in BuildStatus
RowPresent(r) == resources[r].status # "absent"

RemoteState == [row : Resources \cup {NoResource},
                name : Names \cup {NoName},
                params : Values \cup {NoValue},
                transition : {"start", "stop", "delete"},
                status : BuildStatus \cup {"unused", "gone"}]

\* Every row, remote workspace and worker record has its type, and a row has a
\* name and parameters exactly while it exists.
WTypeOK ==
    /\ rows \in [Resources -> [name : Names \cup {NoName},
                               params : Values \cup {NoValue},
                               dirty : BOOLEAN,
                               remote : Remotes \cup {NoRemote}]]
    /\ \A r \in Resources : /\ RowPresent(r) <=> rows[r].name # NoName
                            /\ RowPresent(r) <=> rows[r].params # NoValue
    /\ coder \in [Remotes -> RemoteState]
    /\ act \in [Workers ->
                  [at : {"begin", "found", "missing", "submitted", "stored"},
                   remote : Remotes \cup {NoRemote},
                   seen : RemoteState,
                   build : {"none", "active", "done", "failed"}]]
    /\ inst \in {"success", "deleting", "swept", "removed", "gone"}
    /\ misnamed \in BOOLEAN

WInit ==
    /\ Init
    /\ rows = [r \in Resources |-> EmptyRow]
    /\ coder = [x \in Remotes |-> NoWorkspace]
    /\ act = [w \in Workers |-> NoAct]
    /\ inst = "success"
    /\ misnamed = FALSE

-----------------------------------------------------------------------------
\* Requests.  _lock_available_instance wants a successful instance; the other
\* referenced records (template, deployment, owner, image) are there.

SetRow(r, new) == rows' = [rows EXCEPT ![r] = new]

\* uq_workspaces_instance_name_ci
NameIsFree(r, n) == \A q \in Resources \ {r} : rows[q].name # n

\* The database has one name for row r and Coder another: a workspace of r that
\* its row does not know is no longer found by name, or the workspace of
\* another row still has the name.  Nothing checks this.
Misnames(r, n) ==
    \E x \in Remotes : /\ Present(x)
                       /\ \/ /\ coder[x].row = r /\ coder[x].name # n
                             /\ rows[r].remote # x
                          \/ coder[x].row # r /\ coder[x].name = n

\* WorkspaceRepository.create
CreateWorkspace(j, r, n, v) ==
    /\ inst = "success"
    /\ NameIsFree(r, n)
    /\ \E t \in Transitions : t.name = "workspace.create" /\ Request(j, r, t)
    /\ SetRow(r, Row(n, v, TRUE, NoRemote))
    /\ misnamed' = (misnamed \/ Misnames(r, n))
    /\ UNCHANGED <<coder, act, inst>>

\* Mutant of Changed: the revision is not advanced with the parameters.
ForgottenRevision(r, v) == rows[r].dirty

\* parameters_revision advances exactly if the parameters differ.
Changed(r, v) == rows[r].dirty \/ v # rows[r].params

\* WorkspaceRepository.update.  An unchanged successful row gets no job, but
\* the image and the modules, which no step reads, count as a change too.
UpdateWorkspace(j, r, n, v) ==
    /\ inst = "success"
    /\ NameIsFree(r, n)
    /\ \E t \in Transitions : t.name = "workspace.update" /\ Request(j, r, t)
    /\ SetRow(r, Row(n, v, Changed(r, v), rows[r].remote))
    /\ misnamed' = (misnamed \/ Misnames(r, n))
    /\ UNCHANGED <<coder, act, inst>>

\* WorkspaceRepository.request_deletion
DeleteWorkspace(j, r) ==
    /\ inst = "success"
    /\ \E t \in Transitions : t.name = "workspace.delete" /\ Request(j, r, t)
    /\ UNCHANGED aside

-----------------------------------------------------------------------------
\* The worker inside a step.
Mine(w) == jobs[claims[w].job].resource

Standing(w, at) == /\ claims[w] # NoClaim
                   /\ act[w].at = at
                   /\ Owns(w, claims[w].job)
                   /\ inst \notin {"removed", "gone"}

Goto(w, a) == act' = [act EXCEPT ![w] = a]

\* workspace_by_owner_and_name: names are unique among an owner's workspaces.
ByName(n) == {x \in Remotes : Present(x) /\ coder[x].name = n}

\* find_remote_workspace: by the stored identifier, else by owner and name.
Lookup(r) == LET stored == {x \in Remotes : x = rows[r].remote /\ Present(x)}
             IN  IF stored # {} THEN stored ELSE ByName(rows[r].name)

\* The outcome of the latest build, as a step that waits for it would see it.
Outcome(x) == IF coder[x].status \in Active THEN "active"
              ELSE IF coder[x].status = "failed" THEN "failed" ELSE "done"

\* workspace_remote_snapshot and find_remote_workspace
Look(w) ==
    /\ Standing(w, "begin")
    /\ \/ /\ Lookup(Mine(w)) = {}
          /\ Goto(w, Act("missing", NoRemote, NoWorkspace, "none"))
       \/ \E x \in Lookup(Mine(w)) :
             Goto(w, Act("found", x, coder[x], Outcome(x)))
    /\ UNCHANGED <<vars, rows, coder, inst, misnamed>>

\* create_workspace: the remote workspace and its first build.
CreateRemote(w, x) ==
    LET r   == Mine(w)
        new == Workspace(r, rows[r].name, rows[r].params, "start", "starting")
    IN  /\ Standing(w, "missing")
        /\ claims[w].step = CreateStep
        /\ coder[x].status = "unused"
        /\ ByName(rows[r].name) = {}
        /\ coder' = [coder EXCEPT ![x] = new]
        /\ Goto(w, Act("submitted", x, new, "active"))
        /\ UNCHANGED <<vars, rows, inst, misnamed>>

\* update_workspace_name, before anything else of an update
Rename(w) ==
    LET x    == act[w].remote
        n    == rows[Mine(w)].name
        seen == act[w].seen
    IN  /\ Standing(w, "found")
        /\ claims[w].step = UpdateStep
        /\ seen.name # n
        /\ Present(x)
        /\ ByName(n) = {}
        /\ coder' = [coder EXCEPT ![x] = Workspace(@.row, n, @.params,
                                             @.transition, @.status)]
        /\ Goto(w, Act("found", x, Workspace(seen.row, n, seen.params,
                                  seen.transition, seen.status), act[w].build))
        /\ UNCHANGED <<vars, rows, inst, misnamed>>

\* What the step sees is what it wants: no build of its own.  A creation takes
\* a build that is not a start for one without parameters.
Adequate(w) ==
    LET seen == act[w].seen
        row  == rows[Mine(w)]
        same == seen.transition = "start" /\ seen.params = row.params
    IN  \/ /\ claims[w].step = CreateStep
           /\ \/ same
              \/ seen.transition # "start" /\ row.params = Empty
           /\ seen.status \notin {"stopped", "failed", "deleting"}
        \/ /\ claims[w].step = UpdateStep
           /\ seen.name = row.name
           /\ \/ ~row.dirty
              \/ same /\ seen.status \in {"starting", "running"}
        \/ /\ claims[w].step = DeleteStep
           /\ seen.transition = "delete"
           /\ seen.status # "failed"

\* The step goes on with the build it found, or needs none at all.
Reuse(w) ==
    /\ Standing(w, "found")
    /\ Adequate(w)
    /\ Goto(w, Act("submitted", act[w].remote, act[w].seen, act[w].build))
    /\ UNCHANGED <<vars, rows, coder, inst, misnamed>>

\* create_workspace_start_build with the row's parameters, or
\* create_workspace_delete_build
Build(x, r, step) ==
    IF step = DeleteStep
    THEN Workspace(coder[x].row, coder[x].name, coder[x].params, "delete", "deleting")
    ELSE Workspace(coder[x].row, coder[x].name, rows[r].params, "start", "starting")

\* A build of its own; Coder refuses one while another is active.
Submit(w) ==
    LET x == act[w].remote
    IN  /\ Standing(w, "found")
        /\ ~Adequate(w)
        /\ claims[w].step = UpdateStep => act[w].seen.name = rows[Mine(w)].name
        /\ Present(x)
        /\ coder[x].status \notin Active
        /\ coder' = [coder EXCEPT ![x] = Build(x, Mine(w), claims[w].step)]
        /\ Goto(w, Act("submitted", x, act[w].seen, "active"))
        /\ UNCHANGED <<vars, rows, inst, misnamed>>

\* The row with the identifier of its remote workspace.
StoredRow(r, x) == Row(rows[r].name, rows[r].params, rows[r].dirty, x)

\* An update that changes no parameter neither builds nor waits.
Unbuilt(w) == claims[w].step = UpdateStep /\ ~rows[Mine(w)].dirty

\* store_remote_ids
Store(w) ==
    /\ Standing(w, "submitted")
    /\ ~Unbuilt(w)
    /\ SetRow(Mine(w), StoredRow(Mine(w), act[w].remote))
    /\ Goto(w, Act("stored", act[w].remote, NoWorkspace, act[w].build))
    /\ UNCHANGED <<vars, coder, inst, misnamed>>

WorkerStep(w) == \/ Look(w) \/ Rename(w) \/ Reuse(w) \/ Submit(w) \/ Store(w)
                 \/ \E x \in NewRemotes : CreateRemote(w, x)

-----------------------------------------------------------------------------
WClaim(w, msg) ==
    /\ Claim(w, msg)
    /\ Goto(w, NoAct)
    /\ UNCHANGED <<rows, coder, inst, misnamed>>

\* Mutant of Built: the step does not wait for its build.
NoWait(w) == act[w].at = "stored"

\* Mutant of Built: every build is expected to end in "running".
BuiltRunning(w) == /\ act[w].at = "stored" /\ act[w].build = "done"
                   /\ claims[w].step # DeleteStep

\* wait_workspace_build has seen the expected status.
Built(w) == act[w].at = "stored" /\ act[w].build = "done"

\* complete_workspace after a build, or of a rename alone.
Settle(w) ==
    /\ claims[w] # NoClaim
    /\ claims[w].step # DeleteStep
    /\ Built(w) \/ (act[w].at = "submitted" /\ Unbuilt(w))
    /\ Complete(w)
    /\ LET row == rows[Mine(w)]
       IN  SetRow(Mine(w), Row(row.name, row.params, FALSE, act[w].remote))
    /\ Goto(w, NoAct)
    /\ UNCHANGED <<coder, inst, misnamed>>

\* complete_workspace with delete_resource: the remote workspace was deleted,
\* or never found.
Remove(w) ==
    /\ claims[w] # NoClaim
    /\ claims[w].step = DeleteStep
    /\ Built(w) \/ act[w].at = "missing"
    /\ Complete(w)
    /\ SetRow(Mine(w), EmptyRow)
    /\ Goto(w, NoAct)
    /\ UNCHANGED <<coder, inst, misnamed>>

\* The awaited build failed: the next poll raises, whatever the bound on
\* disturbances.
FailBuild(w) ==
    LET j == claims[w].job
    IN  /\ Standing(w, "stored")
        /\ act[w].build = "failed"
        /\ jobs' = [jobs EXCEPT ![j] = FailedJob(jobs[j])]
        /\ resources' = WithResource(Mine(w),
              ResourceWith(resources[Mine(w)], claims[w].step, "error"))
        /\ claims' = [claims EXCEPT ![w] = NoClaim]
        /\ Goto(w, NoAct)
        /\ UNCHANGED <<queue, scans, disturbances, rows, coder, inst, misnamed>>

\* Any other error (a refused call, a timeout, an update that finds no remote
\* workspace), a lost claim, or the death of the process.
WStop(w) ==
    /\ Fail(w) \/ Abandon(w) \/ Crash(w)
    /\ Goto(w, NoAct)
    /\ UNCHANGED <<rows, coder, inst, misnamed>>

-----------------------------------------------------------------------------
\* Coder and its users.

\* Workers that wait for the build of x learn its outcome: it is final.
Notify(x, outcome) ==
    act' = [w \in Workers |->
              IF act[w].remote = x /\ act[w].build = "active"
              THEN Act(act[w].at, x, act[w].seen, outcome) ELSE act[w]]

\* Only a deletion waits for one: a remote workspace that failed to delete
\* stays, and one that is deleted is gone.
FinishBuild(x, status, outcome) ==
    /\ coder[x].status \in Active
    /\ coder' = [coder EXCEPT ![x] = Workspace(@.row, @.name, @.params,
                                               @.transition, status)]
    /\ Notify(x, outcome)

\* No step waits for "stopped": its wait for a stop build times out.
BuildDone(x) ==
    /\ \E p \in {<<"starting", "running", "done">>,
                 <<"stopping", "stopped", "failed">>,
                 <<"deleting", "gone", "done">>} :
          coder[x].status = p[1] /\ FinishBuild(x, p[2], p[3])
    /\ UNCHANGED <<vars, rows, inst, misnamed>>

BuildFailed(x) ==
    /\ FinishBuild(x, "failed", "failed")
    /\ Disturb
    /\ UNCHANGED <<jobs, resources, queue, claims, scans, rows, inst, misnamed>>

\* The owner, or the daily stop, stops a running workspace.
StopByOwner(x) ==
    /\ coder[x].status = "running"
    /\ coder' = [coder EXCEPT ![x] = Workspace(@.row, @.name, @.params,
                                               "stop", "stopping")]
    /\ UNCHANGED <<vars, rows, act, inst, misnamed>>

-----------------------------------------------------------------------------
\* The deletion of the instance, which looks at no workspace row.

\* InstanceRepository.request_deletion
DeleteInstance ==
    /\ InstanceDeletes
    /\ inst = "success"
    /\ inst' = "deleting"
    /\ UNCHANGED <<vars, rows, coder, act, misnamed>>

\* delete_all_workspaces: a delete build for a listed workspace without one ...
SweepWorkspace(x) ==
    /\ inst = "deleting"
    /\ Present(x)
    /\ coder[x].status \notin Active
    /\ coder' = [coder EXCEPT ![x] = Workspace(@.row, @.name, @.params,
                                               "delete", "deleting")]
    /\ UNCHANGED <<vars, rows, act, inst, misnamed>>

\* ... until a listing is empty.
SweepDone ==
    /\ inst = "deleting"
    /\ \A x \in Remotes : ~Present(x)
    /\ inst' = "swept"
    /\ UNCHANGED <<vars, rows, coder, act, misnamed>>

\* step_02_remove_instance: the Application, and Coder with it.
RemoveApplication ==
    /\ inst = "swept"
    /\ inst' = "removed"
    /\ coder' = [x \in Remotes |->
          IF Present(x) THEN Workspace(coder[x].row, coder[x].name,
                                coder[x].params, coder[x].transition, "gone")
                        ELSE coder[x]]
    /\ UNCHANGED <<vars, rows, act, misnamed>>

\* step_04_remove_local_configuration deletes the workspace rows.
RemoveRows ==
    /\ inst = "removed"
    /\ inst' = "gone"
    /\ rows' = [r \in Resources |-> EmptyRow]
    /\ resources' = [r \in Resources |-> AbsentResource]
    /\ UNCHANGED <<jobs, queue, claims, scans, disturbances, coder, act, misnamed>>

-----------------------------------------------------------------------------
Engine(A) == A /\ UNCHANGED aside

Environment(x) == BuildDone(x) \/ BuildFailed(x) \/ StopByOwner(x)
                               \/ SweepWorkspace(x)

WNext ==
    \/ \E j \in NewIds, r \in Resources, n \in Names, v \in Values :
          CreateWorkspace(j, r, n, v) \/ UpdateWorkspace(j, r, n, v)
    \/ \E j \in NewIds, r \in Resources : DeleteWorkspace(j, r)
    \/ \E w \in Workers, msg \in queue : WClaim(w, msg)
    \/ \E w \in Workers : WorkerStep(w) \/ Settle(w) \/ Remove(w)
                                        \/ FailBuild(w) \/ WStop(w)
    \/ \E x \in Remotes : Environment(x)
    \/ DeleteInstance \/ SweepDone \/ RemoveApplication \/ RemoveRows
    \/ \E msg \in queue : Engine(IgnoreDelivery(msg))
    \/ \E msg \in queue : Engine(Lose(msg))
    \/ \E j \in Jobs : Engine(Expire(j))
    \/ \E s \in Scanners : Engine(ScanStart(s))
    \/ \E s \in Scanners, j \in Jobs : Engine(ScanJob(s, j))
    \/ \E s \in Scanners : Engine(ScanEnd(s))

WSpec == WInit /\ [][WNext]_wvars

\* The fairness of the engine, and builds that end.  Nothing is assumed of
\* requests, owners or the deletion of the instance.
WFairness ==
    /\ \A msg \in Jobs \X Steps :
          WF_wvars((\E w \in Workers : WClaim(w, msg))
                   \/ Engine(IgnoreDelivery(msg)))
    /\ \A w \in Workers :
          WF_wvars(\/ WorkerStep(w) \/ Settle(w) \/ Remove(w) \/ FailBuild(w)
                   \/ WStop(w) /\ disturbances' = disturbances)
    /\ \A x \in Remotes : WF_wvars(BuildDone(x))
    /\ \A j \in Jobs : WF_wvars(Engine(Expire(j)))
    /\ \A s \in Scanners : /\ WF_wvars(Engine(ScanStart(s)))
                           /\ WF_wvars(\E j \in Jobs : Engine(ScanJob(s, j)))
                           /\ WF_wvars(Engine(ScanEnd(s)))

WFairSpec == WSpec /\ WFairness

-----------------------------------------------------------------------------
\* Every remote workspace can still be reached from the row it was made for:
\* the row is there, and the lookup of the next step finds exactly this one.
\* A creation retried after its answer was lost makes no second workspace, and
\* a row is not removed while its workspace exists.  Renames are accepted from
\* success and from error; only one that Misnames breaks this.
RemotesAreReachable ==
    ~misnamed => \A x \in Remotes : Present(x) => /\ RowPresent(coder[x].row)
                                                  /\ Lookup(coder[x].row) = {x}

\* A row reported successful has its own remote workspace, with the name and
\* the parameters last requested, whatever attempts and builds failed before;
\* it can be missing only if a deletion failed after submitting its build, and
\* the update that followed asked for no new parameters.  Only a request that
\* Misnames breaks this.
SuccessIsApplied ==
    \A r \in Resources :
        (resources[r].status = "success" /\ inst = "success" /\ ~misnamed) =>
        LET x == rows[r].remote
        IN  /\ x # NoRemote
            /\ Present(x) \/ coder[x].transition = "delete"
            /\ coder[x].row = r
            /\ coder[x].name = rows[r].name
            /\ coder[x].params = rows[r].params

\* No step adopts a remote workspace that was made for another row.
AdoptsOwnWorkspace ==
    \A r \in Resources : rows[r].remote # NoRemote => coder[rows[r].remote].row = r

\* Only a request that Misnames makes a step adopt another row's workspace.
AdoptsOnlyItsOwn == ~misnamed => AdoptsOwnWorkspace

\* A workspace row disappears only after its remote workspace is gone.
DeletedRowsLeaveNothing ==
    \A r \in Resources : ~RowPresent(r) =>
        \A x \in Remotes : Present(x) => coder[x].row # r

\* The update of a workspace, accepted also after a failed creation, finds a
\* remote workspace to update.
UpdatesHaveAWorkspace ==
    \A r \in Resources :
        (resources[r].status = "pending" /\ resources[r].action = "updating")
            => Lookup(r) # {}

\* When the deletion of the instance goes on to remove the Application, no
\* remote workspace is left.
SweptIsEmpty == inst = "swept" => \A x \in Remotes : ~Present(x)

\* Every accepted workspace request is carried through, unless the instance is
\* being deleted, and except an update of a workspace that was never created,
\* and of a row whose name a workspace has that the row does not find.
WorkspaceRequestsSettle ==
    \A r \in Resources : resources[r].status = "pending" ~>
        \/ resources[r].status \in {"success", "absent"}
        \/ resources[r].action = "updating" /\ Lookup(r) = {}
        \/ ByName(rows[r].name) \ Lookup(r) # {}
        \/ inst # "success"
=============================================================================
