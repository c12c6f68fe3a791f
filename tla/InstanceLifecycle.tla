-------------------------- MODULE InstanceLifecycle --------------------------
(***************************************************************************)
(* One instance driven through its durable operations by the job engine,   *)
(* with the remote systems its steps change: the Argo CD Application, the  *)
(* PostgreSQL schema and the first Coder administrator.                    *)
(*                                                                         *)
(* Every action is an action of JobExecution together with what the step   *)
(* stores on the instance row in that transaction, or one remote call      *)
(* made by a worker between its claim and its finishing transaction.       *)
(* The engine's fence covers the transactions only: a worker that lost its *)
(* claim may still make its next remote call when StaleWorkersAct is TRUE. *)
(* FALSE is the deployment in which a remote call returns before           *)
(* job_stale_after_seconds have passed since the claim.                    *)
(***************************************************************************)
EXTENDS JobExecution, Workflows

CONSTANTS Inst,            \* the instance row
          Passwords,       \* administrator passwords the worker may generate
          NoPassword,      \* password_enc or password_candidate_enc is NULL
          StaleWorkersAct  \* may a worker without a valid claim call remotely?

ASSUME InstanceAssumption ==
    /\ Inst \in Resources
    /\ NoPassword \notin Passwords
    /\ StaleWorkersAct \in BOOLEAN

\* The engine runs the instance's step graph, or a part of it.
ASSUME InstanceTables ==
    /\ Transitions \subseteq InstanceTransitions
    /\ NextSteps \subseteq InstanceNextSteps
    /\ FinalSteps \subseteq InstanceFinalSteps
    /\ DeletingSteps = InstanceDeletingSteps
    /\ Successors \subseteq InstanceSuccessors

VARIABLES app,        \* the Argo CD Application: see Applications
          schema,     \* does the allocated PostgreSQL schema exist?
          admin,      \* the password of Coder's first user, kept in the schema
          state,      \* instance.state
          candidate,  \* instance.password_candidate_enc
          verified,   \* instance.password_enc
          issued,     \* the passwords generated so far
          call,       \* call[w]: how far worker w is inside its step
          check       \* the check_instance_states task

world == <<app, schema, admin>>
columns == <<state, candidate, verified, issued>>
lvars == <<vars, world, columns, call, check>>

\* "busy" has an operation in phase Running or Terminating, "deleting" has a
\* deletionTimestamp, "idle" has neither.
Applications == {"absent", "idle", "busy", "deleting"}

Phases == {"begin", "reconcile", "observed", "mutated", "restored", "cleanup",
           "prepared", "done"}

Call(phase, saw) == [at |-> phase, saw |-> saw]
NoCall == Call("begin", "none")

NoCheck == [at |-> "idle", job |-> NoJob, action |-> "creating",
            status |-> "absent", exists |-> FALSE]

row == resources[Inst]

\* Every variable has the type its column or remote object declares, and a
\* snapshot of check_instance_states is only ever taken of a resting row.
LTypeOK ==
    /\ app \in Applications
    /\ schema \in BOOLEAN
    /\ admin \in Passwords \cup {NoPassword}
    /\ state \in {"started", "stopped"}
    /\ candidate \in Passwords \cup {NoPassword}
    /\ verified \in Passwords \cup {NoPassword}
    /\ issued \subseteq Passwords
    /\ call \in [Workers -> [at : Phases,
                             saw : Passwords \cup {"none", "absent", "present"}]]
    /\ check \in [at : {"idle", "snapshot", "observed"},
                  job : Jobs \cup {NoJob}, action : Actions,
                  status : {"absent", "success", "error"}, exists : BOOLEAN]

LInit ==
    /\ Init
    /\ app = "absent" /\ schema = FALSE /\ admin = NoPassword
    /\ state = "stopped"
    /\ candidate = NoPassword /\ verified = NoPassword /\ issued = {}
    /\ call = [w \in Workers |-> NoCall]
    /\ check = NoCheck

-----------------------------------------------------------------------------
\* Steps grouped by the remote operation they perform.
ReconcileSteps == {"step_02_create_instance", "step_01_start_instance",
                   "step_01_update_instance"}
RemovalSteps == {"step_02_stop_instance", "step_02_remove_instance"}

\* Worker w runs one of the steps and stands at the phase.
At(w, steps, phase) == /\ claims[w] # NoClaim
                       /\ claims[w].step \in steps
                       /\ call[w].at = phase

Current(w) == claims[w] # NoClaim /\ Owns(w, claims[w].job)

\* A remote call that no heartbeat guards.
MayCall(w) == StaleWorkersAct \/ Current(w)

Goto(w, phase, saw) == call' = [call EXCEPT ![w] = Call(phase, saw)]

\* Argo CD may start an automated operation when the Application is written.
Written == app' \in IF app = "deleting" THEN {"deleting"}
                    ELSE IF app = "busy" THEN {"busy"} ELSE {"idle", "busy"}

-----------------------------------------------------------------------------
\* Mutant of CreateSchema: the transaction is never committed.
CreateSchemaUncommitted(w) ==
    /\ At(w, {"step_01_create_schema"}, "begin")
    /\ MayCall(w)
    /\ Goto(w, "done", "none")
    /\ UNCHANGED <<vars, world, columns, check>>

\* postgresql.create_schema: CREATE SCHEMA IF NOT EXISTS.
CreateSchema(w) ==
    /\ At(w, {"step_01_create_schema"}, "begin")
    /\ MayCall(w)
    /\ schema' = TRUE
    /\ Goto(w, "done", "none")
    /\ UNCHANGED <<vars, app, admin, columns, check>>

\* Worker w stands where ensure_application begins.
Reconciling(w) == \/ At(w, ReconcileSteps, "begin")
                  \/ At(w, {"step_01_remove_workspaces"}, "reconcile")

\* ensure_application, first GET; start_01 read its credentials before.
GetApplication(w) ==
    /\ Reconciling(w)
    /\ MayCall(w)
    /\ claims[w].step = "step_01_start_instance" => verified # NoPassword
    /\ app # "busy"
    /\ Goto(w, "observed", IF app = "absent" THEN "absent" ELSE "present")
    /\ UNCHANGED <<vars, world, columns, check>>

\* ensure_application, POST of an Application seen absent (a conflict falls
\* through to the PUT), or PUT of one seen present (404 fails the step).
WriteApplication(w) ==
    /\ At(w, ReconcileSteps \cup {"step_01_remove_workspaces"}, "observed")
    /\ MayCall(w)
    /\ call[w].saw = "absent" => app # "busy"
    /\ call[w].saw = "present" => app # "absent"
    /\ Written
    /\ Goto(w, "mutated", "none")
    /\ UNCHANGED <<vars, schema, admin, columns, check>>

\* ensure_application, the re-read and the sync request.  Argo CD refuses to
\* synchronize an Application that is absent or being deleted.
SyncApplication(w) ==
    /\ At(w, ReconcileSteps \cup {"step_01_remove_workspaces"}, "mutated")
    /\ MayCall(w)
    /\ app = "idle"
    /\ app' = "busy"
    /\ Goto(w, IF claims[w].step \in ReconcileSteps THEN "done" ELSE "restored",
            "none")
    /\ UNCHANGED <<vars, schema, admin, columns, check>>

\* Mutant of GetRemoval: an Application already gone is not a completion.
GetRemovalOfPresent(w) ==
    /\ At(w, RemovalSteps, "begin")
    /\ MayCall(w)
    /\ app = "idle"
    /\ Goto(w, "observed", "none")
    /\ UNCHANGED <<vars, world, columns, check>>

\* delete_application, first GET: nothing to delete, or ready to be deleted.
GetRemoval(w) ==
    /\ At(w, RemovalSteps, "begin")
    /\ MayCall(w)
    /\ app \in {"absent", "idle"}
    /\ Goto(w, IF app = "absent" THEN "done" ELSE "observed", "none")
    /\ UNCHANGED <<vars, world, columns, check>>

\* Mutant of DeleteApplication: an accepted DELETE counts as completed.
DeleteWithoutConfirmation(w) ==
    /\ At(w, RemovalSteps, "observed")
    /\ MayCall(w)
    /\ app' = IF app = "absent" THEN "absent" ELSE "deleting"
    /\ Goto(w, "done", "none")
    /\ UNCHANGED <<vars, schema, admin, columns, check>>

\* delete_application, the foreground DELETE (404 counts as completed).
DeleteApplication(w) ==
    /\ At(w, RemovalSteps, "observed")
    /\ MayCall(w)
    /\ app' = IF app = "absent" THEN "absent" ELSE "deleting"
    /\ Goto(w, IF app = "absent" THEN "done" ELSE "mutated", "none")
    /\ UNCHANGED <<vars, schema, admin, columns, check>>

\* delete_application, the confirming GET.
ConfirmRemoval(w) ==
    /\ At(w, RemovalSteps, "mutated")
    /\ MayCall(w)
    /\ app = "absent"
    /\ Goto(w, "done", "none")
    /\ UNCHANGED <<vars, world, columns, check>>

\* Mutant of PrepareBootstrap: every attempt generates its own candidate.
PrepareFreshCandidate(w) ==
    /\ At(w, {"step_03_bootstrap_admin"}, "begin")
    /\ Current(w)
    /\ verified = NoPassword
    /\ \E p \in Draw(Passwords \ issued) :
          /\ candidate' = p
          /\ issued' = issued \cup {p}
          /\ Goto(w, "prepared", p)
    /\ UNCHANGED <<vars, world, state, verified, check>>

\* _prepare_bootstrap: commit or reload the candidate, fenced by the claim.
PrepareBootstrap(w) ==
    /\ At(w, {"step_03_bootstrap_admin"}, "begin")
    /\ Current(w)
    /\ \/ /\ verified # NoPassword
          /\ Goto(w, "done", "none")
          /\ UNCHANGED <<candidate, issued>>
       \/ /\ verified = NoPassword /\ candidate # NoPassword
          /\ Goto(w, "prepared", candidate)
          /\ UNCHANGED <<candidate, issued>>
       \/ /\ verified = NoPassword /\ candidate = NoPassword
          /\ \E p \in Draw(Passwords \ issued) :
                /\ candidate' = p
                /\ issued' = issued \cup {p}
                /\ Goto(w, "prepared", p)
    /\ UNCHANGED <<vars, world, state, verified, check>>

\* bootstrap_admin_account: create the first user or verify the candidate.
Bootstrap(w) ==
    /\ At(w, {"step_03_bootstrap_admin"}, "prepared")
    /\ MayCall(w)
    /\ app # "absent" /\ schema
    /\ admin \in {NoPassword, call[w].saw}
    /\ admin' = call[w].saw
    /\ Goto(w, "done", "none")
    /\ UNCHANGED <<vars, app, schema, columns, check>>

\* stop_active_workspaces under heartbeats, or nothing without Application.
StopWorkspaces(w) ==
    /\ At(w, {"step_01_stop_workspaces"}, "begin")
    /\ \/ app = "absent" /\ MayCall(w)
       \/ app # "absent" /\ Current(w) /\ verified # NoPassword
                         /\ admin = verified
    /\ Goto(w, "done", "none")
    /\ UNCHANGED <<vars, world, columns, check>>

\* cleanup_user_accounts under heartbeats.
CleanupUsers(w) ==
    /\ At(w, {"step_02_cleanup_users"}, "begin")
    /\ Current(w)
    /\ verified # NoPassword
    /\ app # "absent" /\ schema
    /\ admin \in {NoPassword, verified}
    /\ admin' = verified
    /\ Goto(w, "done", "none")
    /\ UNCHANGED <<vars, app, schema, columns, check>>

\* step_01_remove_workspaces: is there an Application to clean up through?
FindApplication(w) ==
    /\ At(w, {"step_01_remove_workspaces"}, "begin")
    /\ MayCall(w)
    /\ verified # NoPassword
    /\ Goto(w, IF app = "absent" THEN "reconcile" ELSE "restored", "none")
    /\ UNCHANGED <<vars, world, columns, check>>

\* _store_started_application, fenced by the claim.
StoreStartedApplication(w) ==
    /\ At(w, {"step_01_remove_workspaces"}, "restored")
    /\ Current(w)
    /\ state' = "started"
    /\ Goto(w, "cleanup", "none")
    /\ UNCHANGED <<vars, world, candidate, verified, issued, check>>

\* delete_all_workspaces under heartbeats.
DeleteAllWorkspaces(w) ==
    /\ At(w, {"step_01_remove_workspaces"}, "cleanup")
    /\ Current(w)
    /\ app # "absent" /\ admin = verified
    /\ Goto(w, "done", "none")
    /\ UNCHANGED <<vars, world, columns, check>>

\* postgresql.drop_schema: DROP SCHEMA IF EXISTS ... CASCADE.
DropSchema(w) ==
    /\ At(w, {"step_03_remove_schema"}, "begin")
    /\ MayCall(w)
    /\ schema' = FALSE
    /\ admin' = NoPassword
    /\ Goto(w, "done", "none")
    /\ UNCHANGED <<vars, app, columns, check>>

RemoteStep(w) ==
    \/ CreateSchema(w) \/ GetApplication(w) \/ WriteApplication(w)
    \/ SyncApplication(w) \/ GetRemoval(w) \/ DeleteApplication(w)
    \/ ConfirmRemoval(w) \/ PrepareBootstrap(w) \/ Bootstrap(w)
    \/ StopWorkspaces(w) \/ CleanupUsers(w) \/ FindApplication(w)
    \/ StoreStartedApplication(w) \/ DeleteAllWorkspaces(w) \/ DropSchema(w)

-----------------------------------------------------------------------------
\* The engine's transactions, with what the step stores on the instance row.

\* An instance identifier is never reused, and the deletion of a failed
\* creation skips the workspace cleanup without a verified password.
LRequest(j, t) ==
    /\ Request(j, Inst, t)
    /\ t.name = "instance.create" => \A i \in Jobs : jobs[i].status = "absent"
    /\ (t.name = "instance.delete" /\ t.status = "error") =>
           (t.first = "step_02_remove_instance") = (verified = NoPassword)
    /\ UNCHANGED <<world, columns, call, check>>

LClaim(w, m) ==
    /\ Claim(w, m)
    /\ Goto(w, "begin", "none")
    /\ UNCHANGED <<world, columns, check>>

\* advance_execution with the step's mutate callback: a reconciled Application
\* is recorded as started, a confirmed absence as stopped.
LAdvance(w, next) ==
    /\ call[w].at = "done"
    /\ Advance(w, next)
    /\ state' = IF claims[w].step \in ReconcileSteps THEN "started"
                ELSE IF claims[w].step \in RemovalSteps THEN "stopped"
                ELSE state
    /\ Goto(w, "begin", "none")
    /\ UNCHANGED <<world, candidate, verified, issued, check>>

\* Mutant of LComplete: the candidate is not promoted to password_enc.
CompleteWithoutPromotion(w) ==
    /\ \/ call[w].at = "done"
       \/ At(w, {"step_04_remove_local_configuration"}, "begin")
    /\ Complete(w)
    /\ state' = IF claims[w].step \in RemovalSteps THEN "stopped" ELSE state
    /\ Goto(w, "begin", "none")
    /\ UNCHANGED <<world, candidate, verified, issued, check>>

\* complete_execution: mark_stopped, _promote_password, or the deletion of the
\* row by step_04_remove_local_configuration, which has no remote call.
LComplete(w) ==
    /\ \/ call[w].at = "done"
       \/ At(w, {"step_04_remove_local_configuration"}, "begin")
    /\ Complete(w)
    /\ state' = IF claims[w].step \in RemovalSteps THEN "stopped" ELSE state
    /\ LET s == claims[w].step
       IN  /\ s = "step_03_bootstrap_admin" =>
                 candidate # NoPassword \/ verified # NoPassword
           /\ candidate' = IF s \in {"step_03_bootstrap_admin",
                                     "step_04_remove_local_configuration"}
                           THEN NoPassword ELSE candidate
           /\ verified' = IF s = "step_04_remove_local_configuration"
                          THEN NoPassword
                          ELSE IF s = "step_03_bootstrap_admin"
                                  /\ verified = NoPassword
                          THEN candidate ELSE verified
    /\ Goto(w, "begin", "none")
    /\ UNCHANGED <<world, issued, check>>

LContinue(w, k, t) ==
    /\ call[w].at = "done"
    /\ Continue(w, k, t)
    /\ Goto(w, "begin", "none")
    /\ UNCHANGED <<world, columns, check>>

\* Argo CD reports an active operation, or a deletion it has not finished.
MustDefer(w) ==
    \/ Reconciling(w) /\ app = "busy"
    \/ /\ At(w, ReconcileSteps \cup {"step_01_remove_workspaces"}, "observed")
       /\ call[w].saw = "absent" /\ app = "busy"
    \/ /\ At(w, ReconcileSteps \cup {"step_01_remove_workspaces"}, "mutated")
       /\ app = "busy"
    \/ At(w, RemovalSteps, "begin") /\ app \in {"busy", "deleting"}
    \/ At(w, RemovalSteps, "mutated") /\ app # "absent"

LDefer(w) ==
    /\ MustDefer(w)
    /\ Defer(w)
    /\ Goto(w, "begin", "none")
    /\ UNCHANGED <<world, columns, check>>

\* A remote call or a check inside the step raises, at any phase of it.
LFail(w) ==
    /\ Fail(w)
    /\ Goto(w, "begin", "none")
    /\ UNCHANGED <<world, columns, check>>

\* The step ends without a transaction: the claim is lost, or the process dies.
LStop(w) ==
    /\ Abandon(w) \/ Crash(w)
    /\ Goto(w, "begin", "none")
    /\ UNCHANGED <<world, columns, check>>

\* A step of the engine that touches nothing of the instance but its job.
Quiet(A) == A /\ UNCHANGED <<world, columns, call, check>>

\* Only the steps with long remote loops send heartbeats.
LHeartbeat(w) ==
    /\ \/ At(w, {"step_02_cleanup_users", "step_01_stop_workspaces"}, "begin")
       \/ At(w, {"step_01_remove_workspaces"}, "cleanup")
    /\ Quiet(Heartbeat(w))

-----------------------------------------------------------------------------
\* Argo CD ends an operation, or the foreground deletion.
Settle ==
    /\ \/ app = "busy" /\ app' = "idle"
       \/ app = "deleting" /\ app' = "absent"
    /\ UNCHANGED <<vars, schema, admin, columns, call, check>>

\* check_instance_states: snapshot of an idle instance, ...
CheckSnapshot ==
    /\ check.at = "idle"
    /\ row.status \in {"success", "error"}
    /\ row.action # "deleting"
    /\ check' = [at |-> "snapshot", job |-> row.job, action |-> row.action,
                 status |-> row.status, exists |-> FALSE]
    /\ UNCHANGED <<vars, world, columns, call>>

\* ... the remote observation, ...
CheckObserve ==
    /\ check.at = "snapshot"
    /\ check' = [at |-> "observed", job |-> check.job,
                 action |-> check.action, status |-> check.status,
                 exists |-> app # "absent"]
    /\ UNCHANGED <<vars, world, columns, call>>

\* ... and the store, dropped when the row no longer matches the snapshot.
CheckStore ==
    /\ check.at = "observed"
    /\ state' = IF /\ row.status = check.status
                   /\ row.job = check.job
                   /\ row.action = check.action
                THEN IF check.exists THEN "started" ELSE "stopped"
                ELSE state
    /\ check' = NoCheck
    /\ UNCHANGED <<vars, world, candidate, verified, issued, call>>

-----------------------------------------------------------------------------
LNext ==
    \/ \E j \in NewIds, t \in Transitions : LRequest(j, t)
    \/ \E w \in Workers, m \in queue : LClaim(w, m)
    \/ \E w \in Workers : RemoteStep(w)
    \/ \E w \in Workers, next \in Steps : LAdvance(w, next)
    \/ \E w \in Workers : LComplete(w)
    \/ \E w \in Workers, k \in NewIds, t \in Successors : LContinue(w, k, t)
    \/ \E w \in Workers : LDefer(w)
    \/ \E w \in Workers : LFail(w)
    \/ \E w \in Workers : LStop(w)
    \/ \E w \in Workers : LHeartbeat(w)
    \/ \E m \in queue : Quiet(IgnoreDelivery(m))
    \/ \E m \in queue : Quiet(Lose(m))
    \/ \E j \in Jobs : Quiet(Expire(j))
    \/ \E s \in Scanners : Quiet(ScanStart(s))
    \/ \E s \in Scanners, j \in Jobs : Quiet(ScanJob(s, j))
    \/ \E s \in Scanners : Quiet(ScanEnd(s))
    \/ Settle
    \/ CheckSnapshot
    \/ CheckObserve
    \/ CheckStore

LSpec == LInit /\ [][LNext]_lvars

\* The fairness of the engine, and Argo CD ends what it has begun.
LFairness ==
    /\ \A m \in Jobs \X Steps :
          WF_lvars((\E w \in Workers : LClaim(w, m)) \/ Quiet(IgnoreDelivery(m)))
    /\ \A w \in Workers :
          WF_lvars(\/ RemoteStep(w) \/ LComplete(w)
                   \/ \E next \in Steps : LAdvance(w, next)
                   \/ \E k \in NewIds, t \in Successors : LContinue(w, k, t)
                   \/ LStop(w) /\ disturbances' = disturbances)
    /\ \A j \in Jobs : WF_lvars(Quiet(Expire(j)))
    /\ \A s \in Scanners : /\ WF_lvars(Quiet(ScanStart(s)))
                           /\ WF_lvars(\E j \in Jobs : Quiet(ScanJob(s, j)))
                           /\ WF_lvars(Quiet(ScanEnd(s)))
    /\ WF_lvars(Settle)

LFairSpec == LSpec /\ LFairness

-----------------------------------------------------------------------------
\* The last confirmation of an Application's absence still holds: once a stop
\* has succeeded, and from the schema removal step on, no Application exists
\* and the row says so, whatever observation is stored late.
ConfirmedAbsence ==
    \/ row.action = "stopping" /\ row.status = "success"
    \/ row.action = "deleting" /\ row.step \in
          {"step_03_remove_schema", "step_04_remove_local_configuration"}
    => app = "absent" /\ state = "stopped"

\* An Application never runs without its schema: creation makes the schema
\* first, deletion drops it last, and no retry of either reorders them.
ApplicationHasSchema == app # "absent" => schema

\* Deletion leaves nothing behind: once the row is gone, so are the
\* Application, the schema and the administrator in it.
NoOrphans ==
    (row.status = "absent" /\ \E j \in Jobs : jobs[j].status # "absent") =>
        app = "absent" /\ ~schema /\ admin = NoPassword

\* Coder's first user can always be reached with a stored password: the one
\* verified, or before verification the candidate committed before the call.
AdminPasswordIsKept ==
    (row.status # "absent" /\ admin # NoPassword) =>
        admin = IF verified = NoPassword THEN candidate ELSE verified

\* A successful creation, update or start leaves a running Application whose
\* administrator is verified, whatever was retried, deferred or redelivered.
SuccessIsUsable ==
    (row.status = "success" /\ row.action \in {"creating", "updating", "starting"})
        => app \in {"idle", "busy"} /\ verified # NoPassword /\ admin = verified

\* Whenever the instance rests after a success, instance.state tells whether
\* the Application exists, although the observation of check_instance_states
\* may be stored long after it was made.
SettledStateIsTrue ==
    row.status = "success" => ((state = "started") <=> (app # "absent"))

\* An accepted deletion ends with the row gone, although deliveries are lost,
\* workers crash and Argo CD keeps the Application for a while: nobody but the
\* Beat scan takes the next step of a deferred or failed deletion.
DeletionCompletes == row.action = "deleting" ~> row.status = "absent"
=============================================================================
