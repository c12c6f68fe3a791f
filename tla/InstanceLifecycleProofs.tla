----------------------- MODULE InstanceLifecycleProofs -----------------------
(***************************************************************************)
(* Safety of the instance life cycle for every number of jobs, workers,    *)
(* scanners, passwords and disturbances, over the step graph of Workflows. *)
(*                                                                         *)
(* Every step of InstanceLifecycle is a step of the engine, so the fence   *)
(* of JobExecutionProofs holds: the worker whose remote calls count is the *)
(* one holder of the row.  What remains is what each step graph edge       *)
(* leaves behind on the remote systems.                                    *)
(***************************************************************************)
EXTENDS InstanceLifecycle, JobExecutionProofs

-----------------------------------------------------------------------------
\* What the tables of the step graph say about one entry.

\* The steps of each action.
RunsStep(action, step) ==
    \/ action = "creating" /\ step \in {"step_01_create_schema",
           "step_02_create_instance", "step_03_bootstrap_admin"}
    \/ action = "updating" /\ step \in {"step_01_update_instance",
           "step_02_cleanup_users"}
    \/ action = "starting" /\ step \in {"step_01_start_instance",
           "step_02_cleanup_users"}
    \/ action = "stopping" /\ step \in {"step_01_stop_workspaces",
           "step_02_stop_instance"}
    \/ action = "deleting" /\ step \in {"step_01_remove_workspaces",
           "step_02_remove_instance", "step_03_remove_schema",
           "step_04_remove_local_configuration"}

\* The action a job of each operation gives the row.
LEMMA InstanceActions ==
    /\ RESOURCE_ACTIONS["instance.create"] = "creating"
    /\ RESOURCE_ACTIONS["instance.update"] = "updating"
    /\ RESOURCE_ACTIONS["instance.start"] = "starting"
    /\ RESOURCE_ACTIONS["instance.stop"] = "stopping"
    /\ RESOURCE_ACTIONS["instance.delete"] = "deleting"
BY DEF RESOURCE_ACTIONS

\* A request is the creation of an absent row, a change of a created row, or
\* the deletion of a created or half-created one.
LEMMA RequestTable ==
    ASSUME NEW t \in Transitions
    PROVE  \/ /\ t.name = "instance.create" /\ t.status = "absent"
              /\ t.first = "step_01_create_schema"
           \/ /\ \/ /\ t.name = "instance.update"
                    /\ t.first = "step_01_update_instance"
                 \/ /\ t.name = "instance.start"
                    /\ t.first = "step_01_start_instance"
                 \/ /\ t.name = "instance.stop"
                    /\ t.first = "step_01_stop_workspaces"
              /\ \/ t.action = "creating" /\ t.status = "success"
                 \/ /\ t.action \in {"updating", "starting", "stopping"}
                    /\ t.status \in {"success", "error"}
           \/ /\ t.name = "instance.delete"
              /\ \/ /\ t.status = "success"
                    /\ t.first = "step_01_remove_workspaces"
                    /\ t.action \in {"creating", "updating", "starting",
                                     "stopping"}
                 \/ /\ t.status = "error" /\ t.action = "creating"
                    /\ t.first \in {"step_01_remove_workspaces",
                                    "step_02_remove_instance"}
BY InstanceTables DEF InstanceTransitions, Settled, Deletable

\* An advance stays within its action, and a completed deletion is the only
\* one that removes the row.
LEMMA StepTable ==
    ASSUME NEW action, NEW step, RunsStep(action, step)
    PROVE  /\ \A next : <<step, next>> \in NextSteps => RunsStep(action, next)
           /\ step \in FinalSteps =>
                 (step \in DeletingSteps) = (action = "deleting")
BY InstanceTables DEF InstanceNextSteps, InstanceFinalSteps,
                      InstanceDeletingSteps, RunsStep

-----------------------------------------------------------------------------
\* Every step of the instance is a step of the engine, or none of its business.
LEMMA InstanceStep == [LNext]_lvars => [Next]_vars
<1> SUFFICES ASSUME [LNext]_lvars
             PROVE  [Next]_vars
  OBVIOUS
<1>1. NewIds \subseteq Jobs
  BY DEF NewIds, Draw
<1>2. ASSUME NEW w \in Workers, RemoteStep(w)
      PROVE  UNCHANGED vars
  BY <1>2 DEF RemoteStep, CreateSchema, GetApplication, WriteApplication,
         SyncApplication, GetRemoval, DeleteApplication, ConfirmRemoval,
         PrepareBootstrap, Bootstrap, StopWorkspaces, CleanupUsers,
         FindApplication, StoreStartedApplication, DeleteAllWorkspaces,
         DropSchema
<1>3. Settle \/ CheckSnapshot \/ CheckObserve \/ CheckStore => UNCHANGED vars
  BY DEF Settle, CheckSnapshot, CheckObserve, CheckStore
<1>4. UNCHANGED lvars => UNCHANGED vars
  BY DEF lvars
<1> QED
  BY <1>1, <1>2, <1>3, <1>4, InstanceAssumption
     DEF LNext, LRequest, LClaim, LAdvance, LComplete, LContinue, LDefer,
         LFail, LStop, LHeartbeat, Quiet, Next

-----------------------------------------------------------------------------
\* Every job works on the one instance.
OneInstance ==
    \A j \in Jobs : jobs[j].status # "absent" => jobs[j].resource = Inst

\* The engine's own invariants.
Fence == TypeOK /\ Fenced /\ Mirror /\ OneInstance

\* Only requests and continuations make jobs, and both make them for Inst.
LEMMA OneInstanceStep ==
    ASSUME TypeOK, Fenced, OneInstance, [LNext]_lvars
    PROVE  OneInstance'
<1> SUFFICES ASSUME NEW i \in Jobs, jobs'[i].status # "absent",
                    jobs[i].status = "absent"
             PROVE  jobs'[i].resource = Inst
  BY InstanceStep, JobsAreKept DEF OneInstance
<1>1. ASSUME NEW j \in Jobs, NEW t \in Transitions, LRequest(j, t)
      PROVE  jobs'[i].resource = Inst
  BY <1>1 DEF LRequest, Request, NewJob, TypeOK
<1>2. ASSUME NEW w \in Workers, NEW k \in Jobs, NEW t \in Successors,
             LContinue(w, k, t)
      PROVE  jobs'[i].resource = Inst
  <2>1. /\ claims[w] # NoClaim
        /\ jobs[claims[w].job].status = "running"
        /\ jobs' = [jobs EXCEPT
              ![claims[w].job] = CompletedJob(jobs[claims[w].job]),
              ![k] = NewJob(t.name, jobs[claims[w].job].resource, t.first)]
    BY <1>2 DEF LContinue, Continue, Owns, Owned
  <2>2. claims[w].job \in Jobs /\ jobs[claims[w].job].resource = Inst
    BY <2>1 DEF OneInstance, TypeOK, Claims
  <2>3. jobs'[i] = NewJob(t.name, Inst, t.first)
    BY <2>1, <2>2 DEF TypeOK
  <2> QED
    BY <2>3 DEF NewJob
<1>3. ASSUME NEW j \in Jobs, NEW new, jobs[j].status # "absent",
             jobs' = [jobs EXCEPT ![j] = new]
      PROVE  FALSE
  BY <1>3 DEF TypeOK
<1>4. ASSUME NEW w \in Workers, claims[w] # NoClaim, Owns(w, claims[w].job)
      PROVE  claims[w].job \in Jobs /\ jobs[claims[w].job].status # "absent"
  BY <1>4 DEF Owns, Owned, TypeOK, Claims
<1>5. ASSUME NEW w \in Workers,
             \/ \E next \in Steps : LAdvance(w, next)
             \/ LComplete(w) \/ LDefer(w) \/ LFail(w) \/ LHeartbeat(w)
      PROVE  FALSE
  BY <1>3, <1>4, <1>5
     DEF LAdvance, LComplete, LDefer, LFail, LHeartbeat, Quiet, Advance,
         Complete, Defer, Fail, Finish, Heartbeat
<1>6. ASSUME NEW w \in Workers, NEW m \in queue, LClaim(w, m)
      PROVE  FALSE
  <2>1. m[1] \in Jobs /\ jobs[m[1]].status # "absent"
    BY <1>6 DEF LClaim, Claim, Claimable, TypeOK
  <2> QED
    BY <1>3, <1>6, <2>1 DEF LClaim, Claim
<1>7. ASSUME NEW j \in Jobs,
             \/ Quiet(Expire(j))
             \/ \E s \in Scanners : Quiet(ScanJob(s, j))
      PROVE  FALSE
  BY <1>3, <1>7 DEF Quiet, Expire, ScanJob, Retryable
<1>8. jobs' # jobs
  OBVIOUS
<1>9. NewIds \subseteq Jobs
  BY DEF NewIds, Draw
<1>10. ASSUME NEW w \in Workers, RemoteStep(w)
       PROVE  jobs' = jobs
  BY <1>10 DEF vars, RemoteStep, CreateSchema, GetApplication,
         WriteApplication, SyncApplication, GetRemoval, DeleteApplication,
         ConfirmRemoval, PrepareBootstrap, Bootstrap, StopWorkspaces,
         CleanupUsers, FindApplication, StoreStartedApplication,
         DeleteAllWorkspaces, DropSchema
<1> QED
  BY <1>1, <1>2, <1>5, <1>6, <1>7, <1>8, <1>9, <1>10
     DEF LNext, lvars, vars, LStop, Quiet, Abandon, Crash, IgnoreDelivery,
         Lose, ScanStart, ScanEnd, Settle, CheckSnapshot, CheckObserve,
         CheckStore

\* The instance inherits the engine's types and fence.
LEMMA InstanceFenced == LSpec => []Fence
<1>1. LInit => Init /\ OneInstance
  BY DEF LInit, Init, OneInstance, AbsentJob
<1>2. TypeOK /\ Fenced /\ OneInstance /\ [LNext]_lvars => OneInstance'
  BY OneInstanceStep
<1>3. LSpec => Spec
  BY <1>1, InstanceStep, PTL DEF LSpec, Spec
<1> QED
  BY <1>1, <1>2, <1>3, TypeCorrect, FencedCorrect, MirrorCorrect, PTL
     DEF LSpec, Fence

\* The row of a worker that may finish its step, and nobody else's.
CurrentOwns ==
    \A w \in Workers : Current(w) =>
        /\ Holder(w, Inst)
        /\ row.status = "running"
        /\ row.step = claims[w].step
        /\ row.job = claims[w].job
        /\ \A v \in Workers : Current(v) => v = w

\* The fence of _lock_owned_step makes the owner of the row unique.
LEMMA CurrentOwnsRow == Fence => CurrentOwns
<1> SUFFICES ASSUME Fence, NEW w \in Workers, Current(w)
             PROVE  /\ Holder(w, Inst)
                    /\ row.status = "running"
                    /\ row.step = claims[w].step
                    /\ row.job = claims[w].job
                    /\ \A v \in Workers : Current(v) => v = w
  BY DEF CurrentOwns
<1>1. \A v \in Workers : Current(v) => Holder(v, Inst)
  BY DEF Current, Holder, Fence, OneInstance, Owns, Owned, TypeOK, Claims
<1>2. HoldersOwn
  BY HoldersOwnRows DEF Fence
<1> QED
  BY <1>1, <1>2, InstanceAssumption DEF HoldersOwn, row

\* The same in the next state.
LEMMA CurrentOwnsAfter == Fence' => CurrentOwns'
  BY CurrentOwnsRow, PTL

-----------------------------------------------------------------------------
\* What the engine's transactions do to the instance row and to its holder.

\* A request finds the row in the status its transition names and leaves it
\* pending at the first step of the new job.
LEMMA EffectOfRequest ==
    ASSUME Fence, NEW j \in Jobs, NEW t \in Transitions, LRequest(j, t)
    PROVE  /\ row.status = t.status
           /\ t.status # "absent" => row.action = t.action
           /\ row'.job = j
           /\ row'.action = RESOURCE_ACTIONS[t.name]
           /\ row'.step = t.first
           /\ row'.status = "pending"
           /\ jobs[j].status = "absent"
           /\ claims' = claims
BY InstanceAssumption DEF LRequest, Request, WithResource, Requested, row

\* A claim starts the step the row waits for, and evicts every other holder.
LEMMA EffectOfClaim ==
    ASSUME Fence, Fence', NEW w \in Workers, NEW m \in queue, LClaim(w, m)
    PROVE  /\ row.status \in {"pending", "error"}
           /\ row'.job = row.job
           /\ row'.action = row.action
           /\ row'.step = row.step
           /\ row'.status = "running"
           /\ \A v \in Workers : Current(v)' => v = w
<1>1. jobs[m[1]].resource = Inst
  BY DEF LClaim, Claim, Claimable, Fence, OneInstance, TypeOK
<1>2. /\ resources[Inst].status \in {"pending", "error"}
      /\ resources'[Inst] =
            ResourceWith(resources[Inst], resources[Inst].step, "running")
      /\ \A v \in Workers : Holder(v, Inst)' => v = w
  BY <1>1, ClaimTakes, InstanceAssumption DEF LClaim, Fence
<1>3. \A v \in Workers : Current(v)' => Holder(v, Inst)'
  BY CurrentOwnsAfter DEF CurrentOwns
<1> QED
  BY <1>2, <1>3 DEF row, ResourceWith

\* Only the holder of the row finishes its step: it moves the row along the
\* step graph, settles it, hands it to a successor, or gives it back.
LEMMA EffectOfFinish ==
    ASSUME Fence, NEW w \in Workers
    PROVE  /\ \A next \in Steps : LAdvance(w, next) =>
                 /\ Current(w)
                 /\ <<row.step, next>> \in NextSteps
                 /\ row'.job = row.job
                 /\ row'.action = row.action
                 /\ row'.step = next
                 /\ row'.status = "pending"
           /\ LComplete(w) =>
                 /\ Current(w)
                 /\ row.step \in FinalSteps
                 /\ row.step \in DeletingSteps => row' = AbsentResource
                 /\ row.step \notin DeletingSteps =>
                       /\ row'.job = row.job
                       /\ row'.action = row.action
                       /\ row'.status = "success"
           /\ \A k \in Jobs, t \in Successors : LContinue(w, k, t) =>
                 /\ Current(w)
                 /\ row.step = "step_02_cleanup_users"
                 /\ jobs[k].status = "absent"
                 /\ row'.job = k
                 /\ row'.action = "updating"
                 /\ row'.step = "step_01_update_instance"
                 /\ row'.status = "pending"
           /\ LDefer(w) \/ LFail(w) =>
                 /\ Current(w)
                 /\ row'.job = row.job
                 /\ row'.action = row.action
                 /\ row'.step = row.step
                 /\ row'.status \in {"pending", "error"}
<1>1. Current(w) => Holder(w, Inst)
  BY CurrentOwnsRow DEF CurrentOwns
<1>2. ASSUME Holder(w, Inst)
      PROVE  /\ \A next \in Steps : Advance(w, next) =>
                   /\ <<row.step, next>> \in NextSteps
                   /\ row' = ResourceWith(row, next, "pending")
             /\ Complete(w) =>
                   /\ row.step \in FinalSteps
                   /\ row' = IF row.step \in DeletingSteps
                             THEN AbsentResource
                             ELSE ResourceWith(row, NoStep, "success")
             /\ \A k \in Jobs, t \in Successors : Continue(w, k, t) =>
                   /\ row.step = t.step
                   /\ row' = Requested(k, t.name, t.first)
             /\ Defer(w) => row' = ResourceWith(row, row.step, "pending")
             /\ Fail(w) => row' = ResourceWith(row, row.step, "error")
  BY <1>2, HolderFinishes, InstanceAssumption DEF Fence, row
<1>3. ASSUME NEW next \in Steps, LAdvance(w, next)
      PROVE  /\ Current(w)
             /\ <<row.step, next>> \in NextSteps
             /\ row'.job = row.job
             /\ row'.action = row.action
             /\ row'.step = next
             /\ row'.status = "pending"
  <2>1. Current(w) /\ Advance(w, next)
    BY <1>3 DEF LAdvance, Advance, Current
  <2> QED
    BY <1>1, <1>2, <2>1 DEF ResourceWith
<1>4. ASSUME LComplete(w)
      PROVE  /\ Current(w)
             /\ row.step \in FinalSteps
             /\ row.step \in DeletingSteps => row' = AbsentResource
             /\ row.step \notin DeletingSteps =>
                   /\ row'.job = row.job
                   /\ row'.action = row.action
                   /\ row'.status = "success"
  <2>1. Current(w) /\ Complete(w)
    BY <1>4 DEF LComplete, Complete, Current
  <2> QED
    BY <1>1, <1>2, <2>1 DEF ResourceWith
<1>5. ASSUME NEW k \in Jobs, NEW t \in Successors, LContinue(w, k, t)
      PROVE  /\ Current(w)
             /\ row.step = "step_02_cleanup_users"
             /\ jobs[k].status = "absent"
             /\ row'.job = k
             /\ row'.action = "updating"
             /\ row'.step = "step_01_update_instance"
             /\ row'.status = "pending"
  <2>1. Current(w) /\ Continue(w, k, t) /\ jobs[k].status = "absent"
    BY <1>5 DEF LContinue, Continue, Current
  <2>2. /\ t.step = "step_02_cleanup_users"
        /\ t.name = "instance.update"
        /\ t.first = "step_01_update_instance"
    BY InstanceTables DEF InstanceSuccessors
  <2>3. row.step = t.step /\ row' = Requested(k, t.name, t.first)
    BY <1>1, <1>2, <2>1
  <2> QED
    BY <2>1, <2>2, <2>3, InstanceActions DEF Requested
<1>6. ASSUME LDefer(w) \/ LFail(w)
      PROVE  /\ Current(w)
             /\ row'.job = row.job
             /\ row'.action = row.action
             /\ row'.step = row.step
             /\ row'.status \in {"pending", "error"}
  <2>1. Current(w) /\ (Defer(w) \/ Fail(w))
    BY <1>6 DEF LDefer, LFail, Defer, Fail, Finish, Current
  <2> QED
    BY <1>1, <1>2, <2>1 DEF ResourceWith
<1> QED
  BY <1>3, <1>4, <1>5, <1>6

\* The step leaves the row to the worker that held it, where it was.
CallsKept ==
    \A v \in Workers : Current(v)' =>
        Current(v) /\ claims'[v] = claims[v] /\ call'[v] = call[v]

\* A step of the engine that neither the row nor a live step notices.
LQuiet ==
    \/ \E m \in queue : Quiet(IgnoreDelivery(m)) \/ Quiet(Lose(m))
    \/ \E j \in Jobs : Quiet(Expire(j))
    \/ \E s \in Scanners : Quiet(ScanStart(s)) \/ Quiet(ScanEnd(s))
    \/ \E w \in Workers : LHeartbeat(w) \/ LStop(w)

\* The other engine steps leave the row and the calls under way alone.
LEMMA EffectOfQuiet ==
    ASSUME Fence, Fence', LTypeOK, LQuiet
    PROVE  row' = row /\ CallsKept
<1>1. QuietStep
  BY DEF LQuiet, LHeartbeat, LStop, Quiet, QuietStep
<1>2. /\ resources' = resources
      /\ HoldersKept(Inst)
  BY <1>1, QuietStepKeeps, InstanceAssumption DEF Fence
<1>3. \A v \in Workers : Current(v)' => claims'[v] # NoClaim /\ Holder(v, Inst)'
  BY CurrentOwnsAfter DEF CurrentOwns, Current
<1>4. \A v \in Workers : claims'[v] # NoClaim => call'[v] = call[v]
  BY DEF LQuiet, LHeartbeat, LStop, Quiet, Goto, Abandon, Crash, Fence, TypeOK,
         LTypeOK
<1> QED
  BY <1>2, <1>3, <1>4 DEF HoldersKept, CallsKept, row, Holder, Current

\* The Beat scan leaves the row alone or takes it from a stale holder.
LEMMA EffectOfScan ==
    ASSUME Fence, Fence', NEW s \in Scanners, NEW j \in Jobs,
           Quiet(ScanJob(s, j))
    PROVE  /\ CallsKept
           /\ \/ row' = row
              \/ /\ row.status = "running"
                 /\ row'.job = row.job
                 /\ row'.action = row.action
                 /\ row'.step = row.step
                 /\ row'.status = "pending"
<1>1. /\ HoldersKept(Inst)
      /\ \/ resources'[Inst] = resources[Inst]
         \/ /\ resources[Inst].status = "running"
            /\ resources'[Inst] =
                  ResourceWith(resources[Inst], resources[Inst].step, "pending")
  BY ScanKeeps, InstanceAssumption DEF Fence, Quiet
<1>2. \A v \in Workers : Current(v)' => Holder(v, Inst)'
  BY CurrentOwnsAfter DEF CurrentOwns
<1>3. call' = call
  BY DEF Quiet
<1> QED
  BY <1>1, <1>2, <1>3 DEF HoldersKept, CallsKept, row, Holder, Current,
                          ResourceWith

-----------------------------------------------------------------------------
(***************************************************************************)
(* The administrator password.  These invariants hold even when workers    *)
(* without a valid claim go on calling: the candidate is committed under   *)
(* the fence before the call that uses it, and is never replaced.          *)
(***************************************************************************)

\* The password the row offers for Coder's first user.
Stored == IF verified = NoPassword THEN candidate ELSE verified

\* A worker inside a step has a claim, valid or not.
CallsAreClaimed ==
    \A w \in Workers : call[w].at # "begin" => claims[w] # NoClaim

\* A worker about to create the first user holds the password the row offers.
PreparedCalls ==
    \A w \in Workers : call[w].at = "prepared" =>
        /\ call[w].saw \in Passwords
        /\ row.status # "absent" => call[w].saw = Stored

\* Before the first request there is no administrator.
NoEarlyAdmin == (\A j \in Jobs : jobs[j].status = "absent") => admin = NoPassword

PasswordInv ==
    /\ LTypeOK
    /\ CallsAreClaimed
    /\ PreparedCalls
    /\ NoEarlyAdmin
    /\ AdminPasswordIsKept

\* The phases and readings a worker can stand at.
CallType == [at : Phases, saw : Passwords \cup {"none", "absent", "present"}]

\* A worker moves to another phase of its step.
LEMMA GotoType ==
    ASSUME LTypeOK, NEW w \in Workers, NEW phase \in Phases,
           NEW saw \in Passwords \cup {"none", "absent", "present"},
           Goto(w, phase, saw)
    PROVE  /\ call' \in [Workers -> CallType]
           /\ call'[w].at = phase /\ call'[w].saw = saw
           /\ \A v \in Workers : v # w => call'[v] = call[v]
BY DEF LTypeOK, Goto, Call, CallType

\* Every variable of the instance keeps its type.
LEMMA InstanceTypeStep ==
    ASSUME TypeOK, LTypeOK, PreparedCalls, [LNext]_lvars
    PROVE  LTypeOK'
<1> USE DEF columns, world
<1>1. ASSUME NEW w \in Workers, NEW phase \in Phases,
             NEW saw \in Passwords \cup {"none", "absent", "present"},
             Goto(w, phase, saw),
             app' \in Applications, schema' \in BOOLEAN,
             admin' \in Passwords \cup {NoPassword},
             state' \in {"started", "stopped"},
             candidate' \in Passwords \cup {NoPassword},
             verified' \in Passwords \cup {NoPassword},
             issued' \subseteq Passwords, check' = check
      PROVE  LTypeOK'
  BY <1>1, GotoType DEF LTypeOK, CallType
<1>2. {"begin", "reconcile", "observed", "mutated", "restored", "cleanup",
       "prepared", "done"} = Phases
  BY DEF Phases
<1>3. /\ app \in Applications /\ schema \in BOOLEAN
      /\ admin \in Passwords \cup {NoPassword}
      /\ state \in {"started", "stopped"}
      /\ candidate \in Passwords \cup {NoPassword}
      /\ verified \in Passwords \cup {NoPassword}
      /\ issued \subseteq Passwords
      /\ "absent" \in Applications /\ "idle" \in Applications
      /\ "busy" \in Applications /\ "deleting" \in Applications
  BY DEF LTypeOK, Applications
<1>4. ASSUME NEW w \in Workers, RemoteStep(w)
      PROVE  LTypeOK'
  <2>1. CASE CreateSchema(w)
    BY <1>1, <1>2, <1>3, <2>1 DEF CreateSchema
  <2>2. CASE GetApplication(w)
    BY <1>1, <1>2, <1>3, <2>2 DEF GetApplication
  <2>3. CASE WriteApplication(w)
    BY <1>1, <1>2, <1>3, <2>3 DEF WriteApplication, Written
  <2>4. CASE SyncApplication(w)
    BY <1>1, <1>2, <1>3, <2>4 DEF SyncApplication
  <2>5. CASE GetRemoval(w)
    BY <1>1, <1>2, <1>3, <2>5 DEF GetRemoval
  <2>6. CASE DeleteApplication(w)
    BY <1>1, <1>2, <1>3, <2>6 DEF DeleteApplication
  <2>7. CASE ConfirmRemoval(w) \/ StopWorkspaces(w) \/ DeleteAllWorkspaces(w)
    BY <1>1, <1>2, <1>3, <2>7
       DEF ConfirmRemoval, StopWorkspaces, DeleteAllWorkspaces
  <2>8. CASE PrepareBootstrap(w)
    <3>1. \A p \in Draw(Passwords \ issued) : p \in Passwords
      BY DEF Draw
    <3> QED
      BY <1>1, <1>2, <1>3, <2>8, <3>1 DEF PrepareBootstrap
  <2>9. CASE Bootstrap(w)
    <3>1. call[w].saw \in Passwords
      BY <2>9 DEF Bootstrap, At, PreparedCalls
    <3> QED
      BY <1>1, <1>2, <1>3, <2>9, <3>1 DEF Bootstrap
  <2>10. CASE CleanupUsers(w)
    BY <1>1, <1>2, <1>3, <2>10 DEF CleanupUsers
  <2>11. CASE FindApplication(w)
    BY <1>1, <1>2, <1>3, <2>11 DEF FindApplication
  <2>12. CASE StoreStartedApplication(w)
    BY <1>1, <1>2, <1>3, <2>12 DEF StoreStartedApplication
  <2>13. CASE DropSchema(w)
    BY <1>1, <1>2, <1>3, <2>13 DEF DropSchema
  <2> QED
    BY <1>4, <2>1, <2>2, <2>3, <2>4, <2>5, <2>6, <2>7, <2>8, <2>9, <2>10,
       <2>11, <2>12, <2>13 DEF RemoteStep
<1>5. ASSUME NEW w \in Workers,
             \/ \E m \in queue : LClaim(w, m)
             \/ \E k \in NewIds, t \in Successors : LContinue(w, k, t)
             \/ LDefer(w) \/ LFail(w) \/ LStop(w)
      PROVE  LTypeOK'
  BY <1>1, <1>2, <1>3, <1>5 DEF LClaim, LContinue, LDefer, LFail, LStop
<1>6. ASSUME NEW w \in Workers, NEW next \in Steps, LAdvance(w, next)
      PROVE  LTypeOK'
  BY <1>1, <1>2, <1>3, <1>6 DEF LAdvance
<1>7. ASSUME NEW w \in Workers, LComplete(w)
      PROVE  LTypeOK'
  BY <1>1, <1>2, <1>3, <1>7 DEF LComplete
<1>8. ASSUME app' \in Applications,
             schema' = schema, admin' = admin, state' = state,
             candidate' = candidate, verified' = verified, issued' = issued,
             call' = call, check' = check
      PROVE  LTypeOK'
  BY <1>8 DEF LTypeOK
<1>9. CASE Settle
  BY <1>3, <1>8, <1>9 DEF Settle
<1>10. CASE CheckSnapshot
  <2>1. /\ row.job \in Jobs \cup {NoJob}
        /\ row.action \in Actions
        /\ row.status \in {"absent", "success", "error"}
    BY <1>10, InstanceAssumption DEF CheckSnapshot, row, TypeOK, ResourceRow
  <2> QED
    BY <1>10, <2>1 DEF CheckSnapshot, LTypeOK
<1>11. CASE CheckObserve
  BY <1>11 DEF CheckObserve, LTypeOK
<1>12. CASE CheckStore
  <2>1. check' \in [at : {"idle", "snapshot", "observed"},
                    job : Jobs \cup {NoJob}, action : Actions,
                    status : {"absent", "success", "error"}, exists : BOOLEAN]
    BY <1>12 DEF CheckStore, NoCheck, Actions
  <2> QED
    BY <1>12, <2>1 DEF CheckStore, LTypeOK
<1> QED
  BY <1>3, <1>4, <1>5, <1>6, <1>7, <1>8, <1>9, <1>10, <1>11, <1>12
     DEF LNext, lvars, LRequest, LHeartbeat, Quiet

\* The parts of PasswordInv about the administrator survive a step that only
\* moves calls on, other than into the bootstrap, and lets no row appear.
LEMMA PasswordsUntouched ==
    ASSUME PasswordInv,
           admin' = admin \/ admin' = NoPassword,
           row'.status # "absent" =>
               row.status # "absent" /\ Stored' = Stored,
           \A j \in Jobs : jobs[j].status # "absent" => jobs'[j].status # "absent",
           \A v \in Workers :
               \/ call'[v].at \notin {"begin", "prepared"} /\ claims'[v] # NoClaim
               \/ call'[v].at = "begin"
               \/ call'[v] = call[v] /\ claims'[v] = claims[v]
    PROVE  CallsAreClaimed' /\ PreparedCalls' /\ NoEarlyAdmin'
              /\ AdminPasswordIsKept'
<1>1. CallsAreClaimed'
  BY DEF PasswordInv, CallsAreClaimed
<1>2. PreparedCalls'
  BY DEF PasswordInv, PreparedCalls
<1>3. NoEarlyAdmin'
  BY DEF PasswordInv, NoEarlyAdmin
<1>4. AdminPasswordIsKept'
  BY DEF PasswordInv, AdminPasswordIsKept, Stored
<1> QED
  BY <1>1, <1>2, <1>3, <1>4

\* No step changes the administrator to a password the row does not offer.
LEMMA PasswordStep ==
    ASSUME Fence, Fence', PasswordInv, [LNext]_lvars
    PROVE  PasswordInv'
<1> DEFINE Goal == CallsAreClaimed' /\ PreparedCalls' /\ NoEarlyAdmin'
                      /\ AdminPasswordIsKept'
<1>0. LTypeOK /\ PreparedCalls /\ LTypeOK'
  BY InstanceTypeStep DEF PasswordInv, Fence
<1>1. \A j \in Jobs : jobs[j].status # "absent" => jobs'[j].status # "absent"
  BY InstanceStep, JobsAreKept DEF Fence
<1>2. \A w \in Workers : claims[w] # NoClaim =>
          \E j \in Jobs : jobs[j].status # "absent"
  BY DEF Fence, Fenced, TokensAreUnique, TypeOK, Claims
<1>3. ASSUME UNCHANGED <<vars, candidate, verified>>,
             NEW w \in Workers, claims[w] # NoClaim,
             NEW phase \in Phases,
             NEW saw \in Passwords \cup {"none", "absent", "present"},
             Goto(w, phase, saw),
             phase # "prepared",
             admin' = admin \/ admin' = NoPassword
      PROVE  Goal
  <2>1. /\ call'[w].at = phase
        /\ \A v \in Workers : v # w => call'[v] = call[v]
    BY <1>0, <1>3, GotoType
  <2>2. row' = row /\ Stored' = Stored /\ claims' = claims
    BY <1>3 DEF vars, row, Stored
  <2> QED
    BY <1>1, <1>3, <2>1, <2>2, PasswordsUntouched
<1>4. ASSUME NEW w \in Workers, RemoteStep(w)
      PROVE  Goal
  <2> USE DEF world, columns
  <2>0. {"begin", "reconcile", "observed", "mutated", "restored", "cleanup",
         "prepared", "done"} = Phases
    BY DEF Phases
  <2>1. claims[w] # NoClaim
    BY <1>4 DEF RemoteStep, CreateSchema, GetApplication, Reconciling,
         WriteApplication, SyncApplication, GetRemoval, DeleteApplication,
         ConfirmRemoval, PrepareBootstrap, Bootstrap, StopWorkspaces,
         CleanupUsers, FindApplication, StoreStartedApplication,
         DeleteAllWorkspaces, DropSchema, At
  <2>2. CASE CreateSchema(w)
    BY <1>3, <2>0, <2>1, <2>2 DEF CreateSchema
  <2>3. CASE GetApplication(w)
    BY <1>3, <2>0, <2>1, <2>3 DEF GetApplication
  <2>4. CASE WriteApplication(w)
    BY <1>3, <2>0, <2>1, <2>4 DEF WriteApplication
  <2>5. CASE SyncApplication(w)
    BY <1>3, <2>0, <2>1, <2>5 DEF SyncApplication
  <2>6. CASE GetRemoval(w)
    BY <1>3, <2>0, <2>1, <2>6 DEF GetRemoval
  <2>7. CASE DeleteApplication(w)
    BY <1>3, <2>0, <2>1, <2>7 DEF DeleteApplication
  <2>8. CASE ConfirmRemoval(w) \/ StopWorkspaces(w) \/ DeleteAllWorkspaces(w)
    BY <1>3, <2>0, <2>1, <2>8
       DEF ConfirmRemoval, StopWorkspaces, DeleteAllWorkspaces
  <2>9. CASE FindApplication(w)
    BY <1>3, <2>0, <2>1, <2>9 DEF FindApplication
  <2>10. CASE StoreStartedApplication(w)
    BY <1>3, <2>0, <2>1, <2>10 DEF StoreStartedApplication
  <2>11. CASE DropSchema(w)
    BY <1>3, <2>0, <2>1, <2>11 DEF DropSchema
  <2>12. CASE PrepareBootstrap(w)
    <3>1. CASE verified # NoPassword /\ candidate' = candidate
                  /\ Goto(w, "done", "none")
      BY <1>3, <2>0, <2>1, <2>12, <3>1 DEF PrepareBootstrap
    <3>2. ASSUME NEW p \in Passwords, verified = NoPassword, candidate' = p,
                 candidate \in {p, NoPassword}, Goto(w, "prepared", p)
          PROVE  Goal
      <4>1. /\ row' = row /\ claims' = claims /\ jobs' = jobs
            /\ admin' = admin /\ verified' = verified
        BY <2>12 DEF PrepareBootstrap, vars, row
      <4>2. /\ call'[w].at = "prepared" /\ call'[w].saw = p
            /\ \A v \in Workers : v # w => call'[v] = call[v]
        BY <1>0, <2>0, <3>2, GotoType
      <4>3. Stored' = p
        BY <3>2, <4>1 DEF Stored
      <4>4. CallsAreClaimed'
        BY <2>1, <4>1, <4>2 DEF PasswordInv, CallsAreClaimed
      <4>5. Stored \in {p, NoPassword} /\ NoPassword \notin Passwords
        BY <3>2, InstanceAssumption DEF Stored
      <4>6. PreparedCalls'
        BY <4>1, <4>2, <4>3, <4>5, <3>2 DEF PasswordInv, PreparedCalls
      <4>7. NoEarlyAdmin'
        BY <4>1 DEF PasswordInv, NoEarlyAdmin
      <4>8. AdminPasswordIsKept'
        BY <3>2, <4>1, <4>3, <4>5
           DEF PasswordInv, AdminPasswordIsKept, Stored
      <4> QED
        BY <4>4, <4>6, <4>7, <4>8
    <3>3. \A p \in Draw(Passwords \ issued) : p \in Passwords
      BY DEF Draw
    <3>4. candidate # NoPassword => candidate \in Passwords
      BY <1>0 DEF LTypeOK
    <3> HIDE DEF Goal
    <3> QED
      BY <2>12, <3>1, <3>2, <3>3, <3>4 DEF PrepareBootstrap
  <2>13. ASSUME Bootstrap(w) \/ CleanupUsers(w)
         PROVE  Goal
    <3>1. /\ row' = row /\ claims' = claims /\ jobs' = jobs
          /\ Stored' = Stored /\ verified' = verified
          /\ Goto(w, "done", "none")
      BY <2>13 DEF Bootstrap, CleanupUsers, vars, row, Stored
    <3>2. /\ call'[w].at = "done"
          /\ \A v \in Workers : v # w => call'[v] = call[v]
      BY <1>0, <2>0, <3>1, GotoType
    <3>3. row.status # "absent" => admin' = Stored
      BY <1>0, <2>13 DEF Bootstrap, CleanupUsers, At, PreparedCalls, Stored
    <3>4. CallsAreClaimed' /\ PreparedCalls'
      BY <2>1, <3>1, <3>2
         DEF PasswordInv, CallsAreClaimed, PreparedCalls
    <3>5. NoEarlyAdmin'
      BY <1>2, <2>1, <3>1 DEF NoEarlyAdmin
    <3>6. AdminPasswordIsKept'
      BY <3>1, <3>3 DEF AdminPasswordIsKept, Stored
    <3> QED
      BY <3>4, <3>5, <3>6
  <2> HIDE DEF Goal
  <2> QED
    BY <1>4, <2>2, <2>3, <2>4, <2>5, <2>6, <2>7, <2>8, <2>9, <2>10, <2>11,
       <2>12, <2>13 DEF RemoteStep
<1>5. ASSUME NEW j \in Jobs, NEW t \in Transitions, LRequest(j, t)
      PROVE  Goal
  <2>1. /\ row.status = t.status /\ row'.status = "pending"
        /\ claims' = claims
    BY <1>5, EffectOfRequest
  <2>2. call' = call /\ admin' = admin /\ Stored' = Stored
    BY <1>5 DEF LRequest, world, columns, Stored
  <2>3. CASE row.status # "absent"
    BY <1>1, <2>1, <2>2, <2>3, PasswordsUntouched
  <2>4. CASE row.status = "absent"
    <3>1. \A i \in Jobs : jobs[i].status = "absent"
      BY <1>5, <2>1, <2>4, RequestTable DEF LRequest
    <3>2. \A w \in Workers : claims[w] = NoClaim /\ call[w].at = "begin"
      BY <1>2, <3>1 DEF PasswordInv, CallsAreClaimed
    <3>3. admin' = NoPassword
      BY <2>2, <3>1 DEF PasswordInv, NoEarlyAdmin
    <3> QED
      BY <2>2, <3>2, <3>3
         DEF CallsAreClaimed, PreparedCalls, NoEarlyAdmin, AdminPasswordIsKept
  <2> QED
    BY <2>3, <2>4
<1>6. ASSUME NEW w \in Workers, Goto(w, "begin", "none"),
             \A v \in Workers : v # w => claims'[v] = claims[v],
             admin' = admin,
             row'.status # "absent" => row.status # "absent" /\ Stored' = Stored
      PROVE  Goal
  <2>1. /\ call'[w].at = "begin"
        /\ \A v \in Workers : v # w => call'[v] = call[v]
    BY <1>0, <1>6 DEF Goto, Call, LTypeOK
  <2> QED
    BY <1>1, <1>6, <2>1, PasswordsUntouched
<1>7. ASSUME NEW w \in Workers, NEW m \in queue, LClaim(w, m)
      PROVE  Goal
  <2>1. row.status # "absent"
    BY <1>7, EffectOfClaim
  <2> QED
    BY <1>6, <1>7, <2>1
       DEF LClaim, Claim, world, columns, Stored, Fence, TypeOK
<1>8. ASSUME NEW w \in Workers,
             \/ \E next \in Steps : LAdvance(w, next)
             \/ \E k \in NewIds, t \in Successors : LContinue(w, k, t)
             \/ LDefer(w) \/ LFail(w)
      PROVE  Goal
  <2>1. Current(w)
    BY <1>8 DEF LAdvance, LContinue, LDefer, LFail, Advance, Continue, Defer,
                Fail, Finish, Current
  <2>2. row.status # "absent"
    BY <2>1, CurrentOwnsRow DEF CurrentOwns
  <2>3. claims' = [claims EXCEPT ![w] = NoClaim]
    BY <1>8 DEF LAdvance, LContinue, LDefer, LFail, Advance, Continue, Defer,
                Fail, Finish
  <2>4. admin' = admin /\ Stored' = Stored /\ Goto(w, "begin", "none")
    BY <1>8 DEF LAdvance, LContinue, LDefer, LFail, world, columns, Stored
  <2> QED
    BY <1>6, <2>2, <2>3, <2>4 DEF Fence, TypeOK
<1>9. ASSUME NEW w \in Workers, LComplete(w)
      PROVE  Goal
  <2>1. /\ Current(w)
        /\ row.step \in DeletingSteps => row' = AbsentResource
    BY <1>9, EffectOfFinish
  <2>2. row.status # "absent" /\ row.step = claims[w].step
    BY <2>1, CurrentOwnsRow DEF CurrentOwns
  <2>3. claims[w].step = "step_04_remove_local_configuration" =>
           row'.status = "absent"
    BY <2>1, <2>2, InstanceTables DEF InstanceDeletingSteps, AbsentResource
  <2>4. claims[w].step # "step_04_remove_local_configuration" =>
           Stored' = Stored
    BY <1>9 DEF LComplete, Stored
  <2>5. /\ claims' = [claims EXCEPT ![w] = NoClaim]
        /\ admin' = admin /\ Goto(w, "begin", "none")
    BY <1>9 DEF LComplete, Complete, world
  <2> QED
    BY <1>6, <2>2, <2>3, <2>4, <2>5 DEF Fence, TypeOK
<1>10. ASSUME NEW w \in Workers, LStop(w)
       PROVE  Goal
  BY <1>6, <1>10 DEF LStop, Abandon, Crash, world, columns, Stored, row, Fence,
                     TypeOK
<1>11. ASSUME claims' = claims, call' = call, admin' = admin,
              Stored' = Stored, row'.status # "absent" => row.status # "absent"
       PROVE  Goal
  BY <1>1, <1>11, PasswordsUntouched
<1>12. ASSUME NEW s \in Scanners, NEW j \in Jobs, Quiet(ScanJob(s, j))
       PROVE  Goal
  <2>1. row'.status # "absent" => row.status # "absent"
    BY <1>12, EffectOfScan
  <2> QED
    BY <1>11, <1>12, <2>1 DEF Quiet, ScanJob, world, columns, Stored
<1>13. ASSUME \/ \E m \in queue : Quiet(IgnoreDelivery(m)) \/ Quiet(Lose(m))
              \/ \E j \in Jobs : Quiet(Expire(j))
              \/ \E s \in Scanners : Quiet(ScanStart(s)) \/ Quiet(ScanEnd(s))
              \/ \E w \in Workers : LHeartbeat(w)
       PROVE  Goal
  BY <1>11, <1>13
     DEF Quiet, LHeartbeat, IgnoreDelivery, Lose, Expire, ScanStart, ScanEnd,
         Heartbeat, world, columns, Stored, row
<1>14. ASSUME Settle \/ CheckSnapshot \/ CheckObserve \/ CheckStore
              \/ UNCHANGED lvars
       PROVE  Goal
  BY <1>11, <1>14
     DEF Settle, CheckSnapshot, CheckObserve, CheckStore, lvars, vars, world,
         columns, Stored, row
<1>15. NewIds \subseteq Jobs
  BY DEF NewIds, Draw
<1>16. Goal
  <2> HIDE DEF Goal
  <2> QED
    BY <1>4, <1>5, <1>7, <1>8, <1>9, <1>10, <1>12, <1>13, <1>14, <1>15
       DEF LNext
<1> QED
  BY <1>0, <1>16 DEF PasswordInv

\* The password invariants hold in every reachable state.
LEMMA PasswordInvCorrect == LSpec => []PasswordInv
<1>1. LInit => PasswordInv
  <2> SUFFICES ASSUME LInit
               PROVE  PasswordInv
    OBVIOUS
  <2>1. row.status = "absent" /\ admin = NoPassword
    BY InstanceAssumption DEF LInit, Init, AbsentResource, row
  <2>2. \A w \in Workers : call[w].at = "begin"
    BY DEF LInit, NoCall, Call
  <2>3. call \in [Workers -> CallType]
    BY DEF LInit, NoCall, Call, CallType, Phases
  <2>4. check \in [at : {"idle", "snapshot", "observed"},
                   job : Jobs \cup {NoJob}, action : Actions,
                   status : {"absent", "success", "error"}, exists : BOOLEAN]
    BY DEF LInit, NoCheck, Actions
  <2>5. LTypeOK
    BY <2>3, <2>4 DEF LInit, LTypeOK, CallType, Applications
  <2> QED
    BY <2>1, <2>2, <2>5
       DEF PasswordInv, CallsAreClaimed, PreparedCalls, NoEarlyAdmin,
           AdminPasswordIsKept
<1>2. Fence /\ Fence' /\ PasswordInv /\ [LNext]_lvars => PasswordInv'
  BY PasswordStep
<1> QED
  BY <1>1, <1>2, InstanceFenced, PTL DEF LSpec

\* Every variable of the instance is well typed in every reachable state.
THEOREM InstanceTypeCorrect == LSpec => []LTypeOK
<1>1. PasswordInv => LTypeOK
  BY DEF PasswordInv
<1> QED
  BY <1>1, PasswordInvCorrect, PTL

\* Coder's first user can always be reached with a password stored on the row,
\* also when a worker that lost its claim still makes its bootstrap call.
THEOREM AdminPasswordCorrect == LSpec => []AdminPasswordIsKept
<1>1. PasswordInv => AdminPasswordIsKept
  BY DEF PasswordInv
<1> QED
  BY <1>1, PasswordInvCorrect, PTL

-----------------------------------------------------------------------------
(***************************************************************************)
(* The life cycle.  The row always stands on an edge of its step graph,    *)
(* and each edge leaves the remote systems in the state the next step      *)
(* relies on.  From here on remote calls are made under a valid claim.     *)
(***************************************************************************)

\* The row waits for a step, runs one, or failed in one.
Live == row.status \in {"pending", "running", "error"}

\* The operation stands at one of the steps.
Doing(action, steps) == Live /\ row.action = action /\ row.step \in steps

\* The row stands at a step of its action, or rests after a success.
RowInGraph ==
    /\ Live => RunsStep(row.action, row.step)
    /\ row.status = "success" =>
           row.action \in {"creating", "updating", "starting", "stopping"}
    /\ row.status = "absent" => row.action = "creating"

\* Whoever may write the Application finds the schema.
SchemaFirst ==
    \/ row.action \in {"updating", "starting", "stopping"}
    \/ row.action = "creating" /\ row.status = "success"
    \/ Doing("creating", {"step_02_create_instance", "step_03_bootstrap_admin"})
    \/ Doing("deleting", {"step_01_remove_workspaces"})
    => schema

\* Whoever signs in to Coder finds an Application that is not going away.
ReconciledFirst ==
    \/ Doing("creating", {"step_03_bootstrap_admin"})
    \/ Doing("updating", {"step_02_cleanup_users"})
    \/ Doing("starting", {"step_02_cleanup_users"})
    => app \in {"idle", "busy"}

\* The row is deleted after everything it described.
RemovedLast ==
    \/ row.status = "absent"
    \/ Doing("deleting", {"step_04_remove_local_configuration"})
    => app = "absent" /\ ~schema /\ admin = NoPassword

\* Creation verifies the password in its last transaction, so a creation that
\* failed has none and its deletion starts at the removal of the Application.
VerifiedLast ==
    (row.action = "creating" /\ row.status # "success") => verified = NoPassword

\* What the holder of the row has achieved, phase by phase.
Outcome(w) ==
    LET step == claims[w].step
    IN  /\ call[w].at = "prepared" => call[w].saw = candidate
        /\ call[w].at = "done" =>
              /\ step = "step_01_create_schema" => schema
              /\ step \in ReconcileSteps => app \in {"idle", "busy"}
              /\ step \in RemovalSteps => app = "absent"
              /\ step = "step_03_bootstrap_admin" =>
                    admin = candidate /\ candidate # NoPassword
              /\ step = "step_02_cleanup_users" =>
                    admin = verified /\ verified # NoPassword
              /\ step = "step_03_remove_schema" => ~schema /\ admin = NoPassword

OutcomesHold == \A w \in Workers : Current(w) => Outcome(w)

\* An observation that may still be stored on a stopped row saw no Application.
CheckIsFenced ==
    check.at # "idle" =>
        /\ check.action # "deleting"
        /\ check.status = "success" =>
              check.job \in Jobs /\ jobs[check.job].status = "success"
        /\ (/\ check.at = "observed" /\ check.status = "success"
            /\ row.status = "success" /\ row.action = "stopping"
            /\ row.job = check.job) => ~check.exists

\* What the row says about the remote systems.
RowFacts ==
    /\ SchemaFirst /\ ReconciledFirst /\ RemovedLast /\ VerifiedLast
    /\ ConfirmedAbsence /\ ApplicationHasSchema /\ SuccessIsUsable

LifecycleInv == RowFacts /\ OutcomesHold /\ CheckIsFenced

-----------------------------------------------------------------------------
\* Every transaction moves the row along an edge of its step graph.
LEMMA RowInGraphStep ==
    ASSUME Fence, Fence', LTypeOK, RowInGraph, [LNext]_lvars
    PROVE  RowInGraph'
<1> USE DEF RowInGraph, Live
<1>1. ASSUME NEW j \in Jobs, NEW t \in Transitions, LRequest(j, t)
      PROVE  RowInGraph'
  BY <1>1, EffectOfRequest, RequestTable, InstanceActions DEF RunsStep
<1>2. ASSUME NEW w \in Workers, NEW m \in queue, LClaim(w, m)
      PROVE  RowInGraph'
  BY <1>2, EffectOfClaim
<1>3. ASSUME NEW w \in Workers, Current(w)
      PROVE  RunsStep(row.action, row.step)
  BY <1>3, CurrentOwnsRow DEF CurrentOwns
<1>4. ASSUME NEW w \in Workers, NEW next \in Steps, LAdvance(w, next)
      PROVE  RowInGraph'
  BY <1>3, <1>4, EffectOfFinish, StepTable
<1>5. ASSUME NEW w \in Workers, LComplete(w)
      PROVE  RowInGraph'
  <2>1. RunsStep(row.action, row.step) /\ row.step \in FinalSteps
    BY <1>3, <1>5, EffectOfFinish
  <2>2. CASE row.step \in DeletingSteps
    BY <1>5, <2>2, EffectOfFinish DEF AbsentResource
  <2>3. CASE row.step \notin DeletingSteps
    BY <1>5, <2>1, <2>3, EffectOfFinish, StepTable DEF RunsStep
  <2> QED
    BY <2>2, <2>3
<1>6. ASSUME NEW w \in Workers, NEW k \in Jobs, NEW t \in Successors,
             LContinue(w, k, t)
      PROVE  RowInGraph'
  BY <1>6, EffectOfFinish DEF RunsStep
<1>7. ASSUME NEW w \in Workers, LDefer(w) \/ LFail(w)
      PROVE  RowInGraph'
  BY <1>3, <1>7, EffectOfFinish
<1>8. ASSUME row' = row
      PROVE  RowInGraph'
  BY <1>8
<1>9. ASSUME NEW s \in Scanners, NEW j \in Jobs, Quiet(ScanJob(s, j))
      PROVE  RowInGraph'
  BY <1>9, EffectOfScan
<1>10. ASSUME LQuiet
       PROVE  RowInGraph'
  BY <1>8, <1>10, EffectOfQuiet
<1>11. ASSUME NEW w \in Workers, RemoteStep(w)
       PROVE  row' = row
  BY <1>11 DEF vars, row, RemoteStep, CreateSchema, GetApplication,
         WriteApplication, SyncApplication, GetRemoval, DeleteApplication,
         ConfirmRemoval, PrepareBootstrap, Bootstrap, StopWorkspaces,
         CleanupUsers, FindApplication, StoreStartedApplication,
         DeleteAllWorkspaces, DropSchema
<1>12. Settle \/ CheckSnapshot \/ CheckObserve \/ CheckStore \/ UNCHANGED lvars
           => row' = row
  BY DEF Settle, CheckSnapshot, CheckObserve, CheckStore, lvars, vars, row
<1>13. NewIds \subseteq Jobs
  BY DEF NewIds, Draw
<1> HIDE DEF RowInGraph
<1> QED
  BY <1>1, <1>2, <1>4, <1>5, <1>6, <1>7, <1>8, <1>9, <1>10, <1>11, <1>12,
     <1>13 DEF LNext, LQuiet

\* The row never leaves the step graph of its action.
LEMMA RowInGraphCorrect == LSpec => []RowInGraph
<1>1. LInit => RowInGraph
  BY InstanceAssumption DEF LInit, Init, AbsentResource, row, RowInGraph, Live
<1>2. Fence /\ Fence' /\ LTypeOK /\ RowInGraph /\ [LNext]_lvars => RowInGraph'
  BY RowInGraphStep
<1> QED
  BY <1>1, <1>2, InstanceFenced, InstanceTypeCorrect, PTL DEF LSpec

-----------------------------------------------------------------------------
\* A remote call of the row's holder.
LEMMA RemoteLifecycle ==
    ASSUME Fence, PasswordInv, RowInGraph, LifecycleInv, ~StaleWorkersAct,
           NEW w \in Workers, RemoteStep(w)
    PROVE  LifecycleInv'
<1> USE DEF world, columns
<1>1. UNCHANGED vars /\ check' = check
  BY DEF RemoteStep, CreateSchema, GetApplication, WriteApplication,
         SyncApplication, GetRemoval, DeleteApplication, ConfirmRemoval,
         PrepareBootstrap, Bootstrap, StopWorkspaces, CleanupUsers,
         FindApplication, StoreStartedApplication, DeleteAllWorkspaces,
         DropSchema
<1>2. Current(w)
  BY DEF RemoteStep, CreateSchema, GetApplication, WriteApplication,
         SyncApplication, GetRemoval, DeleteApplication, ConfirmRemoval,
         PrepareBootstrap, Bootstrap, StopWorkspaces, CleanupUsers,
         FindApplication, StoreStartedApplication, DeleteAllWorkspaces,
         DropSchema, MayCall, At, Current
<1>3. /\ row' = row /\ claims' = claims /\ jobs' = jobs
      /\ \A v \in Workers : Current(v)' => Current(v)
  BY <1>1 DEF vars, row, Current, Owns, ResourceOf
<1>4. /\ row.status = "running" /\ row.step = claims[w].step
      /\ RunsStep(row.action, row.step)
      /\ \A v \in Workers : Current(v) => v = w
  BY <1>2, CurrentOwnsRow DEF CurrentOwns, RowInGraph, Live
<1>5. CheckIsFenced'
  BY <1>1, <1>3 DEF LifecycleInv, CheckIsFenced
<1>6. ASSUME RowFacts', Outcome(w)'
      PROVE  LifecycleInv'
  BY <1>3, <1>4, <1>5, <1>6 DEF LifecycleInv, OutcomesHold
<1>7. RowFacts /\ Outcome(w)
  BY <1>2 DEF LifecycleInv, OutcomesHold
<1>8. ASSUME UNCHANGED world, UNCHANGED <<state, verified>>
      PROVE  RowFacts'
  BY <1>3, <1>7, <1>8
     DEF RowFacts, SchemaFirst, ReconciledFirst, RemovedLast, VerifiedLast,
         ConfirmedAbsence, ApplicationHasSchema, SuccessIsUsable, Doing, Live
<1>9. ASSUME NEW phase, NEW saw, Goto(w, phase, saw)
      PROVE  call'[w].at = phase /\ call'[w].saw = saw
  BY <1>9 DEF Goto, Call, PasswordInv, LTypeOK
<1>10. ASSUME NEW phase \in Phases \ {"prepared", "done"}, NEW saw,
              Goto(w, phase, saw)
       PROVE  Outcome(w)'
  BY <1>9, <1>10 DEF Outcome
<1>11. {"begin", "reconcile", "observed", "mutated", "restored", "cleanup",
        "prepared", "done"} = Phases
  BY DEF Phases
<1>12. CASE CreateSchema(w)
  <2>1. RowFacts'
    BY <1>3, <1>4, <1>7, <1>12
       DEF CreateSchema, At, RowFacts, SchemaFirst, ReconciledFirst,
           RemovedLast, VerifiedLast, ConfirmedAbsence, ApplicationHasSchema,
           SuccessIsUsable, Doing, Live, RunsStep
  <2>2. Outcome(w)'
    BY <1>3, <1>9, <1>12
       DEF CreateSchema, At, Outcome, ReconcileSteps, RemovalSteps
  <2> QED
    BY <1>6, <2>1, <2>2
<1>13. CASE GetApplication(w)
  BY <1>6, <1>8, <1>10, <1>11, <1>13 DEF GetApplication
<1>14. CASE WriteApplication(w)
  <2>1. RowFacts'
    BY <1>3, <1>4, <1>7, <1>14
       DEF WriteApplication, At, RowFacts, SchemaFirst, ReconciledFirst,
           RemovedLast, VerifiedLast, ConfirmedAbsence, ApplicationHasSchema,
           SuccessIsUsable, Doing, Live, RunsStep, ReconcileSteps
  <2> QED
    BY <1>6, <1>10, <1>11, <1>14, <2>1 DEF WriteApplication
<1>15. CASE SyncApplication(w)
  <2>1. RowFacts'
    BY <1>3, <1>4, <1>7, <1>15
       DEF SyncApplication, At, RowFacts, SchemaFirst, ReconciledFirst,
           RemovedLast, VerifiedLast, ConfirmedAbsence, ApplicationHasSchema,
           SuccessIsUsable, Doing, Live, RunsStep, ReconcileSteps
  <2>2. Outcome(w)'
    BY <1>3, <1>9, <1>15
       DEF SyncApplication, At, Outcome, ReconcileSteps, RemovalSteps
  <2> QED
    BY <1>6, <2>1, <2>2
<1>16. CASE GetRemoval(w)
  <2>1. Outcome(w)'
    BY <1>3, <1>9, <1>16
       DEF GetRemoval, At, Outcome, ReconcileSteps, RemovalSteps
  <2> QED
    BY <1>6, <1>8, <1>16, <2>1 DEF GetRemoval
<1>17. CASE DeleteApplication(w)
  <2>1. RowFacts'
    BY <1>3, <1>4, <1>7, <1>17
       DEF DeleteApplication, At, RowFacts, SchemaFirst, ReconciledFirst,
           RemovedLast, VerifiedLast, ConfirmedAbsence, ApplicationHasSchema,
           SuccessIsUsable, Doing, Live, RunsStep, RemovalSteps
  <2>2. Outcome(w)'
    BY <1>3, <1>9, <1>17
       DEF DeleteApplication, At, Outcome, ReconcileSteps, RemovalSteps
  <2> QED
    BY <1>6, <2>1, <2>2
<1>18. CASE ConfirmRemoval(w)
  <2>1. Outcome(w)'
    BY <1>3, <1>9, <1>18
       DEF ConfirmRemoval, At, Outcome, ReconcileSteps, RemovalSteps
  <2> QED
    BY <1>6, <1>8, <1>18, <2>1 DEF ConfirmRemoval
<1>19. CASE PrepareBootstrap(w)
  <2>1. verified = NoPassword
    BY <1>4, <1>7, <1>19
       DEF PrepareBootstrap, At, RunsStep, RowFacts, VerifiedLast
  <2>2. PICK p : candidate' = p /\ Goto(w, "prepared", p)
    BY <1>19, <2>1 DEF PrepareBootstrap
  <2>3. Outcome(w)'
    BY <1>9, <2>2 DEF Outcome
  <2> QED
    BY <1>6, <1>8, <1>19, <2>3 DEF PrepareBootstrap
<1>20. CASE Bootstrap(w)
  <2>1. call[w].saw = candidate /\ candidate # NoPassword
    BY <1>7, <1>20, InstanceAssumption
       DEF Bootstrap, At, Outcome, PasswordInv, PreparedCalls
  <2>2. RowFacts'
    BY <1>3, <1>4, <1>7, <1>20
       DEF Bootstrap, At, RowFacts, SchemaFirst, ReconciledFirst,
           RemovedLast, VerifiedLast, ConfirmedAbsence, ApplicationHasSchema,
           SuccessIsUsable, Doing, Live, RunsStep
  <2>3. Outcome(w)'
    BY <1>3, <1>9, <1>20, <2>1
       DEF Bootstrap, At, Outcome, ReconcileSteps, RemovalSteps
  <2> QED
    BY <1>6, <2>2, <2>3
<1>21. CASE StopWorkspaces(w)
  <2>1. Outcome(w)'
    BY <1>3, <1>9, <1>21
       DEF StopWorkspaces, At, Outcome, ReconcileSteps, RemovalSteps
  <2> QED
    BY <1>6, <1>8, <1>21, <2>1 DEF StopWorkspaces
<1>22. CASE CleanupUsers(w)
  <2>1. RowFacts'
    BY <1>3, <1>4, <1>7, <1>22
       DEF CleanupUsers, At, RowFacts, SchemaFirst, ReconciledFirst,
           RemovedLast, VerifiedLast, ConfirmedAbsence, ApplicationHasSchema,
           SuccessIsUsable, Doing, Live, RunsStep
  <2>2. Outcome(w)'
    BY <1>3, <1>9, <1>22
       DEF CleanupUsers, At, Outcome, ReconcileSteps, RemovalSteps
  <2> QED
    BY <1>6, <2>1, <2>2
<1>23. CASE FindApplication(w)
  BY <1>6, <1>8, <1>10, <1>11, <1>23 DEF FindApplication
<1>24. CASE StoreStartedApplication(w)
  <2>1. RowFacts'
    BY <1>3, <1>4, <1>7, <1>24
       DEF StoreStartedApplication, At, RowFacts, SchemaFirst,
           ReconciledFirst, RemovedLast, VerifiedLast, ConfirmedAbsence,
           ApplicationHasSchema, SuccessIsUsable, Doing, Live, RunsStep
  <2> QED
    BY <1>6, <1>10, <1>11, <1>24, <2>1 DEF StoreStartedApplication
<1>25. CASE DeleteAllWorkspaces(w)
  <2>1. Outcome(w)'
    BY <1>3, <1>9, <1>25
       DEF DeleteAllWorkspaces, At, Outcome, ReconcileSteps, RemovalSteps
  <2> QED
    BY <1>6, <1>8, <1>25, <2>1 DEF DeleteAllWorkspaces
<1>26. CASE DropSchema(w)
  <2>1. app = "absent"
    BY <1>4, <1>7, <1>26
       DEF DropSchema, At, RunsStep, RowFacts, ConfirmedAbsence
  <2>2. RowFacts'
    BY <1>3, <1>4, <1>7, <1>26, <2>1
       DEF DropSchema, At, RowFacts, SchemaFirst, ReconciledFirst,
           RemovedLast, VerifiedLast, ConfirmedAbsence, ApplicationHasSchema,
           SuccessIsUsable, Doing, Live, RunsStep
  <2>3. Outcome(w)'
    BY <1>3, <1>9, <1>26
       DEF DropSchema, At, Outcome, ReconcileSteps, RemovalSteps
  <2> QED
    BY <1>6, <2>2, <2>3
<1> QED
  BY <1>12, <1>13, <1>14, <1>15, <1>16, <1>17, <1>18, <1>19, <1>20, <1>21,
     <1>22, <1>23, <1>24, <1>25, <1>26 DEF RemoteStep

\* A stored observation stays fenced while no stop succeeds under its job.
LEMMA CheckKept ==
    ASSUME Fence, [LNext]_lvars, CheckIsFenced, check' = check,
           (row'.status = "success" /\ row'.job = check.job
              /\ check.status = "success" /\ check.at # "idle") => row' = row
    PROVE  CheckIsFenced'
<1>1. \A j \in Jobs : jobs[j].status = "success" => jobs'[j].status = "success"
  BY InstanceStep, JobsAreKept DEF Fence
<1> QED
  BY <1>1 DEF CheckIsFenced

\* A transaction of the engine, Argo CD or check_instance_states.
LEMMA LifecycleStep ==
    ASSUME Fence, Fence', PasswordInv, RowInGraph, LifecycleInv,
           ~StaleWorkersAct, [LNext]_lvars
    PROVE  LifecycleInv'
<1> USE DEF world, columns
<1>1. RowFacts /\ OutcomesHold /\ CheckIsFenced
  BY DEF LifecycleInv
<1>2. \A w \in Workers : Current(w) =>
          /\ row.status = "running" /\ row.step = claims[w].step
          /\ RunsStep(row.action, row.step)
          /\ Outcome(w)
          /\ row.job \in Jobs => jobs[row.job].status = "running"
  BY <1>1, CurrentOwnsRow
     DEF CurrentOwns, RowInGraph, Live, OutcomesHold, Current, Owns, Owned
<1>3. row'.status # "running" => OutcomesHold'
  BY CurrentOwnsAfter DEF CurrentOwns, OutcomesHold
<1>4. ASSUME CallsKept, UNCHANGED world, UNCHANGED <<candidate, verified>>
      PROVE  OutcomesHold'
  BY <1>1, <1>4 DEF CallsKept, OutcomesHold, Outcome
<1>5. ASSUME row'.status # "success", check' = check
      PROVE  CheckIsFenced'
  BY <1>1, <1>5, CheckKept
<1>6. ASSUME UNCHANGED world, UNCHANGED <<state, verified>>,
             row'.job = row.job, row'.action = row.action,
             row'.step = row.step,
             \/ row'.status = row.status
             \/ /\ row.status \in {"pending", "running", "error"}
                /\ row'.status \in {"pending", "running", "error"}
      PROVE  RowFacts'
  BY <1>1, <1>6
     DEF RowFacts, SchemaFirst, ReconciledFirst, RemovedLast, VerifiedLast,
         ConfirmedAbsence, ApplicationHasSchema, SuccessIsUsable, Doing, Live
<1>7. ASSUME NEW j \in Jobs, NEW t \in Transitions, LRequest(j, t)
      PROVE  LifecycleInv'
  <2>1. /\ row.status = t.status
        /\ t.status # "absent" => row.action = t.action
        /\ row'.action = RESOURCE_ACTIONS[t.name]
        /\ row'.step = t.first
        /\ row'.status = "pending"
    BY <1>7, EffectOfRequest
  <2>2. /\ UNCHANGED world /\ UNCHANGED columns /\ check' = check
        /\ (t.name = "instance.delete" /\ t.status = "error") =>
              (t.first = "step_02_remove_instance") = (verified = NoPassword)
    BY <1>7 DEF LRequest
  <2>3. RowFacts'
    BY <1>1, <2>1, <2>2, RequestTable, InstanceActions
       DEF RowFacts, SchemaFirst, ReconciledFirst, RemovedLast, VerifiedLast,
           ConfirmedAbsence, ApplicationHasSchema, SuccessIsUsable, Doing,
           Live, RowInGraph
  <2> QED
    BY <1>3, <1>5, <2>1, <2>2, <2>3 DEF LifecycleInv
<1>8. ASSUME NEW w \in Workers, NEW m \in queue, LClaim(w, m)
      PROVE  LifecycleInv'
  <2>1. /\ row.status \in {"pending", "error"} /\ row'.status = "running"
        /\ row'.job = row.job /\ row'.action = row.action
        /\ row'.step = row.step
        /\ \A v \in Workers : Current(v)' => v = w
    BY <1>8, EffectOfClaim
  <2>2. /\ UNCHANGED world /\ UNCHANGED columns /\ check' = check
        /\ call'[w].at = "begin"
    BY <1>8 DEF LClaim, Goto, Call, PasswordInv, LTypeOK
  <2>3. OutcomesHold'
    BY <2>1, <2>2 DEF OutcomesHold, Outcome
  <2> QED
    BY <1>5, <1>6, <2>1, <2>2, <2>3 DEF LifecycleInv
<1>9. ASSUME NEW w \in Workers, NEW next \in Steps, LAdvance(w, next)
      PROVE  LifecycleInv'
  <2>1. /\ Current(w)
        /\ <<row.step, next>> \in NextSteps
        /\ row'.action = row.action
        /\ row'.step = next
        /\ row'.status = "pending"
    BY <1>9, EffectOfFinish
  <2>2. /\ UNCHANGED world /\ UNCHANGED <<candidate, verified>>
        /\ check' = check /\ call[w].at = "done"
        /\ claims[w].step \in RemovalSteps => state' = "stopped"
        /\ claims[w].step \notin ReconcileSteps \cup RemovalSteps =>
              state' = state
    BY <1>9 DEF LAdvance, ReconcileSteps, RemovalSteps
  <2>3. <<row.step, next>> \in InstanceNextSteps
    BY <2>1, InstanceTables
  <2>4. RowFacts'
    BY <1>1, <1>2, <2>1, <2>2, <2>3
       DEF InstanceNextSteps, Outcome, ReconcileSteps, RemovalSteps, RunsStep,
           RowFacts, SchemaFirst, ReconciledFirst, RemovedLast, VerifiedLast,
           ConfirmedAbsence, ApplicationHasSchema, SuccessIsUsable, Doing, Live
  <2> QED
    BY <1>3, <1>5, <2>1, <2>2, <2>4 DEF LifecycleInv
<1>10. ASSUME NEW w \in Workers, LComplete(w)
       PROVE  LifecycleInv'
  <2>1. /\ Current(w)
        /\ row.step \in FinalSteps
        /\ row.step \in DeletingSteps => row' = AbsentResource
        /\ row.step \notin DeletingSteps =>
              /\ row'.job = row.job
              /\ row'.action = row.action
              /\ row'.status = "success"
    BY <1>10, EffectOfFinish
  <2>2. /\ row.status = "running" /\ row.step = claims[w].step
        /\ RunsStep(row.action, row.step) /\ Outcome(w)
        /\ row.step \in InstanceFinalSteps
    BY <1>2, <2>1, InstanceTables
  <2>3. UNCHANGED world /\ check' = check
    BY <1>10 DEF LComplete
  <2>4. CASE row.step = "step_04_remove_local_configuration"
    <3>1. row' = AbsentResource /\ verified' = NoPassword
      BY <1>10, <2>1, <2>2, <2>4, InstanceTables
         DEF LComplete, InstanceDeletingSteps
    <3>2. row'.status = "absent" /\ row'.action = "creating"
      BY <3>1 DEF AbsentResource
    <3>3. app = "absent" /\ ~schema /\ admin = NoPassword
      BY <1>1, <2>2, <2>4 DEF RowFacts, RemovedLast, Doing, Live, RunsStep
    <3>4. RowFacts'
      BY <2>3, <3>1, <3>2, <3>3
         DEF RowFacts, SchemaFirst, ReconciledFirst, RemovedLast, VerifiedLast,
             ConfirmedAbsence, ApplicationHasSchema, SuccessIsUsable, Doing,
             Live
    <3> QED
      BY <1>3, <1>5, <2>3, <3>2, <3>4 DEF LifecycleInv
  <2>5. CASE row.step # "step_04_remove_local_configuration"
    <3>1. /\ row'.job = row.job /\ row'.action = row.action
          /\ row'.status = "success"
          /\ call[w].at = "done"
      BY <1>10, <2>1, <2>2, <2>5, InstanceTables
         DEF LComplete, At, InstanceDeletingSteps
    <3>2. ASSUME row.step = "step_02_stop_instance"
          PROVE  RowFacts'
      <4>1. /\ row.action = "stopping" /\ app = "absent" /\ state' = "stopped"
            /\ schema
        BY <1>1, <1>10, <2>2, <3>1, <3>2
           DEF LComplete, Outcome, RemovalSteps, RunsStep, RowFacts,
               SchemaFirst
      <4> QED
        BY <2>3, <3>1, <4>1
           DEF RowFacts, SchemaFirst, ReconciledFirst, RemovedLast,
               VerifiedLast, ConfirmedAbsence, ApplicationHasSchema,
               SuccessIsUsable, Doing, Live
    <3>3. ASSUME row.step \in {"step_03_bootstrap_admin",
                               "step_02_cleanup_users"}
          PROVE  RowFacts'
      <4>1. /\ row.action \in {"creating", "updating", "starting"}
            /\ schema /\ app \in {"idle", "busy"}
        BY <1>1, <2>2, <3>3
           DEF RunsStep, RowFacts, SchemaFirst, ReconciledFirst, Doing, Live
      <4>2. verified' # NoPassword /\ admin = verified'
        <5>1. CASE row.step = "step_02_cleanup_users"
          BY <1>10, <2>2, <3>1, <5>1 DEF LComplete, Outcome
        <5>2. CASE row.step = "step_03_bootstrap_admin"
          <6>1. verified = NoPassword
            BY <1>1, <2>2, <5>2 DEF RunsStep, RowFacts, VerifiedLast
          <6> QED
            BY <1>10, <2>2, <3>1, <5>2, <6>1 DEF LComplete, Outcome
        <5> QED
          BY <3>3, <5>1, <5>2
      <4> QED
        BY <2>3, <3>1, <4>1, <4>2
           DEF RowFacts, SchemaFirst, ReconciledFirst, RemovedLast,
               VerifiedLast, ConfirmedAbsence, ApplicationHasSchema,
               SuccessIsUsable, Doing, Live
    <3>4. RowFacts'
      BY <2>2, <2>5, <3>2, <3>3 DEF InstanceFinalSteps
    <3>5. check.at # "idle" /\ check.status = "success" => check.job # row.job
      BY <1>1, <1>2, <2>1 DEF CheckIsFenced
    <3>6. CheckIsFenced'
      BY <1>1, <2>3, <3>1, <3>5, CheckKept
    <3> QED
      BY <1>3, <3>1, <3>4, <3>6 DEF LifecycleInv
  <2> QED
    BY <2>4, <2>5
<1>11. ASSUME NEW w \in Workers, NEW k \in Jobs, NEW t \in Successors,
              LContinue(w, k, t)
       PROVE  LifecycleInv'
  <2>1. /\ Current(w)
        /\ row.step = "step_02_cleanup_users"
        /\ row'.action = "updating"
        /\ row'.step = "step_01_update_instance"
        /\ row'.status = "pending"
    BY <1>11, EffectOfFinish
  <2>2. UNCHANGED world /\ UNCHANGED columns /\ check' = check
    BY <1>11 DEF LContinue
  <2>3. schema
    BY <1>1, <1>2, <2>1 DEF RunsStep, RowFacts, SchemaFirst
  <2>4. RowFacts'
    BY <2>1, <2>2, <2>3
       DEF RowFacts, SchemaFirst, ReconciledFirst, RemovedLast, VerifiedLast,
           ConfirmedAbsence, ApplicationHasSchema, SuccessIsUsable, Doing, Live
  <2> QED
    BY <1>3, <1>5, <2>1, <2>2, <2>4 DEF LifecycleInv
<1>12. ASSUME NEW w \in Workers, LDefer(w) \/ LFail(w)
       PROVE  LifecycleInv'
  <2>1. /\ row.status = "running" /\ row'.status \in {"pending", "error"}
        /\ row'.job = row.job /\ row'.action = row.action
        /\ row'.step = row.step
    BY <1>2, <1>12, EffectOfFinish
  <2>2. UNCHANGED world /\ UNCHANGED columns /\ check' = check
    BY <1>12 DEF LDefer, LFail
  <2> QED
    BY <1>3, <1>5, <1>6, <2>1, <2>2 DEF LifecycleInv
<1>13. ASSUME LQuiet
       PROVE  LifecycleInv'
  <2>1. row' = row /\ CallsKept
    BY <1>13, EffectOfQuiet DEF PasswordInv
  <2>2. UNCHANGED world /\ UNCHANGED columns /\ check' = check
    BY <1>13 DEF LQuiet, Quiet, LHeartbeat, LStop
  <2>3. CheckIsFenced'
    BY <1>1, <2>1, <2>2, CheckKept
  <2> QED
    BY <1>4, <1>6, <2>1, <2>2, <2>3 DEF LifecycleInv
<1>14. ASSUME NEW s \in Scanners, NEW j \in Jobs, Quiet(ScanJob(s, j))
       PROVE  LifecycleInv'
  <2>1. /\ CallsKept
        /\ \/ row' = row
           \/ /\ row.status = "running" /\ row'.status = "pending"
              /\ row'.job = row.job /\ row'.action = row.action
              /\ row'.step = row.step
    BY <1>14, EffectOfScan
  <2>2. UNCHANGED world /\ UNCHANGED columns /\ check' = check
    BY <1>14 DEF Quiet
  <2>3. CheckIsFenced'
    BY <1>1, <2>1, <2>2, CheckKept
  <2>4. RowFacts'
    BY <1>6, <2>1, <2>2
  <2> QED
    BY <1>4, <2>1, <2>2, <2>3, <2>4 DEF LifecycleInv
<1>15. ASSUME UNCHANGED vars, call' = call
       PROVE  /\ row' = row /\ jobs' = jobs /\ claims' = claims
              /\ CallsKept
  BY <1>15 DEF vars, row, CallsKept, Current, Owns, ResourceOf
<1>16. CASE Settle
  <2>1. /\ row' = row /\ claims' = claims /\ call' = call /\ check' = check
        /\ UNCHANGED <<schema, admin>> /\ UNCHANGED columns
        /\ app' # "absent" => app # "absent"
        /\ app \in {"idle", "busy"} => app' \in {"idle", "busy"}
        /\ CallsKept
    BY <1>15, <1>16 DEF Settle
  <2>2. RowFacts'
    BY <1>1, <2>1
       DEF RowFacts, SchemaFirst, ReconciledFirst, RemovedLast, VerifiedLast,
           ConfirmedAbsence, ApplicationHasSchema, SuccessIsUsable, Doing, Live
  <2>3. OutcomesHold'
    BY <1>1, <2>1 DEF OutcomesHold, Outcome, CallsKept
  <2>4. CheckIsFenced'
    BY <1>1, <2>1, CheckKept
  <2> QED
    BY <2>2, <2>3, <2>4 DEF LifecycleInv
<1>17. CASE CheckSnapshot
  <2>1. /\ row' = row /\ jobs' = jobs /\ CallsKept
        /\ UNCHANGED world /\ UNCHANGED columns
    BY <1>15, <1>17 DEF CheckSnapshot
  <2>2. row.job \in Jobs /\ jobs[row.job].status = row.status
    BY <1>17, InstanceAssumption
       DEF CheckSnapshot, Fence, Mirror, row
  <2>3. /\ check'.at = "snapshot" /\ check'.job = row.job
        /\ check'.action = row.action /\ check'.status = row.status
        /\ row.action # "deleting"
    BY <1>17 DEF CheckSnapshot
  <2>4. CheckIsFenced'
    BY <2>1, <2>2, <2>3 DEF CheckIsFenced
  <2> QED
    BY <1>4, <1>6, <2>1, <2>4 DEF LifecycleInv
<1>18. CASE CheckObserve
  <2>1. /\ row' = row /\ jobs' = jobs /\ CallsKept
        /\ UNCHANGED world /\ UNCHANGED columns
    BY <1>15, <1>18 DEF CheckObserve
  <2>2. /\ check.at = "snapshot"
        /\ check'.job = check.job /\ check'.action = check.action
        /\ check'.status = check.status /\ check'.exists = (app # "absent")
    BY <1>18 DEF CheckObserve
  <2>3. CheckIsFenced'
    BY <1>1, <2>1, <2>2 DEF CheckIsFenced, RowFacts, ConfirmedAbsence
  <2> QED
    BY <1>4, <1>6, <2>1, <2>3 DEF LifecycleInv
<1>19. CASE CheckStore
  <2>1. /\ row' = row /\ jobs' = jobs /\ CallsKept
        /\ UNCHANGED world /\ UNCHANGED <<candidate, verified>>
        /\ check' = NoCheck
    BY <1>15, <1>19 DEF CheckStore
  <2>2. CheckIsFenced'
    BY <2>1 DEF CheckIsFenced, NoCheck
  <2>3. ConfirmedAbsence'
    BY <1>1, <1>19, <2>1
       DEF CheckStore, CheckIsFenced, RowFacts, ConfirmedAbsence
  <2>4. RowFacts'
    BY <1>1, <2>1, <2>3
       DEF RowFacts, SchemaFirst, ReconciledFirst, RemovedLast, VerifiedLast,
           ApplicationHasSchema, SuccessIsUsable, Doing, Live
  <2> QED
    BY <1>4, <2>1, <2>2, <2>4 DEF LifecycleInv
<1>20. CASE UNCHANGED lvars
  <2>1. row' = row /\ CallsKept /\ UNCHANGED world /\ UNCHANGED columns
           /\ check' = check
    BY <1>15, <1>20 DEF lvars
  <2>2. CheckIsFenced'
    BY <1>1, <2>1, CheckKept
  <2> QED
    BY <1>4, <1>6, <2>1, <2>2 DEF LifecycleInv
<1>21. NewIds \subseteq Jobs
  BY DEF NewIds, Draw
<1> QED
  BY <1>7, <1>8, <1>9, <1>10, <1>11, <1>12, <1>13, <1>14, <1>16, <1>17,
     <1>18, <1>19, <1>20, <1>21, RemoteLifecycle DEF LNext, LQuiet

\* The life cycle invariant holds when remote calls are made under the claim.
LEMMA LifecycleCorrect ==
    ASSUME ~StaleWorkersAct PROVE LSpec => []LifecycleInv
<1>1. LInit => LifecycleInv
  <2> SUFFICES ASSUME LInit
               PROVE  LifecycleInv
    OBVIOUS
  <2>1. row = AbsentResource
    BY InstanceAssumption DEF LInit, Init, row
  <2>2. \A w \in Workers : ~Current(w)
    BY DEF LInit, Init, Current
  <2>3. check.at = "idle"
    BY DEF LInit, NoCheck
  <2> QED
    BY <2>1, <2>2, <2>3
       DEF LInit, AbsentResource, LifecycleInv, OutcomesHold, CheckIsFenced,
           RowFacts, SchemaFirst, ReconciledFirst, RemovedLast, VerifiedLast,
           ConfirmedAbsence, ApplicationHasSchema, SuccessIsUsable, Doing, Live
<1>2. Fence /\ Fence' /\ PasswordInv /\ RowInGraph /\ LifecycleInv
         /\ [LNext]_lvars => LifecycleInv'
  BY LifecycleStep
<1> QED
  BY <1>1, <1>2, InstanceFenced, PasswordInvCorrect, RowInGraphCorrect,
     PTL DEF LSpec

\* Remote calls made under the claim keep a confirmed absence of the
\* Application, and instance.state with it: a late observation of
\* check_instance_states is dropped by its fence, and a job stopping or
\* deleting the instance excludes every other writer.
THEOREM ConfirmedAbsenceCorrect ==
    ASSUME ~StaleWorkersAct PROVE LSpec => []ConfirmedAbsence
<1>1. LifecycleInv => ConfirmedAbsence
  BY DEF LifecycleInv, RowFacts
<1> QED
  BY <1>1, LifecycleCorrect, PTL

\* Creation makes the schema before the Application and deletion drops it
\* after, so no retry, redelivery or crash leaves an Application without one.
THEOREM ApplicationHasSchemaCorrect ==
    ASSUME ~StaleWorkersAct PROVE LSpec => []ApplicationHasSchema
<1>1. LifecycleInv => ApplicationHasSchema
  BY DEF LifecycleInv, RowFacts
<1> QED
  BY <1>1, LifecycleCorrect, PTL

\* Every successful creation, update and start leaves an Application that runs
\* and an administrator whose password is stored and verified.
THEOREM SuccessIsUsableCorrect ==
    ASSUME ~StaleWorkersAct PROVE LSpec => []SuccessIsUsable
<1>1. LifecycleInv => SuccessIsUsable
  BY DEF LifecycleInv, RowFacts
<1> QED
  BY <1>1, LifecycleCorrect, PTL

\* step_04_remove_local_configuration deletes the row only after the
\* Application, the schema and the administrator are gone, and nothing brings
\* them back.
THEOREM NoOrphansCorrect ==
    ASSUME ~StaleWorkersAct PROVE LSpec => []NoOrphans
<1>1. LifecycleInv => NoOrphans
  BY DEF LifecycleInv, RowFacts, RemovedLast, NoOrphans
<1> QED
  BY <1>1, LifecycleCorrect, PTL
=============================================================================
