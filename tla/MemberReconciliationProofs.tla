---------------------- MODULE MemberReconciliationProofs ----------------------
(***************************************************************************)
(* Safety of member reconciliation for every number of members, roles,     *)
(* jobs, workers, scanners and disturbances, when the claim is checked     *)
(* before a worker acts (StaleWorkersAct is FALSE; the run stale_members   *)
(* shows that it is not true otherwise).                                   *)
(*                                                                         *)
(* The argument: a policy read by step 1 stays right for every change that *)
(* is not queued behind it, so when step 2 finalizes a change the policy   *)
(* already says the same; and an account whose member has no role in the   *)
(* policy can be removed for good, because nobody signs in without one.    *)
(***************************************************************************)
EXTENDS MemberReconciliation, JobExecutionProofs

-----------------------------------------------------------------------------
\* The row waits for a step, runs one, or failed in one.
Live == row.status \in {"pending", "running", "error"}

\* Worker w holds the instance row.
Current(w) == claims[w] # NoClaim /\ Owns(w, claims[w].job)

\* The row stands at a step of its action, or rests after a success.
RowInGraph ==
    /\ row.status # "absent"
    /\ row.action \in {"updating", "starting", "stopping"}
    /\ Live => \/ row.action = "updating" /\ row.step \in {UpdateStep, CleanupStep}
               \/ row.action = "starting" /\ row.step \in {StartStep, CleanupStep}
               \/ row.action = "stopping" /\ row.step \in StopSteps

\* A deletion never ends in a success: its row goes away.
DeletionsEndAbsent ==
    \A m \in Members :
        members[m].status = "success" => members[m].action # "deleting"

\* The table f of roles agrees with every member change that is not queued.
Agrees(f) == \A m \in Members : members[m].status # "pending" =>
                                    f[m] = Grants[m]

\* Step 2 finds the policy written for every change it may finalize.
PolicyWritten == Live /\ row.step = CleanupStep => Agrees(policy)

\* Step 1, phase by phase: the policy it read, then the policy it wrote.
WrittenBy(w) ==
    claims[w].step \in {UpdateStep, StartStep} =>
        /\ pass[w].at = "claimed" => Agrees(pass[w].grants)
        /\ pass[w].at = "done" => Agrees(policy)

\* Member m's deletion is finalized by the pass of worker w.
Removes(w, m) == /\ m \in pass[w].ids
                 /\ members[m].status = "running"
                 /\ members[m].action = "deleting"

\* Step 2, phase by phase: it took every change that was written, and the
\* accounts of the deletions among them are to be removed, or removed.
CleanedBy(w) ==
    claims[w].step = CleanupStep /\ pass[w].at # "begin" =>
        \A m \in Members :
            /\ members[m].status # "error"
            /\ members[m].status = "running" => m \in pass[w].ids
            /\ Removes(w, m) =>
                  /\ pass[w].at = "claimed" => m \in pass[w].orphans
                  /\ pass[w].at = "listed" =>
                        m \in pass[w].orphans \/ m \notin users
                  /\ pass[w].at = "done" => m \notin users

PassesHold == \A w \in Workers : Current(w) => WrittenBy(w) /\ CleanedBy(w)

MemberInv == /\ DeletionsEndAbsent
             /\ PolicyWritten
             /\ PassesHold
             /\ DeletedMembersAreGone
             /\ MembersAreReconciled

-----------------------------------------------------------------------------
\* The action a job of each operation gives the row.
LEMMA MemberActions ==
    /\ RESOURCE_ACTIONS["instance.update"] = "updating"
    /\ RESOURCE_ACTIONS["instance.start"] = "starting"
    /\ RESOURCE_ACTIONS["instance.stop"] = "stopping"
BY DEF RESOURCE_ACTIONS

\* Every request a member module makes starts the first step of its operation.
LEMMA MemberRequests ==
    ASSUME NEW t \in Transitions
    PROVE  /\ t.name = "instance.update" => t.first = UpdateStep
           /\ t.name = "instance.start" => t.first = StartStep
           /\ t.name = "instance.stop" => t.first = "step_01_stop_workspaces"
           /\ t.name \in {"instance.update", "instance.start", "instance.stop"}
                => t.status \in {"success", "error"}
BY MemberTables DEF InstanceTransitions, Settled, Deletable, UpdateStep,
                    StartStep

\* Every step of the members is a step of the engine, or none of its business.
LEMMA MemberStep == [MNext]_mvars => [Next]_vars
<1> SUFFICES ASSUME [MNext]_mvars
             PROVE  [Next]_vars
  OBVIOUS
<1>1. NewIds \subseteq Jobs
  BY DEF NewIds, Draw
<1>2. RequestUpdate => [Next]_vars
  BY <1>1, MemberAssumption DEF RequestUpdate, Next
<1>3. ASSUME NEW w \in Workers, WorkerStep(w)
      PROVE  UNCHANGED vars \/ Heartbeat(w)
  BY <1>3 DEF WorkerStep, ClaimMembers, ReadMembers, WritePolicy, ClaimCleanup,
         CleanupOf, ListUsers, StopStep, DeleteUser
<1>4. UNCHANGED mvars => UNCHANGED vars
  BY DEF mvars
<1> QED
  BY <1>1, <1>2, <1>3, <1>4, MemberAssumption
     DEF MNext, CreateMember, UpdateRole, DeleteMember, SetMember, RequestSync,
         RequestPower, MClaim, MAdvance, MComplete, MContinue, MDefer, MFail,
         MStop, SignIn, Engine, Next

-----------------------------------------------------------------------------
\* Every job works on the one instance.
OneInstance ==
    \A j \in Jobs : jobs[j].status # "absent" => jobs[j].resource = Inst

\* The engine's own invariants.
Fence == TypeOK /\ Fenced /\ OneInstance

\* Only requests and continuations make jobs, and both make them for Inst.
LEMMA OneInstanceStep ==
    ASSUME TypeOK, Fenced, OneInstance, [MNext]_mvars
    PROVE  OneInstance'
<1> SUFFICES ASSUME NEW i \in Jobs, jobs'[i].status # "absent",
                    jobs[i].status = "absent"
             PROVE  jobs'[i].resource = Inst
  BY MemberStep, JobsAreKept DEF OneInstance
<1>1. ASSUME NEW j \in Jobs, NEW t \in Transitions, Request(j, Inst, t)
      PROVE  jobs'[i].resource = Inst
  BY <1>1 DEF Request, NewJob, TypeOK
<1>2. ASSUME NEW w \in Workers, NEW k \in Jobs, NEW t \in Successors,
             Continue(w, k, t)
      PROVE  jobs'[i].resource = Inst
  <2>1. /\ claims[w] # NoClaim
        /\ jobs[claims[w].job].status = "running"
        /\ jobs' = [jobs EXCEPT
              ![claims[w].job] = CompletedJob(jobs[claims[w].job]),
              ![k] = NewJob(t.name, jobs[claims[w].job].resource, t.first)]
    BY <1>2 DEF Continue, Owns, Owned
  <2>2. claims[w].job \in Jobs /\ jobs[claims[w].job].resource = Inst
    BY <2>1 DEF OneInstance, TypeOK, Claims
  <2>3. jobs'[i] = NewJob(t.name, Inst, t.first)
    BY <2>1, <2>2 DEF TypeOK
  <2> QED
    BY <2>3 DEF NewJob
<1>3. ASSUME NEW j \in Jobs, NEW new, jobs[j].status # "absent",
             jobs' = [jobs EXCEPT ![j] = new]
      PROVE  FALSE
  BY <1>3 DEF TypeOK
<1>4. ASSUME NEW w \in Workers, claims[w] # NoClaim, Owns(w, claims[w].job)
      PROVE  claims[w].job \in Jobs /\ jobs[claims[w].job].status # "absent"
  BY <1>4 DEF Owns, Owned, TypeOK, Claims
<1>5. ASSUME NEW w \in Workers,
             \/ \E next \in Steps : Advance(w, next)
             \/ Complete(w) \/ Defer(w) \/ Fail(w) \/ Heartbeat(w)
      PROVE  FALSE
  BY <1>3, <1>4, <1>5 DEF Advance, Complete, Defer, Fail, Finish, Heartbeat
<1>6. ASSUME NEW w \in Workers, NEW m \in queue, Claim(w, m)
      PROVE  FALSE
  <2>1. m[1] \in Jobs /\ jobs[m[1]].status # "absent"
    BY <1>6 DEF Claim, Claimable, TypeOK
  <2> QED
    BY <1>3, <1>6, <2>1 DEF Claim
<1>7. ASSUME NEW j \in Jobs, Expire(j) \/ \E s \in Scanners : ScanJob(s, j)
      PROVE  FALSE
  BY <1>3, <1>7 DEF Expire, ScanJob, Retryable
<1>8. jobs' # jobs
  OBVIOUS
<1>9. NewIds \subseteq Jobs
  BY DEF NewIds, Draw
<1>10. ASSUME NEW w \in Workers, WorkerStep(w)
       PROVE  FALSE
  BY <1>5, <1>8, <1>10 DEF vars, WorkerStep, ClaimMembers, ReadMembers,
         WritePolicy, ClaimCleanup, CleanupOf, ListUsers, StopStep, DeleteUser
<1>11. ASSUME RequestUpdate
       PROVE  jobs'[i].resource = Inst
  BY <1>1, <1>8, <1>9, <1>11 DEF RequestUpdate, vars
<1> QED
  BY <1>1, <1>2, <1>5, <1>6, <1>7, <1>8, <1>9, <1>10, <1>11
     DEF MNext, mvars, vars, CreateMember, UpdateRole, DeleteMember, SetMember,
         RequestSync, RequestPower, MClaim, MAdvance, MComplete, MContinue,
         MDefer, MFail, MStop, SignIn, Engine, Abandon, Crash, IgnoreDelivery,
         Lose, ScanStart, ScanEnd

\* An instance after a successful update is a state the engine can be in.
LEMMA MemberInitFenced == MInit => Fence /\ RowInGraph /\ row.status = "success"
<1> SUFFICES ASSUME MInit
             PROVE  Fence /\ RowInGraph /\ row.status = "success"
  OBVIOUS
<1>1. PICK j \in Jobs :
        /\ jobs = [i \in Jobs |-> IF i = j
              THEN JobWith(NewJob("instance.update", Inst, CleanupStep),
                           CleanupStep, "success", 2, "none")
              ELSE AbsentJob]
        /\ resources = [r \in Resources |-> IF r = Inst
              THEN ResourceWith(Requested(j, "instance.update", CleanupStep),
                                NoStep, "success")
              ELSE AbsentResource]
  BY DEF MInit, Draw
<1>2. /\ queue = {} /\ disturbances = 0
      /\ claims = [w \in Workers |-> NoClaim]
      /\ scans = [s \in Scanners |-> IdleScan]
  BY DEF MInit
<1>3. jobs[j] = [name |-> "instance.update", resource |-> Inst,
                 step |-> CleanupStep, status |-> "success", attempt |-> 2,
                 claimed |-> "none"]
  BY <1>1 DEF JobWith, NewJob
<1>4. row = [job |-> j, action |-> "updating", step |-> NoStep,
             status |-> "success"]
  BY <1>1, MemberAssumption, MemberActions DEF ResourceWith, Requested, row
<1>5. \A i \in Jobs : i # j => jobs[i] = AbsentJob
  BY <1>1
<1>6. \A r \in Resources : r # Inst => resources[r] = AbsentResource
  BY <1>1
<1>7. jobs \in [Jobs -> JobRow]
  <2>1. jobs[j] \in JobRow
    BY <1>3, MemberAssumption, MemberTables
       DEF JobRow, JobNames, RESOURCE_ACTIONS, JobStatus, ClaimAge
  <2>2. AbsentJob \in JobRow
    BY DEF AbsentJob, JobRow, JobNames, JobStatus, ClaimAge
  <2>3. \A i \in Jobs : jobs[i] \in JobRow
    BY <1>5, <2>1, <2>2
  <2> QED
    BY <1>1, <2>3
<1>8. resources \in [Resources -> ResourceRow]
  <2>1. row \in ResourceRow
    BY <1>4 DEF ResourceRow, Actions, JobStatus
  <2>2. AbsentResource \in ResourceRow
    BY DEF AbsentResource, ResourceRow, Actions, JobStatus
  <2>3. \A r \in Resources : resources[r] \in ResourceRow
    BY <1>6, <2>1, <2>2 DEF row
  <2> QED
    BY <1>1, <2>3
<1>9. TypeOK
  BY <1>2, <1>3, <1>5, <1>7, <1>8, MemberTables
     DEF TypeOK, AbsentJob, IdleScan, ScanState
<1>10. Linked
  <2> SUFFICES ASSUME NEW r \in Resources, resources[r].status # "absent"
               PROVE  /\ resources[r].job \in Jobs
                      /\ jobs[resources[r].job].resource = r
                      /\ jobs[resources[r].job].status = resources[r].status
                      /\ jobs[resources[r].job].name \in DOMAIN RESOURCE_ACTIONS
                      /\ resources[r].action =
                             RESOURCE_ACTIONS[jobs[resources[r].job].name]
                      /\ resources[r].status = "success"
    BY DEF Linked
  <2>1. r = Inst
    BY <1>6 DEF AbsentResource
  <2> QED
    BY <1>3, <1>4, <2>1, MemberActions DEF row, RESOURCE_ACTIONS
<1>11. Fenced
  BY <1>2, <1>3, <1>5, <1>10
     DEF Fenced, LiveJobsAreCurrent, TokensAreUnique, AbsentJob
<1>12. OneInstance
  BY <1>3, <1>5 DEF OneInstance, AbsentJob
<1> QED
  BY <1>4, <1>9, <1>11, <1>12 DEF Fence, RowInGraph, Live

\* The members inherit the engine's types and fence.
LEMMA MemberFenced == MSpec => []Fence
<1>1. MInit => Fence
  BY MemberInitFenced
<1>2. Fence /\ [MNext]_mvars => Fence'
  BY MemberStep, OneInstanceStep, TypeStep, FencedStep DEF Fence
<1> QED
  BY <1>1, <1>2, PTL DEF MSpec

-----------------------------------------------------------------------------
\* The row of a worker that may finish its step, and nobody else's.
CurrentOwns ==
    \A w \in Workers : Current(w) =>
        /\ Holder(w, Inst)
        /\ row.status = "running"
        /\ row.step = claims[w].step
        /\ \A v \in Workers : Current(v) => v = w

\* The fence of _lock_owned_step makes the owner of the row unique.
LEMMA CurrentOwnsRow == Fence => CurrentOwns
<1> SUFFICES ASSUME Fence, NEW w \in Workers, Current(w)
             PROVE  /\ Holder(w, Inst)
                    /\ row.status = "running"
                    /\ row.step = claims[w].step
                    /\ \A v \in Workers : Current(v) => v = w
  BY DEF CurrentOwns
<1>1. \A v \in Workers : Current(v) => Holder(v, Inst)
  BY DEF Current, Holder, Fence, OneInstance, Owns, Owned, TypeOK, Claims
<1>2. HoldersOwn
  BY HoldersOwnRows DEF Fence
<1> QED
  BY <1>1, <1>2, MemberAssumption DEF HoldersOwn, row

\* The same in the next state.
LEMMA CurrentOwnsAfter == Fence' => CurrentOwns'
  BY CurrentOwnsRow, PTL

-----------------------------------------------------------------------------
\* What the engine's transactions do to the instance row and to its holder.

\* Nobody holds a row that is not running.
LEMMA NobodyHolds == Fence' /\ row'.status # "running" =>
                        \A v \in Workers : ~Current(v)'
BY CurrentOwnsAfter DEF CurrentOwns

\* A request finds the row at rest and leaves it pending at its first step.
LEMMA EffectOfRequest ==
    ASSUME Fence, NEW j \in Jobs, NEW t \in Transitions, Request(j, Inst, t),
           t.name \in {"instance.update", "instance.start", "instance.stop"}
    PROVE  /\ row.status \in {"success", "error"}
           /\ row'.action = RESOURCE_ACTIONS[t.name]
           /\ row'.step = t.first
           /\ row'.status = "pending"
BY MemberAssumption, MemberRequests DEF Request, WithResource, Requested, row

\* A member change leaves an update that has not finished step 1.
LEMMA EffectOfUpdate ==
    ASSUME Fence, RequestUpdate
    PROVE  /\ row'.action = "updating"
           /\ row'.step = UpdateStep
           /\ \/ UNCHANGED vars /\ row'.status \in {"pending", "running"}
              \/ row'.status = "pending"
<1>1. CASE UpdateInProgress /\ UNCHANGED vars
  BY <1>1 DEF UpdateInProgress, vars, row
<1>2. ASSUME NEW j \in NewIds, NEW t \in Transitions,
             t.name = "instance.update", Request(j, Inst, t)
      PROVE  /\ row'.action = "updating"
             /\ row'.step = UpdateStep
             /\ row'.status = "pending"
  <2>1. j \in Jobs
    BY <1>2 DEF NewIds, Draw
  <2> QED
    BY <1>2, <2>1, EffectOfRequest, MemberRequests, MemberActions
<1> QED
  BY <1>1, <1>2 DEF RequestUpdate

\* A claim starts the step the row waits for, and evicts every other holder.
LEMMA EffectOfClaim ==
    ASSUME Fence, Fence', NEW w \in Workers, NEW m \in queue, Claim(w, m)
    PROVE  /\ row.status \in {"pending", "error"}
           /\ row'.action = row.action
           /\ row'.step = row.step
           /\ row'.status = "running"
           /\ \A v \in Workers : Current(v)' => v = w
<1>1. jobs[m[1]].resource = Inst
  BY DEF Claim, Claimable, Fence, OneInstance, TypeOK
<1>2. /\ resources[Inst].status \in {"pending", "error"}
      /\ resources'[Inst] =
            ResourceWith(resources[Inst], resources[Inst].step, "running")
      /\ \A v \in Workers : Holder(v, Inst)' => v = w
  BY <1>1, ClaimTakes, MemberAssumption DEF Fence
<1>3. \A v \in Workers : Current(v)' => Holder(v, Inst)'
  BY CurrentOwnsAfter DEF CurrentOwns
<1> QED
  BY <1>2, <1>3 DEF row, ResourceWith

\* Only the holder of the row finishes its step.
LEMMA EffectOfFinish ==
    ASSUME Fence, NEW w \in Workers
    PROVE  /\ \A next \in Steps : Advance(w, next) =>
                 /\ Current(w)
                 /\ <<row.step, next>> \in InstanceNextSteps
                 /\ row'.action = row.action
                 /\ row'.step = next
                 /\ row'.status = "pending"
           /\ Complete(w) =>
                 /\ Current(w)
                 /\ row.step \in InstanceFinalSteps
                 /\ row.step \notin InstanceDeletingSteps =>
                       /\ row'.action = row.action
                       /\ row'.status = "success"
           /\ \A k \in Jobs, t \in Successors : Continue(w, k, t) =>
                 /\ Current(w)
                 /\ row.step = CleanupStep
                 /\ row'.action = "updating"
                 /\ row'.step = UpdateStep
                 /\ row'.status = "pending"
           /\ Defer(w) \/ Fail(w) =>
                 /\ Current(w)
                 /\ row'.action = row.action
                 /\ row'.step = row.step
                 /\ row'.status \in {"pending", "error"}
<1>1. Current(w) => Holder(w, Inst)
  BY CurrentOwnsRow DEF CurrentOwns
<1>2. ASSUME Holder(w, Inst)
      PROVE  /\ \A next \in Steps : Advance(w, next) =>
                   /\ <<row.step, next>> \in NextSteps
                   /\ row' = ResourceWith(row, next, "pending")
             /\ Complete(w) =>
                   /\ row.step \in FinalSteps
                   /\ row' = IF row.step \in DeletingSteps
                             THEN AbsentResource
                             ELSE ResourceWith(row, NoStep, "success")
             /\ \A k \in Jobs, t \in Successors : Continue(w, k, t) =>
                   /\ row.step = t.step
                   /\ row' = Requested(k, t.name, t.first)
             /\ Defer(w) => row' = ResourceWith(row, row.step, "pending")
             /\ Fail(w) => row' = ResourceWith(row, row.step, "error")
  BY <1>2, HolderFinishes, MemberAssumption DEF Fence, row
<1>3. ASSUME NEW next \in Steps, Advance(w, next)
      PROVE  /\ Current(w)
             /\ <<row.step, next>> \in InstanceNextSteps
             /\ row'.action = row.action
             /\ row'.step = next
             /\ row'.status = "pending"
  <2>1. Current(w)
    BY <1>3 DEF Advance, Current
  <2> QED
    BY <1>1, <1>2, <1>3, <2>1, MemberTables DEF ResourceWith
<1>4. ASSUME Complete(w)
      PROVE  /\ Current(w)
             /\ row.step \in InstanceFinalSteps
             /\ row.step \notin InstanceDeletingSteps =>
                   /\ row'.action = row.action
                   /\ row'.status = "success"
  <2>1. Current(w)
    BY <1>4 DEF Complete, Current
  <2> QED
    BY <1>1, <1>2, <1>4, <2>1, MemberTables DEF ResourceWith
<1>5. ASSUME NEW k \in Jobs, NEW t \in Successors, Continue(w, k, t)
      PROVE  /\ Current(w)
             /\ row.step = CleanupStep
             /\ row'.action = "updating"
             /\ row'.step = UpdateStep
             /\ row'.status = "pending"
  <2>1. Current(w)
    BY <1>5 DEF Continue, Current
  <2>2. /\ t.step = CleanupStep
        /\ t.name = "instance.update"
        /\ t.first = UpdateStep
    BY MemberTables DEF InstanceSuccessors, CleanupStep, UpdateStep
  <2>3. row.step = t.step /\ row' = Requested(k, t.name, t.first)
    BY <1>1, <1>2, <1>5, <2>1
  <2> QED
    BY <2>1, <2>2, <2>3, MemberActions DEF Requested
<1>6. ASSUME Defer(w) \/ Fail(w)
      PROVE  /\ Current(w)
             /\ row'.action = row.action
             /\ row'.step = row.step
             /\ row'.status \in {"pending", "error"}
  <2>1. Current(w)
    BY <1>6 DEF Defer, Fail, Finish, Current
  <2> QED
    BY <1>1, <1>2, <1>6, <2>1 DEF ResourceWith
<1> QED
  BY <1>3, <1>4, <1>5, <1>6

\* The other engine steps leave the row to the worker that held it.
LEMMA EffectOfQuiet ==
    ASSUME Fence, Fence', QuietStep
    PROVE  /\ row' = row
           /\ \A v \in Workers : Current(v)' =>
                 Current(v) /\ claims'[v] = claims[v]
<1>1. /\ resources' = resources
      /\ HoldersKept(Inst)
  BY QuietStepKeeps, MemberAssumption DEF Fence
<1>2. \A v \in Workers : Current(v)' => Holder(v, Inst)'
  BY CurrentOwnsAfter DEF CurrentOwns
<1> QED
  BY <1>1, <1>2 DEF HoldersKept, row, Holder, Current

\* The Beat scan leaves the row alone or takes it from a stale holder.
LEMMA EffectOfScan ==
    ASSUME Fence, Fence', NEW s \in Scanners, NEW j \in Jobs, ScanJob(s, j)
    PROVE  /\ \A v \in Workers : Current(v)' =>
                 Current(v) /\ claims'[v] = claims[v]
           /\ \/ row' = row
              \/ /\ row.status = "running"
                 /\ row'.action = row.action
                 /\ row'.step = row.step
                 /\ row'.status = "pending"
<1>1. /\ HoldersKept(Inst)
      /\ \/ resources'[Inst] = resources[Inst]
         \/ /\ resources[Inst].status = "running"
            /\ resources'[Inst] =
                  ResourceWith(resources[Inst], resources[Inst].step, "pending")
  BY ScanKeeps, MemberAssumption DEF Fence
<1>2. \A v \in Workers : Current(v)' => Holder(v, Inst)'
  BY CurrentOwnsAfter DEF CurrentOwns
<1> QED
  BY <1>1, <1>2 DEF HoldersKept, row, Holder, Current, ResourceWith

\* The engine steps of the members that leave member rows, policy and accounts
\* alone, and the row where it was or back in the queue.
EngineStep ==
    \/ \E w \in Workers : MStop(w)
    \/ \E msg \in queue : Engine(IgnoreDelivery(msg)) \/ Engine(Lose(msg))
    \/ \E j \in Jobs : Engine(Expire(j))
    \/ \E s \in Scanners : Engine(ScanStart(s)) \/ Engine(ScanEnd(s))
    \/ \E s \in Scanners, j \in Jobs : Engine(ScanJob(s, j))

\* Such a step leaves the row, and the pass of its holder, where they were.
LEMMA EffectOfEngine ==
    ASSUME Fence, Fence', MTypeOK, EngineStep
    PROVE  /\ UNCHANGED <<members, policy, users>>
           /\ \A v \in Workers : Current(v)' =>
                 Current(v) /\ claims'[v] = claims[v] /\ pass'[v] = pass[v]
           /\ \/ row' = row
              \/ /\ row.status = "running"
                 /\ row'.action = row.action
                 /\ row'.step = row.step
                 /\ row'.status = "pending"
<1>1. UNCHANGED <<members, policy, users>>
  BY DEF EngineStep, MStop, Engine
<1>2. \A v \in Workers : claims'[v] # NoClaim => pass'[v] = pass[v]
  BY DEF EngineStep, MStop, Engine, Goto, Abandon, Crash, Fence, TypeOK, MTypeOK
<1>3. QuietStep \/ \E s \in Scanners, j \in Jobs : ScanJob(s, j)
  BY DEF EngineStep, MStop, Engine, QuietStep
<1>4. CASE QuietStep
  BY <1>1, <1>2, <1>4, EffectOfQuiet DEF Current
<1>5. CASE \E s \in Scanners, j \in Jobs : ScanJob(s, j)
  BY <1>1, <1>2, <1>5, EffectOfScan DEF Current
<1> QED
  BY <1>3, <1>4, <1>5

\* A worker's own step leaves the row to it alone.
LEMMA EffectOfWorker ==
    ASSUME Fence, Fence', NEW w \in Workers, Current(w),
           UNCHANGED vars \/ Heartbeat(w)
    PROVE  /\ row' = row
           /\ \A v \in Workers : Current(v)' => v = w /\ claims'[v] = claims[v]
<1>1. CASE UNCHANGED vars
  BY <1>1, CurrentOwnsRow
     DEF CurrentOwns, row, vars, Current, Owns, ResourceOf
<1>2. CASE Heartbeat(w)
  <2>1. QuietStep
    BY <1>2 DEF QuietStep
  <2> QED
    BY <2>1, EffectOfQuiet, CurrentOwnsRow DEF CurrentOwns
<1> QED
  BY <1>1, <1>2

-----------------------------------------------------------------------------
\* The row stays in its step graph.
LEMMA RowInGraphStep ==
    ASSUME Fence, Fence', MTypeOK, RowInGraph, [MNext]_mvars
    PROVE  RowInGraph'
<1> USE DEF RowInGraph, Live, UpdateStep, CleanupStep, StartStep, StopSteps
<1>1. NewIds \subseteq Jobs
  BY DEF NewIds, Draw
<1>2. ASSUME RequestUpdate
      PROVE  RowInGraph'
  BY <1>2, EffectOfUpdate
<1>3. ASSUME NEW j \in NewIds, NEW t \in Transitions,
             RequestSync(j, t) \/ RequestPower(j, t)
      PROVE  RowInGraph'
  BY <1>1, <1>3, EffectOfRequest, MemberRequests, MemberActions
     DEF RequestSync, RequestPower
<1>4. ASSUME NEW w \in Workers, NEW msg \in queue, MClaim(w, msg)
      PROVE  RowInGraph'
  BY <1>4, EffectOfClaim DEF MClaim
<1>5. ASSUME NEW w \in Workers, WorkerStep(w)
      PROVE  RowInGraph'
  <2>1. UNCHANGED vars \/ Heartbeat(w)
    BY <1>5 DEF WorkerStep, ClaimMembers, ReadMembers, WritePolicy,
           ClaimCleanup, CleanupOf, ListUsers, StopStep, DeleteUser
  <2>2. Heartbeat(w) => row' = row
    BY EffectOfQuiet DEF QuietStep
  <2>3. row' = row
    BY <2>1, <2>2 DEF vars, row
  <2> QED
    BY <2>3
<1>6. ASSUME NEW w \in Workers, NEW next \in Steps, MAdvance(w, next)
      PROVE  RowInGraph'
  <2>1. /\ Current(w)
        /\ <<row.step, next>> \in InstanceNextSteps
        /\ row'.action = row.action
        /\ row'.step = next
        /\ row'.status = "pending"
    BY <1>6, EffectOfFinish DEF MAdvance
  <2>2. row.status = "running"
    BY <2>1, CurrentOwnsRow DEF CurrentOwns
  <2> QED
    BY <2>1, <2>2 DEF InstanceNextSteps
<1>7. ASSUME NEW w \in Workers, MComplete(w)
      PROVE  RowInGraph'
  <2>1. row.status = "running"
    BY <1>7, EffectOfFinish, CurrentOwnsRow DEF MComplete, CurrentOwns
  <2> QED
    BY <1>7, <2>1, EffectOfFinish DEF MComplete, InstanceDeletingSteps
<1>8. ASSUME NEW w \in Workers, NEW k \in Jobs, NEW t \in Successors,
             MContinue(w, k, t)
      PROVE  RowInGraph'
  BY <1>8, EffectOfFinish DEF MContinue
<1>9. ASSUME NEW w \in Workers, MDefer(w) \/ MFail(w)
      PROVE  RowInGraph'
  <2>1. row.status = "running"
    BY <1>9, EffectOfFinish, CurrentOwnsRow DEF MDefer, MFail, CurrentOwns
  <2> QED
    BY <1>9, <2>1, EffectOfFinish DEF MDefer, MFail
<1>10. ASSUME EngineStep
       PROVE  RowInGraph'
  BY <1>10, EffectOfEngine
<1>11. UNCHANGED vars => row' = row
  BY DEF vars, row
<1>12. UNCHANGED vars => RowInGraph'
  BY <1>11
<1> HIDE DEF RowInGraph
<1> QED
  BY <1>1, <1>2, <1>3, <1>4, <1>5, <1>6, <1>7, <1>8, <1>9, <1>10, <1>12
     DEF MNext, EngineStep, CreateMember, UpdateRole, DeleteMember, SetMember,
         SignIn, mvars

-----------------------------------------------------------------------------
\* The values of the member table.
MemberRows == [action : {"creating", "updating", "deleting"},
               status : JobStatus \cup {"absent"}, role : Roles \cup {NoRole}]

\* A member table with a role exactly where a row exists.
Table(rows) ==
    /\ rows \in [Members -> MemberRows]
    /\ \A m \in Members : rows[m].status = "absent" <=> rows[m].role = NoRole

\* The values of pass[w].
PassType == [at : {"begin", "claimed", "listed", "done"}, ids : SUBSET Members,
             grants : [Members -> Roles \cup {NoRole}],
             orphans : SUBSET Members]

\* What the transitions of the member table do to one row.
LEMMA MemberTransitions ==
    ASSUME MTypeOK
    PROVE  /\ \A ids \in SUBSET Present : Table(Claimed(ids))
           /\ \A ids \in SUBSET Members, s \in JobStatus : Table(Marked(ids, s))
           /\ \A ids \in SUBSET Members : Table(Finalized(ids))
           /\ Grants \in [Members -> Roles \cup {NoRole}]
           /\ NoGrants \in [Members -> Roles \cup {NoRole}]
<1>1. /\ members \in [Members -> MemberRows]
      /\ \A m \in Members : /\ members[m] \in MemberRows
                            /\ members[m].status = "absent" <=>
                                   members[m].role = NoRole
                            /\ m \in Present <=> members[m].status # "absent"
  BY DEF MTypeOK, MemberRows, Present
<1>2. \A m \in Members, s \in JobStatus :
         /\ MemberRow(members[m].action, s, members[m].role) \in MemberRows
         /\ MemberRow(members[m].action, s, members[m].role).status = s
         /\ MemberRow(members[m].action, s, members[m].role).role =
               members[m].role
  BY <1>1 DEF MemberRows, MemberRow
<1>3. /\ AbsentMember \in MemberRows
      /\ AbsentMember.status = "absent" /\ AbsentMember.role = NoRole
  BY DEF AbsentMember, MemberRows, MemberRow
<1>4. {"running", "success"} \subseteq JobStatus /\ "absent" \notin JobStatus
  BY DEF JobStatus
<1>5. ASSUME NEW ids \in SUBSET Present
      PROVE  Table(Claimed(ids))
  <2>1. \A m \in Members :
           /\ Claimed(ids)[m] \in MemberRows
           /\ Claimed(ids)[m].status = "absent" <=> Claimed(ids)[m].role = NoRole
    BY <1>1, <1>2, <1>4 DEF Claimed
  <2> QED
    BY <2>1 DEF Table, Claimed
<1>6. ASSUME NEW ids \in SUBSET Members, NEW s \in JobStatus
      PROVE  Table(Marked(ids, s))
  <2>1. \A m \in Members :
           /\ Marked(ids, s)[m] \in MemberRows
           /\ Marked(ids, s)[m].status = "absent" <=>
                 Marked(ids, s)[m].role = NoRole
    BY <1>1, <1>2, <1>4 DEF Marked
  <2> QED
    BY <2>1 DEF Table, Marked
<1>7. ASSUME NEW ids \in SUBSET Members
      PROVE  Table(Finalized(ids))
  <2>1. \A m \in Members :
           /\ Finalized(ids)[m] \in MemberRows
           /\ Finalized(ids)[m].status = "absent" <=>
                 Finalized(ids)[m].role = NoRole
    BY <1>1, <1>2, <1>3, <1>4 DEF Finalized
  <2> QED
    BY <2>1 DEF Table, Finalized
<1>8. /\ Grants \in [Members -> Roles \cup {NoRole}]
      /\ NoGrants \in [Members -> Roles \cup {NoRole}]
  BY <1>1 DEF Grants, NoGrants, MemberRows
<1> QED
  BY <1>5, <1>6, <1>7, <1>8

\* Every variable of the members keeps its type.
LEMMA MemberTypeStep ==
    ASSUME TypeOK, MTypeOK, [MNext]_mvars
    PROVE  MTypeOK'
<1> DEFINE Kept == /\ Table(members')
                   /\ policy' \in [Members -> Roles \cup {NoRole}]
                   /\ users' \subseteq Members
                   /\ pass' \in [Workers -> PassType]
<1> SUFFICES Kept
  BY DEF MTypeOK, Table, MemberRows, PassType
<1>1. /\ Table(members)
      /\ policy \in [Members -> Roles \cup {NoRole}]
      /\ users \subseteq Members
      /\ pass \in [Workers -> PassType]
      /\ \A w \in Workers : /\ pass[w].ids \subseteq Members
                            /\ pass[w].orphans \subseteq Members
                            /\ pass[w].grants \in [Members -> Roles \cup {NoRole}]
  BY DEF MTypeOK, Table, MemberRows, PassType
<1>2. /\ Grants \in [Members -> Roles \cup {NoRole}]
      /\ NoGrants \in [Members -> Roles \cup {NoRole}]
  BY MemberTransitions
<1>3. ASSUME NEW w \in Workers, NEW at \in {"begin", "claimed", "listed", "done"},
             NEW ids \in SUBSET Members, NEW orphans \in SUBSET Members,
             NEW grants \in [Members -> Roles \cup {NoRole}],
             Goto(w, Pass(at, ids, grants, orphans))
      PROVE  pass' \in [Workers -> PassType]
  <2>1. Pass(at, ids, grants, orphans) \in PassType
    BY DEF Pass, PassType
  <2> QED
    BY <1>1, <1>3, <2>1 DEF Goto
<1>4. ASSUME NEW w \in Workers, Goto(w, NoPass)
      PROVE  pass' \in [Workers -> PassType]
  BY <1>2, <1>3, <1>4 DEF NoPass
<1>5. Present \subseteq Members
  BY DEF Present
<1>6. ASSUME NEW m \in Members, NEW action \in {"creating", "updating", "deleting"},
             NEW r \in Roles, SetMember(m, MemberRow(action, "pending", r))
      PROVE  Kept
  <2>1. /\ MemberRow(action, "pending", r) \in MemberRows
        /\ MemberRow(action, "pending", r).status # "absent"
        /\ MemberRow(action, "pending", r).role # NoRole
    BY MemberAssumption DEF MemberRow, MemberRows, JobStatus
  <2>2. Table(members')
    BY <1>1, <1>6, <2>1 DEF SetMember, Table
  <2> QED
    BY <1>1, <1>6, <2>2 DEF SetMember
<1>7. ASSUME NEW m \in Members, DeleteMember(m)
      PROVE  Kept
  <2>1. members[m].role \in Roles
    BY <1>1, <1>7 DEF DeleteMember, Table, MemberRows
  <2> HIDE DEF Kept
  <2> QED
    BY <1>6, <1>7, <2>1 DEF DeleteMember
<1>8. ASSUME NEW j, NEW t, RequestSync(j, t)
      PROVE  Kept
  <2>1. \A m \in Members :
           MemberRow(members[m].action, "pending", members[m].role) \in MemberRows
    BY <1>1 DEF Table, MemberRow, MemberRows, JobStatus
  <2>2. \A m \in Members :
           /\ members'[m] \in MemberRows
           /\ members'[m].status = "absent" <=> members'[m].role = NoRole
    BY <1>1, <1>8, <2>1 DEF RequestSync, Table, MemberRow
  <2>3. members' \in [Members -> MemberRows]
    BY <1>8, <2>2 DEF RequestSync
  <2> QED
    BY <1>1, <1>8, <2>2, <2>3 DEF RequestSync, Table
<1>9. ASSUME NEW w \in Workers, WorkerStep(w)
      PROVE  Kept
  <2>1. CASE ClaimMembers(w)
    <3> DEFINE ids == {m \in Present : members[m].status # "success"}
    <3>1. ids \subseteq Members /\ ids \subseteq Present
      BY <1>5
    <3>2. Table(Claimed(ids))
      BY <3>1, MemberTransitions
    <3>3. pass' \in [Workers -> PassType]
      BY <1>2, <1>3, <2>1, <3>1 DEF ClaimMembers
    <3> QED
      BY <1>1, <2>1, <3>2, <3>3 DEF ClaimMembers
  <2>2. CASE ReadMembers(w)
    BY <1>1, <1>2, <1>3, <2>2 DEF ReadMembers
  <2>3. CASE WritePolicy(w)
    <3>1. pass' \in [Workers -> PassType]
      BY <1>1, <1>2, <1>3, <2>3 DEF WritePolicy
    <3> QED
      BY <1>1, <2>3, <3>1 DEF WritePolicy
  <2>4. CASE ClaimCleanup(w)
    <3> DEFINE ids == WithStatus({"running", "error"})
    <3>1. ids \subseteq Members /\ ids \subseteq Present
      BY <1>5 DEF WithStatus
    <3>2. Table(Claimed(ids))
      BY <3>1, MemberTransitions
    <3>3. pass' \in [Workers -> PassType]
      BY <1>2, <1>3, <2>4, <3>1 DEF ClaimCleanup, CleanupOf
    <3> QED
      BY <1>1, <2>4, <3>2, <3>3 DEF ClaimCleanup, CleanupOf
  <2>5. CASE ListUsers(w)
    <3>1. pass' \in [Workers -> PassType]
      BY <1>1, <1>2, <1>3, <2>5 DEF ListUsers
    <3> QED
      BY <1>1, <2>5, <3>1 DEF ListUsers
  <2>6. ASSUME NEW m \in Members, DeleteUser(w, m)
        PROVE  Kept
    <3>1. pass' \in [Workers -> PassType]
      BY <1>1, <1>2, <1>3, <2>6 DEF DeleteUser
    <3> QED
      BY <1>1, <2>6, <3>1 DEF DeleteUser
  <2>7. CASE StopStep(w)
    <3>1. pass' \in [Workers -> PassType]
      BY <1>2, <1>3, <2>7 DEF StopStep
    <3> QED
      BY <1>1, <1>2, <2>7, <3>1 DEF StopStep
  <2> HIDE DEF Kept
  <2> QED
    BY <1>9, <2>1, <2>2, <2>3, <2>4, <2>5, <2>6, <2>7 DEF WorkerStep
<1>10. ASSUME NEW w \in Workers, Goto(w, NoPass), MayHaveWritten(w),
              UNCHANGED users,
              \/ members' = members
              \/ members' = Finalized(pass[w].ids)
              \/ members' = Marked(pass[w].ids, "pending")
              \/ members' = Marked(pass[w].ids, "error")
       PROVE  Kept
  <2>1. /\ pass[w].ids \in SUBSET Members
        /\ {"pending", "error"} \subseteq JobStatus
    BY <1>1 DEF JobStatus
  <2>2. Table(members')
    BY <1>1, <1>10, <2>1, MemberTransitions
  <2>3. policy' \in [Members -> Roles \cup {NoRole}]
    BY <1>1, <1>10 DEF MayHaveWritten
  <2> QED
    BY <1>1, <1>4, <1>10, <2>2, <2>3
<1>11. ASSUME NEW m \in Members, SignIn(m)
       PROVE  Kept
  BY <1>1, <1>11 DEF SignIn
<1>12. UNCHANGED <<members, policy, users, pass>> => Kept
  BY <1>1
<1>13. ASSUME NEW w \in Workers,
              \/ \E msg \in queue : MClaim(w, msg)
              \/ \E next \in Steps : MAdvance(w, next)
              \/ MComplete(w)
              \/ \E k \in NewIds, t \in Successors : MContinue(w, k, t)
              \/ MDefer(w) \/ MFail(w) \/ MStop(w)
       PROVE  Kept
  <2> HIDE DEF Kept
  <2> QED
    BY <1>10, <1>13
       DEF MClaim, MAdvance, MComplete, MContinue, MDefer, MFail, MStop,
           MayHaveWritten
<1> HIDE DEF Kept
<1>14. ASSUME NEW m \in Members, NEW r \in Roles,
              CreateMember(m, r) \/ UpdateRole(m, r)
       PROVE  Kept
  BY <1>6, <1>14 DEF CreateMember, UpdateRole
<1> QED
  BY <1>7, <1>8, <1>9, <1>11, <1>12, <1>13, <1>14
     DEF MNext, RequestPower, Engine, mvars

\* The member rows, the policy and the passes always have their types.
THEOREM MemberTypeCorrect == MSpec => []MTypeOK
<1>1. MInit => MTypeOK
  <2> SUFFICES ASSUME MInit
               PROVE  MTypeOK
    OBVIOUS
  <2>1. \A m \in Members :
           /\ members[m] \in MemberRows
           /\ members[m].status = "absent" <=> members[m].role = NoRole
    BY MemberAssumption
       DEF MInit, MemberRows, MemberRow, AbsentMember, JobStatus
  <2>2. members \in [Members -> MemberRows]
    BY <2>1 DEF MInit
  <2>3. NoPass \in PassType
    BY DEF NoPass, Pass, PassType, NoGrants
  <2>4. pass \in [Workers -> PassType]
    BY <2>3 DEF MInit
  <2> QED
    BY <2>1, <2>2, <2>4 DEF MInit, MTypeOK, MemberRows, PassType
<1>2. TypeOK /\ MTypeOK /\ [MNext]_mvars => MTypeOK'
  BY MemberTypeStep
<1>3. Fence => TypeOK
  BY DEF Fence
<1> QED
  BY <1>1, <1>2, <1>3, MemberFenced, PTL DEF MSpec

\* The row never leaves the step graph.
LEMMA RowInGraphCorrect == MSpec => []RowInGraph
<1>1. MInit => RowInGraph
  BY MemberInitFenced
<1>2. Fence /\ Fence' /\ MTypeOK /\ RowInGraph /\ [MNext]_mvars => RowInGraph'
  BY RowInGraphStep
<1> QED
  BY <1>1, <1>2, MemberFenced, MemberTypeCorrect, PTL DEF MSpec

-----------------------------------------------------------------------------
\* What the member table says of one member after each transition.
LEMMA OneMember ==
    ASSUME MTypeOK, NEW m \in Members
    PROVE  /\ Grants[m] = IF members[m].status # "absent"
                             /\ members[m].action # "deleting"
                          THEN members[m].role ELSE NoRole
           /\ \A ids : m \in ids =>
                 /\ Claimed(ids)[m].action = members[m].action
                 /\ Claimed(ids)[m].role = members[m].role
                 /\ Claimed(ids)[m].status = "running"
           /\ \A ids : m \notin ids => Claimed(ids)[m] = members[m]
           /\ \A ids, s :
                 /\ Marked(ids, s)[m].action = members[m].action
                 /\ Marked(ids, s)[m].role = members[m].role
                 /\ Marked(ids, s)[m].status =
                       IF m \in ids /\ members[m].status = "running"
                       THEN s ELSE members[m].status
           /\ \A ids : ~(m \in ids /\ members[m].status = "running") =>
                 Finalized(ids)[m] = members[m]
           /\ \A ids : m \in ids /\ members[m].status = "running" =>
                 /\ members[m].action = "deleting" =>
                       Finalized(ids)[m].status = "absent"
                 /\ members[m].action # "deleting" =>
                       /\ Finalized(ids)[m].action = members[m].action
                       /\ Finalized(ids)[m].role = members[m].role
                       /\ Finalized(ids)[m].status = "success"
BY DEF Grants, Present, Claimed, Marked, Finalized, MemberRow, AbsentMember

\* The permissions after a step, member by member.
LEMMA NextGrants ==
    ASSUME NEW m \in Members
    PROVE  Grants'[m] = IF members'[m].status # "absent"
                           /\ members'[m].action # "deleting"
                        THEN members'[m].role ELSE NoRole
BY DEF Grants, Present

\* One worker's step of a pass, made under its claim.
LEMMA WorkerInvStep ==
    ASSUME Fence, Fence', MTypeOK, RowInGraph, MemberInv, ~StaleWorkersAct,
           NEW w \in Workers, WorkerStep(w)
    PROVE  MemberInv'
<1> USE DEF UpdateStep, CleanupStep, StartStep, StopSteps
<1>1. /\ Current(w)
      /\ UNCHANGED vars \/ Heartbeat(w)
  BY DEF Current, WorkerStep, ClaimMembers, ReadMembers, WritePolicy,
         ClaimCleanup, CleanupOf, ListUsers, StopStep, DeleteUser, Standing
<1>2. /\ row.status = "running" /\ row.step = claims[w].step
      /\ WrittenBy(w) /\ CleanedBy(w)
  BY <1>1, CurrentOwnsRow DEF CurrentOwns, MemberInv, PassesHold
<1>3. /\ row' = row
      /\ \A v \in Workers : Current(v)' => v = w /\ claims'[v] = claims[v]
  BY <1>1, EffectOfWorker
<1>4. MembersAreReconciled'
  BY <1>2, <1>3 DEF MembersAreReconciled
<1>5. ASSUME DeletionsEndAbsent', PolicyWritten', DeletedMembersAreGone',
             claims'[w] = claims[w] => WrittenBy(w)' /\ CleanedBy(w)'
      PROVE  MemberInv'
  BY <1>3, <1>4, <1>5 DEF MemberInv, PassesHold
<1>6. ASSUME NEW p, Goto(w, p)
      PROVE  pass'[w] = p
  BY <1>6 DEF Goto, MTypeOK
<1>7. CASE ClaimMembers(w)
  <2> DEFINE ids == {m \in Present : members[m].status # "success"}
  <2>1. /\ claims[w].step = UpdateStep
        /\ members' = Claimed(ids)
        /\ pass'[w] = Pass("claimed", ids, Grants, {})
        /\ policy' = policy /\ users' = users
    BY <1>6, <1>7 DEF ClaimMembers, Standing
  <2>2. \A m \in Members :
           /\ members'[m].action = members[m].action
           /\ members'[m].role = members[m].role
           /\ members'[m].status = members[m].status \/ m \in ids
           /\ m \in ids => members'[m].status = "running"
    BY <2>1, OneMember
  <2>3. \A m \in Members : m \in ids => members[m].status # "absent"
    BY DEF Present
  <2>4. \A m \in Members :
           (members'[m].status = "absent") = (members[m].status = "absent")
    BY <2>2, <2>3
  <2> HIDE DEF ids
  <2>5. \A m \in Members : Grants'[m] = Grants[m]
    BY <2>2, <2>4, OneMember, NextGrants
  <2>6. DeletionsEndAbsent'
    BY <2>2 DEF MemberInv, DeletionsEndAbsent
  <2>7. PolicyWritten'
    BY <1>2, <1>3, <2>1 DEF PolicyWritten
  <2>8. DeletedMembersAreGone'
    BY <2>1, <2>4 DEF MemberInv, DeletedMembersAreGone, Present
  <2>9. pass'[w].at = "claimed" /\ pass'[w].grants = Grants
    BY <2>1 DEF Pass
  <2>10. claims'[w] = claims[w] => WrittenBy(w)' /\ CleanedBy(w)'
    BY <2>1, <2>5, <2>9 DEF WrittenBy, CleanedBy, Agrees
  <2> QED
    BY <1>5, <2>6, <2>7, <2>8, <2>10
<1>8. CASE ReadMembers(w)
  <2>1. /\ claims[w].step = StartStep
        /\ pass'[w] = Pass("claimed", {}, Grants, {})
        /\ members' = members /\ policy' = policy /\ users' = users
    BY <1>6, <1>8 DEF ReadMembers, Standing
  <2>2. \A m \in Members : Grants'[m] = Grants[m]
    BY <2>1, OneMember, NextGrants
  <2>3. pass'[w].at = "claimed" /\ pass'[w].grants = Grants
    BY <2>1 DEF Pass
  <2>4. claims'[w] = claims[w] => WrittenBy(w)' /\ CleanedBy(w)'
    BY <2>1, <2>2, <2>3 DEF WrittenBy, CleanedBy, Agrees
  <2> QED
    BY <1>2, <1>3, <1>5, <2>1, <2>4
       DEF MemberInv, DeletionsEndAbsent, PolicyWritten, DeletedMembersAreGone,
           Present
<1>9. CASE WritePolicy(w)
  <2>1. /\ claims[w].step \in {UpdateStep, StartStep}
        /\ pass[w].at = "claimed"
        /\ policy' = pass[w].grants
        /\ pass'[w] = Pass("done", pass[w].ids, NoGrants, {})
        /\ members' = members /\ users' = users
    BY <1>6, <1>9 DEF WritePolicy, Standing
  <2>2. \A m \in Members : members[m].status # "pending" =>
           policy'[m] = Grants[m]
    BY <1>2, <2>1 DEF WrittenBy, Agrees
  <2>3. \A m \in Members : Grants'[m] = Grants[m]
    BY <2>1, OneMember, NextGrants
  <2>4. pass'[w].at = "done"
    BY <2>1 DEF Pass
  <2>5. DeletedMembersAreGone'
    BY <2>1, <2>2, OneMember DEF MemberInv, DeletedMembersAreGone, Present
  <2>6. claims'[w] = claims[w] => WrittenBy(w)' /\ CleanedBy(w)'
    BY <2>1, <2>2, <2>3, <2>4 DEF WrittenBy, CleanedBy, Agrees
  <2> QED
    BY <1>2, <1>3, <1>5, <2>1, <2>5, <2>6
       DEF MemberInv, DeletionsEndAbsent, PolicyWritten
<1>10. CASE ClaimCleanup(w)
  <2> DEFINE ids == WithStatus({"running", "error"})
  <2>1. /\ claims[w].step = CleanupStep
        /\ members' = Claimed(ids)
        /\ pass'[w] = Pass("claimed", ids, NoGrants, Members \ Expected(ids))
        /\ policy' = policy /\ users' = users
    BY <1>6, <1>10 DEF ClaimCleanup, CleanupOf, Standing
  <2>2. \A m \in Members :
           /\ members'[m].action = members[m].action
           /\ members'[m].role = members[m].role
           /\ m \notin ids => members'[m].status = members[m].status
           /\ m \in ids => members'[m].status = "running"
    BY <2>1, OneMember
  <2>3. \A m \in Members :
           m \in ids <=> members[m].status \in {"running", "error"}
    BY DEF Present, WithStatus
  <2>4. \A m \in Members : m \in ids /\ members[m].action = "deleting" =>
           m \in Members \ Expected(ids)
    BY DEF Expected
  <2> HIDE DEF ids
  <2>5. \A m \in Members : Grants'[m] = Grants[m]
    BY <2>2, <2>3, OneMember, NextGrants
  <2>6. DeletionsEndAbsent'
    BY <2>2 DEF MemberInv, DeletionsEndAbsent
  <2>7. PolicyWritten'
    BY <1>2, <2>1, <2>2, <2>3, <2>5
       DEF MemberInv, PolicyWritten, Live, Agrees
  <2>8. DeletedMembersAreGone'
    BY <2>1, <2>2, <2>3 DEF MemberInv, DeletedMembersAreGone, Present
  <2>9. /\ pass'[w].at = "claimed" /\ pass'[w].ids = ids
        /\ pass'[w].orphans = Members \ Expected(ids)
    BY <2>1 DEF Pass
  <2>10. \A m \in Members :
            /\ members'[m].status # "error"
            /\ members'[m].status = "running" => m \in pass'[w].ids
            /\ Removes(w, m)' => m \in pass'[w].orphans
    <3> SUFFICES ASSUME NEW m \in Members
                 PROVE  /\ members'[m].status # "error"
                        /\ members'[m].status = "running" => m \in ids
                        /\ m \in ids /\ members'[m].action = "deleting" =>
                              m \in Members \ Expected(ids)
      BY <2>9 DEF Removes
    <3> QED
      BY <2>2, <2>3, <2>4
  <2>11. claims'[w] = claims[w] => WrittenBy(w)' /\ CleanedBy(w)'
    BY <2>1, <2>9, <2>10 DEF WrittenBy, CleanedBy
  <2> QED
    BY <1>5, <2>6, <2>7, <2>8, <2>11
<1>11. ASSUME claims[w].step = CleanupStep, pass[w].at \in {"claimed", "listed"},
              members' = members, policy' = policy, users' \subseteq users,
              pass'[w].ids = pass[w].ids, pass'[w].at \in {"listed", "done"},
              \A m \in Members : Removes(w, m) =>
                 /\ pass'[w].at = "listed" =>
                       m \in pass'[w].orphans \/ m \notin users'
                 /\ pass'[w].at = "done" => m \notin users'
       PROVE  MemberInv'
  <2>1. \A m \in Members : Grants'[m] = Grants[m]
    BY <1>11, OneMember, NextGrants
  <2>2. PolicyWritten'
    BY <1>2, <1>11, <2>1 DEF MemberInv, PolicyWritten, Live, Agrees
  <2>3. claims'[w] = claims[w] => WrittenBy(w)' /\ CleanedBy(w)'
    BY <1>2, <1>11 DEF WrittenBy, CleanedBy, Removes
  <2> QED
    BY <1>5, <1>11, <2>2, <2>3
       DEF MemberInv, DeletionsEndAbsent, DeletedMembersAreGone, Present
<1>12. CASE ListUsers(w)
  <2> DEFINE orphans == pass[w].orphans \cap users
             at == IF orphans = {} THEN "done" ELSE "listed"
  <2>1. /\ claims[w].step = CleanupStep /\ pass[w].at = "claimed"
        /\ pass'[w] = Pass(at, pass[w].ids, NoGrants, orphans)
        /\ members' = members /\ policy' = policy /\ users' = users
    BY <1>6, <1>12 DEF ListUsers, Standing
  <2>2. /\ pass'[w].at = at /\ pass'[w].ids = pass[w].ids
        /\ pass'[w].orphans = orphans
    BY <2>1 DEF Pass
  <2>3. \A m \in Members : Removes(w, m) => m \in pass[w].orphans
    BY <1>2, <2>1 DEF CleanedBy
  <2> QED
    BY <1>11, <2>1, <2>2, <2>3
<1>13. ASSUME NEW x \in Members, DeleteUser(w, x)
       PROVE  MemberInv'
  <2> DEFINE left == pass[w].orphans \ {x}
             at == IF left = {} THEN "done" ELSE "listed"
  <2>1. /\ claims[w].step = CleanupStep /\ pass[w].at = "listed"
        /\ pass'[w] = Pass(at, pass[w].ids, NoGrants, left)
        /\ members' = members /\ policy' = policy /\ users' = users \ {x}
    BY <1>6, <1>13 DEF DeleteUser, Standing
  <2>2. /\ pass'[w].at = at /\ pass'[w].ids = pass[w].ids
        /\ pass'[w].orphans = left
    BY <2>1 DEF Pass
  <2>3. \A m \in Members : Removes(w, m) => m \in pass[w].orphans \/ m \notin users
    BY <1>2, <2>1 DEF CleanedBy
  <2> QED
    BY <1>11, <2>1, <2>2, <2>3
<1>14. CASE StopStep(w)
  <2>1. /\ claims[w].step \in StopSteps
        /\ policy' = policy \/ policy' = NoGrants
        /\ members' = members /\ users' = users
    BY <1>14 DEF StopStep, Standing
  <2>2. DeletedMembersAreGone'
    BY <2>1 DEF MemberInv, DeletedMembersAreGone, Present, NoGrants
  <2> QED
    BY <1>2, <1>3, <1>5, <2>1, <2>2
       DEF MemberInv, DeletionsEndAbsent, PolicyWritten, WrittenBy, CleanedBy
<1> QED
  BY <1>7, <1>8, <1>9, <1>10, <1>12, <1>13, <1>14 DEF WorkerStep

\* A finalized pass leaves no change behind that it did not carry through.
LEMMA FinalizedPass ==
    ASSUME MTypeOK, MemberInv, NEW w \in Workers, WrittenBy(w), CleanedBy(w),
           claims[w].step = CleanupStep, pass[w].at = "done", Agrees(policy),
           members' = Finalized(pass[w].ids), policy' = policy, users' = users
    PROVE  /\ DeletionsEndAbsent'
           /\ DeletedMembersAreGone'
           /\ \A m \in Members :
                 \/ members'[m].status \in {"absent", "pending"}
                 \/ members'[m].status = "success" /\ members'[m].role = policy'[m]
<1> SUFFICES ASSUME NEW m \in Members
             PROVE  /\ members'[m].status = "success" =>
                          members'[m].action # "deleting"
                    /\ members'[m].status = "absent" =>
                          policy[m] = NoRole /\ m \notin users
                    /\ \/ members'[m].status \in {"absent", "pending"}
                       \/ /\ members'[m].status = "success"
                          /\ members'[m].role = policy[m]
  BY DEF DeletionsEndAbsent, DeletedMembersAreGone, Present
<1>1. /\ members[m].status # "error"
      /\ members[m].status = "running" => m \in pass[w].ids
      /\ Removes(w, m) => m \notin users
      /\ members[m].status # "pending" => policy[m] = Grants[m]
      /\ members[m].status = "success" => members[m].action # "deleting"
      /\ members[m].status = "absent" => policy[m] = NoRole /\ m \notin users
      /\ members[m].status \in JobStatus \cup {"absent"}
  BY DEF CleanedBy, Agrees, MemberInv, DeletionsEndAbsent,
         DeletedMembersAreGone, Present, MTypeOK
<1>2. CASE members[m].status = "running"
  <2>1. CASE members[m].action = "deleting"
    BY <1>1, <1>2, <2>1, OneMember DEF Removes
  <2>2. CASE members[m].action # "deleting"
    BY <1>1, <1>2, <2>2, OneMember
  <2> QED
    BY <2>1, <2>2
<1>3. CASE members[m].status # "running"
  <2>1. members'[m] = members[m]
    BY <1>3, OneMember
  <2> QED
    BY <1>1, <1>3, <2>1, OneMember DEF JobStatus
<1> QED
  BY <1>2, <1>3

\* Every step of the members keeps the invariant while claims are checked.
LEMMA MemberInvStep ==
    ASSUME Fence, Fence', MTypeOK, RowInGraph, MemberInv, ~StaleWorkersAct,
           [MNext]_mvars
    PROVE  MemberInv'
<1> USE DEF UpdateStep, CleanupStep, StartStep, StopSteps
<1>1. NewIds \subseteq Jobs
  BY DEF NewIds, Draw
<1>2. CurrentOwns
  BY CurrentOwnsRow
<1>3. ASSUME row'.status # "running"
      PROVE  PassesHold'
  BY <1>3, NobodyHolds DEF PassesHold
<1>4. ASSUME NEW x \in Members,
             NEW action \in {"creating", "updating", "deleting"}, NEW r,
             members[x].status \in {"absent", "success"},
             SetMember(x, MemberRow(action, "pending", r))
      PROVE  MemberInv'
  <2>1. /\ members'[x].status = "pending"
        /\ \A m \in Members : m # x => members'[m] = members[m]
        /\ policy' = policy /\ users' = users /\ pass' = pass
        /\ RequestUpdate
    BY <1>4 DEF SetMember, MTypeOK, MemberRow
  <2>2. /\ row'.step = UpdateStep
        /\ row'.status \in {"pending", "running"}
        /\ UNCHANGED vars \/ row'.status = "pending"
    BY <2>1, EffectOfUpdate
  <2>3. DeletionsEndAbsent' /\ DeletedMembersAreGone'
    BY <2>1 DEF MemberInv, DeletionsEndAbsent, DeletedMembersAreGone, Present
  <2>4. PolicyWritten' /\ MembersAreReconciled'
    BY <2>2 DEF PolicyWritten, MembersAreReconciled
  <2>5. ASSUME UNCHANGED vars
        PROVE  PassesHold'
    <3> SUFFICES ASSUME NEW v \in Workers, Current(v)'
                 PROVE  WrittenBy(v)' /\ CleanedBy(v)'
      BY DEF PassesHold
    <3>1. Current(v) /\ claims' = claims /\ row' = row
      BY <2>5 DEF vars, row, Current, Owns, ResourceOf
    <3>2. claims[v].step = UpdateStep
      BY <1>2, <2>2, <3>1 DEF CurrentOwns
    <3>3. WrittenBy(v)
      BY <3>1 DEF MemberInv, PassesHold
    <3>4. \A m \in Members : members'[m].status # "pending" =>
             members[m].status # "pending" /\ Grants'[m] = Grants[m]
      BY <2>1, OneMember, NextGrants
    <3>5. WrittenBy(v)'
      BY <2>1, <3>1, <3>3, <3>4 DEF WrittenBy, Agrees
    <3> QED
      BY <3>1, <3>2, <3>5 DEF CleanedBy
  <2> QED
    BY <1>3, <2>2, <2>3, <2>4, <2>5 DEF MemberInv
<1>5. ASSUME NEW j \in NewIds, NEW t \in Transitions,
             RequestSync(j, t) \/ RequestPower(j, t)
      PROVE  MemberInv'
  <2>1. /\ row'.status = "pending"
        /\ row'.step # CleanupStep
    BY <1>1, <1>5, EffectOfRequest, MemberRequests
       DEF RequestSync, RequestPower
  <2>2. /\ policy' = policy /\ users' = users
        /\ \A m \in Members :
              \/ members'[m] = members[m]
              \/ /\ members[m].status = "error"
                 /\ members'[m].status = "pending"
    BY <1>5 DEF RequestSync, RequestPower, MemberRow
  <2>3. DeletionsEndAbsent' /\ DeletedMembersAreGone'
    BY <2>2 DEF MemberInv, DeletionsEndAbsent, DeletedMembersAreGone, Present
  <2> QED
    BY <1>3, <2>1, <2>3 DEF MemberInv, PolicyWritten, MembersAreReconciled
<1>6. ASSUME UNCHANGED <<members, policy, users>>, PassesHold',
             row'.status = "success" => row' = row,
             row'.status # "success" /\ row'.step = CleanupStep => Agrees(policy)
      PROVE  MemberInv'
  <2>1. \A m \in Members : Grants'[m] = Grants[m]
    BY <1>6, OneMember, NextGrants
  <2>2. PolicyWritten'
    BY <1>6, <2>1 DEF PolicyWritten, Live, Agrees
  <2> QED
    BY <1>6, <2>2
       DEF MemberInv, DeletionsEndAbsent, DeletedMembersAreGone, Present,
           MembersAreReconciled
<1>7. ASSUME NEW w \in Workers, NEW msg \in queue, MClaim(w, msg)
      PROVE  MemberInv'
  <2>1. /\ row.status \in {"pending", "error"}
        /\ row'.step = row.step
        /\ row'.status = "running"
        /\ \A v \in Workers : Current(v)' => v = w
        /\ UNCHANGED <<members, policy, users>>
        /\ pass'[w].at = "begin"
    BY <1>7, EffectOfClaim DEF MClaim, Goto, NoPass, Pass, MTypeOK
  <2>2. PassesHold'
    BY <2>1 DEF PassesHold, WrittenBy, CleanedBy
  <2>3. row.step = CleanupStep => Agrees(policy)
    BY <2>1 DEF MemberInv, PolicyWritten, Live
  <2> QED
    BY <1>6, <2>1, <2>2, <2>3
<1>8. ASSUME NEW w \in Workers, NEW next \in Steps, MAdvance(w, next)
      PROVE  MemberInv'
  <2>1. /\ Current(w)
        /\ <<row.step, next>> \in InstanceNextSteps
        /\ row'.step = next
        /\ row'.status = "pending"
        /\ UNCHANGED <<members, policy, users>>
        /\ pass[w].at = "done"
    BY <1>8, EffectOfFinish DEF MAdvance
  <2>2. row.step = claims[w].step /\ WrittenBy(w)
    BY <1>2, <2>1 DEF CurrentOwns, MemberInv, PassesHold
  <2>3. next = CleanupStep => row.step \in {UpdateStep, StartStep}
    BY <2>1 DEF InstanceNextSteps
  <2>4. next = CleanupStep => Agrees(policy)
    BY <2>1, <2>2, <2>3 DEF WrittenBy
  <2> QED
    BY <1>3, <1>6, <2>1, <2>4
<1>9. ASSUME NEW w \in Workers, Current(w), pass[w].at = "done",
             claims[w].step = CleanupStep, members' = Finalized(pass[w].ids),
             policy' = policy, users' = users
      PROVE  /\ DeletionsEndAbsent'
             /\ DeletedMembersAreGone'
             /\ \A m \in Members :
                   \/ members'[m].status \in {"absent", "pending"}
                   \/ /\ members'[m].status = "success"
                      /\ members'[m].role = policy'[m]
  <2>1. row.status = "running" /\ row.step = CleanupStep
    BY <1>2, <1>9 DEF CurrentOwns
  <2>2. Agrees(policy) /\ WrittenBy(w) /\ CleanedBy(w)
    BY <1>9, <2>1 DEF MemberInv, PolicyWritten, Live, PassesHold
  <2> QED
    BY <1>9, <2>2, FinalizedPass
<1>10. ASSUME NEW w \in Workers, MComplete(w)
       PROVE  MemberInv'
  <2>1. /\ Current(w)
        /\ row.step \in InstanceFinalSteps
        /\ row.step \notin InstanceDeletingSteps =>
              /\ row'.action = row.action
              /\ row'.status = "success"
        /\ policy' = policy /\ users' = users /\ pass[w].at = "done"
    BY <1>10, EffectOfFinish DEF MComplete
  <2>2. row.status = "running" /\ row.step = claims[w].step
    BY <1>2, <2>1 DEF CurrentOwns
  <2>3. /\ row'.action = row.action /\ row'.status = "success"
        /\ \/ row.step = CleanupStep
           \/ row.step = "step_02_stop_instance" /\ row.action = "stopping"
    BY <2>1, <2>2
       DEF RowInGraph, Live, InstanceFinalSteps, InstanceDeletingSteps
  <2>4. PassesHold' /\ PolicyWritten'
    BY <1>3, <2>3 DEF PolicyWritten, Live
  <2>5. CASE row.step = CleanupStep
    <3>1. members' = Finalized(pass[w].ids) /\ ~Queued(members')
      BY <1>10, <2>2, <2>5 DEF MComplete
    <3>2. /\ DeletionsEndAbsent'
          /\ DeletedMembersAreGone'
          /\ \A m \in Members :
                \/ members'[m].status \in {"absent", "pending"}
                \/ /\ members'[m].status = "success"
                   /\ members'[m].role = policy'[m]
      BY <1>9, <2>1, <2>2, <2>5, <3>1
    <3>3. MembersAreReconciled'
      BY <3>1, <3>2 DEF MembersAreReconciled, Queued, Present
    <3> QED
      BY <2>4, <3>2, <3>3 DEF MemberInv
  <2>6. CASE row.step = "step_02_stop_instance" /\ row.action = "stopping"
    <3>1. members' = members
      BY <1>10, <2>2, <2>6 DEF MComplete
    <3> QED
      BY <2>1, <2>3, <2>4, <2>6, <3>1
         DEF MemberInv, DeletionsEndAbsent, DeletedMembersAreGone, Present,
             MembersAreReconciled
  <2> QED
    BY <2>3, <2>5, <2>6
<1>11. ASSUME NEW w \in Workers, NEW k \in Jobs, NEW t \in Successors,
              MContinue(w, k, t)
       PROVE  MemberInv'
  <2>1. /\ Current(w)
        /\ row.step = CleanupStep
        /\ row'.step = UpdateStep
        /\ row'.status = "pending"
        /\ members' = Finalized(pass[w].ids)
        /\ policy' = policy /\ users' = users /\ pass[w].at = "done"
    BY <1>11, EffectOfFinish DEF MContinue
  <2>2. row.step = claims[w].step
    BY <1>2, <2>1 DEF CurrentOwns
  <2>3. DeletionsEndAbsent' /\ DeletedMembersAreGone'
    BY <1>9, <2>1, <2>2
  <2> QED
    BY <1>3, <2>1, <2>3 DEF MemberInv, PolicyWritten, MembersAreReconciled
<1>12. ASSUME NEW w \in Workers, MDefer(w) \/ MFail(w)
       PROVE  MemberInv'
  <2>1. /\ Current(w)
        /\ row'.step = row.step
        /\ row'.status \in {"pending", "error"}
        /\ MayHaveWritten(w) /\ users' = users
    BY <1>12, EffectOfFinish DEF MDefer, MFail
  <2>2. row.status = "running" /\ row.step = claims[w].step
    BY <1>2, <2>1 DEF CurrentOwns
  <2>3. \/ members' = members
        \/ /\ members' = Marked(pass[w].ids, "pending")
           /\ row.step # CleanupStep
        \/ members' = Marked(pass[w].ids, "error")
    BY <1>12, <2>2 DEF MDefer, MFail, Standing
  <2>4. \A m \in Members :
           /\ members'[m].action = members[m].action
           /\ members'[m].role = members[m].role
           /\ \/ members'[m].status = members[m].status
              \/ /\ members[m].status = "running"
                 /\ members'[m].status \in {"pending", "error"}
    BY <2>3, OneMember
  <2>5. DeletionsEndAbsent'
    BY <2>4 DEF MemberInv, DeletionsEndAbsent
  <2>10. \/ policy' = policy
         \/ row.step # CleanupStep /\ Agrees(policy')
    BY <2>1, <2>2 DEF MayHaveWritten, MemberInv, PassesHold, WrittenBy
  <2>11. DeletedMembersAreGone'
    <3> SUFFICES ASSUME NEW m \in Members, members[m].status = "absent"
                 PROVE  policy'[m] = NoRole /\ m \notin users'
      BY <2>4 DEF DeletedMembersAreGone, Present
    <3>1. policy[m] = NoRole /\ m \notin users
      BY DEF MemberInv, DeletedMembersAreGone, Present
    <3>2. Agrees(policy') => policy'[m] = NoRole
      BY OneMember DEF Agrees
    <3> QED
      BY <2>1, <2>10, <3>1, <3>2
  <2>6. \A m \in Members : Grants'[m] = Grants[m]
    BY <2>4, OneMember, NextGrants
  <2>7. \A m \in Members : members'[m].status # "pending" =>
           members[m].status # "pending"
    BY <2>4
  <2>8. PolicyWritten'
    BY <2>1, <2>2, <2>6, <2>7, <2>10 DEF MemberInv, PolicyWritten, Live, Agrees
  <2>9. PassesHold' /\ MembersAreReconciled'
    BY <1>3, <2>1 DEF MembersAreReconciled
  <2> QED
    BY <2>5, <2>8, <2>9, <2>11 DEF MemberInv
<1>13. ASSUME UNCHANGED <<members, policy, users>>,
              \A v \in Workers : Current(v)' =>
                 Current(v) /\ claims'[v] = claims[v] /\ pass'[v] = pass[v],
              \/ row' = row
              \/ /\ row.status = "running"
                 /\ row'.step = row.step
                 /\ row'.status = "pending"
       PROVE  MemberInv'
  <2>1. \A m \in Members : Grants'[m] = Grants[m]
    BY <1>13, OneMember, NextGrants
  <2>2. PassesHold'
    <3> SUFFICES ASSUME NEW v \in Workers, Current(v)'
                 PROVE  WrittenBy(v)' /\ CleanedBy(v)'
      BY DEF PassesHold
    <3>1. /\ claims'[v] = claims[v] /\ pass'[v] = pass[v]
          /\ WrittenBy(v) /\ CleanedBy(v)
      BY <1>13 DEF MemberInv, PassesHold
    <3> QED
      BY <1>13, <2>1, <3>1 DEF WrittenBy, CleanedBy, Removes, Agrees
  <2>3. row'.status # "success" /\ row'.step = CleanupStep => Agrees(policy)
    <3>1. row \in ResourceRow /\ row.status # "absent"
      BY MemberAssumption DEF Fence, TypeOK, row, RowInGraph
    <3>2. row.status \in {"pending", "running", "error", "success"}
      BY <3>1 DEF ResourceRow, JobStatus
    <3> QED
      BY <1>13, <3>2 DEF MemberInv, PolicyWritten, Live
  <2> QED
    BY <1>6, <1>13, <2>2, <2>3
<1>14. ASSUME EngineStep
       PROVE  MemberInv'
  BY <1>13, <1>14, EffectOfEngine
<1>15. ASSUME UNCHANGED <<vars, members, policy, users, pass>>
       PROVE  MemberInv'
  BY <1>13, <1>15 DEF vars, row, Current, Owns, ResourceOf
<1>16. ASSUME NEW x \in Members, SignIn(x)
       PROVE  MemberInv'
  <2>1. /\ policy[x] # NoRole
        /\ users' = users \cup {x}
        /\ UNCHANGED <<vars, members, policy, pass>>
    BY <1>16 DEF SignIn
  <2>2. claims' = claims /\ row' = row
    BY <2>1 DEF vars, row
  <2>3. \A m \in Members : Grants'[m] = Grants[m]
    BY <2>1, OneMember, NextGrants
  <2>4. DeletionsEndAbsent' /\ PolicyWritten' /\ MembersAreReconciled'
    BY <2>1, <2>2, <2>3
       DEF MemberInv, DeletionsEndAbsent, PolicyWritten, MembersAreReconciled,
           Live, Agrees, Present
  <2>5. DeletedMembersAreGone'
    BY <2>1 DEF MemberInv, DeletedMembersAreGone, Present
  <2>6. ASSUME NEW v \in Workers, Current(v)'
        PROVE  WrittenBy(v)' /\ CleanedBy(v)'
    <3>1. Current(v)
      BY <2>1, <2>6 DEF vars, Current, Owns, ResourceOf
    <3>2. /\ row.status = "running" /\ row.step = claims[v].step
          /\ WrittenBy(v) /\ CleanedBy(v)
      BY <1>2, <3>1 DEF CurrentOwns, MemberInv, PassesHold
    <3>3. WrittenBy(v)'
      BY <2>1, <2>2, <2>3, <3>2 DEF WrittenBy, Agrees
    <3>4. claims[v].step = CleanupStep => ~Removes(v, x)
      <4> SUFFICES ASSUME claims[v].step = CleanupStep, Removes(v, x)
                   PROVE  FALSE
        OBVIOUS
      <4>1. policy[x] = Grants[x]
        BY <3>2 DEF Removes, MemberInv, PolicyWritten, Live, Agrees
      <4> QED
        BY <2>1, <4>1, OneMember DEF Removes
    <3>5. CleanedBy(v)'
      BY <2>1, <2>2, <3>2, <3>4 DEF CleanedBy, Removes
    <3> QED
      BY <3>3, <3>5
  <2> QED
    BY <2>4, <2>5, <2>6 DEF MemberInv, PassesHold
<1>17. ASSUME NEW m \in Members, NEW r \in Roles,
              CreateMember(m, r) \/ UpdateRole(m, r)
       PROVE  MemberInv'
  BY <1>4, <1>17 DEF CreateMember, UpdateRole
<1>18. ASSUME NEW m \in Members, DeleteMember(m)
       PROVE  MemberInv'
  BY <1>4, <1>18 DEF DeleteMember
<1> QED
  BY <1>1, <1>5, <1>7, <1>8, <1>10, <1>11, <1>12, <1>14, <1>15, <1>16, <1>17,
     <1>18, WorkerInvStep DEF MNext, EngineStep, mvars

\* The invariant of member reconciliation.
LEMMA MemberInvCorrect ==
    ASSUME ~StaleWorkersAct PROVE MSpec => []MemberInv
<1>1. MInit => MemberInv
  <2> SUFFICES ASSUME MInit
               PROVE  MemberInv
    OBVIOUS
  <2>1. row.status = "success"
    BY MemberInitFenced
  <2>2. \A w \in Workers : ~Current(w)
    BY DEF MInit, Current
  <2>3. \A m \in Members :
           /\ policy[m] = NoRole => members[m].status = "absent"
           /\ policy[m] # NoRole => /\ members[m].status = "success"
                                    /\ members[m].action = "creating"
                                    /\ members[m].role = policy[m]
    BY DEF MInit, AbsentMember, MemberRow
  <2>4. users = {}
    BY DEF MInit
  <2> QED
    BY <2>1, <2>2, <2>3, <2>4
       DEF MemberInv, DeletionsEndAbsent, PolicyWritten, Live, PassesHold,
           DeletedMembersAreGone, MembersAreReconciled, Present
<1>2. Fence /\ Fence' /\ MTypeOK /\ RowInGraph /\ MemberInv /\ [MNext]_mvars
         => MemberInv'
  BY MemberInvStep
<1> QED
  BY <1>1, <1>2, MemberFenced, MemberTypeCorrect, RowInGraphCorrect, PTL
     DEF MSpec

\* A successful update or start has reconciled every member, whatever was
\* queued, deferred, failed or reclaimed while it ran.
THEOREM MembersReconciledCorrect ==
    ASSUME ~StaleWorkersAct PROVE MSpec => []MembersAreReconciled
<1>1. MemberInv => MembersAreReconciled
  BY DEF MemberInv
<1> QED
  BY <1>1, MemberInvCorrect, PTL

\* _finalize_update removes a member row only after its access and its Coder
\* account, and no later pass, sign-in or retry brings either back.
THEOREM DeletedMembersCorrect ==
    ASSUME ~StaleWorkersAct PROVE MSpec => []DeletedMembersAreGone
<1>1. MemberInv => DeletedMembersAreGone
  BY DEF MemberInv
<1> QED
  BY <1>1, MemberInvCorrect, PTL
=============================================================================
