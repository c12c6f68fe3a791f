------------------------- MODULE JobExecutionProofs -------------------------
(***************************************************************************)
(* Safety of the durable job engine for every set of jobs, resources,      *)
(* workers, scanners and every step graph that satisfies the assumptions   *)
(* of JobExecution.                                                        *)
(***************************************************************************)
EXTENDS JobExecution, TLAPS

USE DisturbancesAssumption, NullAssumption, WorkflowAssumption

-----------------------------------------------------------------------------
\* What RESOURCE_ACTIONS maps a job name to is an action, and its keys are names.
LEMMA ActionsOfNames ==
    /\ \A name \in DOMAIN RESOURCE_ACTIONS : RESOURCE_ACTIONS[name] \in Actions
    /\ DOMAIN RESOURCE_ACTIONS \subseteq JobNames
BY DEF RESOURCE_ACTIONS, Actions, JobNames

\* The resource row a job reads is a row of the table.
LEMMA ResourceOfType ==
    ASSUME TypeOK, NEW j \in Jobs
    PROVE  ResourceOf(jobs[j]) \in ResourceRow
BY DEF TypeOK, ResourceOf, ResourceRow, AbsentResource, Actions

\* Every transition of execution.py maps a stored job row to a stored job row.
LEMMA RowTypes ==
    ASSUME NEW job \in JobRow, NEW step \in Steps
    PROVE  /\ ClaimedJob(job) \in JobRow
           /\ AdvancedJob(job, step) \in JobRow
           /\ CompletedJob(job) \in JobRow
           /\ DeferredJob(job) \in JobRow
           /\ FailedJob(job) \in JobRow
           /\ HeartbeatJob(job) \in JobRow
           /\ ReclaimedJob(job) \in JobRow
           /\ ExpiredJob(job) \in JobRow
BY DEF JobRow, JobWith, ClaimedJob, AdvancedJob, CompletedJob, DeferredJob,
       FailedJob, HeartbeatJob, ReclaimedJob, ExpiredJob, JobStatus, ClaimAge

\* Mirroring a step and a status on a resource row yields a resource row.
LEMMA ResourceWithType ==
    ASSUME NEW res \in ResourceRow, NEW step \in Steps \cup {NoStep},
           NEW status \in JobStatus \cup {"absent"}
    PROVE  ResourceWith(res, step, status) \in ResourceRow
BY DEF ResourceRow, ResourceWith

\* A newly staged job and the resource row that points at it are rows.
LEMMA NewRowTypes ==
    ASSUME NEW name \in JobNames, NEW r \in Resources \cup {NoResource},
           NEW step \in Steps
    PROVE  /\ NewJob(name, r, step) \in JobRow
           /\ \A j \in Jobs : name \in DOMAIN RESOURCE_ACTIONS =>
                 Requested(j, name, step) \in ResourceRow
BY ActionsOfNames DEF JobRow, NewJob, JobStatus, ClaimAge, Requested,
       ResourceRow

\* Replacing one row of the resource table keeps its type.
LEMMA WithResourceType ==
    ASSUME TypeOK, NEW r, NEW row \in ResourceRow
    PROVE  WithResource(r, row) \in [Resources -> ResourceRow]
BY DEF TypeOK, WithResource

\* A dispatch adds at most one well-typed message.
LEMMA DispatchType ==
    ASSUME TypeOK, NEW j \in Jobs, NEW step \in Steps, Dispatch(j, step)
    PROVE  queue' \subseteq Jobs \X Steps /\ disturbances' \in Nat
BY DEF TypeOK, Dispatch, Disturb

-----------------------------------------------------------------------------
\* Every step of the engine leaves every row, message, claim and scan typed.
LEMMA TypeStep == TypeOK /\ [Next]_vars => TypeOK'
<1> SUFFICES ASSUME TypeOK, [Next]_vars
             PROVE  TypeOK'
  OBVIOUS
<1>1. ASSUME NEW j \in Jobs, NEW r \in Resources, NEW t \in Transitions,
             Request(j, r, t)
      PROVE  TypeOK'
  <2>1. /\ t.name \in DOMAIN RESOURCE_ACTIONS
        /\ t.name \in JobNames
        /\ t.first \in Steps
    BY <1>1, ActionsOfNames DEF Request
  <2>2. /\ NewJob(t.name, r, t.first) \in JobRow
        /\ NewJob(t.name, r, t.first).step = t.first
    BY <2>1, NewRowTypes DEF NewJob
  <2>3. Requested(j, t.name, t.first) \in ResourceRow
    BY <2>1, NewRowTypes
  <2>4. resources' \in [Resources -> ResourceRow]
    BY <1>1, <2>3, WithResourceType DEF Request
  <2>5. queue' \subseteq Jobs \X Steps /\ disturbances' \in Nat
    BY <1>1, <2>1, DispatchType DEF Request
  <2> QED
    BY <1>1, <2>1, <2>2, <2>4, <2>5 DEF Request, TypeOK
<1>2. ASSUME NEW j \in Jobs, NEW t \in Transitions, RequestSystem(j, t)
      PROVE  TypeOK'
  <2>1. t.name \in JobNames /\ t.first \in Steps
    OBVIOUS
  <2>2. /\ NewJob(t.name, NoResource, t.first) \in JobRow
        /\ NewJob(t.name, NoResource, t.first).step = t.first
    BY <2>1, NewRowTypes DEF NewJob
  <2>3. queue' \subseteq Jobs \X Steps /\ disturbances' \in Nat
    BY <1>2, <2>1, DispatchType DEF RequestSystem
  <2> QED
    BY <1>2, <2>1, <2>2, <2>3 DEF RequestSystem, TypeOK
<1>3. ASSUME NEW w \in Workers, NEW m \in queue, Claim(w, m)
      PROVE  TypeOK'
  <2> DEFINE j   == m[1]
             job == jobs[j]
             res == ResourceOf(job)
  <2>1. j \in Jobs /\ m[2] \in Steps /\ job \in JobRow /\ res \in ResourceRow
    BY ResourceOfType DEF TypeOK
  <2>2. job.step = m[2] /\ job.status \in {"pending", "error"}
    BY <1>3 DEF Claim, Claimable
  <2>3. /\ ClaimedJob(job) \in JobRow
        /\ ClaimedJob(job).step = job.step
        /\ ClaimedJob(job).attempt \in Nat
    BY <2>1, RowTypes DEF ClaimedJob, JobWith, JobRow
  <2>4. ResourceWith(res, res.step, "running") \in ResourceRow
    BY <2>1, ResourceWithType DEF ResourceRow, JobStatus
  <2>5. resources' \in [Resources -> ResourceRow]
    BY <1>3, <2>4, WithResourceType DEF Claim
  <2>6. queue' \subseteq Jobs \X Steps /\ disturbances' \in Nat
    BY <1>3 DEF Claim, Consume, Disturb, TypeOK
  <2>7. scans' \in [Scanners -> [active : BOOLEAN, ids : SUBSET Jobs,
                                 stale : SUBSET Jobs]]
    BY <1>3 DEF Claim, Refresh, ScanState, TypeOK
  <2>8. claims' \in [Workers -> Claims \cup {NoClaim}]
    BY <1>3, <2>1, <2>2, <2>3 DEF Claim, Claims, TypeOK
  <2>9. /\ jobs' \in [Jobs -> JobRow]
        /\ \A i \in Jobs : jobs'[i].status # "absent" => jobs'[i].step \in Steps
    BY <1>3, <2>1, <2>2, <2>3 DEF Claim, TypeOK
  <2> QED
    BY <2>5, <2>6, <2>7, <2>8, <2>9 DEF TypeOK
<1>4. ASSUME NEW m \in queue, IgnoreDelivery(m)
      PROVE  TypeOK'
  BY <1>4 DEF IgnoreDelivery, TypeOK
<1>5. ASSUME NEW w \in Workers, NEW next \in Steps, Advance(w, next)
      PROVE  TypeOK'
  <2> DEFINE j   == claims[w].job
             job == jobs[j]
             row == ResourceWith(ResourceOf(job), next, "pending")
  <2>1. j \in Jobs /\ job \in JobRow /\ ResourceOf(job) \in ResourceRow
    BY <1>5, ResourceOfType DEF Advance, TypeOK, Claims
  <2>2. AdvancedJob(job, next) \in JobRow /\ AdvancedJob(job, next).step = next
    BY <2>1, RowTypes DEF AdvancedJob, JobWith, JobRow
  <2>3. row \in ResourceRow
    BY <2>1, ResourceWithType DEF ResourceRow, JobStatus
  <2>4. resources' \in [Resources -> ResourceRow]
    BY <1>5, <2>3, WithResourceType DEF Advance
  <2>5. queue' \subseteq Jobs \X Steps /\ disturbances' \in Nat
    BY <1>5, <2>1, DispatchType DEF Advance
  <2> QED
    BY <1>5, <2>1, <2>2, <2>4, <2>5 DEF Advance, TypeOK
<1>6. ASSUME NEW w \in Workers, Complete(w)
      PROVE  TypeOK'
  <2> DEFINE j   == claims[w].job
             job == jobs[j]
             row == IF job.step \in DeletingSteps THEN AbsentResource
                    ELSE ResourceWith(ResourceOf(job), NoStep, "success")
  <2>1. j \in Jobs /\ job \in JobRow /\ ResourceOf(job) \in ResourceRow
    BY <1>6, ResourceOfType DEF Complete, TypeOK, Claims
  <2>2. /\ CompletedJob(job) \in JobRow
        /\ CompletedJob(job).step = job.step
        /\ job.step \in Steps
    BY <1>6, <2>1, RowTypes DEF CompletedJob, JobWith, JobRow, Complete
  <2>3. row \in ResourceRow
    BY <2>1, ResourceWithType DEF ResourceRow, JobStatus, AbsentResource, Actions
  <2>4. resources' \in [Resources -> ResourceRow]
    BY <1>6, <2>3, WithResourceType DEF Complete
  <2> QED
    BY <1>6, <2>1, <2>2, <2>4 DEF Complete, TypeOK
<1>7. ASSUME NEW w \in Workers, NEW k \in Jobs, NEW t \in Successors,
             Continue(w, k, t)
      PROVE  TypeOK'
  <2> DEFINE j   == claims[w].job
             job == jobs[j]
  <2>1. j \in Jobs /\ job \in JobRow /\ ResourceOf(job) \in ResourceRow
    BY <1>7, ResourceOfType DEF Continue, TypeOK, Claims
  <2>2. /\ CompletedJob(job) \in JobRow
        /\ CompletedJob(job).step = job.step
        /\ job.step \in Steps
    BY <1>7, <2>1, RowTypes DEF CompletedJob, JobWith, JobRow, Continue
  <2>3. /\ t.name \in DOMAIN RESOURCE_ACTIONS
        /\ t.name \in JobNames
        /\ t.first \in Steps
        /\ job.resource \in Resources \cup {NoResource}
    BY <2>1, ActionsOfNames DEF JobRow
  <2>4. /\ NewJob(t.name, job.resource, t.first) \in JobRow
        /\ NewJob(t.name, job.resource, t.first).step = t.first
        /\ Requested(k, t.name, t.first) \in ResourceRow
    BY <2>3, NewRowTypes DEF NewJob
  <2>5. resources' \in [Resources -> ResourceRow]
    BY <1>7, <2>4, WithResourceType DEF Continue
  <2>6. queue' \subseteq Jobs \X Steps /\ disturbances' \in Nat
    BY <1>7, <2>3, DispatchType DEF Continue
  <2> QED
    BY <1>7, <2>1, <2>2, <2>3, <2>4, <2>5, <2>6 DEF Continue, TypeOK
<1>8. ASSUME NEW w \in Workers, Defer(w) \/ Fail(w)
      PROVE  TypeOK'
  <2> DEFINE j   == claims[w].job
             job == jobs[j]
  <2>1. j \in Jobs /\ job \in JobRow /\ ResourceOf(job) \in ResourceRow
    BY <1>8, ResourceOfType DEF Defer, Fail, Finish, TypeOK, Claims
  <2>2. job.step \in Steps
    BY <1>8, <2>1 DEF Defer, Fail, Finish, Owns, Owned, TypeOK
  <2>3. PICK row \in JobRow, s \in {"pending", "error"} :
           Finish(w, row, s) /\ row.step = job.step
    BY <1>8, <2>1, <2>2, RowTypes
       DEF Defer, Fail, DeferredJob, FailedJob, JobWith, JobRow
  <2>4. ResourceWith(ResourceOf(job), ResourceOf(job).step, s) \in ResourceRow
    BY <2>1, <2>3, ResourceWithType DEF ResourceRow, JobStatus
  <2>5. resources' \in [Resources -> ResourceRow]
    BY <2>3, <2>4, WithResourceType DEF Finish
  <2> QED
    BY <2>1, <2>2, <2>3, <2>5 DEF Finish, TypeOK, Disturb
<1>9. ASSUME NEW w \in Workers, Abandon(w) \/ Crash(w)
      PROVE  TypeOK'
  BY <1>9 DEF Abandon, Crash, Disturb, TypeOK
<1>10. ASSUME NEW w \in Workers, Heartbeat(w)
       PROVE  TypeOK'
  <2> DEFINE j   == claims[w].job
             job == jobs[j]
  <2>1. j \in Jobs /\ job \in JobRow
    BY <1>10 DEF Heartbeat, TypeOK, Claims
  <2>2. job.step \in Steps
    BY <1>10, <2>1 DEF Heartbeat, Owns, Owned, TypeOK
  <2>3. HeartbeatJob(job) \in JobRow /\ HeartbeatJob(job).step = job.step
    BY <2>1, <2>2, RowTypes DEF HeartbeatJob, JobWith, JobRow
  <2>4. scans' \in [Scanners -> [active : BOOLEAN, ids : SUBSET Jobs,
                                 stale : SUBSET Jobs]]
    BY <1>10 DEF Heartbeat, Refresh, ScanState, TypeOK
  <2> QED
    BY <1>10, <2>1, <2>2, <2>3, <2>4 DEF Heartbeat, TypeOK
<1>11. ASSUME NEW j \in Jobs, Expire(j)
       PROVE  TypeOK'
  <2>1. /\ ExpiredJob(jobs[j]) \in JobRow
        /\ ExpiredJob(jobs[j]).step = jobs[j].step
        /\ jobs[j].step \in Steps
    BY <1>11, RowTypes DEF TypeOK, ExpiredJob, JobWith, Expire
  <2>2. disturbances' \in Nat
    BY <1>11 DEF Expire, Disturb, TypeOK
  <2> QED
    BY <1>11, <2>1, <2>2 DEF Expire, TypeOK, JobRow
<1>12. ASSUME NEW m \in queue, Lose(m)
       PROVE  TypeOK'
  BY <1>12 DEF Lose, Disturb, TypeOK
<1>13. ASSUME NEW s \in Scanners, ScanStart(s) \/ ScanEnd(s)
       PROVE  TypeOK'
  <2>1. CASE ScanStart(s)
    BY <2>1 DEF ScanStart, ScanState, TypeOK
  <2>2. CASE ScanEnd(s)
    <3>1. disturbances' \in Nat
      BY <2>2 DEF ScanEnd, Disturb, TypeOK
    <3> QED
      BY <2>2, <3>1 DEF ScanEnd, IdleScan, ScanState, TypeOK
  <2> QED
    BY <1>13, <2>1, <2>2
<1>14. ASSUME NEW s \in Scanners, NEW j \in Jobs, ScanJob(s, j)
       PROVE  TypeOK'
  <2> DEFINE job == jobs[j]
             res == ResourceOf(job)
  <2>1. job \in JobRow /\ res \in ResourceRow
    BY ResourceOfType DEF TypeOK
  <2>2. scans' \in [Scanners -> [active : BOOLEAN, ids : SUBSET Jobs,
                                 stale : SUBSET Jobs]]
    BY <1>14 DEF ScanJob, ScanState, TypeOK
  <2>3. CASE Retryable(j, job, res, j \in scans[s].stale)
    <3>1. job.step \in Steps
      BY <2>3 DEF Retryable, TypeOK
    <3>2. ReclaimedJob(job) \in JobRow /\ ReclaimedJob(job).step = job.step
      BY <2>1, <3>1, RowTypes DEF ReclaimedJob, DeferredJob, JobWith, JobRow
    <3>4. ResourceWith(res, res.step,
                       IF job.status = "running" THEN "pending"
                                                 ELSE res.status)
             \in ResourceRow
      BY <2>1, ResourceWithType DEF ResourceRow, JobStatus
    <3>5. resources' \in [Resources -> ResourceRow]
      BY <1>14, <2>3, <3>4, WithResourceType DEF ScanJob
    <3>6. queue' \subseteq Jobs \X Steps /\ disturbances' \in Nat
      BY <1>14, <2>3, <3>1, DispatchType DEF ScanJob
    <3>7. jobs' = [jobs EXCEPT ![j] = ReclaimedJob(job)] /\ claims' = claims
      BY <1>14, <2>3 DEF ScanJob
    <3> HIDE DEF job, res
    <3> QED
      BY <2>2, <3>1, <3>2, <3>5, <3>6, <3>7 DEF TypeOK
  <2>4. CASE ~Retryable(j, job, res, j \in scans[s].stale)
    BY <1>14, <2>2, <2>4 DEF ScanJob, TypeOK
  <2> QED
    BY <2>3, <2>4
<1>15. CASE UNCHANGED vars
  BY <1>15 DEF vars, TypeOK
<1> QED
  BY <1>1, <1>2, <1>3, <1>4, <1>5, <1>6, <1>7, <1>8, <1>9, <1>10, <1>11,
     <1>12, <1>13, <1>14, <1>15 DEF Next

\* Every reachable state of the engine is well typed.
THEOREM TypeCorrect == Spec => []TypeOK
<1>1. Init => TypeOK
  BY DEF Init, TypeOK, AbsentJob, AbsentResource, IdleScan, ScanState, JobRow,
         ResourceRow, JobStatus, ClaimAge, JobNames, Actions
<1>2. TypeOK /\ [Next]_vars => TypeOK'
  BY TypeStep
<1> QED
  BY <1>1, <1>2, PTL DEF Spec

-----------------------------------------------------------------------------
(***************************************************************************)
(* Fencing.  Linked and LiveJobsAreCurrent are inductive together: a       *)
(* transition of execution.py writes a job it was shown to match, and a    *)
(* request needs a row that no live job points at.                         *)
(***************************************************************************)

\* Mirror for the rows that have a job.  A catalog template has none before its
\* first synchronization.
Linked ==
    \A r \in Resources :
        (resources[r].status # "absent" /\ resources[r].job # NoJob) =>
            LET j == resources[r].job
            IN  /\ j \in Jobs
                /\ jobs[j].resource = r
                /\ jobs[j].status = resources[r].status
                /\ jobs[j].name \in DOMAIN RESOURCE_ACTIONS
                /\ resources[r].action = RESOURCE_ACTIONS[jobs[j].name]
                /\ resources[r].status # "success" =>
                       resources[r].step = jobs[j].step

\* The three invariants that are inductive together with TypeOK.
Fenced == Linked /\ LiveJobsAreCurrent /\ TokensAreUnique

\* A transition that starts from a matching job and resource and writes the
\* same status to both rows keeps them mirrored.
LEMMA MirroredUpdate ==
    ASSUME TypeOK, Linked, LiveJobsAreCurrent,
           NEW j \in Jobs, NEW row \in JobRow, NEW res \in ResourceRow,
           ResourceMatches(j, jobs[j], ResourceOf(jobs[j])),
           row.name = jobs[j].name, row.resource = jobs[j].resource,
           row.status # "absent",
           res.job = ResourceOf(jobs[j]).job,
           res.action = ResourceOf(jobs[j]).action,
           jobs[j].resource # NoResource =>
               /\ res.status = row.status
               /\ res.status # "success" => res.step = row.step,
           jobs' = [jobs EXCEPT ![j] = row],
           resources' = WithResource(jobs[j].resource, res)
    PROVE  Linked' /\ LiveJobsAreCurrent'
<1>1. CASE jobs[j].resource = NoResource
  <2>1. resources' = resources
    BY <1>1 DEF WithResource, TypeOK
  <2>2. \A r \in Resources : resources[r].status # "absent" =>
                                 resources[r].job # j
    BY <1>1 DEF Linked
  <2>3. Linked'
    BY <2>1, <2>2 DEF Linked, TypeOK
  <2>4. LiveJobsAreCurrent'
    BY <1>1, <2>1 DEF LiveJobsAreCurrent, TypeOK
  <2> QED
    BY <2>3, <2>4
<1>2. CASE jobs[j].resource # NoResource
  <2> DEFINE r == jobs[j].resource
  <2>1. /\ r \in Resources
        /\ ResourceOf(jobs[j]) = resources[r]
        /\ resources[r].status # "absent"
        /\ resources[r].job = j
        /\ resources[r].action = RESOURCE_ACTIONS[jobs[j].name]
        /\ jobs[j].name \in DOMAIN RESOURCE_ACTIONS
    BY <1>2 DEF ResourceMatches, ResourceOf, TypeOK, JobRow
  <2>2. resources'[r] = res /\ jobs'[j] = row
    BY <2>1 DEF WithResource, TypeOK
  <2>3. \A x \in Resources : x # r => resources'[x] = resources[x]
    BY DEF WithResource
  <2>4. \A i \in Jobs : i # j => jobs'[i] = jobs[i]
    BY DEF TypeOK
  <2>5. \A x \in Resources : x # r /\ resources[x].status # "absent" =>
                                 resources[x].job # j
    BY SMTT(30) DEF Linked
  <2>6. Linked'
    <3> SUFFICES ASSUME NEW x \in Resources, resources'[x].status # "absent",
                        resources'[x].job # NoJob
                 PROVE  LET k == resources'[x].job
                        IN  /\ k \in Jobs
                            /\ jobs'[k].resource = x
                            /\ jobs'[k].status = resources'[x].status
                            /\ jobs'[k].name \in DOMAIN RESOURCE_ACTIONS
                            /\ resources'[x].action =
                                   RESOURCE_ACTIONS[jobs'[k].name]
                            /\ resources'[x].status # "success" =>
                                   resources'[x].step = jobs'[k].step
      BY DEF Linked
    <3>1. CASE x = r
      BY <1>2, <2>1, <2>2, <3>1
    <3>2. CASE x # r
      BY <2>3, <2>4, <2>5, <3>2 DEF Linked
    <3> QED
      BY <3>1, <3>2, SMTT(30)
  <2>7. LiveJobsAreCurrent'
    <3> SUFFICES ASSUME NEW i \in Jobs,
                        jobs'[i].status \in {"pending", "running"},
                        jobs'[i].resource # NoResource
                 PROVE  /\ resources'[jobs'[i].resource].status # "absent"
                        /\ resources'[jobs'[i].resource].job = i
      BY DEF LiveJobsAreCurrent
    <3>1. CASE i = j
      BY <1>2, <2>1, <2>2, <3>1
    <3>2. CASE i # j
      <4>1. /\ jobs'[i] = jobs[i]
            /\ jobs[i].resource \in Resources
        BY <2>4, <3>2 DEF TypeOK, JobRow
      <4>2. resources[jobs[i].resource].job = i
        BY <4>1 DEF LiveJobsAreCurrent
      <4>3. jobs[i].resource # r
        BY <2>1, <3>2, <4>2
      <4> QED
        BY <2>3, <4>1, <4>3 DEF LiveJobsAreCurrent
    <3> QED
      BY <3>1, <3>2
  <2> QED
    BY <2>6, <2>7
<1> QED
  BY <1>1, <1>2

\* A new job may take a resource over once no other live job is bound to it.
LEMMA Takeover ==
    ASSUME TypeOK, Linked, LiveJobsAreCurrent,
           NEW k \in Jobs, NEW r \in Resources, NEW first \in Steps,
           NEW name \in DOMAIN RESOURCE_ACTIONS,
           jobs[k].status = "absent",
           jobs'[k] = NewJob(name, r, first),
           resources' = WithResource(r, Requested(k, name, first)),
           \A i \in Jobs : i # k =>
               /\ jobs'[i].resource = jobs[i].resource
               /\ jobs[i].resource # r => jobs'[i] = jobs[i]
               /\ jobs'[i].status \in {"pending", "running"} =>
                      jobs'[i] = jobs[i] /\ jobs[i].resource # r
    PROVE  Linked' /\ LiveJobsAreCurrent'
<1>1. /\ resources'[r] = Requested(k, name, first)
      /\ \A x \in Resources : x # r => resources'[x] = resources[x]
  BY DEF WithResource
<1>2. \A x \in Resources : resources[x].status # "absent" =>
          resources[x].job # k
  BY DEF Linked
<1>3. Linked'
  <2> SUFFICES ASSUME NEW x \in Resources, resources'[x].status # "absent",
                      resources'[x].job # NoJob
               PROVE  LET i == resources'[x].job
                      IN  /\ i \in Jobs
                          /\ jobs'[i].resource = x
                          /\ jobs'[i].status = resources'[x].status
                          /\ jobs'[i].name \in DOMAIN RESOURCE_ACTIONS
                          /\ resources'[x].action =
                                 RESOURCE_ACTIONS[jobs'[i].name]
                          /\ resources'[x].status # "success" =>
                                 resources'[x].step = jobs'[i].step
    BY DEF Linked
  <2>1. CASE x = r
    BY <1>1, <2>1 DEF NewJob, Requested
  <2>2. CASE x # r
    <3>1. /\ resources'[x] = resources[x]
          /\ resources[x].job \in Jobs
          /\ jobs[resources[x].job].resource = x
          /\ resources[x].job # k
      BY <1>1, <1>2, <2>2 DEF Linked
    <3>2. jobs'[resources[x].job] = jobs[resources[x].job]
      BY <2>2, <3>1
    <3> QED
      BY <3>1, <3>2 DEF Linked
  <2> QED
    BY <2>1, <2>2
<1>4. LiveJobsAreCurrent'
  <2> SUFFICES ASSUME NEW i \in Jobs,
                      jobs'[i].status \in {"pending", "running"},
                      jobs'[i].resource # NoResource
               PROVE  /\ resources'[jobs'[i].resource].status # "absent"
                      /\ resources'[jobs'[i].resource].job = i
    BY DEF LiveJobsAreCurrent
  <2>1. CASE i = k
    BY <1>1, <2>1 DEF NewJob, Requested
  <2>2. CASE i # k
    <3>1. /\ jobs'[i] = jobs[i]
          /\ jobs[i].resource # r
          /\ jobs[i].resource \in Resources
      BY <2>2 DEF TypeOK, JobRow
    <3> QED
      BY <1>1, <3>1 DEF LiveJobsAreCurrent
  <2> QED
    BY <2>1, <2>2
<1> QED
  BY <1>3, <1>4

\* Tokens stay unique when claims only disappear and no counter goes back.
LEMMA TokensKept ==
    ASSUME TypeOK, TokensAreUnique,
           \A w \in Workers : claims'[w] \in {claims[w], NoClaim},
           \A j \in Jobs : /\ jobs'[j].attempt \in Nat
                           /\ jobs'[j].attempt >= jobs[j].attempt
                           /\ jobs[j].status # "absent" =>
                                  jobs'[j].status # "absent"
    PROVE  TokensAreUnique'
<1>1. \A w \in Workers : claims[w] # NoClaim =>
          /\ claims[w].job \in Jobs
          /\ claims[w].attempt \in Nat
          /\ jobs[claims[w].job].attempt \in Nat
  BY DEF TypeOK, Claims, JobRow
<1>2. \A w \in Workers : claims'[w] # NoClaim =>
          /\ claims[w] # NoClaim
          /\ claims'[w] = claims[w]
  OBVIOUS
<1>3. ASSUME NEW w \in Workers, claims'[w] # NoClaim
      PROVE  /\ jobs'[claims'[w].job].status # "absent"
             /\ claims'[w].attempt <= jobs'[claims'[w].job].attempt
  BY <1>1, <1>2, <1>3 DEF TokensAreUnique
<1>4. ASSUME NEW v \in Workers, NEW w \in Workers, v # w,
             claims'[v] # NoClaim, claims'[w] # NoClaim,
             claims'[v].job = claims'[w].job
      PROVE  claims'[v].attempt # claims'[w].attempt
  BY <1>2, <1>4 DEF TokensAreUnique
<1> QED
  BY <1>3, <1>4 DEF TokensAreUnique

\* Worker w ends its step: it writes the job and the resource it owns, with the
\* same status in both.
OwnerWrites(w, row, res) ==
    LET j == claims[w].job
    IN  /\ claims[w] # NoClaim
        /\ Owns(w, j)
        /\ row.name = jobs[j].name
        /\ row.resource = jobs[j].resource
        /\ row.attempt = jobs[j].attempt
        /\ row.status # "absent"
        /\ res.job = ResourceOf(jobs[j]).job
        /\ res.action = ResourceOf(jobs[j]).action
        /\ jobs[j].resource # NoResource =>
              /\ res.status = row.status
              /\ res.status # "success" => res.step = row.step
        /\ jobs' = [jobs EXCEPT ![j] = row]
        /\ resources' = WithResource(jobs[j].resource, res)
        /\ claims' = [claims EXCEPT ![w] = NoClaim]

\* The owner of a job keeps the fence when it ends its step.
LEMMA OwnerFinishes ==
    ASSUME TypeOK, TypeOK', Fenced, NEW w \in Workers, NEW row \in JobRow,
           NEW res \in ResourceRow, OwnerWrites(w, row, res)
    PROVE  Fenced'
<1> DEFINE j == claims[w].job
<1>1. /\ claims[w] # NoClaim
      /\ row.name = jobs[j].name
      /\ row.resource = jobs[j].resource
      /\ row.attempt = jobs[j].attempt
      /\ row.status # "absent"
      /\ res.job = ResourceOf(jobs[j]).job
      /\ res.action = ResourceOf(jobs[j]).action
      /\ jobs[j].resource # NoResource =>
            /\ res.status = row.status
            /\ res.status # "success" => res.step = row.step
      /\ jobs' = [jobs EXCEPT ![j] = row]
      /\ resources' = WithResource(jobs[j].resource, res)
      /\ claims' = [claims EXCEPT ![w] = NoClaim]
  BY DEF OwnerWrites
<1>2. j \in Jobs /\ ResourceMatches(j, jobs[j], ResourceOf(jobs[j]))
  BY <1>1 DEF OwnerWrites, Owns, Owned, TypeOK, Claims
<1>3. Linked' /\ LiveJobsAreCurrent'
  <2> HIDE DEF j
  <2> QED
    BY <1>1, <1>2, MirroredUpdate DEF Fenced
<1>4. /\ \A v \in Workers : claims'[v] \in {claims[v], NoClaim}
      /\ \A i \in Jobs : /\ jobs'[i].attempt \in Nat
                         /\ jobs'[i].attempt >= jobs[i].attempt
                         /\ jobs[i].status # "absent" =>
                                jobs'[i].status # "absent"
  BY <1>1, <1>2 DEF TypeOK, JobRow
<1> QED
  BY <1>3, <1>4, TokensKept DEF Fenced

\* No step of the engine breaks the fence.
LEMMA FencedStep ==
    ASSUME TypeOK, TypeOK', Fenced, [Next]_vars
    PROVE  Fenced'
<1> USE DEF Fenced
<1>0. /\ \A j \in Jobs : jobs[j] \in JobRow /\ jobs'[j] \in JobRow
      /\ \A j \in Jobs : jobs[j].attempt \in Nat /\ jobs'[j].attempt \in Nat
      /\ \A w \in Workers : claims[w] # NoClaim => claims[w].job \in Jobs
  BY DEF TypeOK, JobRow, Claims
<1>1. ASSUME NEW j \in Jobs, NEW r \in Resources, NEW t \in Transitions,
             Request(j, r, t)
      PROVE  Fenced'
  <2>1. /\ t.name \in DOMAIN RESOURCE_ACTIONS
        /\ t.first \in Steps
        /\ resources[r].status \in {"absent", "success", "error"}
    BY <1>1 DEF Request
  <2>2. /\ jobs'[j] = NewJob(t.name, r, t.first)
        /\ \A i \in Jobs : i # j => jobs'[i] = jobs[i]
        /\ jobs[j].status = "absent"
        /\ resources' = WithResource(r, Requested(j, t.name, t.first))
        /\ claims' = claims
    BY <1>1 DEF Request, TypeOK
  <2>3. ASSUME NEW i \in Jobs, jobs[i].status \in {"pending", "running"}
        PROVE  jobs[i].resource # r
    <3> SUFFICES ASSUME jobs[i].resource = r
                 PROVE  FALSE
      OBVIOUS
    <3>1. resources[r].status # "absent" /\ resources[r].job = i
      BY <2>3 DEF LiveJobsAreCurrent
    <3>2. jobs[i].status = resources[r].status
      BY <3>1 DEF Linked
    <3> QED
      BY <2>1, <2>3, <3>2
  <2>4. Linked' /\ LiveJobsAreCurrent'
    BY <2>1, <2>2, <2>3, Takeover
  <2>6. TokensAreUnique'
    <3>1. \A w \in Workers : claims[w] # NoClaim => claims[w].job # j
      BY <2>2 DEF TokensAreUnique
    <3>2. \A w \in Workers : claims'[w] # NoClaim =>
             jobs'[claims'[w].job] = jobs[claims[w].job]
      BY <1>0, <2>2, <3>1
    <3> QED
      BY <2>2, <3>2 DEF TokensAreUnique
  <2> QED
    BY <2>4, <2>6
<1>2. ASSUME NEW j \in Jobs, NEW t \in Transitions, RequestSystem(j, t)
      PROVE  Fenced'
  <2>1. /\ jobs'[j] = NewJob(t.name, NoResource, t.first)
        /\ \A i \in Jobs : i # j => jobs'[i] = jobs[i]
        /\ jobs[j].status = "absent"
        /\ resources' = resources
        /\ claims' = claims
    BY <1>2 DEF RequestSystem, TypeOK
  <2>2. \A r \in Resources : resources[r].status # "absent" =>
            resources[r].job # j
    BY <2>1 DEF Linked
  <2>3. Linked'
    BY <2>1, <2>2 DEF Linked
  <2>4. LiveJobsAreCurrent'
    BY <2>1 DEF LiveJobsAreCurrent, NewJob
  <2>5. TokensAreUnique'
    <3>1. \A w \in Workers : claims[w] # NoClaim => claims[w].job # j
      BY <2>1 DEF TokensAreUnique
    <3>2. \A w \in Workers : claims'[w] # NoClaim =>
             jobs'[claims'[w].job] = jobs[claims[w].job]
      BY <1>0, <2>1, <3>1
    <3> QED
      BY <2>1, <3>2 DEF TokensAreUnique
  <2> QED
    BY <2>3, <2>4, <2>5
<1>3. ASSUME NEW w \in Workers, NEW m \in queue, Claim(w, m)
      PROVE  Fenced'
  <2> DEFINE j   == m[1]
             job == jobs[j]
             res == ResourceOf(job)
  <2>1. j \in Jobs /\ res \in ResourceRow
    BY ResourceOfType DEF TypeOK
  <2>2. /\ ResourceMatches(j, job, res)
        /\ jobs' = [jobs EXCEPT ![j] = ClaimedJob(job)]
        /\ resources' = WithResource(job.resource,
                                     ResourceWith(res, res.step, "running"))
        /\ claims' = [claims EXCEPT ![w] = [job |-> j, step |-> job.step,
                                       attempt |-> ClaimedJob(job).attempt]]
        /\ claims[w] = NoClaim
    BY <1>3 DEF Claim, Claimable
  <2>3. /\ ClaimedJob(job) \in JobRow
        /\ ResourceWith(res, res.step, "running") \in ResourceRow
    BY <2>1, RowTypes, ResourceWithType, <1>0, <2>2
       DEF ResourceRow, JobStatus, TypeOK
  <2>4. /\ ClaimedJob(job).name = job.name
        /\ ClaimedJob(job).resource = job.resource
        /\ ClaimedJob(job).status = "running"
        /\ ClaimedJob(job).step = job.step
        /\ ClaimedJob(job).attempt = job.attempt + 1
        /\ ResourceWith(res, res.step, "running").job = res.job
        /\ ResourceWith(res, res.step, "running").action = res.action
        /\ ResourceWith(res, res.step, "running").status = "running"
        /\ ResourceWith(res, res.step, "running").step = res.step
        /\ job.resource # NoResource => res.step = job.step
    BY <2>2 DEF ClaimedJob, JobWith, ResourceWith, ResourceMatches
  <2>5. Linked' /\ LiveJobsAreCurrent'
    <3> HIDE DEF j
    <3> QED
      BY <2>1, <2>2, <2>3, <2>4, MirroredUpdate
  <2>6. TokensAreUnique'
    <3> DEFINE c == [job |-> j, step |-> job.step,
                     attempt |-> ClaimedJob(job).attempt]
    <3>1. /\ claims'[w] = c
          /\ \A v \in Workers : v # w => claims'[v] = claims[v]
          /\ c.job = j
          /\ c.attempt = job.attempt + 1
          /\ jobs'[j].attempt = job.attempt + 1
          /\ jobs'[j].status = "running"
          /\ \A i \in Jobs : i # j => jobs'[i] = jobs[i]
      BY <2>1, <2>2, <2>4 DEF TypeOK
    <3>2. job.attempt \in Nat
      BY <1>0, <2>1
    <3> HIDE DEF c, j, job
    <3>3. ASSUME NEW v \in Workers, v # w, claims'[v] # NoClaim
          PROVE  /\ jobs'[claims'[v].job].status # "absent"
                 /\ claims'[v].attempt <= jobs'[claims'[v].job].attempt
                 /\ claims'[v].job = j => claims'[v].attempt < c.attempt
      <4>1. /\ claims'[v] = claims[v]
            /\ claims[v].job \in Jobs
            /\ claims[v].attempt \in Nat
            /\ jobs[claims[v].job].status # "absent"
            /\ claims[v].attempt <= jobs[claims[v].job].attempt
        BY <3>1, <3>3 DEF TypeOK, TokensAreUnique, Claims
      <4>2. CASE claims[v].job = j
        BY <3>1, <3>2, <4>1, <4>2 DEF job
      <4>3. CASE claims[v].job # j
        BY <3>1, <4>1, <4>3
      <4> QED
        BY <4>2, <4>3
    <3>4. \A v \in Workers : claims'[v] # NoClaim => claims'[v].attempt \in Nat
      BY DEF TypeOK, Claims
    <3>5. ASSUME NEW u \in Workers, NEW v \in Workers, u # v,
                 claims'[u] # NoClaim, claims'[v] # NoClaim,
                 claims'[u].job = claims'[v].job
          PROVE  claims'[u].attempt # claims'[v].attempt
      <4>1. CASE u = w \/ v = w
        BY <3>1, <3>2, <3>3, <3>4, <3>5, <4>1
      <4>2. CASE u # w /\ v # w
        BY <3>1, <3>5, <4>2 DEF TokensAreUnique
      <4> QED
        BY <4>1, <4>2
    <3>6. ASSUME NEW v \in Workers, claims'[v] # NoClaim
          PROVE  /\ jobs'[claims'[v].job].status # "absent"
                 /\ claims'[v].attempt <= jobs'[claims'[v].job].attempt
      <4>1. CASE v = w
        BY <3>1, <3>2, <4>1
      <4> QED
        BY <3>3, <3>6, <4>1
    <3> QED
      BY <3>5, <3>6 DEF TokensAreUnique
  <2> QED
    BY <2>5, <2>6
<1>4. ASSUME NEW m \in queue, IgnoreDelivery(m) \/ Lose(m)
      PROVE  Fenced'
  BY <1>4 DEF IgnoreDelivery, Lose, Linked, LiveJobsAreCurrent,
              TokensAreUnique
<1>5. ASSUME NEW w \in Workers, NEW row \in JobRow, NEW res \in ResourceRow,
             OwnerWrites(w, row, res)
      PROVE  Fenced'
  BY <1>5, OwnerFinishes
<1>6. ASSUME NEW w \in Workers, NEW next \in Steps, Advance(w, next)
      PROVE  Fenced'
  <2> DEFINE job == jobs[claims[w].job]
             row == AdvancedJob(job, next)
             res == ResourceWith(ResourceOf(job), next, "pending")
  <2>1. row \in JobRow /\ res \in ResourceRow
    BY <1>0, <1>6, RowTypes, ResourceWithType, ResourceOfType
       DEF Advance, JobStatus
  <2>2. /\ row.name = job.name /\ row.resource = job.resource
        /\ row.attempt = job.attempt /\ row.status = "pending"
        /\ row.step = next
        /\ res.job = ResourceOf(job).job /\ res.action = ResourceOf(job).action
        /\ res.status = "pending" /\ res.step = next
    BY DEF AdvancedJob, JobWith, ResourceWith
  <2>3. /\ claims[w] # NoClaim /\ Owns(w, claims[w].job)
        /\ jobs' = [jobs EXCEPT ![claims[w].job] = row]
        /\ resources' = WithResource(job.resource, res)
        /\ claims' = [claims EXCEPT ![w] = NoClaim]
    BY <1>6 DEF Advance
  <2>4. OwnerWrites(w, row, res)
    BY <2>2, <2>3 DEF OwnerWrites
  <2> HIDE DEF row, res
  <2> QED
    BY <1>5, <2>1, <2>4
<1>7. ASSUME NEW w \in Workers, Complete(w)
      PROVE  Fenced'
  <2> DEFINE j   == claims[w].job
             job == jobs[j]
             row == CompletedJob(job)
             res == ResourceWith(ResourceOf(job), NoStep, "success")
  <2>0. /\ claims[w] # NoClaim /\ Owns(w, j)
        /\ jobs' = [jobs EXCEPT ![j] = row]
        /\ claims' = [claims EXCEPT ![w] = NoClaim]
        /\ j \in Jobs
        /\ job \in JobRow
    BY <1>0, <1>7 DEF Complete
  <2>1. row \in JobRow /\ res \in ResourceRow
    <3>1. PICK any \in Steps : TRUE
      BY <2>0 DEF Owns, Owned, TypeOK
    <3> QED
      BY <2>0, <3>1, RowTypes, ResourceWithType, ResourceOfType DEF JobStatus
  <2>2. /\ row.name = job.name /\ row.resource = job.resource
        /\ row.attempt = job.attempt /\ row.status = "success"
        /\ res.job = ResourceOf(job).job /\ res.action = ResourceOf(job).action
        /\ res.status = "success"
    BY DEF CompletedJob, JobWith, ResourceWith
  <2>3. CASE job.step \notin DeletingSteps
    <3>1. resources' = WithResource(job.resource, res)
      BY <1>7, <2>3 DEF Complete
    <3>2. OwnerWrites(w, row, res)
      BY <2>0, <2>2, <3>1 DEF OwnerWrites
    <3> HIDE DEF row, res
    <3> QED
      BY <1>5, <2>1, <3>2
  <2>4. CASE job.step \in DeletingSteps
    <3>1. resources' = WithResource(job.resource, AbsentResource)
      BY <1>7, <2>4 DEF Complete
    <3>2. /\ jobs'[j].status = "success"
          /\ jobs'[j].resource = job.resource
          /\ jobs'[j].attempt = job.attempt
          /\ \A i \in Jobs : i # j => jobs'[i] = jobs[i]
          /\ \A x \in Resources : x # job.resource =>
                                      resources'[x] = resources[x]
          /\ \A x \in Resources : x = job.resource =>
                                      resources'[x].status = "absent"
      BY <2>0, <2>2, <3>1 DEF WithResource, AbsentResource, TypeOK
    <3>3. ResourceMatches(j, job, ResourceOf(job))
      BY <2>0 DEF Owns, Owned
    <3>4. \A x \in Resources :
             (x # job.resource /\ resources[x].status # "absent") =>
                 resources[x].job # j
      BY <2>0 DEF Linked
    <3>5. Linked'
      BY <3>2, <3>4 DEF Linked
    <3>6. LiveJobsAreCurrent'
      <4> SUFFICES ASSUME NEW i \in Jobs,
                          jobs'[i].status \in {"pending", "running"},
                          jobs'[i].resource # NoResource
                   PROVE  /\ resources'[jobs'[i].resource].status # "absent"
                          /\ resources'[jobs'[i].resource].job = i
        BY DEF LiveJobsAreCurrent
      <4>1. i # j /\ jobs'[i] = jobs[i] /\ jobs[i].resource \in Resources
        BY <1>0, <3>2 DEF JobRow
      <4>2. /\ resources[jobs[i].resource].status # "absent"
            /\ resources[jobs[i].resource].job = i
        BY <4>1 DEF LiveJobsAreCurrent
      <4>3. jobs[i].resource # job.resource
        BY <3>3, <4>1, <4>2 DEF ResourceMatches, ResourceOf
      <4> QED
        BY <3>2, <4>1, <4>2, <4>3
    <3>7. /\ \A v \in Workers : claims'[v] \in {claims[v], NoClaim}
          /\ \A i \in Jobs : /\ jobs'[i].attempt >= jobs[i].attempt
                             /\ jobs[i].status # "absent" =>
                                    jobs'[i].status # "absent"
      BY <1>0, <2>0, <3>2 DEF TypeOK
    <3> QED
      BY <1>0, <3>5, <3>6, <3>7, TokensKept
  <2> QED
    BY <2>3, <2>4
<1>8. ASSUME NEW w \in Workers, NEW k \in Jobs, NEW t \in Successors,
             Continue(w, k, t)
      PROVE  Fenced'
  <2> DEFINE j   == claims[w].job
             job == jobs[j]
             r   == job.resource
  <2>1. /\ claims[w] # NoClaim /\ Owns(w, j)
        /\ jobs' = [jobs EXCEPT ![j] = CompletedJob(job),
                                ![k] = NewJob(t.name, job.resource, t.first)]
        /\ resources' = WithResource(r, Requested(k, t.name, t.first))
        /\ claims' = [claims EXCEPT ![w] = NoClaim]
        /\ jobs[k].status = "absent"
        /\ j \in Jobs
        /\ r \in Resources
        /\ t.name \in DOMAIN RESOURCE_ACTIONS
        /\ t.first \in Steps
    BY <1>0, <1>8 DEF Continue, JobRow
  <2>2. /\ job.status = "running"
        /\ resources[r].job = j
    BY <2>1 DEF Owns, Owned, ResourceMatches, ResourceOf
  <2>3. /\ jobs'[k] = NewJob(t.name, r, t.first)
        /\ jobs'[j] = CompletedJob(job)
        /\ j # k
        /\ \A i \in Jobs : i # j /\ i # k => jobs'[i] = jobs[i]
    BY <2>1, <2>2 DEF TypeOK
  <2>4. /\ CompletedJob(job).status = "success"
        /\ CompletedJob(job).resource = r
        /\ CompletedJob(job).attempt = job.attempt
        /\ NewJob(t.name, r, t.first).attempt = 0
    BY DEF CompletedJob, JobWith, NewJob
  <2>5. \A i \in Jobs : (i # j /\ jobs[i].status \in {"pending", "running"})
                            => jobs[i].resource # r
    BY <2>1, <2>2 DEF LiveJobsAreCurrent
  <2>6. Linked' /\ LiveJobsAreCurrent'
    <3> HIDE DEF j, job, r
    <3>1. \A i \in Jobs : i # k =>
             /\ jobs'[i].resource = jobs[i].resource
             /\ jobs[i].resource # r => jobs'[i] = jobs[i]
             /\ jobs'[i].status \in {"pending", "running"} =>
                    jobs'[i] = jobs[i] /\ jobs[i].resource # r
      BY <2>3, <2>4, <2>5 DEF job, r
    <3>2. /\ r \in Resources
          /\ t.first \in Steps
          /\ t.name \in DOMAIN RESOURCE_ACTIONS
          /\ jobs[k].status = "absent"
          /\ jobs'[k] = NewJob(t.name, r, t.first)
          /\ resources' = WithResource(r, Requested(k, t.name, t.first))
      BY <2>1, <2>3
    <3>3. Linked /\ LiveJobsAreCurrent
      BY DEF Fenced
    <3> QED
      BY <3>1, <3>2, <3>3, Takeover
  <2>7. TokensAreUnique'
    <3>1. \A v \in Workers : claims[v] # NoClaim => claims[v].job # k
      BY <2>1, SMTT(30) DEF TokensAreUnique
    <3>2. /\ \A v \in Workers : claims'[v] # NoClaim =>
                claims'[v] = claims[v] /\ claims[v] # NoClaim
          /\ \A i \in Jobs : i # k =>
                /\ jobs'[i].attempt = jobs[i].attempt
                /\ jobs[i].status # "absent" => jobs'[i].status # "absent"
      BY <2>1, <2>3, <2>4 DEF TypeOK
    <3> QED
      BY <1>0, <3>1, <3>2 DEF TokensAreUnique
  <2> QED
    BY <2>6, <2>7
<1>9. ASSUME NEW w \in Workers, Defer(w) \/ Fail(w)
      PROVE  Fenced'
  <2> DEFINE j   == claims[w].job
             job == jobs[j]
  <2>1. PICK row, s : /\ Finish(w, row, s)
                      /\ \/ row = DeferredJob(job) /\ s = "pending"
                         \/ row = FailedJob(job) /\ s = "error"
    BY <1>9 DEF Defer, Fail
  <2> DEFINE res == ResourceWith(ResourceOf(job), ResourceOf(job).step, s)
  <2>2. /\ claims[w] # NoClaim /\ Owns(w, j)
        /\ jobs' = [jobs EXCEPT ![j] = row]
        /\ resources' = WithResource(job.resource, res)
        /\ claims' = [claims EXCEPT ![w] = NoClaim]
        /\ j \in Jobs
        /\ job \in JobRow
    BY <1>0, <2>1 DEF Finish
  <2>3. row \in JobRow /\ res \in ResourceRow
    <3>1. PICK any \in Steps : TRUE
      BY <2>2 DEF Owns, Owned, TypeOK
    <3>2. ResourceOf(job) \in ResourceRow
      BY <2>2, ResourceOfType
    <3> QED
      BY <2>1, <2>2, <3>1, <3>2, RowTypes, ResourceWithType
         DEF JobStatus, ResourceRow
  <2>4. /\ row.name = job.name /\ row.resource = job.resource
        /\ row.attempt = job.attempt /\ row.status = s /\ s # "absent"
        /\ row.step = job.step
        /\ res.job = ResourceOf(job).job /\ res.action = ResourceOf(job).action
        /\ res.status = s /\ res.step = ResourceOf(job).step
    BY <2>1 DEF DeferredJob, FailedJob, JobWith, ResourceWith
  <2>5. job.resource # NoResource => ResourceOf(job).step = job.step
    BY <2>2 DEF Owns, Owned, ResourceMatches
  <2>6. OwnerWrites(w, row, res)
    BY <2>2, <2>4, <2>5 DEF OwnerWrites
  <2> HIDE DEF res
  <2> QED
    BY <1>5, <2>3, <2>6
<1>10. ASSUME NEW w \in Workers, Abandon(w) \/ Crash(w)
       PROVE  Fenced'
  <2>1. /\ jobs' = jobs /\ resources' = resources
        /\ \A v \in Workers : claims'[v] \in {claims[v], NoClaim}
    BY <1>10 DEF Abandon, Crash, TypeOK
  <2>2. Linked' /\ LiveJobsAreCurrent'
    BY <2>1 DEF Linked, LiveJobsAreCurrent
  <2> QED
    BY <1>0, <2>1, <2>2, TokensKept
<1>11. ASSUME NEW j \in Jobs, NEW row \in JobRow,
              row \in {HeartbeatJob(jobs[j]), ExpiredJob(jobs[j])},
              jobs' = [jobs EXCEPT ![j] = row],
              resources' = resources, claims' = claims
       PROVE  Fenced'
  <2>1. /\ row.name = jobs[j].name /\ row.resource = jobs[j].resource
        /\ row.step = jobs[j].step /\ row.status = jobs[j].status
        /\ row.attempt = jobs[j].attempt
    BY <1>11 DEF HeartbeatJob, ExpiredJob, JobWith
  <2>2. \A i \in Jobs :
           /\ jobs'[i].name = jobs[i].name
           /\ jobs'[i].resource = jobs[i].resource
           /\ jobs'[i].step = jobs[i].step
           /\ jobs'[i].status = jobs[i].status
           /\ jobs'[i].attempt = jobs[i].attempt
    BY <1>11, <2>1 DEF TypeOK
  <2>3. Linked'
    BY <1>11, <2>2 DEF Linked
  <2>4. LiveJobsAreCurrent'
    BY <1>11, <2>2 DEF LiveJobsAreCurrent
  <2>5. TokensAreUnique'
    BY <1>0, <1>11, <2>2 DEF TokensAreUnique
  <2> QED
    BY <2>3, <2>4, <2>5
<1>12. ASSUME NEW w \in Workers, Heartbeat(w)
       PROVE  Fenced'
  <2>1. claims[w].job \in Jobs /\ HeartbeatJob(jobs[claims[w].job]) \in JobRow
    BY <1>0, <1>12 DEF Heartbeat, TypeOK
  <2> QED
    BY <1>11, <1>12, <2>1 DEF Heartbeat
<1>13. ASSUME NEW j \in Jobs, Expire(j)
       PROVE  Fenced'
  <2>1. ExpiredJob(jobs[j]) \in JobRow
    BY <1>0, <1>13 DEF Expire, TypeOK
  <2> QED
    BY <1>11, <1>13, <2>1 DEF Expire
<1>14. ASSUME NEW s \in Scanners, ScanStart(s) \/ ScanEnd(s)
       PROVE  Fenced'
  <2>1. jobs' = jobs /\ resources' = resources /\ claims' = claims
    BY <1>14 DEF ScanStart, ScanEnd
  <2> QED
    BY <2>1 DEF Linked, LiveJobsAreCurrent, TokensAreUnique
<1>15. ASSUME NEW s \in Scanners, NEW j \in Jobs, ScanJob(s, j)
       PROVE  Fenced'
  <2> DEFINE job == jobs[j]
             old == ResourceOf(job)
             st  == IF job.status = "running" THEN "pending" ELSE old.status
             row == ReclaimedJob(job)
             res == ResourceWith(old, old.step, st)
  <2>1. CASE Retryable(j, job, old, j \in scans[s].stale)
    <3>1. /\ jobs' = [jobs EXCEPT ![j] = row]
          /\ resources' = WithResource(job.resource, res)
          /\ claims' = claims
      BY <1>15, <2>1 DEF ScanJob
    <3>2. /\ ResourceMatches(j, job, old)
          /\ job.status \in {"pending", "running", "error"}
      BY <2>1 DEF Retryable
    <3>3. job \in JobRow /\ old \in ResourceRow /\ job.step \in Steps
      BY <1>0, <3>2, ResourceOfType DEF TypeOK
    <3>4. row \in JobRow /\ res \in ResourceRow
      BY <3>3, RowTypes, ResourceWithType DEF ResourceRow, JobStatus
    <3>5. /\ row.name = job.name /\ row.resource = job.resource
          /\ row.attempt = job.attempt
          /\ row.step = job.step
          /\ row.status = IF job.status = "running" THEN "pending"
                                                    ELSE job.status
          /\ res.job = old.job /\ res.action = old.action
          /\ res.status = st /\ res.step = old.step
      BY DEF ReclaimedJob, DeferredJob, JobWith, ResourceWith
    <3>6. job.resource # NoResource => /\ old.step = job.step
                                       /\ old.status = job.status
      BY <3>2, <3>3 DEF ResourceMatches, ResourceOf, Linked, JobRow
    <3>7. Linked' /\ LiveJobsAreCurrent'
      <4> HIDE DEF row, res
      <4> QED
        BY <3>1, <3>2, <3>3, <3>4, <3>5, <3>6, MirroredUpdate
    <3>8. \A i \in Jobs : /\ jobs'[i].attempt = jobs[i].attempt
                          /\ jobs[i].status # "absent" =>
                                 jobs'[i].status # "absent"
      BY <3>1, <3>2, <3>5 DEF TypeOK
    <3>9. TokensAreUnique'
      BY <1>0, <3>1, <3>8 DEF TokensAreUnique
    <3> QED
      BY <3>7, <3>9
  <2>2. CASE ~Retryable(j, job, old, j \in scans[s].stale)
    BY <1>15, <2>2 DEF ScanJob, Linked, LiveJobsAreCurrent, TokensAreUnique
  <2> QED
    BY <2>1, <2>2
<1>16. CASE UNCHANGED vars
  BY <1>16 DEF vars, Linked, LiveJobsAreCurrent, TokensAreUnique
<1> QED
  BY <1>1, <1>2, <1>3, <1>4, <1>6, <1>7, <1>8, <1>9, <1>10, <1>12, <1>13,
     <1>14, <1>15, <1>16 DEF Next

\* Every reachable state of the engine is fenced: resource and job rows mirror
\* each other, live jobs own their resource and attempt tokens are unique.
THEOREM FencedCorrect == Spec => []Fenced
<1>1. Init => Fenced
  BY DEF Init, Fenced, Linked, LiveJobsAreCurrent, TokensAreUnique, AbsentJob,
         AbsentResource
<1>2. TypeOK /\ TypeOK' /\ Fenced /\ [Next]_vars => Fenced'
  BY FencedStep
<1> QED
  BY <1>1, <1>2, TypeCorrect, PTL DEF Spec

\* Every row names a job: the requests that make rows make their job with them.
RowsAreBound ==
    \A r \in Resources : resources[r].status # "absent" => resources[r].job \in Jobs

\* A step of the engine changes the job of a row only for a new one.
LEMMA BoundStep ==
    ASSUME TypeOK, RowsAreBound, [Next]_vars
    PROVE  RowsAreBound'
<1>1. ASSUME NEW x, NEW k \in Jobs, NEW name, NEW first,
             resources' = WithResource(x, Requested(k, name, first))
      PROVE  RowsAreBound'
  BY <1>1 DEF WithResource, Requested, RowsAreBound
<1>2. ASSUME NEW i \in Jobs, NEW step, NEW status,
             ResourceMatches(i, jobs[i], ResourceOf(jobs[i])),
             resources' = WithResource(jobs[i].resource,
                             ResourceWith(ResourceOf(jobs[i]), step, status))
      PROVE  RowsAreBound'
  BY <1>2 DEF WithResource, ResourceWith, ResourceOf, ResourceMatches,
              RowsAreBound
<1>3. ASSUME NEW x, resources' = WithResource(x, AbsentResource)
      PROVE  RowsAreBound'
  BY <1>3 DEF WithResource, AbsentResource, RowsAreBound
<1>4. resources' = resources => RowsAreBound'
  BY DEF RowsAreBound
<1>5. ASSUME NEW w \in Workers, claims[w] # NoClaim, Owns(w, claims[w].job)
      PROVE  /\ claims[w].job \in Jobs
             /\ ResourceMatches(claims[w].job, jobs[claims[w].job],
                                ResourceOf(jobs[claims[w].job]))
  BY <1>5 DEF TypeOK, Claims, Owns, Owned
<1>6. ASSUME NEW j \in Jobs, NEW r \in Resources, NEW t \in Transitions,
             Request(j, r, t)
      PROVE  RowsAreBound'
  BY <1>1, <1>6 DEF Request
<1>7. ASSUME NEW w \in Workers, NEW m \in queue, Claim(w, m)
      PROVE  RowsAreBound'
  <2>1. m[1] \in Jobs
    BY DEF TypeOK
  <2> QED
    BY <1>2, <1>7, <2>1 DEF Claim, Claimable
<1>8. ASSUME NEW w \in Workers, NEW next \in Steps, Advance(w, next)
      PROVE  RowsAreBound'
  BY <1>2, <1>5, <1>8 DEF Advance
<1>9. ASSUME NEW w \in Workers, Complete(w)
      PROVE  RowsAreBound'
  <2>1. CASE jobs[claims[w].job].step \in DeletingSteps
    BY <1>3, <1>9, <2>1 DEF Complete
  <2>2. CASE jobs[claims[w].job].step \notin DeletingSteps
    BY <1>2, <1>5, <1>9, <2>2 DEF Complete
  <2> QED
    BY <2>1, <2>2
<1>10. ASSUME NEW w \in Workers, NEW k \in Jobs, NEW t \in Successors,
              Continue(w, k, t)
       PROVE  RowsAreBound'
  BY <1>1, <1>10 DEF Continue
<1>11. ASSUME NEW w \in Workers, Defer(w) \/ Fail(w)
       PROVE  RowsAreBound'
  BY <1>2, <1>5, <1>11 DEF Defer, Fail, Finish
<1>12. ASSUME NEW s \in Scanners, NEW j \in Jobs, ScanJob(s, j)
       PROVE  RowsAreBound'
  <2>1. CASE Retryable(j, jobs[j], ResourceOf(jobs[j]), j \in scans[s].stale)
    BY <1>2, <1>12, <2>1 DEF ScanJob, Retryable
  <2>2. CASE ~Retryable(j, jobs[j], ResourceOf(jobs[j]), j \in scans[s].stale)
    BY <1>4, <1>12, <2>2 DEF ScanJob
  <2> QED
    BY <2>1, <2>2
<1> QED
  BY <1>4, <1>6, <1>7, <1>8, <1>9, <1>10, <1>11, <1>12
     DEF Next, vars, RequestSystem, IgnoreDelivery, Abandon, Heartbeat, Expire,
         Crash, Lose, ScanStart, ScanEnd

\* A resource row and the job it names always agree.
THEOREM MirrorCorrect == Spec => []Mirror
<1>1. Init => RowsAreBound
  BY DEF Init, RowsAreBound, AbsentResource
<1>2. TypeOK /\ RowsAreBound /\ [Next]_vars => RowsAreBound'
  BY BoundStep
<1>3. Fenced /\ RowsAreBound => Mirror
  BY DEF Fenced, Linked, RowsAreBound, Mirror
<1> QED
  BY <1>1, <1>2, <1>3, TypeCorrect, FencedCorrect, PTL DEF Spec

\* A pending or running job is the one its resource names: no request hands the
\* resource over under it.
THEOREM LiveJobsCorrect == Spec => []LiveJobsAreCurrent
<1>1. Fenced => LiveJobsAreCurrent
  BY DEF Fenced
<1> QED
  BY <1>1, FencedCorrect, PTL

\* No two workers ever hold the same job, step and attempt, however often a
\* delivery is repeated or a claim is reclaimed.
THEOREM TokensCorrect == Spec => []TokensAreUnique
<1>1. Fenced => TokensAreUnique
  BY DEF Fenced
<1> QED
  BY <1>1, FencedCorrect, PTL

\* Two owners of one resource would hold the same token.
LEMMA FencedOwners == TypeOK /\ Fenced => OneOwnerPerResource
<1> SUFFICES ASSUME TypeOK, Fenced, NEW v \in Workers, NEW w \in Workers,
                    claims[v] # NoClaim, Owns(v, claims[v].job),
                    claims[w] # NoClaim, Owns(w, claims[w].job),
                    \/ claims[v].job = claims[w].job
                    \/ /\ jobs[claims[v].job].resource =
                              jobs[claims[w].job].resource
                       /\ jobs[claims[v].job].resource # NoResource
             PROVE  v = w
  BY DEF OneOwnerPerResource
<1>1. claims[v].job \in Jobs /\ claims[w].job \in Jobs
  BY DEF TypeOK, Claims
<1>2. claims[v].job = claims[w].job
  BY <1>1 DEF Owns, Owned, ResourceMatches, ResourceOf, TypeOK, JobRow
<1>3. claims[v].attempt = claims[w].attempt
  BY <1>2 DEF Owns, Owned
<1> QED
  BY <1>2, <1>3 DEF Fenced, TokensAreUnique

\* At most one worker at a time can commit anything for a resource, whatever
\* the number of workers, jobs, steps and redeliveries.
THEOREM OneOwner == Spec => []OneOwnerPerResource
  BY FencedOwners, TypeCorrect, FencedCorrect, PTL

-----------------------------------------------------------------------------
(***************************************************************************)
(* What a step may never do.                                               *)
(***************************************************************************)

\* A claim that a recovery scan regards as stale has expired, unless the claim
\* was given up in the meantime.
StaleScans ==
    \A s \in Scanners, j \in Jobs :
        (j \in scans[s].stale /\ jobs[j].status = "running") =>
            jobs[j].claimed = "expired"

\* A job is made running, or its claim fresh, only together with Refresh.
LEMMA StaleScansCorrect == Spec => []StaleScans
<1>1. Init => StaleScans
  BY DEF Init, StaleScans, IdleScan, ScanState
<1>2. TypeOK /\ StaleScans /\ [Next]_vars => StaleScans'
  <2> SUFFICES ASSUME TypeOK, StaleScans, [Next]_vars
               PROVE  StaleScans'
    OBVIOUS
  <2>1. ASSUME NEW j \in Jobs,
               scans' = scans \/ Refresh(j),
               \A i \in Jobs : i # j => jobs'[i] = jobs[i],
               \/ jobs'[j].status # "running"
               \/ jobs'[j] = jobs[j]
               \/ jobs'[j].claimed = "expired"
               \/ Refresh(j)
        PROVE  StaleScans'
    BY <2>1 DEF StaleScans, Refresh, ScanState
  <2>2. ASSUME NEW j \in Jobs, NEW t \in Transitions,
               (\E r \in Resources : Request(j, r, t)) \/ RequestSystem(j, t)
        PROVE  StaleScans'
    BY <2>1, <2>2 DEF Request, RequestSystem, NewJob, TypeOK
  <2>3. ASSUME NEW w \in Workers, NEW m \in queue, Claim(w, m)
        PROVE  StaleScans'
    <3>1. m[1] \in Jobs
      BY DEF TypeOK
    <3> QED
      BY <2>1, <2>3, <3>1 DEF Claim, TypeOK
  <2>4. ASSUME NEW w \in Workers, NEW row, claims[w] # NoClaim,
               row.status # "running", scans' = scans,
               jobs' = [jobs EXCEPT ![claims[w].job] = row]
        PROVE  StaleScans'
    <3>1. claims[w].job \in Jobs
      BY <2>4 DEF TypeOK, Claims
    <3> QED
      BY <2>1, <2>4, <3>1 DEF TypeOK
  <2>5. ASSUME NEW w \in Workers, NEW next \in Steps, Advance(w, next)
        PROVE  StaleScans'
    <3>1. AdvancedJob(jobs[claims[w].job], next).status # "running"
      BY DEF AdvancedJob, JobWith
    <3> QED
      BY <2>4, <2>5, <3>1 DEF Advance
  <2>6. ASSUME NEW w \in Workers, Complete(w)
        PROVE  StaleScans'
    <3>1. CompletedJob(jobs[claims[w].job]).status # "running"
      BY DEF CompletedJob, JobWith
    <3> QED
      BY <2>4, <2>6, <3>1 DEF Complete
  <2>7. ASSUME NEW w \in Workers, NEW k \in Jobs, NEW t \in Successors,
               Continue(w, k, t)
        PROVE  StaleScans'
    <3>1. claims[w].job \in Jobs
      BY <2>7 DEF Continue, TypeOK, Claims
    <3>2. /\ CompletedJob(jobs[claims[w].job]).status # "running"
          /\ NewJob(t.name, jobs[claims[w].job].resource, t.first).status
                 # "running"
      BY DEF CompletedJob, JobWith, NewJob
    <3>3. \A i \in Jobs : jobs'[i].status = "running" => jobs'[i] = jobs[i]
      BY <2>7, <3>1, <3>2 DEF Continue, TypeOK
    <3>4. scans' = scans
      BY <2>7 DEF Continue
    <3> QED
      BY <3>3, <3>4 DEF StaleScans
  <2>8. ASSUME NEW w \in Workers, Defer(w) \/ Fail(w)
        PROVE  StaleScans'
    <3>1. /\ DeferredJob(jobs[claims[w].job]).status # "running"
          /\ FailedJob(jobs[claims[w].job]).status # "running"
      BY DEF DeferredJob, FailedJob, JobWith
    <3> QED
      BY <2>4, <2>8, <3>1 DEF Defer, Fail, Finish
  <2>9. ASSUME NEW w \in Workers, Heartbeat(w)
        PROVE  StaleScans'
    <3>1. claims[w].job \in Jobs
      BY <2>9 DEF Heartbeat, TypeOK, Claims
    <3> QED
      BY <2>1, <2>9, <3>1 DEF Heartbeat, TypeOK
  <2>10. ASSUME NEW j \in Jobs, Expire(j)
         PROVE  StaleScans'
    <3>1. ExpiredJob(jobs[j]).claimed = "expired"
      BY DEF ExpiredJob, JobWith
    <3> QED
      BY <2>1, <2>10, <3>1 DEF Expire, TypeOK
  <2>11. ASSUME NEW s \in Scanners, ScanStart(s)
         PROVE  StaleScans'
    <3>1. \A x \in Scanners : x # s => scans'[x] = scans[x]
      BY <2>11 DEF ScanStart, TypeOK
    <3>2. /\ jobs' = jobs
          /\ scans'[s].stale = {j \in Jobs : /\ jobs[j].status = "running"
                                             /\ jobs[j].claimed = "expired"}
      BY <2>11 DEF ScanStart, ScanState, TypeOK
    <3> QED
      BY <3>1, <3>2 DEF StaleScans
  <2>12. ASSUME NEW s \in Scanners, ScanEnd(s)
         PROVE  StaleScans'
    <3>1. \A x \in Scanners : x # s => scans'[x] = scans[x]
      BY <2>12 DEF ScanEnd, TypeOK
    <3>2. jobs' = jobs /\ scans'[s].stale = {}
      BY <2>12 DEF ScanEnd, IdleScan, ScanState, TypeOK
    <3> QED
      BY <3>1, <3>2 DEF StaleScans
  <2>13. ASSUME NEW s \in Scanners, NEW j \in Jobs, ScanJob(s, j)
         PROVE  StaleScans'
    <3>1. \A x \in Scanners : scans'[x].stale = scans[x].stale
      BY <2>13 DEF ScanJob, ScanState, TypeOK
    <3>2. jobs' = [jobs EXCEPT ![j] = ReclaimedJob(jobs[j])] \/ jobs' = jobs
      BY <2>13 DEF ScanJob
    <3>3. ReclaimedJob(jobs[j]).status # "running"
             \/ ReclaimedJob(jobs[j]) = jobs[j]
      BY DEF ReclaimedJob, DeferredJob, JobWith
    <3>4. \A i \in Jobs : jobs'[i].status = "running" => jobs'[i] = jobs[i]
      BY <3>2, <3>3 DEF TypeOK
    <3> QED
      BY <3>1, <3>4 DEF StaleScans
  <2>14. ASSUME jobs' = jobs, scans' = scans
         PROVE  StaleScans'
    BY <2>14 DEF StaleScans
  <2> QED
    BY <2>2, <2>3, <2>5, <2>6, <2>7, <2>8, <2>9, <2>10, <2>11, <2>12,
       <2>13, <2>14
       DEF Next, IgnoreDelivery, Abandon, Crash, Lose, vars
<1> QED
  BY <1>1, <1>2, TypeCorrect, PTL DEF Spec

\* No scan takes a job from a live owner with an unexpired claim: only the
\* owner itself ends such an attempt.
THEOREM FreshClaims == Spec => FreshClaimsAreKept
<1>1. TypeOK /\ StaleScans /\ [Next]_vars => [KeepsFreshClaims]_vars
  <2> SUFFICES ASSUME TypeOK, StaleScans, Next,
                      NEW j \in Jobs,
                      jobs[j].status = "running", jobs[j].claimed = "fresh",
                      jobs'[j].status # "running"
               PROVE  \E w \in Workers : Owns(w, j) /\ claims'[w] = NoClaim
    BY DEF KeepsFreshClaims
  <2>1. ASSUME NEW w \in Workers, NEW row, claims[w] # NoClaim,
               Owns(w, claims[w].job),
               jobs' = [jobs EXCEPT ![claims[w].job] = row],
               claims' = [claims EXCEPT ![w] = NoClaim]
        PROVE  Owns(w, j) /\ claims'[w] = NoClaim
    BY <2>1 DEF TypeOK
  <2>2. ASSUME NEW k \in Jobs, jobs[k].status # "running", NEW row,
               jobs' = [jobs EXCEPT ![k] = row]
        PROVE  FALSE
    BY <2>2 DEF TypeOK
  <2>3. ASSUME NEW k \in Jobs, NEW row, row.status = jobs[k].status,
               jobs' = [jobs EXCEPT ![k] = row]
        PROVE  FALSE
    BY <2>3 DEF TypeOK
  <2>4. ASSUME NEW k \in Jobs, NEW t \in Transitions,
               (\E r \in Resources : Request(k, r, t)) \/ RequestSystem(k, t)
        PROVE  FALSE
    BY <2>2, <2>4 DEF Request, RequestSystem
  <2>5. ASSUME NEW w \in Workers, NEW m \in queue, Claim(w, m)
        PROVE  FALSE
    <3>1. m[1] \in Jobs /\ jobs[m[1]].status # "running"
      BY <2>5 DEF TypeOK, Claim, Claimable
    <3> QED
      BY <2>2, <2>5, <3>1 DEF Claim
  <2>6. ASSUME NEW w \in Workers,
               \/ \E next \in Steps : Advance(w, next)
               \/ Complete(w) \/ Defer(w) \/ Fail(w)
        PROVE  Owns(w, j) /\ claims'[w] = NoClaim
    BY <2>1, <2>6 DEF Advance, Complete, Defer, Fail, Finish
  <2>7. ASSUME NEW w \in Workers, NEW k \in Jobs, NEW t \in Successors,
               Continue(w, k, t)
        PROVE  Owns(w, j) /\ claims'[w] = NoClaim
    <3>1. jobs[k].status = "absent" /\ claims[w].job \in Jobs
      BY <2>7 DEF Continue, TypeOK, Claims
    <3>2. j = claims[w].job
      BY <2>7, <3>1 DEF Continue, TypeOK
    <3> QED
      BY <2>7, <3>2 DEF Continue, TypeOK
  <2>8. ASSUME NEW w \in Workers, Heartbeat(w)
        PROVE  FALSE
    <3>1. /\ claims[w].job \in Jobs
          /\ HeartbeatJob(jobs[claims[w].job]).status
                = jobs[claims[w].job].status
      BY <2>8 DEF Heartbeat, HeartbeatJob, JobWith, TypeOK, Claims
    <3> QED
      BY <2>3, <2>8, <3>1 DEF Heartbeat
  <2>9. ASSUME NEW k \in Jobs, Expire(k)
        PROVE  FALSE
    <3>1. ExpiredJob(jobs[k]).status = jobs[k].status
      BY DEF ExpiredJob, JobWith
    <3> QED
      BY <2>3, <2>9, <3>1 DEF Expire
  <2>10. ASSUME NEW s \in Scanners, NEW k \in Jobs, ScanJob(s, k)
         PROVE  FALSE
    <3>1. CASE Retryable(k, jobs[k], ResourceOf(jobs[k]), k \in scans[s].stale)
      <4>1. jobs' = [jobs EXCEPT ![k] = ReclaimedJob(jobs[k])]
        BY <2>10, <3>1 DEF ScanJob
      <4>2. j = k
        BY <4>1 DEF TypeOK
      <4>3. k \in scans[s].stale
        BY <3>1, <4>2 DEF Retryable
      <4> QED
        BY <4>2, <4>3 DEF StaleScans
    <3>2. CASE ~Retryable(k, jobs[k], ResourceOf(jobs[k]),
                          k \in scans[s].stale)
      <4>1. jobs' = jobs
        BY <2>10, <3>2 DEF ScanJob
      <4> QED
        BY <4>1
    <3> QED
      BY <3>1, <3>2
  <2>11. jobs' = jobs => FALSE
    OBVIOUS
  <2> QED
    BY <2>4, <2>5, <2>6, <2>7, <2>8, <2>9, <2>10, <2>11
       DEF Next, IgnoreDelivery, Abandon, Crash, Lose, ScanStart, ScanEnd
<1> QED
  BY <1>1, TypeCorrect, StaleScansCorrect, PTL DEF Spec, FreshClaimsAreKept

\* A resource changes hands only when nobody owns its job, or by the owner's
\* own completion.
THEOREM NoHandover == Spec => NoHandoverWhileOwned
<1>1. TypeOK /\ Fenced /\ OneOwnerPerResource /\ [Next]_vars
         => [HandsOverUnowned]_vars
  <2> SUFFICES ASSUME TypeOK, Fenced, OneOwnerPerResource, Next,
                      NEW r \in Resources, NEW w \in Workers,
                      resources'[r].job # resources[r].job,
                      resources[r].status # "absent",
                      Owns(w, resources[r].job)
               PROVE  claims'[w] = NoClaim
    BY DEF HandsOverUnowned
  <2> DEFINE j == resources[r].job
  <2>1. /\ j \in Jobs
        /\ jobs[j].resource = r
        /\ resources[r].status = "running"
        /\ claims[w].job = j /\ claims[w] # NoClaim
    BY DEF Fenced, Linked, Owns, Owned, TypeOK, Claims
  <2>2. ASSUME NEW x, NEW row, resources' = WithResource(x, row)
        PROVE  x = r /\ row.job # resources[r].job
    BY <2>2 DEF WithResource
  <2>3. ASSUME NEW i \in Jobs, NEW step, NEW status,
               resources' = WithResource(jobs[i].resource,
                               ResourceWith(ResourceOf(jobs[i]), step, status))
        PROVE  FALSE
    <3>1. jobs[i].resource = r
      BY <2>2, <2>3
    <3>2. ResourceOf(jobs[i]) = resources[r]
      BY <3>1 DEF ResourceOf
    <3>3. ResourceWith(ResourceOf(jobs[i]), step, status).job
             = resources[r].job
      BY <3>2 DEF ResourceWith
    <3> QED
      BY <2>2, <2>3, <3>3
  <2>4. ASSUME NEW v \in Workers, NEW row, claims[v] # NoClaim,
               Owns(v, claims[v].job),
               resources' = WithResource(jobs[claims[v].job].resource, row),
               claims' = [claims EXCEPT ![v] = NoClaim]
        PROVE  claims'[w] = NoClaim
    <3>1. claims[v].job \in Jobs /\ jobs[claims[v].job].resource = r
      BY <2>2, <2>4 DEF TypeOK, Claims
    <3>2. v = w
      BY <2>1, <2>4, <3>1 DEF OneOwnerPerResource
    <3> QED
      BY <2>4, <3>2 DEF TypeOK
  <2>5. \A v \in Workers : claims[v] # NoClaim => claims[v].job \in Jobs
    BY DEF TypeOK, Claims
  <2>6. ASSUME NEW k \in Jobs, NEW x \in Resources, NEW t \in Transitions,
               Request(k, x, t)
        PROVE  FALSE
    <3>1. x = r
      BY <2>2, <2>6 DEF Request
    <3> QED
      BY <2>1, <2>6, <3>1 DEF Request
  <2>7. ASSUME NEW v \in Workers, NEW m \in queue, Claim(v, m)
        PROVE  FALSE
    <3>1. m[1] \in Jobs
      BY DEF TypeOK
    <3> QED
      BY <2>3, <2>7, <3>1 DEF Claim
  <2>8. ASSUME NEW v \in Workers,
               \/ \E next \in Steps : Advance(v, next)
               \/ Defer(v) \/ Fail(v)
        PROVE  FALSE
    BY <2>3, <2>5, <2>8 DEF Advance, Defer, Fail, Finish
  <2>9. ASSUME NEW v \in Workers,
               \/ Complete(v)
               \/ \E k \in Jobs, t \in Successors : Continue(v, k, t)
        PROVE  claims'[w] = NoClaim
    BY <2>4, <2>9 DEF Complete, Continue
  <2>10. ASSUME NEW s \in Scanners, NEW k \in Jobs, ScanJob(s, k)
         PROVE  FALSE
    <3>1. resources' # resources
      OBVIOUS
    <3>2. CASE Retryable(k, jobs[k], ResourceOf(jobs[k]), k \in scans[s].stale)
      BY <2>3, <2>10, <3>2 DEF ScanJob
    <3>3. CASE ~Retryable(k, jobs[k], ResourceOf(jobs[k]),
                          k \in scans[s].stale)
      BY <2>10, <3>1, <3>3 DEF ScanJob
    <3> QED
      BY <3>2, <3>3
  <2>11. resources' = resources => FALSE
    OBVIOUS
  <2> QED
    BY <2>6, <2>7, <2>8, <2>9, <2>10, <2>11
       DEF Next, RequestSystem, IgnoreDelivery, Abandon, Heartbeat, Expire,
           Crash, Lose, ScanStart, ScanEnd
<1> QED
  BY <1>1, TypeCorrect, FencedCorrect, OneOwner, PTL
     DEF Spec, NoHandoverWhileOwned

-----------------------------------------------------------------------------
(***************************************************************************)
(* The job engine implements DurableWorkflow under the mapping Workflow of *)
(* JobExecution: a job's progress is its step until it succeeds, and the   *)
(* owner of a resource is its job_id.                                      *)
(***************************************************************************)

\* The mapped variables.
Progressed == [j \in Jobs |-> Milestone(jobs[j])]
Bound == [j \in Jobs |-> jobs[j].resource]
Owner == [r \in Resources |-> resources[r].job]

-----------------------------------------------------------------------------
\* A step that moves no milestone, binds no job and hands nothing over is
\* invisible.
LEMMA Invisible ==
    ASSUME \A j \in Jobs : /\ Milestone(jobs'[j]) = Milestone(jobs[j])
                           /\ jobs'[j].resource = jobs[j].resource,
           \A r \in Resources : resources'[r].job = resources[r].job
    PROVE  UNCHANGED <<Progressed, Bound, Owner>>
BY DEF Progressed, Bound, Owner

\* A transition that rewrites one job row in place, keeping its milestone.
LEMMA InvisibleRow ==
    ASSUME TypeOK, NEW j \in Jobs, NEW row,
           Milestone(row) = Milestone(jobs[j]),
           row.resource = jobs[j].resource,
           jobs' = [jobs EXCEPT ![j] = row],
           \A r \in Resources : resources'[r].job = resources[r].job
    PROVE  UNCHANGED <<Progressed, Bound, Owner>>
BY Invisible DEF TypeOK

\* Mirroring a status on the resource of a job keeps every owner.
LEMMA OwnersKept ==
    ASSUME NEW j \in Jobs, NEW step, NEW status,
           resources' = WithResource(jobs[j].resource,
                           ResourceWith(ResourceOf(jobs[j]), step, status))
    PROVE  \A r \in Resources : resources'[r].job = resources[r].job
BY DEF WithResource, ResourceWith, ResourceOf

\* The owner of a claim is current in the abstract sense.
LEMMA OwnerIsCurrent ==
    ASSUME TypeOK, NEW w \in Workers, claims[w] # NoClaim,
           Owns(w, claims[w].job)
    PROVE  /\ claims[w].job \in Jobs
           /\ jobs[claims[w].job].status = "running"
           /\ Milestone(jobs[claims[w].job]) = jobs[claims[w].job].step
           /\ Workflow!Current(claims[w].job)
<1>1. claims[w].job \in Jobs /\ jobs[claims[w].job].status = "running"
  BY DEF TypeOK, Claims, Owns, Owned
<1>2. ResourceMatches(claims[w].job, jobs[claims[w].job],
                      ResourceOf(jobs[claims[w].job]))
  BY DEF Owns, Owned
<1> QED
  BY <1>1, <1>2 DEF Milestone, Workflow!Current, ResourceMatches, ResourceOf,
                    AbsentResource, TypeOK, JobRow

-----------------------------------------------------------------------------
\* The engine implements the abstract workflow: every step of it is one
\* acceptance, one commit of the current job, or invisible.
THEOREM Refinement == Spec => ImplementsWorkflow
<1>1. Init => Workflow!AInit
  BY DEF Init, Workflow!AInit, Milestone, AbsentJob, AbsentResource
<1>2. TypeOK /\ Fenced /\ [Next]_vars => [Workflow!ANext]_(Workflow!avars)
  <2> SUFFICES ASSUME TypeOK, Fenced, [Next]_vars
               PROVE  \/ Workflow!ANext
                      \/ UNCHANGED <<Progressed, Bound, Owner>>
    BY DEF Workflow!avars, Progressed, Bound, Owner
  <2>1. ASSUME NEW j \in Jobs, NEW t \in Transitions,
               NEW r \in Resources \cup {NoResource},
               jobs[j].status = "absent",
               jobs' = [jobs EXCEPT ![j] = NewJob(t.name, r, t.first)],
               \A x \in Resources :
                   resources'[x].job = IF x = r THEN j ELSE resources[x].job
        PROVE  Workflow!ANext
    <3>1. /\ Milestone(jobs[j]) = "absent"
          /\ Milestone(NewJob(t.name, r, t.first)) = t.first
          /\ NewJob(t.name, r, t.first).resource = r
      BY <2>1 DEF Milestone, NewJob
    <3>2. /\ Progressed' = [Progressed EXCEPT ![j] = t.first]
          /\ Bound' = [Bound EXCEPT ![j] = r]
          /\ Owner' = [x \in Resources |-> IF x = r THEN j ELSE Owner[x]]
      BY <2>1, <3>1 DEF Progressed, Bound, Owner, TypeOK
    <3>3. Workflow!AAccept(j, r)
      BY <3>1, <3>2 DEF Workflow!AAccept, Progressed, Bound, Owner
    <3> QED
      BY <3>3 DEF Workflow!ANext
  <2>2. ASSUME NEW j \in Jobs, NEW r \in Resources, NEW t \in Transitions,
               Request(j, r, t)
        PROVE  Workflow!ANext
    <3>1. \A x \in Resources :
             resources'[x].job = IF x = r THEN j ELSE resources[x].job
      BY <2>2 DEF Request, WithResource, Requested
    <3>2. /\ r \in Resources \cup {NoResource}
          /\ jobs[j].status = "absent"
          /\ jobs' = [jobs EXCEPT ![j] = NewJob(t.name, r, t.first)]
      BY <2>2 DEF Request
    <3> QED
      BY <2>1, <3>1, <3>2, Zenon
  <2>3. ASSUME NEW j \in Jobs, NEW t \in Transitions, RequestSystem(j, t)
        PROVE  Workflow!ANext
    <3>1. \A x \in Resources :
             resources'[x].job = IF x = NoResource THEN j ELSE resources[x].job
      BY <2>3 DEF RequestSystem
    <3>2. /\ NoResource \in Resources \cup {NoResource}
          /\ jobs[j].status = "absent"
          /\ jobs' = [jobs EXCEPT ![j] = NewJob(t.name, NoResource, t.first)]
      BY <2>3 DEF RequestSystem
    <3> QED
      BY <2>1, <3>1, <3>2, Zenon
  <2>4. ASSUME NEW w \in Workers, NEW m \in queue, Claim(w, m)
        PROVE  UNCHANGED <<Progressed, Bound, Owner>>
    <3>1. m[1] \in Jobs
      BY DEF TypeOK
    <3>2. /\ Milestone(ClaimedJob(jobs[m[1]])) = Milestone(jobs[m[1]])
          /\ ClaimedJob(jobs[m[1]]).resource = jobs[m[1]].resource
      BY <2>4 DEF Claim, Claimable, ClaimedJob, JobWith, Milestone
    <3>3. \A r \in Resources : resources'[r].job = resources[r].job
      BY <2>4, <3>1, OwnersKept DEF Claim
    <3> QED
      BY <2>4, <3>1, <3>2, <3>3, InvisibleRow DEF Claim
  <2>5. ASSUME NEW w \in Workers, NEW next \in Steps, Advance(w, next)
        PROVE  Workflow!ANext
    <3> DEFINE j   == claims[w].job
               job == jobs[j]
    <3>1. j \in Jobs /\ Milestone(job) = job.step /\ Workflow!Current(j)
      BY <2>5, OwnerIsCurrent DEF Advance
    <3>2. /\ Milestone(AdvancedJob(job, next)) = next
          /\ AdvancedJob(job, next).resource = job.resource
      BY DEF AdvancedJob, JobWith, Milestone
    <3>3. \A r \in Resources : resources'[r].job = resources[r].job
      BY <2>5, <3>1, OwnersKept DEF Advance
    <3>4. jobs' = [jobs EXCEPT ![j] = AdvancedJob(job, next)]
             /\ <<job.step, next>> \in NextSteps
      BY <2>5 DEF Advance
    <3> HIDE DEF j, job
    <3>5. /\ Progressed' = [Progressed EXCEPT ![j] = next]
          /\ Bound' = Bound
          /\ Owner' = Owner
      BY <3>1, <3>2, <3>3, <3>4 DEF Progressed, Bound, Owner, TypeOK, job
    <3>6. Progressed[j] = job.step
      BY <3>1 DEF Progressed, job
    <3>7. Workflow!AAdvance(j)
      BY <3>1, <3>4, <3>5, <3>6
         DEF Workflow!AAdvance, Progressed, Bound, Owner
    <3> QED
      BY <3>1, <3>7 DEF Workflow!ANext
  <2>6. ASSUME NEW w \in Workers, Complete(w)
        PROVE  Workflow!ANext
    <3> DEFINE j   == claims[w].job
               job == jobs[j]
    <3>1. j \in Jobs /\ Milestone(job) = job.step /\ Workflow!Current(j)
      BY <2>6, OwnerIsCurrent DEF Complete
    <3>2. /\ Milestone(CompletedJob(job)) = "done"
          /\ CompletedJob(job).resource = job.resource
      BY DEF CompletedJob, JobWith, Milestone
    <3>3. /\ jobs' = [jobs EXCEPT ![j] = CompletedJob(job)]
          /\ job.step \in FinalSteps
      BY <2>6 DEF Complete
    <3>4. \A x \in Resources : resources'[x].job =
             IF x = job.resource /\ job.step \in DeletingSteps
             THEN NoJob ELSE resources[x].job
      BY <2>6 DEF Complete, WithResource, AbsentResource, ResourceWith,
                  ResourceOf
    <3> HIDE DEF j, job
    <3>5. Progressed[j] = job.step /\ Bound[j] = job.resource
      BY <3>1 DEF Progressed, Bound, job
    <3>6. /\ Progressed' = [Progressed EXCEPT ![j] = "done"]
          /\ Bound' = Bound
          /\ Owner' = [x \in Resources |->
                         IF x = Bound[j] /\ Progressed[j] \in DeletingSteps
                         THEN NoJob ELSE Owner[x]]
      <4>1. Progressed' = [Progressed EXCEPT ![j] = "done"] /\ Bound' = Bound
        BY <3>1, <3>2, <3>3 DEF Progressed, Bound, TypeOK, job
      <4>2. Owner' = [x \in Resources |->
                         IF x = Bound[j] /\ Progressed[j] \in DeletingSteps
                         THEN NoJob ELSE Owner[x]]
        BY <3>4, <3>5 DEF Owner
      <4> QED
        BY <4>1, <4>2
    <3>7. PICK i \in Jobs : i = j
      BY <3>1
    <3>8. Workflow!AComplete(i)
      BY <3>1, <3>3, <3>5, <3>6, <3>7
         DEF Workflow!AComplete, Progressed, Bound, Owner
    <3> QED
      BY <3>8 DEF Workflow!ANext
  <2>7. ASSUME NEW w \in Workers, NEW k \in Jobs, NEW t \in Successors,
               Continue(w, k, t)
        PROVE  Workflow!ANext
    <3> DEFINE j   == claims[w].job
               job == jobs[j]
    <3>1. /\ j \in Jobs /\ Milestone(job) = job.step /\ Workflow!Current(j)
          /\ job.status = "running"
      BY <2>7, OwnerIsCurrent DEF Continue
    <3>2. /\ Milestone(CompletedJob(job)) = "done"
          /\ CompletedJob(job).resource = job.resource
          /\ Milestone(NewJob(t.name, job.resource, t.first)) = t.first
          /\ NewJob(t.name, job.resource, t.first).resource = job.resource
      BY DEF CompletedJob, JobWith, NewJob, Milestone
    <3>3. /\ jobs' = [jobs EXCEPT
                        ![j] = CompletedJob(job),
                        ![k] = NewJob(t.name, job.resource, t.first)]
          /\ job.step = t.step
          /\ jobs[k].status = "absent"
      BY <2>7 DEF Continue
    <3>4. \A x \in Resources : resources'[x].job =
             IF x = job.resource THEN k ELSE resources[x].job
      BY <2>7 DEF Continue, WithResource, Requested
    <3>5. k # j
      BY <3>1, <3>3
    <3> HIDE DEF j, job
    <3>6. /\ Progressed[j] = job.step /\ Bound[j] = job.resource
          /\ Progressed[k] = "absent"
      BY <3>1, <3>3 DEF Progressed, Bound, Milestone, job
    <3>7. Progressed' = [Progressed EXCEPT ![j] = "done", ![k] = t.first]
      BY <3>1, <3>2, <3>3, <3>5 DEF Progressed, TypeOK
    <3>8. Bound' = [Bound EXCEPT ![k] = Bound[j]]
      BY <3>1, <3>2, <3>3, <3>5, <3>6 DEF Bound, TypeOK, job
    <3>9. Owner' = [x \in Resources |-> IF x = Bound[j] THEN k ELSE Owner[x]]
      BY <3>4, <3>6 DEF Owner
    <3>10. Workflow!AContinue(j, k)
      BY <3>1, <3>3, <3>5, <3>6, <3>7, <3>8, <3>9
         DEF Workflow!AContinue, Progressed, Bound, Owner
    <3> QED
      BY <3>1, <3>10 DEF Workflow!ANext
  <2>8. ASSUME NEW w \in Workers, Defer(w) \/ Fail(w)
        PROVE  UNCHANGED <<Progressed, Bound, Owner>>
    <3> DEFINE j   == claims[w].job
               job == jobs[j]
    <3>1. j \in Jobs /\ Milestone(job) = job.step
      BY <2>8, OwnerIsCurrent DEF Defer, Fail, Finish
    <3>2. /\ Milestone(DeferredJob(job)) = job.step
          /\ Milestone(FailedJob(job)) = job.step
          /\ DeferredJob(job).resource = job.resource
          /\ FailedJob(job).resource = job.resource
      BY DEF DeferredJob, FailedJob, JobWith, Milestone
    <3>3. \A r \in Resources : resources'[r].job = resources[r].job
      BY <2>8, <3>1, OwnersKept DEF Defer, Fail, Finish
    <3>4. \/ jobs' = [jobs EXCEPT ![j] = DeferredJob(job)]
          \/ jobs' = [jobs EXCEPT ![j] = FailedJob(job)]
      BY <2>8 DEF Defer, Fail, Finish
    <3> HIDE DEF j
    <3> QED
      BY <3>1, <3>2, <3>3, <3>4, InvisibleRow
  <2>9. ASSUME NEW w \in Workers, Heartbeat(w)
        PROVE  UNCHANGED <<Progressed, Bound, Owner>>
    <3>1. /\ claims[w].job \in Jobs
          /\ Milestone(HeartbeatJob(jobs[claims[w].job]))
                = Milestone(jobs[claims[w].job])
          /\ HeartbeatJob(jobs[claims[w].job]).resource
                = jobs[claims[w].job].resource
      BY <2>9, OwnerIsCurrent DEF Heartbeat, HeartbeatJob, JobWith, Milestone
    <3> QED
      BY <2>9, <3>1, InvisibleRow DEF Heartbeat
  <2>10. ASSUME NEW j \in Jobs, Expire(j)
         PROVE  UNCHANGED <<Progressed, Bound, Owner>>
    <3>1. /\ Milestone(ExpiredJob(jobs[j])) = Milestone(jobs[j])
          /\ ExpiredJob(jobs[j]).resource = jobs[j].resource
      BY DEF ExpiredJob, JobWith, Milestone
    <3> QED
      BY <2>10, <3>1, InvisibleRow DEF Expire
  <2>11. ASSUME NEW s \in Scanners, NEW j \in Jobs, ScanJob(s, j)
         PROVE  UNCHANGED <<Progressed, Bound, Owner>>
    <3>1. /\ Milestone(ReclaimedJob(jobs[j])) = Milestone(jobs[j])
          /\ ReclaimedJob(jobs[j]).resource = jobs[j].resource
      BY DEF ReclaimedJob, DeferredJob, JobWith, Milestone
    <3>2. CASE Retryable(j, jobs[j], ResourceOf(jobs[j]), j \in scans[s].stale)
      <4>1. jobs' = [jobs EXCEPT ![j] = ReclaimedJob(jobs[j])]
        BY <2>11, <3>2 DEF ScanJob
      <4>2. \A r \in Resources : resources'[r].job = resources[r].job
        BY <2>11, <3>2, OwnersKept DEF ScanJob
      <4> QED
        BY <3>1, <4>1, <4>2, InvisibleRow
    <3>3. CASE ~Retryable(j, jobs[j], ResourceOf(jobs[j]),
                          j \in scans[s].stale)
      <4>1. jobs' = jobs /\ resources' = resources
        BY <2>11, <3>3 DEF ScanJob
      <4> QED
        BY <4>1, Invisible
    <3> QED
      BY <3>2, <3>3
  <2>12. ASSUME jobs' = jobs, resources' = resources
         PROVE  UNCHANGED <<Progressed, Bound, Owner>>
    BY <2>12, Invisible
  <2> QED
    BY <2>2, <2>3, <2>4, <2>5, <2>6, <2>7, <2>8, <2>9, <2>10, <2>11, <2>12
       DEF Next, IgnoreDelivery, Abandon, Crash, Lose, ScanStart, ScanEnd,
           vars
<1> QED
  BY <1>1, <1>2, TypeCorrect, FencedCorrect, PTL
     DEF Spec, ImplementsWorkflow, Workflow!ASpec

-----------------------------------------------------------------------------
(***************************************************************************)
(* One resource row.  The modules that run a domain's steps on the engine  *)
(* prove their invariants from what the engine does to one row and to the  *)
(* worker that holds it.                                                   *)
(***************************************************************************)

\* Worker w's claim owns the current job of resource r.
Holder(w, r) == /\ claims[w] # NoClaim
                /\ Owns(w, claims[w].job)
                /\ jobs[claims[w].job].resource = r

\* The step leaves r to the workers that held it, with the claims they had.
HoldersKept(r) ==
    \A w \in Workers : Holder(w, r)' => Holder(w, r) /\ claims'[w] = claims[w]

\* A held row is running, at the step and under the job of its holder's claim,
\* and has no other holder.
HoldersOwn ==
    \A r \in Resources, w \in Workers : Holder(w, r) =>
        /\ claims[w].job \in Jobs
        /\ claims[w].step \in Steps
        /\ resources[r].job = claims[w].job
        /\ resources[r].step = claims[w].step
        /\ resources[r].status = "running"
        /\ ResourceOf(jobs[claims[w].job]) = resources[r]
        /\ \A v \in Workers : Holder(v, r) => v = w

\* The fence makes the holder of a row unique and its claim current.
LEMMA HoldersOwnRows == TypeOK /\ Fenced => HoldersOwn
<1> SUFFICES ASSUME TypeOK, Fenced, NEW r \in Resources, NEW w \in Workers,
                    Holder(w, r)
             PROVE  /\ claims[w].job \in Jobs
                    /\ claims[w].step \in Steps
                    /\ resources[r].job = claims[w].job
                    /\ resources[r].step = claims[w].step
                    /\ resources[r].status = "running"
                    /\ ResourceOf(jobs[claims[w].job]) = resources[r]
                    /\ \A v \in Workers : Holder(v, r) => v = w
  BY DEF HoldersOwn
<1>1. claims[w].job \in Jobs /\ claims[w].step \in Steps
  BY DEF Holder, TypeOK, Claims
<1>2. ResourceOf(jobs[claims[w].job]) = resources[r]
  BY DEF Holder, ResourceOf
<1>3. /\ jobs[claims[w].job].status = "running"
      /\ jobs[claims[w].job].step = claims[w].step
      /\ resources[r].status # "absent"
      /\ resources[r].job = claims[w].job
      /\ resources[r].step = jobs[claims[w].job].step
  BY <1>2 DEF Holder, Owns, Owned, ResourceMatches
<1>4. resources[r].status = "running"
  BY <1>1, <1>3 DEF Fenced, Linked
<1>5. \A v \in Workers : Holder(v, r) => v = w
  BY FencedOwners DEF OneOwnerPerResource, Holder
<1> QED
  BY <1>1, <1>2, <1>3, <1>4, <1>5

\* The same in the next state.
LEMMA HoldersOwnAfter == (TypeOK /\ Fenced)' => HoldersOwn'
  BY HoldersOwnRows, PTL

\* Its holder advances, completes, defers or fails the step of a row.
LEMMA HolderFinishes ==
    ASSUME TypeOK, Fenced, NEW r \in Resources, NEW w \in Workers,
           Holder(w, r)
    PROVE  /\ \A next \in Steps : Advance(w, next) =>
                 /\ <<resources[r].step, next>> \in NextSteps
                 /\ resources'[r] = ResourceWith(resources[r], next, "pending")
           /\ Complete(w) =>
                 /\ resources[r].step \in FinalSteps
                 /\ resources'[r] =
                       IF resources[r].step \in DeletingSteps
                       THEN AbsentResource
                       ELSE ResourceWith(resources[r], NoStep, "success")
           /\ \A k \in Jobs, t \in Successors : Continue(w, k, t) =>
                 /\ resources[r].step = t.step
                 /\ resources'[r] = Requested(k, t.name, t.first)
           /\ Defer(w) => resources'[r] =
                 ResourceWith(resources[r], resources[r].step, "pending")
           /\ Fail(w) => resources'[r] =
                 ResourceWith(resources[r], resources[r].step, "error")
<1> DEFINE job == jobs[claims[w].job]
<1>1. /\ job.resource = r
      /\ ResourceOf(job) = resources[r]
      /\ job.step = resources[r].step
  BY HoldersOwnRows DEF HoldersOwn, Holder, Owns, Owned
<1>2. \A new : WithResource(r, new)[r] = new
  BY DEF WithResource
<1>3. ASSUME NEW next \in Steps, Advance(w, next)
      PROVE  /\ <<resources[r].step, next>> \in NextSteps
             /\ resources'[r] = ResourceWith(resources[r], next, "pending")
  BY <1>1, <1>2, <1>3 DEF Advance
<1>4. ASSUME Complete(w)
      PROVE  /\ resources[r].step \in FinalSteps
             /\ resources'[r] =
                   IF resources[r].step \in DeletingSteps
                   THEN AbsentResource
                   ELSE ResourceWith(resources[r], NoStep, "success")
  BY <1>1, <1>2, <1>4 DEF Complete
<1>5. ASSUME NEW k \in Jobs, NEW t \in Successors, Continue(w, k, t)
      PROVE  /\ resources[r].step = t.step
             /\ resources'[r] = Requested(k, t.name, t.first)
  BY <1>1, <1>2, <1>5 DEF Continue
<1>6. ASSUME NEW new, NEW s, Finish(w, new, s)
      PROVE  resources'[r] = ResourceWith(resources[r], resources[r].step, s)
  BY <1>1, <1>2, <1>6 DEF Finish
<1> QED
  BY <1>3, <1>4, <1>5, <1>6 DEF Defer, Fail

\* A claim makes the row running and its claimer the only holder.
LEMMA ClaimTakes ==
    ASSUME TypeOK, Fenced, TypeOK', Fenced', NEW r \in Resources,
           NEW w \in Workers, NEW m \in queue, Claim(w, m),
           jobs[m[1]].resource = r
    PROVE  /\ resources[r].status \in {"pending", "error"}
           /\ resources'[r] =
                 ResourceWith(resources[r], resources[r].step, "running")
           /\ \A v \in Workers : Holder(v, r)' => v = w
<1> DEFINE j == m[1]
           c == [job |-> j, step |-> jobs[j].step,
                 attempt |-> ClaimedJob(jobs[j]).attempt]
<1>1. /\ j \in Jobs
      /\ ResourceOf(jobs[j]) = resources[r]
  BY DEF TypeOK, ResourceOf
<1>2. /\ jobs[j].status \in {"pending", "error"}
      /\ ResourceMatches(j, jobs[j], resources[r])
      /\ jobs' = [jobs EXCEPT ![j] = ClaimedJob(jobs[j])]
      /\ resources' = WithResource(r,
            ResourceWith(resources[r], resources[r].step, "running"))
      /\ claims' = [claims EXCEPT ![w] = c]
  BY <1>1 DEF Claim, Claimable
<1>3. /\ resources[r].status # "absent"
      /\ resources[r].job = j
  BY <1>2 DEF ResourceMatches
<1>4. resources[r].status = jobs[j].status
  BY <1>1, <1>3 DEF Fenced, Linked
<1>5. resources'[r] = ResourceWith(resources[r], resources[r].step, "running")
  BY <1>2 DEF WithResource
<1>6. jobs'[j] = ClaimedJob(jobs[j]) /\ claims'[w] = c
  BY <1>1, <1>2 DEF TypeOK
<1>7. jobs'[j].attempt = c.attempt /\ c.job = j
  BY <1>6
<1>8. ASSUME NEW v \in Workers, Holder(v, r)'
      PROVE  v = w
  <2>1. claims'[v] # NoClaim /\ claims'[v].job = resources'[r].job
    BY <1>8, HoldersOwnAfter DEF HoldersOwn, Holder
  <2>2. claims'[v].job = j
    BY <1>3, <1>5, <2>1 DEF ResourceWith
  <2>3. claims'[v].attempt = jobs'[j].attempt
    BY <1>8, <2>2 DEF Holder, Owns, Owned
  <2>4. claims'[w] # NoClaim
    <3>1. /\ ClaimedJob(jobs[j]).attempt \in Nat
          /\ jobs[j].step \in Steps
      BY <1>1, <1>2 DEF ClaimedJob, JobWith, TypeOK, JobRow
    <3>2. c \in [job : Jobs, step : Steps, attempt : Nat]
      BY <1>1, <3>1
    <3> QED
      BY <1>6, <3>2
  <2> HIDE DEF c
  <2> QED
    BY <1>6, <1>7, <2>1, <2>2, <2>3, <2>4 DEF Fenced, TokensAreUnique
<1> QED
  BY <1>2, <1>4, <1>5, <1>8

\* Rows whose fence did not change keep their holders.
LEMMA UntouchedHolders ==
    ASSUME TypeOK, NEW r \in Resources,
           \A w \in Workers : claims'[w] \in {claims[w], NoClaim},
           resources'[r] = resources[r],
           \A j \in Jobs : jobs'[j].status = "running" =>
               /\ jobs[j].status = "running"
               /\ jobs'[j].name = jobs[j].name
               /\ jobs'[j].resource = jobs[j].resource
               /\ jobs'[j].step = jobs[j].step
               /\ jobs'[j].attempt = jobs[j].attempt
    PROVE  HoldersKept(r)
<1> SUFFICES ASSUME NEW w \in Workers, Holder(w, r)'
             PROVE  Holder(w, r) /\ claims'[w] = claims[w]
  BY DEF HoldersKept
<1>1. claims'[w] # NoClaim /\ claims'[w] = claims[w] /\ claims[w].job \in Jobs
  BY DEF Holder, TypeOK, Claims
<1> DEFINE j == claims[w].job
<1>2. /\ jobs'[j].status = "running"
      /\ jobs'[j].step = claims[w].step
      /\ jobs'[j].attempt = claims[w].attempt
      /\ jobs'[j].resource = r
      /\ ResourceMatches(j, jobs'[j], resources'[r])
  BY <1>1 DEF Holder, Owns, Owned, ResourceOf
<1>3. /\ jobs[j].status = "running"
      /\ jobs'[j].name = jobs[j].name
      /\ jobs'[j].resource = jobs[j].resource
      /\ jobs'[j].step = jobs[j].step
      /\ jobs'[j].attempt = jobs[j].attempt
  BY <1>1, <1>2
<1>4. ResourceOf(jobs[j]) = resources[r]
  BY <1>2, <1>3 DEF ResourceOf
<1>5. ResourceMatches(j, jobs[j], resources[r])
  BY <1>2, <1>3 DEF ResourceMatches
<1> QED
  BY <1>1, <1>2, <1>3, <1>4, <1>5 DEF Holder, Owns, Owned

\* A step of the engine that no row sees.
QuietStep ==
    \/ \E m \in queue : IgnoreDelivery(m) \/ Lose(m)
    \/ \E j \in Jobs : Expire(j)
    \/ \E s \in Scanners : ScanStart(s) \/ ScanEnd(s)
    \/ \E w \in Workers : Heartbeat(w) \/ Abandon(w) \/ Crash(w)

\* Such a step changes no row, makes no holder and hands out no claim.
LEMMA QuietStepKeeps ==
    ASSUME TypeOK, NEW r \in Resources, QuietStep
    PROVE  /\ resources' = resources
           /\ HoldersKept(r)
           /\ \A w \in Workers : claims'[w] \in {claims[w], NoClaim}
<1>1. resources' = resources
  BY DEF QuietStep, IgnoreDelivery, Lose, Expire, ScanStart, ScanEnd,
         Heartbeat, Abandon, Crash
<1>2. \A w \in Workers : claims'[w] \in {claims[w], NoClaim}
  BY DEF QuietStep, IgnoreDelivery, Lose, Expire, ScanStart, ScanEnd,
         Heartbeat, Abandon, Crash, TypeOK
<1>3. ASSUME NEW j \in Jobs, NEW new,
             new \in {HeartbeatJob(jobs[j]), ExpiredJob(jobs[j])},
             jobs' = [jobs EXCEPT ![j] = new]
      PROVE  HoldersKept(r)
  <2>1. /\ new.name = jobs[j].name /\ new.resource = jobs[j].resource
        /\ new.step = jobs[j].step /\ new.attempt = jobs[j].attempt
        /\ new.status = jobs[j].status
    BY <1>3 DEF HeartbeatJob, ExpiredJob, JobWith
  <2>2. \A i \in Jobs : jobs'[i] = IF i = j THEN new ELSE jobs[i]
    BY <1>3 DEF TypeOK
  <2> HIDE <1>3
  <2> QED
    BY <1>1, <1>2, <2>1, <2>2, UntouchedHolders
<1>4. jobs' = jobs => HoldersKept(r)
  BY <1>1, <1>2, UntouchedHolders
<1>5. ASSUME NEW w \in Workers, Heartbeat(w)
      PROVE  HoldersKept(r)
  <2>1. claims[w].job \in Jobs
    BY <1>5 DEF Heartbeat, TypeOK, Claims
  <2> QED
    BY <1>3, <1>5, <2>1 DEF Heartbeat
<1>6. ASSUME NEW j \in Jobs, Expire(j)
      PROVE  HoldersKept(r)
  BY <1>3, <1>6 DEF Expire
<1>7. HoldersKept(r)
  BY <1>4, <1>5, <1>6 DEF QuietStep, IgnoreDelivery, Lose, ScanStart, ScanEnd,
         Abandon, Crash
<1> QED
  BY <1>1, <1>2, <1>7

\* A recovery scan redelivers a row as it is, or takes it back from a worker.
LEMMA ScanKeeps ==
    ASSUME TypeOK, Fenced, TypeOK', Fenced', NEW r \in Resources,
           NEW s \in Scanners, NEW i \in Jobs, ScanJob(s, i)
    PROVE  /\ HoldersKept(r)
           /\ claims' = claims
           /\ \/ resources'[r] = resources[r]
              \/ /\ resources[r].status = "running"
                 /\ resources'[r] =
                       ResourceWith(resources[r], resources[r].step, "pending")
<1> DEFINE job == jobs[i]
           old == ResourceOf(job)
           st  == IF job.status = "running" THEN "pending" ELSE old.status
<1>0. claims' = claims
  BY DEF ScanJob
<1>1. CASE ~Retryable(i, job, old, i \in scans[s].stale)
  <2>1. jobs' = jobs /\ resources' = resources
    BY <1>1 DEF ScanJob
  <2> QED
    BY <1>0, <2>1, UntouchedHolders
<1>2. CASE Retryable(i, job, old, i \in scans[s].stale)
  <2>1. /\ jobs' = [jobs EXCEPT ![i] = ReclaimedJob(job)]
        /\ resources' = WithResource(job.resource,
                                     ResourceWith(old, old.step, st))
    BY <1>2 DEF ScanJob
  <2>2. /\ \A k \in Jobs : k # i => jobs'[k] = jobs[k]
        /\ jobs'[i] = ReclaimedJob(job)
    BY <2>1 DEF TypeOK
  <2>3. \A k \in Jobs : jobs'[k].status = "running" => jobs'[k] = jobs[k]
    BY <2>2 DEF ReclaimedJob, DeferredJob, JobWith
  <2>4. CASE job.resource # r
    <3>1. resources'[r] = resources[r]
      BY <2>1, <2>4 DEF WithResource
    <3> QED
      BY <1>0, <2>3, <3>1, UntouchedHolders
  <2>5. CASE job.resource = r
    <3>1. /\ old = resources[r]
          /\ resources'[r] = ResourceWith(old, old.step, st)
      BY <2>1, <2>5 DEF ResourceOf, WithResource
    <3>2. /\ old.status # "absent" /\ old.job = i
          /\ job.status \in {"pending", "running", "error"}
      BY <1>2, <2>5 DEF Retryable, ResourceMatches
    <3>3. old.status = job.status
      BY <3>1, <3>2 DEF Fenced, Linked
    <3>4. CASE job.status = "running"
      <4>1. resources'[r] = ResourceWith(old, old.step, "pending")
        BY <3>1, <3>4
      <4>2. resources'[r].status # "running"
        BY <4>1 DEF ResourceWith
      <4>3. HoldersKept(r)
        BY <4>2, HoldersOwnAfter DEF HoldersOwn, HoldersKept
      <4> QED
        BY <1>0, <3>1, <3>3, <3>4, <4>1, <4>3
    <3>5. CASE job.status # "running"
      <4>1. resources'[r] = ResourceWith(old, old.step, old.status)
        BY <3>1, <3>5
      <4>2. ResourceWith(old, old.step, old.status) = old
        BY <3>1 DEF TypeOK, ResourceRow, ResourceWith
      <4>3. resources'[r] = resources[r]
        BY <3>1, <4>1, <4>2
      <4> QED
        BY <1>0, <2>3, <4>3, UntouchedHolders
    <3> QED
      BY <3>4, <3>5
  <2> QED
    BY <2>4, <2>5
<1> QED
  BY <1>1, <1>2

\* A stored job keeps its operation and its resource, and stays finished.
LEMMA JobsAreKept ==
    ASSUME TypeOK, [Next]_vars, NEW j \in Jobs, jobs[j].status # "absent"
    PROVE  /\ jobs'[j].status # "absent"
           /\ jobs'[j].name = jobs[j].name
           /\ jobs'[j].resource = jobs[j].resource
           /\ jobs[j].status = "success" => jobs'[j].status = "success"
<1> DEFINE Kept == /\ jobs'[j].status # "absent"
                   /\ jobs'[j].name = jobs[j].name
                   /\ jobs'[j].resource = jobs[j].resource
                   /\ jobs[j].status = "success" => jobs'[j].status = "success"
<1> SUFFICES Kept
  OBVIOUS
<1>1. ASSUME NEW k \in Jobs, jobs[k].status = "absent", NEW new,
             jobs' = [jobs EXCEPT ![k] = new]
      PROVE  Kept
  BY <1>1 DEF TypeOK
<1>2. ASSUME NEW k \in Jobs, jobs[k].status # "success", NEW step, NEW status,
             NEW attempt, NEW claimed, status # "absent",
             jobs' = [jobs EXCEPT ![k] =
                         JobWith(jobs[k], step, status, attempt, claimed)]
      PROVE  Kept
  BY <1>2 DEF TypeOK, JobWith
<1>3. ASSUME NEW w \in Workers, claims[w] # NoClaim, Owns(w, claims[w].job)
      PROVE  claims[w].job \in Jobs /\ jobs[claims[w].job].status = "running"
  BY <1>3 DEF Owns, Owned, TypeOK, Claims
<1>4. ASSUME NEW k \in Jobs, NEW t \in Transitions,
             (\E r \in Resources : Request(k, r, t)) \/ RequestSystem(k, t)
      PROVE  Kept
  BY <1>1, <1>4 DEF Request, RequestSystem
<1>5. ASSUME NEW w \in Workers, NEW m \in queue, Claim(w, m)
      PROVE  Kept
  <2>1. m[1] \in Jobs /\ jobs[m[1]].status # "success"
    BY <1>5 DEF TypeOK, Claim, Claimable
  <2> QED
    BY <1>2, <1>5, <2>1 DEF Claim, ClaimedJob
<1>6. ASSUME NEW w \in Workers,
             \/ \E next \in Steps : Advance(w, next)
             \/ Complete(w) \/ Defer(w) \/ Fail(w) \/ Heartbeat(w)
      PROVE  Kept
  <2>1. claims[w].job \in Jobs /\ jobs[claims[w].job].status = "running"
    BY <1>3, <1>6 DEF Advance, Complete, Defer, Fail, Finish, Heartbeat
  <2>2. ASSUME NEW next \in Steps, Advance(w, next)
        PROVE  Kept
    <3>1. jobs' = [jobs EXCEPT ![claims[w].job] =
             JobWith(jobs[claims[w].job], next, "pending",
                     jobs[claims[w].job].attempt, "none")]
      BY <2>2 DEF Advance, AdvancedJob
    <3> HIDE DEF Kept
    <3> QED
      BY <1>2, <2>1, <3>1
  <2>3. CASE Complete(w)
    BY <1>2, <2>1, <2>3 DEF Complete, CompletedJob
  <2>4. CASE Defer(w)
    BY <1>2, <2>1, <2>4 DEF Defer, Finish, DeferredJob
  <2>5. CASE Fail(w)
    BY <1>2, <2>1, <2>5 DEF Fail, Finish, FailedJob
  <2>6. CASE Heartbeat(w)
    BY <1>2, <2>1, <2>6 DEF Heartbeat, HeartbeatJob
  <2> QED
    BY <1>6, <2>2, <2>3, <2>4, <2>5, <2>6
<1>7. ASSUME NEW w \in Workers, NEW k \in Jobs, NEW t \in Successors,
             Continue(w, k, t)
      PROVE  Kept
  <2>1. claims[w].job \in Jobs /\ jobs[claims[w].job].status = "running"
    BY <1>3, <1>7 DEF Continue
  <2>2. jobs'[j] = IF j = claims[w].job THEN CompletedJob(jobs[j]) ELSE jobs[j]
    BY <1>7, <2>1 DEF Continue, TypeOK
  <2> QED
    BY <2>2 DEF CompletedJob, JobWith
<1>8. ASSUME NEW k \in Jobs, Expire(k)
      PROVE  Kept
  BY <1>2, <1>8 DEF Expire, ExpiredJob
<1>9. ASSUME NEW s \in Scanners, NEW k \in Jobs, ScanJob(s, k)
      PROVE  Kept
  <2>1. ASSUME jobs' = [jobs EXCEPT ![k] = ReclaimedJob(jobs[k])]
        PROVE  Kept
    <3>1. CASE k # j
      BY <2>1, <3>1 DEF TypeOK
    <3>2. CASE k = j
      <4>1. jobs'[j] = ReclaimedJob(jobs[j])
        BY <2>1, <3>2 DEF TypeOK
      <4> QED
        BY <4>1 DEF ReclaimedJob, DeferredJob, JobWith
    <3> QED
      BY <3>1, <3>2
  <2> QED
    BY <1>9, <2>1 DEF ScanJob
<1>10. jobs' = jobs => Kept
  OBVIOUS
<1> QED
  BY <1>4, <1>5, <1>6, <1>7, <1>8, <1>9, <1>10
     DEF Next, vars, IgnoreDelivery, Abandon, Crash, Lose, ScanStart, ScanEnd
=============================================================================
