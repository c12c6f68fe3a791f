----------------------------- MODULE JobExecution -----------------------------
(***************************************************************************)
(* The durable job engine: requests that commit a job with its resource,   *)
(* the broker, workers that claim and finish steps under an attempt fence, *)
(* and the Beat scan that redelivers and reclaims.                         *)
(*                                                                         *)
(* Each action below is one database transaction of the code together with *)
(* the dispatch that follows its commit: the broker delivers late, twice   *)
(* or never, so a delay between commit and dispatch adds no behaviour.     *)
(* What a step does to remote systems is abstracted to its outcome.        *)
(***************************************************************************)
EXTENDS JobRows

CONSTANTS Jobs,            \* job identifiers
          Resources,       \* resource rows
          Workers,         \* Celery worker processes
          Scanners,        \* processes that may run a recovery scan
          Steps,           \* step names of the registry
          Transitions,     \* accepted requests: [name, action, status, first]
          NextSteps,       \* pairs <<s, t>>: step s may advance to step t
          FinalSteps,      \* steps that may complete their job
          DeletingSteps,   \* steps whose completion deletes the resource row
          Successors,      \* [step, name, first]: completion opening a new job
          NoClaim,         \* a worker that runs no step
          MaxDisturbances  \* bound on failures, deferrals and losses

ASSUME DisturbancesAssumption == MaxDisturbances \in Nat

ASSUME NullAssumption ==
    /\ NoJob \notin Jobs
    /\ NoResource \notin Resources
    /\ NoStep \notin Steps
    /\ NoClaim \notin [job : Jobs, step : Steps, attempt : Nat]

\* A request is accepted only on an absent, a successful or a failed row; the
\* system job of a database synchronization has no row (action "none").
ASSUME WorkflowAssumption ==
    /\ Transitions \subseteq [name : JobNames,
                              action : Actions \cup {"none"},
                              status : {"none", "absent", "success", "error"},
                              first : Steps]
    /\ \A t \in Transitions : t.status # "none" =>
                                  t.name \in DOMAIN RESOURCE_ACTIONS
    /\ NextSteps \subseteq Steps \X Steps
    /\ FinalSteps \subseteq Steps
    /\ DeletingSteps \subseteq FinalSteps
    /\ Successors \subseteq [step : Steps, name : DOMAIN RESOURCE_ACTIONS,
                             first : Steps]
    /\ "absent" \notin Steps
    /\ "done" \notin Steps

VARIABLES jobs,          \* the job_executions table
          resources,     \* the resource table
          queue,         \* undelivered Celery messages <<job, task>>
          claims,        \* claims[w]: the ExecutionClaim worker w runs under
          scans,         \* scans[s]: the recovery scan process s runs
          disturbances   \* failures, deferrals and losses so far

vars == <<jobs, resources, queue, claims, scans, disturbances>>

Claims == [job : Jobs, step : Steps, attempt : Nat]

ScanState(active, ids, stale) ==
    [active |-> active, ids |-> ids, stale |-> stale]

IdleScan == ScanState(FALSE, {}, {})

JobRow == [name : JobNames,
           resource : Resources \cup {NoResource},
           step : Steps \cup {NoStep},
           status : JobStatus \cup {"absent"},
           attempt : Nat,
           claimed : ClaimAge]

ResourceRow == [job : Jobs \cup {NoJob},
                action : Actions,
                step : Steps \cup {NoStep},
                status : JobStatus \cup {"absent"}]

\* Every row and message has the type the columns declare, and a stored job
\* always names a step of the registry.
TypeOK ==
    /\ jobs \in [Jobs -> JobRow]
    /\ \A j \in Jobs : jobs[j].status # "absent" => jobs[j].step \in Steps
    /\ resources \in [Resources -> ResourceRow]
    /\ queue \subseteq Jobs \X Steps
    /\ claims \in [Workers -> Claims \cup {NoClaim}]
    /\ scans \in [Scanners -> [active : BOOLEAN, ids : SUBSET Jobs,
                               stale : SUBSET Jobs]]
    /\ disturbances \in Nat

Init ==
    /\ jobs = [j \in Jobs |-> AbsentJob]
    /\ resources = [r \in Resources |-> AbsentResource]
    /\ queue = {}
    /\ claims = [w \in Workers |-> NoClaim]
    /\ scans = [s \in Scanners |-> IdleScan]
    /\ disturbances = 0

-----------------------------------------------------------------------------
\* _resource_for_job: the row a job is bound to (AbsentResource for none).
ResourceOf(job) == IF job.resource \in Resources THEN resources[job.resource]
                                                 ELSE AbsentResource

\* The resource table after the row of r becomes row.
WithResource(r, row) ==
    [x \in Resources |-> IF x = r THEN row ELSE resources[x]]

\* Worker w's claim still owns job j.
Owns(w, j) == /\ claims[w] # NoClaim
              /\ claims[w].job = j
              /\ Owned(claims[w], jobs[j], ResourceOf(jobs[j]))

Disturb == /\ disturbances < MaxDisturbances
           /\ disturbances' = disturbances + 1

\* dispatch_registered_step: the message is published, or the broker refuses
\* it and the failure is logged and swallowed.
Dispatch(j, step) ==
    \/ queue' = queue \cup {<<j, step>>} /\ UNCHANGED disturbances
    \/ UNCHANGED queue /\ Disturb

\* The broker hands a message out; it may deliver the same message again.
Consume(m) ==
    \/ queue' = queue \ {m} /\ UNCHANGED disturbances
    \/ UNCHANGED queue /\ Disturb

\* claimed_at := now: no running scan sees this claim as expired.
Refresh(j) == scans' = [s \in Scanners |->
                          ScanState(scans[s].active, scans[s].ids,
                                    scans[s].stale \ {j})]

-----------------------------------------------------------------------------
\* A random identifier out of the unused ones, for the modules that extend this
\* one: which it is makes no difference to them.
Draw(unused) == IF unused = {} THEN {} ELSE {CHOOSE x \in unused : TRUE}

NewIds == Draw({j \in Jobs : jobs[j].status = "absent"})

\* Mutant of Request: the 409 of pending and running rows is missing.
RequestBusyRow(j, r, t) ==
    /\ jobs[j].status = "absent"
    /\ t.status # "none"
    /\ (resources[r].status = "absent") <=> (t.status = "absent")
    /\ t.status # "absent" => resources[r].action = t.action
    /\ jobs' = [jobs EXCEPT ![j] = NewJob(t.name, r, t.first)]
    /\ resources' = WithResource(r, Requested(j, t.name, t.first))
    /\ Dispatch(j, t.first)
    /\ UNCHANGED <<claims, scans>>

\* A route commits the resource transition and its job, then dispatches.
Request(j, r, t) ==
    /\ jobs[j].status = "absent"
    /\ t.status # "none"
    /\ resources[r].status = t.status
    /\ t.status # "absent" => resources[r].action = t.action
    /\ jobs' = [jobs EXCEPT ![j] = NewJob(t.name, r, t.first)]
    /\ resources' = WithResource(r, Requested(j, t.name, t.first))
    /\ Dispatch(j, t.first)
    /\ UNCHANGED <<claims, scans>>

\* create_system_job: a job bound to no resource.
RequestSystem(j, t) ==
    /\ jobs[j].status = "absent"
    /\ t.status = "none"
    /\ jobs' = [jobs EXCEPT ![j] = NewJob(t.name, NoResource, t.first)]
    /\ Dispatch(j, t.first)
    /\ UNCHANGED <<resources, claims, scans>>

\* claim_execution by a worker that receives message m.
Claim(w, m) ==
    LET j   == m[1]
        job == jobs[j]
        res == ResourceOf(job)
    IN  /\ claims[w] = NoClaim
        /\ m \in queue
        /\ Consume(m)
        /\ Claimable(j, job, res, m[2])
        /\ jobs' = [jobs EXCEPT ![j] = ClaimedJob(job)]
        /\ resources' = WithResource(job.resource,
                                     ResourceWith(res, res.step, "running"))
        /\ claims' = [claims EXCEPT ![w] = [job |-> j, step |-> job.step,
                                       attempt |-> ClaimedJob(job).attempt]]
        /\ Refresh(j)

\* A delivery claim_execution answers with None: run_claimed_step's "noop".
IgnoreDelivery(m) ==
    /\ m \in queue
    /\ ~Claimable(m[1], jobs[m[1]], ResourceOf(jobs[m[1]]), m[2])
    /\ queue' = queue \ {m}
    /\ UNCHANGED <<jobs, resources, claims, scans, disturbances>>

\* advance_execution
Advance(w, next) ==
    LET j   == claims[w].job
        job == jobs[j]
    IN  /\ claims[w] # NoClaim
        /\ Owns(w, j)
        /\ <<job.step, next>> \in NextSteps
        /\ jobs' = [jobs EXCEPT ![j] = AdvancedJob(job, next)]
        /\ resources' = WithResource(job.resource,
                         ResourceWith(ResourceOf(job), next, "pending"))
        /\ claims' = [claims EXCEPT ![w] = NoClaim]
        /\ Dispatch(j, next)
        /\ UNCHANGED scans

\* complete_execution, with delete_resource for the last step of a deletion.
Complete(w) ==
    LET j   == claims[w].job
        job == jobs[j]
    IN  /\ claims[w] # NoClaim
        /\ Owns(w, j)
        /\ job.step \in FinalSteps
        /\ jobs' = [jobs EXCEPT ![j] = CompletedJob(job)]
        /\ resources' = WithResource(job.resource,
               IF job.step \in DeletingSteps THEN AbsentResource
               ELSE ResourceWith(ResourceOf(job), NoStep, "success"))
        /\ claims' = [claims EXCEPT ![w] = NoClaim]
        /\ UNCHANGED <<queue, scans, disturbances>>

\* The end of _finalize_update when changes were queued meanwhile: the job
\* completes and a new job takes the resource over in the same transaction.
Continue(w, k, t) ==
    LET j   == claims[w].job
        job == jobs[j]
    IN  /\ claims[w] # NoClaim
        /\ Owns(w, j)
        /\ job.resource # NoResource
        /\ job.step = t.step
        /\ jobs[k].status = "absent"
        /\ jobs' = [jobs EXCEPT ![j] = CompletedJob(job),
                                ![k] = NewJob(t.name, job.resource, t.first)]
        /\ resources' = WithResource(job.resource,
                                     Requested(k, t.name, t.first))
        /\ claims' = [claims EXCEPT ![w] = NoClaim]
        /\ Dispatch(k, t.first)
        /\ UNCHANGED scans

\* Mutant of Finish: the resource row is not updated with the job.
FinishJobOnly(w, row, s) ==
    LET j == claims[w].job
    IN  /\ claims[w] # NoClaim
        /\ Owns(w, j)
        /\ jobs' = [jobs EXCEPT ![j] = row]
        /\ claims' = [claims EXCEPT ![w] = NoClaim]
        /\ Disturb
        /\ UNCHANGED <<resources, queue, scans>>

\* The owner stores its job row and status s on its resource, step unchanged.
Finish(w, row, s) ==
    LET j   == claims[w].job
        job == jobs[j]
        res == ResourceOf(job)
    IN  /\ claims[w] # NoClaim
        /\ Owns(w, j)
        /\ jobs' = [jobs EXCEPT ![j] = row]
        /\ resources' = WithResource(job.resource,
                                     ResourceWith(res, res.step, s))
        /\ claims' = [claims EXCEPT ![w] = NoClaim]
        /\ Disturb
        /\ UNCHANGED <<queue, scans>>

\* defer_execution: no dispatch, the next scan redelivers the step.
Defer(w) == Finish(w, DeferredJob(jobs[claims[w].job]), "pending")

\* fail_execution, reached from run_claimed_step's except clause.
Fail(w) == Finish(w, FailedJob(jobs[claims[w].job]), "error")

\* Any finishing call, or a heartbeat, of a worker that lost ownership: the
\* transaction writes nothing and the worker gives the step up.
Abandon(w) ==
    /\ claims[w] # NoClaim
    /\ ~Owns(w, claims[w].job)
    /\ claims' = [claims EXCEPT ![w] = NoClaim]
    /\ UNCHANGED <<jobs, resources, queue, scans, disturbances>>

\* heartbeat_execution by the owner.
Heartbeat(w) ==
    LET j == claims[w].job
    IN  /\ claims[w] # NoClaim
        /\ Owns(w, j)
        /\ jobs' = [jobs EXCEPT ![j] = HeartbeatJob(jobs[j])]
        /\ Refresh(j)
        /\ UNCHANGED <<resources, queue, claims, disturbances>>

-----------------------------------------------------------------------------
\* The environment: time, the broker and process crashes.

\* claimed_at of a running job falls behind now - job_stale_after_seconds.
\* This is certain once its worker is gone, and a disturbance while it works.
Expire(j) ==
    /\ jobs[j].status = "running"
    /\ jobs[j].claimed = "fresh"
    /\ jobs' = [jobs EXCEPT ![j] = ExpiredJob(jobs[j])]
    /\ IF \E w \in Workers : Owns(w, j) THEN Disturb
                                        ELSE UNCHANGED disturbances
    /\ UNCHANGED <<resources, queue, claims, scans>>

\* A worker process dies in the middle of a step.
Crash(w) ==
    /\ claims[w] # NoClaim
    /\ claims' = [claims EXCEPT ![w] = NoClaim]
    /\ Disturb
    /\ UNCHANGED <<jobs, resources, queue, scans>>

\* The broker loses a message.
Lose(m) ==
    /\ m \in queue
    /\ queue' = queue \ {m}
    /\ Disturb
    /\ UNCHANGED <<jobs, resources, claims, scans>>

-----------------------------------------------------------------------------
\* Mutant of ScanStart: expired running jobs are left out of the scan.
ScanWithoutExpired(s) ==
    /\ ~scans[s].active
    /\ scans' = [scans EXCEPT ![s] =
          ScanState(TRUE,
                    {j \in Jobs : jobs[j].status \in {"pending", "error"}}, {})]
    /\ UNCHANGED <<jobs, resources, queue, claims, disturbances>>

\* retry_job_executions reads the retryable identifiers and fixes stale_before.
ScanStart(s) ==
    /\ ~scans[s].active
    /\ LET expired == {j \in Jobs : /\ jobs[j].status = "running"
                                    /\ jobs[j].claimed = "expired"}
       IN  scans' = [scans EXCEPT ![s] =
             ScanState(TRUE,
                       {j \in Jobs : jobs[j].status \in {"pending", "error"}}
                           \cup expired,
                       expired)]
    /\ UNCHANGED <<jobs, resources, queue, claims, disturbances>>

\* One identifier of the scan: prepare_execution_retry, then the dispatch.
ScanJob(s, j) ==
    LET job == jobs[j]
        res == ResourceOf(job)
    IN  /\ j \in scans[s].ids
        /\ scans' = [scans EXCEPT ![s] = ScanState(TRUE, scans[s].ids \ {j},
                                                   scans[s].stale)]
        /\ IF Retryable(j, job, res, j \in scans[s].stale)
           THEN /\ jobs' = [jobs EXCEPT ![j] = ReclaimedJob(job)]
                /\ resources' = WithResource(job.resource,
                     ResourceWith(res, res.step,
                                  IF job.status = "running" THEN "pending"
                                                            ELSE res.status))
                /\ Dispatch(j, job.step)
           ELSE UNCHANGED <<jobs, resources, queue, disturbances>>
        /\ UNCHANGED claims

\* The scan has handled every identifier, or its process died half way.
ScanEnd(s) ==
    /\ scans[s].active
    /\ IF scans[s].ids = {} THEN UNCHANGED disturbances ELSE Disturb
    /\ scans' = [scans EXCEPT ![s] = IdleScan]
    /\ UNCHANGED <<jobs, resources, queue, claims>>

-----------------------------------------------------------------------------
Next ==
    \/ \E j \in Jobs, r \in Resources, t \in Transitions : Request(j, r, t)
    \/ \E j \in Jobs, t \in Transitions : RequestSystem(j, t)
    \/ \E w \in Workers, m \in queue : Claim(w, m)
    \/ \E m \in queue : IgnoreDelivery(m)
    \/ \E w \in Workers, next \in Steps : Advance(w, next)
    \/ \E w \in Workers : Complete(w)
    \/ \E w \in Workers, k \in Jobs, t \in Successors : Continue(w, k, t)
    \/ \E w \in Workers : Defer(w)
    \/ \E w \in Workers : Fail(w)
    \/ \E w \in Workers : Abandon(w)
    \/ \E w \in Workers : Heartbeat(w)
    \/ \E j \in Jobs : Expire(j)
    \/ \E w \in Workers : Crash(w)
    \/ \E m \in queue : Lose(m)
    \/ \E s \in Scanners : ScanStart(s)
    \/ \E s \in Scanners, j \in Jobs : ScanJob(s, j)
    \/ \E s \in Scanners : ScanEnd(s)

Spec == Init /\ [][Next]_vars

\* A worker's step ends by itself: the remote call returns or times out, and
\* after the last disturbance it succeeds.
Progress(w) == \/ \E next \in Steps : Advance(w, next)
               \/ Complete(w)
               \/ \E k \in Jobs, t \in Successors : Continue(w, k, t)
               \/ Abandon(w)

\* Celery keeps consuming messages, Beat keeps scanning, time passes, and a
\* worker does not stay in a step for ever.  Nothing is assumed of requests.
Fairness ==
    /\ \A m \in Jobs \X Steps :
          WF_vars((\E w \in Workers : Claim(w, m)) \/ IgnoreDelivery(m))
    /\ \A w \in Workers : WF_vars(Progress(w))
    /\ \A j \in Jobs : WF_vars(Expire(j))
    /\ \A s \in Scanners : /\ WF_vars(ScanStart(s))
                           /\ WF_vars(\E j \in Jobs : ScanJob(s, j))
                           /\ WF_vars(ScanEnd(s))

FairSpec == Spec /\ Fairness

-----------------------------------------------------------------------------
\* The invariant parts below are the inductive invariant of JobExecutionProofs.

\* A resource row and the job it names agree: same status, same action and,
\* until success clears it, same step.  Every writer of execution.py and every
\* route must update both rows together, whichever attempt runs last.
Mirror ==
    \A r \in Resources : resources[r].status # "absent" =>
        LET j == resources[r].job
        IN  /\ j \in Jobs
            /\ jobs[j].resource = r
            /\ jobs[j].status = resources[r].status
            /\ jobs[j].name \in DOMAIN RESOURCE_ACTIONS
            /\ resources[r].action = RESOURCE_ACTIONS[jobs[j].name]
            /\ resources[r].status # "success" =>
                   resources[r].step = jobs[j].step

\* A job that is pending or running still owns its resource: a request may
\* supersede only a job that failed or finished.
LiveJobsAreCurrent ==
    \A j \in Jobs :
        (jobs[j].status \in {"pending", "running"}
            /\ jobs[j].resource # NoResource) =>
                /\ resources[jobs[j].resource].status # "absent"
                /\ resources[jobs[j].resource].job = j

\* Fencing tokens: no claim is ahead of its job's attempt counter and no two
\* claims on one job carry the same attempt.
TokensAreUnique ==
    /\ \A w \in Workers : claims[w] # NoClaim =>
          /\ jobs[claims[w].job].status # "absent"
          /\ claims[w].attempt <= jobs[claims[w].job].attempt
    /\ \A v, w \in Workers :
          (v # w /\ claims[v] # NoClaim /\ claims[w] # NoClaim
             /\ claims[v].job = claims[w].job) =>
                claims[v].attempt # claims[w].attempt

\* At most one worker at a time can commit anything for a resource, however
\* many stale, crashed-and-reclaimed or duplicated deliveries are running
\* (owned_execution's fence).
OneOwnerPerResource ==
    \A v, w \in Workers :
        (/\ claims[v] # NoClaim /\ Owns(v, claims[v].job)
         /\ claims[w] # NoClaim /\ Owns(w, claims[w].job)
         /\ \/ claims[v].job = claims[w].job
            \/ /\ jobs[claims[v].job].resource = jobs[claims[w].job].resource
               /\ jobs[claims[v].job].resource # NoResource) => v = w

\* A step takes no job away from a live owner with an unexpired claim.
KeepsFreshClaims ==
    \A j \in Jobs :
        (/\ jobs[j].status = "running" /\ jobs[j].claimed = "fresh"
         /\ jobs'[j].status # "running") =>
            \E w \in Workers : Owns(w, j) /\ claims'[w] = NoClaim

\* The recovery scan never takes a job away from a live owner whose claim was
\* not expired when the scan began: a heartbeat or a new claim after the scan's
\* snapshot protects the attempt (prepare_execution_retry's second look).
FreshClaimsAreKept == [][KeepsFreshClaims]_vars

\* A step hands a resource over only if no worker owns its job, or that
\* worker has just finished it.
HandsOverUnowned ==
    \A r \in Resources, w \in Workers :
        (/\ resources'[r].job # resources[r].job
         /\ resources[r].status # "absent"
         /\ Owns(w, resources[r].job)) => claims'[w] = NoClaim

\* A resource never changes hands while a worker owns its current job, except
\* by that worker's own completion: the routes refuse pending and running rows,
\* and a claim makes both rows running.
NoHandoverWhileOwned == [][HandsOverUnowned]_vars

\* How far a job is, seen from outside: its step until it succeeds.
Milestone(job) == IF job.status = "absent" THEN "absent"
                  ELSE IF job.status = "success" THEN "done"
                  ELSE job.step

\* The engine implements the abstract workflow: claims, retries, crashes and
\* lost messages are invisible, each step is committed once and in order, and
\* only by the job that owns the resource.
Workflow == INSTANCE DurableWorkflow WITH
    progress <- [j \in Jobs |-> Milestone(jobs[j])],
    bound <- [j \in Jobs |-> jobs[j].resource],
    current <- [r \in Resources |-> resources[r].job]

ImplementsWorkflow == Workflow!ASpec

\* Every accepted job is eventually finished, or superseded after a failure,
\* although messages are lost and workers crash: nothing but the Beat scan
\* brings a deferred, failed or orphaned job back.
EveryJobSettles ==
    \A j \in Jobs : jobs[j].status # "absent" ~>
        \/ jobs[j].status = "success"
        \/ /\ jobs[j].status = "error"
           /\ ResourceOf(jobs[j]).job # j
=============================================================================
