------------------------------- MODULE JobRows -------------------------------
(***************************************************************************)
(* The rows of the durable job engine and the row transitions of           *)
(* tasks/common/execution.py, as operators on records.  Every module that  *)
(* runs a durable job (the engine itself, the instance life cycle, member  *)
(* reconciliation) uses these operators, so that the fencing rules are     *)
(* stated once.                                                            *)
(*                                                                         *)
(* A job row has the fields                                                *)
(*   name      the business operation, a key of RESOURCE_ACTIONS,          *)
(*   resource  the row it works on, or NoResource (system jobs),           *)
(*   step      the current step; tasks/common/registry.py pairs every step *)
(*             name with exactly one Celery task name, so this one field   *)
(*             stands for both job.step and job.task_name,                 *)
(*   status    JobStatus, or "absent" while no row has this identifier,    *)
(*   attempt   the number of claims so far,                                *)
(*   claimed   claimed_at seen from now: "none" (NULL), "fresh", or        *)
(*             "expired" (at or before now - job_stale_after_seconds).     *)
(* A resource row has job (job_id), action, step (NoStep is NULL) and      *)
(* status ("absent" while the row does not exist).                         *)
(***************************************************************************)
EXTENDS Integers

CONSTANTS NoResource,   \* resource_type is NULL: a job bound to no resource
          NoStep,       \* resource.step is NULL
          NoJob         \* resource.job_id is NULL

JobStatus == {"pending", "running", "success", "error"}

ClaimAge == {"none", "fresh", "expired"}

RESOURCE_ACTIONS == [name \in {"instance.create", "instance.update",
                               "instance.start", "instance.stop",
                               "instance.delete", "template.sync",
                               "template_assignment.create",
                               "template_assignment.delete",
                               "workspace.create", "workspace.update",
                               "workspace.delete"} |->
    IF name \in {"instance.create", "template_assignment.create",
                "workspace.create"} THEN "creating"
    ELSE IF name \in {"instance.update", "workspace.update"} THEN "updating"
    ELSE IF name = "instance.start" THEN "starting"
    ELSE IF name = "instance.stop"  THEN "stopping"
    ELSE IF name = "template.sync"  THEN "syncing"
    ELSE "deleting"]

JobNames == DOMAIN RESOURCE_ACTIONS \cup {"database.sync"}

Actions == {"creating", "updating", "starting", "stopping", "syncing",
            "deleting"}

AbsentJob == [name |-> "database.sync", resource |-> NoResource,
              step |-> NoStep, status |-> "absent", attempt |-> 0,
              claimed |-> "none"]

AbsentResource == [job |-> NoJob, action |-> "creating", step |-> NoStep,
                   status |-> "absent"]

\* add_job_execution: the row staged in the caller's transaction.
NewJob(name, resource, step) ==
    [name |-> name, resource |-> resource, step |-> step,
     status |-> "pending", attempt |-> 0, claimed |-> "none"]

\* The resource row a request leaves behind, in the transaction of NewJob.
Requested(j, name, step) ==
    [job |-> j, action |-> RESOURCE_ACTIONS[name], step |-> step,
     status |-> "pending"]

-----------------------------------------------------------------------------
\* Mutant of ResourceMatches: the comparison with resource.job_id is dropped.
MatchesAnyJob(j, job, res) ==
    \/ job.resource = NoResource
    \/ /\ res.status # "absent"
       /\ job.name \in DOMAIN RESOURCE_ACTIONS
       /\ res.action = RESOURCE_ACTIONS[job.name]
       /\ res.step = job.step

\* _resource_matches: does the resource still own this exact job step?
ResourceMatches(j, job, res) ==
    \/ job.resource = NoResource
    \/ /\ res.status # "absent"
       /\ job.name \in DOMAIN RESOURCE_ACTIONS
       /\ res.job = j
       /\ res.action = RESOURCE_ACTIONS[job.name]
       /\ res.step = job.step

\* claim_execution: the conditions under which a delivery is not a no-op.
Claimable(j, job, res, task) ==
    /\ job.status \in {"pending", "error"}
    /\ job.step = task
    /\ ResourceMatches(j, job, res)

\* Mutant of Owned: the attempt is not compared.
OwnedAnyAttempt(claim, job, res) ==
    /\ job.status = "running"
    /\ job.step = claim.step
    /\ ResourceMatches(claim.job, job, res)

\* owned_execution: the claim still fences the current attempt.
Owned(claim, job, res) ==
    /\ job.status = "running"
    /\ job.step = claim.step
    /\ job.attempt = claim.attempt
    /\ ResourceMatches(claim.job, job, res)

\* Mutant of Retryable: claimed_at is not looked at again under the lock.
RetryableWithoutSecondLook(j, job, res, staleBefore) ==
    /\ job.status \in {"pending", "running", "error"}
    /\ ResourceMatches(j, job, res)

\* prepare_execution_retry: a job the recovery scan redelivers.  staleBefore
\* says whether claimed_at is at or before the scan's own stale_before.
Retryable(j, job, res, staleBefore) ==
    /\ job.status \in {"pending", "running", "error"}
    /\ ResourceMatches(j, job, res)
    /\ job.status = "running" => staleBefore

-----------------------------------------------------------------------------
\* A job row with the columns that transitions write; the others are kept.
JobWith(job, step, status, attempt, claimed) ==
    [name |-> job.name, resource |-> job.resource, step |-> step,
     status |-> status, attempt |-> attempt, claimed |-> claimed]

\* A resource row with a new step and status, as every transition mirrors them.
ResourceWith(res, step, status) ==
    [job |-> res.job, action |-> res.action, step |-> step, status |-> status]

\* Mutant of ClaimedJob: the attempt counter is not incremented.
ClaimedWithoutCount(job) ==
    JobWith(job, job.step, "running", job.attempt, "fresh")

\* Mutant of AdvancedJob: the step is cleared before its successor is known.
AdvancedWithoutStep(job, step) ==
    JobWith(job, NoStep, "pending", job.attempt, "none")

\* The job row after each transition of execution.py.
ClaimedJob(job) ==
    JobWith(job, job.step, "running", job.attempt + 1, "fresh")
AdvancedJob(job, step) ==
    JobWith(job, step, "pending", job.attempt, "none")
CompletedJob(job) ==
    JobWith(job, job.step, "success", job.attempt, "none")
DeferredJob(job) ==
    JobWith(job, job.step, "pending", job.attempt, "none")
FailedJob(job) ==
    JobWith(job, job.step, "error", job.attempt, "none")
HeartbeatJob(job) ==
    JobWith(job, job.step, job.status, job.attempt, "fresh")
\* An expired running row goes back to pending; other rows are only redelivered.
ReclaimedJob(job) ==
    IF job.status = "running" THEN DeferredJob(job) ELSE job
\* Time passes: claimed_at falls behind the staleness threshold.
ExpiredJob(job) ==
    JobWith(job, job.step, job.status, job.attempt, "expired")
=============================================================================
