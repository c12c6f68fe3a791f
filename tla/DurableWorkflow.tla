--------------------------- MODULE DurableWorkflow ---------------------------
(***************************************************************************)
(* What the durable job engine promises, with no worker, claim, message,   *)
(* retry or crash in sight: a resource has at most one current job, a job  *)
(* is accepted at the first step of its operation, the current job commits *)
(* its steps one at a time along the step graph, and a job that is no      *)
(* longer current never moves again.                                       *)
(***************************************************************************)
CONSTANTS Jobs, Resources, NoResource, NoJob,
          Transitions,  \* accepted requests: [name, action, status, first]
          NextSteps,    \* pairs <<s, t>>: step s is followed by step t
          FinalSteps,   \* steps that may complete the job
          DeletingSteps,\* steps whose completion deletes the resource
          Successors    \* [step, name, first]: a completion that opens a job

VARIABLES progress,     \* progress[j]: "absent", a step, or "done"
          bound,        \* bound[j]: the resource job j was accepted for
          current       \* current[r]: the job that owns resource r, or NoJob

avars == <<progress, bound, current>>

AInit ==
    /\ progress = [j \in Jobs |-> "absent"]
    /\ bound = [j \in Jobs |-> NoResource]
    /\ current = [r \in Resources |-> NoJob]

\* The job that owns its resource, or a system job, which nothing supersedes.
Current(j) == bound[j] = NoResource \/ \E r \in Resources :
                                          bound[j] = r /\ current[r] = j

\* A request binds a new job to the resource, superseding the previous one.
AAccept(j, r) ==
    /\ progress[j] = "absent"
    /\ \E t \in Transitions : progress' = [progress EXCEPT ![j] = t.first]
    /\ bound' = [bound EXCEPT ![j] = r]
    /\ current' = [x \in Resources |-> IF x = r THEN j ELSE current[x]]

\* The current job commits its step and moves to a following one.
AAdvance(j) ==
    /\ Current(j)
    /\ \E t \in NextSteps :
          /\ progress[j] = t[1]
          /\ progress' = [progress EXCEPT ![j] = t[2]]
    /\ UNCHANGED <<bound, current>>

\* The current job commits its last step; the row may be deleted with it.
AComplete(j) ==
    /\ Current(j)
    /\ progress[j] \in FinalSteps
    /\ progress' = [progress EXCEPT ![j] = "done"]
    /\ current' = [x \in Resources |->
                     IF x = bound[j] /\ progress[j] \in DeletingSteps
                     THEN NoJob ELSE current[x]]
    /\ UNCHANGED bound

\* The last step commits and opens the next job on the same resource.
AContinue(j, k) ==
    /\ Current(j)
    /\ progress[k] = "absent"
    /\ k # j
    /\ \E t \in Successors :
          /\ progress[j] = t.step
          /\ progress' = [progress EXCEPT ![j] = "done", ![k] = t.first]
    /\ bound' = [bound EXCEPT ![k] = bound[j]]
    /\ current' = [x \in Resources |->
                     IF x = bound[j] THEN k ELSE current[x]]

ANext ==
    \/ \E j \in Jobs, r \in Resources \cup {NoResource} : AAccept(j, r)
    \/ \E j \in Jobs : AAdvance(j) \/ AComplete(j)
    \/ \E j, k \in Jobs : AContinue(j, k)

ASpec == AInit /\ [][ANext]_avars
=============================================================================
