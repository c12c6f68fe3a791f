------------------------- MODULE MemberReconciliation -------------------------
(***************************************************************************)
(* The members of one created instance, reconciled by the durable update   *)
(* and start jobs: step 1 writes the access policy into the Argo CD        *)
(* Application, step 2 removes unreferenced Coder accounts and finalizes   *)
(* the member rows, or opens another update for changes queued meanwhile.  *)
(*                                                                         *)
(* _claim_members and _claim_cleanup are transactions of their own that do *)
(* not look at the claim.  StaleWorkersAct says, as in InstanceLifecycle,  *)
(* whether a worker may still act after its claim was taken back.          *)
(***************************************************************************)
EXTENDS JobExecution, Workflows, FiniteSets

CONSTANTS Inst,            \* the instance row
          Members,         \* usernames
          Roles,           \* user and admin
          NoRole,          \* no access, or no such member
          StaleWorkersAct  \* may a worker without a valid claim go on?

ASSUME MemberAssumption ==
    /\ Inst \in Resources
    /\ NoRole \notin Roles
    /\ StaleWorkersAct \in BOOLEAN

VARIABLES members,  \* the member rows
          policy,   \* policy[m]: the role the Application grants to m
          users,    \* the members with a Coder account
          pass      \* pass[w]: how far worker w is inside its step

mvars == <<vars, members, policy, users, pass>>

UpdateStep == "step_01_update_instance"
CleanupStep == "step_02_cleanup_users"
StartStep == "step_01_start_instance"
StopSteps == {"step_01_stop_workspaces", "step_02_stop_instance"}

\* The engine runs the instance's step graph, or a part of it.
ASSUME MemberTables ==
    /\ Transitions \subseteq InstanceTransitions
    /\ NextSteps \subseteq InstanceNextSteps
    /\ FinalSteps \subseteq InstanceFinalSteps
    /\ DeletingSteps \subseteq InstanceDeletingSteps
    /\ Successors \subseteq InstanceSuccessors
    /\ CleanupStep \in Steps

MemberRow(action, status, role) ==
    [action |-> action, status |-> status, role |-> role]
AbsentMember == MemberRow("creating", "absent", NoRole)

\* ids are the members this attempt claimed, grants the policy to write, and
\* orphans the accounts to remove.
Pass(at, ids, grants, orphans) ==
    [at |-> at, ids |-> ids, grants |-> grants, orphans |-> orphans]
NoGrants == [m \in Members |-> NoRole]
NoPass == Pass("begin", {}, NoGrants, {})

row == resources[Inst]

\* Every member row has the type of its columns, and a role exactly while the
\* row exists.
MTypeOK ==
    /\ members \in [Members -> [action : {"creating", "updating", "deleting"},
                                status : JobStatus \cup {"absent"},
                                role : Roles \cup {NoRole}]]
    /\ \A m \in Members : members[m].status = "absent" <=> members[m].role = NoRole
    /\ policy \in [Members -> Roles \cup {NoRole}]
    /\ users \subseteq Members
    /\ pass \in [Workers -> [at : {"begin", "claimed", "listed", "done"},
                             ids : SUBSET Members,
                             grants : [Members -> Roles \cup {NoRole}],
                             orphans : SUBSET Members]]

\* An instance after a successful update, one attempt per step: every username
\* is a member with the role its policy grants, or no member.
MInit ==
    /\ \E j \in Draw(Jobs) :
          /\ jobs = [i \in Jobs |-> IF i = j
                THEN JobWith(NewJob("instance.update", Inst, CleanupStep),
                             CleanupStep, "success", 2, "none")
                ELSE AbsentJob]
          /\ resources = [r \in Resources |-> IF r = Inst
                THEN ResourceWith(Requested(j, "instance.update", CleanupStep),
                                  NoStep, "success")
                ELSE AbsentResource]
    /\ queue = {}
    /\ claims = [w \in Workers |-> NoClaim]
    /\ scans = [s \in Scanners |-> IdleScan]
    /\ disturbances = 0
    /\ policy \in [Members -> Roles \cup {NoRole}]
    /\ members = [m \in Members |->
          IF policy[m] = NoRole THEN AbsentMember
                                ELSE MemberRow("creating", "success", policy[m])]
    /\ users = {}
    /\ pass = [w \in Workers |-> NoPass]

-----------------------------------------------------------------------------
Present == {m \in Members : members[m].status # "absent"}

\* The member table with the rows of ids, as far as they are running, set to
\* status s (_fail_members, _defer_members).
Marked(ids, s) ==
    [m \in Members |-> IF m \in ids /\ members[m].status = "running"
                       THEN MemberRow(members[m].action, s, members[m].role)
                       ELSE members[m]]

\* Bound on jobs: a request leaves n identifiers for the jobs it may open.
Spare(n) == Cardinality({j \in Jobs : jobs[j].status = "absent"}) >= n

\* _lock_available_instance: step 1 of an update is already under way.
UpdateInProgress == /\ row.action = "updating"
                    /\ row.step = UpdateStep
                    /\ row.status \in {"pending", "running"}

\* _lock_available_instance, _request_instance_update and
\* _stage_instance_update_job: coalesce with the update, or open one.
RequestUpdate ==
    \/ /\ UpdateInProgress
       /\ Spare(1)
       /\ UNCHANGED vars
    \/ /\ Spare(2)
       /\ \E j \in NewIds, t \in Transitions :
             /\ t.name = "instance.update" /\ t.status = "success"
             /\ Request(j, Inst, t)

SetMember(m, new) == /\ members' = [members EXCEPT ![m] = new]
                     /\ RequestUpdate
                     /\ UNCHANGED <<policy, users, pass>>

CreateMember(m, r) ==
    /\ members[m].status = "absent"
    /\ SetMember(m, MemberRow("creating", "pending", r))

UpdateRole(m, r) ==
    /\ members[m].status = "success"
    /\ members[m].role # r
    /\ SetMember(m, MemberRow("updating", "pending", r))

\* request_deletion; protected administrators and members with workspaces are
\* refused, so m stands for one of the others.
DeleteMember(m) ==
    /\ members[m].status = "success"
    /\ SetMember(m, MemberRow("deleting", "pending", members[m].role))

\* request_sync: failed member changes join the new update.
RequestSync(j, t) ==
    /\ t.name = "instance.update"
    /\ Spare(2)
    /\ Request(j, Inst, t)
    /\ members' = [m \in Members |->
          IF members[m].status = "error"
          THEN MemberRow(members[m].action, "pending", members[m].role)
          ELSE members[m]]
    /\ UNCHANGED <<policy, users, pass>>

\* request_start and request_stop leave the members alone.
RequestPower(j, t) ==
    /\ t.name \in {"instance.start", "instance.stop"}
    /\ Spare(2)
    /\ Request(j, Inst, t)
    /\ UNCHANGED <<members, policy, users, pass>>

-----------------------------------------------------------------------------
Standing(w, step, at) == /\ claims[w] # NoClaim
                         /\ claims[w].step = step
                         /\ pass[w].at = at
                         /\ StaleWorkersAct \/ Owns(w, claims[w].job)

Goto(w, p) == pass' = [pass EXCEPT ![w] = p]

\* The policy of the members that are not being deleted.
Grants == [m \in Members |-> IF m \in Present /\ members[m].action # "deleting"
                             THEN members[m].role ELSE NoRole]

\* The rows of ids are taken into this pass.
Claimed(ids) == [m \in Members |-> IF m \in ids
                    THEN MemberRow(members[m].action, "running", members[m].role)
                    ELSE members[m]]

\* _claim_members: every change that is not done, and the policy of them all.
ClaimMembers(w) ==
    /\ Standing(w, UpdateStep, "begin")
    /\ LET ids == {m \in Present : members[m].status # "success"}
       IN  /\ members' = Claimed(ids)
           /\ Goto(w, Pass("claimed", ids, Grants, {}))
    /\ UNCHANGED <<vars, policy, users>>

\* step_01_start_instance reads the members and claims none.
ReadMembers(w) ==
    /\ Standing(w, StartStep, "begin")
    /\ Goto(w, Pass("claimed", {}, Grants, {}))
    /\ UNCHANGED <<vars, members, policy, users>>

\* reconcile_instance_application writes the policy into the Application.
WritePolicy(w) ==
    /\ Standing(w, UpdateStep, "claimed") \/ Standing(w, StartStep, "claimed")
    /\ policy' = pass[w].grants
    /\ Goto(w, Pass("done", pass[w].ids, NoGrants, {}))
    /\ UNCHANGED <<vars, members, users>>

\* The members with one of the statuses in S.
WithStatus(S) == {m \in Present : members[m].status \in S}

\* Take the rows of ids; accounts outside expected are not referenced.
CleanupOf(w, ids, expected) ==
    /\ Standing(w, CleanupStep, "begin")
    /\ members' = Claimed(ids)
    /\ Goto(w, Pass("claimed", ids, NoGrants, Members \ expected))
    /\ UNCHANGED <<vars, policy, users>>

\* The usernames that keep their account: those of ids only if not deleting.
Expected(ids) == {m \in Present : members[m].action # "deleting" \/ m \notin ids}

\* Mutant of ClaimCleanup: members being deleted stay referenced.
ClaimCleanupKeepingAccounts(w) ==
    CleanupOf(w, WithStatus({"running", "error"}), Present)

\* _claim_cleanup: the changes step 1 wrote, and the accounts not referenced.
ClaimCleanup(w) ==
    LET ids == WithStatus({"running", "error"})
    IN  CleanupOf(w, ids, Expected(ids))

\* cleanup_user_accounts lists the accounts, behind a heartbeat (a listing or
\* a deletion follows its heartbeat within the time a claim stays fresh) ...
ListUsers(w) ==
    /\ Standing(w, CleanupStep, "claimed")
    /\ Heartbeat(w)
    /\ LET orphans == pass[w].orphans \cap users
       IN  Goto(w, Pass(IF orphans = {} THEN "done" ELSE "listed",
                        pass[w].ids, NoGrants, orphans))
    /\ UNCHANGED <<members, policy, users>>

\* ... and deletes the unreferenced ones, each behind a heartbeat.
DeleteUser(w, m) ==
    /\ Standing(w, CleanupStep, "listed")
    /\ Heartbeat(w)
    /\ m \in pass[w].orphans
    /\ users' = users \ {m}
    /\ LET left == pass[w].orphans \ {m}
       IN  Goto(w, Pass(IF left = {} THEN "done" ELSE "listed",
                        pass[w].ids, NoGrants, left))
    /\ UNCHANGED <<members, policy>>

\* The steps of a stop touch no member row; the second removes the
\* Application and the policy with it.
StopStep(w) ==
    /\ \E step \in StopSteps : Standing(w, step, "begin")
    /\ policy' = IF claims[w].step = "step_02_stop_instance"
                 THEN NoGrants ELSE policy
    /\ Goto(w, Pass("done", {}, NoGrants, {}))
    /\ UNCHANGED <<vars, members, users>>

WorkerStep(w) == \/ ClaimMembers(w) \/ ReadMembers(w) \/ WritePolicy(w)
                 \/ ClaimCleanup(w) \/ ListUsers(w) \/ StopStep(w)
                 \/ \E m \in Members : DeleteUser(w, m)

-----------------------------------------------------------------------------
MClaim(w, msg) ==
    /\ Claim(w, msg)
    /\ Goto(w, NoPass)
    /\ UNCHANGED <<members, policy, users>>

MAdvance(w, next) ==
    /\ pass[w].at = "done"
    /\ Advance(w, next)
    /\ Goto(w, NoPass)
    /\ UNCHANGED <<members, policy, users>>

\* _finalize_update: deletions remove the row, other changes succeed.
Finalized(ids) ==
    [m \in Members |->
        IF m \in ids /\ members[m].status = "running"
        THEN IF members[m].action = "deleting" THEN AbsentMember
             ELSE MemberRow(members[m].action, "success", members[m].role)
        ELSE members[m]]

\* Mutant of Queued: nobody looks for changes that came in meanwhile.
NothingQueued(rows) == FALSE

\* _finalize_update: is a change waiting for another pass?
Queued(rows) == \E m \in Members : rows[m].status = "pending"

\* complete_execution of a stop, or _finalize_update with nothing queued.
MComplete(w) ==
    /\ pass[w].at = "done"
    /\ Complete(w)
    /\ IF claims[w].step = CleanupStep
       THEN members' = Finalized(pass[w].ids) /\ ~Queued(members')
       ELSE UNCHANGED members
    /\ Goto(w, NoPass)
    /\ UNCHANGED <<policy, users>>

\* _finalize_update with a change queued: the next update takes over.
MContinue(w, k, t) ==
    /\ pass[w].at = "done"
    /\ Continue(w, k, t)
    /\ members' = Finalized(pass[w].ids)
    /\ Queued(members')
    /\ Goto(w, NoPass)
    /\ UNCHANGED <<policy, users>>

\* ensure_application may have put the policy of the pass when the operation
\* it finds afterwards makes it defer, or when its last calls raise.
MayHaveWritten(w) ==
    \/ UNCHANGED policy
    \/ /\ claims[w].step \in {UpdateStep, StartStep}
       /\ pass[w].at = "claimed"
       /\ policy' = pass[w].grants

\* Argo CD is busy: the claimed members go back to pending with the job.
MDefer(w) ==
    /\ \/ Standing(w, UpdateStep, "claimed")
       \/ Standing(w, StartStep, "claimed")
       \/ Standing(w, "step_02_stop_instance", "begin")
    /\ Defer(w)
    /\ members' = Marked(pass[w].ids, "pending")
    /\ MayHaveWritten(w)
    /\ Goto(w, NoPass)
    /\ UNCHANGED users

\* The step raises.  Between the claim of the members and the finishing
\* transaction they fail with the job; elsewhere they are left as they are.
MFail(w) ==
    /\ Fail(w)
    /\ \/ /\ pass[w].at \in {"claimed", "listed"}
          /\ members' = Marked(pass[w].ids, "error")
       \/ /\ pass[w].at # "listed"
          /\ ~(claims[w].step = UpdateStep /\ pass[w].at = "claimed")
          /\ UNCHANGED members
    /\ MayHaveWritten(w)
    /\ Goto(w, NoPass)
    /\ UNCHANGED users

\* The claim is lost, or the process dies.
MStop(w) ==
    /\ Abandon(w) \/ Crash(w)
    /\ Goto(w, NoPass)
    /\ UNCHANGED <<members, policy, users>>

\* A member who has access signs in and gets a Coder account.
SignIn(m) ==
    /\ policy[m] # NoRole
    /\ m \notin users
    /\ users' = users \cup {m}
    /\ UNCHANGED <<vars, members, policy, pass>>

\* A step of the engine that touches no member.
Engine(A) == A /\ UNCHANGED <<members, policy, users, pass>>

MNext ==
    \/ \E m \in Members, r \in Roles : CreateMember(m, r)
    \/ \E m \in Members, r \in Roles : UpdateRole(m, r)
    \/ \E m \in Members : DeleteMember(m)
    \/ \E j \in NewIds, t \in Transitions : RequestSync(j, t)
    \/ \E j \in NewIds, t \in Transitions : RequestPower(j, t)
    \/ \E w \in Workers, msg \in queue : MClaim(w, msg)
    \/ \E w \in Workers : WorkerStep(w)
    \/ \E w \in Workers, next \in Steps : MAdvance(w, next)
    \/ \E w \in Workers : MComplete(w)
    \/ \E w \in Workers, k \in NewIds, t \in Successors : MContinue(w, k, t)
    \/ \E w \in Workers : MDefer(w)
    \/ \E w \in Workers : MFail(w)
    \/ \E w \in Workers : MStop(w)
    \/ \E m \in Members : SignIn(m)
    \/ \E msg \in queue : Engine(IgnoreDelivery(msg))
    \/ \E msg \in queue : Engine(Lose(msg))
    \/ \E j \in Jobs : Engine(Expire(j))
    \/ \E s \in Scanners : Engine(ScanStart(s))
    \/ \E s \in Scanners, j \in Jobs : Engine(ScanJob(s, j))
    \/ \E s \in Scanners : Engine(ScanEnd(s))

MSpec == MInit /\ [][MNext]_mvars

\* The fairness of the engine; nothing is assumed of requests or members.
MFairness ==
    /\ \A msg \in Jobs \X Steps :
          WF_mvars((\E w \in Workers : MClaim(w, msg))
                   \/ Engine(IgnoreDelivery(msg)))
    /\ \A w \in Workers :
          WF_mvars(\/ WorkerStep(w) \/ MComplete(w)
                   \/ \E next \in Steps : MAdvance(w, next)
                   \/ \E k \in NewIds, t \in Successors : MContinue(w, k, t)
                   \/ MStop(w) /\ disturbances' = disturbances)
    /\ \A j \in Jobs : WF_mvars(Engine(Expire(j)))
    /\ \A s \in Scanners : /\ WF_mvars(Engine(ScanStart(s)))
                           /\ WF_mvars(\E j \in Jobs : Engine(ScanJob(s, j)))
                           /\ WF_mvars(Engine(ScanEnd(s)))

MFairSpec == MSpec /\ MFairness

-----------------------------------------------------------------------------
\* A successful update or start has reconciled every member: each one present
\* has exactly the role the Application grants, also if it was changed while
\* the job ran, failed before, or was queued behind another attempt.
MembersAreReconciled ==
    (row.status = "success" /\ row.action \in {"updating", "starting"}) =>
        \A m \in Present : /\ members[m].status = "success"
                           /\ members[m].role = policy[m]

\* A member row disappears only after its access and its Coder account are
\* gone, and neither comes back through a retry of an older pass.
DeletedMembersAreGone ==
    \A m \in Members \ Present : policy[m] = NoRole /\ m \notin users

\* Every member change queued while the instance is updated or started is
\* carried through, although it may have missed the pass it was queued in.
MemberChangesSettle ==
    \A m \in Members : members[m].status = "pending" ~>
        \/ members[m].status \in {"success", "absent"}
        \/ row.action = "stopping"
=============================================================================
