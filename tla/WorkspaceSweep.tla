---------------------------- MODULE WorkspaceSweep ----------------------------
(***************************************************************************)
(* The loops of domains/coder/service.py that stop or delete the remote    *)
(* workspaces of one instance: list them page by page, submit a build for  *)
(* each, wait, and list again until nothing is left; and the daily stop,   *)
(* which lists once and waits for nothing.  Meanwhile the workspaces' own  *)
(* users create, start, stop and delete them.                              *)
(***************************************************************************)
EXTENDS Integers, FiniteSets, Sequences

CONSTANTS Workspaces,  \* identifiers, in the order Coder lists them
          Ours,        \* the workspaces of the template to remove
          PageSize,    \* WORKSPACE_PAGE_SIZE
          Modes        \* the loops that are run

ASSUME SweepAssumption ==
    /\ Workspaces \subseteq Int
    /\ Ours \subseteq Workspaces
    /\ PageSize \in Nat \ {0}
    /\ Modes \subseteq {"stop", "daily", "delete_all", "delete_template"}

VARIABLES ws,     \* ws[x]: the status of the latest build, or "absent"
          sweep,  \* the loop
          late,   \* the deadline of the loop has passed
          kept,   \* history: the targets that stayed targets since the listing
                  \* under way, or the last one, began
          slipped \* history: the workspaces that moved behind that listing
                  \* while it went on

svars == <<ws, sweep, late, kept, slipped>>

Statuses == {"absent", "starting", "running", "stopping", "stopped",
             "deleting", "failed"}

\* ACTIVE_WORKSPACE_BUILD_STATUSES; "pending" and "canceling" behave like the
\* status they lead to or come from.
Active == {"starting", "stopping", "deleting"}

Present == {x \in Workspaces : ws[x] # "absent"}

None == [x \in Workspaces |-> "none"]

\* seen[x] is the status x was listed with; builds[x] the outcome of the build
\* of x that was listed or submitted; waiting and blocking as in the code.
Sweep(at, mode, filter, offset, count, seen, builds, todo, waiting, blocking) ==
    [at |-> at, mode |-> mode, filter |-> filter, offset |-> offset,
     count |-> count, seen |-> seen, builds |-> builds, todo |-> todo,
     waiting |-> waiting, blocking |-> blocking]

Fresh(at, mode) == Sweep(at, mode, 1, 0, -1, None, None, {}, {}, {})

mode == sweep.mode
Looping == mode # "daily"
Deleting == mode \in {"delete_all", "delete_template"}

\* What each loop is to leave none of.
Targets(m, now) == {x \in Workspaces :
    IF m \in {"stop", "daily"} THEN now[x] \in {"running", "starting"}
    ELSE now[x] # "absent" /\ (m = "delete_template" => x \in Ours)}

\* The loop, its pages and its builds have their types, and it waits for a
\* build only of a workspace it has listed.
STypeOK ==
    /\ ws \in [Workspaces -> Statuses]
    /\ sweep.at \in {"idle", "connect", "head", "page", "act", "wait", "done",
                     "failed"}
    /\ mode \in {"stop", "daily", "delete_all", "delete_template"}
    /\ sweep.filter \in 1..3 /\ sweep.offset \in Nat
    /\ sweep.count \in Nat \cup {-1}
    /\ sweep.seen \in [Workspaces -> Statuses \cup {"none"}]
    /\ sweep.builds \in [Workspaces -> {"none", "active", "ok", "failed",
                                       "refused"}]
    /\ sweep.todo \cup sweep.waiting \cup sweep.blocking
          \subseteq {x \in Workspaces : sweep.seen[x] # "none"}
    /\ \A x \in sweep.waiting \cup sweep.blocking : sweep.builds[x] # "none"
    /\ late \in BOOLEAN
    /\ kept \cup slipped \subseteq Workspaces

SInit ==
    /\ ws \in [Workspaces -> {"absent", "starting", "running", "stopped"}]
    /\ sweep = Fresh("idle", "stop")
    /\ late = FALSE
    /\ kept = {}
    /\ slipped = {}

-----------------------------------------------------------------------------
\* A loop starts with a new deadline: the step of a job, or a retry of it.
\* The deletions wait for a Coder that answers (_wait_for_coder).
Start(m) ==
    /\ sweep.at \in {"idle", "failed", "done"}
    /\ sweep' = Fresh(IF m \in {"delete_all", "delete_template"} THEN "connect"
                                                                 ELSE "head", m)
    /\ late' = FALSE
    /\ kept' = {}
    /\ slipped' = {}
    /\ UNCHANGED ws

Stay == UNCHANGED <<ws, late, kept, slipped>>

Connect ==
    /\ sweep.at = "connect"
    /\ ~late
    /\ sweep' = Fresh("head", mode)
    /\ Stay

\* Any remote call may raise; so does a heartbeat without a claim.
Raise ==
    /\ sweep.at \in {"connect", "head", "page", "act", "wait"}
    /\ sweep' = Fresh("failed", mode)
    /\ Stay

\* Mutant of PastDeadline: the deadline is never looked at.
NeverLate == FALSE

\* _require_before_deadline; the daily stop has no deadline.
PastDeadline == late /\ Looping

TimeOut ==
    /\ sweep.at \in {"connect", "head", "wait"}
    /\ PastDeadline
    /\ sweep' = Fresh("failed", mode)
    /\ Stay

BeginScan ==
    /\ sweep.at = "head"
    /\ ~PastDeadline
    /\ sweep' = Fresh("page", mode)
    /\ kept' = Targets(mode, ws)
    /\ slipped' = {}
    /\ UNCHANGED <<ws, late>>

\* OBSERVED_WORKSPACE_STATUSES: one listing for each of them, in this order.
ObservedStatuses == <<"running", "starting", "stopping">>

\* client.workspaces: the items of S at the loop's offset.
Page(S) == {x \in S : Cardinality({y \in S : y <= x})
                        \in sweep.offset + 1 .. sweep.offset + PageSize}

Outcome(x) == IF ws[x] \in Active THEN "active" ELSE "ok"

\* The listing is complete: go through what it found, or stop.
Listed(seen, builds) ==
    LET todo == {x \in Workspaces : /\ seen[x] # "none"
                                    /\ mode = "delete_template" => x \in Ours}
    IN  Sweep(IF todo = {} THEN "done" ELSE "act", mode, 1, 0, -1, seen,
              builds, todo, {}, {})

Seen(items) == [x \in Workspaces |-> IF x \in items THEN ws[x] ELSE sweep.seen[x]]

Builds(items) == [x \in Workspaces |-> IF x \in items THEN Outcome(x)
                                       ELSE sweep.builds[x]]

\* What the loop is listing, in the order of the identifiers.
Listing == IF Deleting THEN Present
           ELSE {x \in Workspaces : ws[x] = ObservedStatuses[sweep.filter]}

\* _active_workspaces: a page of one status, the next status after the last.
PageOfStatus ==
    LET items == Page(Listing)
        next  == sweep.offset + Cardinality(items)
        more  == next < Cardinality(Listing)
    IN  /\ sweep.at = "page"
        /\ ~Deleting
        /\ sweep' = IF ~more /\ sweep.filter = Len(ObservedStatuses)
                    THEN Listed(Seen(items), Builds(items))
                    ELSE Sweep("page", mode,
                               IF more THEN sweep.filter ELSE sweep.filter + 1,
                               IF more THEN next ELSE 0,
                               -1, Seen(items), Builds(items), {}, {}, {})
        /\ Stay

\* _all_workspaces: a page of all of them; the count must not change and no
\* workspace may come twice.
PageOfAll ==
    LET items == Page(Listing)
        next  == sweep.offset + Cardinality(items)
        sane  == /\ sweep.count \in {-1, Cardinality(Listing)}
                 /\ \A x \in items : sweep.seen[x] = "none"
    IN  /\ sweep.at = "page"
        /\ Deleting
        /\ sweep' = IF ~sane THEN Fresh("failed", mode)
                    ELSE IF next >= Cardinality(Listing)
                    THEN Listed(Seen(items), Builds(items))
                    ELSE Sweep("page", mode, 1, next, Cardinality(Listing),
                               Seen(items), Builds(items), {}, {}, {})
        /\ Stay

-----------------------------------------------------------------------------
\* One workspace of the listing is dealt with; the last one ends the pass, and
\* the daily stop as a whole.
Handled(x, builds, waiting, blocking) ==
    LET todo == sweep.todo \ {x}
    IN  Sweep(IF todo # {} THEN "act" ELSE IF Looping THEN "wait"
              ELSE IF \E y \in Workspaces : builds[y] = "refused" THEN "failed"
              ELSE "done", mode, 1, 0, -1, sweep.seen, builds, todo, waiting, blocking)

\* A build that is already under way is waited for: one of the wanted kind
\* must succeed, any other only has to end.
Observe(x) ==
    LET wanted == IF Deleting THEN "deleting" ELSE "stopping"
    IN  /\ sweep.at = "act"
        /\ x \in sweep.todo
        /\ IF Deleting THEN sweep.seen[x] \in Active
                       ELSE sweep.seen[x] = "stopping"
        /\ sweep' = IF sweep.seen[x] = wanted
                    THEN Handled(x, sweep.builds, sweep.waiting \cup {x},
                                 sweep.blocking)
                    ELSE Handled(x, sweep.builds, sweep.waiting,
                                 sweep.blocking \cup {x})
        /\ Stay

NeedsBuild(x) == /\ sweep.at = "act"
                 /\ x \in sweep.todo
                 /\ IF Deleting THEN sweep.seen[x] \notin Active
                                ELSE sweep.seen[x] # "stopping"

\* What moves behind a listing under way when x gets a new status: x, when
\* its start build ends, since "running" is listed before "starting"; and what
\* comes after x, when x leaves the listing between two of its pages.
Slips(x, status) ==
    {y \in Workspaces :
        /\ sweep.at = "page"
        /\ \/ ~Deleting /\ y = x /\ ws[x] = "starting" /\ status = "running"
           \/ /\ sweep.offset > 0 /\ y > x /\ x \in Listing
              /\ ~Deleting \/ status = "absent"}

\* x gets a new status; what is no longer a target is no longer kept.
Become(x, status) ==
    /\ ws' = [ws EXCEPT ![x] = status]
    /\ kept' = kept \cap Targets(mode, ws')
    /\ slipped' = slipped \cup Slips(x, status)

\* create_workspace_stop_build or create_workspace_delete_build
SubmitBuild(x) ==
    /\ NeedsBuild(x)
    /\ ws[x] \notin Active \cup {"absent"}
    /\ Become(x, IF Deleting THEN "deleting" ELSE "stopping")
    /\ sweep' = Handled(x, [sweep.builds EXCEPT ![x] = "active"],
                        sweep.waiting \cup {x}, sweep.blocking)
    /\ UNCHANGED late

\* Coder refuses the build: another one is active, or the workspace is gone.
\* The daily stop goes on with the others and fails at the end.
Refused(x) ==
    /\ NeedsBuild(x)
    /\ ws[x] \in Active \cup {"absent"}
    /\ sweep' = IF Looping THEN Fresh("failed", mode)
                ELSE Handled(x, [sweep.builds EXCEPT ![x] = "refused"],
                             sweep.waiting, sweep.blocking)
    /\ Stay

\* Mutant of AfterWait: the loop returns without another listing.
NoRescan == "done"

\* The listing is repeated until it is empty.
AfterWait == "head"

\* _wait_workspace_builds and _wait_workspace_deletions
EndWait ==
    /\ sweep.at = "wait"
    /\ ~PastDeadline
    /\ \A x \in sweep.waiting : sweep.builds[x] = "ok"
    /\ \A x \in sweep.blocking : sweep.builds[x] # "active"
    /\ sweep' = Fresh(AfterWait, mode)
    /\ Stay

WaitFails ==
    /\ sweep.at = "wait"
    /\ \E x \in sweep.waiting : sweep.builds[x] = "failed"
    /\ sweep' = Fresh("failed", mode)
    /\ Stay

-----------------------------------------------------------------------------
\* Coder, the workspaces' users, and time.

EndBuild(x, status, outcome) ==
    /\ Become(x, status)
    /\ sweep' = Sweep(sweep.at, mode, sweep.filter, sweep.offset, sweep.count,
                      sweep.seen,
                      [sweep.builds EXCEPT ![x] = IF @ = "active" THEN outcome
                                                                  ELSE @],
                      sweep.todo, sweep.waiting, sweep.blocking)
    /\ UNCHANGED late

BuildOk(x) ==
    \E p \in {<<"starting", "running">>, <<"stopping", "stopped">>,
              <<"deleting", "absent">>} :
        ws[x] = p[1] /\ EndBuild(x, p[2], "ok")

BuildFails(x) == ws[x] \in Active /\ EndBuild(x, "failed", "failed")

\* An owner creates, starts, stops or deletes a workspace.
OwnerBuilds(x) ==
    /\ \E p \in {<<"absent", "starting">>, <<"stopped", "starting">>,
                 <<"failed", "starting">>, <<"running", "stopping">>,
                 <<"stopped", "deleting">>} :
          ws[x] = p[1] /\ Become(x, p[2])
    /\ UNCHANGED <<sweep, late>>

TimePasses ==
    /\ sweep.at \notin {"idle", "done", "failed"}
    /\ ~late
    /\ late' = TRUE
    /\ UNCHANGED <<ws, sweep, kept, slipped>>

-----------------------------------------------------------------------------
LoopStep == \/ Connect \/ TimeOut \/ BeginScan \/ PageOfStatus \/ PageOfAll
            \/ EndWait \/ WaitFails
            \/ \E x \in Workspaces : Observe(x) \/ SubmitBuild(x) \/ Refused(x)

SNext == \/ \E m \in Modes : Start(m)
         \/ LoopStep \/ Raise \/ TimePasses
         \/ \E x \in Workspaces : BuildOk(x) \/ BuildFails(x) \/ OwnerBuilds(x)

SSpec == SInit /\ [][SNext]_svars

\* The worker runs and its clock advances.  Nothing is assumed of Coder: a
\* build may hang, and users may start workspaces for ever.
SFairSpec == SSpec /\ WF_svars(LoopStep) /\ WF_svars(TimePasses)

-----------------------------------------------------------------------------
\* What a loop misses has slipped behind it.  A workspace that was to be
\* stopped or deleted during the whole of the last listing of a loop that
\* returned is one whose own start build ended meanwhile, or one that an
\* earlier workspace left the listing before, between two pages.  The loop of
\* delete_all_workspaces, after which the instance goes, misses nothing.
NothingIsMissed ==
    sweep.at = "done" => /\ kept \subseteq slipped
                         /\ mode = "delete_all" => kept = {}

\* What the documentation says of each loop: when it returns, it has dealt
\* with every workspace that was to be stopped or deleted.
EveryTargetIsDealtWith == sweep.at = "done" => kept = {}

\* Every loop ends: with success, or with an error its job is retried after.
SweepEnds == sweep.at = "head" ~> sweep.at \in {"done", "failed"}
=============================================================================
