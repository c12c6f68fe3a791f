------------------------------ MODULE Workflows ------------------------------
(***************************************************************************)
(* The step graphs of the business operations and the states in which a    *)
(* request for them is accepted, read off the step modules' calls of       *)
(* advance_execution / complete_execution and off the repositories' guards.*)
(* These tables are the values the model checker gives to the constants of *)
(* JobExecution; step names are those of tasks/common/registry.py.         *)
(***************************************************************************)

\* What advance_execution is called with, step by step.  step_03_bootstrap_admin
\* would also advance an instance.update job, but no step leads such a job there.
InstanceNextSteps ==
    {<<"step_01_create_schema", "step_02_create_instance">>,
     <<"step_02_create_instance", "step_03_bootstrap_admin">>,
     <<"step_01_update_instance", "step_02_cleanup_users">>,
     <<"step_01_start_instance", "step_02_cleanup_users">>,
     <<"step_01_stop_workspaces", "step_02_stop_instance">>,
     <<"step_01_remove_workspaces", "step_02_remove_instance">>,
     <<"step_02_remove_instance", "step_03_remove_schema">>,
     <<"step_03_remove_schema", "step_04_remove_local_configuration">>}

InstanceFinalSteps ==
    {"step_03_bootstrap_admin", "step_02_cleanup_users",
     "step_02_stop_instance", "step_04_remove_local_configuration"}

InstanceDeletingSteps == {"step_04_remove_local_configuration"}

\* _finalize_update opens a new instance.update for changes queued meanwhile.
InstanceSuccessors ==
    {[step |-> "step_02_cleanup_users", name |-> "instance.update",
      first |-> "step_01_update_instance"]}

\* The (action, status) pairs in which a sync, start or stop is accepted: not
\* before creation succeeded, not while deleting, pending or running.
Settled == {<<"creating", "success">>} \cup
           ({"updating", "starting", "stopping"} \X {"success", "error"})

\* Deletion needs a success, or abandons a failed creation; without a verified
\* administrator password a failed creation skips the workspace cleanup.
Deletable ==
    {<<p[1], "success", "step_01_remove_workspaces">> : p \in Settled}
    \cup {<<"creating", "error", f>> : f \in {"step_01_remove_workspaces",
                                              "step_02_remove_instance"}}

InstanceTransitions ==
    {[name |-> "instance.create", action |-> "creating", status |-> "absent",
      first |-> "step_01_create_schema"]}
    \cup {[name |-> n[1], action |-> p[1], status |-> p[2], first |-> n[2]] :
            p \in Settled,
            n \in {<<"instance.update", "step_01_update_instance">>,
                   <<"instance.start", "step_01_start_instance">>,
                   <<"instance.stop", "step_01_stop_workspaces">>}}
    \cup {[name |-> "instance.delete", action |-> d[1], status |-> d[2],
           first |-> d[3]] : d \in Deletable}

-----------------------------------------------------------------------------
\* Workspace operations have one step each and are accepted whenever the
\* workspace is neither pending nor running, whatever its last action was.
WorkspaceFinalSteps ==
    {"step_01_create_workspace", "step_01_update_workspace",
     "step_01_delete_workspace"}

WorkspaceDeletingSteps == {"step_01_delete_workspace"}

WorkspaceTransitions ==
    {[name |-> "workspace.create", action |-> "creating", status |-> "absent",
      first |-> "step_01_create_workspace"]}
    \cup {[name |-> n[1], action |-> a, status |-> s, first |-> n[2]] :
            a \in {"creating", "updating", "deleting"},
            s \in {"success", "error"},
            n \in {<<"workspace.update", "step_01_update_workspace">>,
                   <<"workspace.delete", "step_01_delete_workspace">>}}

\* Template operations have one step each.  A failed one is only retried: no
\* request is accepted before its job succeeded.
TemplateFinalSteps ==
    {"step_01_sync_template", "step_01_create_template",
     "step_01_delete_template"}

TemplateDeletingSteps == {"step_01_delete_template"}

TemplateTransitions ==
    {[name |-> "template_assignment.create", action |-> "creating",
      status |-> "absent", first |-> "step_01_create_template"],
     [name |-> "template_assignment.delete", action |-> "creating",
      status |-> "success", first |-> "step_01_delete_template"]}
    \cup {[name |-> "template.sync", action |-> a, status |-> "success",
           first |-> "step_01_sync_template"] :
             a \in {"creating", "updating", "syncing"}}

\* Database synchronization is a system job with one step.
DatabaseSyncTransitions ==
    {[name |-> "database.sync", action |-> "none", status |-> "none",
      first |-> "step_01_sync_database"]}

DatabaseSyncSteps == {"step_01_sync_database"}
=============================================================================
