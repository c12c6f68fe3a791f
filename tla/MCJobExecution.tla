--------------------------- MODULE MCJobExecution ---------------------------
\* Small instances of the job engine, with the step graphs of the repository.
EXTENDS JobExecution, Workflows, TLC

\* Instance operations on one instance.
MCInstanceSteps ==
    UNION {{p[1], p[2]} : p \in InstanceNextSteps} \cup InstanceFinalSteps

\* Workspace operations on two workspaces next to a database synchronization.
MCWorkspaceSteps == WorkspaceFinalSteps \cup DatabaseSyncSteps
MCWorkspaceTransitions == WorkspaceTransitions \cup DatabaseSyncTransitions
MCNoPairs == {}

\* Job identifiers and worker processes are interchangeable.
MCSymmetry == Permutations(Jobs) \cup Permutations(Workers)
=============================================================================
