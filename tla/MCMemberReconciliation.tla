------------------------ MODULE MCMemberReconciliation ------------------------
\* Small instances of member reconciliation, with the repository's step graph.
EXTENDS MemberReconciliation, TLC

MCSteps == {"step_01_update_instance", "step_02_cleanup_users",
            "step_01_start_instance", "step_01_stop_workspaces",
            "step_02_stop_instance"}

MCNextSteps == {p \in InstanceNextSteps : p[1] \in MCSteps /\ p[2] \in MCSteps}

MCFinalSteps == InstanceFinalSteps \cap MCSteps

\* Everything but creation and deletion of the instance.
MCTransitions == {t \in InstanceTransitions : t.first \in MCSteps}

\* Updates only.
MCUpdates == {t \in InstanceTransitions : t.name = "instance.update"}

MCNone == {}

MCSymmetry == Permutations(Workers) \cup Permutations(Members)
=============================================================================
