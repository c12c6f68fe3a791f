------------------------- MODULE MCInstanceLifecycle -------------------------
\* Small instances of the instance life cycle, with the repository's step graph.
EXTENDS InstanceLifecycle

MCSteps ==
    UNION {{p[1], p[2]} : p \in InstanceNextSteps} \cup InstanceFinalSteps
=============================================================================
