------------------------- MODULE MCWorkspaceLifecycle -------------------------
\* Small instances of the workspace life cycle.
EXTENDS WorkspaceLifecycle, TLC

MCNone == {}

MCSymmetry == Permutations(Workers) \cup Permutations(Values \ {Empty})
                \cup Permutations(Names) \cup Permutations(Resources)
=============================================================================
