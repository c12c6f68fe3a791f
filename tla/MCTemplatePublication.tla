------------------------- MODULE MCTemplatePublication -------------------------
\* Small instances of the template publication.
EXTENDS TemplatePublication, TLC

MCNone == {}
MCRequests == {"branch", "imports", "parameters", "provider", "source", "stops"}
MCBranch == {"branch"}
MCSource == {"source"}
MCImports == {"imports"}
MCTargets == {"admin", "branch", "imports"}
MCProvider == {"provider"}

MCSymmetry == Permutations(Workers) \cup Permutations(Assignments)
=============================================================================
