--------------------------- MODULE MCDatabasePool ---------------------------
\* A small pool: identifiers of every kind are interchangeable.
EXTENDS DatabasePool, TLC

MCSymmetry == Permutations(Databases) \cup Permutations(Instances)
                                      \cup Permutations(Sessions)
=============================================================================
