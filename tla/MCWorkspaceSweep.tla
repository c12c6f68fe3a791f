--------------------------- MODULE MCWorkspaceSweep ---------------------------
\* Small instances of the workspace loops.
EXTENDS WorkspaceSweep

MCTwo == 1..2
MCThree == 1..3
=============================================================================
