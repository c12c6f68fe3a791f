------------------------------ MODULE MCRowLocks ------------------------------
\* Small instances of the row locks.
EXTENDS RowLocks

\* Two rows of the tables of which one transaction locks several; in the other
\* tables two sessions meet at one row or do not meet.
MCRows == (Tables \X {1})
          \cup ({"database", "member", "parameter", "workspace"} \X {2})

MCOneRow == Tables \X {1}

MCInstanceRemoval == WorkspaceTransactions \cup {RemoveInstanceTransaction}

\* No transactions wait for each other.
NoDeadlock == \A D \in SUBSET Connections : ~Deadlock(D)
=============================================================================
