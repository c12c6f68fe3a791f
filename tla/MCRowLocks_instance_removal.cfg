SPECIFICATION LSpec
CONSTANTS
    NoRow = NoRow
    Connections = {s1, s2}
    Rows <- MCOneRow
    Transactions <- MCInstanceRemoval
INVARIANT NoDeadlock
