SPECIFICATION LFairSpec
CONSTANTS
    NoRow = NoRow
    Connections = {s1, s2}
    Rows <- MCRows
    Transactions <- AllTransactions
INVARIANTS
    DeadlocksNeedDisorder
PROPERTIES
    TransactionsEnd
