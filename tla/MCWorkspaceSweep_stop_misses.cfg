SPECIFICATION SSpec
CONSTANTS
    Workspaces <- MCTwo
    Ours = {1}
    PageSize = 1
    Modes = {"stop"}
INVARIANT EveryTargetIsDealtWith
