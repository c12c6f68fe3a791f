SPECIFICATION SSpec
CONSTANTS
    Workspaces <- MCThree
    Ours = {2}
    PageSize = 1
    Modes = {"delete_template"}
INVARIANT EveryTargetIsDealtWith
