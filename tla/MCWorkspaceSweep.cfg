SPECIFICATION SFairSpec
CONSTANTS
    Workspaces <- MCTwo
    Ours = {1}
    PageSize = 1
    Modes = {"stop", "daily", "delete_all", "delete_template"}
INVARIANTS
    NothingIsMissed
PROPERTIES
    SweepEnds
