SPECIFICATION WSpec
CONSTANTS
    NoResource = NoResource
    NoStep = NoStep
    NoJob = NoJob
    NoClaim = NoClaim
    NoName = NoName
    NoValue = NoValue
    NoRemote = NoRemote
    Jobs = {j1, j2, j3}
    Resources = {ws1, ws2}
    Workers = {w1, w2}
    Scanners = {beat}
    Names = {n1, n2}
    Values = {v1}
    Remotes = {x1, x2, x3}
    Empty = v1
    InstanceDeletes = FALSE
    MaxDisturbances = 1
    Steps <- WorkspaceFinalSteps
    Transitions <- WorkspaceTransitions
    NextSteps <- MCNone
    FinalSteps <- WorkspaceFinalSteps
    DeletingSteps <- WorkspaceDeletingSteps
    Successors <- MCNone
INVARIANT AdoptsOnlyItsOwn
SYMMETRY MCSymmetry
