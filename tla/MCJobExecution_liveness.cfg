SPECIFICATION FairSpec
CONSTANTS
    NoResource = NoResource
    NoStep = NoStep
    NoJob = NoJob
    NoClaim = NoClaim
    Jobs = {j1, j2}
    Resources = {r1}
    Workers = {w1, w2}
    Scanners = {beat}
    Steps <- MCWorkspaceSteps
    Transitions <- MCWorkspaceTransitions
    NextSteps <- MCNoPairs
    FinalSteps <- MCWorkspaceSteps
    DeletingSteps <- WorkspaceDeletingSteps
    Successors <- MCNoPairs
    MaxDisturbances = 2
PROPERTIES
    EveryJobSettles
