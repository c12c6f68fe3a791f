SPECIFICATION MSpec
CONSTANTS
    NoResource = NoResource
    NoStep = NoStep
    NoJob = NoJob
    NoClaim = NoClaim
    NoRole = NoRole
    Jobs = {j0, j1, j2}
    Resources = {i1}
    Inst = i1
    Workers = {w1, w2}
    Scanners = {beat}
    Members = {m1, m2}
    Roles = {user, admin}
    StaleWorkersAct = TRUE
    Steps <- MCSteps
    Transitions <- MCUpdates
    NextSteps <- MCNextSteps
    FinalSteps <- MCFinalSteps
    DeletingSteps <- MCNone
    Successors <- InstanceSuccessors
    MaxDisturbances = 1
INVARIANT MembersAreReconciled
SYMMETRY MCSymmetry
