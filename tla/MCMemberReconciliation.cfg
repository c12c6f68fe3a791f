SPECIFICATION MFairSpec
CONSTANTS
    NoResource = NoResource
    NoStep = NoStep
    NoJob = NoJob
    NoClaim = NoClaim
    NoRole = NoRole
    Jobs = {j0, j1, j2}
    Resources = {i1}
    Inst = i1
    Workers = {w1}
    Scanners = {beat}
    Members = {m1, m2}
    Roles = {user, admin}
    StaleWorkersAct = FALSE
    Steps <- MCSteps
    Transitions <- MCTransitions
    NextSteps <- MCNextSteps
    FinalSteps <- MCFinalSteps
    DeletingSteps <- MCNone
    Successors <- InstanceSuccessors
    MaxDisturbances = 1
INVARIANTS
    MembersAreReconciled
    DeletedMembersAreGone
PROPERTIES
    MemberChangesSettle
