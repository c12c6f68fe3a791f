SPECIFICATION LFairSpec
CONSTANTS
    NoResource = NoResource
    NoStep = NoStep
    NoJob = NoJob
    NoClaim = NoClaim
    NoPassword = NoPassword
    Jobs = {j1, j2, j3}
    Resources = {i1}
    Inst = i1
    Workers = {w1}
    Scanners = {beat}
    Passwords = {p1, p2}
    StaleWorkersAct = FALSE
    Steps <- MCSteps
    Transitions <- InstanceTransitions
    NextSteps <- InstanceNextSteps
    FinalSteps <- InstanceFinalSteps
    DeletingSteps <- InstanceDeletingSteps
    Successors <- InstanceSuccessors
    MaxDisturbances = 1
INVARIANTS
    ConfirmedAbsence
    ApplicationHasSchema
    SuccessIsUsable
    AdminPasswordIsKept
    NoOrphans
PROPERTIES
    DeletionCompletes
