SPECIFICATION LSpec
CONSTANTS
    NoResource = NoResource
    NoStep = NoStep
    NoJob = NoJob
    NoClaim = NoClaim
    NoPassword = NoPassword
    Jobs = {j1, j2}
    Resources = {i1}
    Inst = i1
    Workers = {w1, w2}
    Scanners = {beat}
    Passwords = {p1}
    StaleWorkersAct = TRUE
    Steps <- MCSteps
    Transitions <- InstanceTransitions
    NextSteps <- InstanceNextSteps
    FinalSteps <- InstanceFinalSteps
    DeletingSteps <- InstanceDeletingSteps
    Successors <- InstanceSuccessors
    MaxDisturbances = 1
INVARIANTS
    ConfirmedAbsence
