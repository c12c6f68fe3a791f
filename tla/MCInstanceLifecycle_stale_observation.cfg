SPECIFICATION LSpec
CONSTANTS
    NoResource = NoResource
    NoStep = NoStep
    NoJob = NoJob
    NoClaim = NoClaim
    NoPassword = NoPassword
    Jobs = {j1}
    Resources = {i1}
    Inst = i1
    Workers = {w1}
    Scanners = {beat}
    Passwords = {p1}
    StaleWorkersAct = FALSE
    Steps <- MCSteps
    Transitions <- InstanceTransitions
    NextSteps <- InstanceNextSteps
    FinalSteps <- InstanceFinalSteps
    DeletingSteps <- InstanceDeletingSteps
    Successors <- InstanceSuccessors
    MaxDisturbances = 2
INVARIANTS
    SettledStateIsTrue
