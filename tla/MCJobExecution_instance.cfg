SPECIFICATION Spec
CONSTANTS
    NoResource = NoResource
    NoStep = NoStep
    NoJob = NoJob
    NoClaim = NoClaim
    Jobs = {j1, j2, j3}
    Resources = {r1}
    Workers = {w1, w2}
    Scanners = {beat}
    Steps <- MCInstanceSteps
    Transitions <- InstanceTransitions
    NextSteps <- InstanceNextSteps
    FinalSteps <- InstanceFinalSteps
    DeletingSteps <- InstanceDeletingSteps
    Successors <- InstanceSuccessors
    MaxDisturbances = 2
INVARIANTS
    TypeOK
    Mirror
    LiveJobsAreCurrent
    TokensAreUnique
    OneOwnerPerResource
PROPERTIES
    FreshClaimsAreKept
    NoHandoverWhileOwned
    ImplementsWorkflow
SYMMETRY MCSymmetry
