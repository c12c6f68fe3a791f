SPECIFICATION TSpec
CONSTANTS
    NoResource = NoResource
    NoStep = NoStep
    NoJob = NoJob
    NoClaim = NoClaim
    NoTemplate = NoTemplate
    NoVersion = NoVersion
    Jobs = {j1, j2}
    Template = tpl
    Assignments = {a1}
    Resources = {tpl, a1}
    Workers = {w1}
    Scanners = {beat}
    Templates = {t1, t2}
    Versions = {v1, v2, v3}
    Events <- MCBranch
    MaxChanges = 1
    MaxAttempts = 3
    MaxDisturbances = 1
    Steps <- TemplateFinalSteps
    Transitions <- TemplateTransitions
    NextSteps <- MCNone
    FinalSteps <- TemplateFinalSteps
    DeletingSteps <- TemplateDeletingSteps
    Successors <- MCNone
INVARIANTS
    RetryWindowsAreClosed
SYMMETRY MCSymmetry
