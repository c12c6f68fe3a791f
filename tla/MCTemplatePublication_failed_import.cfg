SPECIFICATION TSpec
CONSTANTS
    NoResource = NoResource
    NoStep = NoStep
    NoJob = NoJob
    NoClaim = NoClaim
    NoTemplate = NoTemplate
    NoVersion = NoVersion
    Jobs = {j1}
    Template = tpl
    Assignments = {a1}
    Resources = {tpl, a1}
    Workers = {w1}
    Scanners = {beat}
    Templates = {t1}
    Versions = {v1, v2}
    Events <- MCImports
    MaxChanges = 0
    MaxAttempts = 3
    MaxDisturbances = 1
    Steps <- TemplateFinalSteps
    Transitions <- TemplateTransitions
    NextSteps <- MCNone
    FinalSteps <- TemplateFinalSteps
    DeletingSteps <- TemplateDeletingSteps
    Successors <- MCNone
PROPERTY RetriesImportAnew
