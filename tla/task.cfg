CONSTANTS
    Templates <- MCTemplates
    Nodes <- MCNodes
    Steps <- MCSteps
    Names <- MCNames
    HeadlessEnabled = TRUE
SPECIFICATION Spec
INVARIANTS
    FlowAsWritten
    GatesRespected
    CancelStopsTask
PROPERTY StopsUnlessJavascript
