CONSTANTS
    App = {a1}
    Worker = {w1}
    RlsEnforced = FALSE
    AnalystAssigned = TRUE
SPECIFICATION Spec

PROPERTY AdviceReturnsToEd
