CONSTANTS
    App = {a1}
    Worker = {w1, w2}
    RlsEnforced = FALSE
    AnalystAssigned = TRUE
SPECIFICATION Spec
SYMMETRY WorkerSymmetry
INVARIANTS
    TypeOK
    ReadyIsApproved
PROPERTIES
    ReadyByExecutive
    PaidOnlyWhenReady
    StaleDecisionRefused
    MovesAreTraced
