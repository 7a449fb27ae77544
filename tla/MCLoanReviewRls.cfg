CONSTANTS
    App = {a1}
    Worker = {w1, w2}
    RlsEnforced = TRUE
    AnalystAssigned = TRUE
SPECIFICATION Spec
SYMMETRY WorkerSymmetry
PROPERTIES
    NoStaleMove
    ImplementsChain
