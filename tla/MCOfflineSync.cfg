CONSTANTS
    Pass = {p1, p2}
    Doc = {d1}
    Gesture = {"CREATE_APPLICATION", "SUBMIT_OCR_REVIEW", "SUBMIT_VISITATION", "EXECUTE_PLEDGE"}
    MaxMutations = 1
SPECIFICATION Spec
SYMMETRY Symmetry
INVARIANTS
    TypeOK
    StageActionsKept
    SyncedIsStored
PROPERTIES
    ImplementsOutbox
