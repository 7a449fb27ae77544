CONSTANTS
    Pass = {p1}
    Doc = {d1}
    Gesture = {"SUBMIT_VISITATION"}
    MaxMutations = 1
SPECIFICATION FairSpec
PROPERTIES
    ReportIsSynced
    DocumentIsSynced
