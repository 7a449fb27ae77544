CONSTANTS
    Pass = {p1}
    Doc = {}
    Gesture = {"SUBMIT_VISITATION"}
    MaxMutations = 1
SPECIFICATION Spec
SYMMETRY Symmetry
PROPERTY NoDoubleSignoff
