CONSTANTS
    MaxIntents = 2
    Worker = {w1, w2}
    Cleaner = {c1, c2}
    Limit = 1
SPECIFICATION FairSpec
INVARIANTS
    TypeOK
    OneDocumentPerIntent
    DocumentHasAsset
    AnsweredIsStored
PROPERTY OldestAreRemoved
