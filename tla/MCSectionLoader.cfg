CONSTANTS
    Row = {r1, r2, r3}
    PageSize = 1
    MaxRetries = 1
    MaxChanges = 4
    MaxVisits = 2
SPECIFICATION FairSpec
CHECK_DEADLOCK FALSE
INVARIANTS
    TypeOK
    NoDuplicateRow
    NothingSkipped
PROPERTY SectionSettles
