CONSTANTS
    Token = {t1, t2, t3, t4}
    Family = {f1, f2}
    Txn = {x1, x2}
SPECIFICATION Spec
SYMMETRY Symmetry
INVARIANTS
    TypeOK
    OneLiveTokenPerFamily
PROPERTIES
    ImplementsSessions
    LogoutEndsSession
