CONSTANTS
    Token = {t1, t2}
    Family = {f1}
    Txn = {x1, x2}
SPECIFICATION Spec
SYMMETRY Symmetry
INVARIANT ReuseRevokesFamily
