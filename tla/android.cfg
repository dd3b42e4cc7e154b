SPECIFICATION Spec
CONSTANTS
    Releases = {r1, r2}
    None = None
    Pool = {t1, t2}
    DiskFull = TRUE
    Accidents = {}
SYMMETRY Symmetry
INVARIANTS
    TypeOK
    NeverTorn
    Retained
    PendingIsUnmounted
    ConfirmedIsMounted
    RollbackIsDue
PROPERTIES
    PointerPromise
