SPECIFICATION Spec
CONSTANTS
    Releases = {r1, r2, r3}
    None = None
    Broken = {}
    DiskFull = TRUE
    Accidents = {"uncleared", "gap", "vouched"}
INVARIANTS
    ConfirmedIsMounted
    RollbackIsDue
PROPERTIES
    ConfirmedStays
    PointerPromise
