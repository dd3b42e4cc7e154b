SPECIFICATION Spec
CONSTANTS
    Releases = {r1, r2}
    None = None
    Broken = {}
    DiskFull = FALSE
    Accidents = {"uncleared"}
INVARIANTS
    PendingIsUnmounted
