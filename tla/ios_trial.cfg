SPECIFICATION Spec
CONSTANTS
    Releases = {r1, r2, r3}
    None = None
    Broken = {}
    DiskFull = TRUE
    Accidents = {"overtaken", "unmarked"}
SYMMETRY Symmetry
INVARIANTS
    TypeOK
    Retained
    PendingIsUnmounted
PROPERTIES
    FirstIsKept
