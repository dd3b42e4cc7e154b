SPECIFICATION Spec
CONSTANTS
    Releases = {r1, r2, r3}
    None = None
    Broken = {}
    DiskFull = FALSE
    Accidents = {"stale"}
INVARIANTS
    Retained
