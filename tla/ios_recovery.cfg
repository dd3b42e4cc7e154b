SPECIFICATION FairSpec
CONSTANTS
    Releases = {r1, r2, r3}
    None = None
    Broken = {r2}
    DiskFull = FALSE
    Accidents = {"uncleared", "gap", "stale", "overtaken", "unmarked", "vouched"}
PROPERTIES
    Recovers
