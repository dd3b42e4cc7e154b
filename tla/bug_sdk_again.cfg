SPECIFICATION Spec
CONSTANTS
    r1 = r1
    r2 = r2
    c1 = c1
    c2 = c2
    Releases = {r1}
    None = None
    Broken = {r1}
    Configs = {c1}
    Accepts <- MCAccepts
    Callers = {k1}
PROPERTIES
    CrashLeavesTheRelease
CHECK_DEADLOCK FALSE
