SPECIFICATION FairSpec
CONSTANTS
    r1 = r1
    r2 = r2
    c1 = c1
    c2 = c2
    Releases = {r1, r2}
    None = None
    Broken = {r2}
    Configs = {c1, c2}
    Accepts <- MCAccepts
    Callers = {k1, k2}
INVARIANTS
    TypeOK
    InstalledAsVerified
    SyncInstallsWhatItFound
    FallbackIsProven
CHECK_DEADLOCK FALSE
PROPERTIES
    UpdatesArrive
