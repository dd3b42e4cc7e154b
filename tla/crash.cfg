SPECIFICATION FairSpec
CONSTANTS
    Signals = {segv, pipe}
    Ignored = {pipe}
    Watched = {segv}
    Threads = {t1, t2}
    MaxInstalls = 2
    MaxFrames = 2
    MaxStrikes = 2
CHECK_DEADLOCK FALSE
INVARIANTS
    TypeOK
    DeathLeavesMarker
    ReporterHears
PROPERTIES
    CrashAdvances
    CrashEnds
