SPECIFICATION FairSpec
CONSTANTS
    Installs = {i1, i2}
    Confirms = {c1}
    Reads = {r1}
CHECK_DEADLOCK FALSE
INVARIANTS
    TypeOK
    PartIsOwned
    BytesAsGiven
    QueueMoves
    OutcomeHeard
PROPERTIES
    CallsKeepTheirPromise
    EveryCallAnswered
