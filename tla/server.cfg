SPECIFICATION FairSpec
CONSTANTS
    Uploads = {u1, u2}
    Devices = {d1}
    Channels = {c1, c2}
    None = None
INVARIANTS
    TypeOK
    RowsHaveBundles
    VerifiedWasReleased
PROPERTIES
    OfferNeverOlder
    FeedPromise
    Delivered
CHECK_DEADLOCK FALSE
