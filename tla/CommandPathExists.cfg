CONSTANTS
    Clients = {c1}
    Roots = {r1}
    Urls <- MCKnownUrls
    SyncModes = {"simple"}
    MaxBooks = 2
    MaxTries = 1
    Locking = TRUE
    Snapshots = TRUE
    Creations <- MCCreations
    NoCommand = NoCommand
    handlers_ <- MCHandlers
    appliers_ <- MCAppliers
    rejection_handlers_ = {}
    Factory = 0
    Applier <- MCApplier
    Method <- MCMethod
    Compensate <- MCCompensate
    EventAnys <- MCEventAnys
SPECIFICATION Spec
CHECK_DEADLOCK FALSE
INVARIANT NoSecondCreate
