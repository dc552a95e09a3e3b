CONSTANTS
    Clients = {c1, c2}
    Roots = {r1}
    Urls <- MCAllUrls
    SyncModes = {"simple", "async"}
    MaxBooks = 1
    MaxTries = 2
    Locking = TRUE
    Snapshots = FALSE
    Creations <- MCCreations
    NoCommand = NoCommand
    handlers_ <- MCHandlers
    appliers_ <- MCAppliers
    rejection_handlers_ = {}
    Factory = 0
    Applier <- MCApplier
    Method <- MCMethod
    Compensate <- MCCompensate
    EventAnys <- MCEventAnys
SPECIFICATION Spec
SYMMETRY Symmetry
CHECK_DEADLOCK FALSE
INVARIANTS TypeOK AtMostOnce OkIsRecorded RefusalIsFinal ConflictMeansOvertaken
