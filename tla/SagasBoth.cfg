CONSTANTS
    Targets <- MCTargets
    Happenings <- MCHappenings
    Sends <- MCSends
    NoEvent = "NoEvent"
    OutputDomain = "ship"
    Unset = Unset
    MaxSource = 3
    MaxBatch = 2
    MaxLength = 1
    MaxExceptions = 1
    Depth = 2
    RejectionKeys <- MCRejectionKeys
    Notifications <- MCNotifications
    NoNotification = NoNotification
    MaxRegistrations = 2
SPECIFICATION MCSagasSpec
CHECK_DEADLOCK FALSE
INVARIANT BothAreGiven
