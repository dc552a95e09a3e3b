CONSTANTS
    Roots = {r1}
    Ids = {"", "flow"}
    Sequences = {0, 1}
    Urls <- MCUrls
    Strategies = {"MERGE_COMMUTATIVE", "another"}
    HexDigits <- MCHexDigits
    Variants <- MCVariants
    NotSet = NotSet
    MaxAsks = 4
    LastYear = 2101
    Clocks <- MCClocks
    Policies <- MCPolicies
    Endpoints <- MCEndpoints
    NoChannel = NoChannel
    Targets <- MCTargets
    Happenings <- MCHappenings
    Sends <- MCSends
    NoEvent = "NoEvent"
    OutputDomain = "ship"
    Unset = Unset
    MaxSource = 3
    MaxBatch = 2
    MaxLength = 1
    MaxExceptions = 1
    Depth = 2
    RejectionKeys <- MCRejectionKeys
    Notifications <- MCNotifications
    NoNotification = NoNotification
    MaxRegistrations = 2
SPECIFICATION BothSpec
CHECK_DEADLOCK FALSE
INVARIANTS BuiltAsAsked UtcIsExact EndsTruthfully RecordedAsSaid BacksOff EveryEventOnce FactsWithTheirEvent EndsWhereDeclared
PROPERTY TakenUnlessOvertaken
