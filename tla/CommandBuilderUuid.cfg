CONSTANTS
    Roots = {r1}
    Ids = {"", "flow"}
    Sequences = {0, 1}
    Urls <- MCUrls
    Strategies = {"MERGE_COMMUTATIVE", "another"}
    HexDigits <- MCHexDigits
    Variants <- MCVariants
    NotSet = NotSet
    MaxAsks = 3
    LastYear = 2101
    Clocks <- MCClocks
    Policies <- MCPolicies
    Endpoints <- MCEndpoints
    NoChannel = NoChannel
SPECIFICATION MCSpec
CHECK_DEADLOCK FALSE
INVARIANT GeneratedIsUuid
