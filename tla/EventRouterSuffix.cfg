CONSTANTS
    Domains <- MCDomains
    EventNames <- MCShortSuffixes
    Urls <- MCUrls
    NoDomain = ""
    MaxCalls = 3
    Classes = {c1, c2}
    Rebuilding = {c1}
    Types <- MCTypes
    Requests <- MCRequests
    Priors <- MCPriors
    Undeclared = Undeclared
    MaxDeclarations = 0
    Endings = {"OrderCreatedV1", "CreatedV1", "OrderCreatedV2"}
    EndsIn <- MCEndsIn
    Makes <- MCMakes
    Projected <- MCProjected
    Events <- MCEvents
    SourceDomains = {"order"}
    MaxUpcasters = 0
    MaxProjectors = 0
    MaxStored = 0
    MaxCut = 2
SPECIFICATION MCSpec
CHECK_DEADLOCK FALSE
INVARIANT RoutedBySuffix
