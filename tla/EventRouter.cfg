CONSTANTS
    Domains <- MCDomains
    EventNames <- MCSuffixes
    Urls <- MCUrls
    NoDomain = ""
    MaxCalls = 5
    Classes = {c1, c2}
    Rebuilding = {c1}
    Types <- MCTypes
    Requests <- MCRequests
    Priors <- MCPriors
    Undeclared = Undeclared
    MaxDeclarations = 4
    Endings = {"OrderCreatedV1", "CreatedV1", "OrderCreatedV2"}
    EndsIn <- MCEndsIn
    Makes <- MCMakes
    Projected <- MCProjected
    Events <- MCEvents
    SourceDomains = {"order"}
    MaxUpcasters = 2
    MaxProjectors = 2
    MaxStored = 3
    MaxCut = 2
SPECIFICATION MCSpec
CHECK_DEADLOCK FALSE
INVARIANTS HandledAsDeclared PreparedAsDeclared SubscribedIsHandled RunsAsDeclared WaysAgree EachProjectedOnce UpcastIsStable
