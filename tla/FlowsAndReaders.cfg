CONSTANTS
    Workflows = {"w1", "w2"}
    NoCorrelation = NoCorrelation
    Happenings <- MCHappenings
    MaxHappenings <- MCUneven
    MaxBatch = 3
    MaxExceptions = 1
    handlers <- MCHandlers
    appliers <- MCAppliers
    rejection_handlers <- MCRejectionHandlers
    create_empty_state = 0
    Applier <- MCApplier
    Handler <- MCHandler
    Rejection <- MCRejection
    Target <- MCTarget
    Roots = {r1, r2}
    Flows = {f1, f2}
    Editions = {e1}
    Careful = TRUE
    AsDocumented = FALSE
    MaxEvents = 3
    MaxAsks = 3
    PageSize = 2
    NotSet = NotSet
SPECIFICATION BothSpec
SYMMETRY MCSymmetry
CHECK_DEADLOCK FALSE
INVARIANTS CommandsAsOneByOne FactsAsOneByOne RejectionsAsOneByOne UncorrelatedIsInert NothingInvented AskedLast WholeAnswer PagesMeetEachOnce
