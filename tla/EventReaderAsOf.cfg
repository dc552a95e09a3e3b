CONSTANTS
    Roots = {r1}
    Flows = {f1}
    Editions = {e1}
    Careful = FALSE
    AsDocumented = FALSE
    MaxEvents = 1
    MaxAsks = 2
    PageSize = 1
    NotSet = NotSet
SPECIFICATION ReadingSpec
SYMMETRY MCSymmetry
INVARIANT AskedLast
