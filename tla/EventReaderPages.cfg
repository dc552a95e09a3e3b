CONSTANTS
    Roots = {r1}
    Flows = {f1}
    Editions = {e1}
    Careful = TRUE
    AsDocumented = TRUE
    MaxEvents = 3
    MaxAsks = 3
    PageSize = 1
    NotSet = NotSet
SPECIFICATION ReadingSpec
SYMMETRY MCSymmetry
INVARIANT NoEventTwice
