SPECIFICATION Spec
CONSTANTS
    NULL = NULL
    EventRow <- Rows
    Query <- Queries
    GivenSlug <- OwnSlugs
    Limit = {0, 1}
    MaxEvents = 3
    MaxTime = 2
CHECK_DEADLOCK FALSE
INVARIANTS
    TypeOK
    NothingSkipped
    NothingTwice
PROPERTIES
    LinkLeadsToItsEvent
