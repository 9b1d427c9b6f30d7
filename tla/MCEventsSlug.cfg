SPECIFICATION SpecAlone
CONSTANTS
    NULL = NULL
    EventRow <- Rows
    Query <- Queries
    GivenSlug <- NoSlugs
    Limit = {1}
    MaxEvents = 2
    MaxTime = 1
CHECK_DEADLOCK FALSE
INVARIANTS
    FoundByItsSlug
