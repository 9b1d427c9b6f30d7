SPECIFICATION FairSpec
CONSTANTS
    NULL = NULL
    a = a
    Request = {r1, r2, r3}
    UserId = {1, 2}
    Word = {a}
    Requester <- AnyRequester
    Dto <- Bodies
    Suffix = 4
CHECK_DEADLOCK FALSE
INVARIANTS
    TypeOK
    ConflictOnlyInRace
    PublishedByPublish
    DatesOrderedUnlessRaced
    SearchBounded
PROPERTIES
    OnlyPermittedWrites
    UnpublishedOnlyInRace
    ImplementsTable
    RequestsEnd
