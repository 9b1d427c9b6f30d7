CONSTANTS
    User = {u1, u2}
    Request = {r1, r2, r3, r4}
    TTL = 1
    MaxTime = 1
    NULL = NULL
SPECIFICATION Spec
INVARIANTS
    TypeOK
    SpentStaysSpent
    LinksFollowRotations
    LoneRotationIsLinked
PROPERTIES
    RevocationIsFinal
    SpentIsRefused
    ImplementsLedger
SYMMETRY Symmetry
CHECK_DEADLOCK FALSE
