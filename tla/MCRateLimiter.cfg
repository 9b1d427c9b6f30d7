SPECIFICATION Spec
CONSTANTS
    IP = {a, b}
    Limit = 2
    TTL = 2
    MaxTime = 5
SYMMETRY Symmetry
INVARIANTS
    TypeOK
    BurstBounded
    RefusalJustified
