SPECIFICATION Spec
CONSTANTS
    NULL = NULL
    a = a
    Request = {r1, r2, r3}
    UserId = {1, 2}
    Word = {a}
    Requester <- RacingRequester
    Dto <- Bodies
    Suffix = 4
SYMMETRY Symmetry
CHECK_DEADLOCK FALSE
INVARIANTS
    DatesOrdered
