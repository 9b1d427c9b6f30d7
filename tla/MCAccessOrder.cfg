SPECIFICATION Spec
CONSTANTS
    NULL = NULL
    Logout = {l1, l2}
    MaxAttempts = 2
    Second = 2
    MaxTime = 2
SYMMETRY Symmetry
CHECK_DEADLOCK FALSE
INVARIANTS
    LogoutRevokes
