SPECIFICATION Spec
CONSTANTS
    NULL = NULL
    UserId = {1}
    Role = {student, teacher, admin}
    Student = student
    Teacher = teacher
    Admin = admin
    Secret = {insecure, secret}
    Insecure = insecure
    TTL = 2
    MaxTime = 2
    MaxTokens = 1
CHECK_DEADLOCK FALSE
INVARIANTS
    TypeOK
    HandledAsBearer
    RoleLossTakesEffect
