SPECIFICATION Spec
CONSTANTS
    NULL = NULL
    admin = admin
    test = test
    other = other
    teacher = teacher
    student = student
    administrator = administrator
    Email = {admin, test, other}
    AdminEmail = admin
    TestEmail = test
    Role = {student, teacher, administrator}
    Student = student
    Admin = administrator
    Request = {r1, r2, r3}
    Dto <- Bodies
    MaxTime = 1
    MaxStarts = 2
SYMMETRY Symmetry
CHECK_DEADLOCK FALSE
INVARIANTS
    TypeOK
    LogoutLostOnlyInRace
    RemovedReturnsOnlyInRace
PROPERTIES
    UnaskedOnlyInRace
