SPECIFICATION FairSpec
CONSTANTS
    NULL = NULL
    Unfit = Unfit
    Request = {r1, r2, r3}
    e1 = e1
    e2 = e2
    Event <- Events
    Body <- Bodies
    DevUser = 1
    MaxRetries = 2
    MaxFaults = 2
CHECK_DEADLOCK FALSE
INVARIANTS
    TypeOK
    ServerErrorsHaveCauses
    RefusedForAnother
    ServesMigrated
PROPERTIES
    ImplementsLedger
    ListsWhatWasCreated
    EventuallyServes
