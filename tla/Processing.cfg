CONSTANTS
    MaxVisits = 3
    MaxPlans = 3
    MaxFailures = 1
SPECIFICATION FairSpec
INVARIANTS
    TypeOK
    VerdictIsAboutDraft
    CleanShowsOwnMermaid
    OnlyApprovedIsStored
    StoresOnce
PROPERTIES
    BoundedRun
CHECK_DEADLOCK FALSE
