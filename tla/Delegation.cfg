CONSTANTS
    MaxVisits = 3
    MaxInitial = 1
    MaxArtifacts = 3
    MaxModifies = 1
    ProcMaxVisits = 1
    MaxPlans = 2
    MaxFailures = 1
SPECIFICATION DSpec
INVARIANTS
    WorkIsOwn
PROPERTIES
    ImplementsMiddle
CHECK_DEADLOCK FALSE
