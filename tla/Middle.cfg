CONSTANTS
    MaxVisits = 3
    MaxInitial = 2
    MaxArtifacts = 4
    MaxModifies = 1
SPECIFICATION FairSpec
INVARIANTS
    TypeOK
    FreshThreadId
    CompleteMeansProcessed
    DerivesForward
PROPERTIES
    BoundedRun
CHECK_DEADLOCK FALSE
