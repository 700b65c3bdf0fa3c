CONSTANTS
    MaxVisits = 6
    MaxTasks = 3
    MaxTurns = 3
    MaxFailures = 1
SPECIFICATION FairSpec
INVARIANTS
    TypeOK
    DependenciesFirst
    OneTaskInProgress
    ApprovedBeforeStart
    WellFormedPlanFinishes
    ResultsCoverPlan
PROPERTIES
    PlanOnlyAdvances
    BoundedRun
CHECK_DEADLOCK FALSE
