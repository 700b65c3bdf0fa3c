CONSTANTS
    MaxVisits = 4
    MaxTasks = 2
    MaxTurns = 4
    MaxFailures = 0
SPECIFICATION Spec
INVARIANT FreshTurnHasNoPlan
CHECK_DEADLOCK FALSE
