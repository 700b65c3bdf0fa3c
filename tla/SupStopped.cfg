CONSTANTS
    MaxVisits = 4
    MaxTasks = 2
    MaxTurns = 4
    MaxFailures = 0
SPECIFICATION Spec
PROPERTY StoppedByThisRun
CHECK_DEADLOCK FALSE
