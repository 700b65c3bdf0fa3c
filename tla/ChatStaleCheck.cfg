CONSTANTS
    s1 = s1
    Sessions <- OneSession
    MaxRequests = 3
    MaxInterrupts = 2
    MaxRestarts = 1
SPECIFICATION Spec
PROPERTY LaunchesOnWhatItChecked
CHECK_DEADLOCK FALSE
