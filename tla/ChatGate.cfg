CONSTANTS
    s1 = s1
    Sessions <- OneSession
    MaxRequests = 3
    MaxInterrupts = 2
    MaxRestarts = 1
SPECIFICATION FairSpec
INVARIANTS
    TypeOK
    LockMatchesRuns
    NoSilentInterrupt
PROPERTIES
    CheckpointMovesUnderLock
    EveryResponseIsWhole
    SerialSpec
CHECK_DEADLOCK FALSE
