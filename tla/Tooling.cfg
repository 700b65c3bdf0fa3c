CONSTANTS
    c1 = c1
    c2 = c2
    Callers = {c1, c2}
    MaxCalls = 3
    MaxNotes = 1
    MaxExits = 1
SPECIFICATION FairSpec
INVARIANTS
    TypeOK
    AnswersOwnText
    InitialisedFirst
PROPERTIES
    ClosedIsTrue
    ServedInOrder
CHECK_DEADLOCK FALSE
