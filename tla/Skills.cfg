CONSTANTS
    Dirs = {1}
    n1 = n1
    n2 = n2
    Names = {n1, n2}
    MaxSkills = 2
    MaxEdits = 3
SPECIFICATION Spec
INVARIANTS
    TypeOK
    QuietCallCurrent
