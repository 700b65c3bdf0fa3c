CONSTANTS
    p1 = p1
    Projects = {p1}
    s1 = s1
    s2 = s2
    Sessions = {s1, s2}
    r1 = r1
    r2 = r2
    Requests = {r1, r2}
    MaxSaves = 2
    None = None
SPECIFICATION Spec
INVARIANTS
    TypeOK
    TreesFollowSessions
SYMMETRY Symmetry
