SPECIFICATION Spec
CONSTANTS
    r1 = r1
    r2 = r2
    r3 = r3
    r4 = r4
    u1 = u1
    u2 = u2
    c1 = c1
    None = None
    Requests = {r1, r2, r3}
    Users = {u1}
    Courses = {c1}
    Settings <- OneADay
    Scores = {40, 70, 90}
    StartDelays = {0}
    LastDay = 0
    MaxUpdates = 1
    SerialClients = FALSE
SYMMETRY RequestSymmetry
PROPERTY LimitHoldsAtInsert
CHECK_DEADLOCK FALSE
