SPECIFICATION Spec
CONSTANTS
    r1 = r1
    r2 = r2
    r3 = r3
    r4 = r4
    u1 = u1
    u2 = u2
    c1 = c1
    None = None
    Requests = {r1, r2, r3, r4}
    Users = {u1}
    Courses = {c1}
    Settings <- TwoADayOrOne
    Scores = {40}
    StartDelays <- AroundToday
    LastDay = 2
    MaxUpdates = 1
    SerialClients = TRUE
CONSTRAINT ThreeAfterSave
SYMMETRY RequestSymmetry
INVARIANTS QuizReopens LimitForGood OneEnrollment
PROPERTY LimitHoldsAtInsert
CHECK_DEADLOCK FALSE
