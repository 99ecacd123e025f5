\* Nobody has to send requests: the system may rest in any state.
CHECK_DEADLOCK FALSE
SPECIFICATION Spec
CONSTANTS
    k1 = k1  k2 = k2
    p1 = p1  p2 = p2
    a1 = a1  a2 = a2
    q1 = q1  q2 = q2
    x1 = x1  x2 = x2
    NoProject = NoProject
    NoAccount = NoAccount
    NoPeriod = NoPeriod
    NoTask = NoTask
    Projects = {p1, p2}
    Accounts = {a1, a2}
    Periods = {q1, q2}
    Tasks = {x1, x2}
    Actors = {k1, k2}
    MaxEdits = 3
SYMMETRY Symmetry
INVARIANTS ActiveDefault EveryPeriodSyncs TaskOwnedOnce
PROPERTIES SavedIsBacked
