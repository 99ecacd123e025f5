\* Nobody has to log in or send requests: the system may rest in any state.
CHECK_DEADLOCK FALSE
SPECIFICATION Spec
CONSTANTS
    d = d  a = a
    p1 = p1  p2 = p2
    f1 = f1
    s1 = s1  s2 = s2
    q1 = q1  q2 = q2
    k1 = k1  k2 = k2
    NoApp = NoApp
    NoSession = NoSession
    Default = d
    Apps = {d, a}
    Projects = {p1, p2}
    Flows = {f1}
    Sessions = {s1, s2}
    Requests = {q1}
    Admins = {k1, k2}
    MaxEdits = 4
SYMMETRY Symmetry
INVARIANTS RightsAreLive EndedSessionsStayOut LoginsAreCurrent
