\* One project with one configuration, the default application d and another.
SPECIFICATION AuditSpec
CONSTANTS
    d = d  b = b
    k1 = k1  k2 = k2
    p1 = p1
    c1 = c1
    t1 = t1
    g1 = g1  g2 = g2
    m1 = m1
    NoApp = NoApp
    None = None
    Apps = {d, b}
    Default = d
    Projects = {p1}
    Actors = {k1, k2}
    Configs = {c1}
    Targets = {t1}
    Receivers = {g1, g2}
    Cards = {m1}
    MaxEdits = 2
SYMMETRY Symmetry
INVARIANTS AuditTypeOK ClientsAreCurrent SenderFitsReceiver RecallsAreRecorded SenderRecalls
PROPERTIES BindingsAreActive
