SPECIFICATION FairSpec
CONSTANTS
    s1 = s1  s2 = s2
    p1 = p1  p2 = p2
    Sources = {s1, s2}
    Passes = {p1, p2}
    Exclusive = TRUE
    Limits = {1, 2}
    MaxAttempts = 2
    Delay <- ShortDelay
    MaxPulls = 3
    MaxAborts = 1
    MaxAsks = 1
INVARIANTS ImportedIsCurrent
PROPERTIES RetriesKeepTheRules Settles
