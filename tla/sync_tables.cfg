SPECIFICATION FairSpec
CONSTANTS
    Keys = {k1, k2}
    v = v
    Values = {v}
    Blank = Blank
    Contents <- SomeContents
    BatchSize = 1
    ManualOverrides = FALSE
    AutoApprove = TRUE
    Rulings = {"rejected"}
    Faults = {"stop", "lost", "late", "blank"}
    MaxEdits = 2
    MaxFaults = 2
INVARIANTS KeysStayUnique OnlyVouchedIsApproved
PROPERTIES Converges
