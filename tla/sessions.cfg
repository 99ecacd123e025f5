\* Uploads and crashes are bounded.
CHECK_DEADLOCK FALSE
SPECIFICATION SessionsSpec
CONSTANTS
    i1 = i1  i2 = i2
    NoInstance = NoInstance
    Instances = {i1, i2}
    LastAccount = 2
    Legacy = {1}
    Checkers = {i1}
    Exporters = {i2}
    Attempts = 2
    MaxUploads = 2
    MaxDead = 1
    MaxMishaps = 1
INVARIANTS SessionsTypeOK AckedIsKept
PROPERTIES InstancesComeUp DeadIsNoticed ExportsEnd
