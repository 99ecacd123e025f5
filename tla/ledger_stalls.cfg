SPECIFICATION FairSpec
CONSTANTS
    i1 = i1  i2 = i2
    a = a  b = b  c = c
    s1 = s1  s2 = s2
    Instances = {i1, i2}
    Invocations = {a, b}
    Home <- HomeWaiting
    Entry <- EntryWaiting
    Steps = {s1}
    NoRun = NoRun
    Lease = 2
    BeatEvery = 1
    StartupAge = 3
    OrphanAge = 3
    Slack = 0
    Timely = FALSE
    Faults = {"start", "acquire", "heartbeat", "step", "finish", "release"}
PROPERTIES UnexpiredLeaseIsKept RowsClose QueueMoves
