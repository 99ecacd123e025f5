SPECIFICATION Spec
CONSTANTS
    n1 = n1  n2 = n2
    r1 = r1  r2 = r2
    w1 = w1  w2 = w2
    Nodes = {n1, n2}
    Readers = {r1, r2}
    Writers = {w1, w2}
    Home <- HomeApart
    MaxData = 2
    MaxRev = 1
    TTL = 2
    LoadTime = 1
PROPERTIES ReadsAreSound
