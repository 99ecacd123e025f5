SPECIFICATION FairSpec
CONSTANTS
    x = x  y = y
    d1 = d1  d2 = d2
    Senders = {x, y}
    Payloads = {d1, d2}
    Cooldown = 4
    Reserve = 3
    SendTime = 2
INVARIANTS OneSender DeliveredOnce
PROPERTIES NeverMuted
