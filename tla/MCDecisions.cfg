SPECIFICATION DecisionsSpec
CONSTANTS
    j = j
    a = a
    b = b
    Jail = {j}
    Ip = {a, b}
    Internal = {a}
    SubnetOf <- OneSubnet
    MaxTimestampsPerIP = 2
    Policies <- ShortAndLong
    None = None
    MaxAge = 2
    PeakHoursAddend = 1
    InternalSourceAddend = 1
    Scores = {100, 10}
    Cooldown = 1
    QueueCap = 2
    MaxLines = 1
INVARIANTS CountIsTrue ClusterIsTrue
