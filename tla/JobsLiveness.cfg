SPECIFICATION FairSpec
CONSTANTS
    p1 = p1
    p2 = p2
    s1 = s1
    s2 = s2
    s3 = s3
    Processes = {p1, p2}
    Slots = {s1, s2}
    ProcOf <- TwoProcesses
    Keys = {k1, k2}
    JobIds = {j1, j2}
    Lease <- SameLease
    MaxLease = 3
    Slack = 0
    MaxFaults = 2
    None = None
PROPERTY EveryJobEnds
