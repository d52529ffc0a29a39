SPECIFICATION Spec
CONSTANTS
    p1 = p1
    p2 = p2
    s1 = s1
    s2 = s2
    s3 = s3
    Processes = {p1, p2}
    Slots = {s1, s2, s3}
    ProcOf <- SharedLoop
    Keys = {k1, k2}
    JobIds = {j1, j2}
    Lease <- MixedLease
    MaxLease = 6
    Slack = 1
    MaxFaults = 2
    None = None
SYMMETRY Symmetric
INVARIANTS
    TypeOK
    OneActiveJobPerRequest
    FirstComeFirstServed
    WorkIsOwned
PROPERTIES
    OutcomeIsFinal
    OnlyTheOwnerReports
    KeepsPromise
