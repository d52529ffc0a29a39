SPECIFICATION AskedSpec
CONSTANTS
    w1 = w1
    w2 = w2
    r1 = r1
    r2 = r2
    r3 = r3
    r4 = r4
    Workers = {w1, w2}
    Requests = {r1, r2}
    WorkerOf <- OneEach
    Sources = {apk, known}
    Downloadable = {apk}
    Versions = {v1}
    Lease = 1
    Slack = 0
    MaxFaults = 2
    None = None
PROPERTY EventuallyListed
