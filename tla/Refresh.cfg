SPECIFICATION Spec
CONSTANTS
    s1 = s1
    s2 = s2
    p1 = p1
    v1 = v1
    v2 = v2
    Schedulers = {s1, s2}
    Packages = {p1}
    Versions = {v1, v2}
    PackageOf <- OnePackage
    NProviders = 2
    Lease = 1
    Concurrency = 1
    MaxRetries = 1
    NetworkRetries = 1
    MaxFaults = 2
    None = None
INVARIANTS
    TypeOK
    OneLeader
    ArchiveBounded
    NoneLeftBehind
 
