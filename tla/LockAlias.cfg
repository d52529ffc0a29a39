SPECIFICATION Spec
CONSTANTS
    w1 = w1
    w2 = w2
    byName = byName
    byCode = byCode
    latest = latest
    Workers = {w1}
    Calls = {byName, byCode}
    WorkerOf <- OneProcess
    Form <- FormOf
    Shapes = {"single"}
    KeepsCode = FALSE
    Checked = TRUE
    AtomicUpload = TRUE
    None = None
INVARIANT StagingExclusive
