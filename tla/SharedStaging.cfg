SPECIFICATION Spec
CONSTANTS
    w1 = w1
    w2 = w2
    byName = byName
    byCode = byCode
    latest = latest
    Workers = {w1, w2}
    Calls = {byName, byCode}
    WorkerOf <- TwoProcesses
    Form <- FormOf
    Shapes = {"single"}
    KeepsCode = TRUE
    Checked = TRUE
    AtomicUpload = TRUE
    None = None
INVARIANT ServedWhole
