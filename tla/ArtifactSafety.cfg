SPECIFICATION Spec
CONSTANTS
    w1 = w1
    w2 = w2
    byName = byName
    byCode = byCode
    latest = latest
    Workers = {w1}
    Calls = {byName, byCode, latest}
    WorkerOf <- OneProcess
    Form <- FormOf
    Shapes = {"single", "split", "bundle"}
    KeepsCode = FALSE
    Checked = TRUE
    AtomicUpload = TRUE
    None = None
INVARIANTS
    TypeOK
    ServedWhole
    MetadataAfterUpload
PROPERTIES
    KeepsPromise
