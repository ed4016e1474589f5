\* One session that updates a record under a new label.
SPECIFICATION SpecExisting
CONSTANTS
    Session = {s1}
    Passphrase = {p1, p2}
    Code = {c1}
    Key = {ka}
    RecordId = {r1}
    Label = {l1, l2}
    Kind = {k1}
    Payload = {v1, v2}
    r1 = r1
    r2 = r2
    r3 = r3
    l1 = l1
    l2 = l2
    k1 = k1
    v1 = v1
    v2 = v2
    Request <- RelabelRequest
    Batch <- RelabelBatch
    None = None
    AuditDir = FALSE
    Menu <- RelabelOps
    Concurrency = 1
    MaxTime = 0
    MaxFaults = 0
    MaxMisses = 1
    MaxAudits = 1
    MaxAttempts = 1
    BaseDelay = 0
    MaxDelay = 1
    LockoutSeconds = 1
    MaxBackoffExponent = 1
INVARIANT RecordsReadable
CHECK_DEADLOCK FALSE
