\* Two sessions, one operation at a time, calls that raise, from no file at all.
SPECIFICATION Spec
CONSTANTS
    Session = {s1, s2}
    Passphrase = {p1}
    Code = {c1, c2}
    Key = {ka}
    RecordId = {r1, r2, r3}
    Label = {l1}
    Kind = {k1}
    Payload = {v1, v2}
    r1 = r1
    r2 = r2
    r3 = r3
    l1 = l1
    l2 = l2
    k1 = k1
    v1 = v1
    v2 = v2
    Request <- StableRequest
    Batch <- StableBatch
    None = None
    AuditDir = TRUE
    Menu <- SharedOps
    Concurrency = 1
    MaxTime = 0
    MaxFaults = 1
    MaxMisses = 2
    MaxAudits = 2
    MaxAttempts = 2
    BaseDelay = 1
    MaxDelay = 2
    LockoutSeconds = 3
    MaxBackoffExponent = 2
INVARIANT RecordsReadable
INVARIANT AuditFaithful
INVARIANT LastChangeHolds
PROPERTY AtomicStore
SYMMETRY SharedSymmetry
CHECK_DEADLOCK FALSE
