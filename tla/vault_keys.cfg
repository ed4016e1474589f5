\* One session, restarted any number of times, with every key operation.
SPECIFICATION Spec
CONSTANTS
    Session = {s1}
    Passphrase = {p1, p2}
    Code = {c1, c2, c3}
    Key = {ka, kb}
    RecordId = {r1}
    Label = {l1}
    Kind = {k1}
    Payload = {v1}
    r1 = r1
    r2 = r2
    r3 = r3
    l1 = l1
    l2 = l2
    k1 = k1
    v1 = v1
    v2 = v2
    Request <- PlainRequest
    Batch <- PlainBatch
    None = None
    AuditDir = FALSE
    Menu <- KeyOps
    Concurrency = 1
    MaxTime = 7
    MaxFaults = 2
    MaxMisses = 9
    MaxAudits = 1
    MaxAttempts = 2
    BaseDelay = 1
    MaxDelay = 2
    LockoutSeconds = 3
    MaxBackoffExponent = 2
INVARIANT TypeOK
INVARIANT KeyringsSound
INVARIANT FailuresCounted
INVARIANT NeverLockedForGood
PROPERTY ThrottleHonoured
PROPERTY VaultKeyStable
CHECK_DEADLOCK FALSE
