\* A command line and a tab.
SPECIFICATION Spec
CONSTANTS
    Process = {c, t}
    Tab = {t}
    Person = {alice, bob}
    Key = {k1, k2}
    None = None
    Absent = Absent
    Empty = Empty
    Torn = Torn
    MaxLength = 3
    MaxAudits = 2
    MaxMishaps = 1
INVARIANT TypeOK
INVARIANT FileSound
INVARIANT AuditCoversCustody
INVARIANT CustodyComplete
SYMMETRY Interchangeable
CHECK_DEADLOCK FALSE
