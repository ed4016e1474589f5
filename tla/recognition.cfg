\* One command at a time against every change of what surrounds it.
SPECIFICATION Spec
CONSTANTS
    Process = {s1}
    Id = {alice, bob}
    Key = {ka, kb}
    Person = {x, y}
    f1 = f1
    f2 = f2
    Path = {f1, f2}
    Requests <- Sources
    Alike <- Oneself
    Captures <- Takes
    MaxEvents = 2
    None = None
    Unreadable = Unreadable
INVARIANT VerdictExact
INVARIANT StillsRefused
INVARIANT EnrolledWhole
SYMMETRY Interchangeable
CHECK_DEADLOCK FALSE
