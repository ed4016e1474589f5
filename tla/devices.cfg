\* Two devices that match and one that does not, two cards or fingers.
SPECIFICATION DriverSpec
CONSTANTS
    Names = {n1, n2, n3}
    Matching = {n1, n2}
    Objects = {o1, o2}
    Addresses = {a1, a2}
    RetryCount = 1
    MaxSessions = 3
    Nothing = Nothing
INVARIANT OneObjectPerRead
INVARIANT ConnectedOrNot
SYMMETRY ObjectSymmetry
CHECK_DEADLOCK FALSE
