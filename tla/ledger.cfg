\* Two checkpoint processes, one file.
SPECIFICATION Spec
CONSTANTS
    Process = {w1, w2}
    Target = {vault}
    Digest = {d1, d2}
    Missing = Missing
    Torn = Torn
    MaxTime = 1
    MaxEntries = 2
INVARIANT AlwaysVerifies
INVARIANT HistoryInOrder
INVARIANT FailedAddsNothing
INVARIANT SecuredStays
SYMMETRY Interchangeable
