\* Limits small enough to be met by every length that callers ask for.
SPECIFICATION Spec
CONSTANTS
    ReseedInterval = 5
    MaxBytes = 12
    MaxRequest = 4
    BlockBytes = 2
    ManagedRequests = 4
    ManagedBytes = 7
    EnvelopeBytes = 1
    Lengths <- MCLengths
    Samples = {s1, s2}
    None = None
    MaxSeedings = 8
INVARIANT TypeOK
INVARIANT AheadOfLimits
INVARIANT ServedUnlessBroken
INVARIANT StuckEntropySealsNothing
PROPERTY OutputsFresh
CHECK_DEADLOCK FALSE
