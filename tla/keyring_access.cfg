\* One process of the command line and one GUI, two possible keyrings.
SPECIFICATION Spec
CONSTANTS
    Commands = {c1}
    Desktops = {d1}
    Keys = {ka, kb}
    MaxClock = 4
    MaxFailures = 3
    MaxAttempts = 2
    BaseDelay = 1
    MaxDelay = 2
    LockoutSeconds = 3
    MaxBackoffExponent = 2
    Missing = Missing
    Broken = Broken
    None = None
INVARIANT ShownCodesOpen
INVARIANT OwnerGetsAnotherTry
PROPERTY AttemptsSpaced
SYMMETRY KeySymmetry
CHECK_DEADLOCK FALSE
