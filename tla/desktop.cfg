\* Two vault paths, three package paths, one of them that of another file, and
\* two attachments or changes.
SPECIFICATION DesktopSpec
CONSTANTS
    Vaults = {v1, v2}
    DefaultVault = v1
    Files = {f1, f2, f3}
    Odd = {f3}
    Things = {x, y}
    Identity = Identity
    Missing = Missing
    Damaged = Damaged
    Foreign = Foreign
    Nil = Nil
INVARIANT TypeOK
INVARIANT TabsTellTheTruth
INVARIANT NothingConfirmedIsLost
PROPERTY BusyEnds
