\* Two processes; the name b is also that of a file, and a bundle comes first.
SPECIFICATION Spec
CONSTANTS
    Process = {s1, s2}
    Key = {ka, kb}
    a = a
    b = b
    p = p
    q = q
    Base = {a, b}
    Chunk <- Suffixes
    Piece = {p, q}
    SmallNames = {a, b}
    SmallFile = {p}
    BundleNames = {b}
    Bundle <- OneOrTwoChunks
    None = None
    Broken = Broken
INVARIANT BundlesRestorable
INVARIANT LatestExtracted
INVARIANT EverythingOpens
SYMMETRY IdentitySymmetry
CHECK_DEADLOCK FALSE
