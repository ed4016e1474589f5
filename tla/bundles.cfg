\* Two sessions; ids for two bundles, one of them replaced.
SPECIFICATION Spec
CONSTANTS
    Session = {s1, s2}
    Id = {i1, i2, i3, i4, i5, i6}
    p = p
    q = q
    Piece = {p, q}
    Content <- OneOrTwoPieces
    None = None
    Broken = Broken
INVARIANT RestoresServed
PROPERTY AtomicBundles
SYMMETRY Interchangeable
CHECK_DEADLOCK FALSE
