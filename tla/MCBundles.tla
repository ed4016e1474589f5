------------------------------ MODULE MCBundles ------------------------------
(* Values of Bundles' constants for TLC.  Model values come from the cfg.    *)
EXTENDS Bundles, TLC

CONSTANTS p, q

OneOrTwoPieces == {<<p>>, <<q, p>>}

Interchangeable == Permutations(Session) \cup Permutations(Id)
=============================================================================
