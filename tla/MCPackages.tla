------------------------------ MODULE MCPackages ------------------------------
(* Values of Packages' constants for TLC.  Model values come from the cfg.    *)
EXTENDS Packages, TLC

Interchangeable == Permutations(Person) \cup Permutations(Key)
=============================================================================
