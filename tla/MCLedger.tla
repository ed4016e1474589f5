------------------------------- MODULE MCLedger -------------------------------
(* Values of Ledger's constants for TLC.  Model values come from the cfg.     *)
EXTENDS Ledger

Interchangeable == Permutations(Process) \cup Permutations(Digest)
=============================================================================
