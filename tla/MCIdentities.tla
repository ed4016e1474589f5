---------------------------- MODULE MCIdentities ----------------------------
(* Values of Identities' constants for TLC.  Model values come from the cfg. *)
EXTENDS Identities, TLC

CONSTANTS a, b, p, q

Suffixes == <<"chunk0", "chunk1">>
OneOrTwoChunks == {<<p>>, <<q, p>>}

IdentitySymmetry == Permutations(Process) \cup Permutations(Key)
=============================================================================
