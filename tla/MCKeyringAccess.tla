--------------------------- MODULE MCKeyringAccess ---------------------------
\* Values for checking KeyringAccess with TLC.
EXTENDS KeyringAccess, TLC

KeySymmetry == Permutations(Keys)
=============================================================================
