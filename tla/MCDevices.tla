------------------------------ MODULE MCDevices ------------------------------
\* Values for checking Devices with TLC.
EXTENDS Devices, TLC

ObjectSymmetry == Permutations(Objects) \cup Permutations(Addresses)
=============================================================================
