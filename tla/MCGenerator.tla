----------------------------- MODULE MCGenerator -----------------------------
\* Values for checking Generator with TLC.
EXTENDS Generator

MCLengths == 0..5
=============================================================================
