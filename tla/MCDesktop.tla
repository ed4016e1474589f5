------------------------------ MODULE MCDesktop ------------------------------
\* Values for checking Desktop with TLC.
EXTENDS Desktop
=============================================================================
