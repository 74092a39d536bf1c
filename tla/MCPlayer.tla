------------------------------ MODULE MCPlayer ------------------------------
\* The Player for TLC.
EXTENDS Player
=============================================================================
