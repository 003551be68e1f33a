----------------------------- MODULE MCEvLoop -----------------------------
\* Instance of EvLoop for TLC: two threads hand three jobs to the loop.
EXTENDS EvLoop, TLC

CONSTANTS c1, c2, j1, j2, j3
=============================================================================
