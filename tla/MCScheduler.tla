---------------------------- MODULE MCScheduler ----------------------------
\* Instance of Scheduler for TLC.  Its values are model values given in the
\* configuration; no symmetry, since the run checks liveness.
EXTENDS Scheduler
=============================================================================
