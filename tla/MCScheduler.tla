---------------------------- MODULE MCScheduler ----------------------------
\* The instance of Scheduler for TLC. Its run checks liveness, so that the
\* jobs, workers and names are not declared symmetric.
EXTENDS Scheduler
=============================================================================
