-------------------------- MODULE MCCriticalErrors --------------------------
(* Bounds for checking CriticalErrors with TLC.                             *)
EXTENDS CriticalErrors

\* A tick is thirty seconds.  The hold is shorter than its thirty minutes, and longer
\* than an event is fresh.
MCScrapeEvery == 1
MCFresh == 2
MCHold == 3
=============================================================================
