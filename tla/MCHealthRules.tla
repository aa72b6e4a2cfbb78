---------------------------- MODULE MCHealthRules ----------------------------
(* Thresholds and holds for checking HealthRules with TLC, on a small scale.  *)
EXTENDS HealthRules

MCReadings == 0..4
MCInstants == 0..2

\* The worst band there is room to tighten from, in either direction.
MCBaseline ==
    [k \in Keys |-> IF k \in AboveKeys THEN [fire |-> 3, clear |-> 2]
                    ELSE [fire |-> 1, clear |-> 2]]

\* A forecast fires at once; what is measured is waited for.
MCFiringHold == [r \in Rules |-> IF r = "disk-exhaustion" THEN 0 ELSE 1]
MCClearingHold == [r \in Rules |-> IF r = "memory-pressure" THEN 2 ELSE 1]
=============================================================================
