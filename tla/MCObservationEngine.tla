------------------------- MODULE MCObservationEngine -------------------------
(* Bounds for checking ObservationEngine with TLC: the sets in the .cfg.      *)
EXTENDS ObservationEngine
=============================================================================
