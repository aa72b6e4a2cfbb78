-------------------------- MODULE MCServerIncidents --------------------------
(* Holds of the rules for checking ServerIncidents with TLC, in instants. *)
EXTENDS ServerIncidents, TLC

CONSTANTS s1, e1, e2, telemetry, inventory, service

\* Primary telemetry waits before it fires and before it clears, service stands for
\* an event, which fires at once and waits before it clears, and the inventory rule
\* does not wait.
MCFiringHold ==
    [r \in Rules |-> IF r = telemetry THEN 1 ELSE 0]
MCClearingHold ==
    [r \in Rules |-> IF r = inventory THEN 0 ELSE 1]
=============================================================================
