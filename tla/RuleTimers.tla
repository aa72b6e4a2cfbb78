------------------------------ MODULE RuleTimers ------------------------------
(***************************************************************************)
(* How a health rule moves (health.py:1090): it becomes active once its    *)
(* condition has been seen firing for its firing hold, and inactive once   *)
(* it has been seen clearing for its clearing hold.                        *)
(*                                                                         *)
(* Of the two timers of a rule only the one that can flip it is ever set,  *)
(* so since stands for firingSince while it is inactive and for            *)
(* clearingSince while it is active.                                       *)
(*                                                                         *)
(* An operator X_Slip beside X is X as a slip in the code would have it,   *)
(* to show which property would notice; nothing uses it.                   *)
(***************************************************************************)
EXTENDS Integers

CONSTANT None \* no value

Inactive == [active |-> FALSE, since |-> None]

TimerStart_Deadline(since, now) == now + 1

TimerStart_Kept(since, now) == IF since # None THEN since ELSE now

\* A timer that another evaluation started later than now starts again.
TimerStart(since, now) == IF since # None /\ since <= now THEN since ELSE now

\* flips: the condition that would flip the rule holds; hold: for how long it must.
AdvanceRule(state, now, flips, hold) ==
    LET start == TimerStart(state.since, now)
    IN  IF ~flips THEN [state EXCEPT !.since = None]
        ELSE IF now - start >= hold THEN [active |-> ~state.active, since |-> None]
        ELSE [state EXCEPT !.since = start]

\* What an evaluation at now makes of a rule it finds firing, clearing or neither.
Evaluated(state, now, fires, clears, firingHold, clearingHold) ==
    IF state.active THEN AdvanceRule(state, now, clears, clearingHold)
    ELSE AdvanceRule(state, now, fires, firingHold)
=============================================================================
