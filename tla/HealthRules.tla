----------------------------- MODULE HealthRules -----------------------------
(***************************************************************************)
(* When an observation finds a threshold rule firing, and when clearing    *)
(* (health.py:803), and what the overrides of a Server Profile may do to   *)
(* that (profile.py:398): an override is to make a rule stricter, never    *)
(* weaker.                                                                 *)
(*                                                                         *)
(* No rule reads the state of another, so a behaviour is of one rule of    *)
(* one server.  What is said of an override compares two dashboards that   *)
(* see the same observations at the same times, one with the overrides of  *)
(* the active revision and one with none, so both states are kept.  What   *)
(* is said of the holds compares the rule with what evaluations found of   *)
(* it, which is kept as history: nothing but that reads it.                *)
(*                                                                         *)
(* An operator X_Slip beside X is X as a slip in the code would have it,   *)
(* to show which property would notice; nothing uses it.                   *)
(***************************************************************************)
EXTENDS RuleTimers

CONSTANTS
    Readings,     \* the numbers an observation or an override may hold
    Unknown,      \* not observed
    Baseline,     \* the thresholds of the rules without an override
    FiringHold,   \* firing_seconds of each rule
    ClearingHold, \* clearing_seconds of each rule
    Instants      \* times an evaluation may be at

VARIABLES
    rule,      \* the rule this behaviour is of
    overrides, \* the overrides of the active revision that the rule looks up
    plain,     \* the state of the rule, were there no overrides
    strict,    \* the state of the rule
    foundFiring,  \* history: the times of the evaluations, down to the last, that have
                  \* found the rule firing without one between that did not
    foundClearing, \* history: as foundFiring, of those that found it clearing
    forgotten     \* history: the last step was an observation without the rule's source

history == <<foundFiring, foundClearing, forgotten>>
vars == <<rule, overrides, plain, strict, history>>

-----------------------------------------------------------------------------
\* Keys of an override: those for which more is worse, and those for which less is.
AboveKeys == {"cpu-used-percent", "normalized-load"}
BelowKeys == {"memory-available-percent", "filesystem-free-percent",
              "filesystem-free-bytes", "temperature-headroom"}
Keys == AboveKeys \cup BelowKeys

Bands == [fire: Readings, clear: Readings]

Rules == {"cpu-pressure", "memory-pressure", "disk-capacity", "disk-exhaustion",
          "temperature-headroom", "gpu-temperature"}

\* The thresholds a rule looks up, which are also the numbers it reads.
LooksUp(r, k) ==
    \/ r = "cpu-pressure" /\ k \in AboveKeys
    \/ r = "memory-pressure" /\ k = "memory-available-percent"
    \/ /\ r \in {"disk-capacity", "disk-exhaustion"}
       /\ k \in {"filesystem-free-percent", "filesystem-free-bytes"}
    \/ r \in {"temperature-headroom", "gpu-temperature"} /\ k = "temperature-headroom"

KeysOf(r) == {k \in Keys : LooksUp(r, k)}

\* A band fires on one side of the gap it leaves and clears on the other.
Open(k, band) ==
    IF k \in AboveKeys THEN band.clear < band.fire ELSE band.fire < band.clear

\* It fires no later than the baseline does, and clears no sooner.
NoWeaker(k, band) ==
    IF k \in AboveKeys
    THEN band.fire <= Baseline[k].fire /\ band.clear <= Baseline[k].clear
    ELSE band.fire >= Baseline[k].fire /\ band.clear >= Baseline[k].clear

ASSUME ThresholdsAssumption ==
    /\ Readings \subseteq Int
    /\ Unknown \notin Int
    /\ Baseline \in [Keys -> Bands]
    /\ \A k \in Keys : Open(k, Baseline[k])

ASSUME TimesAssumption ==
    /\ Instants \subseteq Int
    /\ None \notin Int
    /\ FiringHold \in [Rules -> Nat]
    /\ ClearingHold \in [Rules -> Nat]

Valid_MayWeaken(k, band) == Open(k, band)
Valid_MayOverlap(k, band) == NoWeaker(k, band)

\* An override that is accepted into a draft.
Valid(k, band) == Open(k, band) /\ NoWeaker(k, band)

\* The overrides a revision may hold of the keys in K.
ValidOverrides(K) ==
    {o \in UNION {[L -> Bands] : L \in SUBSET K} : \A k \in DOMAIN o : Valid(k, o[k])}

OverrideValue(o, k) == IF k \in DOMAIN o THEN o[k] ELSE Baseline[k]

-----------------------------------------------------------------------------
(***************************************************************************)
(* An observation holds the numbers the rule reads, and the one thing it   *)
(* may look at beside them: whether a disk is forecast to be exhausted, or *)
(* a processor is throttling.                                              *)
(***************************************************************************)
Observations(r) ==
    [reading: [KeysOf(r) -> Readings \cup {Unknown}], flag: {"yes", "no", "unknown"}]

\* Throttling is part of what is read of a temperature.  A forecast is a rule of
\* its own, and without one there is a capacity all the same.
Known(r, obs) ==
    /\ \A k \in KeysOf(r) : obs.reading[k] # Unknown
    /\ r \in {"disk-exhaustion", "temperature-headroom", "gpu-temperature"} =>
           obs.flag # "unknown"

\* Whether a number is on the firing, or the clearing, side of a band.  CPU use and
\* temperature headroom fire at the threshold, the others beyond it.
IsAt(k) == k \in {"cpu-used-percent", "temperature-headroom"}
FiringSide(k, n, band) ==
    \/ IsAt(k) /\ n = band.fire
    \/ IF k \in AboveKeys THEN n > band.fire ELSE n < band.fire
ClearingSide(k, n, band) ==
    IF k \in AboveKeys THEN n < band.clear ELSE n > band.clear

AllFire(r, o, obs) ==
    \A k \in KeysOf(r) : FiringSide(k, obs.reading[k], OverrideValue(o, k))
AnyClears(r, o, obs) ==
    \E k \in KeysOf(r) : ClearingSide(k, obs.reading[k], OverrideValue(o, k))

\* Several numbers fire together and clear each alone.
Fires(r, o, obs) ==
    IF r = "disk-exhaustion" THEN obs.flag = "yes"
    ELSE /\ Known(r, obs)
         /\ AllFire(r, o, obs) \/ (r = "temperature-headroom" /\ obs.flag = "yes")

Clears(r, o, obs) ==
    /\ Known(r, obs)
    /\ AnyClears(r, o, obs)
    /\ r \in {"disk-exhaustion", "temperature-headroom"} => obs.flag = "no"

NoOverrides == [k \in {} |-> Baseline[k]]

-----------------------------------------------------------------------------
RuleState == [active: BOOLEAN, since: Instants \cup {None}]

TypeOK ==
    /\ rule \in Rules
    /\ overrides \in ValidOverrides(KeysOf(rule))
    /\ plain \in RuleState
    /\ strict \in RuleState
    /\ foundFiring \in SUBSET Instants
    /\ foundClearing \in SUBSET Instants
    /\ forgotten \in BOOLEAN

Init ==
    /\ rule \in Rules
    /\ overrides \in ValidOverrides(KeysOf(rule))
    /\ plain = Inactive
    /\ strict = Inactive
    /\ foundFiring = {}
    /\ foundClearing = {}
    /\ forgotten = FALSE

\* Another revision of the profile becomes active; the rules keep their state.
Activate ==
    /\ overrides' \in ValidOverrides(KeysOf(rule))
    /\ forgotten' = FALSE
    /\ UNCHANGED <<rule, plain, strict, foundFiring, foundClearing>>

StateAfter(state, o, obs, now) ==
    Evaluated(state, now, Fires(rule, o, obs), Clears(rule, o, obs),
              FiringHold[rule], ClearingHold[rule])

\* A stretch of evaluations after one more.
Stretch(times, found, now) == IF found THEN times \cup {now} ELSE {}

\* Evaluations may be committed in another order than their times have.
Evaluate ==
    /\ \E obs \in Observations(rule), now \in Instants :
          /\ plain' = StateAfter(plain, NoOverrides, obs, now)
          /\ strict' = StateAfter(strict, overrides, obs, now)
          /\ foundFiring' = Stretch(foundFiring, Fires(rule, overrides, obs), now)
          /\ foundClearing' = Stretch(foundClearing, Clears(rule, overrides, obs), now)
    /\ forgotten' = FALSE
    /\ UNCHANGED <<rule, overrides>>

\* An observation without the disk, sensor or GPU of the rule.
Forget ==
    /\ plain' = Inactive
    /\ strict' = Inactive
    /\ foundFiring' = {}
    /\ foundClearing' = {}
    /\ forgotten' = TRUE
    /\ UNCHANGED <<rule, overrides>>

Next == Activate \/ Evaluate \/ Forget

Spec == Init /\ [][Next]_vars

-----------------------------------------------------------------------------
\* No observation finds a rule firing and clearing at once, whichever of the
\* thresholds it looks up are overridden: an active rule that fires stays active
\* (profile.py:422, "threshold override hysteresis bands must not overlap").
NeverFiresAndClears ==
    \A obs \in Observations(rule) : ~(Fires(rule, overrides, obs) /\ Clears(rule, overrides, obs))

\* As long as a server without overrides would have the rule active, one with them
\* has, through any sequence of observations, late evaluations and activations
\* (profile.py:437, "threshold overrides cannot weaken mandatory global rules").
OverridesOnlyTighten == plain.active => strict.active

Spans(times, hold) == \E t, u \in times : u - t >= hold

\* A rule changes only once its condition has been found over the whole of its hold, by
\* every evaluation in between, however late evaluations commit and whichever revision
\* they read; or the observation leaves it out, which no hold survives
\* (critical-errors-real-host-acceptance.md:45, "clears only after five continuous
\* healthy minutes").
TurnsOnlyAfterHold ==
    /\ ~strict.active /\ strict'.active => Spans(foundFiring', FiringHold[rule])
    /\ strict.active /\ ~strict'.active =>
          \/ Spans(foundClearing', ClearingHold[rule])
          \/ forgotten'

\* And it does change then: an evaluation that finds the condition a hold later than
\* another of the same stretch does not leave the rule as it was, even if the stretch
\* began with a time that was still to come.
TurnsAfterHold ==
    /\ ~strict'.active => \A t \in foundFiring' \ foundFiring :
          \A u \in foundFiring' : t - u < FiringHold[rule]
    /\ strict'.active => \A t \in foundClearing' \ foundClearing :
          \A u \in foundClearing' : t - u < ClearingHold[rule]

\* A rule keeps its holds both ways.  Bands that let an observation find it firing and
\* clearing at once would break the second: the stretch that follows a change begins empty.
HoldsAreKept == [][TurnsOnlyAfterHold /\ TurnsAfterHold]_vars
=============================================================================
