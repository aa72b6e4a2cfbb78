-------------------------- MODULE HealthRulesProofs --------------------------
(***************************************************************************)
(* For any thresholds, overrides, holds and times: an observation never    *)
(* finds a rule both firing and clearing, and a rule is active under the   *)
(* overrides whenever it would be without them.                            *)
(***************************************************************************)
EXTENDS HealthRules, TLAPS

-----------------------------------------------------------------------------
(***************************************************************************)
(* The threshold a rule looks up, from an override or from the baseline.   *)
(***************************************************************************)
LEMMA ThresholdFits ==
    ASSUME NEW r \in Rules, NEW o \in ValidOverrides(KeysOf(r)), NEW k \in KeysOf(r)
    PROVE  /\ k \in Keys
           /\ OverrideValue(o, k) \in Bands
           /\ Open(k, OverrideValue(o, k))
           /\ NoWeaker(k, OverrideValue(o, k))
  <1>1. k \in Keys
    BY DEF KeysOf
  <1>2. Baseline[k] \in Bands /\ Open(k, Baseline[k])
    BY <1>1, ThresholdsAssumption
  <1>3. NoWeaker(k, Baseline[k])
    <2>1. Baseline[k].fire \in Int /\ Baseline[k].clear \in Int
      BY <1>2, ThresholdsAssumption DEF Bands
    <2>2. QED
      BY <2>1 DEF NoWeaker
  <1>4. CASE k \in DOMAIN o
    <2>1. PICK L \in SUBSET KeysOf(r) : o \in [L -> Bands]
      BY DEF ValidOverrides
    <2>2. Valid(k, o[k]) /\ o[k] \in Bands
      BY <1>4, <2>1 DEF ValidOverrides
    <2>3. QED
      BY <1>1, <1>4, <2>2 DEF Valid, OverrideValue
  <1>5. CASE k \notin DOMAIN o
    BY <1>1, <1>2, <1>3, <1>5 DEF OverrideValue
  <1>6. QED
    BY <1>4, <1>5

LEMMA NoOverridesValid ==
    ASSUME NEW r \in Rules
    PROVE  NoOverrides \in ValidOverrides(KeysOf(r))
  BY DEF NoOverrides, ValidOverrides

LEMMA WithoutOverrides ==
    ASSUME NEW k
    PROVE  OverrideValue(NoOverrides, k) = Baseline[k]
  BY DEF NoOverrides, OverrideValue

\* A number is not on both sides of a band that leaves a gap.
LEMMA SidesApart ==
    ASSUME NEW k, NEW n \in Int, NEW band \in Bands, Open(k, band)
    PROVE  ~(FiringSide(k, n, band) /\ ClearingSide(k, n, band))
  <1>1. band.fire \in Int /\ band.clear \in Int
    BY ThresholdsAssumption DEF Bands
  <1>2. QED
    BY <1>1 DEF FiringSide, ClearingSide, Open

\* A band no weaker than the baseline fires where that does, and clears only there.
LEMMA SidesTighten ==
    ASSUME NEW k \in Keys, NEW n \in Int, NEW band \in Bands, NoWeaker(k, band)
    PROVE  /\ FiringSide(k, n, Baseline[k]) => FiringSide(k, n, band)
           /\ ClearingSide(k, n, band) => ClearingSide(k, n, Baseline[k])
  <1>1. band.fire \in Int /\ band.clear \in Int
    BY ThresholdsAssumption DEF Bands
  <1>2. Baseline[k].fire \in Int /\ Baseline[k].clear \in Int
    BY ThresholdsAssumption DEF Bands
  <1>3. QED
    BY <1>1, <1>2 DEF FiringSide, ClearingSide, NoWeaker

-----------------------------------------------------------------------------
(***************************************************************************)
(* What an observation finds of a rule.                                    *)
(***************************************************************************)
LEMMA KnownNumbers ==
    ASSUME NEW r \in Rules, NEW obs \in Observations(r), Known(r, obs), NEW k \in KeysOf(r)
    PROVE  obs.reading[k] \in Int
  BY ThresholdsAssumption DEF Observations, Known

LEMMA FiringOrClearing ==
    ASSUME NEW r \in Rules, NEW o \in ValidOverrides(KeysOf(r)), NEW obs \in Observations(r)
    PROVE  ~(Fires(r, o, obs) /\ Clears(r, o, obs))
  <1>1. ASSUME Known(r, obs), AllFire(r, o, obs), AnyClears(r, o, obs)
        PROVE  FALSE
    <2>1. PICK k \in KeysOf(r) : ClearingSide(k, obs.reading[k], OverrideValue(o, k))
      BY <1>1 DEF AnyClears
    <2>2. FiringSide(k, obs.reading[k], OverrideValue(o, k))
      BY <1>1 DEF AllFire
    <2>3. QED
      BY <1>1, <2>1, <2>2, KnownNumbers, ThresholdFits, SidesApart
  <1>2. CASE r = "disk-exhaustion"
    BY <1>2 DEF Fires, Clears
  <1>3. CASE r = "temperature-headroom"
    BY <1>1, <1>3 DEF Fires, Clears
  <1>4. CASE r \notin {"disk-exhaustion", "temperature-headroom"}
    BY <1>1, <1>4 DEF Fires, Clears
  <1>5. QED
    BY <1>2, <1>3, <1>4

LEMMA ConditionsTighten ==
    ASSUME NEW r \in Rules, NEW o \in ValidOverrides(KeysOf(r)), NEW obs \in Observations(r)
    PROVE  /\ Fires(r, NoOverrides, obs) => Fires(r, o, obs)
           /\ Clears(r, o, obs) => Clears(r, NoOverrides, obs)
  <1>1. ASSUME Known(r, obs), NEW k \in KeysOf(r)
        PROVE  /\ FiringSide(k, obs.reading[k], OverrideValue(NoOverrides, k)) =>
                      FiringSide(k, obs.reading[k], OverrideValue(o, k))
               /\ ClearingSide(k, obs.reading[k], OverrideValue(o, k)) =>
                      ClearingSide(k, obs.reading[k], OverrideValue(NoOverrides, k))
    BY <1>1, KnownNumbers, ThresholdFits, SidesTighten, WithoutOverrides
  <1>2. ASSUME Known(r, obs)
        PROVE  /\ AllFire(r, NoOverrides, obs) => AllFire(r, o, obs)
               /\ AnyClears(r, o, obs) => AnyClears(r, NoOverrides, obs)
    BY <1>1, <1>2 DEF AllFire, AnyClears
  <1>3. CASE r = "disk-exhaustion"
    BY <1>2, <1>3 DEF Fires, Clears
  <1>4. CASE r = "temperature-headroom"
    BY <1>2, <1>4 DEF Fires, Clears
  <1>5. CASE r \notin {"disk-exhaustion", "temperature-headroom"}
    BY <1>2, <1>5 DEF Fires, Clears
  <1>6. QED
    BY <1>3, <1>4, <1>5

-----------------------------------------------------------------------------
(***************************************************************************)
(* The timers.  Under the overrides a rule that is inactive has waited to  *)
(* fire at least as long as without them, and one that is active has       *)
(* waited to clear no longer.                                              *)
(***************************************************************************)
Tighter(p, s) ==
    /\ p.active => s.active
    /\ ~p.active /\ ~s.active /\ p.since # None => s.since # None /\ s.since <= p.since
    /\ p.active /\ s.active /\ s.since # None => p.since # None /\ p.since <= s.since

IInv == TypeOK /\ Tighter(plain, strict)

LEMMA TimerStartBounds ==
    ASSUME NEW since \in Instants \cup {None}, NEW now \in Instants
    PROVE  /\ TimerStart(since, now) \in Instants
           /\ TimerStart(since, now) <= now
           /\ since # None /\ since <= now => TimerStart(since, now) = since
  BY TimesAssumption DEF TimerStart

\* The earlier of two timers is still the earlier once both have gone on.
LEMMA TimersOrdered ==
    ASSUME NEW a \in Instants \cup {None}, NEW b \in Instants \cup {None},
           NEW now \in Instants, b # None => a # None /\ a <= b
    PROVE  TimerStart(a, now) <= TimerStart(b, now)
  BY TimesAssumption DEF TimerStart

LEMMA AdvanceType ==
    ASSUME NEW state \in RuleState, NEW now \in Instants, NEW flips \in BOOLEAN,
           NEW hold \in Nat
    PROVE  AdvanceRule(state, now, flips, hold) \in RuleState
  <1>1. TimerStart(state.since, now) \in Instants
    BY TimerStartBounds DEF RuleState
  <1>2. QED
    BY <1>1 DEF AdvanceRule, RuleState

LEMMA EvaluatedTighter ==
    ASSUME NEW p \in RuleState, NEW s \in RuleState, Tighter(p, s), NEW now \in Instants,
           NEW pFires \in BOOLEAN, NEW sFires \in BOOLEAN,
           NEW pClears \in BOOLEAN, NEW sClears \in BOOLEAN,
           pFires => sFires, sClears => pClears, ~(sFires /\ sClears),
           NEW firingHold \in Nat, NEW clearingHold \in Nat
    PROVE  Tighter(Evaluated(p, now, pFires, pClears, firingHold, clearingHold),
                   Evaluated(s, now, sFires, sClears, firingHold, clearingHold))
  <1> DEFINE ps == TimerStart(p.since, now)
             ss == TimerStart(s.since, now)
  <1>1. /\ p.active \in BOOLEAN /\ s.active \in BOOLEAN
        /\ p.since \in Instants \cup {None} /\ s.since \in Instants \cup {None}
        /\ p = [active |-> p.active, since |-> p.since]
        /\ s = [active |-> s.active, since |-> s.since]
    BY DEF RuleState
  <1>2. ps \in Int /\ ss \in Int /\ now \in Int /\ None \notin Int
    BY <1>1, TimerStartBounds, TimesAssumption
  <1>3. CASE ~p.active /\ ~s.active
    <2>1. ss <= ps
      BY <1>1, <1>3, TimersOrdered DEF Tighter
    <2> HIDE DEF ps, ss
    <2>2. QED
      BY <1>1, <1>2, <1>3, <2>1 DEF Tighter, Evaluated, AdvanceRule, ps, ss
  <1>4. CASE ~p.active /\ s.active
    BY <1>1, <1>2, <1>4 DEF Tighter, Evaluated, AdvanceRule
  <1>5. CASE p.active /\ s.active
    <2>1. ps <= ss
      BY <1>1, <1>5, TimersOrdered DEF Tighter
    <2>2. QED
      BY <1>1, <1>2, <1>5, <2>1 DEF Tighter, Evaluated, AdvanceRule
  <1>6. QED
    BY <1>1, <1>3, <1>4, <1>5 DEF Tighter

-----------------------------------------------------------------------------
THEOREM InvInit == Init => IInv
  <1> SUFFICES ASSUME Init PROVE IInv
    OBVIOUS
  <1>1. forgotten \in BOOLEAN
    BY DEF Init
  <1>2. QED
    BY <1>1 DEF Init, IInv, TypeOK, Tighter, Inactive, RuleState

LEMMA StretchType ==
    ASSUME NEW times \in SUBSET Instants, NEW now \in Instants, NEW found
    PROVE  Stretch(times, found, now) \in SUBSET Instants
  BY DEF Stretch

THEOREM InvStep == IInv /\ [Next]_vars => IInv'
  <1> SUFFICES ASSUME IInv, [Next]_vars
               PROVE  IInv'
    OBVIOUS
  <1>1. forgotten' \in BOOLEAN
    BY DEF IInv, TypeOK, Next, Activate, Evaluate, Forget, vars, history
  <1>2. CASE Activate
    BY <1>1, <1>2 DEF IInv, TypeOK, Tighter, Activate
  <1>3. CASE Evaluate
    <2>1. PICK obs \in Observations(rule), now \in Instants :
              /\ plain' = StateAfter(plain, NoOverrides, obs, now)
              /\ strict' = StateAfter(strict, overrides, obs, now)
              /\ foundFiring' = Stretch(foundFiring, Fires(rule, overrides, obs), now)
              /\ foundClearing' = Stretch(foundClearing, Clears(rule, overrides, obs), now)
      BY <1>3 DEF Evaluate
    <2>2. FiringHold[rule] \in Nat /\ ClearingHold[rule] \in Nat
      BY TimesAssumption DEF IInv, TypeOK
    <2> DEFINE pFires == Fires(rule, NoOverrides, obs)
               sFires == Fires(rule, overrides, obs)
               pClears == Clears(rule, NoOverrides, obs)
               sClears == Clears(rule, overrides, obs)
    <2>3. /\ pFires \in BOOLEAN /\ sFires \in BOOLEAN
          /\ pClears \in BOOLEAN /\ sClears \in BOOLEAN
      BY DEF Fires, Clears, Known, AllFire, AnyClears
    <2>4. /\ pFires => sFires
          /\ sClears => pClears
          /\ ~(sFires /\ sClears)
      BY ConditionsTighten, FiringOrClearing DEF IInv, TypeOK
    <2> HIDE DEF pFires, sFires, pClears, sClears
    <2>5. plain' = Evaluated(plain, now, pFires, pClears, FiringHold[rule], ClearingHold[rule])
      BY <2>1 DEF StateAfter, pFires, pClears
    <2>6. strict' = Evaluated(strict, now, sFires, sClears, FiringHold[rule], ClearingHold[rule])
      BY <2>1 DEF StateAfter, sFires, sClears
    <2>7. plain' \in RuleState /\ strict' \in RuleState
      BY <2>2, <2>3, <2>5, <2>6, AdvanceType DEF Evaluated, IInv, TypeOK
    <2>8. Tighter(plain', strict')
      BY <2>2, <2>3, <2>4, <2>5, <2>6, EvaluatedTighter DEF IInv, TypeOK
    <2>9. foundFiring' \in SUBSET Instants /\ foundClearing' \in SUBSET Instants
      BY <2>1, StretchType DEF IInv, TypeOK
    <2>10. QED
      BY <1>1, <1>3, <2>7, <2>8, <2>9 DEF Evaluate, IInv, TypeOK, Tighter
  <1>4. CASE Forget
    BY <1>1, <1>4 DEF IInv, TypeOK, Tighter, Forget, Inactive, RuleState
  <1>5. CASE UNCHANGED vars
    BY <1>1, <1>5 DEF vars, history, IInv, TypeOK, Tighter
  <1>6. QED
    BY <1>2, <1>3, <1>4, <1>5 DEF Next

\* The states of a rule are what TypeOK says, whatever was observed and when.
THEOREM TypeCorrect == Spec => []TypeOK
  <1>1. IInv => TypeOK
    BY DEF IInv
  <1>2. QED
    BY InvInit, InvStep, <1>1, PTL DEF Spec

\* No accepted overrides make an observation find a rule firing and clearing.
THEOREM ConditionsAreDisjoint == Spec => []NeverFiresAndClears
  <1>1. IInv => NeverFiresAndClears
    BY FiringOrClearing DEF IInv, TypeOK, NeverFiresAndClears
  <1>2. QED
    BY InvInit, InvStep, <1>1, PTL DEF Spec

\* No accepted overrides keep a rule inactive that would be active without them.
THEOREM OverridesTighten == Spec => []OverridesOnlyTighten
  <1>1. IInv => OverridesOnlyTighten
    BY DEF IInv, Tighter, OverridesOnlyTighten
  <1>2. QED
    BY InvInit, InvStep, <1>1, PTL DEF Spec
-----------------------------------------------------------------------------
(***************************************************************************)
(* The holds.  The timer of a rule is the earliest time of the evaluations *)
(* that have found, one after another, the condition that would flip it:   *)
(* a later one begins no timer, an earlier one begins it again.            *)
(***************************************************************************)
\* since times the stretch: it is set while there is one, to its least.
Times(since, stretch) ==
    /\ since = None <=> stretch = {}
    /\ stretch # {} => since \in stretch /\ \A t \in stretch : since <= t

Held(state, firing, clearing) == Times(state.since, IF state.active THEN clearing ELSE firing)

HeldInv == Held(strict, foundFiring, foundClearing)

\* The timer an evaluation goes by is the least of the stretch with it.
LEMMA StartIsLeast ==
    ASSUME NEW since \in Instants \cup {None}, NEW stretch \in SUBSET Instants,
           Times(since, stretch), NEW now \in Instants
    PROVE  /\ TimerStart(since, now) \in stretch \cup {now}
           /\ \A t \in stretch \cup {now} : TimerStart(since, now) <= t
           /\ TimerStart(since, now) \in Int
           /\ Times(TimerStart(since, now), stretch \cup {now})
  <1>1. /\ Instants \subseteq Int /\ None \notin Int
        /\ now \in Int
      BY TimesAssumption
  <1>2. CASE since # None /\ since <= now
    BY <1>1, <1>2 DEF Times, TimerStart
  <1>3. CASE since # None /\ ~(since <= now)
    <2>1. since \in Int /\ now <= since
      BY <1>1, <1>3
    <2>2. \A t \in stretch : now <= t
      BY <1>1, <1>3, <2>1 DEF Times
    <2>3. QED
      BY <1>1, <1>3, <2>2 DEF Times, TimerStart
  <1>4. CASE since = None
    BY <1>1, <1>4 DEF Times, TimerStart
  <1>5. QED
    BY <1>2, <1>3, <1>4

\* After an evaluation at now the rule has flipped exactly if the stretch spans the hold.
FlipsOnSpan(before, after, stretch, now, hold) ==
    /\ after.active # before.active => after.since = None /\ Spans(stretch, hold)
    /\ after.active = before.active =>
          /\ Times(after.since, stretch)
          /\ \A u \in stretch : now - u < hold

LEMMA AdvanceTimes ==
    ASSUME NEW state \in RuleState, NEW stretch \in SUBSET Instants,
           Times(state.since, stretch), NEW now \in Instants, NEW found \in BOOLEAN,
           NEW hold \in Nat
    PROVE  FlipsOnSpan(state, AdvanceRule(state, now, found, hold),
                       Stretch(stretch, found, now), now, hold)
  <1> DEFINE start == TimerStart(state.since, now)
             longer == Stretch(stretch, found, now)
             after == AdvanceRule(state, now, found, hold)
  <1>1. /\ state.active \in BOOLEAN /\ state.since \in Instants \cup {None}
        /\ state = [active |-> state.active, since |-> state.since]
    BY DEF RuleState
  <1>2. /\ start \in stretch \cup {now} /\ start \in Int
        /\ \A t \in stretch \cup {now} : start <= t
        /\ Times(start, stretch \cup {now})
    <2>1. state.since \in Instants \cup {None}
      BY <1>1
    <2>2. QED
      BY ONLY <2>1, stretch \in SUBSET Instants, Times(state.since, stretch), now \in Instants,
              StartIsLeast
  <1>3. CASE ~found
    <2>1. longer = {} /\ after.active = state.active /\ after.since = None
      BY <1>1, <1>3 DEF AdvanceRule, Stretch
    <2>2. QED
      BY <2>1 DEF Times, FlipsOnSpan
  <1>4. CASE found
    <2> HIDE DEF start
    <2>1. longer = stretch \cup {now} /\ now \in Int /\ \A t \in longer : t \in Int
      BY <1>4, TimesAssumption DEF Stretch
    <2>2. CASE now - start >= hold
      <3>1. Spans(longer, hold)
        BY <1>2, <2>1, <2>2 DEF Spans
      <3>2. after = [active |-> ~state.active, since |-> None]
        BY <1>4, <2>2 DEF AdvanceRule, start
      <3>3. after.since = None /\ after.active = ~state.active
        BY <3>2
      <3>4. after.active # state.active
        BY <1>1, <3>3
      <3>5. QED
        BY <1>4, <3>1, <3>3, <3>4 DEF FlipsOnSpan
    <2>3. CASE ~(now - start >= hold)
      <3>1. after = [state EXCEPT !.since = start]
        BY <1>4, <2>3 DEF AdvanceRule, start
      <3>2. \A u \in longer : now - u < hold
        BY <1>2, <2>1, <2>3
      <3>3. QED
        BY <1>1, <1>2, <1>4, <2>1, <3>1, <3>2 DEF FlipsOnSpan
    <2>4. QED
      BY <2>2, <2>3
  <1>5. QED
    BY <1>3, <1>4

\* What a step may do to the rule, as far as its holds go.
KeepsHolds == TurnsOnlyAfterHold /\ TurnsAfterHold

LEMMA HeldStep == IInv /\ HeldInv /\ [Next]_vars => HeldInv' /\ KeepsHolds
  <1> SUFFICES ASSUME IInv, HeldInv, [Next]_vars
               PROVE  HeldInv' /\ KeepsHolds
    OBVIOUS
  <1>1. CASE Activate \/ UNCHANGED vars
    BY <1>1 DEF Activate, vars, history, HeldInv, KeepsHolds, TurnsOnlyAfterHold, TurnsAfterHold
  <1>2. CASE Forget
    BY <1>2 DEF Forget, Inactive, HeldInv, Held, Times, KeepsHolds, TurnsOnlyAfterHold, TurnsAfterHold
  <1>3. CASE Evaluate
    <2>1. PICK obs \in Observations(rule), now \in Instants :
              /\ strict' = StateAfter(strict, overrides, obs, now)
              /\ foundFiring' = Stretch(foundFiring, Fires(rule, overrides, obs), now)
              /\ foundClearing' = Stretch(foundClearing, Clears(rule, overrides, obs), now)
      BY <1>3 DEF Evaluate
    <2>2. /\ Fires(rule, overrides, obs) \in BOOLEAN /\ Clears(rule, overrides, obs) \in BOOLEAN
          /\ ~(Fires(rule, overrides, obs) /\ Clears(rule, overrides, obs))
      <3>1. ~(Fires(rule, overrides, obs) /\ Clears(rule, overrides, obs))
        BY FiringOrClearing DEF IInv, TypeOK
      <3>2. QED
        BY <3>1 DEF Fires, Clears, Known, AllFire, AnyClears
    <2>3. PICK fires \in BOOLEAN, clears \in BOOLEAN :
             /\ ~(fires /\ clears)
             /\ strict' = Evaluated(strict, now, fires, clears, FiringHold[rule],
                                    ClearingHold[rule])
             /\ foundFiring' = Stretch(foundFiring, fires, now)
             /\ foundClearing' = Stretch(foundClearing, clears, now)
      BY <2>1, <2>2 DEF StateAfter
    <2>4. /\ FiringHold[rule] \in Nat /\ ClearingHold[rule] \in Nat
          /\ strict \in RuleState /\ strict.active \in BOOLEAN
          /\ foundFiring \in SUBSET Instants /\ foundClearing \in SUBSET Instants
      BY TimesAssumption DEF IInv, TypeOK, RuleState
    <2>5. /\ ~fires => foundFiring' = {}
          /\ ~clears => foundClearing' = {}
          /\ \A t \in foundFiring' \ foundFiring : t = now
          /\ \A t \in foundClearing' \ foundClearing : t = now
      BY <2>3 DEF Stretch
    <2>6. CASE strict.active
      <3>1. /\ strict' = AdvanceRule(strict, now, clears, ClearingHold[rule])
            /\ Times(strict.since, foundClearing)
        BY <2>3, <2>6 DEF Evaluated, HeldInv, Held
      <3>2. /\ strict'.active # strict.active =>
                  strict'.since = None /\ Spans(foundClearing', ClearingHold[rule])
            /\ strict'.active = strict.active =>
                  /\ Times(strict'.since, foundClearing')
                  /\ \A u \in foundClearing' : now - u < ClearingHold[rule]
        <4>1. FlipsOnSpan(strict, strict', foundClearing', now, ClearingHold[rule])
          BY <2>3, <2>4, <3>1, AdvanceTimes
        <4>2. QED
          BY <4>1 DEF FlipsOnSpan
      <3>3. CASE strict'.active # strict.active
        <4>1. foundFiring' = {} /\ strict'.since = None /\ ~strict'.active
          <5>1. strict'.active \in BOOLEAN
            BY <2>4, <3>1 DEF AdvanceRule, RuleState
          <5>2. QED
            BY <2>3, <2>4, <2>5, <2>6, <3>2, <3>3, <5>1 DEF Spans
        <4>2. HeldInv'
          BY <4>1 DEF HeldInv, Held, Times
        <4>3. QED
          BY <2>6, <3>2, <3>3, <4>1, <4>2 DEF KeepsHolds, TurnsOnlyAfterHold, TurnsAfterHold
      <3>4. CASE strict'.active = strict.active
        <4>1. HeldInv'
          BY <2>6, <3>2, <3>4 DEF HeldInv, Held
        <4>2. QED
          BY <2>5, <2>6, <3>2, <3>4, <4>1 DEF KeepsHolds, TurnsOnlyAfterHold, TurnsAfterHold
      <3>5. QED
        BY <3>3, <3>4
    <2>7. CASE ~strict.active
      <3>1. /\ strict' = AdvanceRule(strict, now, fires, FiringHold[rule])
            /\ Times(strict.since, foundFiring)
        BY <2>3, <2>7 DEF Evaluated, HeldInv, Held
      <3>2. /\ strict'.active # strict.active =>
                  strict'.since = None /\ Spans(foundFiring', FiringHold[rule])
            /\ strict'.active = strict.active =>
                  /\ Times(strict'.since, foundFiring')
                  /\ \A u \in foundFiring' : now - u < FiringHold[rule]
        <4>1. FlipsOnSpan(strict, strict', foundFiring', now, FiringHold[rule])
          BY <2>3, <2>4, <3>1, AdvanceTimes
        <4>2. QED
          BY <4>1 DEF FlipsOnSpan
      <3>3. CASE strict'.active # strict.active
        <4>1. foundClearing' = {} /\ strict'.since = None /\ strict'.active
          <5>1. strict'.active \in BOOLEAN
            BY <2>4, <3>1 DEF AdvanceRule, RuleState
          <5>2. QED
            BY <2>3, <2>4, <2>5, <2>7, <3>2, <3>3, <5>1 DEF Spans
        <4>2. HeldInv'
          BY <4>1 DEF HeldInv, Held, Times
        <4>3. QED
          BY <2>7, <3>2, <3>3, <4>1, <4>2 DEF KeepsHolds, TurnsOnlyAfterHold, TurnsAfterHold
      <3>4. CASE strict'.active = strict.active
        <4>1. HeldInv'
          BY <2>7, <3>2, <3>4 DEF HeldInv, Held
        <4>2. QED
          BY <2>5, <2>7, <3>2, <3>4, <4>1 DEF KeepsHolds, TurnsOnlyAfterHold, TurnsAfterHold
      <3>5. QED
        BY <3>3, <3>4
    <2>8. QED
      BY <2>6, <2>7
  <1>4. QED
    BY <1>1, <1>2, <1>3 DEF Next

LEMMA HoldsKept == Spec => [][KeepsHolds]_vars
  <1>1. Init => HeldInv
    BY DEF Init, Inactive, HeldInv, Held, Times
  <1>2. QED
    BY <1>1, InvInit, InvStep, HeldStep, PTL DEF Spec

\* A rule fires, and clears, only after its condition has been found over its whole hold,
\* whatever commits late and whatever overrides are activated meanwhile, or is forgotten;
\* and it does not stay as it is once the condition has been found for so long.
THEOREM HoldsAlwaysKept == Spec => HoldsAreKept
  BY HoldsKept, PTL DEF HoldsAreKept, KeepsHolds
=============================================================================
