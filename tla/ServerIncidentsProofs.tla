------------------------ MODULE ServerIncidentsProofs ------------------------
(***************************************************************************)
(* For any rules, holds and evaluators: the incident history of a server   *)
(* agrees with its rules, holds only changes, and is only added to,        *)
(* whatever order the evaluations of the engine and the pages commit in.   *)
(***************************************************************************)
EXTENDS ServerIncidents, SequenceTheorems, TLAPS

-----------------------------------------------------------------------------
(***************************************************************************)
(* What one evaluation does, whatever it observed: some rule states after  *)
(* it, the health they give, and one call to record the transition.        *)
(***************************************************************************)
LEMMA AdvanceRuleType ==
    ASSUME NEW state \in RuleState, NEW now \in Instants, NEW flips, NEW hold \in Nat
    PROVE  AdvanceRule(state, now, flips, hold) \in RuleState
  <1> DEFINE start == TimerStart(state.since, now)
  <1>1. start \in Instants
    BY DEF TimerStart, RuleState
  <1>2. CASE ~flips
    BY <1>2 DEF AdvanceRule, RuleState
  <1>3. CASE flips /\ now - start >= hold
    BY <1>3 DEF AdvanceRule, RuleState
  <1>4. CASE flips /\ ~(now - start >= hold)
    BY <1>1, <1>4 DEF AdvanceRule, RuleState
  <1>5. QED
    BY <1>2, <1>3, <1>4

LEMMA RulesAfterType ==
    ASSUME TypeOK, NEW s \in Servers, NEW o \in Observation
    PROVE  RulesAfter(s, o) \in [Rules -> RuleState]
  <1> SUFFICES ASSUME NEW r \in Rules
               PROVE  RulesAfter(s, o)[r] \in RuleState
    BY DEF RulesAfter
  <1>1. rule[s][r] \in RuleState
    BY DEF TypeOK
  <1>2. Inactive \in RuleState
    BY DEF Inactive, RuleState
  <1>3. FiringHold[r] \in Nat /\ ClearingHold[r] \in Nat
    BY RulesAssumption
  <1>4. AdvanceRule(rule[s][r], o.at, r \in o.clearing, ClearingHold[r]) \in RuleState
    BY <1>1, <1>3, AdvanceRuleType DEF Observation
  <1>5. AdvanceRule(rule[s][r], o.at, r \in o.firing, FiringHold[r]) \in RuleState
    BY <1>1, <1>3, AdvanceRuleType DEF Observation
  <1>6. QED
    BY <1>2, <1>4, <1>5 DEF RulesAfter, Evaluated

LEMMA EvaluationShape ==
    ASSUME TypeOK, NEW e \in Evaluators, EvaluateServerHealth(e)
    PROVE  \E s \in Servers, after \in [Rules -> RuleState], t \in Transition :
              /\ rule' = [rule EXCEPT ![s] = after]
              /\ health' = [health EXCEPT ![s] = t.severity]
              /\ t.causes = ActiveRules(after)
              /\ t.severity = HealthOf(t.causes)
              /\ RecordIncidentTransition(s, t)
  <1>1. PICK o \in Observation : o = evaluation[e]
    BY DEF EvaluateServerHealth, TypeOK, Idle, Snapshot
  <1>2. PICK s \in Servers : s = o.server
    BY DEF Observation
  <1>3. PICK after \in [Rules -> RuleState] : after = RulesAfter(s, o)
    BY RulesAfterType
  <1> DEFINE causes == ActiveRules(after)
             t == [at |-> o.at, severity |-> HealthOf(causes), causes |-> causes]
  <1>4. t \in Transition
    BY DEF Transition, Severities, HealthOf, ActiveRules, Observation
  <1>5. /\ rule' = [rule EXCEPT ![s] = after]
        /\ health' = [health EXCEPT ![s] = t.severity]
        /\ RecordIncidentTransition(s, t)
    BY <1>1, <1>2, <1>3 DEF EvaluateServerHealth
  <1>6. QED
    BY <1>4, <1>5

\* Everything else leaves the tables of health.py alone.
LEMMA HealthUntouched ==
    ASSUME [Next]_vars, ~\E e \in Evaluators : EvaluateServerHealth(e)
    PROVE  UNCHANGED healthVars
  <1>1. ASSUME NEW s \in Servers, ServerStep(s)
        PROVE  UNCHANGED healthVars
    BY <1>1 DEF ServerStep, Approved, TrustLost, FirstContact, Retired, MovesTo,
                InventoryChanges, InventoryAccepted
  <1>2. ASSUME NEW e \in Evaluators, EvaluatorStep(e)
        PROVE  UNCHANGED healthVars
    BY <1>2 DEF EvaluatorStep, ReadServer, ObserveAnswered, ObserveUnavailable,
                EvaluationLost
  <1>3. QED
    BY <1>1, <1>2 DEF Next, Tick, vars

-----------------------------------------------------------------------------
(***************************************************************************)
(* Type correctness.                                                       *)
(***************************************************************************)
\* What a call to record a transition may leave behind.
LEMMA RecordType ==
    ASSUME TypeOK, NEW s \in Servers, NEW t \in Transition,
           RecordIncidentTransition(s, t)
    PROVE  incidents' \in [Servers -> Seq(Incident)]
  <1> USE DEF TypeOK
  <1>1. CASE OpenIncident(s, t)
    <2> DEFINE new == [openedAt |-> t.at, closedAt |-> None, severity |-> t.severity,
                       transitions |-> <<t>>]
    <2>1. new \in Incident
      BY DEF Incident, Transition
    <2>2. QED
      BY <1>1, <2>1 DEF OpenIncident
  <1>2. ASSUME NEW i \in OpenIncidents(s), NEW closedAt \in Instants \cup {None},
               AddTransition(s, i, t, closedAt)
        PROVE  incidents' \in [Servers -> Seq(Incident)]
    <2>1. incidents[s] \in Seq(Incident) /\ i \in DOMAIN incidents[s]
      BY DEF OpenIncidents
    <2>2. PICK incident \in Incident : incident = incidents[s][i]
      BY <2>1
    <2>3. WithTransition(incident, t, closedAt) \in Incident
      <3>1. incident.transitions \in Seq(Transition)
        BY DEF Incident
      <3>2. PICK longer \in Seq(Transition) : longer = Append(incident.transitions, t)
        BY <3>1, AppendProperties
      <3>3. t.severity \in Severities \cup {"Healthy"}
        BY DEF Transition
      <3>4. QED
        BY <3>2, <3>3 DEF WithTransition, Incident
    <2>4. PICK new \in Incident : new = WithTransition(incidents[s][i], t, closedAt)
      BY <2>2, <2>3
    <2>5. [incidents[s] EXCEPT ![i] = new] \in Seq(Incident)
      BY <2>1
    <2>6. incidents' = [incidents EXCEPT ![s] = [incidents[s] EXCEPT ![i] = new]]
      BY <1>2, <2>4 DEF AddTransition
    <2>7. QED
      BY <2>5, <2>6
  <1>3. CASE CloseIncident(s, t)
    <2>1. t.at \in Instants
      BY DEF Transition
    <2>2. QED
      BY <1>2, <1>3, <2>1 DEF CloseIncident
  <1>4. CASE ChangeIncident(s, t)
    BY <1>2, <1>4 DEF ChangeIncident
  <1>5. CASE KeepIncident(s, t)
    BY <1>5 DEF KeepIncident
  <1>6. QED
    BY <1>1, <1>3, <1>4, <1>5 DEF RecordIncidentTransition

LEMMA HealthTablesType ==
    ASSUME TypeOK, [Next]_vars
    PROVE  /\ rule' \in [Servers -> [Rules -> RuleState]]
           /\ health' \in [Servers -> Severities \cup {"Healthy", None}]
           /\ incidents' \in [Servers -> Seq(Incident)]
  <1>1. ASSUME NEW e \in Evaluators, EvaluateServerHealth(e)
        PROVE  /\ rule' \in [Servers -> [Rules -> RuleState]]
               /\ health' \in [Servers -> Severities \cup {"Healthy", None}]
               /\ incidents' \in [Servers -> Seq(Incident)]
    <2>1. PICK s \in Servers, after \in [Rules -> RuleState], t \in Transition :
             /\ rule' = [rule EXCEPT ![s] = after]
             /\ health' = [health EXCEPT ![s] = t.severity]
             /\ RecordIncidentTransition(s, t)
      BY <1>1, EvaluationShape
    <2>2. t.severity \in Severities \cup {"Healthy"}
      BY DEF Transition
    <2>3. QED
      BY <2>1, <2>2, RecordType DEF TypeOK
  <1>2. QED
    BY <1>1, HealthUntouched DEF TypeOK, healthVars

\* Whatever an evaluator has read so far keeps its shape.
LEMMA ReadsType ==
    ASSUME TypeOK, NEW e \in Evaluators, EvaluatorStep(e)
    PROVE  evaluation' \in [Evaluators -> {Idle} \cup Snapshot \cup Observation]
  <1> USE DEF TypeOK
  <1>1. ASSUME NEW s \in Servers, ReadServer(e, s)
        PROVE  evaluation' \in [Evaluators -> {Idle} \cup Snapshot \cup Observation]
    BY <1>1 DEF ReadServer, Snapshot
  <1>2. ASSUME NEW covers \in SUBSET Rules, NEW firing \in SUBSET Rules,
               NEW clearing \in SUBSET Rules,
               evaluation[e].phase = "snapshot", Observe(e, covers, firing, clearing)
        PROVE  evaluation' \in [Evaluators -> {Idle} \cup Snapshot \cup Observation]
    <2>1. evaluation[e].server \in Servers
      BY <1>2 DEF Idle, Snapshot, Observation
    <2>2. InventoryCovered(e) \in SUBSET Rules
      BY DEF InventoryCovered, Rules
    <2>3. QED
      BY <1>2, <2>1, <2>2 DEF Observe, Observation
  <1>3. ASSUME NEW firing \in SUBSET Rules, NEW clearing \in SUBSET Rules,
               ObserveAnswered(e, firing, clearing)
        PROVE  evaluation' \in [Evaluators -> {Idle} \cup Snapshot \cup Observation]
    <2>1. {PrimaryTelemetry} \cup SteadyRules \cup EvidenceRules \in SUBSET Rules
      BY DEF Rules
    <2>2. QED
      BY <1>2, <1>3, <2>1 DEF ObserveAnswered
  <1>4. CASE ObserveUnavailable(e)
    <2>1. {PrimaryTelemetry} \cup SteadyRules \in SUBSET Rules
          /\ {PrimaryTelemetry} \in SUBSET Rules /\ {} \in SUBSET Rules
      BY DEF Rules
    <2>2. QED
      BY <1>2, <1>4, <2>1 DEF ObserveUnavailable
  <1>5. CASE EvaluateServerHealth(e) \/ EvaluationLost(e)
    BY <1>5 DEF EvaluateServerHealth, EvaluationLost
  <1>6. QED
    BY <1>1, <1>3, <1>4, <1>5 DEF EvaluatorStep

LEMMA TypeStep == TypeOK /\ [Next]_vars => TypeOK'
  <1> SUFFICES ASSUME TypeOK, [Next]_vars
               PROVE  TypeOK'
    OBVIOUS
  <1>1. /\ clock' \in Instants
        /\ enrollmentState' \in [Servers -> EnrollmentStates]
        /\ inventoryPending' \in [Servers -> BOOLEAN]
        /\ evaluation' \in [Evaluators -> {Idle} \cup Snapshot \cup Observation]
    <2>1. CASE Tick \/ UNCHANGED vars
      BY <2>1, BoundsAssumption
         DEF Tick, Instants, TypeOK, serverVars, vars
    <2>2. ASSUME NEW s \in Servers, ServerStep(s)
          PROVE  /\ enrollmentState' \in [Servers -> EnrollmentStates]
                 /\ inventoryPending' \in [Servers -> BOOLEAN]
                 /\ UNCHANGED <<clock, evaluation>>
      BY <2>2 DEF ServerStep, Approved, TrustLost, FirstContact, Retired, MovesTo,
                  InventoryChanges, InventoryAccepted, EnrollmentStates, TypeOK
    <2>3. ASSUME NEW e \in Evaluators, EvaluatorStep(e)
          PROVE  UNCHANGED <<clock, serverVars>>
      BY <2>3 DEF EvaluatorStep, ReadServer, ObserveAnswered, ObserveUnavailable,
                  EvaluateServerHealth, EvaluationLost
    <2>4. QED
      BY <2>1, <2>2, <2>3, ReadsType DEF Next, TypeOK, serverVars
  <1>2. QED
    BY <1>1, HealthTablesType DEF TypeOK

\* Every row and every observation in flight has its type.
THEOREM TypeCorrect == Spec => []TypeOK
  <1>1. Init => TypeOK
    BY BoundsAssumption DEF Init, TypeOK, Instants, EnrollmentStates, Inactive,
                            RuleState
  <1>2. QED
    BY <1>1, TypeStep, PTL DEF Spec

-----------------------------------------------------------------------------
(***************************************************************************)
(* What recording a transition does to the history of its server.          *)
(***************************************************************************)
\* The history of another server stays as it is.
LEMMA OthersUntouched ==
    ASSUME TypeOK, NEW s \in Servers, NEW t \in Transition,
           RecordIncidentTransition(s, t), NEW r \in Servers, r # s
    PROVE  incidents'[r] = incidents[r]
  BY DEF RecordIncidentTransition, OpenIncident, CloseIncident, ChangeIncident,
         AddTransition, KeepIncident, TypeOK

LEMMA IncidentOpened ==
    ASSUME TypeOK, NEW s \in Servers, NEW t \in Transition, OpenIncident(s, t)
    PROVE  /\ incidents[s] \in Seq(Incident)
           /\ Len(incidents'[s]) = Len(incidents[s]) + 1
           /\ DOMAIN incidents'[s] = 1..(Len(incidents[s]) + 1)
           /\ \A n \in DOMAIN incidents[s] : incidents'[s][n] = incidents[s][n]
           /\ incidents'[s][Len(incidents[s]) + 1] =
                 [openedAt |-> t.at, closedAt |-> None, severity |-> t.severity,
                  transitions |-> <<t>>]
  <1> DEFINE new == [openedAt |-> t.at, closedAt |-> None, severity |-> t.severity,
                     transitions |-> <<t>>]
  <1>1. incidents[s] \in Seq(Incident)
    BY DEF TypeOK
  <1>2. new \in Incident
    BY DEF Incident, Transition
  <1>3. incidents'[s] = Append(incidents[s], new)
    BY DEF OpenIncident, TypeOK
  <1>4. incidents'[s] \in Seq(Incident)
    BY <1>1, <1>2, <1>3, AppendProperties
  <1>5. QED
    BY <1>1, <1>2, <1>3, <1>4, AppendProperties

LEMMA IncidentExtended ==
    ASSUME TypeOK, NEW s \in Servers, NEW t \in Transition,
           NEW i \in OpenIncidents(s), NEW closedAt \in Instants \cup {None},
           AddTransition(s, i, t, closedAt)
    PROVE  /\ incidents[s] \in Seq(Incident)
           /\ i \in 1..Len(incidents[s])
           /\ incidents[s][i] \in Incident
           /\ Len(incidents'[s]) = Len(incidents[s])
           /\ DOMAIN incidents'[s] = DOMAIN incidents[s]
           /\ \A n \in DOMAIN incidents[s] \ {i} : incidents'[s][n] = incidents[s][n]
           /\ incidents'[s][i].openedAt = incidents[s][i].openedAt
           /\ incidents'[s][i].closedAt = closedAt
           /\ incidents'[s][i].severity = t.severity
           /\ incidents'[s][i].transitions = Append(incidents[s][i].transitions, t)
  <1>1. incidents[s] \in Seq(Incident) /\ i \in 1..Len(incidents[s])
    BY DEF OpenIncidents, TypeOK
  <1>2. PICK incident \in Incident : incident = incidents[s][i]
    BY <1>1
  <1>3. PICK new : new = WithTransition(incident, t, closedAt)
    OBVIOUS
  <1>4. incidents'[s] = [incidents[s] EXCEPT ![i] = new]
    BY <1>2, <1>3 DEF AddTransition, TypeOK
  <1>5. /\ new.openedAt = incident.openedAt
        /\ new.closedAt = closedAt
        /\ new.severity = t.severity
        /\ new.transitions = Append(incident.transitions, t)
    BY <1>3 DEF WithTransition, Incident
  <1>6. Len(incidents'[s]) = Len(incidents[s]) /\ incidents'[s][i] = new
    BY <1>1, <1>4
  <1>7. QED
    BY <1>1, <1>2, <1>4, <1>5, <1>6

-----------------------------------------------------------------------------
(***************************************************************************)
(* The incident follows the health of its server.                          *)
(***************************************************************************)
LEMMA HealthyHasNoCause ==
    ASSUME NEW causes \in SUBSET Rules
    PROVE  /\ HealthOf(causes) = "Healthy" <=> causes = {}
           /\ HealthOf(causes) \in Severities \cup {"Healthy"}
  BY DEF HealthOf, Severities

\* A closing or later transition keeps the open incident the last one.
LEMMA FollowsExtended ==
    ASSUME TypeOK, NEW s \in Servers, NEW t \in Transition, FollowsHealth(s),
           NEW i \in OpenIncidents(s), NEW closedAt \in Instants \cup {None},
           AddTransition(s, i, t, closedAt)
    PROVE  /\ i = Len(incidents[s]) /\ i = Len(incidents'[s])
           /\ OpenIncidents(s)' = IF closedAt = None THEN {i} ELSE {}
           /\ incidents'[s][i].severity = t.severity
           /\ Latest(incidents'[s][i]) = t
  <1>1. OpenIncidents(s) = {Len(incidents[s])} /\ i = Len(incidents[s])
    BY DEF FollowsHealth
  <1>2. /\ incidents[s] \in Seq(Incident)
        /\ i \in 1..Len(incidents[s])
        /\ incidents[s][i] \in Incident
        /\ Len(incidents'[s]) = Len(incidents[s])
        /\ DOMAIN incidents'[s] = DOMAIN incidents[s]
        /\ \A n \in DOMAIN incidents[s] \ {i} : incidents'[s][n] = incidents[s][n]
        /\ incidents'[s][i].openedAt = incidents[s][i].openedAt
        /\ incidents'[s][i].closedAt = closedAt
        /\ incidents'[s][i].severity = t.severity
        /\ incidents'[s][i].transitions = Append(incidents[s][i].transitions, t)
    BY IncidentExtended
  <1>3. OpenIncidents(s)' = IF closedAt = None THEN {i} ELSE {}
    BY <1>1, <1>2 DEF OpenIncidents
  <1>4. incidents[s][i].transitions \in Seq(Transition)
    BY <1>2 DEF Incident
  <1>5. Latest(incidents'[s][i]) = t
    <2> DEFINE before == incidents[s][i].transitions
    <2>1. Len(Append(before, t)) = Len(before) + 1 /\ Append(before, t)[Len(before) + 1] = t
      BY <1>4, AppendProperties
    <2>2. QED
      BY <1>2, <2>1 DEF Latest
  <1>6. QED
    BY <1>1, <1>2, <1>3, <1>5

LEMMA FollowsStep == TypeOK /\ IncidentFollowsHealth /\ [Next]_vars => IncidentFollowsHealth'
  <1> SUFFICES ASSUME TypeOK, IncidentFollowsHealth, [Next]_vars, NEW r \in Servers
               PROVE  FollowsHealth(r)'
    BY DEF IncidentFollowsHealth
  <1>1. ASSUME rule'[r] = rule[r], health'[r] = health[r], incidents'[r] = incidents[r]
        PROVE  FollowsHealth(r)'
    <2>1. OpenIncidents(r)' = OpenIncidents(r)
      BY <1>1 DEF OpenIncidents
    <2>2. ActiveRules(rule[r])' = ActiveRules(rule[r])
      BY <1>1 DEF ActiveRules
    <2>3. FollowsHealth(r)
      BY DEF IncidentFollowsHealth
    <2>4. QED
      BY <1>1, <2>1, <2>2, <2>3 DEF FollowsHealth, Latest
  <1>2. CASE ~\E e \in Evaluators : EvaluateServerHealth(e)
    BY <1>1, <1>2, HealthUntouched DEF healthVars
  <1>3. ASSUME NEW e \in Evaluators, EvaluateServerHealth(e)
        PROVE  FollowsHealth(r)'
    <2>1. PICK s \in Servers, after \in [Rules -> RuleState], t \in Transition :
             /\ rule' = [rule EXCEPT ![s] = after]
             /\ health' = [health EXCEPT ![s] = t.severity]
             /\ t.causes = ActiveRules(after)
             /\ t.severity = HealthOf(t.causes)
             /\ RecordIncidentTransition(s, t)
      BY <1>3, EvaluationShape
    <2>2. CASE r # s
      BY <1>1, <2>1, <2>2, OthersUntouched DEF TypeOK
    <2>3. CASE r = s
      <3>1. /\ ActiveRules(rule[s])' = t.causes
            /\ health'[s] = t.severity
            /\ t.severity = HealthOf(t.causes)
            /\ t.severity = "Healthy" <=> t.causes = {}
        <4>1. t.causes \in SUBSET Rules
          BY DEF Transition
        <4>2. rule'[s] = after /\ health'[s] = t.severity
          BY <2>1 DEF TypeOK
        <4>3. QED
          BY <2>1, <4>1, <4>2, HealthyHasNoCause DEF ActiveRules
      <3>2. FollowsHealth(s)
        BY DEF IncidentFollowsHealth
      <3>3. CASE OpenIncident(s, t)
        <4>1. /\ OpenIncidents(s) = {}
              /\ t.severity # "Healthy"
          BY <3>3 DEF OpenIncident
        <4>2. /\ incidents[s] \in Seq(Incident)
              /\ Len(incidents'[s]) = Len(incidents[s]) + 1
              /\ DOMAIN incidents'[s] = 1..(Len(incidents[s]) + 1)
              /\ \A n \in DOMAIN incidents[s] : incidents'[s][n] = incidents[s][n]
              /\ incidents'[s][Len(incidents[s]) + 1] =
                    [openedAt |-> t.at, closedAt |-> None, severity |-> t.severity,
                     transitions |-> <<t>>]
          BY <3>3, IncidentOpened
        <4>3. OpenIncidents(s)' = {Len(incidents'[s])}
          BY <4>1, <4>2 DEF OpenIncidents
        <4>4. /\ incidents'[s][Len(incidents'[s])].severity = t.severity
              /\ Latest(incidents'[s][Len(incidents'[s])]) = t
          BY <4>2 DEF Latest
        <4>5. QED
          BY <2>3, <3>1, <4>1, <4>3, <4>4 DEF FollowsHealth
      <3>4. CASE CloseIncident(s, t)
        <4>1. t.at \in Instants /\ t.at # None
          BY NoneAssumption DEF Transition, Instants
        <4>2. OpenIncidents(s)' = {} /\ t.severity = "Healthy"
          BY <3>2, <3>4, <4>1, FollowsExtended DEF CloseIncident
        <4>3. QED
          BY <2>3, <3>1, <4>2 DEF FollowsHealth
      <3>5. CASE ChangeIncident(s, t)
        <4>1. PICK i \in OpenIncidents(s) :
                 /\ t.severity # "Healthy"
                 /\ AddTransition(s, i, t, None)
          BY <3>5 DEF ChangeIncident
        <4>2. /\ i = Len(incidents'[s])
              /\ OpenIncidents(s)' = {i}
              /\ incidents'[s][i].severity = t.severity
              /\ Latest(incidents'[s][i]) = t
          BY <3>2, <4>1, FollowsExtended
        <4>3. QED
          BY <2>3, <3>1, <4>1, <4>2 DEF FollowsHealth
      <3>6. CASE KeepIncident(s, t)
        <4>1. incidents' = incidents /\ OpenIncidents(s)' = OpenIncidents(s)
          BY <3>6 DEF KeepIncident, OpenIncidents
        <4>2. CASE t.severity = "Healthy"
          BY <2>3, <3>1, <3>6, <4>1, <4>2 DEF FollowsHealth, KeepIncident
        <4>3. CASE t.severity # "Healthy"
          <5>1. PICK i \in OpenIncidents(s) : Repeats(incidents[s][i], t)
            BY <3>6, <4>3 DEF KeepIncident
          <5>2. /\ OpenIncidents(s) = {Len(incidents[s])}
                /\ i = Len(incidents[s])
                /\ incidents[s][i].severity = Latest(incidents[s][i]).severity
            BY <3>2, <5>1 DEF FollowsHealth
          <5>3. QED
            BY <2>3, <3>1, <4>1, <4>3, <5>1, <5>2 DEF FollowsHealth, Repeats, Latest
        <4>4. QED
          BY <4>2, <4>3
      <3>7. QED
        BY <2>1, <3>3, <3>4, <3>5, <3>6 DEF RecordIncidentTransition
    <2>4. QED
      BY <2>2, <2>3
  <1>4. QED
    BY <1>2, <1>3

\* Whichever evaluation commits last, the incident of a server tells the health and
\* the causes its rules have: theorem behind the Critical Alerts, which are read off
\* the incidents.
THEOREM FollowsHealthAlways == Spec => []IncidentFollowsHealth
  <1>1. Init => IncidentFollowsHealth
    BY DEF Init, IncidentFollowsHealth, FollowsHealth, ActiveRules, Inactive,
           OpenIncidents
  <1>2. QED
    BY <1>1, FollowsStep, TypeCorrect, PTL DEF Spec

-----------------------------------------------------------------------------
(***************************************************************************)
(* The history holds changes only, and is only added to.                   *)
(***************************************************************************)
\* A transition that is none of the latest one's repetitions may be added to an open
\* incident.
LEMMA TellsExtended ==
    ASSUME TypeOK, NEW s \in Servers, NEW t \in Transition,
           NEW i \in OpenIncidents(s), NEW closedAt \in Instants \cup {None},
           AddTransition(s, i, t, closedAt), TellsChanges(incidents[s][i]),
           ~Repeats(incidents[s][i], t),
           t.severity = "Healthy" <=> closedAt # None
    PROVE  TellsChanges(incidents'[s][i])
  <1> DEFINE before == incidents[s][i].transitions
             after == incidents'[s][i].transitions
  <1>1. /\ incidents[s] \in Seq(Incident)
        /\ i \in 1..Len(incidents[s])
        /\ incidents[s][i] \in Incident
        /\ Len(incidents'[s]) = Len(incidents[s])
        /\ DOMAIN incidents'[s] = DOMAIN incidents[s]
        /\ \A n \in DOMAIN incidents[s] \ {i} : incidents'[s][n] = incidents[s][n]
        /\ incidents'[s][i].openedAt = incidents[s][i].openedAt
        /\ incidents'[s][i].closedAt = closedAt
        /\ incidents'[s][i].severity = t.severity
        /\ incidents'[s][i].transitions = Append(incidents[s][i].transitions, t)
    BY IncidentExtended
  <1>2. before \in Seq(Transition)
    BY <1>1 DEF Incident
  <1>3. /\ Len(after) = Len(before) + 1
        /\ after[Len(before) + 1] = t
        /\ \A n \in 1..Len(before) : after[n] = before[n]
    BY <1>1, <1>2, AppendProperties
  <1>4. /\ Len(before) > 0
        /\ before[1].severity # "Healthy"
        /\ before[Len(before)].severity # "Healthy"
        /\ \A n \in 1..(Len(before) - 1) :
              /\ before[n].severity # "Healthy"
              /\ \/ before[n].severity # before[n + 1].severity
                 \/ before[n].causes # before[n + 1].causes
    BY DEF TellsChanges, OpenIncidents, Latest
  <1>5. \/ before[Len(before)].severity # t.severity
        \/ before[Len(before)].causes # t.causes
    BY DEF Repeats, Latest
  <1>6. Len(before) \in Nat
    BY <1>2
  <1>7. TellsChanges(incidents'[s][i]) <=>
          /\ Len(after) > 0
          /\ after[1].severity # "Healthy"
          /\ after[Len(after)].severity = t.severity
          /\ after[Len(after)].severity = "Healthy" <=> closedAt # None
          /\ \A n \in 1..(Len(after) - 1) :
                /\ after[n].severity # "Healthy"
                /\ \/ after[n].severity # after[n + 1].severity
                   \/ after[n].causes # after[n + 1].causes
    BY <1>1 DEF TellsChanges, Latest
  <1> HIDE DEF before, after
  <1>8. \A n \in 1..(Len(after) - 1) :
            /\ after[n].severity # "Healthy"
            /\ \/ after[n].severity # after[n + 1].severity
               \/ after[n].causes # after[n + 1].causes
    <2> SUFFICES ASSUME NEW n \in 1..Len(before)
                 PROVE  /\ after[n].severity # "Healthy"
                        /\ \/ after[n].severity # after[n + 1].severity
                           \/ after[n].causes # after[n + 1].causes
      BY <1>3, <1>6
    <2>1. CASE n = Len(before)
      BY <1>3, <1>4, <1>5, <1>6, <2>1
    <2>2. CASE n # Len(before)
      <3>1. n \in 1..(Len(before) - 1) /\ n + 1 \in 1..Len(before)
        BY <1>6, <2>2
      <3>2. after[n] = before[n] /\ after[n + 1] = before[n + 1]
        BY <1>3, <3>1
      <3>3. QED
        BY <1>4, <3>1, <3>2
    <2>3. QED
      BY <2>1, <2>2
  <1>9. /\ Len(after) > 0
        /\ after[1].severity # "Healthy"
        /\ after[Len(after)].severity = t.severity
        /\ after[Len(after)].severity = "Healthy" <=> closedAt # None
    BY <1>3, <1>4, <1>6
  <1>10. QED
    BY <1>8, <1>9, <1>7

LEMMA ChangesStep ==
    TypeOK /\ TransitionsAreChanges /\ [Next]_vars => TransitionsAreChanges'
  <1> SUFFICES ASSUME TypeOK, TransitionsAreChanges, [Next]_vars,
                      NEW r \in Servers, NEW n \in DOMAIN incidents'[r]
               PROVE  TellsChanges(incidents'[r][n])
    BY DEF TransitionsAreChanges, TellsChanges, Latest
  <1>1. ASSUME incidents'[r] = incidents[r]
        PROVE  TellsChanges(incidents'[r][n])
    BY <1>1 DEF TransitionsAreChanges
  <1>2. CASE ~\E e \in Evaluators : EvaluateServerHealth(e)
    BY <1>1, <1>2, HealthUntouched DEF healthVars
  <1>3. ASSUME NEW e \in Evaluators, EvaluateServerHealth(e)
        PROVE  TellsChanges(incidents'[r][n])
    <2>1. PICK s \in Servers, t \in Transition : RecordIncidentTransition(s, t)
      BY <1>3, EvaluationShape
    <2>2. CASE r # s
      BY <1>1, <2>1, <2>2, OthersUntouched
    <2>3. CASE r = s
      <3>1. ASSUME NEW i \in OpenIncidents(s), NEW closedAt \in Instants \cup {None},
                   AddTransition(s, i, t, closedAt), ~Repeats(incidents[s][i], t),
                   t.severity = "Healthy" <=> closedAt # None
            PROVE  TellsChanges(incidents'[r][n])
        <4>1. /\ DOMAIN incidents'[s] = DOMAIN incidents[s]
              /\ \A m \in DOMAIN incidents[s] \ {i} : incidents'[s][m] = incidents[s][m]
          BY <3>1, IncidentExtended
        <4>2. TellsChanges(incidents[s][i])
          BY DEF TransitionsAreChanges, OpenIncidents
        <4>3. CASE n = i
          BY <2>3, <3>1, <4>2, <4>3, TellsExtended
        <4>4. CASE n # i
          BY <2>3, <4>1, <4>4 DEF TransitionsAreChanges
        <4>5. QED
          BY <4>3, <4>4
      <3>2. CASE OpenIncident(s, t)
        <4>1. /\ incidents[s] \in Seq(Incident)
              /\ Len(incidents'[s]) = Len(incidents[s]) + 1
              /\ DOMAIN incidents'[s] = 1..(Len(incidents[s]) + 1)
              /\ \A m \in DOMAIN incidents[s] : incidents'[s][m] = incidents[s][m]
              /\ incidents'[s][Len(incidents[s]) + 1] =
                    [openedAt |-> t.at, closedAt |-> None, severity |-> t.severity,
                     transitions |-> <<t>>]
          BY <3>2, IncidentOpened
        <4>2. CASE n \in DOMAIN incidents[s]
          BY <2>3, <4>1, <4>2 DEF TransitionsAreChanges
        <4>3. CASE n = Len(incidents[s]) + 1
          BY <2>3, <3>2, <4>1, <4>3 DEF OpenIncident, TellsChanges, Latest
        <4>4. QED
          BY <2>3, <4>1, <4>2, <4>3
      <3>3. CASE CloseIncident(s, t)
        <4>1. PICK i \in OpenIncidents(s) :
                 t.severity = "Healthy" /\ AddTransition(s, i, t, t.at)
          BY <3>3 DEF CloseIncident
        <4>2. t.at \in Instants /\ t.at # None
          BY NoneAssumption DEF Transition, Instants
        <4>3. Latest(incidents[s][i]).severity # "Healthy"
          BY DEF TransitionsAreChanges, OpenIncidents, TellsChanges
        <4>4. QED
          BY <3>1, <4>1, <4>2, <4>3 DEF Repeats
      <3>4. CASE ChangeIncident(s, t)
        BY <3>1, <3>4 DEF ChangeIncident
      <3>5. CASE KeepIncident(s, t)
        BY <1>1, <3>5 DEF KeepIncident
      <3>6. QED
        BY <2>1, <3>2, <3>3, <3>4, <3>5 DEF RecordIncidentTransition
    <2>4. QED
      BY <2>2, <2>3
  <1>4. QED
    BY <1>2, <1>3

\* Every transition on record tells a change, and the Healthy one ends its incident.
THEOREM ChangesAlways == Spec => []TransitionsAreChanges
  <1>1. Init => TransitionsAreChanges
    BY DEF Init, TransitionsAreChanges
  <1>2. QED
    BY <1>1, ChangesStep, TypeCorrect, PTL DEF Spec

\* Evaluations only add: whichever commits last, no incident loses its opening or a
\* transition, and a closed one stays as it was.
THEOREM HistoryKeptAlways == Spec => HistoryIsKept
  <1> DEFINE Kept(s, i) ==
         /\ i \in DOMAIN incidents'[s]
         /\ incidents[s][i].closedAt # None => incidents'[s][i] = incidents[s][i]
         /\ incidents'[s][i].openedAt = incidents[s][i].openedAt
         /\ \A n \in DOMAIN incidents[s][i].transitions :
               /\ n \in DOMAIN incidents'[s][i].transitions
               /\ incidents'[s][i].transitions[n] = incidents[s][i].transitions[n]
  <1>1. ASSUME TypeOK, [Next]_vars, NEW r \in Servers, NEW m \in DOMAIN incidents[r]
        PROVE  Kept(r, m)
    <2>1. CASE incidents'[r] = incidents[r]
      BY <2>1
    <2>2. CASE ~\E e \in Evaluators : EvaluateServerHealth(e)
      BY <1>1, <2>1, <2>2, HealthUntouched DEF healthVars
    <2>3. ASSUME NEW e \in Evaluators, EvaluateServerHealth(e)
          PROVE  Kept(r, m)
      <3>1. PICK s \in Servers, t \in Transition : RecordIncidentTransition(s, t)
        BY <1>1, <2>3, EvaluationShape
      <3>2. CASE r # s
        BY <1>1, <2>1, <3>1, <3>2, OthersUntouched
      <3>3. ASSUME r = s, NEW i \in OpenIncidents(s),
                   NEW closedAt \in Instants \cup {None},
                   AddTransition(s, i, t, closedAt)
            PROVE  Kept(r, m)
        <4>1. /\ incidents[s] \in Seq(Incident)
              /\ i \in 1..Len(incidents[s])
              /\ incidents[s][i] \in Incident
              /\ Len(incidents'[s]) = Len(incidents[s])
              /\ DOMAIN incidents'[s] = DOMAIN incidents[s]
              /\ \A n \in DOMAIN incidents[s] \ {i} : incidents'[s][n] = incidents[s][n]
              /\ incidents'[s][i].openedAt = incidents[s][i].openedAt
              /\ incidents'[s][i].closedAt = closedAt
              /\ incidents'[s][i].severity = t.severity
              /\ incidents'[s][i].transitions = Append(incidents[s][i].transitions, t)
          BY <1>1, <3>3, IncidentExtended
        <4>2. incidents[s][i].transitions \in Seq(Transition)
          BY <4>1 DEF Incident
        <4>3. CASE m = i
          <5> DEFINE before == incidents[s][i].transitions
          <5>1. /\ Len(Append(before, t)) = Len(before) + 1
                /\ \A n \in 1..Len(before) : Append(before, t)[n] = before[n]
            BY <4>2, AppendProperties
          <5>2. DOMAIN before = 1..Len(before)
                /\ DOMAIN Append(before, t) = 1..(Len(before) + 1)
            BY <4>2
          <5>3. incidents[s][i].closedAt = None
            BY DEF OpenIncidents
          <5>4. QED
            BY <3>3, <4>1, <4>2, <4>3, <5>1, <5>2, <5>3
        <4>4. CASE m # i
          BY <1>1, <3>3, <4>1, <4>4
        <4>5. QED
          BY <4>3, <4>4
      <3>4. CASE r = s /\ OpenIncident(s, t)
        <4>1. /\ Len(incidents'[s]) = Len(incidents[s]) + 1
              /\ DOMAIN incidents'[s] = 1..(Len(incidents[s]) + 1)
              /\ \A n \in DOMAIN incidents[s] : incidents'[s][n] = incidents[s][n]
          BY <1>1, <3>4, IncidentOpened
        <4>2. m \in 1..Len(incidents[s]) /\ Len(incidents[s]) \in Nat
          BY <1>1, <3>4 DEF TypeOK
        <4>3. m \in DOMAIN incidents'[s] /\ incidents'[s][m] = incidents[s][m]
          BY <3>4, <4>1, <4>2
        <4>4. QED
          BY <3>4, <4>3
      <3>5. CASE r = s /\ CloseIncident(s, t)
        <4>1. t.at \in Instants
          BY DEF Transition
        <4>2. QED
          BY <3>3, <3>5, <4>1 DEF CloseIncident
      <3>6. CASE r = s /\ ChangeIncident(s, t)
        BY <3>3, <3>6 DEF ChangeIncident
      <3>7. CASE KeepIncident(s, t)
        BY <2>1, <3>7 DEF KeepIncident
      <3>8. QED
        BY <3>1, <3>2, <3>4, <3>5, <3>6, <3>7 DEF RecordIncidentTransition
    <2>4. QED
      BY <2>2, <2>3
  <1>2. TypeOK /\ [Next]_vars =>
          [\A s \in Servers : \A i \in DOMAIN incidents[s] : Kept(s, i)]_vars
    BY <1>1
  <1>3. QED
    BY <1>2, TypeCorrect, PTL DEF Spec, HistoryIsKept

\* An incident is the span of one non-Healthy period.
THEOREM OneIncidentAlways == Spec => OneIncidentPerPeriod
  <1> DEFINE Spans(s) ==
         /\ Len(incidents'[s]) > Len(incidents[s]) =>
               health[s] \in {None, "Healthy"} /\ health'[s] \in Severities
         /\ OpenIncidents(s) # {} /\ health'[s] \in Severities =>
               Len(incidents'[s]) = Len(incidents[s])
  <1>1. ASSUME TypeOK, IncidentFollowsHealth, [Next]_vars, NEW r \in Servers
        PROVE  Spans(r)
    <2>0. Len(incidents[r]) \in Nat
      BY <1>1 DEF TypeOK
    <2>1. CASE incidents'[r] = incidents[r]
      BY <2>0, <2>1
    <2>2. CASE ~\E e \in Evaluators : EvaluateServerHealth(e)
      BY <1>1, <2>1, <2>2, HealthUntouched DEF healthVars
    <2>3. ASSUME NEW e \in Evaluators, EvaluateServerHealth(e)
          PROVE  Spans(r)
      <3>1. PICK s \in Servers, after \in [Rules -> RuleState], t \in Transition :
               /\ health' = [health EXCEPT ![s] = t.severity]
               /\ RecordIncidentTransition(s, t)
        BY <1>1, <2>3, EvaluationShape
      <3>2. CASE r # s
        BY <1>1, <2>1, <3>1, <3>2, OthersUntouched
      <3>3. CASE r = s /\ OpenIncident(s, t)
        <4>1. OpenIncidents(s) = {} /\ t.severity \in Severities
          BY <3>3 DEF OpenIncident, Transition
        <4>2. health[s] \in {None, "Healthy"}
          BY <1>1, <4>1 DEF IncidentFollowsHealth, FollowsHealth
        <4>3. health'[s] = t.severity
          BY <1>1, <3>1 DEF TypeOK
        <4>4. QED
          BY <3>3, <4>1, <4>2, <4>3
      <3>4. ASSUME r = s, NEW i \in OpenIncidents(s),
                   NEW closedAt \in Instants \cup {None},
                   AddTransition(s, i, t, closedAt)
            PROVE  Spans(r)
        <4>1. Len(incidents'[s]) = Len(incidents[s])
          BY <1>1, <3>4, IncidentExtended
        <4>2. QED
          BY <2>0, <3>4, <4>1
      <3>5. CASE r = s /\ CloseIncident(s, t)
        <4>1. t.at \in Instants
          BY DEF Transition
        <4>2. QED
          BY <3>4, <3>5, <4>1 DEF CloseIncident
      <3>6. CASE r = s /\ ChangeIncident(s, t)
        BY <3>4, <3>6 DEF ChangeIncident
      <3>7. CASE KeepIncident(s, t)
        BY <2>1, <3>7 DEF KeepIncident
      <3>8. QED
        BY <3>1, <3>2, <3>3, <3>5, <3>6, <3>7 DEF RecordIncidentTransition
    <2>4. QED
      BY <2>2, <2>3
  <1>2. TypeOK /\ IncidentFollowsHealth /\ [Next]_vars => [\A s \in Servers : Spans(s)]_vars
    BY <1>1
  <1>3. QED
    BY <1>2, TypeCorrect, FollowsHealthAlways, PTL DEF Spec, OneIncidentPerPeriod

-----------------------------------------------------------------------------
(***************************************************************************)
(* Every incident is a record as the Critical Alerts rely on.              *)
(***************************************************************************)
\* Whatever is under way took its time from a clock that has not gone back since.
ObservedByNow ==
    \A e \in Evaluators : evaluation[e].phase = "observed" => evaluation[e].at <= clock

LEMMA ObservedStep == TypeOK /\ ObservedByNow /\ [Next]_vars => ObservedByNow'
  <1> SUFFICES ASSUME TypeOK, ObservedByNow, [Next]_vars,
                      NEW a \in Evaluators, evaluation'[a].phase = "observed"
               PROVE  evaluation'[a].at <= clock'
    BY DEF ObservedByNow
  <1>1. /\ clock \in Int /\ clock' \in Int
        /\ evaluation[a].phase = "observed" => evaluation[a].at \in Int
    <2>1. clock' \in Int
      BY TypeStep DEF TypeOK, Instants
    <2>2. evaluation[a] \in {Idle} \cup Snapshot \cup Observation
      BY DEF TypeOK
    <2>3. QED
      BY <2>1, <2>2 DEF TypeOK, Instants, Idle, Snapshot, Observation
  <1>2. ASSUME evaluation'[a] = evaluation[a], clock <= clock'
        PROVE  evaluation'[a].at <= clock'
    BY <1>1, <1>2 DEF ObservedByNow
  <1>3. CASE Tick \/ UNCHANGED vars
    BY <1>1, <1>2, <1>3 DEF Tick, vars
  <1>4. ASSUME NEW s \in Servers, ServerStep(s)
        PROVE  evaluation'[a].at <= clock'
    BY <1>1, <1>2, <1>4 DEF ServerStep, Approved, TrustLost, FirstContact, Retired,
                            MovesTo, InventoryChanges, InventoryAccepted
  <1>5. ASSUME NEW e \in Evaluators, EvaluatorStep(e)
        PROVE  evaluation'[a].at <= clock'
    <2>1. clock' = clock
      BY <1>5 DEF EvaluatorStep, ReadServer, ObserveAnswered, ObserveUnavailable,
                  EvaluateServerHealth, EvaluationLost
    <2>2. CASE a # e
      <3>1. evaluation'[a] = evaluation[a]
        BY <1>5, <2>2 DEF EvaluatorStep, ReadServer, ObserveAnswered, ObserveUnavailable,
                          Observe, EvaluateServerHealth, EvaluationLost, TypeOK
      <3>2. QED
        BY <1>1, <1>2, <2>1, <3>1
    <2>3. CASE a = e
      <3>1. ASSUME NEW covers, NEW firing, NEW clearing, Observe(e, covers, firing, clearing)
            PROVE  evaluation'[a].at <= clock'
        BY <1>1, <2>1, <2>3, <3>1 DEF Observe, TypeOK
      <3>2. ~\E s \in Servers : ReadServer(e, s)
        BY <2>3 DEF ReadServer, TypeOK
      <3>3. ~(EvaluateServerHealth(e) \/ EvaluationLost(e))
        BY <2>3 DEF EvaluateServerHealth, EvaluationLost, Idle, TypeOK
      <3>4. QED
        BY <1>5, <3>1, <3>2, <3>3 DEF EvaluatorStep, ObserveAnswered, ObserveUnavailable
    <2>4. QED
      BY <2>2, <2>3
  <1>6. QED
    BY <1>3, <1>4, <1>5 DEF Next

\* The time a transition is recorded at has been.
LEMMA RecordedByNow ==
    ASSUME TypeOK, ObservedByNow, NEW e \in Evaluators, EvaluateServerHealth(e)
    PROVE  \E s \in Servers, t \in Transition :
              /\ t.at \in Int /\ t.at <= clock
              /\ RecordIncidentTransition(s, t)
  <1>1. PICK o \in Observation : o = evaluation[e] /\ o.at <= clock
    BY DEF EvaluateServerHealth, TypeOK, Idle, Snapshot, ObservedByNow
  <1>2. PICK s \in Servers : s = o.server
    BY DEF Observation
  <1>3. PICK after \in [Rules -> RuleState] : after = RulesAfter(s, o)
    BY RulesAfterType
  <1> DEFINE causes == ActiveRules(after)
             t == [at |-> o.at, severity |-> HealthOf(causes), causes |-> causes]
  <1>4. t \in Transition
    BY DEF Transition, Severities, HealthOf, ActiveRules, Observation
  <1>5. t.at \in Int /\ t.at <= clock
    BY <1>1 DEF Observation, Instants
  <1>6. RecordIncidentTransition(s, t)
    BY <1>1, <1>2, <1>3 DEF EvaluateServerHealth
  <1>7. QED
    BY <1>4, <1>5, <1>6

\* What is told after one more transition.
LEMMA ToldLonger ==
    ASSUME NEW rows \in Seq(Transition), NEW t \in Transition
    PROVE  [n \in DOMAIN Append(rows, t) |-> Append(rows, t)[n].severity]
           = Append([n \in DOMAIN rows |-> rows[n].severity], t.severity)
  <1> DEFINE told == [n \in DOMAIN rows |-> rows[n].severity]
             all == Severities \cup {"Healthy"}
  <1>1. told \in Seq(all) /\ Len(told) = Len(rows)
    <2>1. rows \in [1..Len(rows) -> Transition] /\ Len(rows) \in Nat
      OBVIOUS
    <2>2. told \in [1..Len(rows) -> all]
      BY <2>1 DEF Transition
    <2>3. QED
      BY <2>1, <2>2
  <1>2. /\ Append(rows, t) \in Seq(Transition)
        /\ Len(Append(rows, t)) = Len(rows) + 1
        /\ Append(rows, t)[Len(rows) + 1] = t
        /\ \A n \in 1..Len(rows) : Append(rows, t)[n] = rows[n]
    BY AppendProperties
  <1>3. t.severity \in all
    BY DEF Transition
  <1>4. /\ Append(told, t.severity) \in Seq(all)
        /\ Len(Append(told, t.severity)) = Len(rows) + 1
        /\ Append(told, t.severity)[Len(rows) + 1] = t.severity
        /\ \A n \in 1..Len(rows) : Append(told, t.severity)[n] = told[n]
    <2> HIDE DEF told, all
    <2>1. QED
      BY <1>1, <1>3, AppendProperties
  <1>5. Len(rows) \in Nat /\ DOMAIN rows = 1..Len(rows)
    OBVIOUS
  <1>6. DOMAIN Append(rows, t) = 1..(Len(rows) + 1)
    BY <1>2, <1>5
  <1>7. /\ DOMAIN Append(told, t.severity) = 1..(Len(rows) + 1)
        /\ Append(told, t.severity) = [n \in 1..(Len(rows) + 1) |-> Append(told, t.severity)[n]]
    <2> HIDE DEF told, all
    <2>1. QED
      BY <1>4, <1>5
  <1>8. \A n \in 1..(Len(rows) + 1) : Append(rows, t)[n].severity = Append(told, t.severity)[n]
    BY <1>2, <1>4, <1>5
  <1>9. QED
    BY <1>6, <1>7, <1>8

\* An evaluation is to each incident a step of its record, or none.
LEMMA RecordMapped ==
    ASSUME TypeOK, NEW s \in Servers, NEW t \in Transition, t.at \in Int, t.at <= clock,
           RecordIncidentTransition(s, t), NEW r \in Servers, NEW m \in 1..MaxIncidents
    PROVE  [Record(r, m)!RecordNext]_(Record(r, m)!incidentVars)
  <1>1. ASSUME incidents'[r] = incidents[r]
        PROVE  UNCHANGED Record(r, m)!incidentVars
    BY <1>1 DEF Record!incidentVars, Column, Told
  <1>2. CASE r # s
    BY <1>1, <1>2, OthersUntouched
  <1>3. CASE r = s /\ OpenIncident(s, t)
    <2>1. /\ incidents[s] \in Seq(Incident)
          /\ DOMAIN incidents'[s] = 1..(Len(incidents[s]) + 1)
          /\ \A n \in DOMAIN incidents[s] : incidents'[s][n] = incidents[s][n]
          /\ incidents'[s][Len(incidents[s]) + 1] =
                [openedAt |-> t.at, closedAt |-> None, severity |-> t.severity,
                 transitions |-> <<t>>]
      BY <1>3, IncidentOpened
    <2>2. DOMAIN incidents[s] = 1..Len(incidents[s]) /\ Len(incidents[s]) \in Nat
      BY <2>1
    <2>3. CASE m = Len(incidents[s]) + 1
      <3>1. m \notin DOMAIN incidents[s] /\ m \in DOMAIN incidents'[s]
        BY <2>1, <2>2, <2>3
      <3>2. /\ Column(s, m, "openedAt") = None /\ Column(s, m, "closedAt") = None
            /\ Told(s, m) = <<>>
        BY <3>1 DEF Column, Told
      <3>3. /\ Column(s, m, "openedAt")' = t.at
            /\ Column(s, m, "closedAt")' = None
        BY <2>1, <2>3, <3>1 DEF Column
      <3>4. Told(s, m)' = <<t.severity>>
        BY <2>1, <2>3, <3>1 DEF Told
      <3>5. t.severity \in Severities
        BY <1>3 DEF OpenIncident, Transition
      <3>6. Record(s, m)!RecordOpens(t.severity)
        BY <3>2, <3>3, <3>4 DEF Record!RecordOpens
      <3>7. QED
        BY <1>3, <3>5, <3>6 DEF Record!RecordNext, Record!Severities, Severities
    <2>4. CASE m # Len(incidents[s]) + 1
      <3>1. m \in DOMAIN incidents'[s] <=> m \in DOMAIN incidents[s]
        BY <2>1, <2>2, <2>4
      <3>2. QED
        BY <1>3, <2>1, <3>1 DEF Record!incidentVars, Column, Told
    <2>5. QED
      BY <2>3, <2>4
  <1>4. ASSUME r = s, NEW i \in OpenIncidents(s), NEW closedAt \in Instants \cup {None},
               AddTransition(s, i, t, closedAt)
        PROVE  /\ m # i => UNCHANGED Record(r, m)!incidentVars
               /\ m = i => /\ Record(r, m)!IncidentOpen
                          /\ Column(r, m, "openedAt")' = Column(r, m, "openedAt")
                          /\ Column(r, m, "closedAt")' = closedAt
                          /\ Told(r, m)' = Append(Told(r, m), t.severity)
    <2>1. /\ incidents[s] \in Seq(Incident)
          /\ i \in DOMAIN incidents[s]
          /\ incidents[s][i] \in Incident
          /\ DOMAIN incidents'[s] = DOMAIN incidents[s]
          /\ \A n \in DOMAIN incidents[s] \ {i} : incidents'[s][n] = incidents[s][n]
          /\ incidents'[s][i].openedAt = incidents[s][i].openedAt
          /\ incidents'[s][i].closedAt = closedAt
          /\ incidents'[s][i].transitions = Append(incidents[s][i].transitions, t)
      BY <1>4, IncidentExtended, SMTT(30)
    <2>2. CASE m # i
      <3>1. /\ m \in DOMAIN incidents'[r] <=> m \in DOMAIN incidents[r]
            /\ m \in DOMAIN incidents[r] => incidents'[r][m] = incidents[r][m]
        BY <1>4, <2>1, <2>2
      <3>2. QED
        BY <2>2, <3>1 DEF Record!incidentVars, Column, Told
    <2>3. CASE m = i
      <3>1. incidents[s][i].openedAt \in Int /\ incidents[s][i].closedAt = None
        BY <2>1 DEF Incident, Instants, OpenIncidents
      <3>2. Record(r, m)!IncidentOpen
        BY <1>4, <2>1, <2>3, <3>1, NoneAssumption DEF Record!IncidentOpen, Column
      <3>3. /\ Column(r, m, "openedAt")' = Column(r, m, "openedAt")
            /\ Column(r, m, "closedAt")' = closedAt
        <4>1. /\ m \in DOMAIN incidents[r] /\ m \in DOMAIN incidents'[r]
              /\ incidents'[r][m].openedAt = incidents[r][m].openedAt
              /\ incidents'[r][m].closedAt = closedAt
          BY <1>4, <2>1, <2>3
        <4>2. QED
          BY <4>1 DEF Column
      <3>4. incidents[s][i].transitions \in Seq(Transition)
        BY <2>1 DEF Incident
      <3>5. Told(r, m)' = Append(Told(r, m), t.severity)
        <4>1. Told(r, m) = [n \in DOMAIN incidents[s][i].transitions |->
                               incidents[s][i].transitions[n].severity]
          BY <1>4, <2>1, <2>3 DEF Told
        <4>2. Told(r, m)' = [n \in DOMAIN Append(incidents[s][i].transitions, t) |->
                                Append(incidents[s][i].transitions, t)[n].severity]
          BY <1>4, <2>1, <2>3 DEF Told
        <4>3. QED
          BY <3>4, <4>1, <4>2, ToldLonger
      <3>6. QED
        BY <2>3, <3>2, <3>3, <3>5
    <2>4. QED
      BY <2>2, <2>3
  <1>5. CASE r = s /\ CloseIncident(s, t)
    <2>1. PICK i \in OpenIncidents(s) : t.severity = "Healthy" /\ AddTransition(s, i, t, t.at)
      BY <1>5 DEF CloseIncident
    <2>2. t.at \in Instants
      BY DEF Transition
    <2>3. m = i => Record(r, m)!RecordCloses
      BY <1>4, <1>5, <2>1, <2>2 DEF Record!RecordCloses
    <2>4. QED
      BY <1>4, <1>5, <2>1, <2>2, <2>3 DEF Record!RecordNext
  <1>6. CASE r = s /\ ChangeIncident(s, t)
    <2>1. PICK i \in OpenIncidents(s) : t.severity # "Healthy" /\ AddTransition(s, i, t, None)
      BY <1>6 DEF ChangeIncident
    <2>2. t.severity \in Severities
      BY <2>1 DEF Transition
    <2>3. m = i => Record(r, m)!RecordChanges(t.severity)
      <3>1. m = i => Column(r, m, "closedAt") = None
        BY <1>4, <1>6, <2>1 DEF Record!IncidentOpen
      <3>2. QED
        BY <1>4, <1>6, <2>1, <3>1 DEF Record!RecordChanges
    <2>4. QED
      BY <1>4, <1>6, <2>1, <2>2, <2>3 DEF Record!RecordNext, Record!Severities, Severities
  <1>7. CASE KeepIncident(s, t)
    BY <1>1, <1>7 DEF KeepIncident
  <1>8. QED
    BY <1>2, <1>3, <1>5, <1>6, <1>7 DEF RecordIncidentTransition

\* However evaluations overtake each other between taking the time and committing, each
\* incident is a record as CriticalAlerts takes it to be: opened once, added to while it
\* is open, closed once, and never dated ahead of the clock.
THEOREM IncidentsAreRecords == Spec => ImplementsIncidentRecord
  <1>1. Init => ObservedByNow
    BY DEF Init, ObservedByNow, Idle
  <1>2. Init => \A s \in Servers, i \in 1..MaxIncidents : Record(s, i)!RecordInit
    BY DEF Init, Record!RecordInit, Column, Told
  <1>3. ASSUME TypeOK, ObservedByNow, [Next]_vars, NEW r \in Servers, NEW m \in 1..MaxIncidents
        PROVE  [Record(r, m)!RecordNext]_(Record(r, m)!incidentVars)
    <2>1. ASSUME NEW e \in Evaluators, EvaluateServerHealth(e)
          PROVE  [Record(r, m)!RecordNext]_(Record(r, m)!incidentVars)
      BY <1>3, <2>1, RecordedByNow, RecordMapped
    <2>2. CASE ~\E e \in Evaluators : EvaluateServerHealth(e)
      BY <1>3, <2>2, HealthUntouched DEF healthVars, Record!incidentVars, Column, Told
    <2>3. QED
      BY <2>1, <2>2
  <1>4. TypeOK /\ ObservedByNow /\ [Next]_vars =>
          [\A s \in Servers, i \in 1..MaxIncidents :
             [Record(s, i)!RecordNext]_(Record(s, i)!incidentVars)]_vars
    BY <1>3
  <1>5. QED
    BY <1>1, <1>2, <1>4, ObservedStep, TypeCorrect, PTL DEF Spec, ImplementsIncidentRecord

=============================================================================
