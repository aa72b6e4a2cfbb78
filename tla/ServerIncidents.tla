--------------------------- MODULE ServerIncidents ---------------------------
(***************************************************************************)
(* Server Health and Server Incidents: how an observation of a server      *)
(* moves its health rules, and how the rules open, change and close the    *)
(* server's incident (health.py).                                          *)
(*                                                                         *)
(* An evaluation reads the server's row, asks Prometheus, takes the time   *)
(* and only then opens its transaction (observation.py, app.py).  The      *)
(* observation engine and every page request evaluate, so several are      *)
(* under way for one server, and each is four actions here.                *)
(*                                                                         *)
(* A rule is abstract: what matters of an observation is which rules it    *)
(* covers and which of them it finds firing or clearing (HealthRules says  *)
(* when it does, RuleTimers how a rule then moves); a rule that is not in  *)
(* rule_state_json is an inactive one.  evaluated_at, which nothing reads, *)
(* is left out.                                                            *)
(*                                                                         *)
(* An operator X_Slip beside X is X as a slip in the code would have it,   *)
(* to show which property would notice; nothing uses it.                   *)
(***************************************************************************)
EXTENDS Integers, Sequences, FiniteSets, RuleTimers

CONSTANTS
    Servers,
    Evaluators,       \* threads that evaluate: the engine and page requests
    Engine,           \* the one of them that is the observation engine
    PrimaryTelemetry, \* the rule that makes a server Unavailable
    InventoryChange,  \* the rule about a pending inventory change
    SteadyRules,      \* rules in every observation: pressure, disks, completeness
    EvidenceRules,    \* rules only in an observation Prometheus answered:
                      \* services, temperatures, critical errors, GPUs
    FiringHold,       \* firing_seconds of each rule
    ClearingHold,     \* clearing_seconds of each rule
    LastInstant,      \* bound: the clock stops here
    MaxIncidents,     \* bound: incidents of one server
    MaxTransitions    \* bound: transitions of one incident

Rules == {PrimaryTelemetry, InventoryChange} \cup SteadyRules \cup EvidenceRules
Instants == 0..LastInstant

ASSUME RulesAssumption ==
    /\ PrimaryTelemetry # InventoryChange
    /\ {PrimaryTelemetry, InventoryChange} \cap (SteadyRules \cup EvidenceRules) = {}
    /\ SteadyRules \cap EvidenceRules = {}
    /\ FiringHold \in [Rules -> Nat]
    /\ ClearingHold \in [Rules -> Nat]

ASSUME BoundsAssumption ==
    /\ LastInstant \in Nat
    /\ MaxIncidents \in Nat
    /\ MaxTransitions \in Nat

ASSUME NoneAssumption ==
    None \notin Int \cup {"Healthy", "Degraded", "Unavailable"}

VARIABLES
    clock,
    enrollmentState,  \* servers.enrollment_state
    inventoryPending, \* a row in pending_inventory_changes
    rule,             \* server_health_evaluations.rule_state_json
    health,           \* server_health_evaluations.current_health
    incidents,        \* server_incidents and their transitions, oldest first
    evaluation        \* what each evaluator has read so far

serverVars == <<enrollmentState, inventoryPending>>
healthVars == <<rule, health, incidents>>
vars == <<clock, serverVars, healthVars, evaluation>>

-----------------------------------------------------------------------------
EnrollmentStates == {"pending-verification", "active", "re-enrollment-required", "retired"}
Severities == {"Degraded", "Unavailable"}
RuleState == [active: BOOLEAN, since: Instants \cup {None}]
Transition == [at: Instants, severity: Severities \cup {"Healthy"}, causes: SUBSET Rules]
Incident == [openedAt: Instants, closedAt: Instants \cup {None},
             severity: Severities \cup {"Healthy"}, transitions: Seq(Transition)]

Idle == [phase |-> "idle"]
Snapshot == [phase: {"snapshot"}, server: Servers, reachable: BOOLEAN, matches: BOOLEAN]
Observation == [phase: {"observed"}, server: Servers, at: Instants,
                covers: SUBSET Rules, firing: SUBSET Rules, clearing: SUBSET Rules]

TypeOK ==
    /\ clock \in Instants
    /\ enrollmentState \in [Servers -> EnrollmentStates]
    /\ inventoryPending \in [Servers -> BOOLEAN]
    /\ rule \in [Servers -> [Rules -> RuleState]]
    /\ health \in [Servers -> Severities \cup {"Healthy", None}]
    /\ incidents \in [Servers -> Seq(Incident)]
    /\ evaluation \in [Evaluators -> {Idle} \cup Snapshot \cup Observation]

Init ==
    /\ clock = 0
    /\ enrollmentState = [s \in Servers |-> "pending-verification"]
    /\ inventoryPending = [s \in Servers |-> FALSE]
    /\ rule = [s \in Servers |-> [r \in Rules |-> Inactive]]
    /\ health = [s \in Servers |-> None]
    /\ incidents = [s \in Servers |-> <<>>]
    /\ evaluation = [e \in Evaluators |-> Idle]

-----------------------------------------------------------------------------
(***************************************************************************)
(* Time, and what other transactions do to the rows an evaluation reads.   *)
(***************************************************************************)
Tick ==
    /\ clock < LastInstant
    /\ clock' = clock + 1
    /\ UNCHANGED <<serverVars, healthVars, evaluation>>

MovesTo(s, from, to) ==
    /\ enrollmentState[s] \in from
    /\ enrollmentState' = [enrollmentState EXCEPT ![s] = to]
    /\ UNCHANGED <<clock, inventoryPending, healthVars, evaluation>>

\* Approval, loss of the certificate, a new first contact, and retirement; none of
\* them touches a table of health.py.  Awaiting First Contact is not told apart from
\* Pending Verification: neither is evaluated.
Approved(s)     == MovesTo(s, {"pending-verification"}, "active")
TrustLost(s)    == MovesTo(s, {"active", "pending-verification"}, "re-enrollment-required")
FirstContact(s) == MovesTo(s, {"re-enrollment-required"}, "pending-verification")
Retired(s)      == MovesTo(s, EnrollmentStates \ {"retired"}, "retired")

\* The inventory of an active server, or the activation of a profile for a server in
\* any state, reports hardware that differs from the verified one.
InventoryChanges(s) ==
    /\ ~inventoryPending[s]
    /\ inventoryPending' = [inventoryPending EXCEPT ![s] = TRUE]
    /\ UNCHANGED <<clock, enrollmentState, healthVars, evaluation>>

InventoryAccepted(s) ==
    /\ inventoryPending[s]
    /\ inventoryPending' = [inventoryPending EXCEPT ![s] = FALSE]
    /\ UNCHANGED <<clock, enrollmentState, healthVars, evaluation>>

-----------------------------------------------------------------------------
(***************************************************************************)
(* An evaluation up to its transaction.                                    *)
(***************************************************************************)
ReadServer(e, s) ==
    /\ evaluation[e] = Idle
    /\ enrollmentState[s] \in {"active", "re-enrollment-required"}
    /\ evaluation' = [evaluation EXCEPT ![e] =
           [phase |-> "snapshot", server |-> s,
            reachable |-> enrollmentState[s] = "active",
            matches |-> ~inventoryPending[s]]]
    /\ UNCHANGED <<clock, serverVars, healthVars>>

\* Only a page says whether the inventory matches; the engine leaves the rule out.
InventoryCovered(e) == IF e = Engine THEN {} ELSE {InventoryChange}

Observe(e, covers, firing, clearing) ==
    LET read == evaluation[e]
        told == InventoryCovered(e)
    IN  evaluation' = [evaluation EXCEPT ![e] =
           [phase |-> "observed", server |-> read.server, at |-> clock,
            covers |-> covers \cup told,
            firing |-> firing \cup (IF read.matches THEN {} ELSE told),
            clearing |-> clearing \cup (IF read.matches THEN told ELSE {})]]

\* Prometheus answers: a rule fires, clears, or does neither, between its two
\* thresholds or for want of a series; primary telemetry is up or it is not.
ObserveAnswered(e, firing, clearing) ==
    LET covered == {PrimaryTelemetry} \cup SteadyRules \cup EvidenceRules
    IN  /\ evaluation[e].phase = "snapshot"
        /\ evaluation[e].reachable
        /\ firing \cup clearing \subseteq covered
        /\ firing \cap clearing = {}
        /\ PrimaryTelemetry \in firing \cup clearing
        /\ Observe(e, covered, firing, clearing)
        /\ UNCHANGED <<clock, serverVars, healthVars>>

\* Prometheus does not answer, or the server has no trusted collector to ask.
ObserveUnavailable(e) ==
    /\ evaluation[e].phase = "snapshot"
    /\ Observe(e, {PrimaryTelemetry} \cup SteadyRules, {PrimaryTelemetry}, {})
    /\ UNCHANGED <<clock, serverVars, healthVars>>

\* The process stops, or the transaction finds the database locked for too long.
EvaluationLost(e) ==
    /\ evaluation[e] # Idle
    /\ evaluation' = [evaluation EXCEPT ![e] = Idle]
    /\ UNCHANGED <<clock, serverVars, healthVars>>

-----------------------------------------------------------------------------
(***************************************************************************)
(* The rules.                                                              *)
(***************************************************************************)
RulesAfter(s, o) ==
    [r \in Rules |->
        IF r \notin o.covers THEN Inactive
        ELSE Evaluated(rule[s][r], o.at, r \in o.firing, r \in o.clearing,
                       FiringHold[r], ClearingHold[r])]

ActiveRules(states) == {r \in Rules : states[r].active}

HealthOf(causes) ==
    IF PrimaryTelemetry \in causes THEN "Unavailable"
    ELSE IF causes # {} THEN "Degraded" ELSE "Healthy"

-----------------------------------------------------------------------------
(***************************************************************************)
(* The incident, in the evaluation's transaction.                          *)
(***************************************************************************)
OpenIncidents_Any(s) == DOMAIN incidents[s]
OpenIncidents_Degraded(s) ==
    {i \in DOMAIN incidents[s] : incidents[s][i].severity = "Degraded"}

OpenIncidents(s) == {i \in DOMAIN incidents[s] : incidents[s][i].closedAt = None}

Latest(incident) == incident.transitions[Len(incident.transitions)]

Repeats_Never(incident, t) == FALSE
Repeats_Severity(incident, t) == Latest(incident).severity = t.severity

Repeats(incident, t) ==
    Latest(incident).severity = t.severity /\ Latest(incident).causes = t.causes

OpenIncident(s, t) ==
    /\ OpenIncidents(s) = {}
    /\ t.severity # "Healthy"
    /\ Len(incidents[s]) < MaxIncidents
    /\ incidents' = [incidents EXCEPT ![s] = Append(@,
           [openedAt |-> t.at, closedAt |-> None, severity |-> t.severity,
            transitions |-> <<t>>])]

WithTransition(incident, t, closedAt) ==
    [incident EXCEPT !.closedAt = closedAt, !.severity = t.severity,
                     !.transitions = Append(incident.transitions, t)]

AddTransition(s, i, t, closedAt) ==
    incidents' = [incidents EXCEPT
                     ![s][i] = WithTransition(incidents[s][i], t, closedAt)]

CloseIncident(s, t) ==
    \E i \in OpenIncidents(s) :
        /\ t.severity = "Healthy"
        /\ AddTransition(s, i, t, t.at)

ChangeIncident(s, t) ==
    \E i \in OpenIncidents(s) :
        /\ t.severity # "Healthy"
        /\ ~Repeats(incidents[s][i], t)
        /\ Len(incidents[s][i].transitions) < MaxTransitions
        /\ AddTransition(s, i, t, None)

KeepIncident(s, t) ==
    /\ \/ OpenIncidents(s) = {} /\ t.severity = "Healthy"
       \/ \E i \in OpenIncidents(s) :
             t.severity # "Healthy" /\ Repeats(incidents[s][i], t)
    /\ UNCHANGED incidents

RecordIncidentTransition(s, t) ==
    \/ OpenIncident(s, t)
    \/ CloseIncident(s, t)
    \/ ChangeIncident(s, t)
    \/ KeepIncident(s, t)

EvaluateServerHealth(e) ==
    LET o == evaluation[e]
        s == o.server
        after == RulesAfter(s, o)
        causes == ActiveRules(after)
    IN  /\ o.phase = "observed"
        /\ rule' = [rule EXCEPT ![s] = after]
        /\ health' = [health EXCEPT ![s] = HealthOf(causes)]
        /\ RecordIncidentTransition(s,
               [at |-> o.at, severity |-> HealthOf(causes), causes |-> causes])
        /\ evaluation' = [evaluation EXCEPT ![e] = Idle]
        /\ UNCHANGED <<clock, serverVars>>

-----------------------------------------------------------------------------
ServerStep(s) ==
    \/ Approved(s) \/ TrustLost(s) \/ FirstContact(s) \/ Retired(s)
    \/ InventoryChanges(s) \/ InventoryAccepted(s)

EvaluatorStep(e) ==
    \/ \E s \in Servers : ReadServer(e, s)
    \/ \E firing, clearing \in SUBSET Rules : ObserveAnswered(e, firing, clearing)
    \/ ObserveUnavailable(e)
    \/ EvaluateServerHealth(e)
    \/ EvaluationLost(e)

Next ==
    \/ Tick
    \/ \E s \in Servers : ServerStep(s)
    \/ \E e \in Evaluators : EvaluatorStep(e)

Spec == Init /\ [][Next]_vars

-----------------------------------------------------------------------------
(***************************************************************************)
(* The record of the i-th incident of a server.                            *)
(***************************************************************************)
Column(s, i, field) ==
    IF i \in DOMAIN incidents[s] THEN incidents[s][i][field] ELSE None

Told(s, i) ==
    IF i \in DOMAIN incidents[s]
    THEN LET rows == incidents[s][i].transitions
         IN  [n \in DOMAIN rows |-> rows[n].severity]
    ELSE <<>>

Record(s, i) == INSTANCE IncidentRecord WITH
    openedAt <- Column(s, i, "openedAt"),
    closedAt <- Column(s, i, "closedAt"),
    transitions <- Told(s, i)

-----------------------------------------------------------------------------
(***************************************************************************)
(* Safety.                                                                 *)
(***************************************************************************)
FollowsHealth(s) ==
    LET causes == ActiveRules(rule[s])
        open == incidents[s][Len(incidents[s])]
    IN  IF causes = {}
        THEN health[s] \in {None, "Healthy"} /\ OpenIncidents(s) = {}
        ELSE /\ health[s] = HealthOf(causes)
             /\ OpenIncidents(s) = {Len(incidents[s])}
             /\ open.severity = health[s]
             /\ Latest(open).severity = health[s]
             /\ Latest(open).causes = causes

\* The rules, the recorded health and the incident say one thing, whichever
\* evaluation committed last: a server that is not Healthy has one open incident, of
\* that severity, whose latest transition names the rules that are active now; any
\* other server has none open.
IncidentFollowsHealth == \A s \in Servers : FollowsHealth(s)

TellsChanges(incident) ==
    LET steps == incident.transitions
    IN  /\ Len(steps) > 0
        /\ steps[1].severity # "Healthy"
        /\ Latest(incident).severity = incident.severity
        /\ Latest(incident).severity = "Healthy" <=> incident.closedAt # None
        /\ \A n \in 1..(Len(steps) - 1) :
              /\ steps[n].severity # "Healthy"
              /\ \/ steps[n].severity # steps[n + 1].severity
                 \/ steps[n].causes # steps[n + 1].causes

\* A history notifies of changes only: an incident starts non-Healthy, each transition
\* differs from the one before it, and the Healthy one is the last, of an incident
\* that is closed.  The row shows the severity of the last.
TransitionsAreChanges ==
    \A s \in Servers : \A i \in DOMAIN incidents[s] : TellsChanges(incidents[s][i])

\* No evaluation, however late it commits, rewrites history: incidents and their
\* transitions are only added to, and those of a closed incident not even that.
HistoryIsKept ==
    [][\A s \in Servers : \A i \in DOMAIN incidents[s] :
          /\ i \in DOMAIN incidents'[s]
          /\ incidents[s][i].closedAt # None => incidents'[s][i] = incidents[s][i]
          /\ incidents'[s][i].openedAt = incidents[s][i].openedAt
          /\ \A n \in DOMAIN incidents[s][i].transitions :
                /\ n \in DOMAIN incidents'[s][i].transitions
                /\ incidents'[s][i].transitions[n] = incidents[s][i].transitions[n]]_vars

\* One incident spans one period: a new one opens only as the server leaves Healthy,
\* and one closes only as the server returns to it; escalation and improvement stay
\* inside it.
OneIncidentPerPeriod ==
    [][\A s \in Servers :
          /\ Len(incidents'[s]) > Len(incidents[s]) =>
                health[s] \in {None, "Healthy"} /\ health'[s] \in Severities
          /\ OpenIncidents(s) # {} /\ health'[s] \in Severities =>
                Len(incidents'[s]) = Len(incidents[s])]_vars

\* Each incident is recorded as the Critical Alerts take it to be: opened once, added to
\* while it is open, closed once, and never dated ahead of the clock, however evaluations
\* overtake each other between taking the time and committing.
ImplementsIncidentRecord ==
    /\ \A s \in Servers, i \in 1..MaxIncidents : Record(s, i)!RecordInit
    /\ [][\A s \in Servers, i \in 1..MaxIncidents :
             [Record(s, i)!RecordNext]_(Record(s, i)!incidentVars)]_vars

-----------------------------------------------------------------------------
(***************************************************************************)
(* What the documents say, and the code does not keep.                     *)
(***************************************************************************)
\* An open incident raises a Critical Alert; only a server that is enrolled has one.
OnlyEnrolledAlerted ==
    \A s \in Servers : enrollmentState[s] \in {"pending-verification", "retired"} =>
        OpenIncidents(s) = {}

\* A rule that has fired stays active until its clearing condition has been observed
\* for the whole of its hold.
ClearsOnlyAfterHold ==
    [][\A s \in Servers, r \in Rules :
          rule[s][r].active /\ ~rule'[s][r].active /\ ClearingHold[r] > 0 =>
              rule[s][r].since # None]_vars
=============================================================================
