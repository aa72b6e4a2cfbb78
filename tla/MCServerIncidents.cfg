CONSTANTS
    s1 = s1
    e1 = e1
    e2 = e2
    telemetry = telemetry
    inventory = inventory
    service = service
    Servers = {s1}
    Evaluators = {e1, e2}
    Engine = e1
    PrimaryTelemetry = telemetry
    InventoryChange = inventory
    SteadyRules = {}
    EvidenceRules = {}
    FiringHold <- MCFiringHold
    ClearingHold <- MCClearingHold
    LastInstant = 2
    MaxIncidents = 2
    MaxTransitions = 2
    None = None
SPECIFICATION Spec
CHECK_DEADLOCK FALSE
INVARIANTS
    TypeOK
    IncidentFollowsHealth
    TransitionsAreChanges
PROPERTIES
    OneIncidentPerPeriod
    ImplementsIncidentRecord
