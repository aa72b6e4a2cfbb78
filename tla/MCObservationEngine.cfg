CONSTANTS
    Servers = {s1, s2}
    Addresses = {a1}
    Approvers = {p1}
    None = None
SPECIFICATION Spec
INVARIANTS
    TypeOK
    StopIsHeard
PROPERTIES
    ConfigurationFollows
    EvaluatedAgainAndAgain
