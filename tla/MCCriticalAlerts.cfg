CONSTANTS
    MaxTime = 5
    MaxWindows = 2
    MaxTransitions = 2
    CommitLag <- MCCommitLag
    RecoverySeconds <- MCRecoverySeconds
    None = None
SPECIFICATION Spec
INVARIANTS
    TypeOK
    ContainmentIsCoverage
    IncidentIsHeard
    RecoveryIsHeard
PROPERTIES
    CauseChangesStaySilent
