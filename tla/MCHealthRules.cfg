CONSTANTS
    Readings <- MCReadings
    Instants <- MCInstants
    Baseline <- MCBaseline
    FiringHold <- MCFiringHold
    ClearingHold <- MCClearingHold
    Unknown = Unknown
    None = None
SPECIFICATION Spec
INVARIANTS
    OverridesOnlyTighten
PROPERTIES
    HoldsAreKept
