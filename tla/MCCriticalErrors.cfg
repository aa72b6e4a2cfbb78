CONSTANTS
    IoErrors = {"sda"}
    Watched = "storage-io-error"
    Fresh <- MCFresh
    Hold <- MCHold
    ScrapeEvery <- MCScrapeEvery
    MaxBoots = 2
    MaxTime = 6
    None = None
SPECIFICATION Spec
CHECK_DEADLOCK FALSE
INVARIANTS
    TypeOK
    CountedOnce
    EventIsHeard
    EventHolds
PROPERTIES
    CountersNeverGoBack
