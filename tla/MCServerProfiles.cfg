CONSTANTS
    general = general
    sensorProfile = sensorProfile
    cpuPackage = cpuPackage
    Servers = {s1}
    Profiles = {general, sensorProfile}
    MaxRevision = 2
    MaxActivations = 2
    Sensors = {cpuPackage}
    Definitions <- MCDefinitions
    Devices = {d1}
    SeededProfiles = {general}
    SeedRequires <- MCSeedRequires
    None = None
SPECIFICATION Spec
INVARIANTS
    TypeOK
    NoDraftInForce
    ActiveRecordsAgree
    StagingFitsServer
PROPERTIES
    ExplicitStagingWaits
    AppliedIsActive
    ActivatedOnVerifiedHardware
