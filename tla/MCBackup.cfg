CONSTANTS
    Servers = {s1}
    Collector = Collector
    Threads = {p1, p2}
    None = None
    MaxRuns = 3
SPECIFICATION Spec
INVARIANTS
    TypeOK
    IdentityIsOnePiece
    RestoredIsTrusted
PROPERTIES
    TrustStands
