CONSTANTS
    Servers = {s1, s2}
    Fingerprints = {f1, f2, f3}
    Tokens = {t1, t2}
    Addresses = {a1}
    Workers = {w1, w2}
    None = None
SPECIFICATION Spec
SYMMETRY Symmetry
INVARIANTS
    TypeOK
    CertificateTrusted
    RetiredHoldsNothing
    ActiveIsObservable
    ReviewMatchesState
PROPERTIES
    FirstContactSpendsToken
    ImplementsLifecycle
    ImplementsScrapeTargets
