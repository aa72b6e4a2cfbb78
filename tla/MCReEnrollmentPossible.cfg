CONSTANTS
    Servers = {s1}
    Fingerprints = {f1, f2, f3}
    Tokens = {t1, t2}
    Addresses = {a1}
    Workers = {w1, w2}
    None = None
SPECIFICATION Spec
INVARIANT ReEnrollmentPossible
